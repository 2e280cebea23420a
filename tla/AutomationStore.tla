-------------------------- MODULE AutomationStore --------------------------
(***************************************************************************)
(* Accepting habit proposals: the goodvibes.accept_habit service and the    *)
(* read-check-append-swap of automations.yaml it performs in an executor    *)
(* thread under a per-hass asyncio lock (custom_components/goodvibes/       *)
(* habits.py, services.py).                                                 *)
(*                                                                          *)
(* The coroutines of the calls interleave at their awaits; a thread's job   *)
(* interleaves at each of its file operations, with the loop, with other    *)
(* jobs and with Home Assistant's own automation editor, which rewrites the *)
(* same file under a lock of its own.                                       *)
(***************************************************************************)
EXTENDS FiniteSets

CONSTANTS
    Calls,         \* accept_habit calls
    Ids,           \* automation ids
    Existing,      \* the automations the file holds to begin with
    IdOf,          \* IdOf[c]: the automation of the proposal c names
    Admins,        \* the calls that pass the admin check
    Confirmed,     \* the calls made with confirm: CREATE
    Cancellable,   \* the calls whose task may be cancelled (a stopped script)
    EditedIds,     \* automations the editor may add
    HasReload,     \* the automation integration offers automation.reload
    NoCall         \* the lock is free

ASSUME CallsAssumption ==
    /\ IdOf \in [Calls -> Ids]
    /\ Existing \subseteq Ids
    /\ NoCall \notin Calls
    /\ Cancellable \subseteq Calls
    /\ EditedIds \subseteq Ids
    /\ HasReload \in BOOLEAN

VARIABLES
    proposals,   \* the ids of runtime.habit_proposals
    file,        \* the ids in automations.yaml
    loaded,      \* the ids of the automations that are running
    lock,        \* automations_yaml_lock: the call that holds it, or NoCall
    pc,          \* pc[c]: where the coroutine of call c is
    job,         \* job[c]: where its executor job is, or how it ended
    list,        \* list[c]: the list the job holds in memory
    draft        \* the lists the editor holds in memory: none, or one

vars == <<proposals, file, loaded, lock, pc, job, list, draft>>

Ended == {"swapped", "exists", "failed"}

TypeOK ==
    /\ proposals \subseteq Ids
    /\ file \subseteq Ids
    /\ loaded \subseteq Ids
    /\ lock \in Calls \cup {NoCall}
    /\ pc \in [Calls -> {"idle", "waiting", "writing", "reloading",
                         "created", "refused", "lost"}]
    /\ job \in [Calls -> {"none", "queued", "loaded", "saved"} \cup Ended]
    /\ list \in [Calls -> SUBSET Ids]
    /\ draft \subseteq SUBSET Ids

\* Home Assistant has started: it runs what the file holds.
Init ==
    /\ proposals = {}
    /\ file = Existing
    /\ loaded = file
    /\ lock = NoCall
    /\ pc = [c \in Calls |-> "idle"]
    /\ job = [c \in Calls |-> "none"]
    /\ list = [c \in Calls |-> {}]
    /\ draft = {}

-----------------------------------------------------------------------------
(* The services.                                                               *)

\* async_apply_habit_proposals, of the timer or of goodvibes.habit_proposals:
\* the analysis of what has been observed by then replaces the proposals.
Analyse ==
    /\ proposals' \in SUBSET {IdOf[c] : c \in Calls}
    /\ UNCHANGED <<file, loaded, lock, pc, job, list, draft>>

\* Mutant: the confirmation is not asked for.
AcceptUnconfirmed(c) ==
    /\ pc[c] = "idle"
    /\ pc' = [pc EXCEPT ![c] =
                 IF c \in Admins /\ IdOf[c] \in proposals THEN "waiting" ELSE "refused"]
    /\ UNCHANGED <<proposals, file, loaded, lock, job, list, draft>>

\* async_accept_habit, up to the lock.
Accept(c) ==
    /\ pc[c] = "idle"
    /\ pc' = [pc EXCEPT ![c] =
                 IF c \in Admins /\ IdOf[c] \in proposals /\ c \in Confirmed
                 THEN "waiting" ELSE "refused"]
    /\ UNCHANGED <<proposals, file, loaded, lock, job, list, draft>>

\* Mutant: every call has a lock of its own.
AcquireOwnLock(c) ==
    /\ pc[c] = "waiting"
    /\ lock' = c
    /\ pc' = [pc EXCEPT ![c] = "writing"]
    /\ job' = [job EXCEPT ![c] = "queued"]
    /\ UNCHANGED <<proposals, file, loaded, list, draft>>

\* The lock is acquired and the job handed to the executor.  (asyncio.Lock serves
\* its waiters in order; any order is allowed here.)
Acquire(c) ==
    /\ pc[c] = "waiting"
    /\ lock = NoCall
    /\ lock' = c
    /\ pc' = [pc EXCEPT ![c] = "writing"]
    /\ job' = [job EXCEPT ![c] = "queued"]
    /\ UNCHANGED <<proposals, file, loaded, list, draft>>

-----------------------------------------------------------------------------
(* _read_and_write, in the executor thread.                                    *)

\* Mutant: the check for the id is dropped.
LoadWithoutCheck(c) ==
    /\ job[c] = "queued"
    /\ list' = [list EXCEPT ![c] = file \cup {IdOf[c]}]
    /\ job' = [job EXCEPT ![c] = "loaded"]
    /\ UNCHANGED <<proposals, file, loaded, lock, pc, draft>>

\* The file is loaded; the config is appended to the list unless its id is in it.
Load(c) ==
    /\ job[c] = "queued"
    /\ IF IdOf[c] \in file
       THEN job' = [job EXCEPT ![c] = "exists"] /\ UNCHANGED list
       ELSE /\ job' = [job EXCEPT ![c] = "loaded"]
            /\ list' = [list EXCEPT ![c] = file \cup {IdOf[c]}]
    /\ UNCHANGED <<proposals, file, loaded, lock, pc, draft>>

\* _atomic_save_yaml writes a temporary file ...
SaveTemp(c) ==
    /\ job[c] = "loaded"
    /\ job' = [job EXCEPT ![c] = "saved"]
    /\ UNCHANGED <<proposals, file, loaded, lock, pc, list, draft>>

\* ... and os.replace swaps it in.
Swap(c) ==
    /\ job[c] = "saved"
    /\ file' = list[c]
    /\ job' = [job EXCEPT ![c] = "swapped"]
    /\ UNCHANGED <<proposals, loaded, lock, pc, list, draft>>

\* Loading, saving or swapping raises (a malformed file, a full disk): the
\* temporary file is removed and the file left as it was.
JobFails(c) ==
    /\ job[c] \in {"queued", "loaded", "saved"}
    /\ job' = [job EXCEPT ![c] = "failed"]
    /\ UNCHANGED <<proposals, file, loaded, lock, pc, list, draft>>

-----------------------------------------------------------------------------
(* The rest of the call.                                                       *)

\* Mutant: an error in the job leaves the lock held.
JobReturnsKeepingLock(c) ==
    /\ pc[c] = "writing"
    /\ job[c] \in Ended
    /\ lock' = IF job[c] = "failed" THEN lock ELSE NoCall
    /\ pc' = [pc EXCEPT ![c] = IF job[c] = "swapped" THEN "reloading" ELSE "refused"]
    /\ UNCHANGED <<proposals, file, loaded, job, list, draft>>

\* The job's outcome reaches the coroutine, which leaves the lock.
JobReturns(c) ==
    /\ pc[c] = "writing"
    /\ job[c] \in Ended
    /\ lock' = NoCall
    /\ pc' = [pc EXCEPT ![c] = IF job[c] = "swapped" THEN "reloading" ELSE "refused"]
    /\ UNCHANGED <<proposals, file, loaded, job, list, draft>>

\* Mutant: the call answers without the reload.
AnswerUnloaded(c) ==
    /\ pc[c] = "reloading"
    /\ pc' = [pc EXCEPT ![c] = "created"]
    /\ UNCHANGED <<proposals, file, loaded, lock, job, list, draft>>

\* automation.reload (external: it loads what the file holds), then the answer.
Reload(c) ==
    /\ pc[c] = "reloading"
    /\ loaded' = IF HasReload THEN file ELSE loaded
    /\ pc' = [pc EXCEPT ![c] = "created"]
    /\ UNCHANGED <<proposals, file, lock, job, list, draft>>

\* The call's task is cancelled at one of its awaits.  Leaving the lock's block
\* releases the lock; a job that runs already cannot be stopped, a reload may or may
\* not have been done.
Cancel(c) ==
    /\ pc[c] \in {"waiting", "writing", "reloading"}
    /\ pc' = [pc EXCEPT ![c] = "lost"]
    /\ lock' = IF pc[c] = "writing" THEN NoCall ELSE lock
    /\ job' \in {job} \cup
          (IF job[c] = "queued" THEN {[job EXCEPT ![c] = "none"]} ELSE {})
    /\ loaded' \in {loaded} \cup (IF pc[c] = "reloading" /\ HasReload THEN {file} ELSE {})
    /\ UNCHANGED <<proposals, file, list, draft>>

-----------------------------------------------------------------------------
(* Environment.                                                                *)

\* Home Assistant's editor, under its own mutation lock: it reads the list ...
EditorReads ==
    /\ EditedIds # {} /\ draft = {}
    /\ draft' = {file}
    /\ UNCHANGED <<proposals, file, loaded, lock, pc, job, list>>

\* ... and writes it back with an automation added, and reloads.
EditorWrites ==
    /\ \E before \in draft, i \in EditedIds : file' = before \cup {i}
    /\ draft' = {}
    /\ loaded' = file'
    /\ UNCHANGED <<proposals, lock, pc, job, list>>

\* Home Assistant stops, or crashes, and starts again.
Restart ==
    /\ proposals' = {}
    /\ loaded' = file
    /\ lock' = NoCall
    /\ pc' = [c \in Calls |-> IF pc[c] \in {"waiting", "writing", "reloading"}
                              THEN "lost" ELSE pc[c]]
    /\ job' = [c \in Calls |-> IF job[c] \in {"queued", "loaded", "saved"}
                               THEN "none" ELSE job[c]]
    /\ draft' = {}
    /\ UNCHANGED <<file, list>>

-----------------------------------------------------------------------------

JobStep(c) == Load(c) \/ SaveTemp(c) \/ Swap(c) \/ JobFails(c)

CallStep(c) == JobReturns(c) \/ Reload(c)

Next ==
    \/ Analyse
    \/ \E c \in Calls : Accept(c) \/ Acquire(c) \/ JobStep(c) \/ CallStep(c)
    \/ \E c \in Cancellable : Cancel(c)
    \/ EditorReads \/ EditorWrites
    \/ Restart

Spec == Init /\ [][Next]_vars

\* The executor runs its jobs, the loop resumes its coroutines, and the lock goes
\* to some waiter when it is free.  Nothing else is assumed.
StoreFairness ==
    /\ \A c \in Calls : WF_vars(JobStep(c)) /\ WF_vars(CallStep(c))
    /\ WF_vars(\E c \in Calls : Acquire(c))

-----------------------------------------------------------------------------
(* Properties.                                                                 *)

InJob(c) == job[c] \in {"queued", "loaded", "saved"}

\* The read-check-append-write is "held under a per-hass lock end to end"
\* (habits.py:457-460): a job under way belongs to the call that holds the lock.
OneWriter == \A c \in Calls : InJob(c) => lock = c

\* "Nothing is created without this explicit acceptance" (services.py:1004-1006):
\* whatever is in the file beyond what was there and what the editor added was asked
\* for by an admin's confirmed call, through crashes, cancellations and overlaps.
OnlyByConsent ==
    \A i \in file \ (Existing \cup EditedIds) :
        \E c \in Calls : /\ IdOf[c] = i
                         /\ c \in Admins \cap Confirmed
                         /\ pc[c] \notin {"idle", "refused"}

\* A call that has answered "created" is in the file and running: no later swap
\* drops it, no later reload misses it (services.py:1028-1033).
ReportedIsRunning ==
    \A c \in Calls : pc[c] = "created" => /\ IdOf[c] \in file
                                          /\ HasReload => IdOf[c] \in loaded

\* No automation is silently dropped from the file (habits.py:457-460: "one
\* silently clobbering the other's addition"); neither calls nor editor remove any.
NothingLost == [][file \subseteq file']_vars

\* The lock is always given back: a call that waits for it gets its answer, however
\* the jobs before it end, unless it is cancelled or Home Assistant restarts.
Answered ==
    \A c \in Calls : pc[c] = "waiting" ~> pc[c] \in {"created", "refused", "lost"}

\* Accepting is atomic: each job is one step of AtomicStore, where two calls for one
\* proposal are never both answered "created".
Store == INSTANCE AtomicStore
    WITH store <- file,
         created <- {c \in Calls : job[c] = "swapped"},
         refused <- {c \in Calls : job[c] = "exists"}

ImplementsStore == Store!Spec

=============================================================================
