----------------------------- MODULE Connection -----------------------------
(***************************************************************************)
(* The daemon connection of one config entry: the single-flight refresh    *)
(* that probes the daemon, the repair issues and the availability flag it   *)
(* maintains, and the reconnect watchdog (custom_components/goodvibes/      *)
(* data.py, with the parts of __init__.py that drive it).                   *)
(*                                                                          *)
(* Everything runs on one asyncio event loop, so the code between two       *)
(* awaits is one action.  The interleavings are those of the coroutines     *)
(* that can be inside async_refresh at once: the entry's setup, the         *)
(* goodvibes.status service calls, and the reconnect attempts, which        *)
(* async_call_later starts as tasks of their own.                           *)
(***************************************************************************)
EXTENDS Naturals, FiniteSets

CONSTANTS
    Services,      \* service calls that run async_refresh (goodvibes.status)
    Attempts,      \* reconnect attempts that may be under way at once
    Setup,         \* the coroutine of async_setup_entry
    NoCaller,      \* no refresh in flight (_refresh_task is None)
    Answers,       \* how the daemon may answer: "refused", "error", "ok"
    Faults,        \* what an "ok" answer may report: "version", "capabilities", "surface"
    Cancellable,   \* the service calls whose task may be cancelled (a stopped script)
    InitialDelay,  \* RECONNECT_INITIAL_DELAY_S
    MaxDelay       \* RECONNECT_MAX_DELAY_S

Callers == Services \cup Attempts \cup {Setup}

ASSUME CallersAssumption ==
    /\ Setup \notin Services \cup Attempts
    /\ Services \cap Attempts = {}
    /\ NoCaller \notin Callers
    /\ Cancellable \subseteq Services

ASSUME EnvironmentAssumption ==
    /\ Answers \subseteq {"refused", "error", "ok"}
    /\ "ok" \in Answers
    /\ Faults \subseteq {"version", "capabilities", "surface"}

ASSUME DelayAssumption ==
    /\ InitialDelay \in Nat \ {0}
    /\ MaxDelay \in Nat
    /\ InitialDelay <= MaxDelay

\* The two faults that fail check_daemon_contract; "surface" only shows in status.
ContractFaults == {"version", "capabilities"}

\* What the daemon would answer if it were asked now: not at all ("refused": the
\* GoodVibesUnavailableError of a refused or timed-out request), with an error
\* response ("error": any other GoodVibesClientError: 401, 404, 500, bad JSON), or
\* with the four payloads, which may carry faults.
DaemonStates ==
    [answer : Answers \ {"ok"}, faults : {{}}] \cup [answer : {"ok"}, faults : SUBSET Faults]

Healthy == [answer |-> "ok", faults |-> {}]

VARIABLES
    daemon,      \* what the daemon answers now (environment)
    entry,       \* the config entry: "setup", "failed", "loaded", "unloaded"
    connected,   \* daemon_connected
    issues,      \* the daemon_* repair issues that are raised, by this runtime or before it
    status,      \* status, as far as this component writes it
    timer,       \* reconnect_unsub: 0 for None, else the delay it was scheduled with
    revoked,     \* unload has cancelled the timer (reconnect_unsub itself is kept)
    delay,       \* reconnect_delay
    judged,      \* ghost: a probe of this setup has found the daemon ready, or not
    current,     \* _refresh_task: the caller that created it, or NoCaller
    phase,       \* phase[c]: where the refresh task created by c is
    seen,        \* seen[c]: what the daemon has been while c's four reads were out
    pc,          \* pc[c]: where caller c is
    awaits,      \* awaits[c]: whose refresh task c awaits, or NoCaller
    owed         \* ghost: the connection dropped and the reconnect hook has not run since

connVars == <<connected, issues, status, timer, delay, judged>>
taskVars == <<current, phase, seen, pc, awaits>>
vars == <<daemon, entry, connVars, revoked, taskVars, owed>>

TypeOK ==
    /\ daemon \in DaemonStates
    /\ entry \in {"setup", "failed", "loaded", "unloaded"}
    /\ connected \in BOOLEAN
    /\ issues \subseteq {"unreachable"} \cup ContractFaults
    /\ status \in {"unknown", "running", "homeassistant_error", "error", "unavailable"}
    /\ timer \in 0..MaxDelay
    /\ revoked \in BOOLEAN
    /\ delay \in InitialDelay..MaxDelay
    /\ judged \in BOOLEAN
    /\ current \in Callers \cup {NoCaller}
    /\ phase \in [Callers -> {"none", "reads", "graph", "done", "cancelled"}]
    /\ seen \in [Callers -> SUBSET DaemonStates]
    /\ pc \in [Callers -> {"idle", "manifest", "refresh", "woken", "hook"}]
    /\ awaits \in [Callers -> Callers \cup {NoCaller}]
    /\ owed \in BOOLEAN

\* async_setup_entry has stored the runtime, with the dataclass defaults, and
\* awaits the manifest; services can already resolve the runtime.  The repair issues
\* are the instance's: an unload clears none, so a setup may begin under any of them.
Init ==
    /\ daemon \in DaemonStates
    /\ entry = "setup"
    /\ connected = TRUE
    /\ issues \in SUBSET ({"unreachable"} \cup ContractFaults)
    /\ status = "unknown"
    /\ timer = 0
    /\ revoked = FALSE
    /\ delay = InitialDelay
    /\ judged = FALSE
    /\ current = NoCaller
    /\ phase = [c \in Callers |-> "none"]
    /\ seen = [c \in Callers |-> {}]
    /\ pc = [c \in Callers |-> IF c = Setup THEN "manifest" ELSE "idle"]
    /\ awaits = [c \in Callers |-> NoCaller]
    /\ owed = FALSE

-----------------------------------------------------------------------------
(* Environment: the daemon stops, restarts, is upgraded, loses its token...    *)

DaemonChanges ==
    /\ \E d \in DaemonStates \ {daemon} :
          /\ daemon' = d
          /\ seen' = [c \in Callers |-> IF phase[c] = "reads" THEN seen[c] \cup {d} ELSE seen[c]]
    /\ UNCHANGED <<entry, connVars, revoked, current, phase, pc, awaits, owed>>

-----------------------------------------------------------------------------
(* The watchdog's timer.                                                        *)

\* _async_ensure_reconnect_scheduled, given the backoff delay it starts from.
EnsureReconnectScheduled(from) ==
    IF timer # 0
    THEN timer' = timer /\ delay' = from
    ELSE /\ timer' = from
         /\ delay' = IF 2 * from <= MaxDelay THEN 2 * from ELSE MaxDelay

\* Mutant: a retry is scheduled only by the probe that notices the drop.
MarkUnreachableOnce ==
    /\ connected' = FALSE
    /\ judged' = TRUE
    /\ status' = "unavailable"
    /\ issues' = issues \cup {"unreachable"}
    /\ IF connected THEN EnsureReconnectScheduled(delay) ELSE UNCHANGED <<timer, delay>>
    /\ owed' = (owed \/ connected)

\* _async_mark_daemon_unreachable
MarkDaemonUnreachable ==
    /\ connected' = FALSE
    /\ judged' = TRUE
    /\ status' = "unavailable"
    /\ issues' = issues \cup {"unreachable"}
    /\ EnsureReconnectScheduled(delay)
    /\ owed' = (owed \/ connected)

\* Mutant: a probe that succeeds leaves the unreachable issue standing.
RecordContractKeepingIssue(failing) ==
    /\ issues' = failing \cup (issues \cap {"unreachable"})
    /\ connected' = (failing = {})
    /\ judged' = TRUE
    /\ IF failing = {}
       THEN delay' = InitialDelay /\ UNCHANGED <<timer, owed>>
       ELSE EnsureReconnectScheduled(delay) /\ owed' = (owed \/ connected)

\* Mutant: a probe that succeeds cancels the pending retry, and its hook with it.
RecordContractCancellingRetry(failing) ==
    /\ issues' = failing
    /\ connected' = (failing = {})
    /\ judged' = TRUE
    /\ IF failing = {}
       THEN delay' = InitialDelay /\ timer' = 0 /\ UNCHANGED owed
       ELSE EnsureReconnectScheduled(delay) /\ owed' = (owed \/ connected)

\* Mutant: a probe that succeeds schedules the next one too.
RecordContractRearming(failing) ==
    /\ issues' = failing
    /\ connected' = (failing = {})
    /\ judged' = TRUE
    /\ EnsureReconnectScheduled(delay)
    /\ owed' = (owed \/ (connected /\ failing # {}))

\* _async_check_daemon_contract, then _async_mark_daemon_reachable or
\* _async_mark_daemon_not_ready.
RecordContract(failing) ==
    /\ issues' = failing
    /\ connected' = (failing = {})
    /\ judged' = TRUE
    /\ IF failing = {}
       THEN delay' = InitialDelay /\ UNCHANGED <<timer, owed>>
       ELSE EnsureReconnectScheduled(delay) /\ owed' = (owed \/ connected)

-----------------------------------------------------------------------------
(* async_refresh and _async_do_refresh.                                         *)

\* Mutant: every caller starts a refresh of its own.
EnterRefreshAlone(c) ==
    /\ current' = c
    /\ phase' = [phase EXCEPT ![c] = "reads"]
    /\ seen' = [seen EXCEPT ![c] = {daemon}]
    /\ pc' = [pc EXCEPT ![c] = "refresh"]
    /\ awaits' = [awaits EXCEPT ![c] = c]

\* The entry of async_refresh, run by c: join the task in flight or create one.
\* Awaiting a task that is already done does not suspend the caller.
EnterRefresh(c) ==
    IF current # NoCaller
    THEN /\ IF phase[current] = "done"
            THEN pc' = [pc EXCEPT ![c] = "woken"] /\ UNCHANGED awaits
            ELSE /\ pc' = [pc EXCEPT ![c] = "refresh"]
                 /\ awaits' = [awaits EXCEPT ![c] = current]
         /\ UNCHANGED <<current, phase, seen>>
    ELSE /\ current' = c
         /\ phase' = [phase EXCEPT ![c] = "reads"]
         /\ seen' = [seen EXCEPT ![c] = {daemon}]
         /\ pc' = [pc EXCEPT ![c] = "refresh"]
         /\ awaits' = [awaits EXCEPT ![c] = c]

\* The task created by o ends: the wake-ups of all who await it are queued.
TaskDone(o) ==
    /\ phase' = [phase EXCEPT ![o] = "done"]
    /\ pc' = [c \in Callers |-> IF awaits[c] = o THEN "woken" ELSE pc[c]]
    /\ awaits' = [c \in Callers |-> IF awaits[c] = o THEN NoCaller ELSE awaits[c]]
    /\ seen' = [seen EXCEPT ![o] = {}]
    /\ UNCHANGED current

\* The reads are in and the task goes on to await the Home Graph refresh (and,
\* on success, the mail and calendar probe).
TaskRefreshesGraph(o) ==
    /\ phase' = [phase EXCEPT ![o] = "graph"]
    /\ seen' = [seen EXCEPT ![o] = {}]
    /\ UNCHANGED <<current, pc, awaits>>

\* The four gathered reads (health, status, Home Assistant status, tools) are each
\* answered by the daemon of some moment of their flight.  One failing is enough:
\* gather raises the exception of the read that fails first.
ReadsFail(o) ==
    /\ phase[o] = "reads"
    /\ \E d \in seen[o] :
          \/ /\ d.answer = "refused"
             /\ MarkDaemonUnreachable
             /\ TaskDone(o)
          \/ /\ d.answer = "error"
             /\ status' = "error"
             /\ TaskRefreshesGraph(o)
             /\ UNCHANGED <<connected, issues, timer, delay, judged, owed>>
    /\ UNCHANGED <<daemon, entry, revoked>>

ReadsAnswered(o) ==
    /\ phase[o] = "reads"
    /\ \E health, daemonStatus, surface \in {d \in seen[o] : d.answer = "ok"} :
          /\ status' = IF "surface" \in surface.faults THEN "homeassistant_error" ELSE "running"
          /\ RecordContract((daemonStatus.faults \cap {"version"})
                             \cup (health.faults \cap {"capabilities"}))
    /\ TaskRefreshesGraph(o)
    /\ UNCHANGED <<daemon, entry, revoked>>

GraphRefreshed(o) ==
    /\ phase[o] = "graph"
    /\ TaskDone(o)
    /\ UNCHANGED <<daemon, entry, connVars, revoked, owed>>

\* A script that awaits goodvibes.status is stopped.  Cancelling the caller
\* cancels what it awaits: the shared task, not a wait of its own.
CancelCaller(s) ==
    /\ pc[s] = "refresh"
    /\ phase[awaits[s]] \in {"reads", "graph"}
    /\ phase' = [phase EXCEPT ![awaits[s]] = "cancelled"]
    /\ UNCHANGED <<daemon, entry, connVars, revoked, current, seen, pc, awaits, owed>>

\* The cancelled task ends; CancelledError reaches everyone who awaits it, the
\* owner's finally clears _refresh_task, and a setup that is among them fails.
CancellationSpreads(o) ==
    /\ phase[o] = "cancelled"
    /\ phase' = [phase EXCEPT ![o] = "none"]
    /\ seen' = [seen EXCEPT ![o] = {}]
    /\ current' = NoCaller
    /\ pc' = [c \in Callers |-> IF awaits[c] = o THEN "idle" ELSE pc[c]]
    /\ awaits' = [c \in Callers |-> IF awaits[c] = o THEN NoCaller ELSE awaits[c]]
    /\ entry' = IF awaits[Setup] = o THEN "failed" ELSE entry
    /\ UNCHANGED <<daemon, connVars, revoked, owed>>

\* A woken caller leaves async_refresh; the owner's finally clears _refresh_task.
LeaveRefresh(c) ==
    /\ pc[c] = "woken"
    /\ phase' = [phase EXCEPT ![c] = IF phase[c] = "done" THEN "none" ELSE phase[c]]
    /\ current' = IF phase[c] = "done" THEN NoCaller ELSE current
    /\ UNCHANGED <<seen, awaits>>

-----------------------------------------------------------------------------
(* The callers.                                                                 *)

\* async_fetch_manifest returns (its errors are swallowed) and the caller, a
\* setup or a reconnect attempt, goes on to the refresh.
ManifestFetched(c) ==
    /\ pc[c] = "manifest"
    /\ EnterRefresh(c)
    /\ UNCHANGED <<daemon, entry, connVars, revoked, owed>>

\* async_status refreshes; the runtime must still be in hass.data.
ServiceRefreshes(s) ==
    /\ pc[s] = "idle"
    /\ entry # "unloaded"
    /\ EnterRefresh(s)
    /\ UNCHANGED <<daemon, entry, connVars, revoked, owed>>

ServiceReturns(s) ==
    /\ LeaveRefresh(s)
    /\ pc' = [pc EXCEPT ![s] = "idle"]
    /\ UNCHANGED <<daemon, entry, connVars, revoked, owed>>

\* The rest of async_setup_entry: listeners, device, platforms, managers.
SetupFinishes ==
    /\ LeaveRefresh(Setup)
    /\ pc' = [pc EXCEPT ![Setup] = "idle"]
    /\ entry' = "loaded"
    /\ UNCHANGED <<daemon, connVars, revoked, owed>>

\* _async_reconnect_attempt begins.  The timer is at least InitialDelay away, so it
\* cannot expire between the end of a task and the wake-ups it has queued.
TimerFires(a) ==
    /\ timer # 0 /\ ~revoked
    /\ pc[a] = "idle"
    /\ \A c \in Callers : phase[c] \notin {"done", "cancelled"}
    /\ timer' = 0
    /\ pc' = [pc EXCEPT ![a] = "manifest"]
    /\ UNCHANGED <<daemon, entry, connected, issues, status, delay, judged, revoked,
                   current, phase, seen, awaits, owed>>

\* The attempt reads daemon_connected after its refresh and, if it is up, runs
\* _async_handle_daemon_reconnected: the device registry entry, then the graph sync.
AttemptDecides(a) ==
    /\ LeaveRefresh(a)
    /\ pc' = [pc EXCEPT ![a] = IF connected THEN "hook" ELSE "idle"]
    /\ owed' = (owed /\ ~connected)
    /\ UNCHANGED <<daemon, entry, connVars, revoked>>

HookReturns(a) ==
    /\ pc[a] = "hook"
    /\ pc' = [pc EXCEPT ![a] = "idle"]
    /\ UNCHANGED <<daemon, entry, connVars, revoked, current, phase, seen, awaits, owed>>

\* async_unload_entry, once the platforms are unloaded: the pending timer is
\* cancelled, the tasks under way are not.
Unload ==
    /\ entry = "loaded"
    /\ entry' = "unloaded"
    /\ revoked' = (timer # 0)
    /\ UNCHANGED <<daemon, connVars, taskVars, owed>>

-----------------------------------------------------------------------------

TaskStep(o) ==
    ReadsFail(o) \/ ReadsAnswered(o) \/ GraphRefreshed(o) \/ CancellationSpreads(o)

AttemptStep(a) ==
    ManifestFetched(a) \/ AttemptDecides(a) \/ HookReturns(a)

SetupStep == ManifestFetched(Setup) \/ SetupFinishes

Next ==
    \/ DaemonChanges
    \/ \E o \in Callers : TaskStep(o)
    \/ \E s \in Services : ServiceRefreshes(s) \/ ServiceReturns(s)
    \/ \E s \in Cancellable : CancelCaller(s)
    \/ SetupStep
    \/ \E a \in Attempts : TimerFires(a) \/ AttemptStep(a)
    \/ Unload

\* Every request of the client has a timeout and every wake-up is queued on the
\* loop, so tasks and coroutines go on.  The loop runs an expired timer in its next
\* round, however many refreshes start and end meanwhile: strong fairness, as
\* TimerFires is disabled for the instants between a task's end and its wake-ups.
\* Nothing is assumed of the daemon, of the services or of the user.
Fairness ==
    /\ \A o \in Callers : WF_vars(TaskStep(o))
    /\ \A s \in Services : WF_vars(ServiceReturns(s))
    /\ \A a \in Attempts : WF_vars(AttemptStep(a))
    /\ WF_vars(SetupStep)
    /\ SF_vars(\E a \in Attempts : TimerFires(a))

Spec == Init /\ [][Next]_vars

FairSpec == Spec /\ Fairness

-----------------------------------------------------------------------------
(* Properties.                                                                  *)

\* A refresh task that may still write the shared fields.
Running(o) == phase[o] \in {"reads", "graph"}

\* async_refresh "really is the single owner" (data.py:237-239): two refreshes are
\* never under way together, and one that is under way is the one new callers join.
SingleFlight ==
    \A o \in Callers : Running(o) => current = o

\* What this runtime shows is consistent: entities are never down without a daemon_*
\* repair issue that says why, nor is the status "unavailable" without the unreachable
\* one; and from its first verdict on entities are available exactly when no issue
\* stands (data.py:353-476).  Before it, and after an HTTP error answer to setup's
\* probe too (data.py:281-286), entities are available by default (data.py:112) beside
\* whatever issue an earlier setup left.  The issues' other writers, a second entry
\* and a refresh an unload left in flight, are outside the module.
HonestReport ==
    /\ ~connected => issues # {}
    /\ judged => (connected <=> issues = {})
    /\ status = "unavailable" => "unreachable" \in issues

\* A reconnect attempt whose refresh has not given its verdict yet.
Probing(a) ==
    \/ pc[a] = "manifest"
    \/ /\ pc[a] = "refresh"
       /\ phase[awaits[a]] = "reads"

\* The watchdog never gives up (const.py:54-57): while the entry is down and not
\* unloaded, a retry is scheduled or an attempt is still probing.  (Setup's own
\* first probe comes before any drop.)
Watched == (timer # 0 /\ ~revoked) \/ \E a \in Attempts : Probing(a)

WatchdogArmed == ~connected /\ entry # "unloaded" => Watched

\* All of this together is what ConnectionReport promises: every step of the refresh
\* and the watchdog is one of its steps, or changes nothing it shows.
Report == INSTANCE ConnectionReport
    WITH Reasons <- {"unreachable"} \cup ContractFaults,
         available <- connected, reasons <- issues,
         watched <- Watched, present <- entry # "unloaded"

ImplementsReport == Report!Spec

\* Unload cancels the pending retry but not an attempt, refresh or reconnect sync in
\* flight (__init__.py:305-312, data.py:497-514): what it leaves is over once the daemon
\* is healthy for good.  None of it goes on for ever.
LeftoversEnd ==
    []<>(\/ entry # "unloaded" \/ daemon # Healthy
         \/ (timer = 0 \/ revoked) /\ \A a \in Attempts : pc[a] = "idle")

\* Once the daemon is healthy for good, the entry comes back without user action
\* (data.py:118-120, const.py:54-57), unless it is unloaded first.
Recovers ==
    []<>(connected \/ daemon # Healthy \/ entry = "unloaded")

\* ... and the reconnect hook, which redoes the device registration and the graph
\* sync, runs for every drop, whoever notices that the daemon is back.
Resyncs ==
    []<>(~owed \/ daemon # Healthy \/ entry = "unloaded")

=============================================================================
