------------------------------ MODULE HomeGraph ------------------------------
(***************************************************************************)
(* One entry's Home Graph: the services and panel actions that read and      *)
(* change it (services.py, frontend.py), the snapshots that are synced, the  *)
(* refresh and its two repair issues (data.py), the upload view's temporary  *)
(* file, and the debounced watcher of the registries (home_graph_watch.py).  *)
(*                                                                          *)
(* No lock and no queue orders any of it: every call, the entry's own syncs  *)
(* and the poll of the coordinator write the same fields whenever one of     *)
(* their requests returns.                                                   *)
(***************************************************************************)
EXTENDS Naturals, FiniteSets

CONSTANTS
    Calls,       \* service calls, panel calls and uploads
    Startup,     \* _async_auto_sync_home_graph as run at setup and after a reconnect
    Watch,       \* the same as run by the watcher's debouncer
    Outcomes,    \* how a request may end: "ok", "not_ok" (ok: false), "error"
    MaxChanges   \* bound: changes of the home's structure

Syncs == {Startup, Watch}
Actors == Calls \cup Syncs

ASSUME ActorsAssumption ==
    /\ Startup # Watch /\ Calls \cap Syncs = {}
    /\ Outcomes \subseteq {"ok", "not_ok", "error"} /\ "ok" \in Outcomes
    /\ MaxChanges \in Nat

-----------------------------------------------------------------------------
(* The operations: what each handler does, in the order it does it.            *)

Ingests == {"ingest_url", "ingest_note", "ingest_artifact"}
Links == {"link", "unlink"}
Pages == {"device_passport", "room_page", "packet"}
Curation == {"review", "import", "reindex", "reset"}
Refinements == {"refinement_run", "refinement_cancel", "triage_issues"}
Reads == {"issues", "sources", "pages", "browse", "map", "export"}
TaskReads == {"refinement_tasks", "refinement_task"}

Common == {"status", "sync", "ask"} \cup Ingests \cup Links \cup Pages \cup Reads

\* What each surface offers: the registered services, what the websocket schema lets
\* through (never "reset"), and the upload view.
Offered ==
    [service |-> Common \cup Curation \cup {"dry_run"},
     panel   |-> Common \cup (Curation \ {"reset"}) \cup Refinements \cup TaskReads,
     upload  |-> {"upload"}]

\* The requests that change what the daemon holds.
Changes == {"sync", "upload"} \cup Ingests \cup Links \cup Pages \cup Curation \cup Refinements

\* The services open to everyone; _async_verify_admin is the first line of the others.
OpenServices == {"status", "ask"} \cup Reads

\* Panel and upload are for administrators whatever they do.
AdminsOnly(surface, op) == surface # "service" \/ op \notin OpenServices

\* The handlers that raise unless the Home Graph is enabled.
NeedsEnabled(surface, op) ==
    surface # "service" \/ op \in {"status", "sync"} \cup Ingests

\* What the handler does around its own request: whether the home is synced first,
\* whether the answer is applied to the runtime, whether the refinement tasks are read
\* again, and what follows.
Effect(surface, op) ==
    [first   |-> CASE op \in Ingests \cup {"sync", "upload"} -> "sync"
                   [] op = "ask" -> "sync_once"
                   [] OTHER -> "nothing",
     request |-> op \notin {"status", "sync"},
     applies |-> op \in {"ask", "upload", "triage_issues", "refinement_run"}
                        \cup Ingests \cup Links \cup Pages \cup Curation,
     declines |-> op = "triage_issues",
     reread  |-> op \in {"refinement_run", "refinement_cancel"},
     last    |-> IF op \in {"status", "sync", "upload"} \cup Curation \cup Refinements THEN "refresh"
                 ELSE IF surface = "service" /\ op \in Ingests \cup Links THEN "regenerate"
                 ELSE "nothing",
     changes |-> op \in Changes,
     file    |-> op = "upload"]

Effects == UNION {{Effect(s, op) : op \in Offered[s]} : s \in DOMAIN Offered}

\* What an actor that has no call, or a background sync, does.
AutoSync == Effect("panel", "sync")

VARIABLES
    enabled,    \* home_graph_enabled
    raised,     \* the Home Graph's repair issues that stand
    failing,    \* home_graph_last_error is set
    synced,     \* home_graph_last_sync_at is set
    does,       \* does[a]: the effect of the operation a runs
    pc,         \* pc[a]: the await a is at
    files,      \* the calls whose temporary file exists
    carried,    \* ghost: the calls whose own request the daemon has answered
    home,       \* version of the home's structure: the registries
    snap,       \* snap[a]: the version in the snapshot a is sending
    graph,      \* the version the daemon was last sent
    listening,  \* the watcher is started
    timer,      \* the debouncer's timer: "none", "armed" (to call), "cooling" (to rest)
    owed        \* ghost: the version a heard, undropped change left to be sent

runtimeVars == <<raised, failing, synced>>
callVars == <<does, pc, files, carried>>
homeVars == <<home, snap, graph, listening, timer, owed>>
vars == <<enabled, runtimeVars, callVars, homeVars>>

TypeOK ==
    /\ enabled \in BOOLEAN
    /\ raised \subseteq {"unavailable", "issues"}
    /\ failing \in BOOLEAN
    /\ synced \in BOOLEAN
    /\ does \in [Actors -> Effects]
    /\ pc \in [Actors -> {"idle", "reading", "sync", "request", "reread", "refresh",
                          "regenerate", "answered", "failed", "refused", "unread"}]
    /\ files \subseteq Calls
    /\ carried \subseteq Calls
    /\ home \in 0..MaxChanges
    /\ snap \in [Actors -> 0..MaxChanges]
    /\ graph \in 0..MaxChanges
    /\ listening \in BOOLEAN
    /\ timer \in {"none", "armed", "cooling"}
    /\ owed \in 0..MaxChanges

Init ==
    /\ enabled \in BOOLEAN
    /\ raised = {}
    /\ failing = FALSE
    /\ synced = FALSE
    /\ does = [a \in Actors |-> AutoSync]
    /\ pc = [a \in Actors |-> "idle"]
    /\ files = {}
    /\ carried = {}
    /\ home = 0
    /\ snap = [a \in Actors |-> 0]
    /\ graph = 0
    /\ listening = enabled
    /\ timer = "none"
    /\ owed = 0

-----------------------------------------------------------------------------
(* What the requests' returns write.                                           *)

\* async_apply_home_graph_response
Apply(outcome) == failing' = (outcome = "not_ok")

\* The daemon has been sent a's snapshot and has answered; last_sync_at is set even if
\* the answer is ok: false.
Synced(a, outcome) ==
    /\ Apply(outcome)
    /\ synced' = TRUE
    /\ graph' = snap[a]

\* Mutant: a disabled Home Graph raises an issue of its own.
RefreshedRaisingDisabled ==
    IF ~enabled THEN raised' = {"disabled"} /\ failing' = FALSE
    ELSE raised' \in {{}, {"issues"}} /\ failing' = FALSE

\* Mutant: a refresh that fails leaves the issue about open issues standing.
RefreshedKeepingIssues ==
    IF ~enabled THEN raised' = {} /\ failing' = FALSE
    ELSE \/ /\ raised' \in {{}, {"issues"}}
            /\ failing' = FALSE
         \/ /\ "error" \in Outcomes
            /\ raised' = raised \cup {"unavailable"}
            /\ failing' = TRUE

\* async_refresh_home_graph: disabled, its two reads answered (with issues or none), or
\* one of them failed.
Refreshed ==
    IF ~enabled THEN raised' = {} /\ failing' = FALSE
    ELSE \/ /\ raised' \in {{}, {"issues"}}
            /\ failing' = FALSE
         \/ /\ "error" \in Outcomes
            /\ raised' = {"unavailable"}
            /\ failing' = TRUE

\* The await a goes to when it is done with those before.
Last(d) == IF d.last = "nothing" THEN "answered" ELSE d.last
AfterRequest(d) == IF d.reread THEN "reread" ELSE Last(d)
AfterSync(d) == IF d.request THEN "request" ELSE AfterRequest(d)

First(d) ==
    IF d.first = "sync" \/ (d.first = "sync_once" /\ ~synced) THEN "sync" ELSE AfterSync(d)

\* a goes to pc p; if it is to send a snapshot, that is built of the home as it is now.
Goes(a, p) ==
    /\ pc' = [pc EXCEPT ![a] = p]
    /\ snap' = IF p \in {"sync", "regenerate"} THEN [snap EXCEPT ![a] = home] ELSE snap

-----------------------------------------------------------------------------
(* Services, panel actions, uploads.                                           *)

\* A call begins: the checks of its handler, then its first await.
Begin(c) ==
    /\ pc[c] = "idle"
    /\ \E s \in DOMAIN Offered : \E op \in Offered[s], u \in {"trusted", "user"} :
          LET d == Effect(s, op)
              refused == \/ u = "user" /\ AdminsOnly(s, op)
                         \/ ~enabled /\ NeedsEnabled(s, op)
                         \/ ~enabled /\ First(d) = "sync"
          IN  /\ does' = [does EXCEPT ![c] = d]
              /\ IF d.file THEN Goes(c, IF u = "user" THEN "refused" ELSE "reading")
                 ELSE Goes(c, IF refused THEN "refused" ELSE First(d))
    /\ UNCHANGED <<enabled, runtimeVars, files, carried, home, graph, listening, timer, owed>>

\* _read_multipart_upload: the file part is written whole, or its temporary file removed.
FileRead(c) ==
    /\ pc[c] = "reading" /\ c \notin files
    /\ files' = files \cup {c}
    /\ UNCHANGED <<enabled, runtimeVars, does, pc, carried, homeVars>>

\* The upload ends before it is read: too large, malformed, a second file, the client
\* gone.  The path of a file that was already whole is not returned to the view.
ReadFails(c) ==
    /\ pc[c] = "reading"
    /\ Goes(c, "unread")
    /\ UNCHANGED <<enabled, runtimeVars, does, files, carried, home, graph, listening, timer, owed>>

\* Mutant: the view forgets that the upload needs a file.
ReadEndsAnyhow(c) ==
    /\ pc[c] = "reading"
    /\ IF enabled THEN Goes(c, "sync") /\ UNCHANGED files
       ELSE Goes(c, "refused") /\ files' = files \ {c}
    /\ UNCHANGED <<enabled, runtimeVars, does, carried, home, graph, listening, timer, owed>>

\* The parts are read; the view resolves the runtime and syncs the home.
ReadEnds(c) ==
    /\ pc[c] = "reading" /\ c \in files
    /\ IF enabled THEN Goes(c, "sync") /\ UNCHANGED files
       ELSE Goes(c, "refused") /\ files' = files \ {c}
    /\ UNCHANGED <<enabled, runtimeVars, does, carried, home, graph, listening, timer, owed>>

\* async_sync_home_graph_context returns.
SyncReturns(c) ==
    /\ pc[c] = "sync"
    /\ \E o \in Outcomes :
          IF o = "error"
          THEN Goes(c, "failed") /\ files' = files \ {c} /\ UNCHANGED <<runtimeVars, graph>>
          ELSE Synced(c, o) /\ Goes(c, AfterSync(does[c])) /\ UNCHANGED <<raised, files>>
    /\ UNCHANGED <<enabled, does, carried, home, listening, timer, owed>>

\* The handler's own request returns; a triage the daemon does not do changes nothing.
RequestReturns(c) ==
    /\ pc[c] = "request"
    /\ \/ /\ does[c].declines /\ Goes(c, "answered")
          /\ UNCHANGED <<runtimeVars, files, carried>>
       \/ \E o \in Outcomes :
             IF o = "error"
             THEN Goes(c, "failed") /\ files' = files \ {c} /\ UNCHANGED <<runtimeVars, carried>>
             ELSE /\ IF does[c].applies THEN Apply(o) ELSE UNCHANGED failing
                  /\ carried' = carried \cup {c}
                  /\ Goes(c, AfterRequest(does[c]))
                  /\ UNCHANGED <<raised, synced, files>>
    /\ UNCHANGED <<enabled, does, home, graph, listening, timer, owed>>

\* The refinement tasks are read again after a run or a cancel.
RereadReturns(c) ==
    /\ pc[c] = "reread"
    /\ \E o \in Outcomes : Goes(c, IF o = "error" THEN "failed" ELSE Last(does[c]))
    /\ UNCHANGED <<enabled, runtimeVars, does, files, carried, home, graph, listening, timer, owed>>

\* Mutant: a failed regeneration fails the service.
RegenerateReturnsRaising(c) ==
    /\ pc[c] = "regenerate"
    /\ \E o \in Outcomes :
          IF o = "error" \/ ~enabled
          THEN failing' = TRUE /\ Goes(c, "failed") /\ UNCHANGED <<synced, graph>>
          ELSE Synced(c, o) /\ Goes(c, "answered")
    /\ UNCHANGED <<enabled, raised, does, files, carried, home, listening, timer, owed>>

\* async_regenerate_home_graph_pages: its failure is recorded, not raised.
RegenerateReturns(c) ==
    /\ pc[c] = "regenerate"
    /\ Goes(c, "answered")
    /\ \E o \in Outcomes :
          IF o = "error" \/ ~enabled
          THEN failing' = TRUE /\ UNCHANGED <<synced, graph>>
          ELSE Synced(c, o)
    /\ UNCHANGED <<enabled, raised, does, files, carried, home, listening, timer, owed>>

\* Mutant: the view leaves the temporary file to the system.
RefreshReturnsKeepingFile(c) ==
    /\ pc[c] = "refresh"
    /\ Refreshed
    /\ Goes(c, "answered")
    /\ UNCHANGED <<enabled, synced, does, files, carried, home, graph, listening, timer, owed>>

RefreshReturns(c) ==
    /\ pc[c] = "refresh"
    /\ Refreshed
    /\ Goes(c, "answered")
    /\ files' = files \ {c}
    /\ UNCHANGED <<enabled, synced, does, carried, home, graph, listening, timer, owed>>

\* The poll of the coordinator ends (Connection says when).
Polled ==
    /\ Refreshed
    /\ UNCHANGED <<enabled, synced, callVars, homeVars>>

-----------------------------------------------------------------------------
(* The entry's own syncs: _async_auto_sync_home_graph.                         *)

\* At setup, at the start of Home Assistant, after a reconnect.
AutoBegins ==
    /\ listening /\ pc[Startup] = "idle"
    /\ Goes(Startup, "sync")
    /\ UNCHANGED <<enabled, runtimeVars, does, files, carried, home, graph, listening, timer, owed>>

\* The debouncer rests for the cooldown after a call.
Rests(a) == timer' = IF a = Watch THEN "cooling" ELSE timer

AutoSyncReturns(a) ==
    /\ pc[a] = "sync"
    /\ \E o \in Outcomes :
          IF o = "error"
          THEN Goes(a, "idle") /\ failing' = TRUE /\ Rests(a) /\ UNCHANGED <<synced, graph>>
          ELSE Synced(a, o) /\ Goes(a, "refresh") /\ UNCHANGED timer
    /\ UNCHANGED <<enabled, raised, does, files, carried, home, listening, owed>>

AutoRefreshReturns(a) ==
    /\ pc[a] = "refresh"
    /\ Refreshed
    /\ Goes(a, "idle")
    /\ Rests(a)
    /\ UNCHANGED <<enabled, synced, does, files, carried, home, graph, listening, owed>>

-----------------------------------------------------------------------------
(* The watcher and Home Assistant's Debouncer (external, immediate=False).     *)

\* A registry changes.  The debouncer notes it in a running timer, starts one, or drops
\* it while it is calling the resync ("any call is good").
RegistryChanges ==
    /\ home < MaxChanges
    /\ home' = home + 1
    /\ IF listening /\ (timer # "none" \/ pc[Watch] = "idle")
       THEN timer' = "armed" /\ owed' = home + 1
       ELSE UNCHANGED <<timer, owed>>
    /\ UNCHANGED <<enabled, runtimeVars, callVars, snap, graph, listening>>

\* Mutant: the timer is only ever a rest.
TimerFiresResting ==
    /\ timer # "none" /\ timer' = "none"
    /\ UNCHANGED <<enabled, runtimeVars, does, pc, snap, files, carried, home, graph, listening, owed>>

TimerFires ==
    /\ timer # "none" /\ timer' = "none"
    /\ IF timer = "armed" /\ pc[Watch] = "idle"
       THEN Goes(Watch, "sync") ELSE UNCHANGED <<pc, snap>>
    /\ UNCHANGED <<enabled, runtimeVars, does, files, carried, home, graph, listening, owed>>

\* Unload: async_stop; the startup task is cancelled with the entry, a reconnect's sync and
\* a resync under way go on.
Stop ==
    /\ listening
    /\ listening' = FALSE
    /\ timer' = "none"
    /\ pc' \in {pc, [pc EXCEPT ![Startup] = "idle"]}
    /\ UNCHANGED <<enabled, runtimeVars, does, files, carried, home, snap, graph, owed>>

-----------------------------------------------------------------------------

CallGoesOn(c) ==
    \/ FileRead(c) \/ ReadFails(c) \/ ReadEnds(c)
    \/ SyncReturns(c) \/ RequestReturns(c) \/ RereadReturns(c)
    \/ RegenerateReturns(c) \/ RefreshReturns(c)

Next ==
    \/ \E c \in Calls : Begin(c) \/ CallGoesOn(c)
    \/ AutoBegins
    \/ \E a \in Syncs : AutoSyncReturns(a) \/ AutoRefreshReturns(a)
    \/ Polled
    \/ RegistryChanges \/ TimerFires \/ Stop

\* Every request has a timeout, and a timer fires.
Fairness ==
    /\ \A a \in Syncs : WF_vars(AutoSyncReturns(a) \/ AutoRefreshReturns(a))
    /\ WF_vars(TimerFires)

Spec == Init /\ [][Next]_vars /\ Fairness

-----------------------------------------------------------------------------
(* Properties.                                                                 *)

\* The two issues never stand together (data.py:531-556), though calls, syncs and polls
\* whose reads overlap all write them: "open issues" is withdrawn when the graph cannot
\* be read, and its unavailability when it can.
IssuesExclude == raised # {"unavailable", "issues"}

\* A change the daemon has carried out is not reported as failed because something after
\* it did (services.py:622-630, data.py:519), save the refinements, whose tasks are read
\* again before the answer (frontend.py:443).
CarriedIsAnswered ==
    \A c \in carried : pc[c] = "failed" => does[c].reread

\* The upload is sent from a file that is whole and still there, and an upload that was
\* read leaves none behind, whatever fails (frontend.py:255, 268-270).
UploadedFromFile ==
    \A c \in Calls : does[c].file =>
        /\ pc[c] \in {"sync", "request"} => c \in files
        /\ pc[c] \in {"answered", "failed", "refused"} => c \notin files

\* Every change of the home the debouncer takes is in a snapshot that is sent later, as
\* long as the entry is loaded, however many changes a burst has (home_graph_watch.py:34).
ChangeIsSent ==
    \A v \in 1..MaxChanges : (owed = v) ~> (snap[Watch] >= v \/ ~listening)

=============================================================================
