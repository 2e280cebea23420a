-------------------------- MODULE Connection_proofs --------------------------
(***************************************************************************)
(* Proofs about Connection: its types, that there is one refresh at a time, *)
(* that what the entry shows is consistent, and, when the daemon can only   *)
(* be unreachable or compatible and no caller is cancelled, that the        *)
(* watchdog never gives up.                                                 *)
(***************************************************************************)
EXTENDS Connection, TLAPS

USE DEF Callers, ContractFaults

(***************************************************************************)
(* The life of a refresh task.  _refresh_task names the one task there is;  *)
(* its creator awaits it until it ends, then is woken before it clears the  *)
(* reference; and everyone in a wait awaits a task that has not ended.      *)
(***************************************************************************)
TaskInv ==
    /\ \A o \in Callers : phase[o] # "none" <=> current = o
    /\ \A o \in Callers : phase[o] \in {"reads", "graph", "cancelled"} => awaits[o] = o
    /\ \A o \in Callers : phase[o] = "done" => pc[o] = "woken"
    /\ \A c \in Callers : pc[c] = "refresh" <=> awaits[c] # NoCaller
    /\ \A c \in Callers :
          awaits[c] # NoCaller => phase[awaits[c]] \in {"reads", "graph", "cancelled"}

\* EnsureReconnectScheduled keeps the timer and the delay within the backoff's range.
LEMMA EnsureReconnectType ==
    ASSUME timer \in 0..MaxDelay, delay \in InitialDelay..MaxDelay,
           EnsureReconnectScheduled(delay)
    PROVE  timer' \in 1..MaxDelay /\ delay' \in InitialDelay..MaxDelay
BY DelayAssumption DEF EnsureReconnectScheduled

\* What mark_daemon_unreachable leaves is well-typed, and never says connected.
LEMMA MarkUnreachableType ==
    ASSUME TypeOK, MarkDaemonUnreachable
    PROVE  /\ connected' = FALSE /\ status' = "unavailable"
           /\ issues' \subseteq {"unreachable"} \cup ContractFaults
           /\ timer' \in 1..MaxDelay /\ delay' \in InitialDelay..MaxDelay
           /\ judged' = TRUE /\ owed' \in BOOLEAN
BY EnsureReconnectType DEF MarkDaemonUnreachable, TypeOK

\* So is what recording a contract result leaves.
LEMMA RecordContractType ==
    ASSUME TypeOK, NEW failing \in SUBSET ContractFaults, RecordContract(failing)
    PROVE  /\ connected' \in BOOLEAN /\ (connected' <=> issues' = {})
           /\ issues' = failing /\ judged' = TRUE
           /\ timer' \in 0..MaxDelay /\ delay' \in InitialDelay..MaxDelay
           /\ ~connected' => timer' # 0
           /\ owed' \in BOOLEAN
<1>1. issues' = failing /\ judged' = TRUE /\ connected' \in BOOLEAN /\ (connected' <=> issues' = {})
  BY DEF RecordContract
<1>2. CASE failing = {}
  BY <1>1, <1>2, DelayAssumption DEF RecordContract, TypeOK
<1>3. CASE failing # {}
  <2>1. EnsureReconnectScheduled(delay) /\ owed' = (owed \/ connected)
    BY <1>3 DEF RecordContract
  <2>2. timer' \in 1..MaxDelay /\ delay' \in InitialDelay..MaxDelay
    BY <2>1, EnsureReconnectType DEF TypeOK
  <2>3. owed' \in BOOLEAN
    BY <2>1
  <2>4. QED BY <1>1, <2>2, <2>3, DelayAssumption
<1>4. QED BY <1>2, <1>3

\* A caller that enters the refresh becomes its task, or awaits the one there is.
LEMMA EnterRefreshType ==
    ASSUME TypeOK, NEW c \in Callers, EnterRefresh(c)
    PROVE  /\ current' \in Callers \cup {NoCaller}
           /\ phase' \in [Callers -> {"none", "reads", "graph", "done", "cancelled"}]
           /\ seen' \in [Callers -> SUBSET DaemonStates]
           /\ pc' \in [Callers -> {"idle", "manifest", "refresh", "woken", "hook"}]
           /\ awaits' \in [Callers -> Callers \cup {NoCaller}]
<1>1. CASE current = NoCaller
  BY <1>1 DEF EnterRefresh, TypeOK
<1>2. CASE current # NoCaller
  BY <1>2 DEF EnterRefresh, TypeOK
<1>3. QED BY <1>1, <1>2

\* Type correctness, for every set of callers and every bound on the delay.
THEOREM TypeCorrect == Spec => []TypeOK
<1>1. Init => TypeOK
  <2> SUFFICES ASSUME Init PROVE TypeOK
    OBVIOUS
  <2>1. /\ daemon \in DaemonStates
        /\ entry \in {"setup", "failed", "loaded", "unloaded"}
        /\ status \in {"unknown", "running", "homeassistant_error", "error", "unavailable"}
        /\ connected \in BOOLEAN /\ revoked \in BOOLEAN /\ owed \in BOOLEAN
        /\ judged \in BOOLEAN
        /\ issues \subseteq {"unreachable"} \cup ContractFaults
    BY DEF Init
  <2>2. timer \in 0..MaxDelay /\ delay \in InitialDelay..MaxDelay
    BY DelayAssumption DEF Init
  <2>3. /\ phase \in [Callers -> {"none", "reads", "graph", "done", "cancelled"}]
        /\ seen \in [Callers -> SUBSET DaemonStates]
    BY DEF Init
  <2>4. pc \in [Callers -> {"idle", "manifest", "refresh", "woken", "hook"}]
    BY DEF Init
  <2>5. /\ current \in Callers \cup {NoCaller}
        /\ awaits \in [Callers -> Callers \cup {NoCaller}]
    BY DEF Init
  <2>6. QED BY <2>1, <2>2, <2>3, <2>4, <2>5 DEF TypeOK
<1>2. TypeOK /\ [Next]_vars => TypeOK'
  <2> SUFFICES ASSUME TypeOK, [Next]_vars PROVE TypeOK'
    OBVIOUS
  <2>1. CASE DaemonChanges
    BY <2>1 DEF DaemonChanges, TypeOK, connVars
  <2>2. ASSUME NEW o \in Callers, ReadsFail(o) PROVE TypeOK'
    <3>1. CASE MarkDaemonUnreachable /\ TaskDone(o)
      <4>1. UNCHANGED <<daemon, entry, revoked>>
        BY <2>2 DEF ReadsFail
      <4>2. /\ connected' \in BOOLEAN /\ owed' \in BOOLEAN /\ judged' \in BOOLEAN
            /\ status' = "unavailable"
            /\ issues' \subseteq {"unreachable"} \cup ContractFaults
            /\ timer' \in 0..MaxDelay /\ delay' \in InitialDelay..MaxDelay
        BY <3>1, MarkUnreachableType
      <4>3. /\ current' \in Callers \cup {NoCaller}
            /\ phase' \in [Callers -> {"none", "reads", "graph", "done", "cancelled"}]
            /\ seen' \in [Callers -> SUBSET DaemonStates]
            /\ pc' \in [Callers -> {"idle", "manifest", "refresh", "woken", "hook"}]
            /\ awaits' \in [Callers -> Callers \cup {NoCaller}]
        BY <3>1 DEF TaskDone, TypeOK
      <4>4. QED BY <4>1, <4>2, <4>3 DEF TypeOK
    <3>2. CASE /\ status' = "error" /\ TaskRefreshesGraph(o)
               /\ UNCHANGED <<connected, issues, timer, delay, judged, owed>>
      BY <2>2, <3>2 DEF ReadsFail, TaskRefreshesGraph, TypeOK
    <3>3. QED BY <2>2, <3>1, <3>2 DEF ReadsFail
  <2>3. ASSUME NEW o \in Callers, ReadsAnswered(o) PROVE TypeOK'
    <3>1. PICK failing \in SUBSET ContractFaults : RecordContract(failing)
      BY <2>3 DEF ReadsAnswered
    <3>2. status' \in {"running", "homeassistant_error"}
      BY <2>3 DEF ReadsAnswered
    <3>3. TaskRefreshesGraph(o) /\ UNCHANGED <<daemon, entry, revoked>>
      BY <2>3 DEF ReadsAnswered
    <3>4. QED BY <3>1, <3>2, <3>3, RecordContractType DEF TaskRefreshesGraph, TypeOK
  <2>4. ASSUME NEW o \in Callers, GraphRefreshed(o) PROVE TypeOK'
    BY <2>4 DEF GraphRefreshed, TaskDone, TypeOK, connVars
  <2>5. ASSUME NEW s \in Services, CancelCaller(s) PROVE TypeOK'
    BY <2>5 DEF CancelCaller, TypeOK, connVars
  <2>6. ASSUME NEW o \in Callers, CancellationSpreads(o) PROVE TypeOK'
    BY <2>6 DEF CancellationSpreads, TypeOK, connVars
  <2>7. ASSUME NEW c \in Callers, ManifestFetched(c) PROVE TypeOK'
    BY <2>7, EnterRefreshType DEF ManifestFetched, TypeOK, connVars
  <2>8. ASSUME NEW s \in Services, ServiceRefreshes(s) PROVE TypeOK'
    BY <2>8, EnterRefreshType DEF ServiceRefreshes, TypeOK, connVars
  <2>9. ASSUME NEW s \in Services, ServiceReturns(s) PROVE TypeOK'
    BY <2>9 DEF ServiceReturns, LeaveRefresh, TypeOK, connVars
  <2>10. CASE SetupFinishes
    BY <2>10 DEF SetupFinishes, LeaveRefresh, TypeOK, connVars
  <2>11. ASSUME NEW a \in Attempts, TimerFires(a) PROVE TypeOK'
    BY <2>11, DelayAssumption DEF TimerFires, TypeOK
  <2>12. ASSUME NEW a \in Attempts, AttemptDecides(a) PROVE TypeOK'
    BY <2>12 DEF AttemptDecides, LeaveRefresh, TypeOK, connVars
  <2>13. ASSUME NEW a \in Attempts, HookReturns(a) PROVE TypeOK'
    BY <2>13 DEF HookReturns, TypeOK, connVars
  <2>14. CASE Unload
    BY <2>14 DEF Unload, TypeOK, connVars, taskVars
  <2>15. CASE UNCHANGED vars
    BY <2>15 DEF vars, TypeOK, connVars, taskVars
  <2>16. QED
    BY <2>1, <2>2, <2>3, <2>4, <2>5, <2>6, <2>7, <2>8, <2>9, <2>10, <2>11, <2>12,
       <2>13, <2>14, <2>15, CallersAssumption
    DEF Next, TaskStep, AttemptStep, SetupStep
<1>3. QED BY <1>1, <1>2, PTL DEF Spec

-----------------------------------------------------------------------------

\* Entering the refresh keeps the shape of the task.
LEMMA EnterRefreshTask ==
    ASSUME TypeOK, TaskInv, NEW c \in Callers, pc[c] \in {"idle", "manifest"}, EnterRefresh(c)
    PROVE  TaskInv'
<1>1. awaits[c] = NoCaller /\ phase[c] # "done"
  BY DEF TaskInv, TypeOK
<1>2. CASE current = NoCaller
  BY <1>1, <1>2, CallersAssumption DEF EnterRefresh, TypeOK, TaskInv
<1>3. CASE current # NoCaller /\ phase[current] = "done"
  BY <1>1, <1>3, CallersAssumption DEF EnterRefresh, TypeOK, TaskInv
<1>4. CASE current # NoCaller /\ phase[current] # "done"
  BY <1>1, <1>4, CallersAssumption DEF EnterRefresh, TypeOK, TaskInv
<1>5. QED BY <1>2, <1>3, <1>4

\* So does the end of a task ...
LEMMA TaskDoneTask ==
    ASSUME TypeOK, TaskInv, NEW o \in Callers, phase[o] \in {"reads", "graph"}, TaskDone(o)
    PROVE  TaskInv'
BY CallersAssumption DEF TaskDone, TypeOK, TaskInv

\* ... its going on to the Home Graph ...
LEMMA TaskGraphTask ==
    ASSUME TypeOK, TaskInv, NEW o \in Callers, phase[o] = "reads", TaskRefreshesGraph(o)
    PROVE  TaskInv'
BY CallersAssumption DEF TaskRefreshesGraph, TypeOK, TaskInv

\* ... and a woken caller leaving, wherever it goes on to.
LEMMA LeaveRefreshTask ==
    ASSUME TypeOK, TaskInv, NEW c \in Callers, NEW next \in {"idle", "hook"},
           LeaveRefresh(c), pc' = [pc EXCEPT ![c] = next]
    PROVE  TaskInv'
BY CallersAssumption DEF LeaveRefresh, TypeOK, TaskInv

\* The life of the refresh task is as TaskInv says.
THEOREM TaskCorrect == Spec => []TaskInv
<1>1. Init => TaskInv
  BY CallersAssumption DEF Init, TaskInv
<1>2. TypeOK /\ TaskInv /\ [Next]_vars => TaskInv'
  <2> SUFFICES ASSUME TypeOK, TaskInv, [Next]_vars PROVE TaskInv'
    OBVIOUS
  <2>1. CASE DaemonChanges
    BY <2>1 DEF DaemonChanges, TaskInv
  <2>2. ASSUME NEW o \in Callers, ReadsFail(o) PROVE TaskInv'
    BY <2>2, TaskDoneTask, TaskGraphTask DEF ReadsFail
  <2>3. ASSUME NEW o \in Callers, ReadsAnswered(o) PROVE TaskInv'
    BY <2>3, TaskGraphTask DEF ReadsAnswered
  <2>4. ASSUME NEW o \in Callers, GraphRefreshed(o) PROVE TaskInv'
    BY <2>4, TaskDoneTask DEF GraphRefreshed
  <2>5. ASSUME NEW s \in Services, CancelCaller(s) PROVE TaskInv'
    BY <2>5, CallersAssumption DEF CancelCaller, TypeOK, TaskInv
  <2>6. ASSUME NEW o \in Callers, CancellationSpreads(o) PROVE TaskInv'
    BY <2>6, CallersAssumption DEF CancellationSpreads, TypeOK, TaskInv
  <2>7. ASSUME NEW c \in Callers, ManifestFetched(c) PROVE TaskInv'
    BY <2>7, EnterRefreshTask DEF ManifestFetched
  <2>8. ASSUME NEW s \in Services, ServiceRefreshes(s) PROVE TaskInv'
    BY <2>8, EnterRefreshTask DEF ServiceRefreshes
  <2>9. ASSUME NEW s \in Services, ServiceReturns(s) PROVE TaskInv'
    BY <2>9, LeaveRefreshTask DEF ServiceReturns
  <2>10. CASE SetupFinishes
    BY <2>10, LeaveRefreshTask DEF SetupFinishes
  <2>11. ASSUME NEW a \in Attempts, TimerFires(a) PROVE TaskInv'
    BY <2>11, CallersAssumption DEF TimerFires, TypeOK, TaskInv
  <2>12. ASSUME NEW a \in Attempts, AttemptDecides(a) PROVE TaskInv'
    <3>1. PICK next \in {"idle", "hook"} : pc' = [pc EXCEPT ![a] = next]
      BY <2>12 DEF AttemptDecides
    <3>2. QED BY <2>12, <3>1, LeaveRefreshTask DEF AttemptDecides
  <2>13. ASSUME NEW a \in Attempts, HookReturns(a) PROVE TaskInv'
    BY <2>13, CallersAssumption DEF HookReturns, TypeOK, TaskInv
  <2>14. CASE Unload
    BY <2>14 DEF Unload, TaskInv, taskVars
  <2>15. CASE UNCHANGED vars
    BY <2>15 DEF vars, TaskInv, taskVars
  <2>16. QED
    BY <2>1, <2>2, <2>3, <2>4, <2>5, <2>6, <2>7, <2>8, <2>9, <2>10, <2>11, <2>12,
       <2>13, <2>14, <2>15, CallersAssumption
    DEF Next, TaskStep, AttemptStep, SetupStep
<1>3. QED BY <1>1, <1>2, TypeCorrect, PTL DEF Spec

\* Two refreshes are never under way together (data.py:230-249).
THEOREM RefreshIsSingleFlight == Spec => []SingleFlight
<1>1. TaskInv => SingleFlight
  BY DEF TaskInv, SingleFlight, Running
<1>2. QED BY <1>1, TaskCorrect, PTL

-----------------------------------------------------------------------------

\* What one runtime shows is consistent, whatever issues an earlier setup has left,
\* whatever the daemon answers, in whatever order, and whoever is cancelled: never
\* down without an issue, and from the first verdict on available exactly when no
\* issue stands (data.py:353-476).
THEOREM ReportIsHonest == Spec => []HonestReport
<1>1. Init => HonestReport
  BY DEF Init, HonestReport
<1>2. TypeOK /\ HonestReport /\ [Next]_vars => HonestReport'
  <2> SUFFICES ASSUME TypeOK, HonestReport, [Next]_vars PROVE HonestReport'
    OBVIOUS
  <2>1. CASE UNCHANGED <<connected, issues, status, judged>>
    BY <2>1 DEF HonestReport
  <2>2. ASSUME NEW o \in Callers, ReadsFail(o) PROVE HonestReport'
    <3>1. CASE MarkDaemonUnreachable
      BY <3>1 DEF MarkDaemonUnreachable, HonestReport
    <3>2. CASE status' = "error" /\ UNCHANGED <<connected, issues, judged>>
      BY <3>2 DEF HonestReport
    <3>3. QED BY <2>2, <3>1, <3>2 DEF ReadsFail
  <2>3. ASSUME NEW o \in Callers, ReadsAnswered(o) PROVE HonestReport'
    <3>1. status' \in {"running", "homeassistant_error"}
      BY <2>3 DEF ReadsAnswered
    <3>2. PICK failing \in SUBSET ContractFaults : RecordContract(failing)
      BY <2>3 DEF ReadsAnswered
    <3>3. QED BY <3>1, <3>2, RecordContractType DEF HonestReport
  <2>4. QED
    BY <2>1, <2>2, <2>3
    DEF Next, TaskStep, AttemptStep, SetupStep, vars, connVars, DaemonChanges,
        GraphRefreshed, CancelCaller, CancellationSpreads, ManifestFetched,
        ServiceRefreshes, ServiceReturns, SetupFinishes, TimerFires,
        AttemptDecides, HookReturns, Unload
<1>3. QED BY <1>1, <1>2, TypeCorrect, PTL DEF Spec

-----------------------------------------------------------------------------
(* The watchdog.                                                                *)

\* The daemon is either unreachable or compatible, and no caller is cancelled.  The
\* theorem needs each of the three; the run connection_error shows it for the first.
OnlyUnreachable ==
    /\ "error" \notin Answers
    /\ Faults \cap ContractFaults = {}
    /\ Cancellable = {}

(***************************************************************************)
(* Why WatchdogArmed holds from step to step: a task that is past its reads *)
(* found the daemon up; one that has just ended on a failed read left a     *)
(* retry scheduled, so an attempt that finds it done may leave at once; and *)
(* only unloading revokes the timer.                                        *)
(***************************************************************************)
WatchdogInv ==
    /\ revoked => entry = "unloaded"
    /\ pc[Setup] # "idle" => entry = "setup"
    /\ \A o \in Callers : phase[o] # "cancelled"
    /\ \A o \in Callers : phase[o] = "graph" => connected
    /\ \A o \in Callers : phase[o] = "done" => connected \/ entry = "unloaded" \/ timer # 0
    /\ WatchdogArmed

\* Entering the refresh leaves the watch standing, or takes its place.
LEMMA EnterRefreshWatch ==
    ASSUME TypeOK, TaskInv, WatchdogInv, NEW c \in Callers,
           c \in Attempts => pc[c] \in {"idle", "manifest"},
           pc[c] \in {"idle", "manifest"},
           EnterRefresh(c), c = Setup => pc[c] # "idle",
           UNCHANGED <<entry, connVars, revoked>>
    PROVE  WatchdogInv'
<1>1. \A o \in Callers : phase'[o] = phase[o] \/ (o = c /\ phase[o] = "none" /\ phase'[o] = "reads")
  <2>1. CASE current = NoCaller
    BY <2>1, CallersAssumption DEF EnterRefresh, TypeOK, TaskInv
  <2>2. CASE current # NoCaller
    BY <2>2 DEF EnterRefresh
  <2>3. QED BY <2>1, <2>2
<1>2. \A b \in Callers \ {c} : pc'[b] = pc[b] /\ awaits'[b] = awaits[b]
  BY DEF EnterRefresh, TypeOK
<1>3. ASSUME ~connected, entry # "unloaded", NEW a \in Attempts, Probing(a) PROVE Watched'
  <2>1. CASE a = c
    <3>1. CASE current = NoCaller
      <4>1. pc'[a] = "refresh" /\ awaits'[a] = a /\ phase'[a] = "reads"
        BY <2>1, <3>1 DEF EnterRefresh, TypeOK
      <4>2. QED BY <4>1 DEF Watched, Probing
    <3>2. CASE current # NoCaller /\ phase[current] = "done"
      <4>1. current \in Callers
        BY <3>2 DEF TypeOK
      <4>2. timer # 0 /\ ~revoked
        BY <1>3, <3>2, <4>1 DEF WatchdogInv, TypeOK
      <4>3. QED BY <4>2 DEF Watched, connVars
    <3>3. CASE current # NoCaller /\ phase[current] # "done"
      <4>1. current \in Callers /\ phase[current] = "reads"
        BY <1>3, <3>3 DEF WatchdogInv, TypeOK, TaskInv
      <4>2. pc'[a] = "refresh" /\ awaits'[a] = current /\ phase'[current] = "reads"
        BY <2>1, <3>3, <4>1 DEF EnterRefresh, TypeOK
      <4>3. QED BY <4>2 DEF Watched, Probing
    <3>4. QED BY <3>1, <3>2, <3>3
  <2>2. CASE a # c
    <3>1. Probing(a)'
      BY <1>1, <1>2, <1>3, <2>2 DEF Probing, TypeOK, TaskInv
    <3>2. QED BY <3>1 DEF Watched
  <2>3. QED BY <2>1, <2>2
<1>4. WatchdogArmed'
  BY <1>3 DEF WatchdogArmed, Watched, connVars, WatchdogInv
<1>5. pc'[Setup] # "idle" => entry = "setup"
  BY <1>2 DEF WatchdogInv
<1>6. QED BY <1>1, <1>4, <1>5 DEF WatchdogInv, connVars

\* A woken caller was not probing: its leaving disturbs no watch.
LEMMA LeaveRefreshWatch ==
    ASSUME TypeOK, TaskInv, WatchdogInv, NEW c \in Callers, NEW next \in {"idle", "hook"},
           LeaveRefresh(c), pc' = [pc EXCEPT ![c] = next], c = Setup => next = "idle",
           UNCHANGED <<connVars, revoked>>, entry' = entry \/ c = Setup
    PROVE  WatchdogInv'
<1>1. \A o \in Callers : phase'[o] = phase[o] \/ phase'[o] = "none"
  BY DEF LeaveRefresh, TypeOK
<1>2. \A a \in Attempts : Probing(a) => Probing(a)'
  BY DEF Probing, LeaveRefresh, TypeOK, TaskInv
<1>3. c = Setup => entry = "setup" /\ ~revoked
  BY DEF LeaveRefresh, WatchdogInv
<1>4. pc'[Setup] # "idle" => entry' = "setup"
  BY DEF WatchdogInv, TypeOK
<1>5. Watched => Watched'
  BY <1>2 DEF Watched, connVars
<1>6. QED BY <1>1, <1>3, <1>4, <1>5 DEF WatchdogInv, WatchdogArmed, connVars

\* Steps that touch neither the watch nor what the invariant says of the tasks.
LEMMA QuietStepWatch ==
    ASSUME TypeOK, WatchdogInv, UNCHANGED <<entry, connVars, revoked, phase, awaits>>,
           \A c \in Callers : pc[c] # pc'[c] => pc[c] = "hook" /\ c \in Attempts
    PROVE  WatchdogInv'
<1>1. \A a \in Attempts : Probing(a) => Probing(a)'
  BY DEF Probing
<1>2. Watched => Watched'
  BY <1>1 DEF Watched, connVars
<1>3. pc'[Setup] # "idle" => entry = "setup"
  BY CallersAssumption DEF WatchdogInv
<1>4. QED BY <1>2, <1>3 DEF WatchdogInv, WatchdogArmed, connVars

\* WatchdogInv holds of every reachable state.
LEMMA WatchdogCorrect ==
    ASSUME OnlyUnreachable PROVE Spec => []WatchdogInv
<1>1. Init => WatchdogInv
  BY CallersAssumption DEF Init, WatchdogInv, WatchdogArmed
<1>2. TypeOK /\ TaskInv /\ WatchdogInv /\ [Next]_vars => WatchdogInv'
  <2> SUFFICES ASSUME TypeOK, TaskInv, WatchdogInv, [Next]_vars PROVE WatchdogInv'
    OBVIOUS
  <2>1. CASE DaemonChanges
    BY <2>1, QuietStepWatch DEF DaemonChanges
  <2>2. ASSUME NEW o \in Callers, ReadsFail(o) PROVE WatchdogInv'
    <3>1. PICK d \in seen[o] : d.answer # "error" => MarkDaemonUnreachable /\ TaskDone(o)
      BY <2>2 DEF ReadsFail
    <3>2. d \in DaemonStates
      BY DEF TypeOK
    <3>3. \A e \in seen[o] : e.answer # "error"
      BY EnvironmentAssumption, OnlyUnreachable DEF OnlyUnreachable, DaemonStates, TypeOK
    <3>4. MarkDaemonUnreachable /\ TaskDone(o)
      BY <3>1, <3>3
    <3>5. timer' # 0
      BY <3>4, MarkUnreachableType
    <3>6. UNCHANGED <<entry, revoked>>
      BY <2>2 DEF ReadsFail
    <3>7. pc'[Setup] # "idle" => entry' = "setup"
      BY <3>4, <3>6, CallersAssumption DEF TaskDone, WatchdogInv, TaskInv, TypeOK
    <3>8. \A b \in Callers : phase'[b] = phase[b] \/ (b = o /\ phase'[b] = "done")
      BY <3>4 DEF TaskDone, TypeOK
    <3>9. \A b \in Callers : phase[b] # "graph"
      BY <2>2 DEF ReadsFail, TaskInv, TypeOK
    <3>10. Watched' \/ entry' = "unloaded"
      BY <3>5, <3>6 DEF Watched, WatchdogInv
    <3>11. QED BY <3>5, <3>6, <3>7, <3>8, <3>9, <3>10 DEF WatchdogInv, WatchdogArmed
  <2>3. ASSUME NEW o \in Callers, ReadsAnswered(o) PROVE WatchdogInv'
    <3>1. \A d \in seen[o] : d.answer = "ok" => d.faults \cap ContractFaults = {}
      BY OnlyUnreachable DEF OnlyUnreachable, DaemonStates, TypeOK
    <3>2. RecordContract({})
      BY <2>3, <3>1 DEF ReadsAnswered
    <3>3. connected' /\ UNCHANGED timer
      BY <3>2 DEF RecordContract
    <3>4. TaskRefreshesGraph(o) /\ UNCHANGED <<entry, revoked>>
      BY <2>3 DEF ReadsAnswered
    <3>5. \A b \in Callers : phase'[b] = phase[b] \/ phase'[b] = "graph"
      BY <3>4 DEF TaskRefreshesGraph, TypeOK
    <3>6. QED BY <3>3, <3>4, <3>5 DEF WatchdogInv, WatchdogArmed, TaskRefreshesGraph
  <2>4. ASSUME NEW o \in Callers, GraphRefreshed(o) PROVE WatchdogInv'
    <3>1. connected' /\ UNCHANGED <<entry, revoked>>
      BY <2>4 DEF GraphRefreshed, WatchdogInv, connVars
    <3>2. \A b \in Callers : phase'[b] = phase[b] \/ phase'[b] = "done"
      BY <2>4 DEF GraphRefreshed, TaskDone, TypeOK
    <3>3. pc'[Setup] # "idle" => pc[Setup] # "idle"
      BY <2>4, CallersAssumption DEF GraphRefreshed, TaskDone, TaskInv, TypeOK
    <3>4. QED BY <3>1, <3>2, <3>3 DEF WatchdogInv, WatchdogArmed
  <2>5. ASSUME NEW s \in Cancellable, CancelCaller(s) PROVE WatchdogInv'
    BY OnlyUnreachable DEF OnlyUnreachable
  <2>6. ASSUME NEW o \in Callers, CancellationSpreads(o) PROVE WatchdogInv'
    BY <2>6 DEF CancellationSpreads, WatchdogInv
  <2>7. ASSUME NEW c \in Attempts \cup {Setup}, ManifestFetched(c) PROVE WatchdogInv'
    BY <2>7, EnterRefreshWatch DEF ManifestFetched
  <2>8. ASSUME NEW s \in Services, ServiceRefreshes(s) PROVE WatchdogInv'
    BY <2>8, EnterRefreshWatch, CallersAssumption DEF ServiceRefreshes
  <2>9. ASSUME NEW s \in Services, ServiceReturns(s) PROVE WatchdogInv'
    BY <2>9, LeaveRefreshWatch DEF ServiceReturns
  <2>10. CASE SetupFinishes
    BY <2>10, LeaveRefreshWatch DEF SetupFinishes
  <2>11. ASSUME NEW a \in Attempts, TimerFires(a) PROVE WatchdogInv'
    <3>1. Probing(a)'
      BY <2>11 DEF TimerFires, Probing, TypeOK
    <3>2. pc'[Setup] = pc[Setup]
      BY <2>11, CallersAssumption DEF TimerFires, TypeOK
    <3>3. Watched'
      BY <3>1 DEF Watched
    <3>4. QED BY <2>11, <3>2, <3>3 DEF TimerFires, WatchdogInv, WatchdogArmed
  <2>12. ASSUME NEW a \in Attempts, AttemptDecides(a) PROVE WatchdogInv'
    <3>1. PICK next \in {"idle", "hook"} : pc' = [pc EXCEPT ![a] = next]
      BY <2>12 DEF AttemptDecides
    <3>2. QED BY <2>12, <3>1, LeaveRefreshWatch, CallersAssumption DEF AttemptDecides
  <2>13. ASSUME NEW a \in Attempts, HookReturns(a) PROVE WatchdogInv'
    BY <2>13, QuietStepWatch DEF HookReturns, TypeOK
  <2>14. CASE Unload
    BY <2>14 DEF Unload, WatchdogInv, WatchdogArmed, connVars, taskVars
  <2>15. CASE UNCHANGED vars
    BY <2>15, QuietStepWatch DEF vars, taskVars
  <2>16. QED
    BY <2>1, <2>2, <2>3, <2>4, <2>5, <2>6, <2>7, <2>8, <2>9, <2>10, <2>11, <2>12,
       <2>13, <2>14, <2>15
    DEF Next, TaskStep, AttemptStep, SetupStep
<1>3. QED BY <1>1, <1>2, TypeCorrect, TaskCorrect, PTL DEF Spec

\* While the daemon can only be unreachable, the watchdog never gives up
\* (const.py:54-57, data.py:451-516): an entry that is down has a retry scheduled or
\* an attempt that is still going to see an answer, however refreshes interleave.
THEOREM WatchdogNeverGivesUp ==
    ASSUME OnlyUnreachable PROVE Spec => []WatchdogArmed
<1>1. WatchdogInv => WatchdogArmed
  BY DEF WatchdogInv
<1>2. QED BY <1>1, WatchdogCorrect, PTL

-----------------------------------------------------------------------------
(* The connection implements ConnectionReport.                                  *)

\* No watch begins while the connection is up: only a failed probe schedules a
\* retry, and an attempt begins by the expiry of one that was scheduled.
LEMMA NoWatchBegins ==
    ASSUME TypeOK, TaskInv, WatchdogInv, OnlyUnreachable, [Next]_vars, connected', Watched'
    PROVE  Watched
<1>1. CASE UNCHANGED <<timer, revoked, phase, pc, awaits>>
  BY <1>1 DEF Watched, Probing
<1>2. ASSUME NEW o \in Callers, ReadsFail(o) PROVE Watched
  <2>1. \A d \in seen[o] : d.answer # "error"
    BY EnvironmentAssumption DEF OnlyUnreachable, DaemonStates, TypeOK
  <2>2. MarkDaemonUnreachable
    BY <1>2, <2>1 DEF ReadsFail
  <2>3. QED BY <2>2 DEF MarkDaemonUnreachable
<1>3. ASSUME NEW o \in Callers, ReadsAnswered(o) PROVE Watched
  <2>1. UNCHANGED <<timer, revoked, pc, awaits>>
    <3>1. PICK failing \in SUBSET ContractFaults : RecordContract(failing)
      BY <1>3 DEF ReadsAnswered
    <3>2. failing = {}
      BY <3>1 DEF RecordContract
    <3>3. QED BY <1>3, <3>1, <3>2 DEF ReadsAnswered, RecordContract, TaskRefreshesGraph
  <2>2. \A b \in Callers : phase'[b] = "reads" => phase[b] = "reads"
    BY <1>3 DEF ReadsAnswered, TaskRefreshesGraph, TypeOK
  <2>3. \A a \in Attempts : Probing(a)' => Probing(a)
    BY <2>1, <2>2, CallersAssumption DEF Probing, TypeOK, TaskInv
  <2>4. QED BY <2>1, <2>3 DEF Watched
<1>4. ASSUME NEW o \in Callers, GraphRefreshed(o) PROVE Watched
  <2>1. \A a \in Attempts : Probing(a)' => Probing(a)
    BY <1>4, CallersAssumption DEF GraphRefreshed, TaskDone, Probing, TypeOK, TaskInv
  <2>2. QED BY <1>4, <2>1 DEF GraphRefreshed, Watched, connVars
<1>5. ASSUME NEW c \in Callers, EnterRefresh(c), UNCHANGED <<connVars, revoked>>,
             pc[c] = "manifest" \/ c \notin Attempts
      PROVE  Watched
  <2>1. \A a \in Attempts : Probing(a)' => Probing(a)
    BY <1>5, CallersAssumption DEF EnterRefresh, Probing, TypeOK, TaskInv
  <2>2. QED BY <1>5, <2>1 DEF Watched, connVars
<1>6. ASSUME NEW c \in Callers, NEW next \in {"idle", "hook"}, LeaveRefresh(c),
             pc' = [pc EXCEPT ![c] = next], UNCHANGED <<connVars, revoked>>
      PROVE  Watched
  <2>1. \A a \in Attempts : Probing(a)' => Probing(a)
    BY <1>6, CallersAssumption DEF LeaveRefresh, Probing, TypeOK, TaskInv
  <2>2. QED BY <1>6, <2>1 DEF Watched, connVars
<1>7. ASSUME NEW a \in Attempts, TimerFires(a) PROVE Watched
  BY <1>7 DEF TimerFires, Watched
<1>8. ASSUME NEW a \in Attempts, HookReturns(a) PROVE Watched
  <2>1. \A b \in Attempts : Probing(b)' => Probing(b)
    BY <1>8 DEF HookReturns, Probing, TypeOK
  <2>2. QED BY <1>8, <2>1 DEF HookReturns, Watched, connVars
<1>9. CASE Unload
  <2>1. \A a \in Attempts : Probing(a)' => Probing(a)
    BY <1>9 DEF Unload, Probing, taskVars
  <2>2. timer = 0 \/ revoked'
    BY <1>9 DEF Unload
  <2>3. QED BY <1>9, <2>1, <2>2 DEF Unload, Watched, connVars
<1>10. QED
  <2>1. \A a \in Attempts : AttemptDecides(a) => Watched
    BY <1>6 DEF AttemptDecides
  <2>2. \A c \in Attempts \cup {Setup} : ManifestFetched(c) => Watched
    BY <1>5 DEF ManifestFetched
  <2>3. \A s \in Services : (ServiceRefreshes(s) \/ ServiceReturns(s)) => Watched
    BY <1>5, <1>6, CallersAssumption DEF ServiceRefreshes, ServiceReturns
  <2>4. SetupFinishes => Watched
    BY <1>6 DEF SetupFinishes
  <2>5. \A o \in Callers : ~CancellationSpreads(o)
    BY DEF CancellationSpreads, WatchdogInv
  <2>6. DaemonChanges \/ UNCHANGED vars => Watched
    BY <1>1 DEF DaemonChanges, vars, connVars, taskVars
  <2>7. QED
    BY <1>2, <1>3, <1>4, <1>7, <1>8, <1>9, <2>1, <2>2, <2>3, <2>4, <2>5, <2>6
    DEF Next, TaskStep, AttemptStep, SetupStep, OnlyUnreachable

\* What is shown before the first verdict stays as the entry found it.
LEMMA UnjudgedStep ==
    ASSUME TypeOK, OnlyUnreachable, [Next]_vars, ~judged'
    PROVE  UNCHANGED <<connected, issues>>
<1>1. ASSUME NEW o \in Callers, ReadsFail(o) PROVE FALSE
  <2>1. \A d \in seen[o] : d.answer # "error"
    BY EnvironmentAssumption DEF OnlyUnreachable, DaemonStates, TypeOK
  <2>2. MarkDaemonUnreachable
    BY <1>1, <2>1 DEF ReadsFail
  <2>3. QED BY <2>2 DEF MarkDaemonUnreachable
<1>2. ASSUME NEW o \in Callers, ReadsAnswered(o) PROVE FALSE
  BY <1>2 DEF ReadsAnswered, RecordContract
<1>3. QED
  BY <1>1, <1>2
  DEF Next, TaskStep, AttemptStep, SetupStep, vars, connVars, DaemonChanges,
      GraphRefreshed, CancelCaller, CancellationSpreads, ManifestFetched,
      ServiceRefreshes, ServiceReturns, SetupFinishes, TimerFires,
      AttemptDecides, HookReturns, Unload

\* The refresh and the watchdog implement what ConnectionReport promises: every
\* step drops, restores or withdraws the connection as it allows, or shows nothing.
THEOREM ConnectionImplementsReport ==
    ASSUME OnlyUnreachable PROVE Spec => ImplementsReport
<1>1. Init => Report!Init
  BY CallersAssumption DEF Init, Report!Init, Watched, Probing
<1>2. ASSUME TypeOK, TypeOK', TaskInv, WatchdogInv, WatchdogInv', HonestReport', [Next]_vars
      PROVE  [Report!Next]_(Report!vars)
  <2>1. CASE Unload
    <3>1. Watched' => Watched
      BY <1>2, <2>1, NoWatchBegins DEF Unload, Watched, Probing, taskVars, connVars
    <3>2. QED BY <2>1, <3>1 DEF Unload, connVars, Report!Next, Report!Withdraw
  <2>2. CASE ~Unload
    <3>1. (entry' # "unloaded") = (entry # "unloaded")
      <4>1. SetupFinishes => entry = "setup" /\ entry' = "loaded"
        BY <1>2 DEF SetupFinishes, LeaveRefresh, WatchdogInv
      <4>2. \A o \in Callers : ~CancellationSpreads(o)
        BY <1>2 DEF CancellationSpreads, WatchdogInv
      <4>3. SetupFinishes \/ entry' = entry
        BY <1>2, <2>2, <4>2
        DEF Next, TaskStep, AttemptStep, SetupStep, vars, DaemonChanges, ReadsFail,
            ReadsAnswered, GraphRefreshed, CancelCaller, ManifestFetched,
            ServiceRefreshes, ServiceReturns, TimerFires, AttemptDecides, HookReturns
      <4>4. QED BY <4>1, <4>3
    <3>2. CASE connected'
      <4>1. Watched' => Watched
        BY <1>2, <3>2, NoWatchBegins
      <4>2. CASE judged'
        <5>1. connected' = TRUE /\ issues' = {}
          BY <1>2, <3>2, <4>2 DEF HonestReport, TypeOK
        <5>2. QED BY <3>1, <4>1, <5>1 DEF Report!Next, Report!Restore
      <4>3. CASE ~judged'
        <5>1. UNCHANGED <<connected, issues>>
          BY <1>2, <4>3, UnjudgedStep
        <5>2. QED BY <3>1, <3>2, <4>1, <5>1 DEF Report!Next, Report!Wait
      <4>4. QED BY <4>2, <4>3
    <3>3. CASE ~connected'
      <4>1. connected' = FALSE /\ issues' \in (SUBSET ({"unreachable"} \cup ContractFaults)) \ {{}}
        BY <1>2, <3>3 DEF HonestReport, TypeOK
      <4>2. entry # "unloaded" => Watched'
        BY <1>2, <3>1, <3>3 DEF WatchdogInv, WatchdogArmed
      <4>3. QED BY <3>1, <4>1, <4>2 DEF Report!Next, Report!Drop
    <3>4. QED BY <3>2, <3>3
  <2>3. QED BY <2>1, <2>2
<1>3. QED
  BY <1>1, <1>2, TypeCorrect, TaskCorrect, WatchdogCorrect, ReportIsHonest, PTL
  DEF Spec, ImplementsReport, Report!Spec

=============================================================================
