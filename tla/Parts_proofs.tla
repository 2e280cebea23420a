----------------------------- MODULE Parts_proofs -----------------------------
(***************************************************************************)
(* Proofs about the parts that share no state: EntryLifecycle, for any number *)
(* of entries, setups and changes; MailCalendar, for any number of probes and *)
(* calls; Snapshot, for any home; UpdateInstall, for any number of entities,  *)
(* installs, releases and files; and, with AnswerStream_proofs and           *)
(* Observers_proofs, about the types of all of them.                         *)
(***************************************************************************)
EXTENDS MCParts, AnswerStream_proofs

-----------------------------------------------------------------------------
(* The lifecycle of entries (EntryLifecycle).                                  *)

SetupStates == {"frontend", "connecting", "forwarding"}

EntryStates == {"unloaded", "loaded", "unloading", "error", "stuck"} \cup SetupStates

Setups == 1..MaxSetups

\* The types the invariants need.
EntryShape ==
    /\ state \in [Entries -> EntryStates]
    /\ gen \in [Entries -> 0..MaxSetups] /\ runtime \in [Entries -> 0..MaxSetups]
    /\ live \subseteq Entries \X Setups \X Kinds
    /\ options \in [Entries -> SUBSET Managers]
    /\ reloads \in [Entries -> Nat]
    /\ failed \in [Entries -> SUBSET Setups]
    /\ registered \in BOOLEAN

\* Which runtime hass.data holds: that of the last setup, until an unload takes it out; after
\* a setup that failed it is still there.
RuntimeInv ==
    \A e \in Entries :
        /\ IF state[e] = "unloaded" THEN runtime[e] = 0 ELSE runtime[e] = gen[e] /\ gen[e] # 0
        /\ state[e] = "error" => gen[e] \in failed[e]
        /\ failed[e] # {} => e \in MayFail

\* What the bus and the entry hold is of a setup that was begun.
LEMMA Handled ==
    ASSUME NEW e \in Entries, NEW g, NEW kinds, NEW h \in Handles(e, g, kinds)
    PROVE  h[1] = e /\ h[2] = g /\ h[3] \in kinds
BY DEF Handles

\* The handles a setup adds are well-formed.
LEMMA HandlesType ==
    ASSUME NEW e \in Entries, NEW g \in Setups, NEW kinds \in SUBSET Kinds
    PROVE  Handles(e, g, kinds) \subseteq Entries \X Setups \X Kinds
BY DEF Handles

\* What the end of a setup starts is of the kinds there are.
LEMMA KindsOfSetup ==
    ASSUME EntryShape, NEW e \in Entries
    PROVE  GraphKinds(e) \cup ManagersStarted(e) \cup {"options"} \in SUBSET Kinds
<1>1. GraphKinds(e) \subseteq Kinds
  BY DEF GraphKinds, Kinds
<1>2. ManagersStarted(e) \subseteq Kinds
  BY DEF ManagersStarted, Kinds, EntryShape
<1> QED BY <1>1, <1>2 DEF Kinds

\* The runtime unload looks for is that of the last setup.
LEMMA BaseHolds == Spec => [](EntryShape /\ RuntimeInv)
<1> USE EntriesAssumption DEF EntryStates, SetupStates, Setups
<1>1. Init => EntryShape /\ RuntimeInv
  <2> SUFFICES ASSUME Init PROVE EntryShape /\ RuntimeInv
    OBVIOUS
  <2>1. 0 \in 0..MaxSetups
    OBVIOUS
  <2>2. state \in [Entries -> EntryStates] /\ live \subseteq Entries \X Setups \X Kinds
    BY DEF Init
  <2>3. gen \in [Entries -> 0..MaxSetups] /\ runtime \in [Entries -> 0..MaxSetups]
    BY <2>1 DEF Init
  <2>4. options \in [Entries -> SUBSET Managers] /\ reloads \in [Entries -> Nat]
    BY DEF Init
  <2>5. failed \in [Entries -> SUBSET Setups] /\ registered \in BOOLEAN
    BY DEF Init
  <2>6. RuntimeInv
    BY DEF RuntimeInv, Init
  <2> QED BY <2>2, <2>3, <2>4, <2>5, <2>6 DEF EntryShape
<1>2. EntryShape /\ RuntimeInv /\ [Next]_vars => EntryShape' /\ RuntimeInv'
  <2> SUFFICES ASSUME EntryShape, RuntimeInv, [Next]_vars PROVE EntryShape' /\ RuntimeInv'
    OBVIOUS
  <2> USE DEF EntryShape, RuntimeInv
  <2>1. ASSUME NEW e \in Entries, BeginSetup(e) PROVE EntryShape' /\ RuntimeInv'
    <3>1. gen[e] + 1 \in Setups /\ gen[e] + 1 \in 0..MaxSetups
      BY <2>1 DEF BeginSetup
    <3>2. live' \subseteq Entries \X Setups \X Kinds
      <4>1. {"provenance"} \in SUBSET Kinds
        BY DEF Kinds
      <4> QED BY <2>1, <3>1, <4>1, HandlesType DEF BeginSetup
    <3>3. reloads' \in [Entries -> Nat]
      BY <2>1 DEF BeginSetup
    <3>4. state' \in [Entries -> EntryStates] /\ state'[e] \in SetupStates
      BY <2>1 DEF BeginSetup
    <3>5. EntryShape'
      BY <2>1, <3>1, <3>2, <3>3, <3>4 DEF BeginSetup
    <3>6. \A f \in Entries : f # e => state'[f] = state[f]
      BY <2>1 DEF BeginSetup
    <3>7. RuntimeInv'
      BY <2>1, <3>1, <3>4, <3>6 DEF BeginSetup
    <3> QED BY <3>5, <3>7
  <2>2. ASSUME NEW e \in Entries, FrontendRegistered(e) PROVE EntryShape' /\ RuntimeInv'
    BY <2>2 DEF FrontendRegistered
  <2>3. ASSUME NEW e \in Entries, Connected(e) PROVE EntryShape' /\ RuntimeInv'
    <3>1. gen[e] \in Setups /\ {"event"} \in SUBSET Kinds
      BY <2>3 DEF Connected, Kinds
    <3>2. live' \subseteq Entries \X Setups \X Kinds
      BY <2>3, <3>1, HandlesType DEF Connected
    <3> QED BY <2>3, <3>2 DEF Connected
  <2>4. ASSUME NEW e \in Entries, SetupEnds(e) PROVE EntryShape' /\ RuntimeInv'
    <3>1. gen[e] \in Setups
      BY <2>4 DEF SetupEnds
    <3>2. live' \subseteq Entries \X Setups \X Kinds
      BY <2>4, <3>1, HandlesType, KindsOfSetup DEF SetupEnds
    <3> QED BY <2>4, <3>2 DEF SetupEnds
  <2>5. ASSUME NEW e \in Entries, SetupFails(e) PROVE EntryShape' /\ RuntimeInv'
    <3>1. gen[e] \in Setups
      BY <2>5 DEF SetupFails
    <3> QED BY <2>5, <3>1 DEF SetupFails
  <2>6. ASSUME NEW e \in Entries, ChangeOptions(e) PROVE EntryShape' /\ RuntimeInv'
    <3>1. options' \in [Entries -> SUBSET Managers]
      <4>1. PICK o \in SUBSET Managers : options' = [options EXCEPT ![e] = o]
        BY <2>6 DEF ChangeOptions
      <4> QED BY <4>1
    <3>2. reloads' \in [Entries -> Nat]
      <4>1. reloads' = [reloads EXCEPT ![e] = @ + 1] \/ reloads' = reloads
        BY <2>6 DEF ChangeOptions
      <4> QED BY <4>1
    <3> QED BY <2>6, <3>1, <3>2 DEF ChangeOptions, entryVars
  <2>7. ASSUME NEW e \in Entries, BeginReload(e) \/ BeginUnload(e) PROVE EntryShape' /\ RuntimeInv'
    BY <2>7 DEF BeginReload, BeginUnload
  <2>8. ASSUME NEW e \in Entries, ReloadRefused(e) PROVE EntryShape' /\ RuntimeInv'
    BY <2>8 DEF ReloadRefused, entryVars
  <2>9. ASSUME NEW e \in Entries, UnloadEnds(e) PROVE EntryShape' /\ RuntimeInv'
    BY <2>9 DEF UnloadEnds
  <2>10. ASSUME NEW e \in Entries, UnloadFails(e) PROVE EntryShape' /\ RuntimeInv'
    BY <2>10 DEF UnloadFails
  <2>11. CASE HomeAssistantStarted
    <3>1. live' \subseteq Entries \X Setups \X Kinds
      BY <2>11 DEF HomeAssistantStarted, Kinds
    <3> QED BY <2>11, <3>1 DEF HomeAssistantStarted
  <2>12. ASSUME NEW e \in Entries, SyncEnds(e) PROVE EntryShape' /\ RuntimeInv'
    BY <2>12 DEF SyncEnds
  <2>13. CASE UNCHANGED vars
    BY <2>13 DEF vars, entryVars
  <2> QED BY <2>1, <2>2, <2>3, <2>4, <2>5, <2>6, <2>7, <2>8, <2>9, <2>10, <2>11, <2>12, <2>13
          DEF Next, SetupGoesOn
<1> QED BY <1>1, <1>2, PTL DEF Spec

-----------------------------------------------------------------------------

\* What is on the bus belongs to the runtime that unload will find, or to a setup that failed,
\* however the steps of entries interleave.
THEOREM LeaksAreFailedSetups == Spec => []OnlyFailedSetupsLeak
<1> USE DEF OnlyFailedSetupsLeak
<1>1. Init => OnlyFailedSetupsLeak
  BY DEF Init
<1>2. EntryShape /\ RuntimeInv /\ OnlyFailedSetupsLeak /\ [Next]_vars => OnlyFailedSetupsLeak'
  <2> SUFFICES ASSUME EntryShape, RuntimeInv, OnlyFailedSetupsLeak, [Next]_vars,
                      NEW h \in live'
               PROVE  h[2] = runtime'[h[1]] \/ (h[1] \in MayFail /\ h[2] \in failed'[h[1]])
    OBVIOUS
  <2>0. \A x \in live : x[1] \in Entries /\ x[2] # 0
    BY EntriesAssumption DEF EntryShape, Setups
  <2>1. ASSUME NEW e \in Entries, BeginSetup(e)
        PROVE  h[2] = runtime'[h[1]] \/ (h[1] \in MayFail /\ h[2] \in failed'[h[1]])
    <3>1. CASE h \in Handles(e, gen[e] + 1, {"provenance"})
      BY <2>1, <3>1, Handled DEF BeginSetup, EntryShape
    <3>2. CASE h \in live /\ h[1] # e
      BY <2>0, <2>1, <3>2 DEF BeginSetup, EntryShape
    <3>3. CASE h \in live /\ h[1] = e
      <4>1. h[2] = runtime[e] => h[2] \in failed[e] /\ e \in MayFail
        BY <2>0, <2>1, <3>3 DEF BeginSetup, RuntimeInv
      <4> QED BY <2>1, <3>3, <4>1 DEF BeginSetup
    <3> QED BY <2>1, <3>1, <3>2, <3>3 DEF BeginSetup
  <2>2. ASSUME NEW e \in Entries, Connected(e) \/ SetupEnds(e)
        PROVE  h[2] = runtime'[h[1]] \/ (h[1] \in MayFail /\ h[2] \in failed'[h[1]])
    <3>1. runtime[e] = gen[e] /\ UNCHANGED <<runtime, failed>>
      BY <2>2 DEF Connected, SetupEnds, RuntimeInv
    <3>2. CASE h \in live
      BY <3>1, <3>2
    <3>3. CASE h \notin live
      <4>1. PICK kinds : h \in Handles(e, gen[e], kinds)
        BY <2>2, <3>3 DEF Connected, SetupEnds
      <4> QED BY <3>1, <4>1, Handled
    <3> QED BY <3>2, <3>3
  <2>3. ASSUME NEW e \in Entries, SetupFails(e)
        PROVE  h[2] = runtime'[h[1]] \/ (h[1] \in MayFail /\ h[2] \in failed'[h[1]])
    BY <2>0, <2>3 DEF SetupFails, EntryShape
  <2>4. ASSUME NEW e \in Entries, UnloadEnds(e)
        PROVE  h[2] = runtime'[h[1]] \/ (h[1] \in MayFail /\ h[2] \in failed'[h[1]])
    <3>1. h \in live /\ h \notin Stopped(e) /\ UNCHANGED failed
      BY <2>4 DEF UnloadEnds
    <3>2. h[1] = e => h[2] # runtime[e]
      BY <3>1 DEF Stopped
    <3> QED BY <2>0, <2>4, <3>1, <3>2 DEF UnloadEnds, EntryShape
  <2>5. CASE HomeAssistantStarted
    <3>1. PICK x \in live : h = x \/ h = <<x[1], x[2], "sync">>
      BY <2>5 DEF HomeAssistantStarted
    <3> QED BY <2>5, <3>1 DEF HomeAssistantStarted
  <2>6. ASSUME NEW e \in Entries, SyncEnds(e)
        PROVE  h[2] = runtime'[h[1]] \/ (h[1] \in MayFail /\ h[2] \in failed'[h[1]])
    BY <2>6 DEF SyncEnds
  <2>7. CASE UNCHANGED <<live, runtime, failed>>
    BY <2>7
  <2> QED BY <2>1, <2>2, <2>3, <2>4, <2>5, <2>6, <2>7
          DEF Next, SetupGoesOn, FrontendRegistered, ChangeOptions, BeginReload, BeginUnload,
              ReloadRefused, UnloadFails, vars, entryVars
<1> QED BY <1>1, <1>2, BaseHolds, PTL DEF Spec

-----------------------------------------------------------------------------

\* The panel names an entry only while that entry alone has a runtime, is there while one
\* of the entries is past the registration, and only then.
PanelNames ==
    /\ panel \in Entries => Held(runtime) = {panel}
    /\ panel # NoPanel => Held(runtime) # {}
    /\ \A e \in Entries :
          state[e] \in {"connecting", "forwarding", "loaded", "unloading"} => panel # NoPanel

\* The panel is there only after the registration.
PanelInv ==
    /\ panel \in Entries \cup {None, NoPanel}
    /\ panel # NoPanel => registered

\* The panel the registration puts up names the entry that is alone, or none.
LEMMA PanelChosen ==
    ASSUME NEW r
    PROVE  /\ PanelFor(r) \in Entries \cup {None} /\ PanelFor(r) # NoPanel
           /\ PanelFor(r) \in Entries => Held(r) = {PanelFor(r)}
<1>1. CASE \E e \in Entries : Held(r) = {e}
  BY <1>1, EntriesAssumption DEF PanelFor
<1>2. CASE ~\E e \in Entries : Held(r) = {e}
  BY <1>2, EntriesAssumption DEF PanelFor
<1> QED BY <1>1, <1>2

\* The panel the invariants speak of is one there can be, and is there only once registered.
LEMMA PanelHolds == Spec => [](PanelNames /\ PanelInv)
<1> USE DEF PanelNames, PanelInv
<1>1. Init => PanelNames /\ PanelInv
  BY EntriesAssumption DEF Init
<1>2. EntryShape /\ RuntimeInv /\ PanelNames /\ PanelInv /\ [Next]_vars => PanelNames' /\ PanelInv'
  <2> SUFFICES ASSUME EntryShape, RuntimeInv, PanelNames, PanelInv, [Next]_vars
               PROVE  PanelNames' /\ PanelInv'
    OBVIOUS
  <2> USE EntriesAssumption DEF Held
  <2>1. ASSUME NEW e \in Entries, BeginSetup(e) PROVE PanelNames' /\ PanelInv'
    <3>1. runtime'[e] # 0
      BY <2>1 DEF BeginSetup, EntryShape
    <3>2. \A f \in Entries : f # e => state'[f] = state[f]
      BY <2>1 DEF BeginSetup, EntryShape
    <3>3. CASE registered
      BY <2>1, <3>1, <3>2, <3>3, PanelChosen DEF BeginSetup, EntryShape
    <3>4. CASE ~registered
      BY <2>1, <3>1, <3>2, <3>4 DEF BeginSetup, EntryShape
    <3> QED BY <3>3, <3>4
  <2>2. ASSUME NEW e \in Entries, FrontendRegistered(e) PROVE PanelNames' /\ PanelInv'
    <3>1. e \in Held(runtime)
      BY <2>2 DEF FrontendRegistered, RuntimeInv
    <3> QED BY <2>2, <3>1, PanelChosen DEF FrontendRegistered, EntryShape
  <2>3. ASSUME NEW e \in Entries, Connected(e) \/ SetupEnds(e) PROVE PanelNames' /\ PanelInv'
    BY <2>3 DEF Connected, SetupEnds, EntryShape
  <2>4. ASSUME NEW e \in Entries, SetupFails(e) \/ UnloadFails(e) PROVE PanelNames' /\ PanelInv'
    BY <2>4 DEF SetupFails, UnloadFails, EntryShape
  <2>5. ASSUME NEW e \in Entries, BeginReload(e) \/ BeginUnload(e) PROVE PanelNames' /\ PanelInv'
    BY <2>5 DEF BeginReload, BeginUnload, EntryShape
  <2>6. ASSUME NEW e \in Entries, UnloadEnds(e) PROVE PanelNames' /\ PanelInv'
    <3>1. e \in Held(runtime) /\ panel # NoPanel
      BY <2>6 DEF UnloadEnds, RuntimeInv
    <3>2. Held(runtime') = Held(runtime) \ {e}
      BY <2>6 DEF UnloadEnds, EntryShape
    <3>3. state' = [state EXCEPT ![e] = "unloaded"] /\ registered' = registered
      BY <2>6 DEF UnloadEnds
    <3>4. CASE Held(runtime') = {}
      <4>1. panel' = NoPanel
        BY <2>6, <3>4 DEF UnloadEnds
      <4>2. \A f \in Entries : f # e => runtime[f] = 0
        BY <3>2, <3>4
      <4>3. \A f \in Entries : f # e => state[f] = "unloaded"
        BY <4>2 DEF RuntimeInv
      <4> QED BY <3>3, <4>1, <4>3 DEF EntryShape
    <3>5. CASE Held(runtime') # {}
      <4>1. panel' = panel
        BY <2>6, <3>5 DEF UnloadEnds
      <4>2. panel \notin Entries
        BY <3>1, <3>2, <3>5
      <4> QED BY <3>1, <3>3, <3>5, <4>1, <4>2 DEF EntryShape
    <3> QED BY <3>4, <3>5
  <2>7. CASE UNCHANGED <<panel, runtime, state, registered>>
    BY <2>7
  <2> QED BY <2>1, <2>2, <2>3, <2>4, <2>5, <2>6, <2>7
          DEF Next, SetupGoesOn, ChangeOptions, ReloadRefused, HomeAssistantStarted, SyncEnds,
              vars, entryVars
<1> QED BY <1>1, <1>2, BaseHolds, PTL DEF Spec

\* However entries come and go, what the panel sends reaches the one runtime there is, is
\* refused while there are several, and no entry past the registration is without the panel.
THEOREM PanelAlwaysResolves == Spec => []PanelResolves
<1>1. PanelNames /\ PanelInv => PanelResolves
  <2> SUFFICES ASSUME PanelNames, PanelInv, panel # NoPanel
               PROVE  Resolved(panel, runtime)
                        = IF \E e \in Entries : Held(runtime) = {e} THEN Held(runtime) ELSE {}
    BY DEF PanelNames, PanelResolves
  <2> DEFINE H == Held(runtime)
  <2>1. Resolved(panel, runtime) = {e \in H : e = panel \/ (panel = None /\ H = {e})}
    BY DEF Resolved
  <2>2. CASE panel \in Entries
    <3>1. H = {panel}
      BY <2>2 DEF PanelNames
    <3> QED BY <2>1, <2>2, <3>1
  <2>3. CASE panel = None
    <3>1. H \subseteq Entries /\ None \notin Entries
      BY EntriesAssumption DEF Held
    <3>2. CASE \E e \in Entries : H = {e}
      BY <2>1, <2>3, <3>1, <3>2
    <3>3. CASE ~\E e \in Entries : H = {e}
      BY <2>1, <2>3, <3>1, <3>3
    <3> QED BY <3>2, <3>3
  <2> QED BY <2>2, <2>3 DEF PanelInv
<1> QED BY <1>1, PanelHolds, PTL

-----------------------------------------------------------------------------

\* A setup that has not ended started no manager, nothing belongs to a setup to come, and a
\* loaded entry hears of changes of its options.
ManagersInv ==
    /\ \A h \in live : h[2] <= gen[h[1]]
    /\ \A e \in Entries :
          /\ state[e] \in SetupStates => \A m \in Managers : <<e, gen[e], m>> \notin live
          /\ state[e] = "loaded" => <<e, gen[e], "options">> \in live

\* A loaded entry that has no reload to come runs the managers of its options, at whichever
\* await of a setup, an unload or a reload they were changed.
THEOREM OptionsAreRun == Spec => []RunsItsOptions
<1> USE EntriesAssumption DEF RunsItsOptions, ManagersInv, SetupStates
<1>1. Init => RunsItsOptions /\ ManagersInv
  BY DEF Init
<1>2. EntryShape /\ RuntimeInv /\ RunsItsOptions /\ ManagersInv /\ [Next]_vars
        => RunsItsOptions' /\ ManagersInv'
  <2> SUFFICES ASSUME EntryShape, RuntimeInv, RunsItsOptions, ManagersInv, [Next]_vars
               PROVE  RunsItsOptions' /\ ManagersInv'
    OBVIOUS
  <2> USE DEF EntryShape
  <2>0. \A h \in live : h[1] \in Entries /\ h[2] \in Nat
    BY DEF Setups
  <2>1. ASSUME NEW e \in Entries, BeginSetup(e) PROVE RunsItsOptions' /\ ManagersInv'
    <3>1. gen' = [gen EXCEPT ![e] = gen[e] + 1] /\ gen[e] \in Nat /\ options' = options
      BY <2>1 DEF BeginSetup
    <3>2. \A x \in live' : x \in live \/ x = <<e, gen[e] + 1, "provenance">>
      BY <2>1, Handled DEF BeginSetup, Handles
    <3>3. \A f \in Entries : f # e => state'[f] = state[f] /\ reloads'[f] = reloads[f]
      BY <2>1 DEF BeginSetup
    <3>4. state'[e] \in {"connecting", "frontend"}
      BY <2>1 DEF BeginSetup
    <3>5. live \subseteq live'
      BY <2>1 DEF BeginSetup
    <3>6. \A h \in live' : h[2] <= gen'[h[1]]
      BY <2>0, <3>1, <3>2
    <3>7. \A m \in Managers : <<e, gen[e] + 1, m>> \notin live'
      <4>1. \A m \in Managers : <<e, gen[e] + 1, m>> \notin live
        BY <3>1
      <4> QED BY <3>2, <4>1 DEF Managers
    <3>8. \A f \in Entries, m \in Managers : f # e => (<<f, gen[f], m>> \in live' <=> <<f, gen[f], m>> \in live)
      BY <3>2, <3>5
    <3>9. \A f \in Entries : f # e => gen'[f] = gen[f]
      BY <3>1
    <3>10. gen'[e] = gen[e] + 1
      BY <3>1
    <3> QED BY <3>1, <3>3, <3>4, <3>5, <3>6, <3>7, <3>8, <3>9, <3>10
  <2>2. ASSUME NEW e \in Entries, FrontendRegistered(e) \/ SetupFails(e)
        PROVE  RunsItsOptions' /\ ManagersInv'
    BY <2>2 DEF FrontendRegistered, SetupFails
  <2>3. ASSUME NEW e \in Entries, Connected(e) PROVE RunsItsOptions' /\ ManagersInv'
    <3>1. live' = live \cup {<<e, gen[e], "event">>}
      BY <2>3 DEF Connected, Handles
    <3>2. \A f \in Entries, m \in Managers : <<f, gen[f], m>> \in live' <=> <<f, gen[f], m>> \in live
      BY <3>1 DEF Managers
    <3>3. \A h \in live' : h[2] <= gen[h[1]]
      BY <3>1
    <3> QED BY <2>3, <3>1, <3>2, <3>3 DEF Connected
  <2>4. ASSUME NEW e \in Entries, SetupEnds(e) PROVE RunsItsOptions' /\ ManagersInv'
    <3> DEFINE new == GraphKinds(e) \cup ManagersStarted(e) \cup {"options"}
    <3>1. live' = live \cup Handles(e, gen[e], new) /\ state' = [state EXCEPT ![e] = "loaded"]
          /\ state[e] = "forwarding" /\ UNCHANGED <<gen, options, reloads>>
      BY <2>4 DEF SetupEnds
    <3>2. \A m \in Managers : m \in new <=> m \in options[e]
      BY DEF GraphKinds, ManagersStarted, Managers
    <3>3. \A k : k \in new <=> <<e, gen[e], k>> \in Handles(e, gen[e], new)
      BY DEF Handles
    <3>4. \A m \in Managers : <<e, gen[e], m>> \in live' <=> m \in options[e]
      BY <3>1, <3>2, <3>3
    <3>5. \A f \in Entries : \A k : f # e => (<<f, gen[f], k>> \in live' <=> <<f, gen[f], k>> \in live)
      BY <3>1 DEF Handles
    <3>6. <<e, gen[e], "options">> \in live'
      BY <3>1, <3>3
    <3>7. \A h \in live' : h[2] <= gen[h[1]]
      BY <3>1, Handled
    <3>8. \A f \in Entries : f # e => state'[f] = state[f]
      BY <3>1
    <3>9. state'[e] = "loaded"
      BY <3>1
    <3>10. {m \in Managers : <<e, gen[e], m>> \in live'} = options[e]
      BY <3>4
    <3>11. \A f \in Entries : f # e => {m \in Managers : <<f, gen[f], m>> \in live'}
                                        = {m \in Managers : <<f, gen[f], m>> \in live}
      BY <3>5
    <3>12. RunsItsOptions'
      BY <3>1, <3>8, <3>10, <3>11
    <3>13. ManagersInv'
      BY <3>1, <3>5, <3>6, <3>7, <3>8, <3>9
    <3> QED BY <3>12, <3>13
  <2>5. ASSUME NEW e \in Entries, ChangeOptions(e) PROVE RunsItsOptions' /\ ManagersInv'
    <3>1. UNCHANGED <<state, gen, live>> /\ \A f \in Entries : f # e => options'[f] = options[f] /\ reloads'[f] = reloads[f]
      BY <2>5 DEF ChangeOptions, entryVars
    <3>2. state[e] = "loaded" => reloads'[e] # 0
      BY <2>5 DEF ChangeOptions, RuntimeInv
    <3> QED BY <3>1, <3>2
  <2>6. ASSUME NEW e \in Entries, BeginReload(e) \/ BeginUnload(e) \/ UnloadFails(e)
        PROVE  RunsItsOptions' /\ ManagersInv'
    BY <2>6 DEF BeginReload, BeginUnload, UnloadFails
  <2>7. ASSUME NEW e \in Entries, ReloadRefused(e) PROVE RunsItsOptions' /\ ManagersInv'
    BY <2>7 DEF ReloadRefused, entryVars
  <2>8. ASSUME NEW e \in Entries, UnloadEnds(e) PROVE RunsItsOptions' /\ ManagersInv'
    <3>1. \A f \in Entries : \A k : f # e => (<<f, gen[f], k>> \in live' <=> <<f, gen[f], k>> \in live)
      BY <2>8 DEF UnloadEnds, Stopped
    <3>2. state'[e] = "unloaded" /\ \A f \in Entries : f # e => state'[f] = state[f]
      BY <2>8 DEF UnloadEnds
    <3>3. \A f \in Entries : f # e => {m \in Managers : <<f, gen[f], m>> \in live'}
                                       = {m \in Managers : <<f, gen[f], m>> \in live}
      BY <3>1
    <3> QED BY <2>8, <3>1, <3>2, <3>3 DEF UnloadEnds
  <2>9. ASSUME UNCHANGED <<state, gen, options, reloads>>,
               \A f \in Entries, k \in Managers \cup {"options"} :
                  <<f, gen[f], k>> \in live' <=> <<f, gen[f], k>> \in live,
               \A h \in live' : \E x \in live : h[1] = x[1] /\ h[2] = x[2]
        PROVE  RunsItsOptions' /\ ManagersInv'
    <3>1. \A f \in Entries : {m \in Managers : <<f, gen[f], m>> \in live'}
                             = {m \in Managers : <<f, gen[f], m>> \in live}
      BY <2>9
    <3> QED BY <2>9, <3>1
  <2>10. CASE HomeAssistantStarted
    <3>1. \A f \in Entries, k \in Managers \cup {"options"} :
             <<f, gen[f], k>> \in live' <=> <<f, gen[f], k>> \in live
      BY <2>10 DEF HomeAssistantStarted, Managers
    <3>2. \A h \in live' : \E x \in live : h[1] = x[1] /\ h[2] = x[2]
      BY <2>10 DEF HomeAssistantStarted
    <3> QED BY <2>9, <2>10, <3>1, <3>2 DEF HomeAssistantStarted
  <2>11. ASSUME NEW e \in Entries, SyncEnds(e) PROVE RunsItsOptions' /\ ManagersInv'
    <3>1. \A f \in Entries, k \in Managers \cup {"options"} :
             <<f, gen[f], k>> \in live' <=> <<f, gen[f], k>> \in live
      BY <2>11 DEF SyncEnds, Managers
    <3>2. \A h \in live' : \E x \in live : h[1] = x[1] /\ h[2] = x[2]
      BY <2>11 DEF SyncEnds
    <3> QED BY <2>9, <2>11, <3>1, <3>2 DEF SyncEnds
  <2>12. CASE UNCHANGED vars
    BY <2>12 DEF vars, entryVars
  <2> QED BY <2>1, <2>2, <2>3, <2>4, <2>5, <2>6, <2>7, <2>8, <2>10, <2>11, <2>12
          DEF Next, SetupGoesOn
<1> QED BY <1>1, <1>2, BaseHolds, PTL DEF Spec

-----------------------------------------------------------------------------
(* The state of mail and calendar (MailCalendar).                              *)

\* Type correctness, for every value of the constants.
THEOREM MailTypeCorrect == MailSpec => []MailTypeOK
<1> USE MailAssumption DEF MailTypeOK, Outcomes, States
<1>1. MailInit => MailTypeOK
  BY DEF MailInit
<1>2. MailTypeOK /\ [MailNext]_mailVars => MailTypeOK'
  <2> SUFFICES ASSUME MailTypeOK, [MailNext]_mailVars PROVE MailTypeOK'
    OBVIOUS
  <2>0. ASSUME NEW c \in Outcomes
        PROVE  /\ Classified(DaemonAnswer(c)) \in States
               /\ Probed(c) \in [state : States, events : BOOLEAN]
               /\ MailAfterError(c) \in [state : States, events : BOOLEAN]
    <3>1. Classified(DaemonAnswer(c)) \in States
      BY DEF Classified
    <3>2. Fails(c) \in BOOLEAN
      BY DEF Fails
    <3> QED BY <3>1, <3>2 DEF Probed, MailAfterError
  <2>1. ASSUME NEW q \in Requests, MailSent(q) PROVE MailTypeOK'
    BY <2>1 DEF MailSent
  <2>2. ASSUME NEW q \in Requests, DaemonReplies(q) PROVE MailTypeOK'
    BY <2>2 DEF DaemonReplies, Met
  <2>3. ASSUME NEW q \in Requests, ProbeAnswered(q) PROVE MailTypeOK'
    BY <2>0, <2>3 DEF ProbeAnswered
  <2>4. ASSUME NEW q \in Requests, CallFails(q) PROVE MailTypeOK'
    <3>1. Told(reply[q]) \in States
      BY <2>0, <2>4 DEF CallFails, Told, MailAfterError
    <3> QED BY <2>0, <2>4, <3>1 DEF CallFails
  <2>5. ASSUME NEW q \in Requests, CallReturns(q) PROVE MailTypeOK'
    BY <2>5 DEF CallReturns
  <2>6. CASE UNCHANGED mailVars
    BY <2>6 DEF mailVars
  <2> QED BY <2>1, <2>2, <2>3, <2>4, <2>5, <2>6 DEF MailNext
<1> QED BY <1>1, <1>2, PTL DEF MailSpec

\* Typing and classifying an error gives each outcome the name that Called has for it.
LEMMA ClassifiedAsCalled ==
    ASSUME NEW c \in Outcomes
    PROVE  Classified(DaemonAnswer(c)) = Called[c]
<1> DEFINE a == DaemonAnswer(c)
<1>1. CASE c = "connected"
  <2>1. a.status = 200 /\ a.code = "none" /\ a.words = "none"
    BY <1>1 DEF DaemonAnswer
  <2>2. ErrorType(a) = "GoodVibesDaemonError"
    BY <2>1 DEF ErrorType
  <2>3. Classified(a) = "ready"
    BY <2>1, <2>2 DEF Classified, NotConfiguredCodes
  <2> QED BY <1>1, <2>3 DEF Called, Meaning, Outcomes
<1>2. CASE c = "faulty"
  <2>1. a.status = 500 /\ a.code = "INTERNAL" /\ a.words = "none"
    BY <1>2 DEF DaemonAnswer
  <2>2. ErrorType(a) = "GoodVibesDaemonError"
    BY <2>1 DEF ErrorType
  <2>3. Classified(a) = "ready"
    BY <2>1, <2>2 DEF Classified, NotConfiguredCodes
  <2> QED BY <1>2, <2>3 DEF Called, Meaning, Outcomes
<1>3. CASE c = "no_account"
  <2>1. a.status = 409 /\ a.code = "CALENDAR_NOT_CONFIGURED" /\ a.words = "none"
    BY <1>3 DEF DaemonAnswer
  <2>2. ErrorType(a) = "GoodVibesDaemonError"
    BY <2>1 DEF ErrorType
  <2>3. Classified(a) = "needs_setup"
    BY <2>1, <2>2 DEF Classified, NotConfiguredCodes
  <2> QED BY <1>3, <2>3 DEF Called, Meaning, Outcomes
<1>4. CASE c = "no_account_old"
  <2>1. a.status = 400 /\ a.code = "none" /\ a.words = "no_account"
    BY <1>4 DEF DaemonAnswer
  <2>2. ErrorType(a) = "GoodVibesDaemonError"
    BY <2>1 DEF ErrorType
  <2>3. Classified(a) = "needs_setup"
    BY <2>1, <2>2 DEF Classified, NotConfiguredCodes
  <2> QED BY <1>4, <2>3 DEF Called, Meaning, Outcomes
<1>5. CASE c = "old"
  <2>1. a.status = 404 /\ a.code = "none" /\ a.words = "none"
    BY <1>5 DEF DaemonAnswer
  <2>2. ErrorType(a) = "GoodVibesSurfaceMissingError"
    BY <2>1 DEF ErrorType
  <2>3. Classified(a) = "unsupported"
    BY <2>1, <2>2 DEF Classified, NotConfiguredCodes
  <2> QED BY <1>5, <2>3 DEF Called, Meaning, Outcomes
<1>6. CASE c = "disabled"
  <2>1. a.status = 400 /\ a.code = "none" /\ a.words = "surface_disabled"
    BY <1>6 DEF DaemonAnswer
  <2>2. ErrorType(a) = "GoodVibesSurfaceMissingError"
    BY <2>1 DEF ErrorType
  <2>3. Classified(a) = "unsupported"
    BY <2>1, <2>2 DEF Classified, NotConfiguredCodes
  <2> QED BY <1>6, <2>3 DEF Called, Meaning, Outcomes
<1>7. CASE c = "unwired"
  <2>1. a.status = 501 /\ a.code = "NOT_INVOKABLE" /\ a.words = "none"
    BY <1>7 DEF DaemonAnswer
  <2>2. ErrorType(a) = "GoodVibesSurfaceMissingError"
    BY <2>1 DEF ErrorType
  <2>3. Classified(a) = "unsupported"
    BY <2>1, <2>2 DEF Classified, NotConfiguredCodes
  <2> QED BY <1>7, <2>3 DEF Called, Meaning, Outcomes
<1>8. CASE c = "refused"
  <2>1. a.status = 401 /\ a.code = "none" /\ a.words = "none"
    BY <1>8 DEF DaemonAnswer
  <2>2. ErrorType(a) = "GoodVibesUnauthorizedError"
    BY <2>1 DEF ErrorType
  <2>3. Classified(a) = "ready"
    BY <2>1, <2>2 DEF Classified, NotConfiguredCodes
  <2> QED BY <1>8, <2>3 DEF Called, Meaning, Outcomes
<1>9. CASE c = "missing"
  <2>1. a.status = 404 /\ a.code = "NOT_FOUND" /\ a.words = "none"
    BY <1>9 DEF DaemonAnswer
  <2>2. ErrorType(a) = "GoodVibesSurfaceMissingError"
    BY <2>1 DEF ErrorType
  <2>3. Classified(a) = "unsupported"
    BY <2>1, <2>2 DEF Classified, NotConfiguredCodes
  <2> QED BY <1>9, <2>3 DEF Called, Meaning, Outcomes
<1>10. CASE c = "down"
  <2>1. a.status = 0 /\ a.code = "none" /\ a.words = "none"
    BY <1>10 DEF DaemonAnswer
  <2>2. ErrorType(a) = "GoodVibesUnavailableError"
    BY <2>1 DEF ErrorType
  <2>3. Classified(a) = "unavailable"
    BY <2>1, <2>2 DEF Classified, NotConfiguredCodes
  <2> QED BY <1>10, <2>3 DEF Called, Meaning, Outcomes
<1> QED BY <1>1, <1>2, <1>3, <1>4, <1>5, <1>6, <1>7, <1>8, <1>9, <1>10 DEF Outcomes

\* Only a request that meets a connected daemon is answered without an error.
LEMMA OnlyConnectedSucceeds ==
    ASSUME NEW c \in Outcomes, ~Fails(c)
    PROVE  c = "connected"
BY DEF Outcomes, Fails, DaemonAnswer

-----------------------------------------------------------------------------

\* Whatever probes and calls overlap, the state recorded is the whole verdict of one answer, under
\* the name the code has for it (for a refused token and a missing message not the table's); events
\* are shown only beside a state that allows them.
THEOREM ReasonStaysTrue == MailSpec => []ReasonIsTrue
<1>1. MailInit => ReasonIsTrue
  BY DEF MailInit, ReasonIsTrue
<1>2. MailTypeOK /\ ReasonIsTrue /\ [MailNext]_mailVars => ReasonIsTrue'
  <2> SUFFICES ASSUME MailTypeOK, ReasonIsTrue, [MailNext]_mailVars PROVE ReasonIsTrue'
    OBVIOUS
  <2> USE DEF ReasonIsTrue
  <2>1. ASSUME NEW q \in Requests, MailSent(q) PROVE ReasonIsTrue'
    BY <2>1 DEF MailSent
  <2>2. ASSUME NEW q \in Requests, DaemonReplies(q) PROVE ReasonIsTrue'
    BY <2>2 DEF DaemonReplies
  <2>3. ASSUME NEW q \in Requests, ProbeAnswered(q) PROVE ReasonIsTrue'
    <3>1. reply[q] \in Outcomes /\ reply[q] # "none"
      BY <2>3 DEF ProbeAnswered, MailTypeOK
    <3>2. mail' = Probed(reply[q]) /\ basis' = reply[q]
      BY <2>3 DEF ProbeAnswered
    <3>3. Classified(DaemonAnswer(reply[q])) = Called[reply[q]]
      BY <3>1, ClassifiedAsCalled
    <3>4. ~Fails(reply[q]) => Called[reply[q]] = "ready"
      BY <3>1, OnlyConnectedSucceeds DEF Called, Meaning
    <3> QED BY <3>1, <3>2, <3>3, <3>4 DEF Probed
  <2>4. ASSUME NEW q \in Requests, CallFails(q) PROVE ReasonIsTrue'
    <3>1. reply[q] \in Outcomes /\ reply[q] # "none"
      BY <2>4 DEF CallFails, MailTypeOK
    <3>2. mail' = MailAfterError(reply[q]) /\ basis' = reply[q]
      BY <2>4 DEF CallFails
    <3>3. Classified(DaemonAnswer(reply[q])) = Called[reply[q]]
      BY <3>1, ClassifiedAsCalled
    <3> QED BY <3>1, <3>2, <3>3 DEF MailAfterError
  <2>5. ASSUME NEW q \in Requests, CallReturns(q) PROVE ReasonIsTrue'
    BY <2>5 DEF CallReturns
  <2>6. CASE UNCHANGED mailVars
    BY <2>6 DEF mailVars
  <2> QED BY <2>1, <2>2, <2>3, <2>4, <2>5, <2>6 DEF MailNext
<1> QED BY <1>1, <1>2, MailTypeCorrect, PTL DEF MailSpec

\* What ToldItsOwnReason needs to be inductive: a caller that was told is done, so no later
\* answer takes the place of the one it was told of.
ToldInv ==
    \A q \in Requests :
        told[q] # "nothing" =>
            step[q] = "done" /\ Fails(reply[q]) /\ told[q] = Called[reply[q]]

\* A caller is told the reason of its own failure, whatever other requests record meanwhile.
THEOREM EachToldItsOwn == MailSpec => []ToldItsOwnReason
<1>1. MailInit => ToldInv
  BY DEF MailInit, ToldInv
<1>2. MailTypeOK /\ ToldInv /\ [MailNext]_mailVars => ToldInv'
  <2> SUFFICES ASSUME MailTypeOK, ToldInv, [MailNext]_mailVars, NEW p \in Requests,
                      told'[p] # "nothing"
               PROVE  step'[p] = "done" /\ Fails(reply'[p]) /\ told'[p] = Called[reply'[p]]
    BY DEF ToldInv, Fails
  <2> USE DEF ToldInv, MailTypeOK
  <2>1. ASSUME NEW q \in Requests, MailSent(q) \/ DaemonReplies(q) \/ ProbeAnswered(q) \/ CallReturns(q)
        PROVE  step'[p] = step[p] /\ reply'[p] = reply[p] /\ told'[p] = told[p]
    <3>1. step[p] = "done" /\ told'[p] = told[p]
      BY <2>1 DEF MailSent, DaemonReplies, ProbeAnswered, CallReturns
    <3>2. p # q
      BY <2>1, <3>1 DEF MailSent, DaemonReplies, ProbeAnswered, CallReturns
    <3> QED BY <2>1, <3>1, <3>2 DEF MailSent, DaemonReplies, ProbeAnswered, CallReturns
  <2>2. ASSUME NEW q \in Requests, CallFails(q)
        PROVE  step'[p] = "done" /\ Fails(reply'[p]) /\ told'[p] = Called[reply'[p]]
    <3>1. CASE p = q
      <4>1. reply[q] \in Outcomes /\ Fails(reply[q]) /\ reply'[q] = reply[q]
        BY <2>2 DEF CallFails
      <4>2. told'[q] = Told(reply[q]) /\ step'[q] = "done"
        BY <2>2 DEF CallFails
      <4>3. Told(reply[q]) = Called[reply[q]]
        BY <4>1, ClassifiedAsCalled DEF Told, MailAfterError
      <4> QED BY <3>1, <4>1, <4>2, <4>3
    <3>2. CASE p # q
      BY <2>2, <3>2 DEF CallFails
    <3> QED BY <3>1, <3>2
  <2>3. CASE UNCHANGED mailVars
    BY <2>3 DEF mailVars
  <2> QED BY <2>1, <2>2, <2>3 DEF MailNext
<1>3. ToldInv => ToldItsOwnReason
  BY DEF ToldInv, ToldItsOwnReason
<1> QED BY <1>1, <1>2, <1>3, MailTypeCorrect, PTL DEF MailSpec

-----------------------------------------------------------------------------
(* The snapshot (Snapshot).                                                    *)

\* The registries as Home Assistant keeps them: closed under reference.
HomeShape ==
    /\ home \in [devices : SUBSET HomeDevices, areas : SUBSET HomeAreas, exposed : SUBSET HomeEntities,
                 device : [HomeEntities -> HomeDevices \cup {Nowhere}],
                 area : [HomeEntities \cup HomeDevices -> HomeAreas \cup {Nowhere}]]
    /\ \A x \in HomeEntities : home.device[x] \in home.devices \cup {Nowhere}
    /\ \A x \in HomeEntities \cup HomeDevices : home.area[x] \in home.areas \cup {Nowhere}

\* What SnapshotIsClosed says of a snapshot that was begun when X was exposed.
Closed(s, X) ==
    /\ \A r \in s.refs : r[2] \in s.devices \cup s.areas
    /\ IncludeAll \/ s.entities \subseteq X
    /\ \A d \in s.devices : \E x \in s.entities : <<x, d>> \in s.refs
    /\ \A a \in s.areas : \E x \in s.entities :
          <<x, a>> \in s.refs \/ \E d \in s.devices : {<<x, d>>, <<d, a>>} \subseteq s.refs

\* The snapshot under way and the one that was sent, each with what was exposed at its beginning.
SnapshotInv ==
    /\ shared \in [reading : SUBSET HomeEntities, sent : SUBSET HomeEntities]
    /\ reading = <<>> \/ \E s \in Snapshots : reading = <<s>> /\ Closed(s, shared.reading)
    /\ sent \in Snapshots /\ Closed(sent, shared.sent)
    /\ edits \in 0..MaxEdits

\* What the registries hold, cut down to what is included, is a closed snapshot.
LEMMA CutIsClosed ==
    ASSUME HomeShape
    PROVE  Cut(home) \in Snapshots /\ Closed(Cut(home), home.exposed)
<1> DEFINE E == Included(home)
           D == IncludedDevices(home)
           A == IncludedAreas(home)
           R == Refs(home)
<1>0. Nowhere \notin HomeDevices \cup HomeAreas
  BY SnapshotAssumption
<1>1. /\ E \subseteq HomeEntities
      /\ IncludeAll \/ E \subseteq home.exposed
      /\ D \subseteq HomeDevices /\ D \subseteq home.devices /\ A \subseteq HomeAreas
  BY DEF HomeShape, Included, IncludedDevices, IncludedAreas
<1>2. \A x \in E : home.device[x] # Nowhere => home.device[x] \in D
  BY <1>1 DEF HomeShape, IncludedDevices
<1>3. \A x \in E \cup D : home.area[x] # Nowhere => home.area[x] \in A
  BY <1>1 DEF HomeShape, IncludedAreas
<1>4. \A r \in R : \/ \E x \in E : r = <<x, home.device[x]>> /\ home.device[x] # Nowhere
                   \/ \E x \in E \cup D : r = <<x, home.area[x]>> /\ home.area[x] # Nowhere
  BY DEF Refs
<1>5. ASSUME NEW r \in R
      PROVE  r \in References /\ r[2] \in D \cup A
  <2>1. ASSUME NEW x \in E, r = <<x, home.device[x]>>, home.device[x] # Nowhere
        PROVE  r \in References /\ r[2] \in D \cup A
    <3>1. x \in HomeEntities /\ home.device[x] \in D /\ home.device[x] \in HomeDevices
      BY <1>1, <1>2, <2>1
    <3> QED BY <2>1, <3>1 DEF References
  <2>2. ASSUME NEW x \in E \cup D, r = <<x, home.area[x]>>, home.area[x] # Nowhere
        PROVE  r \in References /\ r[2] \in D \cup A
    <3>1. x \in HomeEntities \cup HomeDevices /\ home.area[x] \in A /\ home.area[x] \in HomeAreas
      BY <1>1, <1>3, <2>2
    <3> QED BY <2>2, <3>1 DEF References
  <2> QED BY <1>4, <2>1, <2>2
<1>6. \A x \in E : home.device[x] # Nowhere => <<x, home.device[x]>> \in R
  BY DEF Refs
<1>7. \A x \in E \cup D : home.area[x] # Nowhere => <<x, home.area[x]>> \in R
  BY DEF Refs
<1>8. \A d \in D : d # Nowhere /\ \E x \in E : d = home.device[x]
  BY <1>0, <1>1 DEF IncludedDevices
<1>9. \A d \in D : \E x \in E : <<x, d>> \in R
  BY <1>6, <1>8
<1>10. \A a \in A : \E y \in E \cup D : <<y, a>> \in R
  <2>1. \A a \in A : a # Nowhere /\ \E y \in E \cup D : a = home.area[y]
    BY <1>0, <1>1 DEF IncludedAreas
  <2> QED BY <1>7, <2>1
<1>11. \A a \in A : \E x \in E : <<x, a>> \in R \/ \E d \in D : {<<x, d>>, <<d, a>>} \subseteq R
  <2> SUFFICES ASSUME NEW a \in A
               PROVE  \E x \in E : <<x, a>> \in R \/ \E d \in D : {<<x, d>>, <<d, a>>} \subseteq R
    OBVIOUS
  <2>1. PICK y \in E \cup D : <<y, a>> \in R
    BY <1>10
  <2>2. CASE y \in E
    BY <2>1, <2>2
  <2>3. CASE y \in D
    <3>1. PICK x \in E : <<x, y>> \in R
      BY <1>9, <2>3
    <3> QED BY <2>1, <2>3, <3>1
  <2> QED BY <2>1, <2>2, <2>3
<1>12. Cut(home) = [entities |-> E, devices |-> D, areas |-> A, refs |-> R]
  BY DEF Cut
<1> HIDE DEF E, D, A, R
<1>13. R \subseteq References
  BY <1>5
<1>14. Cut(home) \in Snapshots
  BY <1>1, <1>12, <1>13 DEF Snapshots
<1>15. /\ Cut(home).entities = E /\ Cut(home).devices = D
       /\ Cut(home).areas = A /\ Cut(home).refs = R
  BY <1>12
<1> QED BY <1>1, <1>5, <1>9, <1>11, <1>14, <1>15 DEF Closed

\* A change of the home leaves its registries closed.
LEMMA EditsKeepShape ==
    ASSUME HomeShape, [SnapshotNext]_snapshotVars
    PROVE  HomeShape'
<1> USE SnapshotAssumption DEF HomeShape
<1>1. CASE SnapshotBegins \/ SnapshotSent \/ UNCHANGED snapshotVars
  BY <1>1 DEF SnapshotBegins, SnapshotSent, snapshotVars
<1>2. ASSUME NEW x \in HomeEntities, ExposureEdited(x) PROVE HomeShape'
  BY <1>2 DEF ExposureEdited, Edit
<1>3. ASSUME NEW d \in HomeDevices, DeviceRemoved(d) PROVE HomeShape'
  BY <1>3 DEF DeviceRemoved, Edit, Without
<1>4. ASSUME NEW a \in HomeAreas, AreaRemoved(a) PROVE HomeShape'
  BY <1>4 DEF AreaRemoved, Edit, Without
<1>5. ASSUME NEW x \in HomeEntities \cup HomeDevices, NEW a \in HomeAreas \cup {Nowhere}, AreaEdited(x, a)
      PROVE  HomeShape'
  BY <1>5 DEF AreaEdited, Edit
<1> QED BY <1>1, <1>2, <1>3, <1>4, <1>5 DEF SnapshotNext

\* The registries stay closed, and so do the snapshots of them.
LEMMA HomeHolds == SnapshotSpec => [](HomeShape /\ SnapshotInv)
<1>1. SnapshotInit => HomeShape /\ SnapshotInv
  <2> SUFFICES ASSUME SnapshotInit PROVE HomeShape /\ SnapshotInv
    OBVIOUS
  <2>1. HomeShape
    BY DEF SnapshotInit, HomeShape
  <2>2. Empty \in Snapshots /\ Closed(Empty, {})
    BY DEF Empty, Snapshots, Closed
  <2> QED BY <2>1, <2>2, SnapshotAssumption DEF SnapshotInit, SnapshotInv
<1>2. HomeShape /\ SnapshotInv /\ [SnapshotNext]_snapshotVars => HomeShape' /\ SnapshotInv'
  <2> SUFFICES ASSUME HomeShape, SnapshotInv, [SnapshotNext]_snapshotVars PROVE SnapshotInv'
    BY EditsKeepShape
  <2> USE DEF SnapshotInv
  <2>1. CASE SnapshotBegins
    <3>1. reading' = <<Cut(home)>> /\ shared' = [shared EXCEPT !.reading = home.exposed]
      BY <2>1 DEF SnapshotBegins
    <3>2. shared' \in [reading : SUBSET HomeEntities, sent : SUBSET HomeEntities]
          /\ shared'.reading = home.exposed /\ shared'.sent = shared.sent
      BY <3>1 DEF HomeShape
    <3> QED BY <2>1, <3>1, <3>2, CutIsClosed DEF SnapshotBegins
  <2>2. CASE SnapshotSent
    <3>1. PICK s \in Snapshots : reading = <<s>> /\ Closed(s, shared.reading)
      BY <2>2 DEF SnapshotSent
    <3>2. sent' = s /\ reading' = <<>> /\ UNCHANGED edits
      BY <2>2, <3>1 DEF SnapshotSent, Finished
    <3>3. shared' \in [reading : SUBSET HomeEntities, sent : SUBSET HomeEntities]
          /\ shared'.sent = shared.reading
      BY <2>2 DEF SnapshotSent
    <3> QED BY <3>1, <3>2, <3>3
  <2>3. ASSUME NEW new, Edit(new) PROVE SnapshotInv'
    BY <2>3, SnapshotAssumption DEF Edit
  <2>4. CASE UNCHANGED snapshotVars
    BY <2>4 DEF snapshotVars
  <2> QED BY <2>1, <2>2, <2>3, <2>4
          DEF SnapshotNext, ExposureEdited, DeviceRemoved, AreaRemoved, AreaEdited
<1> QED BY <1>1, <1>2, PTL DEF SnapshotSpec

\* Whatever changes while a snapshot is built, what is sent is closed, and all of it leads to what
\* was exposed when it was begun.
THEOREM SentIsClosed == SnapshotSpec => []SnapshotIsClosed
<1>1. SnapshotInv => SnapshotIsClosed
  BY DEF SnapshotInv, SnapshotIsClosed, Closed
<1> QED BY <1>1, HomeHolds, PTL

-----------------------------------------------------------------------------
(* The update entities (UpdateInstall).                                        *)

Asked == [at : Stages, by : Updaters \cup {"nobody"}, of : Releases \cup {0}, written : Nat]

\* The part of UpdateTypeOK that the invariants need: what an install may be, and the disk.
UpdateShape ==
    /\ latest \in [Updaters -> Releases] /\ published \in Releases /\ busy \subseteq Updaters
    /\ install \in [Installs -> Asked]
    /\ \A i \in Installs :
          install[i].at # "unasked" =>
              /\ install[i].by \in Updaters /\ install[i].of \in Releases
              /\ install[i].written <= Len(Archive[install[i].of])
    /\ disk \in [Files -> Releases \cup {0}] /\ disk[VersionFile] # 0
    /\ alone \in [Installs -> BOOLEAN]

\* A release is a sequence of files.
LEMMA ArchiveType ==
    /\ Releases = 1 .. Len(Archive) /\ 1 \in Releases /\ 0 \notin Releases
    /\ Len(Archive) \in Nat
    /\ \A r \in Releases : Len(Archive[r]) \in Nat /\ DOMAIN Archive[r] = 1 .. Len(Archive[r])
    /\ VersionFile \in Files
<1>1. Archive \in Seq(Seq(STRING)) /\ Archive # <<>>
  BY UpdateAssumption
<1>2. /\ Releases = 1 .. Len(Archive) /\ 1 \in Releases /\ 0 \notin Releases
      /\ Len(Archive) \in Nat
  BY <1>1 DEF Releases
<1>3. \A r \in Releases : Archive[r] \in Seq(STRING)
  BY <1>1 DEF Releases
<1>4. \A r \in Releases : Len(Archive[r]) \in Nat /\ DOMAIN Archive[r] = 1 .. Len(Archive[r])
  BY <1>3
<1>5. PICK i \in DOMAIN Archive[1] : Archive[1][i] = VersionFile
  BY <1>2, UpdateAssumption
<1> QED BY <1>2, <1>4, <1>5 DEF Files

\* The next file of an install that is not over is one of the files.
LEMMA NextIsFile ==
    ASSUME UpdateShape, NEW i \in Installs, Writing(i), install[i].written < Len(Archive[install[i].of])
    PROVE  /\ install[i].of \in Releases /\ install[i].written + 1 \in DOMAIN Archive[install[i].of]
           /\ NextFile(i) \in Files
<1>1. install[i].of \in Releases /\ install[i].written \in Nat
  BY DEF UpdateShape, Writing, Asked
<1>2. install[i].written + 1 \in DOMAIN Archive[install[i].of]
  BY <1>1, ArchiveType
<1> QED BY <1>1, <1>2 DEF NextFile, Files

\* An install that only goes on to another stage.
LEMMA Restaged ==
    ASSUME UpdateShape, NEW i \in Installs, NEW st \in Stages \ {"unasked"}, install[i].at # "unasked",
           install' = [install EXCEPT ![i].at = st]
    PROVE  /\ install' \in [Installs -> Asked]
           /\ \A j \in Installs :
                 /\ install'[j].by = install[j].by /\ install'[j].of = install[j].of
                 /\ install'[j].written = install[j].written
                 /\ install'[j].at = IF j = i THEN st ELSE install[j].at
<1>1. install'[i] = [install[i] EXCEPT !.at = st] /\ install[i] \in Asked
  BY DEF UpdateShape
<1>2. /\ install'[i] \in Asked /\ install'[i].by = install[i].by /\ install'[i].of = install[i].of
      /\ install'[i].written = install[i].written /\ install'[i].at = st
  BY <1>1 DEF Asked
<1>3. \A j \in Installs \ {i} : install'[j] = install[j]
  BY DEF UpdateShape
<1>4. install' \in [Installs -> Asked]
  BY <1>2, <1>3 DEF UpdateShape
<1> QED BY <1>2, <1>3, <1>4

\* The same of an install that has written one more file.
LEMMA Advanced ==
    ASSUME UpdateShape, NEW i \in Installs, install' = [install EXCEPT ![i].written = @ + 1]
    PROVE  /\ install' \in [Installs -> Asked]
           /\ \A j \in Installs :
                 /\ install'[j].by = install[j].by /\ install'[j].of = install[j].of
                 /\ install'[j].at = install[j].at
                 /\ install'[j].written = IF j = i THEN install[i].written + 1 ELSE install[j].written
<1>1. install'[i] = [install[i] EXCEPT !.written = @ + 1] /\ install[i] \in Asked
  BY DEF UpdateShape
<1>2. /\ install'[i] \in Asked /\ install'[i].by = install[i].by /\ install'[i].of = install[i].of
      /\ install'[i].written = install[i].written + 1 /\ install'[i].at = install[i].at
  BY <1>1 DEF Asked
<1>3. \A j \in Installs \ {i} : install'[j] = install[j]
  BY DEF UpdateShape
<1>4. install' \in [Installs -> Asked]
  BY <1>2, <1>3 DEF UpdateShape
<1> QED BY <1>2, <1>3, <1>4

\* Every install that was asked for is a user's, of a release, and has written no more files
\* than the archive holds.
LEMMA ShapeHolds == UpdateSpec => []UpdateShape
<1> USE DEF UpdateShape, Asked, Stages
<1>1. UpdateInit => UpdateShape
  <2> SUFFICES ASSUME UpdateInit PROVE UpdateShape
    OBVIOUS
  <2>1. \E k \in DOMAIN Archive[1] : Archive[1][k] = VersionFile
    BY ArchiveType, UpdateAssumption
  <2>2. disk \in [Files -> Releases \cup {0}] /\ disk[VersionFile] # 0
    BY <2>1, ArchiveType DEF UpdateInit
  <2>3. install \in [Installs -> Asked] /\ \A i \in Installs : install[i].at = "unasked"
    BY DEF UpdateInit, NotAsked
  <2> QED BY <2>2, <2>3, ArchiveType DEF UpdateInit
<1>2. UpdateShape /\ [UpdateNext]_updateVars => UpdateShape'
  <2> SUFFICES ASSUME UpdateShape, [UpdateNext]_updateVars PROVE UpdateShape'
    OBVIOUS
  <2>1. ASSUME NEW u \in Updaters, LooksUp(u) PROVE UpdateShape'
    BY <2>1 DEF LooksUp
  <2>2. ASSUME NEW u \in Updaters, NEW i \in Installs, InstallAsked(i, u) PROVE UpdateShape'
    BY <2>2, ArchiveType DEF InstallAsked
  <2>3. ASSUME NEW i \in Installs, Downloaded(i) PROVE UpdateShape'
    BY <2>3, Restaged DEF Downloaded
  <2>4. ASSUME NEW i \in Installs, FileWritten(i) PROVE UpdateShape'
    <3>1. NextFile(i) \in Files /\ install[i].of \in Releases /\ install[i].written \in Nat
      BY <2>4, NextIsFile DEF FileWritten
    <3>2. disk' \in [Files -> Releases \cup {0}] /\ disk'[VersionFile] # 0
      BY <2>4, <3>1, ArchiveType DEF FileWritten
    <3>3. install[i].written + 1 <= Len(Archive[install[i].of])
      BY <2>4, <3>1, ArchiveType DEF FileWritten
    <3>4. install' = [install EXCEPT ![i].written = @ + 1] /\ install[i].at # "unasked"
      BY <2>4 DEF FileWritten, Writing
    <3>5. /\ install' \in [Installs -> Asked]
          /\ \A j \in Installs :
                /\ install'[j].by = install[j].by /\ install'[j].of = install[j].of
                /\ install'[j].at = install[j].at
                /\ install'[j].written = IF j = i THEN install[i].written + 1 ELSE install[j].written
      BY <3>4, Advanced
    <3>6. alone' \in [Installs -> BOOLEAN] /\ UNCHANGED <<published, latest, busy>>
      BY <2>4 DEF FileWritten
    <3> QED BY <3>2, <3>3, <3>5, <3>6
  <2>5. ASSUME NEW i \in Installs, InstallNotifies(i) \/ InstallFails(i) \/ InstallCancelled(i)
        PROVE  UpdateShape'
    <3>1. PICK st \in Stages \ {"unasked"} :
             install[i].at # "unasked" /\ install' = [install EXCEPT ![i].at = st]
      BY <2>5 DEF InstallNotifies, InstallFails, InstallCancelled
    <3> QED BY <2>5, <3>1, Restaged DEF InstallNotifies, InstallFails, InstallCancelled, Free
  <2>6. ASSUME NEW i \in Installs, OrphanEnds(i) PROVE UpdateShape'
    BY <2>6 DEF OrphanEnds
  <2>7. CASE UpdateRestart
    <3>1. latest' \in [Updaters -> Releases]
      BY <2>7, ArchiveType DEF UpdateRestart
    <3>2. install' \in [Installs -> Asked]
      <4>1. \A i \in Installs : install[i] \in Asked /\ [install[i] EXCEPT !.at = "failed"] \in Asked
        OBVIOUS
      <4> QED BY <2>7, <4>1 DEF UpdateRestart
    <3>3. \A i \in Installs : /\ install'[i].by = install[i].by /\ install'[i].of = install[i].of
                              /\ install'[i].written = install[i].written
                              /\ install[i].at = "unasked" => install'[i].at = "unasked"
      BY <2>7 DEF UpdateRestart, Writing
    <3> QED BY <2>7, <3>1, <3>2, <3>3 DEF UpdateRestart
  <2>8. CASE ReleasePublished
    <3>1. published' \in Releases
      BY <2>8, ArchiveType DEF ReleasePublished
    <3> QED BY <2>8, <3>1 DEF ReleasePublished
  <2>9. CASE UNCHANGED updateVars
    BY <2>9 DEF updateVars
  <2> QED BY <2>1, <2>2, <2>3, <2>4, <2>5, <2>6, <2>7, <2>8, <2>9 DEF UpdateNext
<1> QED BY <1>1, <1>2, PTL DEF UpdateSpec

-----------------------------------------------------------------------------

\* What an install has written, and nothing else wrote beside it, is on the disk.
WrittenInv ==
    \A i \in Installs :
        alone[i] =>
            \A k \in DOMAIN Archive[install[i].of] :
                k <= install[i].written => disk[Archive[install[i].of][k]] = install[i].of

\* An install begins with no file written, and one that says the files were updated has written
\* all of them.
DoneInv ==
    \A i \in Installs :
        /\ install[i].at = "download" => install[i].written = 0
        /\ install[i].at = "notified" => install[i].written = Len(Archive[install[i].of])

\* An install that notifies its user, and beside which no other wrote, has left the whole of
\* its release on the disk, whatever failed, was cancelled or restarted before.
THEOREM NotifiedIsWhole == UpdateSpec => []NotifiesWhole
<1> USE DEF WrittenInv, DoneInv
<1>1. UpdateInit => WrittenInv /\ DoneInv
  BY DEF UpdateInit, NotAsked
<1>2. UpdateShape /\ WrittenInv /\ DoneInv /\ [UpdateNext]_updateVars => WrittenInv' /\ DoneInv'
  <2> SUFFICES ASSUME UpdateShape, WrittenInv, DoneInv, [UpdateNext]_updateVars
               PROVE  WrittenInv' /\ DoneInv'
    OBVIOUS
  <2> USE DEF UpdateShape, Asked
  <2>1. ASSUME NEW u \in Updaters, NEW i \in Installs, InstallAsked(i, u)
        PROVE  WrittenInv' /\ DoneInv'
    <3>1. \A k \in DOMAIN Archive[latest[u]] : ~(k <= 0)
      BY ArchiveType
    <3> QED BY <2>1, <3>1 DEF InstallAsked
  <2>2. ASSUME NEW i \in Installs, Downloaded(i) PROVE WrittenInv' /\ DoneInv'
    <3>0. install[i].written = 0 /\ install[i].of \in Releases
      BY <2>2 DEF Downloaded
    <3>1. \A k \in DOMAIN Archive[install[i].of] : ~(k <= install[i].written)
      BY <3>0, ArchiveType
    <3> QED BY <2>2, <3>1, Restaged DEF Downloaded, Stages
  <2>3. ASSUME NEW i \in Installs, FileWritten(i) PROVE WrittenInv' /\ DoneInv'
    <3>1. /\ install[i].of \in Releases /\ install[i].written \in Nat
          /\ NextFile(i) \in Files
      BY <2>3, NextIsFile DEF FileWritten
    <3>2. ASSUME NEW k \in DOMAIN Archive[install[i].of], k <= install[i].written + 1, alone[i]
          PROVE  disk'[Archive[install[i].of][k]] = install[i].of
      <4>1. Archive[install[i].of][k] \in Files
        BY <3>1 DEF Files
      <4>2. k \in Nat
        BY <3>1, ArchiveType
      <4>3. CASE k = install[i].written + 1
        BY <2>3, <3>1, <4>1, <4>3 DEF FileWritten, NextFile
      <4>4. CASE k <= install[i].written
        BY <2>3, <3>1, <3>2, <4>1, <4>4 DEF FileWritten
      <4> QED BY <3>1, <3>2, <4>2, <4>3, <4>4
    <3>3. WrittenInv'
      <4> SUFFICES ASSUME NEW j \in Installs, alone'[j],
                          NEW k \in DOMAIN Archive[install'[j].of], k <= install'[j].written
                   PROVE  disk'[Archive[install'[j].of][k]] = install'[j].of
        OBVIOUS
      <4>1. j = i /\ alone[i]
        BY <2>3 DEF FileWritten
      <4>2. install'[i].of = install[i].of /\ install'[i].written = install[i].written + 1
        BY <2>3, Advanced DEF FileWritten
      <4> QED BY <3>2, <4>1, <4>2
    <3>4. DoneInv'
      BY <2>3, Advanced DEF FileWritten, Writing
    <3> QED BY <3>3, <3>4
  <2>4. ASSUME NEW i \in Installs,
               InstallNotifies(i) \/ InstallFails(i) \/ InstallCancelled(i) \/ OrphanEnds(i)
        PROVE  WrittenInv' /\ DoneInv'
    <3>1. PICK st \in Stages \ {"unasked"} :
             /\ st # "download" /\ install[i].at # "unasked"
             /\ install' = [install EXCEPT ![i].at = st]
      BY <2>4 DEF InstallNotifies, InstallFails, InstallCancelled, OrphanEnds, Stages
    <3>2. /\ install' \in [Installs -> Asked]
          /\ \A j \in Installs :
                /\ install'[j].of = install[j].of /\ install'[j].written = install[j].written
                /\ install'[j].at = IF j = i THEN st ELSE install[j].at
      BY <3>1, Restaged
    <3>3. st = "notified" => install[i].written = Len(Archive[install[i].of])
      BY <2>4, <3>2 DEF InstallNotifies, InstallFails, InstallCancelled, OrphanEnds
    <3>4. UNCHANGED <<disk, alone>>
      BY <2>4 DEF InstallNotifies, InstallFails, InstallCancelled, OrphanEnds
    <3> QED BY <3>1, <3>2, <3>3, <3>4
  <2>5. CASE UpdateRestart
    <3>1. \A i \in Installs : /\ install'[i].of = install[i].of
                              /\ install'[i].written = install[i].written
                              /\ install'[i].at = "notified" => install[i].at = "notified"
      BY <2>5 DEF UpdateRestart, Writing
    <3> QED BY <2>5, <3>1 DEF UpdateRestart
  <2>6. CASE UNCHANGED <<install, disk, alone>>
    BY <2>6
  <2> QED BY <2>1, <2>2, <2>3, <2>4, <2>5, <2>6
          DEF UpdateNext, LooksUp, ReleasePublished, updateVars
<1>3. UpdateShape /\ WrittenInv /\ DoneInv => NotifiesWhole
  <2> SUFFICES ASSUME UpdateShape, WrittenInv, DoneInv, NEW i \in Installs,
                      install[i].at = "notified", alone[i], NEW k \in DOMAIN Archive[install[i].of]
               PROVE  disk[Archive[install[i].of][k]] = install[i].of
    BY DEF NotifiesWhole
  <2>1. install[i].of \in Releases
    BY DEF UpdateShape
  <2>2. k <= Len(Archive[install[i].of])
    BY <2>1, ArchiveType
  <2> QED BY <2>2
<1> QED BY <1>1, <1>2, <1>3, ShapeHolds, PTL DEF UpdateSpec

-----------------------------------------------------------------------------

\* An install that is downloaded, or whose job is awaited.
Active(i) == install[i].at \in {"download", "write"}

\* No entity has two installs under way, and one that has none is free for the next, whatever
\* fails, is cancelled or restarts.
THEOREM BusyIsHonest == UpdateSpec => []BusyWhileInstalling
<1>0. BusyWhileInstalling <=>
         /\ busy = {install[i].by : i \in {j \in Installs : Active(j)}}
         /\ \A i, j \in Installs : Active(i) /\ Active(j) /\ install[i].by = install[j].by => i = j
  BY DEF BusyWhileInstalling, Active
<1>1. UpdateInit => BusyWhileInstalling
  BY <1>0 DEF UpdateInit, NotAsked, Active
<1>2. UpdateShape /\ BusyWhileInstalling /\ [UpdateNext]_updateVars => BusyWhileInstalling'
  <2> SUFFICES ASSUME UpdateShape, BusyWhileInstalling, [UpdateNext]_updateVars
               PROVE  BusyWhileInstalling'
    OBVIOUS
  <2>0. BusyWhileInstalling' <=>
           /\ busy' = {install'[i].by : i \in {j \in Installs : Active(j)'}}
           /\ \A i, j \in Installs : Active(i)' /\ Active(j)' /\ install'[i].by = install'[j].by => i = j
    BY DEF BusyWhileInstalling, Active
  <2>1. ASSUME NEW u \in Updaters, NEW i \in Installs, InstallAsked(i, u)
        PROVE  BusyWhileInstalling'
    <3>1. \A j \in Installs : j # i => install'[j] = install[j]
      BY <2>1 DEF InstallAsked, UpdateShape
    <3>2. install'[i].by = u /\ Active(i)' /\ ~Active(i)
      BY <2>1 DEF InstallAsked, NotAsked, Active, UpdateShape
    <3>3. \A j \in Installs : j # i => (Active(j)' <=> Active(j)) /\ (Active(j) => install[j].by # u)
      BY <1>0, <2>1, <3>1 DEF InstallAsked, Active
    <3>4. busy' = busy \cup {u}
      BY <2>1 DEF InstallAsked
    <3> QED BY <1>0, <2>0, <3>1, <3>2, <3>3, <3>4
  <2>2. ASSUME NEW i \in Installs, InstallNotifies(i) \/ InstallFails(i) \/ InstallCancelled(i)
        PROVE  BusyWhileInstalling'
    <3>1. PICK st \in Stages \ {"unasked"} :
             /\ st \notin {"download", "write"} /\ Active(i) /\ install[i].at # "unasked"
             /\ install' = [install EXCEPT ![i].at = st]
      BY <2>2 DEF InstallNotifies, InstallFails, InstallCancelled, Stages, Active
    <3>2. \A j \in Installs : /\ install'[j].by = install[j].by
                              /\ install'[j].at = IF j = i THEN st ELSE install[j].at
      BY <3>1, Restaged
    <3>3. ~Active(i)' /\ \A j \in Installs : j # i => (Active(j)' <=> Active(j))
      BY <3>1, <3>2 DEF Active
    <3>4. busy' = busy \ {install[i].by}
      BY <2>2 DEF InstallNotifies, InstallFails, InstallCancelled, Free
    <3> QED BY <1>0, <2>0, <3>1, <3>2, <3>3, <3>4
  <2>3. ASSUME UNCHANGED busy,
               \A j \in Installs : install'[j].by = install[j].by /\ (Active(j)' <=> Active(j))
        PROVE  BusyWhileInstalling'
    BY <1>0, <2>0, <2>3
  <2>4. ASSUME NEW i \in Installs, Downloaded(i) PROVE BusyWhileInstalling'
    BY <2>3, <2>4, Restaged DEF Downloaded, Active, Stages
  <2>5. ASSUME NEW i \in Installs, FileWritten(i) PROVE BusyWhileInstalling'
    BY <2>3, <2>5, Advanced DEF FileWritten, Active
  <2>6. ASSUME NEW i \in Installs, OrphanEnds(i) PROVE BusyWhileInstalling'
    BY <2>3, <2>6, Restaged DEF OrphanEnds, Active, Stages
  <2>7. CASE UpdateRestart
    <3>1. busy' = {} /\ \A i \in Installs : ~Active(i)'
      BY <2>7 DEF UpdateRestart, Active, Writing, UpdateShape, Asked
    <3> QED BY <2>0, <3>1
  <2>8. CASE UNCHANGED <<busy, install>>
    BY <2>8, <2>3 DEF Active
  <2> QED BY <2>1, <2>2, <2>4, <2>5, <2>6, <2>7, <2>8
          DEF UpdateNext, LooksUp, ReleasePublished, updateVars
<1> QED BY <1>1, <1>2, ShapeHolds, PTL DEF UpdateSpec

-----------------------------------------------------------------------------
(* The types of all parts (MCParts).                                           *)

\* What EntryShape leaves out: a reload waits only for a change that was made.
ReloadsInv ==
    /\ running \in BOOLEAN /\ again \in [Entries -> BOOLEAN] /\ changes \in 0..MaxChanges
    /\ \A e \in Entries : reloads[e] <= changes

\* Type correctness of the entries: no more reloads wait than options were changed.
LEMMA EntryTypeCorrect == Spec => []TypeOK
<1> USE EntriesAssumption DEF ReloadsInv
<1>1. Init => ReloadsInv
  BY DEF Init
<1>2. EntryShape /\ ReloadsInv /\ [Next]_vars => ReloadsInv'
  <2> SUFFICES ASSUME EntryShape, ReloadsInv, [Next]_vars PROVE ReloadsInv'
    OBVIOUS
  <2> USE DEF EntryShape
  <2>1. ASSUME NEW e \in Entries, BeginSetup(e) PROVE ReloadsInv'
    BY <2>1 DEF BeginSetup
  <2>2. ASSUME NEW e \in Entries, SetupGoesOn(e) \/ SyncEnds(e) PROVE ReloadsInv'
    BY <2>2 DEF SetupGoesOn, FrontendRegistered, Connected, SetupEnds, SetupFails, SyncEnds
  <2>3. ASSUME NEW e \in Entries, ChangeOptions(e) PROVE ReloadsInv'
    <3>1. /\ changes' = changes + 1 /\ changes < MaxChanges /\ UNCHANGED <<running, again>>
          /\ reloads' = [reloads EXCEPT ![e] = @ + 1] \/ reloads' = reloads
      BY <2>3 DEF ChangeOptions, entryVars
    <3> QED BY <3>1
  <2>4. ASSUME NEW e \in Entries, BeginReload(e) \/ ReloadRefused(e) PROVE ReloadsInv'
    <3>1. reloads' = [reloads EXCEPT ![e] = @ - 1] /\ reloads[e] > 0 /\ UNCHANGED <<running, changes>>
      BY <2>4 DEF BeginReload, ReloadRefused
    <3>2. again' \in [Entries -> BOOLEAN]
      <4>1. again' = [again EXCEPT ![e] = TRUE] \/ again' = again
        BY <2>4 DEF BeginReload, ReloadRefused, entryVars
      <4> QED BY <4>1
    <3>3. \A f \in Entries : reloads'[f] <= changes
      BY <3>1
    <3> QED BY <3>1, <3>2, <3>3
  <2>5. ASSUME NEW e \in Entries, BeginUnload(e) \/ UnloadEnds(e) \/ UnloadFails(e) PROVE ReloadsInv'
    <3>1. UNCHANGED <<running, changes, reloads>>
      BY <2>5 DEF BeginUnload, UnloadEnds, UnloadFails
    <3>2. again' \in [Entries -> BOOLEAN]
      <4>1. again' = again \/ \E b \in BOOLEAN : again' = [again EXCEPT ![e] = b]
        BY <2>5 DEF BeginUnload, UnloadEnds, UnloadFails
      <4> QED BY <4>1
    <3> QED BY <3>1, <3>2
  <2>6. CASE HomeAssistantStarted \/ UNCHANGED vars
    <3>1. UNCHANGED <<changes, reloads, again>> /\ (running' = TRUE \/ running' = running)
      BY <2>6 DEF HomeAssistantStarted, vars, entryVars
    <3> QED BY <3>1
  <2> QED BY <2>1, <2>2, <2>3, <2>4, <2>5, <2>6 DEF Next
<1>3. EntryShape /\ PanelInv /\ ReloadsInv => TypeOK
  <2> SUFFICES ASSUME EntryShape, PanelInv, ReloadsInv PROVE TypeOK
    OBVIOUS
  <2>1. reloads \in [Entries -> 0..MaxChanges]
    BY DEF EntryShape
  <2>2. state \in [Entries -> {"unloaded", "frontend", "connecting", "forwarding", "loaded",
                               "unloading", "error", "stuck"}]
    BY DEF EntryShape, EntryStates, SetupStates
  <2>3. live \subseteq Entries \X (1..MaxSetups) \X Kinds /\ failed \in [Entries -> SUBSET (1..MaxSetups)]
    BY DEF EntryShape, Setups
  <2> QED BY <2>1, <2>2, <2>3 DEF TypeOK, EntryShape, PanelInv
<1> QED BY <1>1, <1>2, <1>3, BaseHolds, PanelHolds, PTL DEF Spec

\* Type correctness of the perception manager: its notes are of the past and of watchable entities.
LEMMA PerceptionTypeCorrect == PerceptionSpec => []PerceptionTypeOK
<1> USE PerceptionAssumption DEF PerceptionTypeOK
<1>1. PerceptionInit => PerceptionTypeOK
  <2> SUFFICES ASSUME PerceptionInit PROVE PerceptionTypeOK
    OBVIOUS
  <2>1. \E X \in SUBSET Watchable : <<>> \in [X -> 0..MaxClock]
    <3>1. <<>> \in [{} -> 0..MaxClock] /\ {} \in SUBSET Watchable
      OBVIOUS
    <3> QED BY <3>1
  <2>2. value \in [Watchable -> Values]
    BY DEF PerceptionInit
  <2>3. 0 \in 0..MaxClock
    OBVIOUS
  <2> QED BY <2>1, <2>2, <2>3 DEF PerceptionInit
<1>2. PerceptionTypeOK /\ [PerceptionNext]_perceptionVars => PerceptionTypeOK'
  <2> SUFFICES ASSUME PerceptionTypeOK, [PerceptionNext]_perceptionVars PROVE PerceptionTypeOK'
    OBVIOUS
  <2>1. ASSUME NEW x \in Watchable, NEW v \in Values, ValueChanges(x, v) PROVE PerceptionTypeOK'
    <3>1. ASSUME NEW f, \E X \in SUBSET Watchable : f \in [X -> 0..MaxClock]
          PROVE  \E X \in SUBSET Watchable : Noted(f, x) \in [X -> 0..MaxClock]
      <4>1. PICK X \in SUBSET Watchable : f \in [X -> 0..MaxClock]
        BY <3>1
      <4>2. Noted(f, x) \in [X \cup {x} -> 0..MaxClock] /\ X \cup {x} \in SUBSET Watchable
        BY <4>1 DEF Noted
      <4> QED BY <4>2
    <3>2. CASE Opens(x, v)
      <4>1. /\ \E X \in SUBSET Watchable : lastFired' \in [X -> 0..MaxClock]
            /\ \E X \in SUBSET Watchable : opened' \in [X -> 0..MaxClock]
        BY <3>1, <3>2 DEF Opens
      <4>2. sessions' \subseteq Watchable \X Values \X (0..MaxClock)
        BY <3>2 DEF Opens
      <4> QED BY <2>1, <4>1, <4>2 DEF ValueChanges
    <3>3. CASE Dropped(x, v)
      BY <2>1, <3>3 DEF ValueChanges, Dropped
    <3> QED BY <2>1, <3>2, <3>3 DEF ValueChanges
  <2>2. ASSUME NEW x \in Watchable, ExposureChanges(x) PROVE PerceptionTypeOK'
    BY <2>2 DEF ExposureChanges
  <2>3. ASSUME NEW s \in sessions, SessionEnds(s) PROVE PerceptionTypeOK'
    BY <2>3 DEF SessionEnds
  <2>4. CASE PerceptionStops \/ EntryUnloaded
    BY <2>4 DEF PerceptionStops, EntryUnloaded
  <2>5. CASE TimePasses
    BY <2>5 DEF TimePasses
  <2>6. CASE UNCHANGED perceptionVars
    BY <2>6 DEF perceptionVars
  <2> QED BY <2>1, <2>2, <2>3, <2>4, <2>5, <2>6 DEF PerceptionNext
<1> QED BY <1>1, <1>2, PTL DEF PerceptionSpec

\* Type correctness of the home and its snapshots: nothing refers to what was removed.
LEMMA SnapshotTypeCorrect == SnapshotSpec => []SnapshotTypeOK
<1>1. HomeShape /\ SnapshotInv => SnapshotTypeOK
  <2> SUFFICES ASSUME HomeShape, SnapshotInv PROVE SnapshotTypeOK
    OBVIOUS
  <2>1. reading \in Seq(Snapshots) /\ Len(reading) <= 1
    <3>1. CASE reading = <<>>
      BY <3>1
    <3>2. CASE reading # <<>>
      <4>1. PICK s \in Snapshots : reading = <<s>>
        BY <3>2 DEF SnapshotInv
      <4> QED BY <4>1
    <3> QED BY <3>1, <3>2
  <2>2. /\ home.device \in [HomeEntities -> home.devices \cup {Nowhere}]
        /\ home.area \in [HomeEntities \cup HomeDevices -> home.areas \cup {Nowhere}]
    BY DEF HomeShape
  <2> QED BY <2>1, <2>2 DEF SnapshotTypeOK, HomeShape, SnapshotInv
<1> QED BY <1>1, HomeHolds, PTL

\* What UpdateShape leaves out.
UpdateRest ==
    /\ loaded \in Releases /\ restarts \in 0..MaxRestarts
    /\ \A i \in Installs : install[i].at = "unasked" => install[i] = NotAsked

\* Type correctness of the update entities: what counts as loaded is always a release.
LEMMA UpdateTypeCorrect == UpdateSpec => []UpdateTypeOK
<1> USE UpdateAssumption DEF UpdateRest
<1>1. UpdateInit => UpdateRest
  BY ArchiveType DEF UpdateInit
<1>2. UpdateShape /\ UpdateRest /\ [UpdateNext]_updateVars => UpdateRest'
  <2> SUFFICES ASSUME UpdateShape, UpdateRest, [UpdateNext]_updateVars PROVE UpdateRest'
    OBVIOUS
  <2>1. ASSUME NEW u \in Updaters, LooksUp(u) PROVE UpdateRest'
    BY <2>1 DEF LooksUp
  <2>2. ASSUME NEW u \in Updaters, NEW i \in Installs, InstallAsked(i, u) PROVE UpdateRest'
    BY <2>2 DEF InstallAsked, UpdateShape
  <2>3. ASSUME NEW i \in Installs, Downloaded(i) PROVE UpdateRest'
    BY <2>3 DEF Downloaded, UpdateShape
  <2>4. ASSUME NEW i \in Installs, FileWritten(i) PROVE UpdateRest'
    <3>1. /\ install[i].at # "unasked" /\ install' = [install EXCEPT ![i].written = @ + 1]
          /\ UNCHANGED <<loaded, restarts>>
      BY <2>4 DEF FileWritten, Writing
    <3>2. \A j \in Installs : install'[j].at = install[j].at
      BY <3>1, Advanced
    <3>3. \A j \in Installs \ {i} : install'[j] = install[j]
      BY <3>1 DEF UpdateShape
    <3> QED BY <3>1, <3>2, <3>3
  <2>5. ASSUME NEW i \in Installs, NEW st \in Stages \ {"unasked"}, install[i].at # "unasked",
               install' = [install EXCEPT ![i].at = st], UNCHANGED <<loaded, restarts>>
        PROVE  UpdateRest'
    <3>1. \A j \in Installs : install'[j].at = IF j = i THEN st ELSE install[j].at
      BY <2>5, Restaged
    <3>2. \A j \in Installs \ {i} : install'[j] = install[j]
      BY <2>5 DEF UpdateShape
    <3> QED BY <2>5, <3>1, <3>2
  <2>6. ASSUME NEW i \in Installs, InstallNotifies(i) \/ InstallFails(i) \/ InstallCancelled(i) \/ OrphanEnds(i)
        PROVE  UpdateRest'
    <3>1. PICK st \in Stages \ {"unasked"} :
             install[i].at # "unasked" /\ install' = [install EXCEPT ![i].at = st]
      BY <2>6 DEF InstallNotifies, InstallFails, InstallCancelled, OrphanEnds, Stages
    <3>2. UNCHANGED <<loaded, restarts>>
      BY <2>6 DEF InstallNotifies, InstallFails, InstallCancelled, OrphanEnds
    <3> QED BY <2>5, <3>1, <3>2
  <2>7. CASE UpdateRestart
    <3>1. loaded' \in Releases /\ restarts' \in 0..MaxRestarts
      BY <2>7, ArchiveType DEF UpdateRestart, UpdateShape
    <3>2. ASSUME NEW j \in Installs, install'[j].at = "unasked" PROVE install'[j] = NotAsked
      <4>1. CASE Writing(j) \/ install[j].at = "download"
        <5>1. install'[j] = [install[j] EXCEPT !.at = "failed"] /\ install[j] \in Asked
          BY <2>7, <4>1 DEF UpdateRestart, UpdateShape
        <5>2. install'[j].at = "failed"
          BY <5>1 DEF Asked
        <5> QED BY <3>2, <5>2
      <4>2. CASE ~(Writing(j) \/ install[j].at = "download")
        BY <2>7, <3>2, <4>2 DEF UpdateRestart
      <4> QED BY <4>1, <4>2
    <3> QED BY <3>1, <3>2
  <2>8. CASE ReleasePublished \/ UNCHANGED updateVars
    BY <2>8 DEF ReleasePublished, updateVars
  <2> QED BY <2>1, <2>2, <2>3, <2>4, <2>6, <2>7, <2>8 DEF UpdateNext
<1>3. UpdateShape /\ UpdateRest => UpdateTypeOK
  BY DEF UpdateShape, UpdateTypeOK, Asked
<1> QED BY <1>1, <1>2, <1>3, ShapeHolds, PTL DEF UpdateSpec

-----------------------------------------------------------------------------

\* Together, whichever of them takes its steps, the parts keep the types of all their variables:
\* waiting reloads, buffered lines, notes, probes, observations, snapshots and written files stay
\* within what the code keeps of them.
THEOREM PartsTypeCorrect == PartsSpec => []PartsTypeOK
<1> DEFINE E == [Next]_vars
           A == [StreamNext]_streamVars
           P == [PerceptionNext]_perceptionVars
           M == [MailNext]_mailVars
           H == [HabitNext]_habitVars
           S == [SnapshotNext]_snapshotVars
           U == [UpdateNext]_updateVars
<1>1. [PartsNext]_partsVars => E /\ A /\ P /\ M /\ H /\ S /\ U
  BY DEF PartsNext, partsVars, EntryStep, StreamStep, PerceptionStep, MailStep, HabitStep,
         SnapshotStep, UpdateStep, EntriesStand, OthersStand, ReadersStand
<1>2. PartsInit => /\ Init /\ StreamInit /\ PerceptionInit /\ MailInit
                   /\ HabitInit /\ SnapshotInit /\ UpdateInit
  BY DEF PartsInit
<1>3. /\ PartsSpec => Spec /\ StreamSpec
      /\ PartsSpec => PerceptionSpec /\ MailSpec
      /\ PartsSpec => HabitSpec /\ SnapshotSpec /\ UpdateSpec
  BY <1>1, <1>2, PTL DEF PartsSpec, Spec, StreamSpec, PerceptionSpec, MailSpec, HabitSpec,
                         SnapshotSpec, UpdateSpec
<1>4. (/\ TypeOK /\ StreamTypeOK /\ PerceptionTypeOK /\ MailTypeOK
       /\ HabitTypeOK /\ SnapshotTypeOK /\ UpdateTypeOK) => PartsTypeOK
  BY DEF PartsTypeOK
<1> QED BY <1>3, <1>4, EntryTypeCorrect, StreamTypeCorrect, PerceptionTypeCorrect, MailTypeCorrect,
           HabitTypeCorrect, SnapshotTypeCorrect, UpdateTypeCorrect, PTL

=============================================================================
