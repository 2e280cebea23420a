--------------------------- MODULE EntryLifecycle ---------------------------
(***************************************************************************)
(* Config entries set up, reloaded and unloaded in one Home Assistant: what *)
(* each leaves in hass.data and on the bus (__init__.py), the options its    *)
(* managers are built from, and the one panel all entries share             *)
(* (frontend.py).                                                           *)
(*                                                                          *)
(* Home Assistant serialises the setups and unloads of one entry with the    *)
(* entry's setup lock; those of different entries interleave at every await. *)
(* A runtime is named by its entry and the number of the setup that made it. *)
(* The reconnect timer is Connection's.                                     *)
(***************************************************************************)
EXTENDS Naturals, FiniteSets

CONSTANTS
    Entries,      \* config entries of the integration
    Graphed,      \* the entries whose data has home_graph_enabled
    None,         \* a panel that names no entry
    NoPanel,      \* no panel in the sidebar
    MaxSetups,    \* bound: setups of one entry
    MaxChanges,   \* bound: changes of options
    MayFail       \* the entries whose setup or unload may raise

\* What an options flow can switch on.
Managers == {"perception", "miner"}

Kinds == {"provenance", "event", "started", "sync", "watcher", "options"} \cup Managers

ASSUME EntriesAssumption ==
    /\ Graphed \subseteq Entries /\ MayFail \subseteq Entries
    /\ None \notin Entries /\ NoPanel \notin Entries \cup {None}
    /\ MaxSetups \in Nat /\ MaxChanges \in Nat

VARIABLES
    running,     \* hass.is_running: EVENT_HOMEASSISTANT_STARTED has fired
    state,       \* state[e]: the entry's ConfigEntryState, setup cut at its awaits
    gen,         \* gen[e]: setups begun so far
    runtime,     \* runtime[e]: the setup whose runtime hass.data[DOMAIN] holds, 0 for none
    live,        \* the listeners, managers and tasks that exist: <<entry, setup, kind>>
    options,     \* options[e]: the managers its options ask for
    changes,     \* how often options were changed
    reloads,     \* reloads[e]: reloads waiting for the setup lock
    again,       \* again[e]: the unload under way is a reload's
    failed,      \* ghost: failed[e]: the setups of e that raised
    registered,  \* frontend_registered
    panel        \* what the registered panel's configEntryId is, or NoPanel

entryVars == <<state, gen, runtime, live, again, failed>>
vars == <<running, entryVars, options, changes, reloads, registered, panel>>

TypeOK ==
    /\ running \in BOOLEAN
    /\ state \in [Entries -> {"unloaded", "frontend", "connecting", "forwarding", "loaded",
                              "unloading", "error", "stuck"}]
    /\ gen \in [Entries -> 0..MaxSetups]
    /\ runtime \in [Entries -> 0..MaxSetups]
    /\ live \subseteq Entries \X (1..MaxSetups) \X Kinds
    /\ options \in [Entries -> SUBSET Managers]
    /\ changes \in 0..MaxChanges
    /\ reloads \in [Entries -> 0..MaxChanges]
    /\ again \in [Entries -> BOOLEAN]
    /\ failed \in [Entries -> SUBSET (1..MaxSetups)]
    /\ registered \in BOOLEAN
    /\ panel \in Entries \cup {None, NoPanel}

Init ==
    /\ running \in BOOLEAN
    /\ state = [e \in Entries |-> "unloaded"]
    /\ gen = [e \in Entries |-> 0]
    /\ runtime = [e \in Entries |-> 0]
    /\ live = {}
    /\ options = [e \in Entries |-> {}]
    /\ changes = 0
    /\ reloads = [e \in Entries |-> 0]
    /\ again = [e \in Entries |-> FALSE]
    /\ failed = [e \in Entries |-> {}]
    /\ registered = FALSE
    /\ panel = NoPanel

\* The entries with a runtime in hass.data[DOMAIN].
Held(r) == {e \in Entries : r[e] # 0}

\* Mutant: a panel that is registered already is left as it is.
PanelKept(r) ==
    IF panel # NoPanel THEN panel
    ELSE IF \E e \in Entries : Held(r) = {e} THEN CHOOSE e \in Entries : Held(r) = {e} ELSE None

\* async_register_frontend_panel: the panel is registered anew, and names the entry
\* if it is the only one.
PanelFor(r) == IF \E e \in Entries : Held(r) = {e} THEN CHOOSE e \in Entries : Held(r) = {e} ELSE None

\* _runtime_from_data: the entry whose runtime a request gets that names entry e, or
\* none (None); no entry if it is refused.
Resolved(named, r) == {e \in Held(r) : e = named \/ (named = None /\ Held(r) = {e})}

\* What setup g of entry e leaves behind of each kind.
Handles(e, g, kinds) == {<<e, g, k>> : k \in kinds}

-----------------------------------------------------------------------------
(* async_setup_entry.                                                          *)

\* The runtime is stored and its provenance tracker started.  Once the frontend is
\* registered nothing is awaited up to the manifest; before that, the static paths are,
\* by every entry that gets here.  Setting up an entry in error may be what a reload does.
BeginSetup(e) ==
    /\ state[e] \in {"unloaded", "error"} /\ gen[e] < MaxSetups
    /\ gen' = [gen EXCEPT ![e] = @ + 1]
    /\ runtime' = [runtime EXCEPT ![e] = gen[e] + 1]
    /\ live' = live \cup Handles(e, gen[e] + 1, {"provenance"})
    /\ again' = [again EXCEPT ![e] = FALSE]
    /\ reloads' = IF state[e] = "error" /\ reloads[e] > 0 THEN [reloads EXCEPT ![e] = @ - 1] ELSE reloads
    /\ IF registered
       THEN state' = [state EXCEPT ![e] = "connecting"] /\ panel' = PanelFor(runtime')
       ELSE state' = [state EXCEPT ![e] = "frontend"] /\ UNCHANGED panel
    /\ UNCHANGED <<running, failed, options, changes, registered>>

\* async_setup_frontend goes on: the assets, the websocket command and the upload view
\* are registered (again, if two entries got here at once) and the panel is.
FrontendRegistered(e) ==
    /\ state[e] = "frontend"
    /\ state' = [state EXCEPT ![e] = "connecting"]
    /\ registered' = TRUE
    /\ panel' = PanelFor(runtime)
    /\ UNCHANGED <<running, gen, runtime, live, again, failed, options, changes, reloads>>

\* The manifest and the first refresh, which record errors and never raise.
Connected(e) ==
    /\ state[e] = "connecting"
    /\ state' = [state EXCEPT ![e] = "forwarding"]
    /\ live' = live \cup Handles(e, gen[e], {"event"})
    /\ UNCHANGED <<running, gen, runtime, again, failed, options, changes, reloads, registered, panel>>

\* The Home Graph's part of the end of setup: synced now, or once Home Assistant has started.
GraphKinds(e) ==
    IF e \notin Graphed THEN {} ELSE {"watcher", IF running THEN "sync" ELSE "started"}

\* _async_start_perception and _async_start_habit_mining
ManagersStarted(e) == options[e]

\* Mutant: the update listener is added only when a manager runs.
SetupEndsListeningIfManaged(e) ==
    /\ state[e] = "forwarding"
    /\ state' = [state EXCEPT ![e] = "loaded"]
    /\ live' = live \cup Handles(e, gen[e], GraphKinds(e) \cup ManagersStarted(e)
                                \cup IF options[e] = {} THEN {} ELSE {"options"})
    /\ UNCHANGED <<running, gen, runtime, again, failed, options, changes, reloads, registered, panel>>

\* The platforms are set up; from here to the end nothing is awaited.
SetupEnds(e) ==
    /\ state[e] = "forwarding"
    /\ state' = [state EXCEPT ![e] = "loaded"]
    /\ live' = live \cup Handles(e, gen[e], GraphKinds(e) \cup ManagersStarted(e) \cup {"options"})
    /\ UNCHANGED <<running, gen, runtime, again, failed, options, changes, reloads, registered, panel>>

\* The static paths or a platform raise: nothing that was set up is taken back, and Home
\* Assistant does not call async_unload_entry for an entry that was not loaded.
SetupFails(e) ==
    /\ e \in MayFail
    /\ state[e] \in {"frontend", "forwarding"}
    /\ state' = [state EXCEPT ![e] = "error"]
    /\ failed' = [failed EXCEPT ![e] = @ \cup {gen[e]}]
    /\ UNCHANGED <<running, gen, runtime, live, again, options, changes, reloads, registered, panel>>

-----------------------------------------------------------------------------
(* Options, reload and unload.                                                 *)

\* The options flow: the update listener, if there is one, asks for a reload.
ChangeOptions(e) ==
    /\ changes < MaxChanges
    /\ changes' = changes + 1
    /\ \E o \in (SUBSET Managers) \ {options[e]} : options' = [options EXCEPT ![e] = o]
    /\ reloads' = IF \E g \in 1..MaxSetups : <<e, g, "options">> \in live
                  THEN [reloads EXCEPT ![e] = @ + 1] ELSE reloads
    /\ UNCHANGED <<running, entryVars, registered, panel>>

\* Mutant: a reload waits until Home Assistant has started.
BeginReloadOnceStarted(e) ==
    /\ state[e] = "loaded" /\ reloads[e] > 0 /\ running
    /\ state' = [state EXCEPT ![e] = "unloading"]
    /\ again' = [again EXCEPT ![e] = TRUE]
    /\ reloads' = [reloads EXCEPT ![e] = @ - 1]
    /\ UNCHANGED <<running, gen, runtime, live, failed, options, changes, registered, panel>>

\* _async_reload_entry has the lock and unloads the platforms.
BeginReload(e) ==
    /\ state[e] = "loaded" /\ reloads[e] > 0
    /\ state' = [state EXCEPT ![e] = "unloading"]
    /\ again' = [again EXCEPT ![e] = TRUE]
    /\ reloads' = [reloads EXCEPT ![e] = @ - 1]
    /\ UNCHANGED <<running, gen, runtime, live, failed, options, changes, registered, panel>>

\* The reload of an entry that was disabled, or cannot be unloaded, does nothing.
ReloadRefused(e) ==
    /\ state[e] \in {"stuck", "unloaded"} /\ ~again[e] /\ reloads[e] > 0
    /\ reloads' = [reloads EXCEPT ![e] = @ - 1]
    /\ UNCHANGED <<running, entryVars, options, changes, registered, panel>>

\* The user disables, deletes or reloads the entry.
BeginUnload(e) ==
    /\ state[e] = "loaded"
    /\ state' = [state EXCEPT ![e] = "unloading"]
    /\ again' \in {[again EXCEPT ![e] = b] : b \in BOOLEAN}
    /\ UNCHANGED <<running, gen, runtime, live, failed, options, changes, reloads, registered, panel>>

\* Mutant: unload forgets the miner.
StoppedButMiner(e) == {h \in live : h[1] = e /\ h[2] = runtime[e] /\ h[3] # "miner"}

\* What ends with the unload: what async_unload_entry stops of the runtime it pops, and
\* the update listener and the sync task, which Home Assistant ends with the entry.
Stopped(e) == {h \in live : h[1] = e /\ (h[2] = runtime[e] \/ h[3] \in {"options", "sync"})}

\* async_unload_entry, the platforms being unloaded.
UnloadEnds(e) ==
    /\ state[e] = "unloading"
    /\ state' = [state EXCEPT ![e] = "unloaded"]
    /\ live' = live \ Stopped(e)
    /\ runtime' = [runtime EXCEPT ![e] = 0]
    /\ panel' = IF Held(runtime') = {} THEN NoPanel ELSE panel
    /\ UNCHANGED <<running, gen, again, failed, options, changes, reloads, registered>>

\* A platform does not unload: FAILED_UNLOAD, which only a restart ends.
UnloadFails(e) ==
    /\ e \in MayFail
    /\ state[e] = "unloading"
    /\ state' = [state EXCEPT ![e] = "stuck"]
    /\ again' = [again EXCEPT ![e] = FALSE]
    /\ UNCHANGED <<running, gen, runtime, live, failed, options, changes, reloads, registered, panel>>

-----------------------------------------------------------------------------
(* The startup sync.                                                           *)

\* EVENT_HOMEASSISTANT_STARTED: each listener is used up and creates its task.
HomeAssistantStarted ==
    /\ ~running
    /\ running' = TRUE
    /\ LET waiting == {h \in live : h[3] = "started"}
       IN  live' = (live \ waiting) \cup {<<h[1], h[2], "sync">> : h \in waiting}
    /\ UNCHANGED <<state, gen, runtime, again, failed, options, changes, reloads, registered, panel>>

SyncEnds(e) ==
    /\ \E g \in 1..MaxSetups : <<e, g, "sync">> \in live /\ live' = live \ {<<e, g, "sync">>}
    /\ UNCHANGED <<running, state, gen, runtime, again, failed, options, changes, reloads, registered, panel>>

-----------------------------------------------------------------------------

SetupGoesOn(e) == FrontendRegistered(e) \/ Connected(e) \/ SetupEnds(e) \/ SetupFails(e)

\* What the event loop does for an entry by itself.
Proceeds(e) ==
    \/ SetupGoesOn(e)
    \/ UnloadEnds(e) \/ UnloadFails(e)
    \/ BeginReload(e) \/ ReloadRefused(e)
    \/ (again[e] /\ BeginSetup(e))

Next ==
    \/ HomeAssistantStarted
    \/ \E e \in Entries :
          \/ BeginSetup(e) \/ SetupGoesOn(e)
          \/ ChangeOptions(e) \/ BeginReload(e) \/ ReloadRefused(e)
          \/ BeginUnload(e) \/ UnloadEnds(e) \/ UnloadFails(e)
          \/ SyncEnds(e)

\* The platforms, the daemon's requests (all with timeouts) and the lock's waiters.
Fairness == \A e \in Entries : WF_vars(Proceeds(e))

Spec == Init /\ [][Next]_vars /\ Fairness

-----------------------------------------------------------------------------
(* Properties.                                                                 *)

\* Nothing of an entry outlives it (__init__.py:137-139, 300-319): what exists on the bus
\* belongs to the runtime in hass.data, reachable for unload; only a setup that failed
\* half way leaves something that no unload will ever stop.
OnlyFailedSetupsLeak ==
    \A h \in live : h[2] = runtime[h[1]] \/ (h[1] \in MayFail /\ h[2] \in failed[h[1]])

\* A loaded entry with no reload to come runs exactly the managers its options ask for
\* (__init__.py:164-167), though options may change at any await of a setup, an unload or
\* a reload.
RunsItsOptions ==
    \A e \in Entries :
        state[e] = "loaded" /\ reloads[e] = 0 =>
            {m \in Managers : <<e, gen[e], m>> \in live} = options[e]

\* What the panel sends reaches the one runtime there is, while there is only one, and
\* no entry that got past the registration is without the panel (frontend.py:149-194,
\* 780-800, __init__.py:320).  Of several entries the panel picks none: it names no
\* entry, and every call it makes is refused until one runtime is left, although
\* entries came and went in any order since it was registered.
PanelResolves ==
    /\ panel # NoPanel =>
          /\ Held(runtime) # {}
          /\ Resolved(panel, runtime) =
                IF \E e \in Entries : Held(runtime) = {e} THEN Held(runtime) ELSE {}
    /\ \A e \in Entries :
          state[e] \in {"connecting", "forwarding", "loaded", "unloading"} => panel # NoPanel

\* A change of options takes effect: the entry ends up loaded with them, disabled, or in a
\* state Home Assistant shows as failed (__init__.py:164-167); or the bound on setups ends
\* the behaviour first.
OptionsTakeEffect ==
    \A e \in Entries :
        reloads[e] > 0 ~>
            \/ (state[e] = "loaded" /\ reloads[e] = 0)
            \/ state[e] \in {"error", "stuck"}
            \/ (state[e] = "unloaded" /\ (~again[e] \/ gen[e] = MaxSetups))

=============================================================================
