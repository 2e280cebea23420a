----------------------------- MODULE Perception -----------------------------
(***************************************************************************)
(* Perception triggers: a state change of a watched entity opens a daemon    *)
(* session about it, at most one per entity and interval                     *)
(* (perception.py, class GoodVibesPerceptionManager).                        *)
(*                                                                          *)
(* A session is a background task of the config entry: Home Assistant        *)
(* cancels it when the entry is unloaded, after async_unload_entry returns.  *)
(***************************************************************************)
EXTENDS Naturals

CONSTANTS
    Watchable,     \* the entities chosen in the options
    Values,        \* the states of an entity
    Ignored,       \* the values that are no observation
    MinInterval,   \* PERCEPTION_MIN_INTERVAL_S
    MaxClock       \* bound: how long the model runs

ASSUME PerceptionAssumption ==
    Ignored \subseteq Values /\ MinInterval \in Nat \ {0} /\ MaxClock \in Nat

VARIABLES
    clock,      \* time.monotonic()
    value,      \* value[x]: the state of an entity
    exposedNow, \* the entities exposed to assistants
    watched,    \* the entities the manager listens to; {} when it is stopped
    lastFired,  \* _last_fired: when the last session about an entity was opened
    sessions,   \* the tasks in flight: <<entity, value, when the change was>>
    entryUp,    \* the config entry is loaded, or its unload is not over
    opened      \* ghost: opened[x]: when the last session about an entity was opened

perceptionVars == <<clock, value, exposedNow, watched, lastFired, sessions, entryUp, opened>>

PerceptionTypeOK ==
    /\ clock \in 0..MaxClock
    /\ value \in [Watchable -> Values]
    /\ exposedNow \subseteq Watchable /\ watched \subseteq Watchable
    /\ \E X \in SUBSET Watchable : lastFired \in [X -> 0..MaxClock]
    /\ sessions \subseteq Watchable \X Values \X (0..MaxClock)
    /\ entryUp \in BOOLEAN
    /\ \E X \in SUBSET Watchable : opened \in [X -> 0..MaxClock]

\* __init__ and async_start: only what is exposed at the start is ever listened to.
PerceptionInit ==
    /\ clock = 0
    /\ value \in [Watchable -> Values \ Ignored]
    /\ exposedNow \in SUBSET Watchable
    /\ watched = exposedNow
    /\ lastFired = <<>>
    /\ sessions = {} /\ entryUp = TRUE /\ opened = <<>>

\* A change too soon after the one its entity's last session was opened for.
TooSoon(x) == x \in DOMAIN lastFired /\ clock - lastFired[x] < MinInterval

\* The notes f with the time noted for x.
Noted(f, x) == [y \in DOMAIN f \cup {x} |-> IF y = x THEN clock ELSE f[y]]

\* The time is noted before the session starts, so a failing one uses up the interval too.
Opens(x, v) ==
    /\ lastFired' = Noted(lastFired, x)
    /\ sessions' = sessions \cup {<<x, v, clock>>}
    /\ opened' = Noted(opened, x)

\* _async_state_changed up to the rate limit: exposure is looked up at every change, and
\* only the new value is ignored when it is no observation.
Observed(x, v) == x \in watched /\ v \notin Ignored /\ x \in exposedNow

\* Mutant: a change that is dropped starts the interval anew.
DroppedButNoted(x, v) ==
    /\ lastFired' = IF Observed(x, v) THEN Noted(lastFired, x) ELSE lastFired
    /\ UNCHANGED <<sessions, opened>>

Dropped(x, v) == UNCHANGED <<lastFired, sessions, opened>>

\* An entity changes its value; the bus runs the listener at once.
ValueChanges(x, v) ==
    /\ v # value[x]
    /\ value' = [value EXCEPT ![x] = v]
    /\ IF Observed(x, v) /\ ~TooSoon(x) THEN Opens(x, v) ELSE Dropped(x, v)
    /\ UNCHANGED <<clock, exposedNow, watched, entryUp>>

\* The user exposes an entity or hides it.
ExposureChanges(x) ==
    /\ exposedNow' = IF x \in exposedNow THEN exposedNow \ {x} ELSE exposedNow \cup {x}
    /\ UNCHANGED <<clock, value, watched, lastFired, sessions, entryUp, opened>>

\* _async_start_session returns: an answer is applied to the runtime, an error is recorded.
\* Neither touches the manager.
SessionEnds(s) ==
    /\ s \in sessions
    /\ sessions' = sessions \ {s}
    /\ UNCHANGED <<clock, value, exposedNow, watched, lastFired, entryUp, opened>>

\* async_stop, called by async_unload_entry
PerceptionStops ==
    /\ watched # {}
    /\ watched' = {}
    /\ UNCHANGED <<clock, value, exposedNow, lastFired, sessions, entryUp, opened>>

\* The unload is over: Home Assistant cancels the entry's tasks.
EntryUnloaded ==
    /\ watched = {} /\ entryUp
    /\ entryUp' = FALSE
    /\ sessions' = {}
    /\ UNCHANGED <<clock, value, exposedNow, watched, lastFired, opened>>

TimePasses ==
    /\ clock < MaxClock
    /\ clock' = clock + 1
    /\ UNCHANGED <<value, exposedNow, watched, lastFired, sessions, entryUp, opened>>

PerceptionNext ==
    \/ \E x \in Watchable, v \in Values : ValueChanges(x, v)
    \/ \E x \in Watchable : ExposureChanges(x)
    \/ \E s \in sessions : SessionEnds(s)
    \/ PerceptionStops \/ EntryUnloaded \/ TimePasses

PerceptionSpec == PerceptionInit /\ [][PerceptionNext]_perceptionVars

-----------------------------------------------------------------------------

\* No session is owed for this change: the comment at perception.py:117-118 excludes changes
\* into and out of a value that is no observation.  The code tests the new value only (124), and
\* a change out of such a value may open a session: the property leaves that case open.
NotOwed(x) == {value[x], value'[x]} \cap Ignored # {}

\* However often an entity changes, whatever is hidden or exposed meanwhile and however its
\* sessions end, a session is opened only by a change to an observation, of a watched and exposed
\* entity, for which none was opened within the interval; and every such change from one
\* observation to another opens one.  A chattering entity is heard once each interval, and a
\* failed session silences it no longer than that (perception.py:117-142).
OneSessionPerInterval ==
    [][\A x \in Watchable :
          LET due == x \notin DOMAIN opened \/ clock >= opened[x] + MinInterval
              opens == \E s \in sessions' \ sessions : s[1] = x
              changes == value'[x] # value[x]
          IN  /\ opens => changes /\ value'[x] \notin Ignored /\ due /\ x \in watched \cap exposedNow
              /\ changes /\ ~NotOwed(x) /\ due /\ x \in watched \cap exposedNow => opens
      ]_perceptionVars
=============================================================================
