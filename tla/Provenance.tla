----------------------------- MODULE Provenance -----------------------------
(***************************************************************************)
(* The bounded index of causes and state changes behind "why did the light  *)
(* turn on": provenance.py, class GoodVibesProvenanceTracker.               *)
(*                                                                          *)
(* The index names a record by the position of its event in a log of all    *)
(* events heard since the start, which the code does not keep.  An          *)
(* OrderedDict or deque of the code is the set of positions it holds: all   *)
(* are kept in order of arrival, so its oldest record is the least one.     *)
(***************************************************************************)
EXTENDS Integers, FiniteSets, Sequences, FiniteSetsExt

CONSTANTS
    Contexts,             \* Home Assistant contexts
    NoContext,            \* the parent of a root context
    Parent,               \* Parent[c]: the context that caused c
    ByUser,               \* the contexts that carry a user id
    Fires,                \* Fires[c]: the kinds of cause whose events carry c
    Entities,             \* entities whose state changes are tracked
    MaxCauses,            \* PROVENANCE_MAX_CAUSES
    MaxChanges,           \* PROVENANCE_MAX_CHANGES
    MaxChangesPerEntity,  \* PROVENANCE_MAX_CHANGES_PER_ENTITY
    MaxDepth,             \* PROVENANCE_CHAIN_MAX_DEPTH
    MaxHeard, MaxLog      \* bounds of the model: events heard, changes logged

\* The kinds of cause, the most meaningful one first.
Precedence == <<"automation", "script", "scene", "service_call">>
Kinds == {"automation", "script", "scene", "service_call"}

\* Home Assistant makes a context after its parent, so no chain closes on itself.
ASSUME ProvenanceAssumption ==
    /\ NoContext \notin Contexts /\ Parent \in [Contexts -> Contexts \cup {NoContext}]
    /\ \A S \in SUBSET Contexts : S # {} => \E c \in S : Parent[c] \notin S
    /\ ByUser \subseteq Contexts /\ Fires \in [Contexts -> SUBSET Kinds]
    /\ {MaxCauses, MaxChanges, MaxChangesPerEntity, MaxDepth} \subseteq Nat \ {0}
    /\ {MaxHeard, MaxLog} \subseteq Nat

VARIABLES
    running,  \* the tracker listens to the bus
    heard,    \* log of the cause events: <<[kind, context], ...>>
    causes,   \* _causes: the records kept of heard
    log,      \* log of the state changes: <<entity, ...>>
    changes,  \* _changes[e]: the records kept of e's changes, a deque
    order     \* _change_order: the changes counted as retained

vars == <<running, heard, causes, log, changes, order>>

TypeOK ==
    /\ running \in BOOLEAN
    /\ heard \in Seq([kind : Kinds, context : Contexts])
    /\ causes \in SUBSET (1 .. Len(heard))
    /\ log \in Seq(Entities)
    /\ changes \in [Entities -> SUBSET (1 .. Len(log))]
    /\ order \in SUBSET (1 .. Len(log))

Init ==
    /\ running = FALSE
    /\ heard = <<>> /\ causes = {}
    /\ log = <<>> /\ changes = [e \in Entities |-> {}] /\ order = {}

Oldest(S) == Min(S)

\* S, without its oldest record if that makes it longer than max.
Bounded(S, max) == IF Cardinality(S) > max THEN S \ {Oldest(S)} ELSE S

-----------------------------------------------------------------------------
(* Recording.                                                                  *)

\* async_start: subscribe.
Start ==
    /\ ~running
    /\ running' = TRUE
    /\ UNCHANGED <<heard, causes, log, changes, order>>

\* async_stop: unsubscribe and drop the indexes; the logs start over.
Stop ==
    /\ running
    /\ running' = FALSE
    /\ heard' = <<>> /\ causes' = {}
    /\ log' = <<>> /\ changes' = [e \in Entities |-> {}] /\ order' = {}

\* Mutant: a context heard again keeps the place of its first event.
RememberInPlace(c) ==
    IF \E n \in causes : heard[n].context = c THEN causes
    ELSE Bounded(causes \cup {Len(heard) + 1}, MaxCauses)

\* _remember_cause: one record per context, the last event of a context counting.
Remember(c) ==
    Bounded({n \in causes : heard[n].context # c} \cup {Len(heard) + 1}, MaxCauses)

\* _async_record_automation, _async_record_script, _async_record_service_call.
RecordCause(k, c) ==
    /\ running
    /\ Len(heard) < MaxHeard
    /\ k \in Fires[c]
    /\ heard' = Append(heard, [kind |-> k, context |-> c])
    /\ causes' = Remember(c)
    /\ UNCHANGED <<running, log, changes, order>>

\* Mutant: the change that leaves the order takes its newest record along.
PruneNewest(kept, counted) ==
    IF Cardinality(counted) <= MaxChanges THEN kept
    ELSE LET e == log'[Oldest(counted)] IN
         IF kept[e] = {} THEN kept ELSE [kept EXCEPT ![e] = @ \ {Max(@)}]

\* _prune_changes: for the change that leaves the order, its entity loses its oldest
\* record, if it has one.  One change was added, so at most one leaves.
Prune(kept, counted) ==
    IF Cardinality(counted) <= MaxChanges THEN kept
    ELSE LET e == log'[Oldest(counted)] IN
         IF kept[e] = {} THEN kept ELSE [kept EXCEPT ![e] = @ \ {Oldest(@)}]

\* _async_record_change, for a value that is known and differs from the old one.
RecordChange(e) ==
    /\ running
    /\ Len(log) < MaxLog
    /\ log' = Append(log, e)
    /\ LET n == Len(log) + 1
           kept == [changes EXCEPT ![e] = Bounded(@ \cup {n}, MaxChangesPerEntity)]
       IN /\ changes' = Prune(kept, order \cup {n})
          /\ order' = Bounded(order \cup {n}, MaxChanges)
    /\ UNCHANGED <<running, heard, causes>>

-----------------------------------------------------------------------------
(* Attribution: resolve and _primary_cause.                                    *)

Remembered == {heard[n].context : n \in causes}

KindOf(c) == LET n == CHOOSE m \in causes : heard[m].context = c IN heard[n].kind

\* The contexts the walk visits: a change's own, or its parent if that is not
\* remembered, and from each remembered one its parent.
Walk(c) ==
    LET at[n \in 1 .. MaxDepth] ==
            IF n = 1 THEN (IF c \in Remembered THEN c ELSE Parent[c])
            ELSE IF at[n - 1] \in Remembered THEN Parent[at[n - 1]] ELSE NoContext
    IN at

\* The steps of the walk that found a cause.
Chain(c) == {n \in 1 .. MaxDepth : Walk(c)[n] \in Remembered}

\* Mutant: the nearest cause, of whatever kind.
NearestCause(c) ==
    IF Chain(c) # {} THEN KindOf(Walk(c)[Min(Chain(c))])
    ELSE IF c \in ByUser THEN "user"
    ELSE IF Parent[c] = NoContext THEN "device_or_integration" ELSE "unknown"

\* The kind of cause a change made in context c is attributed to.
PrimaryCause(c) ==
    LET found == {KindOf(Walk(c)[n]) : n \in Chain(c)}
    IN  IF found # {}
        THEN Precedence[Min({i \in DOMAIN Precedence : Precedence[i] \in found})]
        ELSE IF c \in ByUser THEN "user"
        ELSE IF Parent[c] = NoContext THEN "device_or_integration" ELSE "unknown"

-----------------------------------------------------------------------------

Next ==
    \/ Start \/ Stop
    \/ \E c \in Contexts, k \in Kinds : RecordCause(k, c)
    \/ \E e \in Entities : RecordChange(e)

Spec == Init /\ [][Next]_vars

-----------------------------------------------------------------------------
(* Properties.                                                                 *)

\* The two structures agree (provenance.py:243-255): what is kept of an entity is an
\* unbroken run of its newest changes, each of them counted in the order, and neither
\* an entity nor all together keep more than their bound.
RetentionSound ==
    /\ \A e \in Entities :
          /\ changes[e] \subseteq {n \in order : log[n] = e}
          /\ \A n \in changes[e], m \in 1 .. Len(log) :
                m > n /\ log[m] = e => m \in changes[e]
          /\ Cardinality(changes[e]) <= MaxChangesPerEntity
    /\ Cardinality(UNION {changes[e] : e \in Entities}) <= MaxChanges

\* The cause index is the latest event of each of the contexts heard last
\* (provenance.py:162-171): a context heard again does not age out early.
LastHeard ==
    LET latest == {n \in 1 .. Len(heard) :
                     \A m \in n + 1 .. Len(heard) : heard[m].context # heard[n].context}
    IN  /\ causes \subseteq latest
        /\ \A n \in latest \ causes :
              Cardinality(causes) = MaxCauses /\ \A m \in causes : n < m

\* The ancestors of c, c included: what every set holds that has c and the parents of its members.
Lineage(c) ==
    {d \in Contexts : \A S \in SUBSET Contexts :
        c \in S /\ (\A e \in S : Parent[e] \in S \cup {NoContext}) => d \in S}

\* The last of the events that named d, and its kind; no event, no kind.
LatestOf(d) ==
    {n \in 1 .. Len(heard) : /\ heard[n].context = d
                             /\ \A m \in n + 1 .. Len(heard) : heard[m].context # d}
LatestKinds(d) == {heard[n].kind : n \in LatestOf(d)}

First(kinds) == Precedence[Min({i \in DOMAIN Precedence : Precedence[i] \in kinds})]

\* The lineage of c can be followed: its ancestors are remembered, c too if an event
\* named it, and the walk may be that long.
Followed(c, lineage) ==
    /\ lineage \ {c} \subseteq Remembered
    /\ LatestOf(c) # {} => c \in Remembered
    /\ Cardinality(lineage) <= MaxDepth

\* Attribution (provenance.py:257-334): a change whose lineage can be followed is put
\* down to the first kind, of automation, script, scene and service call, among the
\* *last* events of its contexts.  Earlier ones do not count: an automation whose own
\* service call carries its context is a service call from then on, against the table
\* of docs/causal-provenance.md (line 24), which no property here repeats.
AttributedByLatest ==
    \A c \in Contexts :
        LET lineage == Lineage(c)
            kinds == UNION {LatestKinds(d) : d \in lineage}
        IN  Followed(c, lineage) /\ kinds # {} => PrimaryCause(c) = First(kinds)

=============================================================================
