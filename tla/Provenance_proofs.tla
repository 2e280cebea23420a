-------------------------- MODULE Provenance_proofs --------------------------
(***************************************************************************)
(* Proofs about Provenance, for every history and every bound.              *)
(***************************************************************************)
EXTENDS Provenance, FiniteSetTheorems, SequenceTheorems, WellFoundedInduction, TLAPS

-----------------------------------------------------------------------------
(* What evicting the oldest record does to a set of records.                   *)

\* A non-empty set of positions has an oldest one: the end of the shortest of the runs
\* 1 .. n that end in it.
LEMMA OldestIsLeast ==
    ASSUME NEW k \in Nat, NEW S \in SUBSET (1 .. k), S # {}
    PROVE  Oldest(S) \in S /\ \A n \in S : Oldest(S) <= n
<1> DEFINE runs == {1 .. n : n \in S}
           R == StrictSubsetOrdering(1 .. k)
           F == FiniteSubsetsOf(1 .. k)
<1>1. IsWellFoundedOn(R, F)
  BY FS_StrictSubsetOrderingWellFounded
<1>2. runs \subseteq F
  <2>1. SUFFICES ASSUME NEW n \in S PROVE 1 .. n \in F
    OBVIOUS
  <2>2. IsFiniteSet(1 .. n)
    BY FS_Interval
  <2> QED BY <2>2 DEF FiniteSubsetsOf
<1>3. PICK x \in runs : \A y \in runs : ~ (<<y, x>> \in R)
  <2>1. runs # {}
    OBVIOUS
  <2> HIDE DEF runs, R, F
  <2> QED BY <1>1, <1>2, <2>1, WFMin
<1>4. PICK m \in S : x = 1 .. m
  OBVIOUS
<1>5. ASSUME NEW n \in S, n < m PROVE FALSE
  <2>1. 1 .. n \in SUBSET (1 .. k) /\ 1 .. m \in SUBSET (1 .. k)
    OBVIOUS
  <2>2. 1 .. n \subseteq 1 .. m /\ m \in 1 .. m /\ m \notin 1 .. n
    BY <1>5
  <2>3. <<1 .. n, 1 .. m>> \in R
    BY <2>1, <2>2, Zenon DEF StrictSubsetOrdering
  <2> QED BY <1>3, <1>4, <2>3
<1>6. \A n \in S : m <= n
  BY <1>5
<1> QED
  BY <1>6 DEF Oldest, Min

\* Positions are finitely many.
LEMMA PositionsAreFinite ==
    ASSUME NEW k \in Nat, NEW S \in SUBSET (1 .. k)
    PROVE  IsFiniteSet(S) /\ Cardinality(S) \in Nat
<1>1. IsFiniteSet(1 .. k)
  BY FS_Interval
<1> QED
  BY <1>1, FS_Subset, FS_CardinalityType

\* A set of at most max + 1 records is brought within max by losing its oldest one at
\* most; it loses one only when it would otherwise be full.
LEMMA BoundedDropsOldest ==
    ASSUME NEW k \in Nat, NEW S \in SUBSET (1 .. k), NEW max \in Nat \ {0},
           Cardinality(S) <= max + 1
    PROVE  /\ Bounded(S, max) \subseteq S
           /\ Cardinality(Bounded(S, max)) <= max
           /\ Cardinality(S) > max =>
                 S # {} /\ Bounded(S, max) = S \ {Oldest(S)}
                    /\ Cardinality(Bounded(S, max)) = max
           /\ Cardinality(S) <= max => Bounded(S, max) = S
<1>1. IsFiniteSet(S) /\ Cardinality(S) \in Nat
  BY PositionsAreFinite
<1>2. CASE Cardinality(S) <= max
  BY <1>1, <1>2 DEF Bounded
<1>3. CASE Cardinality(S) > max
  <2>1. S # {}
    BY <1>3, FS_EmptySet
  <2>2. Oldest(S) \in S
    BY <2>1, OldestIsLeast
  <2>3. Cardinality(S \ {Oldest(S)}) = Cardinality(S) - 1
    BY <1>1, <2>2, FS_RemoveElement
  <2> QED BY <1>1, <1>3, <2>1, <2>3 DEF Bounded
<1> QED BY <1>1, <1>2, <1>3

\* Nothing is in an empty log.
LEMMA EmptyLog ==
    ASSUME NEW S
    PROVE  <<>> \in Seq(S) /\ Len(<<>>) = 0 /\ {} \in SUBSET (1 .. Len(<<>>))
OBVIOUS

\* A set of records grows by one with the next event, which is its newest.
LEMMA NextRecord ==
    ASSUME NEW k \in Nat, NEW S \in SUBSET (1 .. k)
    PROVE  /\ S \cup {k + 1} \in SUBSET (1 .. k + 1)
           /\ IsFiniteSet(S)
           /\ Cardinality(S) \in Nat
           /\ Cardinality(S \cup {k + 1}) = Cardinality(S) + 1
<1>1. IsFiniteSet(S) /\ Cardinality(S) \in Nat
  BY PositionsAreFinite
<1>2. k + 1 \notin S
  OBVIOUS
<1> QED BY <1>1, <1>2, FS_AddElement

-----------------------------------------------------------------------------
(* The two invariants, with what makes them inductive.                         *)

\* What is kept of each entity, and that the order is within its bound.
RetentionInv ==
    /\ \A e \in Entities :
          /\ changes[e] \subseteq {n \in order : log[n] = e}
          /\ \A n \in changes[e], m \in 1 .. Len(log) :
                m > n /\ log[m] = e => m \in changes[e]
          /\ Cardinality(changes[e]) <= MaxChangesPerEntity
    /\ Cardinality(order) <= MaxChanges

\* Which causes are kept, and that they are within their bound.
CausesInv == LastHeard /\ Cardinality(causes) <= MaxCauses

-----------------------------------------------------------------------------
(* Type correctness.                                                           *)

\* Type correctness, for every value of the constants.
THEOREM TypeCorrect == Spec => []TypeOK
<1> USE ProvenanceAssumption DEF TypeOK
<1>1. Init => TypeOK
  <2> SUFFICES ASSUME Init PROVE TypeOK
    OBVIOUS
  <2>1. changes \in [Entities -> SUBSET (1 .. Len(log))]
    BY EmptyLog, Zenon DEF Init
  <2> QED BY <2>1, EmptyLog, Zenon DEF Init
<1>2. TypeOK /\ [Next]_vars => TypeOK'
  <2> SUFFICES ASSUME TypeOK, [Next]_vars PROVE TypeOK'
    OBVIOUS
  <2>1. CASE Start
    BY <2>1 DEF Start
  <2>2. CASE Stop
    <3>1. changes' \in [Entities -> SUBSET (1 .. Len(log'))]
      BY <2>2, EmptyLog, Zenon DEF Stop
    <3> QED BY <2>2, <3>1, EmptyLog, Zenon DEF Stop
  <2>3. ASSUME NEW c \in Contexts, NEW k \in Kinds, RecordCause(k, c) PROVE TypeOK'
    <3>1. heard' \in Seq([kind : Kinds, context : Contexts]) /\ Len(heard') = Len(heard) + 1
      BY <2>3 DEF RecordCause
    <3>2. causes' \in SUBSET (1 .. Len(heard'))
      <4> DEFINE S == {m \in causes : heard[m].context # c} \cup {Len(heard) + 1}
      <4>1. causes' = Bounded(S, MaxCauses)
        BY <2>3 DEF RecordCause, Remember
      <4>2. S \subseteq 1 .. Len(heard')
        <5>1. Len(heard) \in Nat /\ causes \subseteq 1 .. Len(heard)
          OBVIOUS
        <5>2. causes \subseteq 1 .. Len(heard')
          BY <3>1, <5>1
        <5>3. Len(heard) + 1 \in 1 .. Len(heard')
          BY <3>1, <5>1
        <5> QED BY <5>2, <5>3
      <4> QED BY <4>1, <4>2, Zenon DEF Bounded
    <3> QED BY <2>3, <3>1, <3>2 DEF RecordCause
  <2>4. ASSUME NEW e \in Entities, RecordChange(e) PROVE TypeOK'
    <3> DEFINE n == Len(log) + 1
               kept == [changes EXCEPT ![e] = Bounded(@ \cup {n}, MaxChangesPerEntity)]
               counted == order \cup {n}
    <3>1. log' \in Seq(Entities) /\ Len(log') = n
      BY <2>4 DEF RecordChange
    <3>2. kept \in [Entities -> SUBSET (1 .. n)]
      BY DEF Bounded
    <3>3. Prune(kept, counted) \in [Entities -> SUBSET (1 .. n)]
      <4> HIDE DEF kept, counted
      <4> QED BY <3>2 DEF Prune
    <3>4. order' \in SUBSET (1 .. n)
      <4>1. order' = Bounded(counted, MaxChanges)
        BY <2>4 DEF RecordChange
      <4>2. counted \subseteq 1 .. n
        <5>1. Len(log) \in Nat /\ order \in SUBSET (1 .. Len(log))
          OBVIOUS
        <5> QED BY <5>1, NextRecord
      <4> QED BY <4>1, <4>2, Zenon DEF Bounded
    <3>5. changes' = Prune(kept, counted) /\ UNCHANGED <<running, heard, causes>>
      BY <2>4 DEF RecordChange
    <3> QED BY <3>1, <3>3, <3>4, <3>5
  <2>5. CASE UNCHANGED vars
    BY <2>5 DEF vars
  <2> QED
    BY <2>1, <2>2, <2>3, <2>4, <2>5 DEF Next
<1> QED
  BY <1>1, <1>2, PTL DEF Spec

-----------------------------------------------------------------------------
(* Retention of changes.                                                       *)

\* Appending a change and pruning keep RetentionInv: the records that leave an entity
\* are its oldest, and it loses one whenever the order loses one of its changes.
LEMMA RecordChangeRetains ==
    ASSUME TypeOK, RetentionInv, NEW e \in Entities, RecordChange(e)
    PROVE  RetentionInv'
<1> USE ProvenanceAssumption DEF TypeOK
<1> DEFINE n == Len(log) + 1
           mine == changes[e] \cup {n}
           rest == Bounded(mine, MaxChangesPerEntity)
           kept == [changes EXCEPT ![e] = rest]
           counted == order \cup {n}
<1>1. /\ log' = Append(log, e) /\ Len(log') = n
      /\ \A m \in 1 .. Len(log) : log'[m] = log[m]
      /\ log'[n] = e
      /\ log' \in Seq(Entities)
  BY DEF RecordChange
<1>2. changes' = Prune(kept, counted) /\ order' = Bounded(counted, MaxChanges)
  BY DEF RecordChange
<1>3. /\ rest \subseteq mine
      /\ Cardinality(rest) <= MaxChangesPerEntity
      /\ rest = mine \/ rest = mine \ {Oldest(mine)}
      /\ \A m \in mine : Oldest(mine) <= m
  <2>1. /\ mine \in SUBSET (1 .. n) /\ Cardinality(changes[e]) \in Nat
        /\ Cardinality(mine) = Cardinality(changes[e]) + 1
    <3>1. Len(log) \in Nat /\ changes[e] \in SUBSET (1 .. Len(log))
      OBVIOUS
    <3> QED BY <3>1, NextRecord
  <2>2. Cardinality(changes[e]) <= MaxChangesPerEntity
    BY DEF RetentionInv
  <2>3. n \in Nat /\ Cardinality(mine) <= MaxChangesPerEntity + 1 /\ mine # {}
    BY <2>1, <2>2
  <2>4. MaxChangesPerEntity \in Nat \ {0}
    OBVIOUS
  <2> HIDE DEF mine, n
  <2>5. \A m \in mine : Oldest(mine) <= m
    BY <2>1, <2>3, OldestIsLeast
  <2> QED BY <2>1, <2>3, <2>4, <2>5, BoundedDropsOldest DEF Bounded
<1>4. /\ counted \in SUBSET (1 .. n)
      /\ Cardinality(order') <= MaxChanges
      /\ Cardinality(counted) <= MaxChanges => order' = counted
      /\ ~ (Cardinality(counted) <= MaxChanges) =>
            /\ order' = counted \ {Oldest(counted)}
            /\ Oldest(counted) \in counted
            /\ \A m \in counted : Oldest(counted) <= m
  <2>1. /\ counted \in SUBSET (1 .. n) /\ Cardinality(order) \in Nat
        /\ Cardinality(counted) = Cardinality(order) + 1
    <3>1. Len(log) \in Nat /\ order \in SUBSET (1 .. Len(log))
      OBVIOUS
    <3> QED BY <3>1, NextRecord
  <2>2. Cardinality(order) <= MaxChanges
    BY DEF RetentionInv
  <2>3. n \in Nat /\ Cardinality(counted) <= MaxChanges + 1 /\ counted # {}
    BY <2>1, <2>2
  <2>4. MaxChanges \in Nat \ {0}
    OBVIOUS
  <2>5. Cardinality(counted) \in Nat
    BY <2>1
  <2> HIDE DEF counted, n
  <2>6. Oldest(counted) \in counted /\ \A m \in counted : Oldest(counted) <= m
    BY <2>1, <2>3, OldestIsLeast
  <2>7. /\ Cardinality(Bounded(counted, MaxChanges)) <= MaxChanges
        /\ Cardinality(counted) > MaxChanges =>
              Bounded(counted, MaxChanges) = counted \ {Oldest(counted)}
        /\ Cardinality(counted) <= MaxChanges => Bounded(counted, MaxChanges) = counted
    BY <2>1, <2>3, <2>4, BoundedDropsOldest
  <2> QED BY <1>2, <2>1, <2>4, <2>5, <2>6, <2>7
\* Before pruning: each entity keeps an unbroken run of its newest changes.
<1>5. ASSUME NEW f \in Entities
      PROVE  /\ kept[f] \subseteq {m \in counted : log'[m] = f}
             /\ \A m \in kept[f], l \in 1 .. n : l > m /\ log'[l] = f => l \in kept[f]
             /\ Cardinality(kept[f]) <= MaxChangesPerEntity
  <2>0. /\ changes[f] \subseteq {m \in order : log[m] = f}
        /\ \A m \in changes[f], l \in 1 .. Len(log) :
              l > m /\ log[l] = f => l \in changes[f]
        /\ Cardinality(changes[f]) <= MaxChangesPerEntity
        /\ order \subseteq 1 .. Len(log)
    BY DEF RetentionInv
  <2>1. CASE f = e
    <3>1. kept[f] = rest
      BY <2>1
    <3>2. \A m \in mine, l \in 1 .. n : l > m /\ log'[l] = f => l \in mine
      BY <1>1, <2>0, <2>1
    <3>3. mine \subseteq {m \in counted : log'[m] = f} /\ mine \subseteq Int
      BY <1>1, <2>0, <2>1
    <3>4. rest = mine \/ (rest = mine \ {Oldest(mine)} /\ \A m \in mine : Oldest(mine) <= m)
      BY <1>3
    <3>5. Cardinality(rest) <= MaxChangesPerEntity /\ rest \subseteq mine
      BY <1>3
    <3> HIDE DEF mine, rest, counted, kept
    <3>6. \A m \in rest, l \in 1 .. n : l > m /\ log'[l] = f => l \in rest
      <4>1. CASE rest = mine
        BY <3>2, <4>1
      <4>2. CASE rest = mine \ {Oldest(mine)} /\ \A m \in mine : Oldest(mine) <= m
        <5>1. SUFFICES ASSUME NEW m \in rest, NEW l \in 1 .. n, l > m, log'[l] = f
                       PROVE  l \in rest
          OBVIOUS
        <5>2. l \in mine /\ m \in mine /\ Oldest(mine) <= m
          BY <3>2, <4>2, <5>1
        <5>3. m \in Int /\ l \in Int /\ l # Oldest(mine)
          BY <3>3, <5>1, <5>2
        <5> QED BY <4>2, <5>2, <5>3
      <4> QED BY <3>4, <4>1, <4>2
    <3> QED BY <3>1, <3>3, <3>5, <3>6
  <2>2. CASE f # e
    <3>1. kept[f] = changes[f]
      BY <2>2
    <3> QED BY <1>1, <2>0, <2>2, <3>1
  <2> QED BY <2>1, <2>2
<1>6. kept \in [Entities -> SUBSET (1 .. n)]
  BY DEF Bounded
<1>7. ASSUME NEW f \in Entities
      PROVE  /\ changes'[f] \subseteq {m \in order' : log'[m] = f}
             /\ \A m \in changes'[f], l \in 1 .. n :
                   l > m /\ log'[l] = f => l \in changes'[f]
             /\ Cardinality(changes'[f]) <= MaxChangesPerEntity
  <2> HIDE DEF kept, counted
  <2>1. CASE Cardinality(counted) <= MaxChanges
    BY <1>2, <1>4, <1>5, <2>1 DEF Prune
  <2>2. CASE ~ (Cardinality(counted) <= MaxChanges)
    <3>0. n \in Nat /\ \A h \in Entities : kept[h] \in SUBSET (1 .. n)
      BY <1>6
    <3> DEFINE o == Oldest(counted)
               g == log'[o]
    <3>1. g \in Entities /\ o \in counted /\ \A m \in counted : o <= m
      <4>1. o \in counted /\ \A m \in counted : o <= m
        BY <1>4, <2>2
      <4>2. o \in 1 .. Len(log')
        BY <1>1, <1>4, <4>1
      <4> QED BY <1>1, <4>1, <4>2, ElementOfSeq
    <3>2. order' = counted \ {o}
      BY <1>4, <2>2
    <3>3. CASE f # g \/ kept[g] = {}
      <4>1. changes'[f] = kept[f]
        BY <1>2, <1>6, <2>2, <3>1, <3>3 DEF Prune
      <4>2. o \notin kept[f]
        BY <1>5, <3>3
      <4> QED BY <1>5, <3>2, <4>1, <4>2
    <3>4. CASE f = g /\ kept[g] # {}
      <4>1. changes'[f] = kept[f] \ {Oldest(kept[f])}
        BY <1>2, <1>6, <2>2, <3>1, <3>4 DEF Prune
      <4>2. Oldest(kept[f]) \in kept[f] /\ \A m \in kept[f] : Oldest(kept[f]) <= m
        BY <3>0, <3>4, OldestIsLeast
      <4>3. o \notin changes'[f]
        <5>1. SUFFICES ASSUME o \in kept[f] PROVE o = Oldest(kept[f])
          BY <4>1
        <5>2. o <= Oldest(kept[f]) /\ Oldest(kept[f]) <= o
          BY <1>5, <3>1, <4>2, <5>1
        <5> QED BY <1>4, <1>6, <3>1, <4>2, <5>2
      <4>4. Cardinality(changes'[f]) <= MaxChangesPerEntity
        <5>1. IsFiniteSet(kept[f]) /\ Cardinality(kept[f]) \in Nat
          BY <3>0, PositionsAreFinite
        <5>2. Oldest(kept[f]) \in kept[f]
          BY <4>2
        <5>3. Cardinality(kept[f] \ {Oldest(kept[f])}) = Cardinality(kept[f]) - 1
          <6> DEFINE K == kept[f]
                     x == Oldest(kept[f])
          <6>1. IsFiniteSet(K) /\ x \in K
            BY <5>1, <5>2
          <6> HIDE DEF K, x
          <6>2. Cardinality(K \ {x}) = Cardinality(K) - 1
            BY <6>1, FS_RemoveElement
          <6> QED BY <6>2 DEF K, x
        <5> QED BY <1>5, <4>1, <5>1, <5>3
      <4>5. changes'[f] \subseteq {m \in order' : log'[m] = f}
        BY <1>5, <3>2, <4>1, <4>3
      <4>6. \A m \in changes'[f], l \in 1 .. n :
              l > m /\ log'[l] = f => l \in changes'[f]
        BY <1>5, <1>6, <4>1, <4>2
      <4> QED BY <4>4, <4>5, <4>6
    <3> QED BY <3>3, <3>4
  <2> QED BY <2>1, <2>2
<1> QED
  BY <1>1, <1>4, <1>7 DEF RetentionInv

\* What is kept of an entity is an unbroken run of its newest changes, all of them
\* counted in the order, and neither one entity nor all together exceed their bound.
THEOREM RetentionIsSound == Spec => []RetentionSound
<1> USE ProvenanceAssumption
<1>1. Init => RetentionInv
  <2>1. Cardinality({}) = 0
    BY FS_EmptySet
  <2> QED BY <2>1 DEF Init, RetentionInv
<1>2. TypeOK /\ RetentionInv /\ [Next]_vars => RetentionInv'
  <2> SUFFICES ASSUME TypeOK, RetentionInv, [Next]_vars PROVE RetentionInv'
    OBVIOUS
  <2>1. CASE Start
    BY <2>1 DEF Start, RetentionInv
  <2>2. CASE Stop
    <3>1. Cardinality({}) = 0
      BY FS_EmptySet
    <3> QED BY <2>2, <3>1 DEF Stop, RetentionInv
  <2>3. ASSUME NEW c \in Contexts, NEW k \in Kinds, RecordCause(k, c) PROVE RetentionInv'
    BY <2>3 DEF RecordCause, RetentionInv
  <2>4. ASSUME NEW e \in Entities, RecordChange(e) PROVE RetentionInv'
    BY <2>4, RecordChangeRetains
  <2>5. CASE UNCHANGED vars
    BY <2>5 DEF vars, RetentionInv
  <2> QED
    BY <2>1, <2>2, <2>3, <2>4, <2>5 DEF Next
<1>3. TypeOK /\ RetentionInv => RetentionSound
  <2> SUFFICES ASSUME TypeOK, RetentionInv
               PROVE  Cardinality(UNION {changes[e] : e \in Entities}) <= MaxChanges
    BY DEF RetentionInv, RetentionSound
  <2> DEFINE all == UNION {changes[e] : e \in Entities}
  <2>1. all \subseteq order
    BY DEF RetentionInv
  <2>2. IsFiniteSet(order) /\ Cardinality(order) \in Nat
    <3>1. Len(log) \in Nat /\ order \in SUBSET (1 .. Len(log))
      BY DEF TypeOK
    <3> QED BY <3>1, PositionsAreFinite
  <2>3. Cardinality(all) <= Cardinality(order) /\ Cardinality(all) \in Nat
    BY <2>1, <2>2, FS_Subset, FS_CardinalityType
  <2> QED BY <2>2, <2>3 DEF RetentionInv
<1> QED
  BY <1>1, <1>2, <1>3, TypeCorrect, PTL DEF Spec

-----------------------------------------------------------------------------
(* Eviction of causes.                                                         *)

\* The positions in heard of the latest event of each context.
Latest == {n \in 1 .. Len(heard) :
             \A m \in n + 1 .. Len(heard) : heard[m].context # heard[n].context}

\* Hearing one more event keeps CausesInv: an event of a context that is remembered
\* takes the place of its earlier record, any other takes that of the oldest one.
LEMMA RecordCauseEvicts ==
    ASSUME TypeOK, CausesInv, NEW k \in Kinds, NEW c \in Contexts, RecordCause(k, c)
    PROVE  CausesInv'
<1> USE ProvenanceAssumption DEF TypeOK
<1> DEFINE N == Len(heard) + 1
           others == {n \in causes : heard[n].context # c}
           all == others \cup {N}
<1>1. /\ Len(heard) \in Nat /\ Len(heard') = N
      /\ \A n \in 1 .. Len(heard) : heard'[n] = heard[n]
      /\ heard'[N].context = c
      /\ causes \in SUBSET (1 .. Len(heard)) /\ others \in SUBSET (1 .. Len(heard))
      /\ causes' = Bounded(all, MaxCauses)
      /\ MaxCauses \in Nat \ {0}
      /\ \A n \in 1 .. Len(heard) : heard[n].context \in Contexts
  <2>1. heard' = Append(heard, [kind |-> k, context |-> c])
    BY DEF RecordCause
  <2>2. causes' = Bounded(all, MaxCauses)
    BY DEF RecordCause, Remember
  <2>3. Len(heard) \in Nat /\ Len(heard') = N /\ heard'[N].context = c
    BY <2>1
  <2>4. ASSUME NEW n \in 1 .. Len(heard)
        PROVE  heard'[n] = heard[n] /\ heard[n].context \in Contexts
    <3>1. heard[n] \in [kind : Kinds, context : Contexts]
      BY ElementOfSeq
    <3> QED BY <2>1, <3>1
  <2>5. causes \in SUBSET (1 .. Len(heard)) /\ others \in SUBSET (1 .. Len(heard))
    OBVIOUS
  <2> QED BY <2>2, <2>3, <2>4, <2>5
<1>2. /\ causes \subseteq Latest
      /\ \A n \in Latest \ causes :
            Cardinality(causes) = MaxCauses /\ \A m \in causes : n < m
      /\ Cardinality(causes) <= MaxCauses
  BY DEF CausesInv, LastHeard, Latest
<1>3. Latest' = {n \in Latest : heard[n].context # c} \cup {N}
  <2>1. ASSUME NEW n \in Latest' PROVE n \in {m \in Latest : heard[m].context # c} \cup {N}
    <3>1. /\ n \in 1 .. N
          /\ \A m \in n + 1 .. N : heard'[m].context # heard'[n].context
      BY <1>1, <2>1 DEF Latest
    <3>2. CASE n # N
      <4>1. n \in 1 .. Len(heard) /\ N \in n + 1 .. N
        BY <1>1, <3>1, <3>2
      <4>2. heard[n].context # c
        BY <1>1, <3>1, <4>1
      <4>3. \A m \in n + 1 .. Len(heard) :
               m \in n + 1 .. N /\ m \in 1 .. Len(heard)
        BY <1>1, <4>1
      <4>4. \A m \in n + 1 .. Len(heard) : heard[m].context # heard[n].context
        BY <1>1, <3>1, <4>1, <4>3
      <4> QED BY <4>1, <4>2, <4>4 DEF Latest
    <3> QED BY <3>2
  <2>2. ASSUME NEW n \in {m \in Latest : heard[m].context # c} \cup {N} PROVE n \in Latest'
    <3>1. CASE n = N
      BY <1>1, <3>1 DEF Latest
    <3>2. CASE n \in Latest /\ heard[n].context # c
      <4>1. /\ n \in 1 .. Len(heard)
            /\ \A m \in n + 1 .. Len(heard) : heard[m].context # heard[n].context
        BY <3>2 DEF Latest
      <4>2. ASSUME NEW m \in n + 1 .. N PROVE heard'[m].context # heard'[n].context
        <5>1. CASE m = N
          BY <1>1, <3>2, <4>1, <5>1
        <5>2. CASE m # N
          <6>1. m \in n + 1 .. Len(heard) /\ m \in 1 .. Len(heard)
            BY <1>1, <4>1, <4>2, <5>2
          <6> QED BY <1>1, <4>1, <6>1
        <5> QED BY <5>1, <5>2
      <4>3. n \in 1 .. Len(heard')
        BY <1>1, <4>1
      <4> QED BY <1>1, <4>2, <4>3 DEF Latest
    <3> QED BY <2>2, <3>1, <3>2
  <2> QED BY <2>1, <2>2
\* Only one record can be of the context heard again.
<1>4. \A n, m \in causes : heard[n].context = c /\ heard[m].context = c => n = m
  <2>1. SUFFICES ASSUME NEW n \in causes, NEW m \in causes, n < m,
                        heard[n].context = c, heard[m].context = c
                 PROVE  FALSE
    BY <1>1
  <2>2. n \in Latest /\ m \in n + 1 .. Len(heard)
    BY <1>1, <1>2, <2>1
  <2> QED BY <2>1, <2>2 DEF Latest
<1>5. /\ IsFiniteSet(causes) /\ Cardinality(causes) \in Nat
      /\ Cardinality(others) \in Nat /\ Cardinality(all) = Cardinality(others) + 1
      /\ all \in SUBSET (1 .. N)
  BY <1>1, NextRecord
<1>6. \/ others = causes
      \/ Cardinality(others) = Cardinality(causes) - 1
  <2>1. SUFFICES ASSUME NEW n \in causes, heard[n].context = c
                 PROVE  Cardinality(others) = Cardinality(causes) - 1
    OBVIOUS
  <2>2. others = causes \ {n}
    BY <1>4, <2>1
  <2> QED BY <1>5, <2>1, <2>2, FS_RemoveElement
<1>7. /\ Cardinality(causes') <= MaxCauses
      /\ Cardinality(all) > MaxCauses =>
            /\ causes' = all \ {Oldest(all)} /\ Cardinality(causes') = MaxCauses
            /\ Oldest(all) \in all /\ \A m \in all : Oldest(all) <= m
      /\ Cardinality(all) <= MaxCauses => causes' = all
  <2>1. MaxCauses \in Nat \ {0} /\ N \in Nat
    BY <1>1
  <2>2. Cardinality(all) <= MaxCauses + 1
    <3> HIDE DEF all, others
    <3> QED BY <1>2, <1>5, <1>6, <2>1
  <2>3. all # {}
    OBVIOUS
  <2> HIDE DEF all, N
  <2>4. Oldest(all) \in all /\ \A m \in all : Oldest(all) <= m
    BY <1>5, <2>1, <2>3, OldestIsLeast
  <2>5. /\ Cardinality(Bounded(all, MaxCauses)) <= MaxCauses
        /\ Cardinality(all) > MaxCauses =>
              /\ Bounded(all, MaxCauses) = all \ {Oldest(all)}
              /\ Cardinality(Bounded(all, MaxCauses)) = MaxCauses
        /\ Cardinality(all) <= MaxCauses => Bounded(all, MaxCauses) = all
    BY <1>5, <2>1, <2>2, BoundedDropsOldest
  <2> QED BY <1>1, <2>4, <2>5
<1>8. causes' \subseteq all
  BY <1>1, <1>5, <1>7, <1>2, <1>6
<1>9. all \subseteq Latest'
  BY <1>2, <1>3
<1>10. ASSUME NEW n \in Latest' \ causes'
       PROVE  Cardinality(causes') = MaxCauses /\ \A m \in causes' : n < m
  <2>1. n \in Int /\ causes' \subseteq Int /\ all \subseteq Int
    BY <1>1, <1>5, <1>8 DEF Latest
  <2>2. CASE n \in all
    <3>1. Cardinality(all) > MaxCauses
      <4>1. Cardinality(all) \in Int /\ MaxCauses \in Int
        BY <1>1, <1>5
      <4> HIDE DEF all
      <4> QED BY <1>7, <1>10, <2>2, <4>1
    <3>2. n = Oldest(all)
      BY <1>7, <1>10, <2>2, <3>1
    <3>3. causes' = all \ {n} /\ Cardinality(causes') = MaxCauses /\ \A m \in all : n <= m
      BY <1>7, <3>1, <3>2
    <3>4. \A m \in causes' : m \in all /\ m # n
      BY <3>3
    <3> HIDE DEF all
    <3> QED BY <2>1, <3>3, <3>4
  <2>3. CASE n \notin all
    <3>1. n \in Latest \ causes /\ n # N
      BY <1>3, <1>10, <2>3
    <3>2. Cardinality(causes) = MaxCauses /\ \A m \in causes : n < m
      BY <1>2, <3>1
    <3>3. \A m \in all : n < m
      BY <1>1, <3>1, <3>2 DEF Latest
    <3>4. Cardinality(all) >= MaxCauses
      <4> HIDE DEF all, others
      <4> QED BY <1>5, <1>6, <3>2
    <3>5. Cardinality(causes') = MaxCauses
      <4>1. CASE Cardinality(all) > MaxCauses
        BY <1>7, <4>1
      <4>2. CASE Cardinality(all) = MaxCauses
        <5>1. causes' = all
          BY <1>1, <1>7, <4>2
        <5> QED BY <4>2, <5>1
      <4>3. Cardinality(all) \in Int /\ MaxCauses \in Int
        BY <1>1, <1>5
      <4> HIDE DEF all
      <4> QED BY <3>4, <4>1, <4>2, <4>3
    <3> QED BY <1>8, <3>3, <3>5
  <2> QED BY <2>2, <2>3
<1> QED
  BY <1>7, <1>8, <1>9, <1>10 DEF CausesInv, LastHeard, Latest

\* The causes remembered are the latest events of the contexts heard last.
THEOREM CausesAreLastHeard == Spec => []LastHeard
<1> USE ProvenanceAssumption
<1>0. Cardinality({}) = 0
  BY FS_EmptySet
<1>1. Init => CausesInv
  BY <1>0 DEF Init, CausesInv, LastHeard
<1>2. TypeOK /\ CausesInv /\ [Next]_vars => CausesInv'
  <2> SUFFICES ASSUME TypeOK, CausesInv, [Next]_vars PROVE CausesInv'
    OBVIOUS
  <2>1. CASE Start
    BY <2>1 DEF Start, CausesInv, LastHeard
  <2>2. CASE Stop
    BY <1>0, <2>2 DEF Stop, CausesInv, LastHeard
  <2>3. ASSUME NEW c \in Contexts, NEW k \in Kinds, RecordCause(k, c) PROVE CausesInv'
    BY <2>3, RecordCauseEvicts
  <2>4. ASSUME NEW e \in Entities, RecordChange(e) PROVE CausesInv'
    BY <2>4 DEF RecordChange, CausesInv, LastHeard
  <2>5. CASE UNCHANGED vars
    BY <2>5 DEF vars, CausesInv, LastHeard
  <2> QED
    BY <2>1, <2>2, <2>3, <2>4, <2>5 DEF Next
<1>3. CausesInv => LastHeard
  BY DEF CausesInv
<1> QED
  BY <1>1, <1>2, <1>3, TypeCorrect, PTL DEF Spec

-----------------------------------------------------------------------------
(* Attribution.                                                                *)

\* A set of contexts with the parents of its members is empty: chains of parents end.
LEMMA ChainsEnd ==
    ASSUME NEW S \in SUBSET Contexts, \A d \in S : Parent[d] \in S
    PROVE  S = {}
BY ProvenanceAssumption

\* A lineage has its context and the parents of its members, and no set that has them is smaller.
LEMMA LineageIsClosed ==
    ASSUME NEW c \in Contexts
    PROVE  /\ c \in Lineage(c) /\ Lineage(c) \in SUBSET Contexts
           /\ \A d \in Lineage(c) : Parent[d] \in Lineage(c) \cup {NoContext}
           /\ \A S \in SUBSET Contexts :
                 c \in S /\ (\A e \in S : Parent[e] \in S \cup {NoContext}) => Lineage(c) \subseteq S
<1>1. ASSUME NEW d \in Lineage(c) PROVE Parent[d] \in Lineage(c) \cup {NoContext}
  BY ProvenanceAssumption DEF Lineage
<1> QED BY <1>1 DEF Lineage

\* However many contexts there are, a lineage is finite.
LEMMA LineageIsFinite ==
    ASSUME NEW c \in Contexts
    PROVE  IsFiniteSet(Lineage(c)) /\ Cardinality(Lineage(c)) \in Nat
<1> DEFINE S == {d \in Contexts : ~IsFiniteSet(Lineage(d))}
<1>1. ASSUME NEW d \in S PROVE Parent[d] \in S
  <2>1. Parent[d] # NoContext
    <3> SUFFICES ASSUME Parent[d] = NoContext PROVE FALSE
      OBVIOUS
    <3>1. {d} \in SUBSET Contexts /\ d \in {d} /\ \A e \in {d} : Parent[e] \in {d} \cup {NoContext}
      OBVIOUS
    <3>2. Lineage(d) \in SUBSET {d}
      BY <3>1, LineageIsClosed
    <3> QED BY <3>2, FS_Singleton, FS_Subset
  <2>2. Parent[d] \in Contexts
    BY <2>1, ProvenanceAssumption
  <2>3. IsFiniteSet(Lineage(Parent[d])) => IsFiniteSet(Lineage(d))
    <3> DEFINE T == {d} \cup Lineage(Parent[d])
    <3>1. T \in SUBSET Contexts /\ d \in T /\ \A e \in T : Parent[e] \in T \cup {NoContext}
      BY <2>2, LineageIsClosed
    <3>2. Lineage(d) \in SUBSET T
      <4> HIDE DEF T
      <4> QED BY <3>1, LineageIsClosed
    <3>3. IsFiniteSet(Lineage(Parent[d])) => IsFiniteSet(T)
      BY FS_AddElement
    <3> QED BY <3>2, <3>3, FS_Subset
  <2> QED BY <2>2, <2>3
<1>2. S = {}
  BY <1>1, ChainsEnd
<1> QED BY <1>2, FS_CardinalityType

\* The walk has a place for each of its steps: it starts with the context or its parent and goes from
\* each remembered context to that one's parent.
LEMMA WalkSteps ==
    ASSUME TypeOK, NEW c \in Contexts
    PROVE  /\ Walk(c) \in [1 .. MaxDepth -> Contexts \cup {NoContext}]
           /\ Walk(c)[1] = (IF c \in Remembered THEN c ELSE Parent[c])
           /\ \A n \in 1 .. MaxDepth - 1 :
                 Walk(c)[n + 1] = IF Walk(c)[n] \in Remembered THEN Parent[Walk(c)[n]] ELSE NoContext
<1>0. /\ MaxDepth \in Nat /\ MaxDepth > 0 /\ Remembered \subseteq Contexts
      /\ \A d \in Contexts : Parent[d] \in Contexts \cup {NoContext}
  <2>1. Remembered \subseteq Contexts
    <3>1. ASSUME NEW n \in causes PROVE heard[n].context \in Contexts
      <4>1. n \in 1 .. Len(heard) /\ heard \in Seq([kind : Kinds, context : Contexts])
        BY DEF TypeOK
      <4>2. heard[n] \in [kind : Kinds, context : Contexts]
        BY <4>1, ElementOfSeq
      <4> QED BY <4>2
    <3> QED BY <3>1 DEF Remembered
  <2> QED BY <2>1, ProvenanceAssumption
<1> DEFINE V == Contexts \cup {NoContext}
           first == IF c \in Remembered THEN c ELSE Parent[c]
           G(x) == IF x \in Remembered THEN Parent[x] ELSE NoContext
           Path(f, n) == f \in [1 .. n -> V] /\ f[1] = first /\ \A i \in 1 .. n - 1 : f[i + 1] = G(f[i])
           fails == {n \in 1 .. MaxDepth : \A f \in [1 .. n -> V] : ~Path(f, n)}
<1>1. first \in V /\ \A x \in V : G(x) \in V
  BY <1>0
<1>2. fails = {}
  <2> SUFFICES ASSUME fails # {} PROVE FALSE
    OBVIOUS
  <2>1. PICK m \in fails : \A n \in fails : m <= n
    <3>1. fails \in SUBSET (1 .. MaxDepth)
      OBVIOUS
    <3> HIDE DEF fails
    <3> QED BY <1>0, <3>1, OldestIsLeast
  <2>2. m \in 1 .. MaxDepth /\ \A f \in [1 .. m -> V] : ~Path(f, m)
    OBVIOUS
  <2>3. CASE m = 1
    <3> DEFINE f == [i \in 1 .. 1 |-> first]
    <3>1. f \in [1 .. m -> V] /\ Path(f, m)
      BY <1>1, <2>3
    <3> QED BY <2>2, <3>1
  <2>4. CASE m # 1
    <3>1. m - 1 \in 1 .. MaxDepth /\ m - 1 \notin fails
      <4>1. m - 1 \in 1 .. MaxDepth /\ ~(m <= m - 1)
        BY <1>0, <2>2, <2>4
      <4> HIDE DEF fails
      <4> QED BY <2>1, <4>1
    <3>2. PICK g \in [1 .. m - 1 -> V] : Path(g, m - 1)
      BY <3>1
    <3> DEFINE f == [i \in 1 .. m |-> IF i = m THEN G(g[m - 1]) ELSE g[i]]
    <3>3. f \in [1 .. m -> V]
      BY <1>1, <2>2, <2>4, <3>1, <3>2
    <3>4. f[1] = first
      BY <2>2, <2>4, <3>1, <3>2
    <3>5. ASSUME NEW i \in 1 .. m - 1 PROVE f[i + 1] = G(f[i])
      <4>1. CASE i = m - 1
        BY <2>2, <4>1
      <4>2. CASE i # m - 1
        <5>1. i \in 1 .. (m - 1) - 1 /\ i \in 1 .. m /\ i + 1 \in 1 .. m /\ i # m /\ i + 1 # m
          BY <2>2, <4>2
        <5>2. f[i + 1] = g[i + 1] /\ f[i] = g[i]
          BY <5>1
        <5> QED BY <3>2, <5>1, <5>2
      <4> QED BY <4>1, <4>2
    <3> HIDE DEF f, G
    <3> QED BY <2>2, <3>3, <3>4, <3>5
  <2> QED BY <2>3, <2>4
<1>3. PICK F \in [1 .. MaxDepth -> V] : Path(F, MaxDepth)
  BY <1>0, <1>2
<1> DEFINE Def(H) == [n \in 1 .. MaxDepth |->
                        IF n = 1 THEN (IF c \in Remembered THEN c ELSE Parent[c])
                        ELSE IF H[n - 1] \in Remembered THEN Parent[H[n - 1]] ELSE NoContext]
           W == CHOOSE H : H = Def(H)
<1>4. F = Def(F)
  <2>1. ASSUME NEW n \in 1 .. MaxDepth PROVE F[n] = Def(F)[n]
    <3>1. CASE n = 1
      BY <1>3, <3>1
    <3>2. CASE n # 1
      <4>1. n - 1 \in 1 .. MaxDepth - 1 /\ (n - 1) + 1 = n
        BY <1>0, <3>2
      <4>2. F[n] = G(F[n - 1])
        BY <1>3, <4>1
      <4> QED BY <3>2, <4>2
    <3> QED BY <3>1, <3>2
  <2> QED BY <1>3, <2>1
<1>5. W = Def(W)
  <2> HIDE DEF Def
  <2> QED BY <1>4
<1>6. Walk(c) = W
  BY DEF Walk
<1> HIDE DEF W
<1>7. W[1] = first
  BY <1>0, <1>5
<1>8. ASSUME NEW n \in 1 .. MaxDepth - 1 PROVE W[n + 1] = G(W[n])
  <2>1. n + 1 \in 1 .. MaxDepth /\ n + 1 # 1 /\ (n + 1) - 1 = n
    BY <1>0
  <2> QED BY <1>5, <2>1
<1>9. ASSUME NEW n \in 1 .. MaxDepth PROVE W[n] \in V
  <2>1. CASE n = 1
    BY <1>1, <1>7, <2>1
  <2>2. CASE n # 1
    <3>1. n - 1 \in 1 .. MaxDepth - 1 /\ (n - 1) + 1 = n
      BY <1>0, <2>2
    <3>2. W[n] = G(W[n - 1])
      BY <1>8, <3>1
    <3> QED BY <1>0, <3>2
  <2> QED BY <2>1, <2>2
<1>10. W \in [1 .. MaxDepth -> V]
  BY <1>5, <1>9
<1> QED BY <1>6, <1>7, <1>8, <1>10


\* What the walk finds, when all ancestors are remembered and the walk may be as long as the lineage,
\* is what is remembered of the lineage.
LEMMA WalkFindsLineage ==
    ASSUME TypeOK, NEW c \in Contexts, Lineage(c) \ {c} \subseteq Remembered,
           Cardinality(Lineage(c)) <= MaxDepth
    PROVE  {Walk(c)[n] : n \in Chain(c)} = Lineage(c) \cap Remembered
<1> DEFINE W == Walk(c)
           L == Lineage(c)
           found == {W[n] : n \in Chain(c)}
<1>0. MaxDepth \in Nat /\ MaxDepth > 0 /\ NoContext \notin Contexts
  BY ProvenanceAssumption
<1>1. /\ c \in L /\ L \in SUBSET Contexts /\ \A d \in L : Parent[d] \in L \cup {NoContext}
      /\ IsFiniteSet(L) /\ Cardinality(L) \in Nat
  BY LineageIsClosed, LineageIsFinite
<1>2. /\ W \in [1 .. MaxDepth -> Contexts \cup {NoContext}]
      /\ W[1] = (IF c \in Remembered THEN c ELSE Parent[c])
      /\ \A n \in 1 .. MaxDepth - 1 :
            W[n + 1] = IF W[n] \in Remembered THEN Parent[W[n]] ELSE NoContext
  BY WalkSteps
<1>3. \A n \in Chain(c) : n \in 1 .. MaxDepth /\ W[n] \in Remembered
  BY DEF Chain
<1>4. Remembered \subseteq Contexts
  <2>1. ASSUME NEW n \in causes PROVE heard[n].context \in Contexts
    <3>1. n \in 1 .. Len(heard) /\ heard \in Seq([kind : Kinds, context : Contexts])
      BY DEF TypeOK
    <3>2. heard[n] \in [kind : Kinds, context : Contexts]
      BY <3>1, ElementOfSeq
    <3> QED BY <3>2
  <2> QED BY <2>1 DEF Remembered
<1> HIDE DEF W, L
<1>5. \A n \in 1 .. MaxDepth : W[n] \in L \cup {NoContext}
  <2> DEFINE off == {n \in 1 .. MaxDepth : W[n] \notin L \cup {NoContext}}
  <2> SUFFICES ASSUME off # {} PROVE FALSE
    OBVIOUS
  <2>1. PICK m \in off : \A n \in off : m <= n
    <3>1. off \in SUBSET (1 .. MaxDepth)
      OBVIOUS
    <3> HIDE DEF off
    <3> QED BY <1>0, <3>1, OldestIsLeast
  <2>2. m \in 1 .. MaxDepth /\ W[m] \notin L \cup {NoContext} /\ m # 1
    BY <1>1, <1>2
  <2>3. m - 1 \in 1 .. MaxDepth - 1 /\ m - 1 \in 1 .. MaxDepth /\ (m - 1) + 1 = m /\ ~(m <= m - 1)
    BY <1>0, <2>2
  <2>4. W[m - 1] \in L \cup {NoContext}
    BY <2>1, <2>3
  <2>5. W[m] = IF W[m - 1] \in Remembered THEN Parent[W[m - 1]] ELSE NoContext
    BY <1>2, <2>3
  <2>6. W[m - 1] \in Remembered => W[m - 1] \in L
    BY <1>0, <1>4, <2>4
  <2> QED BY <1>1, <2>2, <2>5, <2>6
<1>6. found \subseteq L \cap Remembered
  BY <1>0, <1>3, <1>4, <1>5
\* At its last step the walk has come to the end of the lineage.
<1>7. W[MaxDepth] \in Remembered => Parent[W[MaxDepth]] = NoContext
  <2> SUFFICES ASSUME W[MaxDepth] \in Remembered, Parent[W[MaxDepth]] # NoContext PROVE FALSE
    OBVIOUS
  <2>0. MaxDepth \in 1 .. MaxDepth
    BY <1>0
  <2>1. \A n \in 1 .. MaxDepth : W[n] \in Remembered
    <3> DEFINE lost == {n \in 1 .. MaxDepth : \A i \in n .. MaxDepth : W[i] \in Remembered}
    <3>1. MaxDepth \in lost
      BY <1>0
    <3>2. lost # {} /\ lost \in SUBSET (1 .. MaxDepth)
      BY <3>1
    <3>3. PICK m \in lost : \A n \in lost : m <= n
      <4> HIDE DEF lost
      <4> QED BY <1>0, <3>2, OldestIsLeast
    <3>4. m = 1
      <4> SUFFICES ASSUME m # 1 PROVE FALSE
        OBVIOUS
      <4>1. m - 1 \in 1 .. MaxDepth - 1 /\ m - 1 \in 1 .. MaxDepth /\ (m - 1) + 1 = m /\ ~(m <= m - 1)
        BY <1>0, <3>3
      <4>2. W[m] = IF W[m - 1] \in Remembered THEN Parent[W[m - 1]] ELSE NoContext
        BY <1>2, <4>1
      <4>3. W[m] \in Remembered
        BY <1>0, <3>3
      <4>4. W[m - 1] \in Remembered
        BY <1>0, <1>4, <4>2, <4>3
      <4>5. \A i \in m - 1 .. MaxDepth : i = m - 1 \/ i \in m .. MaxDepth
        BY <4>1
      <4>6. m - 1 \in lost
        BY <3>3, <4>1, <4>4, <4>5
      <4> QED BY <3>3, <4>1, <4>6
    <3> QED BY <3>3, <3>4
  <2> DEFINE g == [k \in 1 .. MaxDepth + 1 |-> IF k = MaxDepth + 1 THEN Parent[W[MaxDepth]] ELSE W[k]]
  <2>2. \A k \in 1 .. MaxDepth : g[k] = W[k] /\ g[k] \in L /\ g[k + 1] = Parent[g[k]]
    <3> TAKE k \in 1 .. MaxDepth
    <3>1. k \in 1 .. MaxDepth + 1 /\ k # MaxDepth + 1 /\ k + 1 \in 1 .. MaxDepth + 1
      BY <1>0
    <3>2. g[k] = W[k]
      BY <3>1
    <3>3. W[k] \in L
      BY <1>0, <1>4, <1>5, <2>1
    <3>4. CASE k = MaxDepth
      BY <3>1, <3>2, <3>3, <3>4
    <3>5. CASE k # MaxDepth
      <4>1. k \in 1 .. MaxDepth - 1 /\ k + 1 # MaxDepth + 1
        BY <1>0, <3>5
      <4>2. g[k + 1] = W[k + 1]
        BY <3>1, <4>1
      <4> QED BY <1>2, <2>1, <3>2, <3>3, <4>1, <4>2
    <3> QED BY <3>4, <3>5
  <2>3. g \in [1 .. MaxDepth + 1 -> L]
    <3>1. g[MaxDepth + 1] = Parent[W[MaxDepth]] /\ W[MaxDepth] \in L
      BY <1>0, <2>0, <2>2
    <3>2. Parent[W[MaxDepth]] \in L
      BY <1>1, <3>1
    <3>3. \A k \in 1 .. MaxDepth + 1 : k \in 1 .. MaxDepth \/ k = MaxDepth + 1
      BY <1>0
    <3>4. g = [k \in 1 .. MaxDepth + 1 |-> g[k]]
      OBVIOUS
    <3> HIDE DEF g
    <3> QED BY <2>2, <3>1, <3>2, <3>3, <3>4
  <2> HIDE DEF g
  <2>4. PICK x, y \in 1 .. MaxDepth + 1 : x # y /\ g[x] = g[y]
    <3>1. IsFiniteSet(1 .. MaxDepth + 1) /\ Cardinality(1 .. MaxDepth + 1) = MaxDepth + 1
      <4>1. /\ IsFiniteSet(1 .. MaxDepth + 1)
            /\ Cardinality(1 .. MaxDepth + 1) = IF 1 > MaxDepth + 1 THEN 0 ELSE MaxDepth + 1 - 1 + 1
        BY <1>0, FS_Interval
      <4> QED BY <1>0, <4>1
    <3>2. Cardinality(L) < Cardinality(1 .. MaxDepth + 1)
      BY <1>0, <1>1, <3>1 DEF L
    <3>3. IsFiniteSet(L)
      BY <1>1
    <3> DEFINE I == 1 .. MaxDepth + 1
    <3> HIDE DEF I
    <3>4. IsFiniteSet(I) /\ Cardinality(L) < Cardinality(I) /\ g \in [I -> L]
      BY <2>3, <3>1, <3>2 DEF I
    <3>5. \E x, y \in I : x # y /\ g[x] = g[y]
      BY <3>3, <3>4, FS_PigeonHole
    <3> QED BY <3>5 DEF I
  <2>5. ASSUME NEW a \in 1 .. MaxDepth + 1, NEW b \in 1 .. MaxDepth + 1, a < b, g[a] = g[b] PROVE FALSE
    <3> DEFINE S == {g[k] : k \in a .. b - 1}
    <3>1. \A k \in a .. b - 1 : k \in 1 .. MaxDepth /\ k + 1 \in a .. b
      BY <1>0
    <3>2. S \in SUBSET Contexts
      BY <1>1, <2>2, <3>1
    <3>3. ASSUME NEW k \in a .. b - 1 PROVE Parent[g[k]] \in S
      <4>1. Parent[g[k]] = g[k + 1]
        BY <2>2, <3>1
      <4>2. k + 1 \in a .. b - 1 \/ k + 1 = b
        BY <1>0, <3>1
      <4>3. a \in a .. b - 1
        BY <1>0, <2>5
      <4> QED BY <2>5, <4>1, <4>2, <4>3
    <3>4. S = {}
      BY <3>2, <3>3, ChainsEnd
    <3>5. g[a] \in S
      BY <1>0, <2>5
    <3> QED BY <3>4, <3>5
  <2>6. x < y \/ y < x
    BY <1>0, <2>4
  <2> QED BY <2>4, <2>5, <2>6
<1>8. ASSUME NEW d \in found PROVE Parent[d] \in {c} \cup found \cup {NoContext}
  <2>1. PICK n \in Chain(c) : d = W[n]
    OBVIOUS
  <2>2. CASE n = MaxDepth
    BY <1>3, <1>7, <2>1, <2>2
  <2>3. CASE n # MaxDepth
    <3>1. n \in 1 .. MaxDepth - 1 /\ n + 1 \in 1 .. MaxDepth
      BY <1>0, <1>3, <2>3
    <3>2. W[n + 1] = Parent[d]
      BY <1>2, <1>3, <2>1, <3>1
    <3>3. CASE W[n + 1] \in Remembered
      <4>1. n + 1 \in Chain(c)
        BY <3>1, <3>3 DEF Chain, W
      <4> QED BY <3>2, <4>1
    <3>4. CASE W[n + 1] \notin Remembered
      BY <1>5, <3>1, <3>2, <3>4 DEF L
    <3> QED BY <3>3, <3>4
  <2> QED BY <2>2, <2>3
<1>9. c \in Remembered => c \in found
  <2>1. 1 \in 1 .. MaxDepth
    BY <1>0
  <2>2. c \in Remembered => 1 \in Chain(c)
    BY <1>2, <2>1 DEF Chain, W
  <2> QED BY <1>2, <2>2
<1>10. Parent[c] \in found \cup {c, NoContext}
  <2>1. CASE c \in Remembered
    BY <1>8, <1>9, <2>1
  <2>2. CASE c \notin Remembered /\ Parent[c] # NoContext /\ Parent[c] # c
    <3>1. 1 \in 1 .. MaxDepth
      BY <1>0
    <3>2. Parent[c] \in Remembered /\ W[1] = Parent[c]
      BY <1>1, <1>2, <2>2 DEF L
    <3>3. 1 \in Chain(c)
      BY <3>1, <3>2 DEF Chain, W
    <3> QED BY <3>2, <3>3
  <2> QED BY <2>1, <2>2
<1>11. L \subseteq {c} \cup found
  <2> DEFINE S == {c} \cup found
  <2>1. S \in SUBSET Contexts /\ c \in S
    BY <1>1, <1>6
  <2>2. \A e \in S : Parent[e] \in S \cup {NoContext}
    <3> HIDE DEF found
    <3> QED BY <1>8, <1>10
  <2> HIDE DEF S
  <2>3. L \subseteq S
    BY <2>1, <2>2, LineageIsClosed DEF L
  <2> QED BY <2>3 DEF S
<1> HIDE DEF found
<1>12. found = L \cap Remembered
  BY <1>6, <1>9, <1>11
<1> QED BY <1>12 DEF found, W, L

\* The record kept of a context is its last event.
LEMMA KeptIsLatest ==
    ASSUME TypeOK, LastHeard, NEW d \in Remembered
    PROVE  /\ LatestKinds(d) = {KindOf(d)}
           /\ \E n \in 1 .. Len(heard) : heard[n].context = d /\ KindOf(d) = heard[n].kind
<1> DEFINE n == CHOOSE m \in causes : heard[m].context = d
<1>1. n \in causes /\ heard[n].context = d /\ KindOf(d) = heard[n].kind
  BY DEF Remembered, KindOf
<1> HIDE DEF n
<1>2. n \in 1 .. Len(heard) /\ Len(heard) \in Nat
  BY <1>1 DEF TypeOK
<1>3. \A m \in n + 1 .. Len(heard) : heard[m].context # d
  BY <1>1 DEF LastHeard
<1>4. LatestOf(d) = {n}
  <2>1. n \in LatestOf(d)
    BY <1>1, <1>2, <1>3 DEF LatestOf
  <2>2. ASSUME NEW m \in LatestOf(d) PROVE m = n
    <3>1. m \in 1 .. Len(heard) /\ heard[m].context = d
          /\ \A k \in m + 1 .. Len(heard) : heard[k].context # d
      BY DEF LatestOf
    <3>2. ~(m < n)
      <4>1. m < n => n \in m + 1 .. Len(heard)
        BY <1>2, <3>1
      <4> QED BY <1>1, <3>1, <4>1
    <3>3. ~(n < m)
      <4>1. n < m => m \in n + 1 .. Len(heard)
        BY <1>2, <3>1
      <4> QED BY <1>3, <3>1, <4>1
    <3> QED BY <1>2, <3>1, <3>2, <3>3
  <2> QED BY <2>1, <2>2
<1> QED BY <1>1, <1>2, <1>4 DEF LatestKinds

\* What is put down to is chosen among the kinds of the remembered contexts of the lineage.
LEMMA AttributedWithin ==
    ASSUME TypeOK, NEW c \in Contexts, Followed(c, Lineage(c)), NEW kinds,
           kinds = {KindOf(d) : d \in Lineage(c) \cap Remembered}, kinds # {}
    PROVE  PrimaryCause(c) = First(kinds)
<1>1. {Walk(c)[n] : n \in Chain(c)} = Lineage(c) \cap Remembered
  BY WalkFindsLineage DEF Followed
<1>2. {KindOf(Walk(c)[n]) : n \in Chain(c)} = kinds
  <2>1. {KindOf(Walk(c)[n]) : n \in Chain(c)} = {KindOf(d) : d \in {Walk(c)[n] : n \in Chain(c)}}
    OBVIOUS
  <2> QED BY <1>1, <2>1
<1> QED BY <1>2 DEF PrimaryCause, First

\* Whatever the order in which the events of a lineage are heard, a change whose lineage can be
\* followed is put down to the most meaningful of the last causes it has had (provenance.py:257-334).
THEOREM AttributionIsByLatest == Spec => []AttributedByLatest
<1>1. TypeOK /\ LastHeard => AttributedByLatest
  <2> SUFFICES ASSUME TypeOK, LastHeard, NEW c \in Contexts, Followed(c, Lineage(c)),
                      UNION {LatestKinds(d) : d \in Lineage(c)} # {}
               PROVE  PrimaryCause(c) = First(UNION {LatestKinds(d) : d \in Lineage(c)})
    BY DEF AttributedByLatest
  <2>1. \A d \in Lineage(c) \cap Remembered : LatestKinds(d) = {KindOf(d)}
    BY KeptIsLatest
  <2>2. \A d \in Lineage(c) \ Remembered : LatestKinds(d) = {}
    <3>1. \A d \in Lineage(c) \ Remembered : d = c /\ LatestOf(d) = {}
      BY DEF Followed
    <3> QED BY <3>1 DEF LatestKinds
  <2>3. UNION {LatestKinds(d) : d \in Lineage(c)} = {KindOf(d) : d \in Lineage(c) \cap Remembered}
    BY <2>1, <2>2
  <2> QED BY <2>3, AttributedWithin
<1> QED BY <1>1, TypeCorrect, CausesAreLastHeard, PTL

=============================================================================
