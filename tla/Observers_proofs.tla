--------------------------- MODULE Observers_proofs ---------------------------
(***************************************************************************)
(* Proofs about the parts that observe the home: Perception and HabitMining, *)
(* for any number of entities, changes and observations.                     *)
(***************************************************************************)
EXTENDS Perception, HabitMining, FiniteSetTheorems, SequenceTheorems, WellFoundedInduction, TLAPS

-----------------------------------------------------------------------------
(* The perception triggers (Perception).                                       *)

\* What the rate limit rests on: the manager's note of an entity's last session is right and of the
\* past, and no session about the entity is younger than it.
PerceptionInv ==
    /\ clock \in Nat
    /\ value \in [Watchable -> Values]
    /\ opened = lastFired
    /\ \A x \in DOMAIN lastFired : lastFired[x] \in 0..clock
    /\ \A s \in sessions : s[1] \in DOMAIN lastFired /\ s[3] \in 0..lastFired[s[1]]

\* Every step of the manager keeps its notes right.
LEMMA PerceptionStays == PerceptionSpec => []PerceptionInv
<1> USE PerceptionAssumption DEF PerceptionInv
<1>1. PerceptionInit => PerceptionInv
  BY DEF PerceptionInit
<1>2. PerceptionInv /\ [PerceptionNext]_perceptionVars => PerceptionInv'
  <2> SUFFICES ASSUME PerceptionInv, [PerceptionNext]_perceptionVars PROVE PerceptionInv'
    OBVIOUS
  <2>1. ASSUME NEW x \in Watchable, NEW v \in Values, ValueChanges(x, v) PROVE PerceptionInv'
    <3>1. CASE Opens(x, v)
      <4>1. lastFired' = Noted(lastFired, x) /\ opened' = lastFired'
        BY <3>1 DEF Opens
      <4>2. /\ DOMAIN lastFired' = DOMAIN lastFired \cup {x} /\ lastFired'[x] = clock
            /\ \A y \in DOMAIN lastFired : y # x => lastFired'[y] = lastFired[y]
        BY <4>1 DEF Noted
      <4>3. ASSUME NEW s \in sessions'
            PROVE  s[1] \in DOMAIN lastFired' /\ s[3] \in 0..lastFired'[s[1]]
        <5>1. CASE s = <<x, v, clock>>
          BY <4>2, <5>1
        <5>2. CASE s \in sessions
          BY <4>2, <5>2
        <5> QED BY <3>1, <5>1, <5>2 DEF Opens
      <4> QED BY <2>1, <4>1, <4>2, <4>3 DEF ValueChanges
    <3>2. CASE Dropped(x, v)
      BY <2>1, <3>2 DEF Dropped, ValueChanges
    <3> QED BY <2>1, <3>1, <3>2 DEF ValueChanges
  <2>2. ASSUME NEW x \in Watchable, ExposureChanges(x) PROVE PerceptionInv'
    BY <2>2 DEF ExposureChanges
  <2>3. ASSUME NEW s \in sessions, SessionEnds(s) PROVE PerceptionInv'
    BY <2>3 DEF SessionEnds
  <2>4. CASE PerceptionStops \/ EntryUnloaded
    BY <2>4 DEF PerceptionStops, EntryUnloaded
  <2>5. CASE TimePasses
    BY <2>5 DEF TimePasses
  <2>6. CASE UNCHANGED perceptionVars
    BY <2>6 DEF perceptionVars
  <2> QED BY <2>1, <2>2, <2>3, <2>4, <2>5, <2>6 DEF PerceptionNext
<1> QED BY <1>1, <1>2, PTL DEF PerceptionSpec

\* A session is opened only by a change that is due, to an observation, of a watched and exposed
\* entity, and by every such change between two observations.
THEOREM OneSessionEachInterval == PerceptionSpec => OneSessionPerInterval
<1> DEFINE Due(x) == x \notin DOMAIN opened \/ clock >= opened[x] + MinInterval
           Opened(x) == \E s \in sessions' \ sessions : s[1] = x
           Changed(x) == value'[x] # value[x]
           Heard(x) ==
             /\ Opened(x) => Changed(x) /\ value'[x] \notin Ignored /\ Due(x) /\ x \in watched \cap exposedNow
             /\ Changed(x) /\ ~NotOwed(x) /\ Due(x) /\ x \in watched \cap exposedNow => Opened(x)
<1>1. PerceptionInv /\ [PerceptionNext]_perceptionVars => [\A x \in Watchable : Heard(x)]_perceptionVars
  <2> SUFFICES ASSUME PerceptionInv, PerceptionNext, NEW x \in Watchable PROVE Heard(x)
    OBVIOUS
  <2> USE PerceptionAssumption DEF PerceptionInv
  <2>1. CASE ~\E y \in Watchable, v \in Values : ValueChanges(y, v)
    <3>1. sessions' \subseteq sessions /\ ~Changed(x)
      BY <2>1 DEF PerceptionNext, ExposureChanges, SessionEnds, PerceptionStops, EntryUnloaded,
                  TimePasses
    <3> QED BY <3>1
  <2>2. ASSUME NEW y \in Watchable, NEW v \in Values, ValueChanges(y, v) PROVE Heard(x)
    <3>1. v = value'[y] /\ v # value[y] /\ (x # y => ~Changed(x))
      BY <2>2 DEF ValueChanges
    <3>2. Due(y) <=> ~TooSoon(y)
      BY DEF TooSoon
    <3>3. CASE Observed(y, v) /\ ~TooSoon(y)
      <4>1. sessions' = sessions \cup {<<y, v, clock>>}
        BY <2>2, <3>3 DEF ValueChanges, Opens
      <4>2. <<y, v, clock>> \notin sessions
        BY <3>3 DEF TooSoon
      <4>3. Opened(x) <=> x = y
        BY <4>1, <4>2
      <4> QED BY <3>1, <3>2, <3>3, <4>3 DEF Observed
    <3>4. CASE ~(Observed(y, v) /\ ~TooSoon(y))
      <4>1. sessions' = sessions
        BY <2>2, <3>4 DEF ValueChanges, Dropped
      <4>2. ~Opened(x)
        BY <4>1
      <4>3. CASE x = y
        BY <3>1, <3>2, <3>4, <4>2, <4>3 DEF Observed, NotOwed
      <4> QED BY <3>1, <4>2, <4>3
    <3> QED BY <3>3, <3>4
  <2> QED BY <2>1, <2>2
<1> QED BY <1>1, PerceptionStays, PTL DEF PerceptionSpec, OneSessionPerInterval

-----------------------------------------------------------------------------
(* Least numbers and induction.                                                *)

\* A set of numbers that is not empty has a least one.
LEMMA HasLeast ==
    ASSUME NEW S \in SUBSET Nat, S # {}
    PROVE  \E m \in S : \A n \in S : m <= n
<1>1. PICK k \in S : TRUE
  OBVIOUS
<1> DEFINE runs == {0 .. n : n \in S \cap (0 .. k)}
           R == StrictSubsetOrdering(0 .. k)
           F == FiniteSubsetsOf(0 .. k)
<1>2. IsWellFoundedOn(R, F)
  BY FS_StrictSubsetOrderingWellFounded
<1>3. runs \subseteq F
  <2>1. ASSUME NEW n \in S \cap (0 .. k) PROVE 0 .. n \in F
    <3>1. IsFiniteSet(0 .. n)
      BY FS_Interval
    <3> QED BY <3>1 DEF FiniteSubsetsOf
  <2> QED BY <2>1
<1>4. PICK x \in runs : \A y \in runs : ~ (<<y, x>> \in R)
  <2>1. runs # {}
    OBVIOUS
  <2> HIDE DEF runs, R, F
  <2> QED BY <1>2, <1>3, <2>1, WFMin
<1>5. PICK m \in S \cap (0 .. k) : x = 0 .. m
  OBVIOUS
<1>6. ASSUME NEW n \in S, n < m PROVE FALSE
  <2>1. 0 .. n \in SUBSET (0 .. k) /\ 0 .. m \in SUBSET (0 .. k) /\ 0 .. n \in runs
    BY <1>6
  <2>2. 0 .. n \subseteq 0 .. m /\ m \in 0 .. m /\ m \notin 0 .. n
    BY <1>6
  <2>3. <<0 .. n, 0 .. m>> \in R
    BY <2>1, <2>2, Zenon DEF StrictSubsetOrdering
  <2> QED BY <1>4, <1>5, <2>1, <2>3
<1> QED BY <1>5, <1>6

\* Induction, over the set of the numbers something holds of.
LEMMA SetInduction ==
    ASSUME NEW T \in SUBSET Nat, 0 \in T, \A n \in T : n + 1 \in T
    PROVE  T = Nat
<1> SUFFICES ASSUME Nat \ T # {} PROVE FALSE
  OBVIOUS
<1>1. PICK m \in Nat \ T : \A n \in Nat \ T : m <= n
  BY HasLeast
<1>2. m - 1 \in Nat /\ m - 1 \in T
  BY <1>1
<1> QED BY <1>1, <1>2

-----------------------------------------------------------------------------
(* The store of observations (HabitMining).                                    *)

\* Pruning drops records from the left, up to one that is young enough, if there is any.
LEMMA PrunedShape ==
    ASSUME NEW s \in Seq(Observations), NEW w \in Nat
    PROVE  \E k \in 0 .. Len(s) :
              /\ Pruned(s, w) \in Seq(Observations) /\ Len(Pruned(s, w)) = Len(s) - k
              /\ \A i \in 1 .. Len(s) - k : Pruned(s, w)[i] = s[i + k]
              /\ k < Len(s) => ~Expired(s[k + 1], w)
<1> DEFINE keeps == {i \in DOMAIN s : ~Expired(s[i], w)}
           least == CHOOSE i \in keeps : \A j \in keeps : i <= j
<1>0. Len(s) \in Nat /\ DOMAIN s = 1 .. Len(s)
  OBVIOUS
<1>1. CASE keeps = {}
  <2>1. Pruned(s, w) = <<>>
    BY <1>1 DEF Pruned
  <2>2. /\ Len(s) \in 0 .. Len(s) /\ Len(s) - Len(s) = 0
        /\ \A i \in 1 .. 0 : FALSE
    BY <1>0
  <2>3. <<>> \in Seq(Observations) /\ Len(<<>>) = 0
    OBVIOUS
  <2> QED BY <2>1, <2>2, <2>3
<1>2. CASE keeps # {}
  <2>1. keeps \in SUBSET Nat
    BY <1>0
  <2>2. \E m \in keeps : \A j \in keeps : m <= j
    <3> HIDE DEF keeps
    <3> QED BY <1>2, <2>1, HasLeast
  <2>3. least \in keeps
    BY <2>2
  <2>4. Pruned(s, w) = SubSeq(s, least, Len(s))
    BY <1>2 DEF Pruned
  <2>5. least \in 1 .. Len(s) /\ ~Expired(s[least], w)
    BY <1>0, <2>3
  <2> HIDE DEF least, keeps
  <2>6. /\ Pruned(s, w) \in Seq(Observations) /\ Len(Pruned(s, w)) = Len(s) - (least - 1)
        /\ \A i \in 1 .. Len(s) - (least - 1) : Pruned(s, w)[i] = s[i + (least - 1)]
    BY <1>0, <2>4, <2>5, SubSeqProperties
  <2>7. least - 1 \in 0 .. Len(s) /\ (least - 1) + 1 = least
    BY <1>0, <2>5
  <2> QED BY <2>5, <2>6, <2>7
<1> QED BY <1>1, <1>2

\* Recording drops one record from the left at most, and leaves no more than the bound.
LEMMA AppendedShape ==
    ASSUME NEW s \in Seq(Observations), Len(s) <= MaxObservations, NEW o \in Observations
    PROVE  \E k \in 0 .. Len(s) :
              /\ Appended(s, o) \in Seq(Observations)
              /\ Len(Appended(s, o)) = Len(s) - k + 1 /\ Len(s) - k + 1 <= MaxObservations
              /\ \A i \in 1 .. Len(s) - k : Appended(s, o)[i] = s[i + k]
              /\ Appended(s, o)[Len(s) - k + 1] = o
<1>0. Len(s) \in Nat /\ MaxObservations \in Nat /\ MaxObservations > 0
  BY HabitAssumption
<1>1. CASE Len(s) = MaxObservations
  <2>1. Appended(s, o) = Append(Tail(s), o) /\ s # <<>>
    BY <1>0, <1>1 DEF Appended
  <2>2. /\ Tail(s) \in Seq(Observations) /\ Len(Tail(s)) = Len(s) - 1
        /\ \A i \in 1 .. Len(s) - 1 : Tail(s)[i] = s[i + 1]
    BY <1>0, <2>1, HeadTailProperties
  <2>3. /\ Append(Tail(s), o) \in Seq(Observations) /\ Len(Append(Tail(s), o)) = Len(s)
        /\ \A i \in 1 .. Len(s) - 1 : Append(Tail(s), o)[i] = s[i + 1]
        /\ Append(Tail(s), o)[Len(s)] = o
    BY <1>0, <2>2, AppendProperties
  <2>4. 1 \in 0 .. Len(s) /\ Len(s) - 1 + 1 = Len(s)
    BY <1>0, <1>1
  <2> QED BY <1>1, <2>1, <2>3, <2>4
<1>2. CASE Len(s) # MaxObservations
  <2>1. Appended(s, o) = Append(s, o)
    BY <1>2 DEF Appended
  <2>4. Len(s) < MaxObservations /\ Len(s) + 1 <= MaxObservations
    BY <1>0, <1>2
  <2>2. /\ Append(s, o) \in Seq(Observations) /\ Len(Append(s, o)) = Len(s) + 1
        /\ \A i \in 1 .. Len(s) : Append(s, o)[i] = s[i] /\ s[i] = s[i + 0]
        /\ Append(s, o)[Len(s) + 1] = o
    BY <1>0, AppendProperties
  <2>3. 0 \in 0 .. Len(s) /\ Len(s) - 0 = Len(s)
    BY <1>0
  <2> QED BY <1>0, <2>1, <2>2, <2>3, <2>4
<1> QED BY <1>1, <1>2

\* An observation is dated by a number.
LEMMA Dated ==
    ASSUME NEW s \in Seq(Observations), NEW i \in DOMAIN s
    PROVE  s[i].when \in Nat
<1>1. s[i] \in Observations
  OBVIOUS
<1> QED BY <1>1, HabitAssumption DEF Observations

\* What is kept is the newest part of what was recorded, dated by a clock that was set back by
\* no more than Skew.
StoreInv ==
    /\ moment \in 0..MaxMoment
    /\ recorded \in Seq(Observations) /\ Len(recorded) <= MaxRecorded
    /\ store \in Seq(Observations) /\ Len(store) <= MaxObservations
    /\ Len(store) <= Len(recorded)
    /\ \A i \in DOMAIN store : store[i] = recorded[i + Len(recorded) - Len(store)]
    /\ \A i \in DOMAIN recorded : recorded[i].when <= moment
    /\ \A i, j \in DOMAIN recorded : i < j => recorded[i].when <= recorded[j].when + Skew

\* The newest part of the newest part.
LEMMA SuffixOfSuffix ==
    ASSUME NEW r \in Seq(Observations), NEW s \in Seq(Observations), Len(s) <= Len(r),
           \A i \in DOMAIN s : s[i] = r[i + Len(r) - Len(s)],
           NEW t \in Seq(Observations), NEW k \in 0 .. Len(s), Len(t) = Len(s) - k,
           \A i \in 1 .. Len(s) - k : t[i] = s[i + k]
    PROVE  Len(t) <= Len(r) /\ \A i \in DOMAIN t : t[i] = r[i + Len(r) - Len(t)]
<1>0. Len(r) \in Nat /\ Len(s) \in Nat /\ Len(t) \in Nat
  OBVIOUS
<1>1. DOMAIN s = 1 .. Len(s) /\ DOMAIN t = 1 .. Len(t)
  OBVIOUS
<1>2. ASSUME NEW i \in 1 .. Len(t) PROVE t[i] = r[i + Len(r) - Len(t)]
  <2>1. i + k \in DOMAIN s /\ (i + k) + Len(r) - Len(s) = i + Len(r) - Len(t)
    BY <1>0, <1>1
  <2>2. t[i] = s[i + k]
    BY <1>0
  <2>3. s[i + k] = r[(i + k) + Len(r) - Len(s)]
    BY <2>1
  <2> QED BY <2>1, <2>2, <2>3
<1>3. Len(t) <= Len(r)
  BY <1>0
<1> QED BY <1>1, <1>2, <1>3

\* The miner's store stays a part of what was recorded.
LEMMA StoreStays == HabitSpec => []StoreInv
<1> USE HabitAssumption
<1>1. HabitInit => StoreInv
  <2>1. HabitInit => /\ moment \in 0..MaxMoment
                     /\ recorded \in Seq(Observations) /\ Len(recorded) = 0 /\ DOMAIN recorded = {}
                     /\ store \in Seq(Observations) /\ Len(store) = 0 /\ DOMAIN store = {}
    BY DEF HabitInit
  <2> QED BY <2>1 DEF StoreInv
<1>2. StoreInv /\ [HabitNext]_habitVars => StoreInv'
  <2> SUFFICES ASSUME StoreInv, [HabitNext]_habitVars PROVE StoreInv'
    OBVIOUS
  <2>a. store \in Seq(Observations) /\ recorded \in Seq(Observations)
    BY DEF StoreInv
  <2>0. /\ moment \in Nat /\ Len(recorded) \in Nat /\ Len(store) \in Nat
        /\ DOMAIN recorded = 1 .. Len(recorded) /\ DOMAIN store = 1 .. Len(store)
        /\ MaxMoment \in Nat /\ MaxRecorded \in Nat /\ MaxObservations \in Nat
        /\ Skew \in Nat /\ Retention \in Nat
    BY DEF StoreInv
  <2>1. ASSUME NEW h \in Habits, NEW w \in 0..MaxMoment, StateObserved(h, w) PROVE StoreInv'
    <3> DEFINE o == [what |-> h, when |-> w]
               a == Appended(store, o)
    <3>1. /\ store' = Pruned(a, w) /\ recorded' = Append(recorded, o) /\ moment' = moment
          /\ Len(recorded) < MaxRecorded /\ w <= moment /\ moment <= w + Skew
      BY <2>1 DEF StateObserved
    <3>2. o \in Observations /\ o.when = w
      BY DEF Observations
    <3>3. PICK k \in 0 .. Len(store) :
             /\ a \in Seq(Observations)
             /\ Len(a) = Len(store) - k + 1 /\ Len(store) - k + 1 <= MaxObservations
             /\ \A i \in 1 .. Len(store) - k : a[i] = store[i + k]
             /\ a[Len(store) - k + 1] = o
      BY <3>2, AppendedShape DEF StoreInv
    <3> HIDE DEF a, o
    <3>4. /\ recorded' \in Seq(Observations) /\ Len(recorded') = Len(recorded) + 1
          /\ \A i \in 1 .. Len(recorded) : recorded'[i] = recorded[i]
          /\ recorded'[Len(recorded) + 1] = o
      BY <3>1, <3>2, AppendProperties DEF StoreInv
    <3>5. /\ Len(a) <= Len(recorded')
          /\ \A i \in DOMAIN a : a[i] = recorded'[i + Len(recorded') - Len(a)]
      <4>1. ASSUME NEW i \in 1 .. Len(store) - k
            PROVE  a[i] = recorded'[i + Len(recorded') - Len(a)]
        <5>1. /\ i + k \in 1 .. Len(store)
              /\ i + Len(recorded') - Len(a) = (i + k) + Len(recorded) - Len(store)
              /\ (i + k) + Len(recorded) - Len(store) \in 1 .. Len(recorded)
          BY <2>0, <3>3, <3>4 DEF StoreInv
        <5> QED BY <2>0, <3>3, <3>4, <5>1 DEF StoreInv
      <4>2. Len(a) + Len(recorded') - Len(a) = Len(recorded) + 1
        BY <2>0, <3>3, <3>4
      <4>3. Len(a) <= Len(recorded')
        BY <2>0, <3>3, <3>4 DEF StoreInv
      <4>4. \A i \in DOMAIN a : i \in 1 .. Len(store) - k \/ i = Len(a)
        BY <2>0, <3>3
      <4> QED BY <3>3, <3>4, <4>1, <4>2, <4>3, <4>4
    <3>6. PICK m \in 0 .. Len(a) :
             /\ store' \in Seq(Observations) /\ Len(store') = Len(a) - m
             /\ \A i \in 1 .. Len(a) - m : store'[i] = a[i + m]
      <4>1. w \in Nat
        BY <2>0
      <4>2. \E m \in 0 .. Len(a) :
               /\ Pruned(a, w) \in Seq(Observations) /\ Len(Pruned(a, w)) = Len(a) - m
               /\ \A i \in 1 .. Len(a) - m : Pruned(a, w)[i] = a[i + m]
        BY <3>3, <4>1, PrunedShape
      <4> QED BY <3>1, <4>2
    <3>7. /\ Len(store') <= Len(recorded') /\ Len(store') <= MaxObservations
          /\ \A i \in DOMAIN store' : store'[i] = recorded'[i + Len(recorded') - Len(store')]
      <4>1. Len(store') <= MaxObservations
        <5>1. Len(a) \in Nat /\ Len(a) <= MaxObservations
          BY <3>3
        <5> QED BY <2>0, <3>6, <5>1
      <4> QED BY <3>3, <3>4, <3>5, <3>6, <4>1, SuffixOfSuffix
    <3>8. DOMAIN recorded' = 1 .. Len(recorded) + 1
      BY <3>4
    <3>9. \A i \in DOMAIN recorded' : recorded'[i].when <= moment'
      BY <2>0, <3>1, <3>2, <3>4, <3>8 DEF StoreInv
    <3>10. ASSUME NEW i \in DOMAIN recorded', NEW j \in DOMAIN recorded', i < j
           PROVE  recorded'[i].when <= recorded'[j].when + Skew
      <4>1. i \in 1 .. Len(recorded) /\ recorded'[i] = recorded[i] /\ recorded[i].when <= moment
        BY <2>0, <3>4, <3>8, <3>10 DEF StoreInv
      <4>2. CASE j \in 1 .. Len(recorded)
        BY <2>0, <3>4, <3>10, <4>1, <4>2 DEF StoreInv
      <4>3. CASE j = Len(recorded) + 1
        <5>1. recorded[i].when \in Nat
          BY <2>0, <2>a, <4>1, Dated
        <5> QED BY <2>0, <3>1, <3>2, <3>4, <4>1, <4>3, <5>1
      <4> QED BY <2>0, <3>8, <4>2, <4>3
    <3>11. Len(recorded') <= MaxRecorded
      BY <2>0, <3>1, <3>4
    <3> QED BY <3>1, <3>4, <3>6, <3>7, <3>9, <3>10, <3>11 DEF StoreInv
  <2>2. CASE AnalyseHabits
    <3>1. store' = Pruned(store, moment) /\ UNCHANGED <<moment, recorded>>
      BY <2>2 DEF AnalyseHabits
    <3>2. PICK m \in 0 .. Len(store) :
             /\ store' \in Seq(Observations) /\ Len(store') = Len(store) - m
             /\ \A i \in 1 .. Len(store) - m : store'[i] = store[i + m]
      <4>1. \E m \in 0 .. Len(store) :
               /\ Pruned(store, moment) \in Seq(Observations)
               /\ Len(Pruned(store, moment)) = Len(store) - m
               /\ \A i \in 1 .. Len(store) - m : Pruned(store, moment)[i] = store[i + m]
        BY <2>0, <2>a, PrunedShape
      <4> QED BY <3>1, <4>1
    <3>3. /\ Len(store') <= Len(recorded)
          /\ \A i \in DOMAIN store' : store'[i] = recorded[i + Len(recorded) - Len(store')]
      BY <3>2, SuffixOfSuffix DEF StoreInv
    <3>4. Len(store') <= MaxObservations
      BY <2>0, <3>2 DEF StoreInv
    <3> QED BY <3>1, <3>2, <3>3, <3>4 DEF StoreInv
  <2>3. CASE MinerReplaced
    <3>1. /\ recorded' \in Seq(Observations) /\ Len(recorded') = 0 /\ DOMAIN recorded' = {}
          /\ store' \in Seq(Observations) /\ Len(store') = 0 /\ DOMAIN store' = {}
          /\ moment' = moment
      BY <2>3 DEF MinerReplaced
    <3> QED BY <2>0, <3>1 DEF StoreInv
  <2>4. CASE MomentPasses
    <3>1. /\ moment' = moment + 1 /\ moment < MaxMoment /\ UNCHANGED <<store, recorded>>
      BY <2>4 DEF MomentPasses
    <3>2. \A i \in DOMAIN recorded : recorded[i].when \in Nat
      BY <2>a, Dated
    <3> QED BY <2>0, <3>1, <3>2 DEF StoreInv
  <2>5. CASE UNCHANGED <<moment, store, recorded>>
    BY <2>5 DEF StoreInv
  <2> QED BY <2>1, <2>2, <2>3, <2>4, <2>5 DEF HabitNext, HabitExposureChanges, habitVars
<1> QED BY <1>1, <1>2, PTL DEF HabitSpec

\* Whatever the clock did, no record older than the window by more than the clock was set back
\* outlives a pruning.
THEOREM PruningKeepsTheWindow == HabitSpec => PrunedToTheWindow
<1> DEFINE Young == \A i \in DOMAIN store' : store'[i].when + Retention + 2 * Skew >= moment
<1>1. StoreInv /\ StoreInv' /\ [HabitNext]_habitVars
         => [store' # store \/ mined' # mined => Young]_habitVars
  <2> SUFFICES ASSUME StoreInv, StoreInv', HabitNext, store' # store \/ mined' # mined
               PROVE  Young
    OBVIOUS
  <2> USE HabitAssumption
  <2>0. /\ moment \in Nat /\ Skew \in Nat /\ Retention \in Nat
        /\ Len(recorded') \in Nat /\ Len(store') \in Nat /\ Len(store') <= Len(recorded')
        /\ DOMAIN recorded' = 1 .. Len(recorded') /\ DOMAIN store' = 1 .. Len(store')
    BY DEF StoreInv
  <2>a. \A i \in DOMAIN recorded' : recorded'[i].when \in Nat
    BY Dated DEF StoreInv
  <2>1. ASSUME NEW s \in Seq(Observations), NEW w \in Nat, moment <= w + Skew, store' = Pruned(s, w)
        PROVE  Young
    <3>1. PICK k \in 0 .. Len(s) :
             /\ Len(store') = Len(s) - k
             /\ \A i \in 1 .. Len(s) - k : store'[i] = s[i + k]
             /\ k < Len(s) => ~Expired(s[k + 1], w)
      BY <2>1, PrunedShape
    <3>4. Len(s) \in Nat
      OBVIOUS
    <3>2. ASSUME NEW i \in DOMAIN store'
          PROVE  store'[i].when + Retention + 2 * Skew >= moment
      <4>1. 1 \in 1 .. Len(store') /\ k < Len(s) /\ store'[1] = s[k + 1]
        BY <2>0, <3>1, <3>2, <3>4
      <4>2. store'[1].when + Retention >= w
        <5>1. store'[1].when \in Nat
          BY <2>0, <4>1, Dated DEF StoreInv
        <5>2. ~(store'[1].when + Retention < w)
          BY <3>1, <4>1 DEF Expired
        <5> QED BY <2>0, <5>1, <5>2
      <4> DEFINE c == Len(recorded') - Len(store')
      <4>3. /\ 1 + c \in 1 .. Len(recorded') /\ i + c \in 1 .. Len(recorded')
            /\ 1 + Len(recorded') - Len(store') = 1 + c /\ i + Len(recorded') - Len(store') = i + c
        BY <2>0, <3>2, <4>1
      <4>4. store'[1] = recorded'[1 + c] /\ store'[i] = recorded'[i + c]
        BY <2>0, <3>2, <4>1, <4>3 DEF StoreInv
      <4>5. recorded'[1 + c].when <= recorded'[i + c].when + Skew
        <5>1. i = 1 \/ 1 + c < i + c
          BY <2>0, <3>2, <4>3
        <5>2. CASE i = 1
          <6>1. recorded'[i + c].when \in Nat
            BY <2>0, <2>a, <4>3
          <6> QED BY <2>0, <5>2, <6>1
        <5>3. CASE 1 + c < i + c
          BY <2>0, <4>3, <5>3 DEF StoreInv
        <5> QED BY <5>1, <5>2, <5>3
      <4>6. recorded'[1 + c].when \in Nat /\ recorded'[i + c].when \in Nat
        BY <2>0, <2>a, <4>3
      <4>7. ASSUME NEW x \in Nat, NEW y \in Nat, x + Retention >= w, x <= y + Skew
            PROVE  y + Retention + 2 * Skew >= moment
        BY <2>0, <2>1, <4>7
      <4> QED BY <4>2, <4>4, <4>5, <4>6, <4>7
    <3> QED BY <3>2
  <2>2. ASSUME NEW h \in Habits, NEW w \in 0..MaxMoment, StateObserved(h, w) PROVE Young
    <3>1. [what |-> h, when |-> w] \in Observations
      BY DEF Observations
    <3>2. Appended(store, [what |-> h, when |-> w]) \in Seq(Observations)
      BY <3>1, AppendedShape DEF StoreInv
    <3> QED BY <2>1, <2>2, <3>2 DEF StateObserved
  <2>3. CASE AnalyseHabits
    <3>1. moment <= moment + Skew /\ store \in Seq(Observations)
      BY <2>0 DEF StoreInv
    <3> QED BY <2>0, <2>1, <2>3, <3>1 DEF AnalyseHabits
  <2>4. CASE MinerReplaced
    BY <2>4 DEF MinerReplaced
  <2> QED BY <2>2, <2>3, <2>4 DEF HabitNext, HabitExposureChanges, MomentPasses
<1> QED BY <1>1, StoreStays, PTL DEF HabitSpec, PrunedToTheWindow

-----------------------------------------------------------------------------
(* The analysis (HabitMining).                                                 *)

\* The sum of some records' minutes, with what it is summed up by: a table of the sums over
\* the subsets, each one record larger than the next.
LEMMA SumTable ==
    ASSUME NEW s \in Seq(Observations), NEW g \in SUBSET DOMAIN s
    PROVE  \E H \in [SUBSET g -> Nat] :
              /\ MinutesOf(s, g) = H[g] /\ H[{}] = 0
              /\ \A x \in SUBSET g : x # {} => \E e \in x : H[x] = H[x \ {e}] + Minute(s[e].when)
<1> DEFINE last(x) == CHOOSE e \in x : TRUE
           min(x) == Minute(s[last(x)].when)
           Grows(F, x) == F[x] = IF x = {} THEN 0 ELSE F[x \ {last(x)}] + min(x)
<1>1. IsFiniteSet(g) /\ Cardinality(g) \in Nat
  <2>1. DOMAIN s = 1 .. Len(s) /\ IsFiniteSet(1 .. Len(s))
    BY FS_Interval
  <2> QED BY <2>1, FS_Subset, FS_CardinalityType
<1>2. \A x \in SUBSET g : IsFiniteSet(x) /\ Cardinality(x) \in Nat /\ Cardinality(x) <= Cardinality(g)
  BY <1>1, FS_Subset, FS_CardinalityType
<1>a. \A x \in SUBSET g, n \in Nat : Cardinality(x) <= n => n # 0 \/ x = {}
  <2> SUFFICES ASSUME NEW x \in SUBSET g, Cardinality(x) <= 0 PROVE x = {}
    OBVIOUS
  <2>1. Cardinality(x) = 0
    BY <1>2
  <2> QED BY <1>2, <2>1, FS_EmptySet
<1>b. Cardinality({}) = 0
  BY FS_EmptySet
<1>c. ASSUME NEW x \in SUBSET g, x # {}
      PROVE  /\ last(x) \in x /\ x \ {last(x)} \in SUBSET g /\ min(x) \in Nat
             /\ \A n \in Nat : Cardinality(x) <= n + 1 => Cardinality(x \ {last(x)}) <= n
             /\ \A n \in Nat : Cardinality(x) = n + 1 => Cardinality(x \ {last(x)}) = n
  <2>1. last(x) \in x
    BY <1>c
  <2> HIDE DEF last
  <2>2. Cardinality(x \ {last(x)}) = Cardinality(x) - 1
    BY <1>2, <2>1, FS_RemoveElement
  <2>3. s[last(x)].when \in Nat
    BY <2>1, Dated
  <2>4. min(x) \in Nat
    BY <2>3, HabitAssumption DEF Minute
  <2>5. ASSUME NEW k \in Nat, NEW n \in Nat
        PROVE  (k <= n + 1 => k - 1 <= n) /\ (k = n + 1 => k - 1 = n)
    OBVIOUS
  <2>6. Cardinality(x) \in Nat
    BY <1>2
  <2> QED BY <2>1, <2>2, <2>4, <2>5, <2>6
<1> HIDE DEF last, min
<1> DEFINE T == {n \in Nat : \E F \in [SUBSET g -> Nat] :
                                \A x \in SUBSET g : Cardinality(x) <= n => Grows(F, x)}
<1>3. 0 \in T
  <2>1. [x \in SUBSET g |-> 0] \in [SUBSET g -> Nat]
    OBVIOUS
  <2>2. \A x \in SUBSET g : Cardinality(x) <= 0 => Grows([y \in SUBSET g |-> 0], x)
    <3>1. \A x \in SUBSET g : Cardinality(x) <= 0 => x = {}
      BY <1>a
    <3> QED BY <3>1
  <2> HIDE DEF Grows
  <2> QED BY <2>1, <2>2
<1>4. ASSUME NEW n \in T PROVE n + 1 \in T
  <2>1. PICK F \in [SUBSET g -> Nat] : \A x \in SUBSET g : Cardinality(x) <= n => Grows(F, x)
    OBVIOUS
  <2>2. n \in Nat
    OBVIOUS
  <2> DEFINE G == [x \in SUBSET g |-> IF Cardinality(x) <= n THEN F[x]
                                      ELSE F[x \ {last(x)}] + min(x)]
  <2>0. Cardinality({}) <= n
    BY <1>b, <2>2
  <2>3. G \in [SUBSET g -> Nat]
    <3>1. ASSUME NEW x \in SUBSET g, ~(Cardinality(x) <= n) PROVE F[x \ {last(x)}] + min(x) \in Nat
      <4>1. x # {}
        BY <2>0, <3>1
      <4>2. x \ {last(x)} \in SUBSET g /\ min(x) \in Nat
        BY <1>c, <4>1
      <4> QED BY <4>2
    <3> QED BY <3>1
  <2>4. ASSUME NEW x \in SUBSET g, Cardinality(x) <= n + 1 PROVE Grows(G, x)
    <3>1. CASE x = {}
      BY <2>0, <2>1, <3>1
    <3>2. CASE x # {}
      <4>1. x \ {last(x)} \in SUBSET g /\ Cardinality(x \ {last(x)}) <= n
        BY <1>c, <2>2, <2>4, <3>2
      <4>2. G[x \ {last(x)}] = F[x \ {last(x)}]
        BY <4>1
      <4>3. G[x] = F[x \ {last(x)}] + min(x)
        BY <2>1, <3>2
      <4> QED BY <3>2, <4>2, <4>3
    <3> QED BY <3>1, <3>2
  <2> HIDE DEF G, Grows
  <2> QED BY <2>2, <2>3, <2>4
<1>5. Cardinality(g) \in T
  <2> HIDE DEF T
  <2>1. T = Nat
    <3>1. T \in SUBSET Nat
      BY DEF T
    <3> QED BY <1>3, <1>4, <3>1, SetInduction
  <2> QED BY <1>1, <2>1
<1>6. PICK F \in [SUBSET g -> Nat] : \A x \in SUBSET g : Grows(F, x)
  BY <1>2, <1>5
<1> DEFINE Def(H) == [x \in SUBSET g |-> IF x = {} THEN 0 ELSE H[x \ {last(x)}] + min(x)]
           H0 == CHOOSE H : H = Def(H)
<1>7. F = Def(F)
  BY <1>6
<1>8. H0 = Def(H0)
  <2> HIDE DEF Def
  <2> QED BY <1>7
<1>9. MinutesOf(s, g) = H0[g]
  BY DEF MinutesOf, FoldSet, MapThenFoldSet, last, min
<1> HIDE DEF H0
<1>10. \A x \in SUBSET g : Grows(H0, x)
  BY <1>8
<1> DEFINE U == {n \in Nat : \A x \in SUBSET g : Cardinality(x) = n => H0[x] \in Nat}
<1>11. U = Nat
  <2>1. 0 \in U
    <3>1. ASSUME NEW x \in SUBSET g, Cardinality(x) = 0 PROVE H0[x] \in Nat
      <4>1. x = {}
        BY <1>2, <1>a, <3>1
      <4>2. Grows(H0, x)
        BY <1>10
      <4> QED BY <4>1, <4>2
    <3> QED BY <3>1
  <2>2. ASSUME NEW n \in U PROVE n + 1 \in U
    <3>1. ASSUME NEW x \in SUBSET g, Cardinality(x) = n + 1 PROVE H0[x] \in Nat
      <4>0. n \in Nat
        OBVIOUS
      <4>3. x # {}
        <5>1. n + 1 # 0
          BY <4>0
        <5> QED BY <1>b, <3>1, <5>1
      <4>1. x \ {last(x)} \in SUBSET g /\ Cardinality(x \ {last(x)}) = n /\ min(x) \in Nat
        BY <1>c, <3>1, <4>0, <4>3
      <4>2. H0[x \ {last(x)}] \in Nat
        BY <4>1
      <4> QED BY <1>10, <4>1, <4>2, <4>3
    <3> QED BY <3>1
  <2>3. U \in SUBSET Nat
    OBVIOUS
  <2> HIDE DEF U
  <2> QED BY <2>1, <2>2, <2>3, SetInduction
<1>12. \A x \in SUBSET g : H0[x] \in Nat
  <2>1. \A x \in SUBSET g : Cardinality(x) \in U
    BY <1>2, <1>11
  <2> QED BY <2>1
<1>13. H0 \in [SUBSET g -> Nat]
  <2>1. H0 = [x \in SUBSET g |-> H0[x]]
    BY <1>8
  <2> QED BY <1>12, <2>1
<1>14. \A x \in SUBSET g : x # {} => \E e \in x : H0[x] = H0[x \ {e}] + Minute(s[e].when)
  BY <1>c, <1>10 DEF min
<1>15. H0[{}] = 0
  BY <1>10
<1> QED BY <1>9, <1>13, <1>14, <1>15

\* What lies between two bounds each, lies between so many times them all together.
LEMMA SumBounded ==
    ASSUME NEW s \in Seq(Observations), NEW g \in SUBSET DOMAIN s, NEW lo \in Nat, NEW hi \in Nat,
           \A i \in g : lo <= Minute(s[i].when) /\ Minute(s[i].when) <= hi
    PROVE  /\ MinutesOf(s, g) \in Nat
           /\ Cardinality(g) * lo <= MinutesOf(s, g) /\ MinutesOf(s, g) <= Cardinality(g) * hi
<1>1. PICK H \in [SUBSET g -> Nat] :
         /\ MinutesOf(s, g) = H[g] /\ H[{}] = 0
         /\ \A x \in SUBSET g : x # {} => \E e \in x : H[x] = H[x \ {e}] + Minute(s[e].when)
  BY SumTable
<1>2. IsFiniteSet(g) /\ Cardinality(g) \in Nat
  <2>1. DOMAIN s = 1 .. Len(s) /\ IsFiniteSet(1 .. Len(s))
    BY FS_Interval
  <2> QED BY <2>1, FS_Subset, FS_CardinalityType
<1>3. \A x \in SUBSET g : IsFiniteSet(x)
  BY <1>2, FS_Subset
<1> DEFINE U == {n \in Nat : \A x \in SUBSET g :
                    Cardinality(x) = n => n * lo <= H[x] /\ H[x] <= n * hi}
<1>4. 0 \in U
  <2>1. ASSUME NEW x \in SUBSET g, Cardinality(x) = 0 PROVE 0 * lo <= H[x] /\ H[x] <= 0 * hi
    <3>1. x = {}
      BY <1>3, <2>1, FS_EmptySet
    <3>2. H[x] = 0
      BY <1>1, <3>1, Zenon
    <3> QED BY <3>2
  <2> QED BY <2>1
<1>5. ASSUME NEW n \in U PROVE n + 1 \in U
  <2>0. n \in Nat /\ n + 1 \in Nat /\ n + 1 # 0
    OBVIOUS
  <2>1. ASSUME NEW x \in SUBSET g, Cardinality(x) = n + 1
        PROVE  (n + 1) * lo <= H[x] /\ H[x] <= (n + 1) * hi
    <3>1. x # {}
      BY <2>0, <2>1, FS_EmptySet
    <3>2. PICK e \in x : H[x] = H[x \ {e}] + Minute(s[e].when)
      BY <1>1, <3>1
    <3>3. Cardinality(x \ {e}) = n
      <4>1. Cardinality(x \ {e}) = Cardinality(x) - 1
        BY <1>3, FS_RemoveElement
      <4> QED BY <2>0, <2>1, <4>1
    <3>4. H[x \ {e}] \in Nat /\ n * lo <= H[x \ {e}] /\ H[x \ {e}] <= n * hi
      <4>1. x \ {e} \in SUBSET g
        OBVIOUS
      <4> QED BY <1>1, <3>3, <4>1
    <3>5. Minute(s[e].when) \in Nat
      <4>1. s[e].when \in Nat
        BY Dated
      <4> QED BY <4>1, HabitAssumption DEF Minute
    <3>6. ASSUME NEW h \in Nat, NEW m \in Nat, n * lo <= h, h <= n * hi, lo <= m, m <= hi
          PROVE  (n + 1) * lo <= h + m /\ h + m <= (n + 1) * hi
      <4>1. (n + 1) * lo = n * lo + lo /\ (n + 1) * hi = n * hi + hi /\ n * lo \in Nat /\ n * hi \in Nat
        BY <2>0
      <4> QED BY <2>0, <3>6, <4>1
    <3> QED BY <3>2, <3>4, <3>5, <3>6
  <2> QED BY <2>0, <2>1
<1>6. U = Nat
  <2>1. U \in SUBSET Nat
    OBVIOUS
  <2> HIDE DEF U
  <2> QED BY <1>4, <1>5, <2>1, SetInduction
<1>7. Cardinality(g) \in U
  BY <1>2, <1>6
<1> QED BY <1>1, <1>7

\* Multiples keep the order.
LEMMA Multiples ==
    ASSUME NEW n \in Nat, NEW a \in Nat, NEW b \in Nat
    PROVE  /\ n * a \in Nat /\ n * b \in Nat /\ n * (a + 1) = n * a + n
           /\ a <= b => n * a <= n * b
<1>1. ASSUME a <= b PROVE n * a <= n * b
  <2>1. PICK d \in Nat : b = a + d
    <3>1. b - a \in Nat /\ b = a + (b - a)
      BY <1>1
    <3> QED BY <3>1
  <2>2. n * b = n * a + n * d /\ n * d \in Nat /\ n * a \in Nat
    BY <2>1
  <2> QED BY <2>2
<1> QED BY <1>1

\* Quotient and remainder.
LEMMA Divided ==
    ASSUME NEW m \in Nat, NEW n \in Nat, n > 0
    PROVE  /\ m \div n \in Nat /\ m % n \in 0 .. n - 1
           /\ m = n * (m \div n) + (m % n)
OBVIOUS

\* The rounded mean of numbers between two bounds is between the bounds.
LEMMA RoundedWithin ==
    ASSUME NEW sum \in Nat, NEW n \in Nat, n > 0, NEW lo \in Nat, NEW hi \in Nat,
           n * lo <= sum, sum <= n * hi
    PROVE  Rounded(sum, n) \in Nat /\ lo <= Rounded(sum, n) /\ Rounded(sum, n) <= hi
<1> DEFINE q == sum \div n
           r == sum % n
<1>1. q \in Nat /\ r \in 0 .. n - 1 /\ sum = n * q + r
  BY Divided
<1>2. Rounded(sum, n) = IF 2 * r > n \/ (2 * r = n /\ q % 2 = 1) THEN q + 1 ELSE q
  BY DEF Rounded
<1> HIDE DEF q, r
<1>3. lo <= q
  <2> SUFFICES ASSUME q + 1 <= lo PROVE FALSE
    BY <1>1
  <2>1. n * (q + 1) <= n * lo /\ n * (q + 1) = n * q + n /\ n * q \in Nat /\ n * lo \in Nat
    BY <1>1, Multiples
  <2> QED BY <1>1, <2>1
<1>4. ASSUME NEW p \in Nat, n * p <= sum, p # hi => n * p < sum
      PROVE  p <= hi
  <2> SUFFICES ASSUME hi + 1 <= p PROVE FALSE
    OBVIOUS
  <2>1. n * (hi + 1) <= n * p /\ n * (hi + 1) = n * hi + n /\ n * hi \in Nat /\ n * p \in Nat
    BY Multiples
  <2> QED BY <1>4, <2>1
<1>5. q <= hi
  <2> SUFFICES ASSUME hi + 1 <= q PROVE FALSE
    BY <1>1
  <2>1. n * (hi + 1) <= n * q /\ n * (hi + 1) = n * hi + n /\ n * hi \in Nat /\ n * q \in Nat
    BY <1>1, Multiples
  <2> QED BY <1>1, <2>1
<1>6. r > 0 => q + 1 <= hi
  <2> SUFFICES ASSUME r > 0, q = hi PROVE FALSE
    BY <1>1, <1>5
  <2>1. n * q = n * hi /\ n * hi \in Nat
    BY Multiples
  <2> QED BY <1>1, <2>1
<1>7. 2 * r > n \/ 2 * r = n => r > 0
  BY <1>1
<1> QED BY <1>1, <1>2, <1>3, <1>5, <1>6, <1>7

\* The bucket a number falls into.
LEMMA InBucket ==
    ASSUME NEW m \in Nat, NEW n \in Nat, n > 0
    PROVE  /\ m \div n \in Nat
           /\ n * (m \div n) <= m /\ m <= n * (m \div n) + (n - 1)
BY Divided

\* A number between two multiples falls into the bucket between them.
LEMMA BucketIs ==
    ASSUME NEW m \in Nat, NEW n \in Nat, n > 0, NEW b \in Nat, n * b <= m, m <= n * b + (n - 1)
    PROVE  m \div n = b
OBVIOUS

\* A group has records, all of its records and no other are of the proposal's habit, type of day and
\* bucket of the day, and the time proposed lies in that bucket.
LEMMA Grouped ==
    ASSUME NEW s \in Seq(Observations), NEW g \in Groups(s)
    PROVE  /\ g \in SUBSET DOMAIN s /\ g # {}
           /\ Proposal(s, g).time \in 0 .. DayLength - 1
           /\ g = {i \in DOMAIN s : /\ s[i].what = Proposal(s, g).what
                                    /\ DayType(s[i].when) = Proposal(s, g).dayType
                                    /\ Minute(s[i].when) \div Bucket = Proposal(s, g).time \div Bucket}
<1>1. PICK j \in DOMAIN s : g = {i \in DOMAIN s : /\ s[i].what = s[j].what
                                                  /\ DayType(s[i].when) = DayType(s[j].when)
                                                  /\ Minute(s[i].when) \div Bucket = Minute(s[j].when) \div Bucket}
  BY DEF Groups
<1>2. g \in SUBSET DOMAIN s /\ j \in g
  BY <1>1
<1> DEFINE c == CHOOSE i \in g : TRUE
           b == Minute(s[j].when) \div Bucket
           n == Cardinality(g)
           sum == MinutesOf(s, g)
           t == Rounded(sum, n)
<1>3. c \in g
  BY <1>2
<1>4. Proposal(s, g).what = s[c].what /\ Proposal(s, g).dayType = DayType(s[c].when) /\ Proposal(s, g).time = t
  BY DEF Proposal
<1>5. DayLength \in Nat /\ DayLength > 0 /\ Bucket \in Nat /\ Bucket > 0
  BY HabitAssumption
<1>6. n \in Nat /\ n > 0
  <2>1. DOMAIN s = 1 .. Len(s) /\ IsFiniteSet(1 .. Len(s))
    BY FS_Interval
  <2>2. IsFiniteSet(g)
    BY <1>2, <2>1, FS_Subset
  <2>3. n \in Nat /\ n # 0
    BY <1>2, <2>2, FS_CardinalityType, FS_EmptySet
  <2> HIDE DEF n
  <2> QED BY <2>3
<1>7. \A i \in DOMAIN s : Minute(s[i].when) \in Nat /\ Minute(s[i].when) <= DayLength - 1
  <2> TAKE i \in DOMAIN s
  <2>1. s[i].when \in Nat
    BY Dated
  <2> QED BY <1>5, <2>1, Divided DEF Minute
<1>8. b \in Nat
  BY <1>5, <1>7, InBucket
<1> HIDE DEF c, n, sum, t
<1>9. ASSUME NEW lo \in Nat, NEW hi \in Nat,
             \A i \in g : lo <= Minute(s[i].when) /\ Minute(s[i].when) <= hi
      PROVE  t \in Nat /\ lo <= t /\ t <= hi
  <2>1. sum \in Nat /\ n * lo <= sum /\ sum <= n * hi
    BY <1>2, <1>9, SumBounded DEF n, sum
  <2> QED BY <1>6, <2>1, RoundedWithin DEF t
<1>10. t \in Nat /\ Bucket * b <= t /\ t <= Bucket * b + (Bucket - 1)
  <2>1. Bucket * b \in Nat /\ Bucket * b + (Bucket - 1) \in Nat
    BY <1>5, <1>8
  <2>2. ASSUME NEW i \in g
        PROVE  Bucket * b <= Minute(s[i].when) /\ Minute(s[i].when) <= Bucket * b + (Bucket - 1)
    <3>1. i \in DOMAIN s /\ Minute(s[i].when) \div Bucket = b
      BY <1>1
    <3> HIDE DEF b
    <3> QED BY <1>5, <1>7, <3>1, InBucket
  <2> HIDE DEF b
  <2> QED BY <1>9, <2>1, <2>2
<1>11. t \in 0 .. DayLength - 1
  <2>1. 0 \in Nat /\ DayLength - 1 \in Nat
    BY <1>5
  <2>2. \A i \in g : 0 <= Minute(s[i].when) /\ Minute(s[i].when) <= DayLength - 1
    BY <1>2, <1>7
  <2> QED BY <1>9, <2>1, <2>2
<1>12. t \div Bucket = b
  <2> HIDE DEF b
  <2> QED BY <1>5, <1>8, <1>10, BucketIs
<1>13. s[c].what = s[j].what /\ DayType(s[c].when) = DayType(s[j].when)
  BY <1>1, <1>3
<1> QED BY <1>1, <1>2, <1>4, <1>11, <1>12, <1>13

-----------------------------------------------------------------------------

\* The proposals are those of an analysis, if any was made.
DistinctIds(found) == \A p, q \in found : p # q => ProposalId(p) # ProposalId(q)

\* What one analysis of a store proposes has ids that differ.
LEMMA DetectedDistinct ==
    ASSUME NEW s \in Seq(Observations)
    PROVE  DistinctIds(Detect(s))
<1> SUFFICES ASSUME NEW p \in Detect(s), NEW q \in Detect(s), ProposalId(p) = ProposalId(q)
             PROVE  p = q
  BY DEF DistinctIds
<1>1. PICK g \in Groups(s) : p = Proposal(s, g)
  BY DEF Detect
<1>2. PICK h \in Groups(s) : q = Proposal(s, h)
  BY DEF Detect
<1>3. p.what = q.what /\ p.dayType = q.dayType /\ p.time = q.time
  BY DEF ProposalId
<1>4. g = {i \in DOMAIN s : /\ s[i].what = p.what /\ DayType(s[i].when) = p.dayType
                            /\ Minute(s[i].when) \div Bucket = p.time \div Bucket}
  BY <1>1, Grouped
<1>5. h = {i \in DOMAIN s : /\ s[i].what = q.what /\ DayType(s[i].when) = q.dayType
                            /\ Minute(s[i].when) \div Bucket = q.time \div Bucket}
  BY <1>2, Grouped
<1>6. g = h
  BY <1>3, <1>4, <1>5
<1> QED BY <1>1, <1>2, <1>6

\* No two proposals of one analysis share an id, however the records were pruned before it: the time
\* proposed for a group lies in the bucket that tells it from the others (habits.py:216-229).
THEOREM EachHasItsId == HabitSpec => []OneIdEach
<1>1. HabitInit => OneIdEach
  BY DEF HabitInit, OneIdEach
<1>2. OneIdEach /\ StoreInv /\ StoreInv' /\ [HabitNext]_habitVars => OneIdEach'
  <2> SUFFICES ASSUME OneIdEach, StoreInv', [HabitNext]_habitVars PROVE OneIdEach'
    OBVIOUS
  <2>1. CASE mined' = mined
    BY <2>1 DEF OneIdEach
  <2>2. CASE AnalyseHabits
    <3>1. store' \in Seq(Observations) /\ mined' = Detect(store')
      BY <2>2 DEF AnalyseHabits, StoreInv
    <3> QED BY <3>1, DetectedDistinct DEF DistinctIds, OneIdEach
  <2>3. CASE MinerReplaced
    BY <2>3 DEF MinerReplaced, OneIdEach
  <2> QED BY <2>1, <2>2, <2>3 DEF HabitNext, StateObserved, HabitExposureChanges, MomentPasses, habitVars
<1> QED BY <1>1, <1>2, StoreStays, PTL DEF HabitSpec

-----------------------------------------------------------------------------

\* The records that bear a proposal out.
Seen(s, p) == {i \in DOMAIN s : /\ s[i].what = p.what /\ DayType(s[i].when) = p.dayType
                                /\ Minute(s[i].when) < p.time + Bucket
                                /\ p.time < Minute(s[i].when) + Bucket}
DaysSeen(s, p) == {Day(s[i].when) : i \in Seen(s, p)}

BornOut(s, p) == Cardinality(DaysSeen(s, p)) >= MinDays /\ Cardinality(Seen(s, p)) >= MinOccurrences

\* A sequence of records has finitely many of them, on finitely many days.
LEMMA FinitelyMany ==
    ASSUME NEW s \in Seq(Observations), NEW x \in SUBSET DOMAIN s
    PROVE  /\ IsFiniteSet(x) /\ Cardinality(x) \in Nat /\ Cardinality(x) <= Len(s)
           /\ IsFiniteSet({Day(s[i].when) : i \in x})
           /\ Cardinality({Day(s[i].when) : i \in x}) \in Nat
           /\ Cardinality({Day(s[i].when) : i \in x}) <= Cardinality(x)
<1>1. DOMAIN s = 1 .. Len(s) /\ IsFiniteSet(1 .. Len(s)) /\ Cardinality(1 .. Len(s)) = Len(s)
  <2>1. Len(s) \in Nat /\ DOMAIN s = 1 .. Len(s)
    OBVIOUS
  <2>2. /\ IsFiniteSet(1 .. Len(s))
        /\ Cardinality(1 .. Len(s)) = IF 1 > Len(s) THEN 0 ELSE Len(s) - 1 + 1
    BY <2>1, FS_Interval
  <2> QED BY <2>1, <2>2
<1>2. IsFiniteSet(x) /\ Cardinality(x) \in Nat /\ Cardinality(x) <= Len(s)
  BY <1>1, FS_Subset, FS_CardinalityType
<1> DEFINE days == {Day(s[i].when) : i \in x}
           f == [i \in x |-> Day(s[i].when)]
<1>3. f \in Surjection(x, days)
  BY DEF Surjection
<1>4. IsFiniteSet(days) /\ Cardinality(days) <= Cardinality(x)
  <2> HIDE DEF days, f
  <2> QED BY <1>2, <1>3, FS_Surjection
<1>5. Cardinality(days) \in Nat
  BY <1>4, FS_CardinalityType
<1> QED BY <1>2, <1>4, <1>5

\* What a store bears out, every record the store is the newest part of bears out.
LEMMA BornOutByAll ==
    ASSUME NEW r \in Seq(Observations), NEW s \in Seq(Observations), NEW k \in Nat,
           \A i \in DOMAIN s : i + k \in DOMAIN r /\ r[i + k] = s[i],
           NEW p, BornOut(s, p)
    PROVE  BornOut(r, p)
<1>0. DOMAIN s \subseteq Nat /\ MinDays \in Nat /\ MinOccurrences \in Nat
  <2>1. DOMAIN s = 1 .. Len(s) /\ Len(s) \in Nat
    OBVIOUS
  <2> QED BY <2>1, HabitAssumption
<1> DEFINE f == [i \in Seen(s, p) |-> i + k]
<1>1. Seen(s, p) \in SUBSET DOMAIN s /\ Seen(r, p) \in SUBSET DOMAIN r
  BY DEF Seen
<1>2. f \in Injection(Seen(s, p), Seen(r, p))
  <2>1. \A i \in Seen(s, p) : i + k \in Seen(r, p)
    BY DEF Seen
  <2>2. \A i, j \in Seen(s, p) : i + k = j + k => i = j
    BY <1>0, <1>1
  <2>3. f \in [Seen(s, p) -> Seen(r, p)]
    BY <2>1
  <2>4. \A i, j \in Seen(s, p) : f[i] = f[j] => i = j
    BY <2>2
  <2> HIDE DEF f
  <2> QED BY <2>3, <2>4 DEF Injection, IsInjective
<1>3. DaysSeen(s, p) \in SUBSET DaysSeen(r, p)
  BY <1>2 DEF DaysSeen, Seen
<1>4. /\ IsFiniteSet(Seen(r, p)) /\ Cardinality(Seen(r, p)) \in Nat
      /\ IsFiniteSet(DaysSeen(r, p)) /\ Cardinality(DaysSeen(r, p)) \in Nat
      /\ Cardinality(Seen(s, p)) \in Nat /\ Cardinality(DaysSeen(s, p)) \in Nat
  BY <1>1, FinitelyMany DEF DaysSeen
<1>5. Cardinality(Seen(s, p)) <= Cardinality(Seen(r, p))
  <2> HIDE DEF f
  <2> QED BY <1>2, <1>4, FS_Injection
<1>6. Cardinality(DaysSeen(s, p)) <= Cardinality(DaysSeen(r, p))
  BY <1>3, <1>4, FS_Subset
<1> QED BY <1>0, <1>4, <1>5, <1>6 DEF BornOut

\* What an analysis proposes, the store it read bears out.
LEMMA DetectedBornOut ==
    ASSUME NEW s \in Seq(Observations), NEW p \in Detect(s)
    PROVE  BornOut(s, p)
<1>1. PICK g \in Groups(s) : /\ p = Proposal(s, g)
                             /\ DistinctDays(s, g) >= MinDays /\ Cardinality(g) >= MinOccurrences
  BY DEF Detect
<1>2. /\ g \in SUBSET DOMAIN s
      /\ p.time \in 0 .. DayLength - 1
      /\ g = {i \in DOMAIN s : /\ s[i].what = p.what /\ DayType(s[i].when) = p.dayType
                               /\ Minute(s[i].when) \div Bucket = p.time \div Bucket}
  BY <1>1, Grouped
<1>3. /\ DayLength \in Nat /\ DayLength > 0 /\ Bucket \in Nat /\ Bucket > 0
      /\ MinDays \in Nat /\ MinOccurrences \in Nat
  BY HabitAssumption
<1>4. ASSUME NEW m \in Nat, NEW t \in Nat, m \div Bucket = t \div Bucket
      PROVE  m < t + Bucket /\ t < m + Bucket
  <2>1. m \div Bucket \in Nat
    BY <1>3, InBucket
  <2>2. /\ Bucket * (m \div Bucket) <= m /\ m <= Bucket * (m \div Bucket) + (Bucket - 1)
        /\ Bucket * (m \div Bucket) <= t /\ t <= Bucket * (m \div Bucket) + (Bucket - 1)
    BY <1>3, <1>4, InBucket
  <2>3. Bucket * (m \div Bucket) \in Nat
    BY <1>3, <2>1
  <2> QED BY <1>3, <2>2, <2>3
<1>5. g \in SUBSET Seen(s, p)
  <2>1. ASSUME NEW i \in g PROVE i \in Seen(s, p)
    <3>1. Minute(s[i].when) \in Nat
      <4>1. s[i].when \in Nat
        BY <1>2, Dated
      <4> QED BY <1>3, <4>1, Divided DEF Minute
    <3>2. p.time \in Nat /\ Minute(s[i].when) \div Bucket = p.time \div Bucket
      BY <1>2, <1>3
    <3>3. Minute(s[i].when) < p.time + Bucket /\ p.time < Minute(s[i].when) + Bucket
      BY <1>4, <3>1, <3>2
    <3> QED BY <1>2, <3>3 DEF Seen
  <2> QED BY <2>1
<1>6. Seen(s, p) \in SUBSET DOMAIN s
  BY DEF Seen
<1>7. /\ IsFiniteSet(Seen(s, p)) /\ Cardinality(Seen(s, p)) \in Nat
      /\ IsFiniteSet(DaysSeen(s, p)) /\ Cardinality(DaysSeen(s, p)) \in Nat
      /\ Cardinality(g) \in Nat /\ DistinctDays(s, g) \in Nat
  BY <1>2, <1>6, FinitelyMany DEF DaysSeen, DistinctDays
<1>8. Cardinality(g) <= Cardinality(Seen(s, p))
  BY <1>5, <1>7, FS_Subset
<1>9. DistinctDays(s, g) <= Cardinality(DaysSeen(s, p))
  <2>1. {Day(s[i].when) : i \in g} \in SUBSET DaysSeen(s, p)
    BY <1>5 DEF DaysSeen
  <2> QED BY <1>7, <2>1, FS_Subset DEF DistinctDays
<1> QED BY <1>1, <1>3, <1>7, <1>8, <1>9 DEF BornOut

\* What is proposed was seen, on enough days and each time within a bucket of the time proposed,
\* however many records have since been pruned (habits.py:187-243).
THEOREM ProposedWasSeen == HabitSpec => []Supported
<1>0. Supported <=> \A p \in mined : BornOut(recorded, p)
  BY DEF Supported, BornOut, Seen, DaysSeen
<1>0p. Supported' <=> \A p \in mined' : BornOut(recorded', p)
  BY DEF Supported, BornOut, Seen, DaysSeen
<1>1. HabitInit => Supported
  BY DEF HabitInit, Supported
<1>2. Supported /\ StoreInv /\ StoreInv' /\ [HabitNext]_habitVars => Supported'
  <2> SUFFICES ASSUME Supported, StoreInv, StoreInv', [HabitNext]_habitVars PROVE Supported'
    OBVIOUS
  <2>1. CASE UNCHANGED <<mined, recorded>>
    BY <2>1, <1>0, <1>0p
  <2>2. CASE AnalyseHabits
    <3>1. store' \in Seq(Observations) /\ recorded' \in Seq(Observations) /\ mined' = Detect(store')
      BY <2>2 DEF AnalyseHabits, StoreInv
    <3> DEFINE k == Len(recorded') - Len(store')
    <3>2. /\ k \in Nat
          /\ \A i \in DOMAIN store' : i + k \in DOMAIN recorded' /\ recorded'[i + k] = store'[i]
      <4>1. /\ Len(recorded') \in Nat /\ Len(store') \in Nat /\ Len(store') <= Len(recorded')
            /\ DOMAIN store' = 1 .. Len(store') /\ DOMAIN recorded' = 1 .. Len(recorded')
        BY <3>1 DEF StoreInv
      <4>2. \A i \in DOMAIN store' : i + k = i + Len(recorded') - Len(store')
        BY <4>1
      <4>3. \A i \in DOMAIN store' : i + k \in DOMAIN recorded'
        BY <4>1
      <4> QED BY <4>1, <4>2, <4>3 DEF StoreInv
    <3> HIDE DEF k
    <3>3. ASSUME NEW p \in mined' PROVE BornOut(recorded', p)
      BY <3>1, <3>2, DetectedBornOut, BornOutByAll
    <3> QED BY <3>3, <1>0p
  <2>3. ASSUME NEW h \in Habits, NEW w \in 0..MaxMoment, StateObserved(h, w) PROVE Supported'
    <3>1. /\ recorded' = Append(recorded, [what |-> h, when |-> w]) /\ mined' = mined
          /\ recorded \in Seq(Observations) /\ recorded' \in Seq(Observations)
      BY <2>3 DEF StateObserved, StoreInv
    <3>2. \A i \in DOMAIN recorded : i + 0 \in DOMAIN recorded' /\ recorded'[i + 0] = recorded[i]
      <4>1. [what |-> h, when |-> w] \in Observations
        BY DEF Observations
      <4> QED BY <3>1, <4>1
    <3>3. ASSUME NEW p \in mined' PROVE BornOut(recorded', p)
      BY <1>0, <3>1, <3>2, BornOutByAll
    <3> QED BY <3>3, <1>0p
  <2>4. CASE MinerReplaced
    BY <2>4 DEF MinerReplaced, Supported
  <2> QED BY <2>1, <2>2, <2>3, <2>4 DEF HabitNext, HabitExposureChanges, MomentPasses, habitVars
<1> QED BY <1>1, <1>2, StoreStays, PTL DEF HabitSpec

-----------------------------------------------------------------------------

\* The proposals as their consumers take them.
Proposals == [what : Habits, dayType : DayTypes, time : 0 .. DayLength - 1,
              occurrences : 1..MaxRecorded, days : 1..MaxRecorded]

\* What an analysis proposes is well formed: a time within the day, and no more days than times.
LEMMA DetectedType ==
    ASSUME NEW s \in Seq(Observations), Len(s) <= MaxRecorded
    PROVE  Detect(s) \subseteq Proposals
<1> SUFFICES ASSUME NEW g \in Groups(s), DistinctDays(s, g) >= MinDays, Cardinality(g) >= MinOccurrences
             PROVE  Proposal(s, g) \in Proposals
  BY DEF Detect
<1>1. g \in SUBSET DOMAIN s /\ g # {} /\ Proposal(s, g).time \in 0 .. DayLength - 1
  BY Grouped
<1>2. /\ Cardinality(g) \in Nat /\ Cardinality(g) <= Len(s)
      /\ DistinctDays(s, g) \in Nat /\ DistinctDays(s, g) <= Cardinality(g)
  BY <1>1, FinitelyMany DEF DistinctDays
<1>3. Cardinality(g) \in 1..MaxRecorded /\ DistinctDays(s, g) \in 1..MaxRecorded
  <2>1. MinDays \in Nat /\ MinDays > 0 /\ MinOccurrences \in Nat /\ MinOccurrences > 0 /\ MaxRecorded \in Nat
        /\ Len(s) \in Nat
    BY HabitAssumption
  <2> QED BY <1>2, <2>1
<1>4. PICK c \in DOMAIN s : c = CHOOSE i \in g : TRUE
  BY <1>1
<1>5. s[c] \in Observations
  OBVIOUS
<1>6. s[c].what \in Habits /\ DayType(s[c].when) \in DayTypes
  BY <1>5 DEF Observations, DayType, DayTypes
<1> DEFINE t == Rounded(MinutesOf(s, g), Cardinality(g))
<1>7. Proposal(s, g) = [what |-> s[c].what, dayType |-> DayType(s[c].when), time |-> t,
                        occurrences |-> Cardinality(g), days |-> DistinctDays(s, g)]
  BY <1>4 DEF Proposal
<1> HIDE DEF t
<1>8. t \in 0 .. DayLength - 1
  BY <1>1, <1>7
<1> QED BY <1>3, <1>6, <1>7, <1>8 DEF Proposals

\* The types and bounds of habit mining: the store never outgrows the deque, and a proposal's time is
\* a time of the day (habits.py:216-229, 265).
THEOREM HabitTypeCorrect == HabitSpec => []HabitTypeOK
<1> DEFINE T == shown \subseteq Habits /\ mining \in BOOLEAN /\ raised \in BOOLEAN /\ mined \subseteq Proposals
<1>1. HabitInit => T
  BY DEF HabitInit
<1>2. T /\ StoreInv' /\ [HabitNext]_habitVars => T'
  <2> SUFFICES ASSUME T, StoreInv', [HabitNext]_habitVars PROVE T'
    OBVIOUS
  <2>1. CASE AnalyseHabits
    <3>1. store' \in Seq(Observations) /\ Len(store') <= MaxRecorded
      <4>1. store' \in Seq(Observations) /\ Len(store') <= Len(recorded') /\ Len(recorded') <= MaxRecorded
            /\ recorded' \in Seq(Observations)
        BY DEF StoreInv
      <4>2. Len(store') \in Nat /\ Len(recorded') \in Nat /\ MaxRecorded \in Nat
        BY <4>1, HabitAssumption
      <4> QED BY <4>1, <4>2
    <3>2. mined' \subseteq Proposals
      BY <2>1, <3>1, DetectedType DEF AnalyseHabits
    <3>3. raised' \in BOOLEAN
      BY <2>1 DEF AnalyseHabits, RaisedFor
    <3> QED BY <2>1, <3>2, <3>3 DEF AnalyseHabits
  <2>2. CASE MinerReplaced
    BY <2>2 DEF MinerReplaced
  <2>3. ASSUME NEW h \in Habits, HabitExposureChanges(h) PROVE T'
    BY <2>3 DEF HabitExposureChanges
  <2>4. ASSUME NEW h \in Habits, NEW w \in 0..MaxMoment, StateObserved(h, w) PROVE T'
    BY <2>4 DEF StateObserved
  <2>5. CASE MomentPasses
    BY <2>5 DEF MomentPasses
  <2>6. CASE UNCHANGED habitVars
    BY <2>6 DEF habitVars
  <2> QED BY <2>1, <2>2, <2>3, <2>4, <2>5, <2>6 DEF HabitNext
<1>3. StoreInv /\ T => HabitTypeOK
  BY DEF StoreInv, HabitTypeOK, Proposals
<1> HIDE DEF T
<1> QED BY <1>1, <1>2, <1>3, StoreStays, PTL DEF HabitSpec

=============================================================================
