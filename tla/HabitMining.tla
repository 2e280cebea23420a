----------------------------- MODULE HabitMining -----------------------------
(***************************************************************************)
(* Habit mining: the bounded store of observations, the frequency analysis   *)
(* over it, and the proposals and the repair issue that come of it           *)
(* (habits.py, services.async_apply_habit_proposals).                        *)
(*                                                                          *)
(* A moment is a number of minutes; its day and its minute of the day are    *)
(* the quotient and the remainder by DayLength.  The wall clock may be set   *)
(* back (the end of summer time): an observation is then dated up to Skew    *)
(* minutes before one recorded earlier.                                     *)
(***************************************************************************)
EXTENDS Naturals, SequencesExt

CONSTANTS
    Habits,           \* an entity and a state that maps to a service
    DayLength,        \* the minutes of a day
    Bucket,           \* HABIT_TIME_BUCKET_MINUTES
    Weekdays,         \* the days that are no weekend
    MinDays,          \* HABIT_MIN_DISTINCT_DAYS
    MinOccurrences,   \* HABIT_MIN_OCCURRENCES
    Retention,        \* the retention window, in minutes
    MaxObservations,  \* HABIT_MAX_OBSERVATIONS
    Skew,             \* how far the wall clock may be set back
    MaxMoment,        \* bound: the last moment
    MaxRecorded       \* bound: observations a miner records

ASSUME HabitAssumption ==
    /\ {DayLength, Bucket, MinDays, MinOccurrences, MaxObservations} \subseteq Nat \ {0}
    /\ {Retention, Skew, MaxMoment, MaxRecorded} \subseteq Nat /\ Weekdays \subseteq Nat

VARIABLES
    moment,     \* the wall clock, as far as it ever got
    shown,      \* the habits whose entity is exposed to assistants
    mining,     \* the miner runs
    store,      \* HabitObservationStore: <<[what, when], ...>>, the oldest record first
    mined,      \* runtime.habit_proposals
    raised,     \* the issue habit_proposals_available stands
    recorded    \* ghost: everything the miner ever observed

habitVars == <<moment, shown, mining, store, mined, raised, recorded>>

Observations == [what : Habits, when : 0..MaxMoment]
DayTypes == {"weekday", "weekend"}

HabitTypeOK ==
    /\ moment \in 0..MaxMoment
    /\ shown \subseteq Habits /\ mining \in BOOLEAN
    /\ store \in Seq(Observations) /\ Len(store) <= MaxObservations
    /\ mined \subseteq [what : Habits, dayType : DayTypes, time : 0 .. DayLength - 1,
                        occurrences : 1..MaxRecorded, days : 1..MaxRecorded]
    /\ raised \in BOOLEAN
    /\ recorded \in Seq(Observations)

HabitInit ==
    /\ moment = 0 /\ shown \in SUBSET Habits /\ mining = TRUE
    /\ store = <<>> /\ mined = {} /\ raised = FALSE /\ recorded = <<>>

-----------------------------------------------------------------------------
(* HabitObservationStore                                                       *)

Day(w) == w \div DayLength
Minute(w) == w % DayLength
DayType(w) == IF Day(w) \in Weekdays THEN "weekday" ELSE "weekend"

\* What is older than the retention window at w.
Expired(o, w) == o.when + Retention < w

\* Mutant: at most one record goes at a time.
PrunedOnce(s, w) == IF s # <<>> /\ Expired(s[1], w) THEN Tail(s) ELSE s

\* prune: records go from the left as long as the first one is too old.
Pruned(s, w) ==
    LET keeps == {i \in DOMAIN s : ~Expired(s[i], w)}
    IN  IF keeps = {} THEN <<>> ELSE SubSeq(s, CHOOSE i \in keeps : \A j \in keeps : i <= j, Len(s))

\* Mutant: the deque has no bound.
AppendedAlways(s, o) == Append(s, o)

\* deque(maxlen): the oldest record makes room.
Appended(s, o) == IF Len(s) = MaxObservations THEN Append(Tail(s), o) ELSE Append(s, o)

-----------------------------------------------------------------------------
(* detect_habits                                                               *)

\* round: half a minute goes to the even side.
Rounded(sum, n) ==
    LET q == sum \div n
        r == 2 * (sum % n)
    IN  IF r > n \/ (r = n /\ q % 2 = 1) THEN q + 1 ELSE q

\* The records of one entity and state, on one type of day, in one bucket of the day.
Groups(s) == {{i \in DOMAIN s : /\ s[i].what = s[j].what
                                /\ DayType(s[i].when) = DayType(s[j].when)
                                /\ Minute(s[i].when) \div Bucket = Minute(s[j].when) \div Bucket} :
                  j \in DOMAIN s}

\* Mutant: every occurrence counts as a day.
DaysCounted(s, g) == Cardinality(g)

DistinctDays(s, g) == Cardinality({Day(s[i].when) : i \in g})

\* The minutes of the day of the records in g, summed up.
MinutesOf(s, g) == FoldSet(LAMBDA i, sum : sum + Minute(s[i].when), 0, g)

Proposal(s, g) ==
    LET one == s[CHOOSE i \in g : TRUE]
    IN  [what |-> one.what, dayType |-> DayType(one.when),
         time |-> Rounded(MinutesOf(s, g), Cardinality(g)),
         occurrences |-> Cardinality(g), days |-> DistinctDays(s, g)]

Detect(s) ==
    {Proposal(s, g) : g \in {h \in Groups(s) : /\ DistinctDays(s, h) >= MinDays
                                               /\ Cardinality(h) >= MinOccurrences}}

\* Mutant: the id says nothing of the time.
IdOfHabit(p) == <<p.what, p.dayType>>

\* The digest a proposal is accepted by.
ProposalId(p) == <<p.what, p.dayType, p.time>>

-----------------------------------------------------------------------------

\* _async_state_changed: the entity of a habit goes to its state, dated w by a clock that may
\* have been set back; hidden entities are not observed.
StateObserved(h, w) ==
    /\ Len(recorded) < MaxRecorded
    /\ mining /\ h \in shown
    /\ w <= moment /\ moment <= w + Skew
    /\ store' = Pruned(Appended(store, [what |-> h, when |-> w]), w)
    /\ recorded' = Append(recorded, [what |-> h, when |-> w])
    /\ UNCHANGED <<moment, shown, mining, mined, raised>>

\* async_apply_habit_proposals: raised with the proposals, cleared without.
RaisedFor(found) == found # {}

\* analyze and async_apply_habit_proposals, on the timer or for goodvibes.habit_proposals.
AnalyseHabits ==
    /\ mining
    /\ store' = Pruned(store, moment)
    /\ mined' = Detect(store')
    /\ raised' = RaisedFor(mined')
    /\ UNCHANGED <<moment, shown, mining, recorded>>

\* The user exposes or hides an entity; what was observed of it stays.
HabitExposureChanges(h) ==
    /\ shown' = IF h \in shown THEN shown \ {h} ELSE shown \cup {h}
    /\ UNCHANGED <<moment, mining, store, mined, raised, recorded>>

\* The entry is reloaded: another runtime and, if the options still ask for it, another miner.
\* The issue stands as it did.
MinerReplaced ==
    /\ mining' \in BOOLEAN
    /\ store' = <<>> /\ mined' = {} /\ recorded' = <<>>
    /\ UNCHANGED <<moment, shown, raised>>

MomentPasses ==
    /\ moment < MaxMoment
    /\ moment' = moment + 1
    /\ UNCHANGED <<shown, mining, store, mined, raised, recorded>>

HabitNext ==
    \/ \E h \in Habits, w \in 0..MaxMoment : StateObserved(h, w)
    \/ \E h \in Habits : HabitExposureChanges(h)
    \/ AnalyseHabits \/ MinerReplaced \/ MomentPasses

HabitSpec == HabitInit /\ [][HabitNext]_habitVars

-----------------------------------------------------------------------------

\* What is proposed was seen: on enough different days of its type, each time within a bucket of
\* the time proposed (habits.py:187-243; docs/habits.md, "How a pattern becomes a proposal").
Supported ==
    \A p \in mined :
        LET seen == {i \in DOMAIN recorded :
                        /\ recorded[i].what = p.what /\ DayType(recorded[i].when) = p.dayType
                        /\ Minute(recorded[i].when) < p.time + Bucket
                        /\ p.time < Minute(recorded[i].when) + Bucket}
        IN  /\ Cardinality({Day(recorded[i].when) : i \in seen}) >= MinDays
            /\ Cardinality(seen) >= MinOccurrences

\* No two proposals of one analysis share an id, so each can be accepted (habits.py:216-229,
\* services.py:1011-1018).
OneIdEach == \A p, q \in mined : p # q => ProposalId(p) # ProposalId(q)

\* Whatever the clock did, pruning leaves no record older than the window by more than the clock
\* was set back, though it stops at the first record that is young enough (habits.py:272-279).
PrunedToTheWindow ==
    [][store' # store \/ mined' # mined =>
          \A i \in DOMAIN store' : store'[i].when + Retention + 2 * Skew >= moment]_habitVars
=============================================================================
