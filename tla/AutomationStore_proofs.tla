----------------------- MODULE AutomationStore_proofs -----------------------
(***************************************************************************)
(* Proofs about AutomationStore, for every set of calls, ids and proposals. *)
(*                                                                          *)
(*   - consent holds whatever is cancelled, edited or restarted: what gets   *)
(*     into a list comes from the file, the editor or a job, and a job only  *)
(*     runs for a call that passed all its checks;                           *)
(*   - without cancellation the lock makes a job the only writer, so the     *)
(*     list it holds stays the file plus its own automation until it swaps:  *)
(*     each job is one step of AtomicStore.                                  *)
(***************************************************************************)
EXTENDS AutomationStore, TLAPS

\* Type correctness, for every value of the constants.
THEOREM TypeCorrect == Spec => []TypeOK
<1>1. Init => TypeOK
  BY CallsAssumption DEF Init, TypeOK, Ended
<1>2. TypeOK /\ [Next]_vars => TypeOK'
  <2> SUFFICES ASSUME TypeOK, [Next]_vars PROVE TypeOK'
    OBVIOUS
  <2> USE CallsAssumption DEF TypeOK, Ended
  <2>1. CASE Analyse
    BY <2>1 DEF Analyse
  <2>2. ASSUME NEW c \in Calls, Accept(c) PROVE TypeOK'
    BY <2>2 DEF Accept
  <2>3. ASSUME NEW c \in Calls, Acquire(c) PROVE TypeOK'
    BY <2>3 DEF Acquire
  <2>4. ASSUME NEW c \in Calls, JobStep(c) PROVE TypeOK'
    <3>1. CASE Load(c)
      <4>1. IdOf[c] \in Ids
        OBVIOUS
      <4>2. list' \in [Calls -> SUBSET Ids]
        BY <3>1, <4>1 DEF Load
      <4>3. job' \in [Calls -> {"none", "queued", "loaded", "saved"} \cup Ended]
        BY <3>1 DEF Load
      <4> QED BY <3>1, <4>2, <4>3 DEF Load
    <3>2. CASE SaveTemp(c)
      BY <3>2 DEF SaveTemp
    <3>3. CASE Swap(c)
      BY <3>3 DEF Swap
    <3>4. CASE JobFails(c)
      BY <3>4 DEF JobFails
    <3> QED BY <2>4, <3>1, <3>2, <3>3, <3>4 DEF JobStep
  <2>5. ASSUME NEW c \in Calls, CallStep(c) PROVE TypeOK'
    BY <2>5 DEF CallStep, JobReturns, Reload
  <2>6. ASSUME NEW c \in Cancellable, Cancel(c) PROVE TypeOK'
    <3>1. c \in Calls
      OBVIOUS
    <3>2. job' \in [Calls -> {"none", "queued", "loaded", "saved"} \cup Ended]
      BY <2>6, <3>1 DEF Cancel
    <3>3. pc' \in [Calls -> {"idle", "waiting", "writing", "reloading",
                             "created", "refused", "lost"}]
      BY <2>6, <3>1 DEF Cancel
    <3> QED BY <2>6, <3>1, <3>2, <3>3 DEF Cancel
  <2>7. CASE EditorReads
    BY <2>7 DEF EditorReads
  <2>8. CASE EditorWrites
    BY <2>8 DEF EditorWrites
  <2>9. CASE Restart
    BY <2>9 DEF Restart
  <2>10. CASE UNCHANGED vars
    BY <2>10 DEF vars
  <2> QED
    BY <2>1, <2>2, <2>3, <2>4, <2>5, <2>6, <2>7, <2>8, <2>9, <2>10 DEF Next
<1> QED
  BY <1>1, <1>2, PTL DEF Spec

-----------------------------------------------------------------------------
(* Consent.                                                                    *)

\* An automation whose presence is accounted for: it was there, the editor may add
\* it, or some job has swapped it in.
Accounted(i) ==
    i \in Existing \cup EditedIds \/ \E c \in Calls : job[c] = "swapped" /\ IdOf[c] = i

ConsentInv ==
    /\ \A c \in Calls : pc[c] \in {"idle", "waiting"} => job[c] = "none"
    /\ \A c \in Calls : pc[c] = "refused" => job[c] \in {"none", "exists", "failed"}
    /\ \A c \in Calls : pc[c] \notin {"idle", "refused"} => c \in Admins \cap Confirmed
    /\ \A i \in file : Accounted(i)
    /\ \A S \in draft : \A i \in S : Accounted(i)
    /\ \A c \in Calls : job[c] \in {"loaded", "saved"} =>
          \A i \in list[c] : i = IdOf[c] \/ Accounted(i)

\* Nothing reaches automations.yaml without an admin's confirmed call for it,
\* whatever is cancelled, edited meanwhile or restarted (services.py:1004-1006).
THEOREM ConsentIsAsked == Spec => []OnlyByConsent
<1>1. Init => ConsentInv
  BY CallsAssumption DEF Init, ConsentInv, Accounted
<1>2. TypeOK /\ ConsentInv /\ [Next]_vars => ConsentInv'
  <2> SUFFICES ASSUME TypeOK, ConsentInv, [Next]_vars PROVE ConsentInv'
    OBVIOUS
  <2> USE CallsAssumption DEF TypeOK, Ended
  <2>0. ASSUME \A c \in Calls : job[c] = "swapped" => job'[c] = "swapped", NEW i, Accounted(i)
        PROVE Accounted(i)'
    BY <2>0 DEF Accounted
  <2>1. CASE Analyse
    BY <2>1 DEF Analyse, ConsentInv, Accounted
  <2>2. ASSUME NEW c \in Calls, Accept(c) PROVE ConsentInv'
    BY <2>2 DEF Accept, ConsentInv, Accounted
  <2>3. ASSUME NEW c \in Calls, Acquire(c) PROVE ConsentInv'
    <3>1. \A i : Accounted(i) => Accounted(i)'
      BY <2>0, <2>3 DEF Acquire, ConsentInv
    <3> QED BY <2>3, <3>1 DEF Acquire, ConsentInv
  <2>4. ASSUME NEW c \in Calls, JobStep(c) PROVE ConsentInv'
    <3>0. \A i : Accounted(i) => Accounted(i)'
      BY <2>0, <2>4 DEF JobStep, Load, SaveTemp, Swap, JobFails, ConsentInv
    <3>1. CASE Load(c)
      BY <3>0, <3>1 DEF Load, ConsentInv
    <3>2. CASE SaveTemp(c)
      BY <3>0, <3>2 DEF SaveTemp, ConsentInv
    <3>3. CASE Swap(c)
      <4>1. \A i \in file' : Accounted(i)'
        <5> SUFFICES ASSUME NEW i \in list[c] PROVE Accounted(i)'
          BY <3>3 DEF Swap
        <5>1. CASE i = IdOf[c]
          BY <5>1, <3>3 DEF Swap, Accounted
        <5>2. CASE i # IdOf[c]
          BY <5>2, <3>3, <3>0 DEF Swap, ConsentInv
        <5> QED BY <5>1, <5>2
      <4> QED BY <4>1, <3>0, <3>3 DEF Swap, ConsentInv
    <3>4. CASE JobFails(c)
      BY <3>0, <3>4 DEF JobFails, ConsentInv
    <3> QED BY <2>4, <3>1, <3>2, <3>3, <3>4 DEF JobStep
  <2>5. ASSUME NEW c \in Calls, CallStep(c) PROVE ConsentInv'
    <3>0. \A i : Accounted(i) => Accounted(i)'
      BY <2>0, <2>5 DEF CallStep, JobReturns, Reload
    <3> QED BY <2>5, <3>0 DEF CallStep, JobReturns, Reload, ConsentInv
  <2>6. ASSUME NEW c \in Cancellable, Cancel(c) PROVE ConsentInv'
    <3>1. c \in Calls
      OBVIOUS
    <3>2. \A d \in Calls : job'[d] # job[d] => job'[d] = "none" /\ job[d] = "queued"
      BY <2>6, <3>1 DEF Cancel
    <3>3. \A i : Accounted(i) => Accounted(i)'
      BY <2>0, <3>2
    <3>4. \A d \in Calls : pc'[d] = IF d = c THEN "lost" ELSE pc[d]
      BY <2>6, <3>1 DEF Cancel
    <3>5. pc[c] \notin {"idle", "refused"} /\ UNCHANGED <<file, list, draft>>
      BY <2>6 DEF Cancel
    <3> QED BY <3>1, <3>2, <3>3, <3>4, <3>5 DEF ConsentInv
  <2>7. CASE EditorReads
    BY <2>7 DEF EditorReads, ConsentInv, Accounted
  <2>8. CASE EditorWrites
    BY <2>8 DEF EditorWrites, ConsentInv, Accounted
  <2>9. CASE Restart
    <3>0. \A i : Accounted(i) => Accounted(i)'
      BY <2>0, <2>9 DEF Restart
    <3> QED BY <2>9, <3>0 DEF Restart, ConsentInv
  <2>10. CASE UNCHANGED vars
    BY <2>10 DEF vars, ConsentInv, Accounted
  <2> QED
    BY <2>1, <2>2, <2>3, <2>4, <2>5, <2>6, <2>7, <2>8, <2>9, <2>10 DEF Next
<1>3. TypeOK /\ ConsentInv => OnlyByConsent
  BY DEF ConsentInv, OnlyByConsent, Accounted, TypeOK
<1> QED
  BY <1>1, <1>2, <1>3, TypeCorrect, PTL DEF Spec

-----------------------------------------------------------------------------
(* Atomicity, when no call is cancelled and nobody else writes the file.       *)

\* A job runs only while its call waits for it, holding the lock.
LockInv ==
    /\ \A c \in Calls : InJob(c) => pc[c] = "writing"
    /\ \A c \in Calls : pc[c] = "writing" => lock = c
    /\ \A c \in Calls : pc[c] \in {"idle", "waiting"} => job[c] = "none"

\* A job is under way only in the call that holds the lock (habits.py:457-460).
LEMMA LockCorrect ==
    ASSUME Cancellable = {}
    PROVE  Spec => []LockInv
<1>1. Init => LockInv
  BY DEF Init, LockInv, InJob
<1>2. TypeOK /\ LockInv /\ [Next]_vars => LockInv'
  <2> SUFFICES ASSUME TypeOK, LockInv, [Next]_vars PROVE LockInv'
    OBVIOUS
  <2> USE CallsAssumption DEF TypeOK, Ended, LockInv, InJob
  <2>1. CASE Analyse
    BY <2>1 DEF Analyse
  <2>2. ASSUME NEW c \in Calls, Accept(c) PROVE LockInv'
    BY <2>2 DEF Accept
  <2>3. ASSUME NEW c \in Calls, Acquire(c) PROVE LockInv'
    BY <2>3 DEF Acquire
  <2>4. ASSUME NEW c \in Calls, JobStep(c) PROVE LockInv'
    BY <2>4 DEF JobStep, Load, SaveTemp, Swap, JobFails
  <2>5. ASSUME NEW c \in Calls, CallStep(c) PROVE LockInv'
    BY <2>5 DEF CallStep, JobReturns, Reload
  <2>6. CASE EditorReads \/ EditorWrites
    BY <2>6 DEF EditorReads, EditorWrites
  <2>7. CASE Restart
    BY <2>7 DEF Restart
  <2>8. CASE UNCHANGED vars
    BY <2>8 DEF vars
  <2> QED
    BY <2>1, <2>2, <2>3, <2>4, <2>5, <2>6, <2>7, <2>8 DEF Next
<1> QED
  BY <1>1, <1>2, TypeCorrect, PTL DEF Spec

\* The read-check-append-swap has one writer at a time, for any number of calls.
THEOREM OneWriterAtATime ==
    ASSUME Cancellable = {}
    PROVE  Spec => []OneWriter
<1>1. TypeOK /\ LockInv => OneWriter
  BY DEF LockInv, OneWriter
<1> QED
  BY <1>1, LockCorrect, TypeCorrect, PTL

\* What the job under way has in memory is what it will make of the file.
ListInv ==
    /\ \A c \in Calls : job[c] \in {"loaded", "saved"} =>
          list[c] = file \cup {IdOf[c]} /\ IdOf[c] \notin file
    /\ \A c \in Calls : job[c] = "swapped" => IdOf[c] \in file
    /\ \A c \in Calls : pc[c] \in {"reloading", "created"} => job[c] = "swapped"
    /\ HasReload => \A c \in Calls : pc[c] = "created" => IdOf[c] \in loaded

\* Without cancellation each job holds the file and its own automation.
LEMMA ListCorrect ==
    ASSUME Cancellable = {}, EditedIds = {}
    PROVE  Spec => []ListInv
<1>1. Init => ListInv
  BY DEF Init, ListInv
<1>2. TypeOK /\ LockInv /\ ListInv /\ [Next]_vars => ListInv'
  <2> SUFFICES ASSUME TypeOK, LockInv, ListInv, [Next]_vars PROVE ListInv'
    OBVIOUS
  <2> USE CallsAssumption DEF TypeOK, Ended, ListInv
  <2>1. CASE Analyse
    BY <2>1 DEF Analyse
  <2>2. ASSUME NEW c \in Calls, Accept(c) PROVE ListInv'
    BY <2>2 DEF Accept
  <2>3. ASSUME NEW c \in Calls, Acquire(c) PROVE ListInv'
    BY <2>3 DEF Acquire, LockInv
  <2>4. ASSUME NEW c \in Calls, JobStep(c) PROVE ListInv'
    <3>1. CASE Load(c)
      BY <3>1 DEF Load
    <3>2. CASE SaveTemp(c)
      BY <3>2 DEF SaveTemp
    <3>3. CASE Swap(c)
      <4>1. file' = file \cup {IdOf[c]} /\ UNCHANGED <<loaded, pc, list>>
        BY <3>3 DEF Swap
      <4>2. \A d \in Calls : d # c => job[d] \notin {"loaded", "saved"}
        BY <3>3 DEF Swap, LockInv, InJob
      <4>3. \A d \in Calls : job'[d] = IF d = c THEN "swapped" ELSE job[d]
        BY <3>3 DEF Swap
      <4> QED BY <4>1, <4>2, <4>3
    <3>4. CASE JobFails(c)
      BY <3>4 DEF JobFails
    <3> QED BY <2>4, <3>1, <3>2, <3>3, <3>4 DEF JobStep
  <2>5. ASSUME NEW c \in Calls, CallStep(c) PROVE ListInv'
    <3>1. CASE JobReturns(c)
      BY <3>1 DEF JobReturns
    <3>2. CASE Reload(c)
      BY <3>2 DEF Reload
    <3> QED BY <2>5, <3>1, <3>2 DEF CallStep
  <2>6. CASE EditorReads \/ EditorWrites
    BY <2>6 DEF EditorReads, EditorWrites
  <2>7. CASE Restart
    BY <2>7 DEF Restart
  <2>8. CASE UNCHANGED vars
    BY <2>8 DEF vars
  <2> QED
    BY <2>1, <2>2, <2>3, <2>4, <2>5, <2>6, <2>7, <2>8 DEF Next
<1> QED
  BY <1>1, <1>2, LockCorrect, TypeCorrect, PTL DEF Spec

\* What a call has reported as created stays in the file and running.
THEOREM ReportedStaysRunning ==
    ASSUME Cancellable = {}, EditedIds = {}
    PROVE  Spec => []ReportedIsRunning
<1>1. ListInv => ReportedIsRunning
  BY DEF ListInv, ReportedIsRunning
<1> QED
  BY <1>1, ListCorrect, PTL

\* Accepting is atomic: every step is a step of AtomicStore or leaves it unchanged.
THEOREM AcceptingIsAtomic ==
    ASSUME Cancellable = {}, EditedIds = {}
    PROVE  Spec => ImplementsStore
<1> DEFINE created == {c \in Calls : job[c] = "swapped"}
           refused == {c \in Calls : job[c] = "exists"}
<1>1. Init => Store!Init
  BY CallsAssumption DEF Init, Store!Init
<1>2. TypeOK /\ LockInv /\ ListInv /\ [Next]_vars => [Store!Next]_(Store!vars)
  <2> SUFFICES ASSUME TypeOK, LockInv, ListInv, [Next]_vars
               PROVE  Store!Next \/ UNCHANGED Store!vars
    OBVIOUS
  <2> USE CallsAssumption DEF TypeOK, Ended
  <2>0. ASSUME file' = file,
               \A c \in Calls : job'[c] # job[c] =>
                  {job[c], job'[c]} \cap {"swapped", "exists"} = {}
        PROVE  UNCHANGED Store!vars
    BY <2>0 DEF Store!vars
  <2>1. CASE Analyse
    BY <2>0, <2>1 DEF Analyse
  <2>2. ASSUME NEW c \in Calls, Accept(c) PROVE UNCHANGED Store!vars
    BY <2>0, <2>2 DEF Accept
  <2>3. ASSUME NEW c \in Calls, Acquire(c) PROVE UNCHANGED Store!vars
    BY <2>0, <2>3 DEF Acquire, LockInv
  <2>4. ASSUME NEW c \in Calls, JobStep(c) PROVE Store!Next \/ UNCHANGED Store!vars
    <3>1. CASE Load(c) /\ IdOf[c] \in file
      <4>1. \A d \in Calls : job'[d] = IF d = c THEN "exists" ELSE job[d]
        BY <3>1 DEF Load
      <4>2. job[c] = "queued" /\ file' = file
        BY <3>1 DEF Load
      <4>3. created' = created /\ refused' = refused \cup {c}
        BY <4>1, <4>2
      <4>4. Store!Refuse(c)
        BY <3>1, <4>2, <4>3 DEF Store!Refuse
      <4> QED BY <4>4 DEF Store!Next
    <3>2. CASE Load(c) /\ IdOf[c] \notin file
      BY <2>0, <3>2 DEF Load
    <3>3. CASE SaveTemp(c)
      BY <2>0, <3>3 DEF SaveTemp
    <3>4. CASE Swap(c)
      <4>1. \A d \in Calls : job'[d] = IF d = c THEN "swapped" ELSE job[d]
        BY <3>4 DEF Swap
      <4>2. job[c] = "saved" /\ file' = file \cup {IdOf[c]} /\ IdOf[c] \notin file
        BY <3>4 DEF Swap, ListInv
      <4>3. created' = created \cup {c} /\ refused' = refused
        BY <4>1, <4>2
      <4>4. Store!Create(c)
        BY <4>2, <4>3 DEF Store!Create
      <4> QED BY <4>4 DEF Store!Next
    <3>5. CASE JobFails(c)
      BY <2>0, <3>5 DEF JobFails
    <3> QED BY <2>4, <3>1, <3>2, <3>3, <3>4, <3>5 DEF JobStep
  <2>5. ASSUME NEW c \in Calls, CallStep(c) PROVE UNCHANGED Store!vars
    BY <2>0, <2>5 DEF CallStep, JobReturns, Reload
  <2>6. CASE EditorReads \/ EditorWrites
    BY <2>0, <2>6 DEF EditorReads, EditorWrites
  <2>7. CASE Restart
    BY <2>0, <2>7 DEF Restart
  <2>8. CASE UNCHANGED vars
    BY <2>0, <2>8 DEF vars
  <2> QED
    BY <2>1, <2>2, <2>3, <2>4, <2>5, <2>6, <2>7, <2>8 DEF Next
<1> QED
  BY <1>1, <1>2, TypeCorrect, LockCorrect, ListCorrect, PTL DEF Spec, ImplementsStore, Store!Spec

=============================================================================
