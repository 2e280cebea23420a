---------------------------- MODULE Turns_proofs ----------------------------
(***************************************************************************)
(* Proofs about Turns, for any number of turns, jobs and cancel calls.      *)
(***************************************************************************)
EXTENDS Turns, TLAPS

\* Type correctness, for every value of the constants.
THEOREM TypeCorrect == Spec => []TypeOK
<1> USE WorkAssumption DEF Work, Fields, Terminal, Ongoing, TypeOK
<1>1. Init => TypeOK
  BY DEF Init
<1>2. TypeOK /\ [Next]_vars => TypeOK'
  <2> SUFFICES ASSUME TypeOK, [Next]_vars PROVE TypeOK'
    OBVIOUS
  <2>0. ASSUME NEW w \in Work, NEW only \in SUBSET Fields
        PROVE  Adopt(w, only) \in [Fields -> Ids \cup {NoId}]
    BY DEF Adopt
  <2>1. ASSUME NEW t \in Turns, StartTurn(t) PROVE TypeOK'
    BY <2>1 DEF StartTurn
  <2>2. ASSUME NEW t \in Turns, TurnEnds(t) PROVE TypeOK'
    <3>1. CASE TurnAnswered(t)
      <4>1. Adopt(t, {"session", "agent"}) \in [Fields -> Ids \cup {NoId}]
        BY <2>0
      <4>2. active' \in [Fields -> Ids \cup {NoId}]
        BY <3>1, <4>1 DEF TurnAnswered, MessageAfter
      <4> QED BY <3>1, <4>2 DEF TurnAnswered
    <3>2. CASE TurnUnanswered(t)
      BY <3>2 DEF TurnUnanswered
    <3>3. CASE TurnFails(t)
      BY <3>3 DEF TurnFails
    <3> QED BY <2>2, <3>1, <3>2, <3>3 DEF TurnEnds
  <2>3. ASSUME NEW t \in Turns, TurnAbandoned(t) PROVE TypeOK'
    BY <2>3 DEF TurnAbandoned
  <2>4. ASSUME NEW j \in Jobs, Submit(j) \/ SubmissionFails(j) PROVE TypeOK'
    BY <2>4 DEF Submit, SubmissionFails
  <2>5. ASSUME NEW j \in Jobs, SubmissionAnswered(j) PROVE TypeOK'
    <3>1. active' \in [Fields -> Ids \cup {NoId}]
      BY <2>0, <2>5 DEF SubmissionAnswered
    <3> QED BY <2>5, <3>1 DEF SubmissionAnswered
  <2>6. ASSUME NEW j \in Jobs, DaemonReports(j) PROVE TypeOK'
    BY <2>6 DEF DaemonReports
  <2>7. ASSUME NEW k \in Cancels, SendCancel(k) \/ CancelReturns(k) \/ CancelFails(k)
        PROVE  TypeOK'
    <3>1. ActiveTarget \subseteq Ids
      BY DEF ActiveTarget
    <3>2. CASE SendCancel(k)
      BY <3>1, <3>2 DEF SendCancel
    <3>3. CASE CancelReturns(k) \/ CancelFails(k)
      BY <3>3 DEF CancelReturns, CancelFails
    <3> QED BY <2>7, <3>2, <3>3
  <2>8. ASSUME NEW e \in events, HandleEvent(e) PROVE TypeOK'
    <3>1. e \in [of : Work, status : Terminal \cup Ongoing]
      OBVIOUS
    <3>2. active' \in [Fields -> Ids \cup {NoId}]
      BY <2>0, <2>8, <3>1 DEF HandleEvent
    <3> QED BY <2>8, <3>1, <3>2 DEF HandleEvent
  <2>9. CASE StatusRefreshed
    BY <2>9 DEF StatusRefreshed
  <2>10. CASE UNCHANGED vars
    BY <2>10 DEF vars
  <2> QED
    BY <2>1, <2>2, <2>3, <2>4, <2>5, <2>6, <2>7, <2>8, <2>9, <2>10 DEF Next
<1> QED
  BY <1>1, <1>2, PTL DEF Spec

\* If no pipeline is cancelled, "processing" is only ever shown for a turn that is
\* streaming, whatever events, cancels and refreshes write meanwhile.
THEOREM ProcessingIsHonest ==
    ASSUME Abandons = FALSE
    PROVE  Spec => []ProcessingIsATurn
<1> USE WorkAssumption DEF Work, Terminal, Ongoing, ProcessingIsATurn
<1>1. Init => ProcessingIsATurn
  BY DEF Init
<1>2. TypeOK /\ ProcessingIsATurn /\ [Next]_vars => ProcessingIsATurn'
  <2> SUFFICES ASSUME TypeOK, ProcessingIsATurn, [Next]_vars PROVE ProcessingIsATurn'
    OBVIOUS
  <2> USE DEF TypeOK
  <2>1. ASSUME NEW t \in Turns, StartTurn(t) PROVE ProcessingIsATurn'
    BY <2>1 DEF StartTurn
  <2>2. ASSUME NEW t \in Turns, TurnEnds(t) PROVE ProcessingIsATurn'
    BY <2>2 DEF TurnEnds, TurnAnswered, TurnUnanswered, TurnFails
  <2>3. ASSUME NEW t \in Turns, TurnAbandoned(t) PROVE ProcessingIsATurn'
    BY <2>3 DEF TurnAbandoned
  <2>4. ASSUME NEW j \in Jobs,
               Submit(j) \/ SubmissionAnswered(j) \/ SubmissionFails(j) \/ DaemonReports(j)
        PROVE  ProcessingIsATurn'
    BY <2>4 DEF Submit, SubmissionAnswered, SubmissionFails, DaemonReports
  <2>5. ASSUME NEW k \in Cancels, SendCancel(k) \/ CancelReturns(k) \/ CancelFails(k)
        PROVE  ProcessingIsATurn'
    BY <2>5 DEF SendCancel, CancelReturns, CancelFails
  <2>6. ASSUME NEW e \in events, HandleEvent(e) PROVE ProcessingIsATurn'
    BY <2>6 DEF HandleEvent
  <2>7. CASE StatusRefreshed
    BY <2>7 DEF StatusRefreshed
  <2>8. CASE UNCHANGED vars
    BY <2>8 DEF vars
  <2> QED
    BY <2>1, <2>2, <2>3, <2>4, <2>5, <2>6, <2>7, <2>8 DEF Next
<1> QED
  BY <1>1, <1>2, TypeCorrect, PTL DEF Spec

\* If the daemon names the message it answers or reports on, and no two are the same,
\* an active message id is dropped only by the end of its own work or by a cancel.
THEOREM WorkIsIsolated ==
    ASSUME NamesTurn = TRUE,
           \A w \in Work : IdOf[w]["message"] # NoId,
           \A v, w \in Work : IdOf[v]["message"] = IdOf[w]["message"] => v = w
    PROVE  Spec => DroppedByItsOwnEnd
<1> USE WorkAssumption DEF Work, Fields, Terminal, Ongoing
<1> DEFINE message == active["message"]
           Dropped(w) == message = IdOf[w]["message"] /\ message' = NoId
           Excused(w) == \/ pc[w] = "sent" /\ pc'[w] = "ended"
                         \/ \E e \in events \ events' : e.of = w
                         \/ \E k \in Cancels : pc[k] = "sent" /\ pc'[k] = "ended"
<1>1. TypeOK /\ [Next]_vars => [\A w \in Work : Dropped(w) => Excused(w)]_vars
  <2> SUFFICES ASSUME TypeOK, Next, NEW w \in Work, Dropped(w) PROVE Excused(w)
    OBVIOUS
  <2> USE DEF TypeOK
  <2>0. message # NoId /\ message' # message
    OBVIOUS
  <2>1. ASSUME NEW t \in Turns, StartTurn(t) PROVE FALSE
    BY <2>0, <2>1 DEF StartTurn
  <2>2. ASSUME NEW t \in Turns, TurnEnds(t) PROVE Excused(w)
    <3>1. CASE TurnAnswered(t)
      <4>1. message = t
        BY <2>0, <3>1 DEF TurnAnswered, MessageAfter, Adopt
      <4>2. w = t
        BY <4>1
      <4> QED BY <3>1, <4>2 DEF TurnAnswered
    <3>2. CASE TurnUnanswered(t)
      BY <2>0, <3>2 DEF TurnUnanswered
    <3>3. CASE TurnFails(t)
      <4>1. message = t
        BY <2>0, <3>3 DEF TurnFails
      <4>2. w = t
        BY <4>1
      <4> QED BY <3>3, <4>2 DEF TurnFails
    <3> QED BY <2>2, <3>1, <3>2, <3>3 DEF TurnEnds
  <2>3. ASSUME NEW t \in Turns, TurnAbandoned(t) PROVE FALSE
    BY <2>0, <2>3 DEF TurnAbandoned
  <2>4. ASSUME NEW j \in Jobs, Submit(j) \/ SubmissionFails(j) \/ DaemonReports(j)
        PROVE  FALSE
    BY <2>0, <2>4 DEF Submit, SubmissionFails, DaemonReports
  <2>5. ASSUME NEW j \in Jobs, SubmissionAnswered(j) PROVE FALSE
    BY <2>0, <2>5 DEF SubmissionAnswered, Adopt
  <2>6. ASSUME NEW k \in Cancels, SendCancel(k) \/ CancelFails(k) PROVE FALSE
    BY <2>0, <2>6 DEF SendCancel, CancelFails
  <2>7. ASSUME NEW k \in Cancels, CancelReturns(k) PROVE Excused(w)
    BY <2>7 DEF CancelReturns
  <2>8. ASSUME NEW e \in events, HandleEvent(e) PROVE Excused(w)
    <3>1. e.of \in Work /\ e \in events \ events'
      BY <2>8 DEF HandleEvent
    <3>2. CASE e.status \in Terminal
      <4>1. IdOf[e.of]["message"] = message
        BY <2>0, <2>8, <3>1, <3>2 DEF HandleEvent
      <4>2. e.of = w
        BY <3>1, <4>1
      <4> QED BY <3>1, <4>2
    <3>3. CASE e.status \notin Terminal
      BY <2>0, <2>8, <3>1, <3>3 DEF HandleEvent, Adopt
    <3> QED BY <3>2, <3>3
  <2>9. CASE StatusRefreshed
    BY <2>0, <2>9 DEF StatusRefreshed
  <2> QED
    BY <2>1, <2>2, <2>3, <2>4, <2>5, <2>6, <2>7, <2>8, <2>9 DEF Next
<1>2. [\A w \in Work : Dropped(w) => Excused(w)]_vars
      => [\A w \in Work :
            active["message"] = IdOf[w]["message"] /\ active'["message"] = NoId
               /\ IdOf[w]["message"] # NoId
            => \/ pc[w] = "sent" /\ pc'[w] = "ended"
               \/ \E e \in events \ events' : e.of = w
               \/ \E k \in Cancels : pc[k] = "sent" /\ pc'[k] = "ended"]_vars
  OBVIOUS
<1> QED
  BY <1>1, <1>2, TypeCorrect, PTL DEF Spec, DroppedByItsOwnEnd

-----------------------------------------------------------------------------
(* Nothing that is over stays active.                                          *)

\* The ids that say what is active: all but the session's, which outlives its work.
Marks == {"message", "agent", "run"}

Ended(j) == \E e \in events : e.of = j /\ e.status \in Terminal

\* Only jobs are posted, after their submission has been answered.
PostsInv ==
    /\ \A e \in events : e.of \in Jobs
    /\ \A j \in Jobs : reported[j] # "nothing" => pc[j] = "ended"

\* The end of a job is handled after everything else that was posted of it.
OrderInv ==
    \A e \in events : reported[e.of] = "finished" => Ended(e.of)

\* A turn's message is active only while it streams; a job's ids, until its end is handled.
MarksInv ==
    /\ \A t \in Turns : active["message"] = t => pc[t] = "sent"
    /\ \A j \in Jobs, f \in Marks :
          active[f] = IdOf[j][f] /\ active[f] # NoId /\ reported[j] = "finished" => Ended(j)

SettledInv == PostsInv /\ OrderInv /\ MarksInv

\* The daemon gives no two pieces of work the same id, and a turn neither agent nor run.
ReportsApart ==
    /\ \A v, w \in Work, f \in Marks : IdOf[v][f] = IdOf[w][f] /\ IdOf[v][f] # NoId => v = w
    /\ \A t \in Turns : IdOf[t]["agent"] = NoId /\ IdOf[t]["run"] = NoId

\* What Adopt makes active is the id of the work it is told of, or what was active.
LEMMA Adopted ==
    ASSUME NEW w \in Work, NEW only, NEW f \in Fields
    PROVE  \/ Adopt(w, only)[f] = active[f]
           \/ f \in only /\ Adopt(w, only)[f] = IdOf[w][f] /\ IdOf[w][f] # NoId
  BY DEF Adopt

\* SettledInv is inductive where every turn ends with a frame that names it, no pipeline is
\* cancelled, and what the daemon posts of a job arrives in order.
LEMMA StepSettles ==
    ASSUME ReportsApart, InOrder = TRUE, NoFinal = FALSE, NamesTurn = TRUE, Abandons = FALSE,
           TypeOK, SettledInv, [Next]_vars
    PROVE  SettledInv'
<1> USE WorkAssumption DEF Work, Fields, Marks, TypeOK
<1>0. /\ \A j \in Jobs, t \in Turns : IdOf[j]["message"] # t
      /\ \A t \in Turns : t # NoId /\ t \notin Jobs
      /\ \A v, w \in Work, f \in Marks : IdOf[v][f] = IdOf[w][f] /\ IdOf[v][f] # NoId => v = w
  BY DEF ReportsApart
\* A step that posts and handles nothing, and leaves what jobs have made of the fields.
<1>1. ASSUME UNCHANGED <<events, reported>>,
             \A j \in Jobs : pc[j] = "ended" => pc'[j] = "ended",
             \A t \in Turns : active'["message"] = t => pc'[t] = "sent",
             \A j \in Jobs, f \in Marks : reported[j] = "finished" /\ active'[f] = IdOf[j][f]
                => active'[f] = active[f] \/ active'[f] = NoId
      PROVE  SettledInv'
  <2>1. \A j \in Jobs : Ended(j)' <=> Ended(j)
    BY <1>1 DEF Ended
  <2>2. PostsInv'
    BY <1>1 DEF SettledInv, PostsInv
  <2>3. OrderInv'
    BY <1>1, <2>1 DEF SettledInv, OrderInv, PostsInv
  <2>4. \A j \in Jobs, f \in Marks :
           active'[f] = IdOf[j][f] /\ active'[f] # NoId /\ reported'[j] = "finished" => Ended(j)'
    BY <1>1, <2>1 DEF SettledInv, MarksInv
  <2> QED BY <1>1, <2>2, <2>3, <2>4 DEF SettledInv, MarksInv
<1>2. \A t \in Turns : active["message"] = t => pc[t] = "sent"
  BY DEF SettledInv, MarksInv
<1>3. ASSUME NEW t \in Turns, StartTurn(t) PROVE SettledInv'
  BY <1>0, <1>1, <1>2, <1>3 DEF StartTurn
<1>4. ASSUME NEW t \in Turns, TurnEnds(t) PROVE SettledInv'
  <2>1. CASE TurnAnswered(t)
    <3>1. /\ active'["message"] = IF active["message"] = t THEN NoId ELSE active["message"]
          /\ active'["agent"] = active["agent"] /\ active'["run"] = active["run"]
      BY <2>1 DEF TurnAnswered, MessageAfter, Adopt, ReportsApart
    <3>2. UNCHANGED <<events, reported>> /\ pc' = [pc EXCEPT ![t] = "ended"]
      BY <2>1 DEF TurnAnswered
    <3> QED BY <1>0, <1>1, <1>2, <3>1, <3>2
  <2>2. CASE TurnUnanswered(t)
    BY <2>2 DEF TurnUnanswered
  <2>3. CASE TurnFails(t)
    BY <1>0, <1>1, <1>2, <2>3 DEF TurnFails
  <2> QED BY <1>4, <2>1, <2>2, <2>3 DEF TurnEnds
<1>5. ASSUME NEW t \in Turns, TurnAbandoned(t) PROVE SettledInv'
  BY <1>5 DEF TurnAbandoned
<1>6. ASSUME NEW j \in Jobs, Submit(j) \/ SubmissionFails(j) PROVE SettledInv'
  BY <1>0, <1>1, <1>2, <1>6 DEF Submit, SubmissionFails
<1>7. ASSUME NEW j \in Jobs, SubmissionAnswered(j) PROVE SettledInv'
  <2>1. /\ UNCHANGED <<events, reported>> /\ pc' = [pc EXCEPT ![j] = "ended"]
        /\ pc[j] = "sent" /\ active' = Adopt(j, {"session", "message", "agent"})
    BY <1>7 DEF SubmissionAnswered
  <2>2. reported[j] = "nothing"
    BY <2>1 DEF SettledInv, PostsInv
  <2>3. \A f \in Marks : \/ active'[f] = active[f]
                         \/ active'[f] = IdOf[j][f] /\ IdOf[j][f] # NoId
    BY <2>1, Adopted
  <2>4. \A t \in Turns : active'["message"] = t => pc'[t] = "sent"
    BY <1>0, <1>2, <2>1, <2>3
  <2>5. ASSUME NEW i \in Jobs, NEW f \in Marks, reported[i] = "finished", active'[f] = IdOf[i][f]
        PROVE  active'[f] = active[f] \/ active'[f] = NoId
    BY <1>0, <2>2, <2>3, <2>5
  <2> QED BY <1>1, <2>1, <2>4, <2>5
<1>8. ASSUME NEW j \in Jobs, DaemonReports(j) PROVE SettledInv'
  <2>1. /\ UNCHANGED <<active, pc>> /\ pc[j] = "ended" /\ events \subseteq events'
        /\ \A e \in events' : e \in events \/ e.of = j
        /\ \A i \in Jobs : i # j => reported'[i] = reported[i]
    BY <1>8 DEF DaemonReports
  <2>2. reported'[j] # "finished" \/ Ended(j)'
    <3>1. CASE reported' = [reported EXCEPT ![j] = "running"]
      BY <3>1
    <3>2. ASSUME NEW s \in Terminal, events' = events \cup {[of |-> j, status |-> s]}
          PROVE  Ended(j)'
      <4>1. [of |-> j, status |-> s] \in events'
        BY <3>2
      <4> QED BY <3>2, <4>1 DEF Ended
    <3> QED BY <1>8, <3>1, <3>2 DEF DaemonReports
  <2>3. \A i \in Jobs : Ended(i) => Ended(i)'
    BY <2>1 DEF Ended
  <2>4. PostsInv'
    BY <2>1 DEF SettledInv, PostsInv
  <2>5. OrderInv'
    BY <2>1, <2>2, <2>3, <2>4 DEF SettledInv, OrderInv, PostsInv
  <2>6. MarksInv'
    BY <2>1, <2>2, <2>3 DEF SettledInv, MarksInv
  <2> QED BY <2>4, <2>5, <2>6 DEF SettledInv
<1>9. ASSUME NEW k \in Cancels, SendCancel(k) \/ CancelFails(k) PROVE SettledInv'
  BY <1>0, <1>1, <1>2, <1>9 DEF SendCancel, CancelFails
<1>10. ASSUME NEW k \in Cancels, CancelReturns(k) PROVE SettledInv'
  BY <1>0, <1>1, <1>2, <1>10 DEF CancelReturns
<1>11. ASSUME NEW e \in events, HandleEvent(e) PROVE SettledInv'
  <2>1. /\ UNCHANGED <<pc, reported>> /\ events' = events \ {e} /\ e.of \in Jobs
        /\ e.status \in Terminal \cup Ongoing
    BY <1>11 DEF HandleEvent, SettledInv, PostsInv
  <2>2. PostsInv'
    BY <2>1 DEF SettledInv, PostsInv
  <2>3. CASE e.status \in Terminal
    <3>1. \A d \in events' : d.of # e.of
      BY <1>11, <2>1, <2>3 DEF HandleEvent, Terminal, Ongoing
    <3>2. \A f \in Fields : active'[f] \in {NoId, active[f]} /\ (active[f] = IdOf[e.of][f] => active'[f] = NoId)
      BY <1>11, <2>3 DEF HandleEvent
    <3>3. \A i \in Jobs : i # e.of /\ Ended(i) => Ended(i)'
      BY <2>1 DEF Ended
    <3>4. OrderInv'
      BY <2>1, <2>2, <3>1, <3>3 DEF SettledInv, OrderInv, PostsInv
    <3>5. MarksInv'
      BY <1>0, <2>1, <3>2, <3>3 DEF SettledInv, MarksInv
    <3> QED BY <2>2, <3>4, <3>5 DEF SettledInv
  <2>4. CASE e.status \notin Terminal
    <3>1. \A i \in Jobs : Ended(i) => Ended(i)'
      BY <2>1, <2>4 DEF Ended
    <3>2. OrderInv'
      BY <2>1, <2>2, <3>1 DEF SettledInv, OrderInv, PostsInv
    <3>3. reported[e.of] = "finished" => Ended(e.of)'
      BY <2>1, <3>1 DEF SettledInv, OrderInv
    <3>4. \A f \in Marks : \/ active'[f] = active[f]
                           \/ active'[f] = IdOf[e.of][f] /\ IdOf[e.of][f] # NoId
      BY <1>11, <2>1, <2>4, Adopted DEF HandleEvent
    <3>5. MarksInv'
      BY <1>0, <1>2, <2>1, <3>1, <3>3, <3>4 DEF SettledInv, MarksInv
    <3> QED BY <2>2, <3>2, <3>5 DEF SettledInv
  <2> QED BY <2>3, <2>4
<1>12. CASE StatusRefreshed
  BY <1>0, <1>1, <1>2, <1>12 DEF StatusRefreshed
<1>13. CASE UNCHANGED vars
  BY <1>0, <1>1, <1>2, <1>13 DEF vars
<1> QED
  BY <1>3, <1>4, <1>5, <1>6, <1>7, <1>8, <1>9, <1>10, <1>11, <1>12, <1>13 DEF Next

\* Once everything has arrived, nothing that is over is shown as active, for any number of turns
\* and jobs that overlap in any way, if the daemon tells them apart and reports in order.
THEOREM NothingOverIsActive ==
    ASSUME ReportsApart, InOrder = TRUE, NoFinal = FALSE, NamesTurn = TRUE, Abandons = FALSE
    PROVE  Spec => []Settled
<1>1. Init => SettledInv
  BY WorkAssumption DEF Init, SettledInv, PostsInv, OrderInv, MarksInv, Work, Fields
<1>2. TypeOK /\ SettledInv /\ [Next]_vars => SettledInv'
  BY StepSettles
<1>3. TypeOK /\ SettledInv => Settled
  <2> SUFFICES ASSUME SettledInv, \A x \in Work \cup Cancels : pc[x] # "sent", events = {},
                      NEW w \in Work, Over(w), NEW f \in Marks, IdOf[w][f] # NoId
               PROVE  active[f] # IdOf[w][f]
    BY DEF Settled, Marks
  <2>1. CASE w \in Turns
    <3>1. f = "message"
      BY <2>1 DEF ReportsApart, Marks
    <3> QED BY <2>1, <3>1, WorkAssumption DEF SettledInv, MarksInv
  <2>2. CASE w \in Jobs
    <3>1. ~Ended(w) /\ reported[w] = "finished"
      BY <2>2, WorkAssumption DEF Over, Ended
    <3> QED BY <2>2, <3>1 DEF SettledInv, MarksInv
  <2> QED BY <2>1, <2>2 DEF Work
<1> QED
  BY <1>1, <1>2, <1>3, TypeCorrect, PTL DEF Spec

=============================================================================
