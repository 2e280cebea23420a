------------------------------- MODULE Turns -------------------------------
(***************************************************************************)
(* The work an entry shows as active: Assist turns streamed from the daemon *)
(* (conversation.py), prompts and agent runs submitted by services, the bus *)
(* events the daemon posts about them, and goodvibes.cancel (data.py,       *)
(* services.py).                                                            *)
(*                                                                          *)
(* Four writers share the active_*_id fields and status: the turn and the   *)
(* submission when their HTTP response arrives, the event handler when the  *)
(* daemon's POST arrives, and the cancel service when its own request       *)
(* returns.  Nothing orders a response against the events for the same work. *)
(***************************************************************************)
EXTENDS FiniteSets

CONSTANTS
    Turns,        \* Assist turns; a turn is its own message id
    Jobs,         \* goodvibes.prompt and goodvibes.run_agent calls
    Cancels,      \* goodvibes.cancel calls
    Ids,          \* ids the daemon gives to messages, sessions, agents and runs
    NoId,         \* None
    IdOf,         \* IdOf[w]: the ids the daemon reports for work w
    CallerIds,    \* ids (of a message, session, run or task) a caller of cancel may give
    Overlapping,  \* two Assist turns may be under way at once
    InOrder,      \* what the daemon says of a job arrives in the order it is said
    NoFinal,      \* a stream may end without a final frame
    NamesTurn,    \* every final frame names the message of its turn
    Abandons      \* an Assist pipeline may be cancelled in the middle of a turn

Work == Turns \cup Jobs

Fields == {"message", "session", "agent", "run"}

ASSUME WorkAssumption ==
    /\ Turns \cap Jobs = {} /\ Cancels \cap Work = {} /\ Turns \subseteq Ids /\ NoId \notin Ids
    /\ IdOf \in [Work -> [Fields -> Ids \cup {NoId}]]
    /\ \A t \in Turns : IdOf[t]["message"] = t
    /\ CallerIds \subseteq Ids
    /\ {Overlapping, InOrder, NoFinal, NamesTurn, Abandons} \subseteq BOOLEAN

\* The statuses that end work, of TERMINAL_STATUSES, and those that do not.
Terminal == {"completed", "failed", "cancelled"}
Ongoing == {"running"}

VARIABLES
    active,    \* active[f]: active_message_id, active_session_id, ...
    status,    \* status, as the turns, the events and the refresh write it
    pc,        \* pc[x]: where the turn, submission or cancel call x is
    asked,     \* asked[k]: the ids cancel call k has asked the daemon to cancel
    reported,  \* reported[w]: what the daemon has reported of work w on the bus
    events     \* the posts under way or not yet handled: [of : Work, status : ...]

vars == <<active, status, pc, asked, reported, events>>

TypeOK ==
    /\ active \in [Fields -> Ids \cup {NoId}]
    /\ status \in {"unknown", "running", "processing", "queued", "acknowledged",
                   "conversation", "error", "unavailable"} \cup Terminal
    /\ pc \in [Work \cup Cancels -> {"idle", "sent", "ended", "abandoned"}]
    /\ asked \in [Cancels -> SUBSET Ids]
    /\ reported \in [Work -> {"nothing", "running", "finished"}]
    /\ events \subseteq [of : Work, status : Terminal \cup Ongoing]

Init ==
    /\ active = [f \in Fields |-> NoId]
    /\ status = "unknown"
    /\ pc = [x \in Work \cup Cancels |-> "idle"]
    /\ asked = [k \in Cancels |-> {}]
    /\ reported = [w \in Work |-> "nothing"]
    /\ events = {}

\* The fields named in only, set to the ids the daemon reports of w where it does.
Adopt(w, only) ==
    [f \in Fields |-> IF f \in only /\ IdOf[w][f] # NoId THEN IdOf[w][f] ELSE active[f]]

-----------------------------------------------------------------------------
(* Assist turns: _async_handle_message.                                        *)

\* async_start_conversation_turn, then the request goes out.
StartTurn(t) ==
    /\ pc[t] = "idle"
    /\ Overlapping \/ \A u \in Turns : pc[u] # "sent"
    /\ active' = [active EXCEPT !["message"] = t]
    /\ status' = "processing"
    /\ pc' = [pc EXCEPT ![t] = "sent"]
    /\ UNCHANGED <<asked, reported, events>>

\* Mutant: the response clears whatever message id is active.
MessageCleared(t, s) == {NoId}

\* The message id left active by a final frame with status s: the frame clears the
\* id it names; one that names none clears any, if the turn has ended.
MessageAfter(t, s) ==
    {IF active["message"] = t THEN NoId ELSE active["message"]}
        \cup IF NamesTurn THEN {} ELSE {IF s \in Terminal THEN NoId ELSE active["message"]}

\* The final frame, then the end of the stream: async_apply_conversation_response.
\* Without a status the mode shows.
TurnAnswered(t) ==
    /\ pc[t] = "sent"
    /\ pc' = [pc EXCEPT ![t] = "ended"]
    /\ \E s \in Terminal \cup {"conversation"} : \E m \in MessageAfter(t, s) :
          /\ status' = s
          /\ active' = [Adopt(t, {"session", "agent"}) EXCEPT !["message"] = m]
    /\ UNCHANGED <<asked, reported, events>>

\* The stream ends without a final frame: an empty result is applied.
TurnUnanswered(t) ==
    /\ NoFinal
    /\ pc[t] = "sent"
    /\ pc' = [pc EXCEPT ![t] = "ended"]
    /\ status' = "conversation"
    /\ UNCHANGED <<active, asked, reported, events>>

\* Mutant: a failed turn keeps the status it had.
TurnFailsQuietly(t) ==
    /\ pc[t] = "sent"
    /\ pc' = [pc EXCEPT ![t] = "ended"]
    /\ active' = IF active["message"] = t THEN [active EXCEPT !["message"] = NoId] ELSE active
    /\ UNCHANGED <<status, asked, reported, events>>

\* Mutant: a failed turn leaves its message id active.
TurnFailsKeepingId(t) ==
    /\ pc[t] = "sent"
    /\ pc' = [pc EXCEPT ![t] = "ended"]
    /\ status' = "error"
    /\ UNCHANGED <<active, asked, reported, events>>

\* An error frame, a timeout, a lost connection: async_apply_conversation_error.
TurnFails(t) ==
    /\ pc[t] = "sent"
    /\ pc' = [pc EXCEPT ![t] = "ended"]
    /\ status' = "error"
    /\ active' = IF active["message"] = t THEN [active EXCEPT !["message"] = NoId] ELSE active
    /\ UNCHANGED <<asked, reported, events>>

\* The pipeline's task is cancelled: only GoodVibesClientError is handled.
TurnAbandoned(t) ==
    /\ Abandons
    /\ pc[t] = "sent"
    /\ pc' = [pc EXCEPT ![t] = "abandoned"]
    /\ UNCHANGED <<active, status, asked, reported, events>>

-----------------------------------------------------------------------------
(* Submissions: async_prompt and async_run_agent.                              *)

Submit(j) ==
    /\ pc[j] = "idle"
    /\ pc' = [pc EXCEPT ![j] = "sent"]
    /\ UNCHANGED <<active, status, asked, reported, events>>

\* async_apply_submission_response
SubmissionAnswered(j) ==
    /\ pc[j] = "sent"
    /\ pc' = [pc EXCEPT ![j] = "ended"]
    /\ active' = Adopt(j, {"session", "message", "agent"})
    /\ status' \in {"queued", "acknowledged"}
    /\ UNCHANGED <<asked, reported, events>>

\* The request fails and the service raises; the daemon may have taken the job.
SubmissionFails(j) ==
    /\ pc[j] = "sent"
    /\ pc' = [pc EXCEPT ![j] = "ended"]
    /\ UNCHANGED <<active, status, asked, reported, events>>

-----------------------------------------------------------------------------
(* goodvibes.cancel.                                                           *)

\* What a call that names nothing asks to cancel: the active conversation, else the run.
ActiveTarget ==
    LET conversation == {active["session"], active["message"]} \ {NoId}
    IN  IF conversation # {} THEN conversation ELSE {active["run"]} \ {NoId}

\* async_cancel sends its request: for what the caller names, else for what is active.
SendCancel(k) ==
    /\ pc[k] = "idle"
    /\ \E ids \in {{i} : i \in CallerIds} \cup ({ActiveTarget} \ {{}}) :
          asked' = [asked EXCEPT ![k] = ids]
    /\ pc' = [pc EXCEPT ![k] = "sent"]
    /\ UNCHANGED <<active, status, reported, events>>

\* The daemon's answer: whatever was cancelled, no work is active now.
CancelReturns(k) ==
    /\ pc[k] = "sent"
    /\ pc' = [pc EXCEPT ![k] = "ended"]
    /\ active' = [f \in Fields |-> NoId]
    /\ status' = "cancelled"
    /\ UNCHANGED <<asked, reported, events>>

\* No active id to cancel, or the request fails: the service raises.
CancelFails(k) ==
    /\ \/ pc[k] = "sent"
       \/ pc[k] = "idle" /\ ActiveTarget = {}
    /\ pc' = [pc EXCEPT ![k] = "ended"]
    /\ UNCHANGED <<active, status, asked, reported, events>>

-----------------------------------------------------------------------------
(* The daemon's events.                                                        *)

\* The daemon posts what has become of a job it was sent (external).
DaemonReports(j) ==
    /\ pc[j] # "idle" /\ reported[j] # "finished"
    /\ InOrder => pc[j] = "ended"
    /\ \/ /\ reported[j] = "nothing"
          /\ reported' = [reported EXCEPT ![j] = "running"]
          /\ \E s \in Ongoing : events' = events \cup {[of |-> j, status |-> s]}
       \/ /\ reported' = [reported EXCEPT ![j] = "finished"]
          /\ \E s \in Terminal : events' = events \cup {[of |-> j, status |-> s]}
    /\ UNCHANGED <<active, status, pc, asked>>

\* async_handle_event: a terminal status clears the ids it names, and those it does
\* not mention; any other status makes the ids it names the active ones.
HandleEvent(e) ==
    /\ InOrder => e.status \in Ongoing \/ \A d \in events : d.of = e.of => d = e
    /\ events' = events \ {e}
    /\ status' = e.status
    /\ active' = IF e.status \in Terminal
                 THEN [f \in Fields |-> IF IdOf[e.of][f] \in {NoId, active[f]}
                                        THEN NoId ELSE active[f]]
                 ELSE Adopt(e.of, Fields)
    /\ UNCHANGED <<pc, asked, reported>>

\* A daemon refresh writes status too (Connection says when).
StatusRefreshed ==
    /\ status' \in {"running", "unavailable", "error"}
    /\ UNCHANGED <<active, pc, asked, reported, events>>

-----------------------------------------------------------------------------

TurnEnds(t) == TurnAnswered(t) \/ TurnUnanswered(t) \/ TurnFails(t)

Next ==
    \/ \E t \in Turns : StartTurn(t) \/ TurnEnds(t) \/ TurnAbandoned(t)
    \/ \E j \in Jobs :
          Submit(j) \/ SubmissionAnswered(j) \/ SubmissionFails(j) \/ DaemonReports(j)
    \/ \E k \in Cancels : SendCancel(k) \/ CancelReturns(k) \/ CancelFails(k)
    \/ \E e \in events : HandleEvent(e)
    \/ StatusRefreshed

Spec == Init /\ [][Next]_vars

-----------------------------------------------------------------------------
(* Properties.                                                                 *)

\* Isolation of concurrent work (data.py:583, 638, 662): where the daemon names what it
\* answers, a message id that is active is dropped only by the end of its own turn, by
\* an event about its own work, or by the return of a cancel; another turn's response
\* never drops it.
DroppedByItsOwnEnd ==
    [][\A w \in Work :
          active["message"] = IdOf[w]["message"] /\ active'["message"] = NoId
             /\ IdOf[w]["message"] # NoId
          => \/ pc[w] = "sent" /\ pc'[w] = "ended"
             \/ \E e \in events \ events' : e.of = w
             \/ \E k \in Cancels : pc[k] = "sent" /\ pc'[k] = "ended"]_vars

\* "processing" is never left behind by a turn that has ended (data.py:619-666).
ProcessingIsATurn ==
    status = "processing" => \E t \in Turns : pc[t] = "sent"

\* Work that is over: a turn that is not streaming, a job whose end was reported.
Over(w) == IF w \in Turns THEN pc[w] # "sent" ELSE reported[w] = "finished"

\* Once the daemon's responses and events have all arrived, what the entry shows as
\* active (README.md:91) and would cancel (docs/services.md:14) is not over.
Settled ==
    (\A x \in Work \cup Cancels : pc[x] # "sent") /\ events = {} =>
        \A w \in Work : Over(w) =>
            \A f \in {"message", "agent", "run"} :
                IdOf[w][f] # NoId => active[f] # IdOf[w][f]

\* The daemon has been asked to cancel turn t, by its message or by its session.
AskedToCancel(t) == \E k \in Cancels, f \in Fields : IdOf[t][f] \in asked[k]

\* A turn in progress that nobody asked to cancel is marked as such (data.py:621).
TurnIsMarked ==
    (\E t \in Turns : pc[t] = "sent" /\ ~AskedToCancel(t)) => active["message"] # NoId

=============================================================================
