---------------------------- MODULE MailCalendar ----------------------------
(***************************************************************************)
(* What Home Assistant says of the daemon's mail and calendar: the probe     *)
(* inside a refresh, the calls of services and of the calendar entity, and   *)
(* how an error is typed (client.py), classified (mail_calendar.py) and      *)
(* recorded on the runtime all of them share (data.py).                      *)
(***************************************************************************)
EXTENDS Naturals, FiniteSets

CONSTANTS
    Requests,    \* coroutines: each is one probe or one call
    ProbeOf,     \* ProbeOf[q]: what q does: "refresh", "create", "read" or "admin"
    MailAdmins   \* the requests made by an administrator

\* What a request may meet.  The daemon is started, stopped, updated and given accounts and
\* tokens at any moment, so two requests may meet different outcomes in any order; "missing" is
\* one message or event that is gone from a mailbox the daemon serves.
Outcomes ==
    {"connected", "faulty", "no_account", "no_account_old", "old", "disabled", "unwired",
     "refused", "missing", "down"}

ASSUME MailAssumption ==
    /\ ProbeOf \in [Requests -> {"refresh", "create", "read", "admin"}]
    /\ MailAdmins \subseteq Requests

VARIABLES
    mail,   \* runtime.mail_calendar: its state, and whether it holds events
    step,   \* step[q]: "new", "out" while its request is, "probing" again, "done"
    reply,  \* reply[q]: what q met, or "none" (yet, or once a probe took it)
    told,   \* told[q]: the state behind the error raised to q's caller, or "nothing"
    basis   \* ghost: the outcome that recorded mail

mailVars == <<mail, step, reply, told, basis>>

States == {"unknown", "ready", "needs_setup", "unsupported", "unavailable"}

MailTypeOK ==
    /\ mail \in [state : States, events : BOOLEAN]
    /\ step \in [Requests -> {"new", "out", "probing", "done"}]
    /\ reply \in [Requests -> Outcomes \cup {"none"}]
    /\ told \in [Requests -> States \cup {"nothing"}]
    /\ basis \in Outcomes \cup {"none"}

MailInit ==
    /\ mail = [state |-> "unknown", events |-> FALSE]
    /\ step = [q \in Requests |-> "new"]
    /\ reply = [q \in Requests |-> "none"]
    /\ told = [q \in Requests |-> "nothing"]
    /\ basis = "none"

-----------------------------------------------------------------------------
(* From the daemon's answer to a state.                                        *)

\* The answer each outcome stands for; an old daemon without an account says so in words.
DaemonAnswer(c) ==
    CASE c = "connected" -> [status |-> 200, code |-> "none", words |-> "none"]
      [] c = "faulty" -> [status |-> 500, code |-> "INTERNAL", words |-> "none"]
      [] c = "no_account" -> [status |-> 409, code |-> "CALENDAR_NOT_CONFIGURED", words |-> "none"]
      [] c = "no_account_old" -> [status |-> 400, code |-> "none", words |-> "no_account"]
      [] c = "old" -> [status |-> 404, code |-> "none", words |-> "none"]
      [] c = "disabled" -> [status |-> 400, code |-> "none", words |-> "surface_disabled"]
      [] c = "unwired" -> [status |-> 501, code |-> "NOT_INVOKABLE", words |-> "none"]
      [] c = "refused" -> [status |-> 401, code |-> "none", words |-> "none"]
      [] c = "missing" -> [status |-> 404, code |-> "NOT_FOUND", words |-> "none"]
      [] c = "down" -> [status |-> 0, code |-> "none", words |-> "none"]

\* _request and _error_for_status: the type of the error raised, by status first.
ErrorType(a) ==
    CASE a.status = 0 -> "GoodVibesUnavailableError"
      [] a.status \in {401, 403} -> "GoodVibesUnauthorizedError"
      [] \/ a.status = 404 \/ (a.status = 501 /\ a.code = "NOT_INVOKABLE")
         \/ a.words = "surface_disabled" -> "GoodVibesSurfaceMissingError"
      [] OTHER -> "GoodVibesDaemonError"

NotConfiguredCodes == {"EMAIL_NOT_CONFIGURED", "CALENDAR_NOT_CONFIGURED", "EMAIL_CREDENTIALS_MISSING"}

\* Mutant: only the wording is looked at.
ClassifiedByWords(a) ==
    CASE a.status < 400 /\ a.status # 0 -> "ready"
      [] ErrorType(a) = "GoodVibesUnavailableError" -> "unavailable"
      [] ErrorType(a) = "GoodVibesSurfaceMissingError" -> "unsupported"
      [] a.words = "no_account" -> "needs_setup"
      [] OTHER -> "ready"

\* classify_error; an answer that is no error makes the probe say ready.
Classified(a) ==
    CASE a.status < 400 /\ a.status # 0 -> "ready"
      [] ErrorType(a) = "GoodVibesUnavailableError" -> "unavailable"
      [] ErrorType(a) = "GoodVibesSurfaceMissingError" -> "unsupported"
      [] a.code \in NotConfiguredCodes \/ a.words = "no_account" -> "needs_setup"
      [] OTHER -> "ready"

Fails(c) == DaemonAnswer(c).status = 0 \/ DaemonAnswer(c).status >= 400

-----------------------------------------------------------------------------

\* _async_verify_admin: sending and drafting are for administrators.
Allowed(q) == ProbeOf[q] = "admin" => q \in MailAdmins

\* A request is sent, whatever the state is.  Refreshes are coalesced, so there is one such
\* probe at a time.
MailSent(q) ==
    /\ step[q] = "new" /\ Allowed(q)
    /\ ProbeOf[q] = "refresh" => \A p \in Requests : ProbeOf[p] = "refresh" => step[p] # "out"
    /\ step' = [step EXCEPT ![q] = "out"]
    /\ UNCHANGED <<mail, reply, told, basis>>

\* Only a call that reads one message or event names something that can be missing.
Met(q) == IF ProbeOf[q] = "read" THEN Outcomes ELSE Outcomes \ {"missing"}

\* The request meets an outcome; the answers of several requests travel in any order.
DaemonReplies(q) ==
    /\ step[q] \in {"out", "probing"} /\ reply[q] = "none"
    /\ \E c \in Met(q) : reply' = [reply EXCEPT ![q] = c]
    /\ UNCHANGED <<mail, step, told, basis>>

\* async_apply_mail_calendar_error
MailAfterError(c) ==
    [state |-> Classified(DaemonAnswer(c)), events |-> mail.events /\ Classified(DaemonAnswer(c)) = "ready"]

\* Mutant: the message is made before the error is recorded.
ToldBefore(c) == mail.state

\* error_message: the next step of the state on the runtime, which the error has just set.
Told(c) == MailAfterError(c).state

\* async_refresh_mail_calendar: the probe's outcome replaces what was known.
Probed(c) == [state |-> Classified(DaemonAnswer(c)), events |-> ~Fails(c)]

\* A probe is answered, and nothing is kept of the answer but the state.
ProbeAnswered(q) ==
    /\ (step[q] = "out" /\ ProbeOf[q] = "refresh") \/ step[q] = "probing"
    /\ reply[q] # "none"
    /\ mail' = Probed(reply[q]) /\ basis' = reply[q]
    /\ step' = [step EXCEPT ![q] = "done"] /\ reply' = [reply EXCEPT ![q] = "none"]
    /\ UNCHANGED told

\* A call fails: the reason is recorded for everybody and raised to the caller.
CallFails(q) ==
    /\ step[q] = "out" /\ ProbeOf[q] # "refresh" /\ reply[q] # "none" /\ Fails(reply[q])
    /\ mail' = MailAfterError(reply[q]) /\ basis' = reply[q]
    /\ told' = [told EXCEPT ![q] = Told(reply[q])]
    /\ step' = [step EXCEPT ![q] = "done"]
    /\ UNCHANGED reply

\* A call succeeds and leaves the state alone; an event created is followed by a probe.
CallReturns(q) ==
    /\ step[q] = "out" /\ ProbeOf[q] # "refresh" /\ reply[q] # "none" /\ ~Fails(reply[q])
    /\ IF ProbeOf[q] = "create"
       THEN step' = [step EXCEPT ![q] = "probing"] /\ reply' = [reply EXCEPT ![q] = "none"]
       ELSE step' = [step EXCEPT ![q] = "done"] /\ UNCHANGED reply
    /\ UNCHANGED <<mail, told, basis>>

MailNext ==
    \E q \in Requests :
        MailSent(q) \/ DaemonReplies(q) \/ ProbeAnswered(q) \/ CallFails(q) \/ CallReturns(q)

MailSpec == MailInit /\ [][MailNext]_mailVars

-----------------------------------------------------------------------------

\* What each outcome is to be called (the table of mail_calendar.py:13-23).  An unclassified
\* error does not condemn the surface, a refused token is to be checked like an address, and a
\* message that is gone says nothing of the mailbox.
Meaning ==
    [c \in Outcomes |->
        CASE c \in {"connected", "faulty", "missing"} -> "ready"
          [] c \in {"no_account", "no_account_old"} -> "needs_setup"
          [] c \in {"old", "disabled", "unwired"} -> "unsupported"
          [] c \in {"refused", "down"} -> "unavailable"]

\* What the code calls each outcome: the table's word, but for two.  A 401 or 403 falls through
\* to "ready" (mail_calendar.py:129), and a 404 about one message makes the whole surface
\* "unsupported" (client.py:805-811).
Called == [Meaning EXCEPT !["refused"] = "ready", !["missing"] = "unsupported"]

\* Whatever probes and calls overlap, the state shown is the whole verdict of one answer, under
\* the name the code has for it: an older answer may win over a newer one, and a refused token
\* and a missing message are shown under a name that is not the table's, but no two answers are
\* mixed.  Events are never shown beside a reason why there are none (data.py:319-350,
\* client.py:773-803).
ReasonIsTrue ==
    /\ mail.state = IF basis = "none" THEN "unknown" ELSE Called[basis]
    /\ mail.events => mail.state = "ready"

\* A caller whose request failed is told what is made of its own failure, not a reason that
\* another request left on the shared state (services.py:1229-1240).
ToldItsOwnReason ==
    \A q \in Requests : told[q] # "nothing" => Fails(reply[q]) /\ told[q] = Called[reply[q]]
=============================================================================
