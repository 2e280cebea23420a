----------------------------- MODULE PanelTriage -----------------------------
(***************************************************************************)
(* The review queue of the GoodVibes Home panel in one browser               *)
(* (frontend/src/goodvibes-home-panel.js): the list of open issues that every *)
(* refresh reads again, and the triage the daemon is asked for in the         *)
(* background, batch by batch.                                               *)
(*                                                                          *)
(* All of it are promises of one page that share its fields.  The daemon      *)
(* answers a read at once and the answer may take long.  A failed call is an  *)
(* _error that some later call clears: whether one stands is left open.       *)
(***************************************************************************)
EXTENDS Naturals, FiniteSets

CONSTANTS
    Issues,      \* the issues the daemon may find
    Refreshers,  \* runs of _refreshAll that may be under way at once
    Triagers,    \* runs of _autoTriageReviewQueue that may be under way at once
    BatchLimit,  \* AUTO_TRIAGE_BATCH_LIMIT
    NamesBatch,  \* whether the daemon names the issues of a batch, in processedIssueIds
    MaxFound,    \* bound: issues found, or found again, by the daemon
    MaxManual    \* bound: triages the user asks for

ASSUME PanelAssumption ==
    /\ IsFiniteSet(Issues) /\ Refreshers \cap Triagers = {}
    /\ BatchLimit \in Nat \ {0} /\ NamesBatch \in BOOLEAN /\ MaxFound \in Nat /\ MaxManual \in Nat

VARIABLES
    openNow,    \* the issues that are open, in the daemon
    listed,     \* _issues
    counted,    \* the issue count of _status
    signature,  \* _lastTriageSignature, {} for ""
    queued,     \* _triageQueued
    inFlight,   \* _triageInFlight
    seenIds,    \* _triageSeenIssueIds
    total,      \* _triageProgress.total, 0 without progress
    at,         \* at[p]: the call p waits for, or "idle"
    saw,        \* saw[p]: the list in the answer on its way to p
    batch,      \* batch[t]: what the daemon says it did in t's triage
    found, manual

queueVars == <<signature, queued, seenIds, total>>
boundVars == <<found, manual>>
panelVars == <<openNow, listed, counted, queueVars, inFlight, at, saw, batch, boundVars>>

Nothing == [processed |-> {}, rejects |-> FALSE, remaining |-> FALSE]

PanelTypeOK ==
    /\ openNow \subseteq Issues /\ listed \subseteq Issues
    /\ counted \in 0 .. Cardinality(Issues) /\ total \in 0 .. Cardinality(Issues)
    /\ queued \in BOOLEAN /\ inFlight \in BOOLEAN
    /\ signature \subseteq Issues /\ seenIds \subseteq Issues
    /\ at \in [Refreshers \cup Triagers ->
                  {"idle", "status", "lists", "rest", "triage", "triaged", "reread", "browse"}]
    /\ saw \in [Refreshers \cup Triagers -> SUBSET Issues]
    /\ batch \in [Triagers -> [processed : SUBSET Issues, rejects : BOOLEAN, remaining : BOOLEAN]]
    /\ found \in 0..MaxFound /\ manual \in 0..MaxManual

PanelInit ==
    /\ openNow = {} /\ listed = {} /\ counted = 0
    /\ signature = {} /\ queued = FALSE /\ seenIds = {} /\ total = 0 /\ inFlight = FALSE
    /\ at = [p \in Refreshers \cup Triagers |-> "idle"]
    /\ saw = [p \in Refreshers \cup Triagers |-> {}]
    /\ batch = [t \in Triagers |-> Nothing]
    /\ found = 0 /\ manual = 0

\* p begins a call.
Asks(p, what) ==
    /\ at' = [at EXCEPT ![p] = what]
    /\ saw' = [saw EXCEPT ![p] = IF what \in {"lists", "reread"} THEN openNow ELSE {}]

\* The daemon finds an issue.
IssueFound(i) ==
    /\ found < MaxFound /\ i \notin openNow
    /\ found' = found + 1 /\ openNow' = openNow \cup {i}
    /\ UNCHANGED <<listed, counted, queueVars, inFlight, at, saw, batch, manual>>

\* A user reviews an issue, on this page or elsewhere.
IssueReviewed(i) ==
    /\ i \in openNow
    /\ openNow' = openNow \ {i}
    /\ UNCHANGED <<listed, counted, queueVars, inFlight, at, saw, batch, boundVars>>

-----------------------------------------------------------------------------
(* _queueAutoTriage                                                            *)

IssueTotal(count, list) == IF count # 0 THEN count ELSE Cardinality(list)

\* Mutant: the list is triaged after every refresh, whether it has changed or not.
QueuedAlways(list) ==
    IF inFlight \/ queued THEN UNCHANGED queueVars
    ELSE IF list = {} THEN signature' = {} /\ UNCHANGED <<queued, seenIds, total>>
    ELSE /\ signature' = list /\ queued' = TRUE
         /\ seenIds' = {} /\ total' = IssueTotal(counted, list)

\* A refresh asks for a triage of what is listed, unless that was triaged as it is.
QueuedAfterRefresh(list) ==
    IF inFlight \/ queued THEN UNCHANGED queueVars
    ELSE IF list = {} THEN signature' = {} /\ UNCHANGED <<queued, seenIds, total>>
    ELSE IF list = signature THEN UNCHANGED queueVars
    ELSE /\ signature' = list /\ queued' = TRUE
         /\ seenIds' = {} /\ total' = IssueTotal(counted, list)

\* A batch asks for the next: the run goes on with what it has seen.
QueuedAfterBatch(list) ==
    /\ signature' = IF queued THEN {} ELSE list
    /\ queued' = (queued \/ list # {})
    /\ UNCHANGED total

-----------------------------------------------------------------------------
(* _refreshAll                                                                 *)

\* When the page opens, on a click, after a review or an ingest.
RefreshBegins(r) ==
    /\ at[r] = "idle"
    /\ Asks(r, "status")
    /\ UNCHANGED <<openNow, listed, counted, queueVars, inFlight, batch, boundVars>>

\* Whatever became of the status, the lists are asked for.  Its count is of the moment it arrives.
StatusReturns(r) ==
    /\ at[r] = "status"
    /\ counted' \in {counted, Cardinality(openNow)}
    /\ Asks(r, "lists")
    /\ UNCHANGED <<openNow, listed, queueVars, inFlight, batch, boundVars>>

\* The list of issues replaces the one that is shown, be it older or newer.
IssuesReturn(r) ==
    /\ at[r] = "lists"
    /\ listed' \in {listed, saw[r]}
    /\ Asks(r, "rest")
    /\ UNCHANGED <<openNow, counted, queueVars, inFlight, batch, boundVars>>

\* The other lists and the tab's own call are over: the triage is queued, unless an error
\* stands or the caller wants none.
RefreshEnds(r) ==
    /\ at[r] = "rest"
    /\ Asks(r, "idle")
    /\ QueuedAfterRefresh(listed) \/ UNCHANGED queueVars
    /\ UNCHANGED <<openNow, listed, counted, inFlight, batch, boundVars>>

RefreshGoesOn(r) == StatusReturns(r) \/ IssuesReturn(r) \/ RefreshEnds(r)

-----------------------------------------------------------------------------
(* _autoTriageReviewQueue                                                      *)

\* Mutant: the flag is not looked at.
MayTriageAlways == TRUE

MayTriage == ~inFlight

IdleRuns == {t \in Triagers : at[t] = "idle"}

NextRun == CHOOSE t \in IdleRuns : TRUE

\* t begins, with sig as signature.
TriageBegins(t, sig) ==
    /\ IdleRuns # {}
    /\ IF MayTriage /\ listed # {}
       THEN /\ inFlight' = TRUE
            /\ total' = IF total = 0 THEN IssueTotal(counted, listed) ELSE total
            /\ Asks(t, "triage")
            /\ signature' = sig
       ELSE /\ signature' = IF MayTriage THEN {} ELSE sig
            /\ UNCHANGED <<inFlight, total, at, saw>>
    /\ UNCHANGED <<openNow, listed, counted, seenIds, batch, found>>

TimeoutFires ==
    /\ queued /\ queued' = FALSE
    /\ TriageBegins(NextRun, signature)
    /\ UNCHANGED manual

\* The button "Re-run triage".
RunTriage ==
    /\ manual < MaxManual /\ manual' = manual + 1
    /\ TriageBegins(NextRun, {})
    /\ UNCHANGED queued

\* The daemon looks at some open issues, not those to skip, and rejects some of them.
DaemonTriages(t) ==
    /\ at[t] = "triage"
    /\ \E P \in SUBSET (openNow \ seenIds), rest \in BOOLEAN : \E V \in SUBSET P :
          /\ Cardinality(P) <= BatchLimit
          /\ batch' = [batch EXCEPT ![t] = [processed |-> P, rejects |-> V # {}, remaining |-> rest]]
          /\ openNow' = openNow \ V
    /\ Asks(t, "triaged")
    /\ UNCHANGED <<listed, counted, queueVars, inFlight, boundVars>>

\* finally: the next batch is queued if this one, b, got somewhere and there is more.
TriageEnds(t, seen, b) ==
    /\ Asks(t, "idle")
    /\ batch' = [batch EXCEPT ![t] = Nothing]
    /\ inFlight' = FALSE
    /\ IF b.processed # {} /\ (b.remaining \/ listed # {}) /\ Cardinality(seen) < total
       THEN QueuedAfterBatch(listed)
       ELSE /\ signature' = IF b.rejects THEN listed ELSE signature
            /\ UNCHANGED <<queued, total>>

\* No answer, an older daemon, or one without a model for it: that is the end of the run.
TriageFails(t) ==
    /\ at[t] \in {"triage", "triaged"}
    /\ TriageEnds(t, seenIds, Nothing)
    /\ UNCHANGED <<openNow, listed, counted, seenIds, boundVars>>

\* Mutant: what a batch has seen is not remembered.
SeenBefore(t) == seenIds

SeenAfter(t) == seenIds \cup (IF NamesBatch THEN batch[t].processed ELSE {})

\* A batch is answered: the list is read again if the daemon has rejected anything.
TriageReturns(t) ==
    /\ at[t] = "triaged"
    /\ seenIds' = SeenAfter(t)
    /\ IF batch[t].rejects
       THEN Asks(t, "reread") /\ UNCHANGED <<signature, queued, total, inFlight, batch>>
       ELSE TriageEnds(t, seenIds', batch[t])
    /\ UNCHANGED <<openNow, listed, counted, boundVars>>

RereadReturned(t) ==
    /\ at[t] = "reread"
    /\ listed' \in {listed, saw[t]}
    /\ Asks(t, "browse")
    /\ UNCHANGED <<openNow, counted, queueVars, inFlight, batch, boundVars>>

BrowseReturned(t) ==
    /\ at[t] = "browse"
    /\ TriageEnds(t, seenIds, batch[t])
    /\ UNCHANGED <<openNow, listed, counted, seenIds, boundVars>>

TriageGoesOn(t) ==
    DaemonTriages(t) \/ TriageFails(t) \/ TriageReturns(t) \/ RereadReturned(t) \/ BrowseReturned(t)

\* What the triage does without the user.
TriageProceeds == TimeoutFires \/ \E t \in Triagers : TriageGoesOn(t)

-----------------------------------------------------------------------------

PanelNext ==
    \/ \E i \in Issues : IssueFound(i) \/ IssueReviewed(i)
    \/ \E r \in Refreshers : RefreshBegins(r) \/ RefreshGoesOn(r)
    \/ RunTriage \/ TriageProceeds

\* Every request ends, and a timeout of 0 ms fires.  Nothing is assumed of refreshes.
PanelFairness == WF_panelVars(TriageProceeds)

PanelSpec == PanelInit /\ [][PanelNext]_panelVars /\ PanelFairness

-----------------------------------------------------------------------------

\* The triages the user asks for, the queued ones and the batches that follow each other never
\* overlap, and the flag says when one is under way (goodvibes-home-panel.js:1299, 1336).
OneTriage ==
    /\ inFlight <=> \E t \in Triagers : at[t] # "idle"
    /\ \A t, u \in Triagers : at[t] # "idle" /\ at[u] # "idle" => t = u

\* The triage comes to rest by itself, however often the panel is refreshed and whatever of each
\* batch the daemon rejects (goodvibes-home-panel.js:1309, 1405-1408); on the assumption
\* (NamesBatch) that the daemon names in processedIssueIds what it processed.  The one triage
\* reply in this repository, tests/test_frontend_triage.py:88-99, names nothing.
TriageRests == <>[](~inFlight /\ ~queued)
=============================================================================
