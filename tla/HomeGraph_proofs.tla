-------------------------- MODULE HomeGraph_proofs --------------------------
(***************************************************************************)
(* Proofs about HomeGraph, for any number of calls that overlap each other,  *)
(* the entry's own syncs and the poll; and about PanelTriage, for any number *)
(* of issues, refreshes and runs of the triage.                              *)
(***************************************************************************)
EXTENDS HomeGraph, PanelTriage, FiniteSetTheorems, TLAPS

Awaits == {"idle", "reading", "sync", "request", "reread", "refresh",
           "regenerate", "answered", "failed", "refused", "unread"}

Ends == {"answered", "refresh", "regenerate"}

-----------------------------------------------------------------------------
(* The table of operations.                                                    *)

\* What follows the request of an operation, and what an upload does and does not: its request
\* follows a sync and is followed by a refresh only.
LEMMA EffectShape ==
    ASSUME NEW d \in Effects
    PROVE  /\ Last(d) \in Ends /\ AfterRequest(d) \in Ends \cup {"reread"}
           /\ AfterSync(d) \in Ends \cup {"reread", "request"}
           /\ First(d) \in Ends \cup {"reread", "request", "sync"}
           /\ d.reread \in BOOLEAN /\ (AfterRequest(d) = "reread" => d.reread)
           /\ d.file => /\ AfterSync(d) = "request" /\ AfterRequest(d) = "refresh" /\ ~d.declines
<1>1. PICK s \in DOMAIN Offered : \E op \in Offered[s] : d = Effect(s, op)
  BY DEF Effects
<1>2. PICK op \in Offered[s] : d = Effect(s, op)
  BY <1>1
<1>3. d.last \in {"refresh", "regenerate", "nothing"} /\ d.reread \in BOOLEAN
  BY <1>2 DEF Effect
<1>4. d.file => d.request /\ ~d.reread /\ ~d.declines /\ d.last = "refresh"
  BY <1>2 DEF Effect
<1>5. Last(d) \in Ends
  BY <1>3 DEF Last, Ends
<1> QED BY <1>3, <1>4, <1>5 DEF AfterRequest, AfterSync, First, Last, Ends

\* An actor that runs nothing is put down as a sync.
LEMMA AutoSyncIsAnEffect == AutoSync \in Effects
<1>1. "panel" \in DOMAIN Offered /\ "sync" \in Offered["panel"]
  BY DEF Offered, Common
<1> QED BY <1>1 DEF AutoSync, Effects

-----------------------------------------------------------------------------
(* Type correctness.                                                           *)

\* Where an actor goes, what it sends is a version of the home.
LEMMA GoesTyped ==
    ASSUME TypeOK, NEW a \in Actors, NEW p \in Awaits, Goes(a, p)
    PROVE  pc' \in [Actors -> Awaits] /\ snap' \in [Actors -> 0..MaxChanges]
BY DEF TypeOK, Goes, Awaits

\* Where an actor goes, the others stay where they are.
LEMMA GoesAlone ==
    ASSUME TypeOK, NEW a \in Actors, NEW p, Goes(a, p)
    PROVE  pc'[a] = p /\ \A b \in Actors : b # a => pc'[b] = pc[b]
BY DEF TypeOK, Goes

\* A call begins one of the operations: it is refused, it reads an upload, or it goes to the
\* operation's first await.
LEMMA BeginShape ==
    ASSUME NEW c \in Calls, Begin(c)
    PROVE  \E d \in Effects, p \in Awaits :
              /\ does' = [does EXCEPT ![c] = d] /\ Goes(c, p)
              /\ p \in {"refused", "reading", First(d)}
              /\ d.file => p \in {"refused", "reading"}
<1>1. PICK s \in DOMAIN Offered : \E op \in Offered[s] :
         \E d \in {Effect(s, op)}, p \in {"refused", "reading", First(Effect(s, op))} :
            /\ does' = [does EXCEPT ![c] = d] /\ Goes(c, p)
            /\ d.file => p \in {"refused", "reading"}
  BY DEF Begin
<1>2. PICK op \in Offered[s] :
         \E d \in {Effect(s, op)}, p \in {"refused", "reading", First(Effect(s, op))} :
            /\ does' = [does EXCEPT ![c] = d] /\ Goes(c, p)
            /\ d.file => p \in {"refused", "reading"}
  BY <1>1
<1>3. Effect(s, op) \in Effects
  BY DEF Effects
<1>4. First(Effect(s, op)) \in Awaits
  BY <1>3, EffectShape DEF Ends, Awaits
<1> QED BY <1>2, <1>3, <1>4 DEF Awaits

\* Type correctness, for every value of the constants.
THEOREM TypeCorrect == Spec => []TypeOK
<1> USE ActorsAssumption DEF TypeOK, Awaits
<1>1. Init => TypeOK
  <2> SUFFICES ASSUME Init PROVE TypeOK
    OBVIOUS
  <2>1. does \in [Actors -> Effects]
    BY AutoSyncIsAnEffect DEF Init
  <2>2. pc \in [Actors -> Awaits] /\ snap \in [Actors -> 0..MaxChanges]
    BY DEF Init
  <2>3. enabled \in BOOLEAN /\ failing \in BOOLEAN /\ synced \in BOOLEAN /\ listening \in BOOLEAN
    BY DEF Init
  <2> QED BY <2>1, <2>2, <2>3 DEF Init
<1>2. TypeOK /\ [Next]_vars => TypeOK'
  <2> SUFFICES ASSUME TypeOK, [Next]_vars PROVE TypeOK'
    OBVIOUS
  <2> USE DEF runtimeVars, callVars, homeVars
  <2>0. \A c \in Calls : c \in Actors /\ does[c] \in Effects
    BY DEF Actors
  <2>1. ASSUME NEW c \in Calls, Begin(c) PROVE TypeOK'
    <3>1. PICK d \in Effects, p \in Awaits : does' = [does EXCEPT ![c] = d] /\ Goes(c, p)
      BY <2>1, BeginShape
    <3>2. pc' \in [Actors -> Awaits] /\ snap' \in [Actors -> 0..MaxChanges]
      BY <2>0, <3>1, GoesTyped
    <3> QED BY <2>1, <3>1, <3>2 DEF Begin
  <2>2. ASSUME NEW c \in Calls, FileRead(c) \/ ReadFails(c) \/ ReadEnds(c) PROVE TypeOK'
    <3>1. CASE FileRead(c)
      BY <3>1 DEF FileRead
    <3>2. CASE ReadFails(c)
      BY <2>0, <3>2, GoesTyped DEF ReadFails
    <3>3. CASE ReadEnds(c)
      BY <2>0, <3>3, GoesTyped DEF ReadEnds
    <3> QED BY <2>2, <3>1, <3>2, <3>3
  <2>3. ASSUME NEW c \in Calls, SyncReturns(c) PROVE TypeOK'
    <3>1. AfterSync(does[c]) \in Awaits
      BY <2>0, EffectShape DEF Ends
    <3>2. pc' \in [Actors -> Awaits] /\ snap' \in [Actors -> 0..MaxChanges]
      BY <2>0, <2>3, <3>1, GoesTyped DEF SyncReturns
    <3> QED BY <2>0, <2>3, <3>2 DEF SyncReturns, Synced, Apply
  <2>4. ASSUME NEW c \in Calls, RequestReturns(c) PROVE TypeOK'
    <3>1. AfterRequest(does[c]) \in Awaits
      BY <2>0, EffectShape DEF Ends
    <3>2. pc' \in [Actors -> Awaits] /\ snap' \in [Actors -> 0..MaxChanges]
      BY <2>0, <2>4, <3>1, GoesTyped DEF RequestReturns
    <3> QED BY <2>4, <3>2 DEF RequestReturns, Apply
  <2>5. ASSUME NEW c \in Calls, RereadReturns(c) PROVE TypeOK'
    <3>1. Last(does[c]) \in Awaits
      BY <2>0, EffectShape DEF Ends
    <3>2. pc' \in [Actors -> Awaits] /\ snap' \in [Actors -> 0..MaxChanges]
      BY <2>0, <2>5, <3>1, GoesTyped DEF RereadReturns
    <3> QED BY <2>5, <3>2 DEF RereadReturns
  <2>6. ASSUME NEW c \in Calls, RegenerateReturns(c) PROVE TypeOK'
    <3>1. pc' \in [Actors -> Awaits] /\ snap' \in [Actors -> 0..MaxChanges]
      BY <2>0, <2>6, GoesTyped DEF RegenerateReturns
    <3> QED BY <2>0, <2>6, <3>1 DEF RegenerateReturns, Synced, Apply
  <2>7. ASSUME NEW c \in Calls, RefreshReturns(c) PROVE TypeOK'
    <3>1. pc' \in [Actors -> Awaits] /\ snap' \in [Actors -> 0..MaxChanges]
      BY <2>0, <2>7, GoesTyped DEF RefreshReturns
    <3> QED BY <2>7, <3>1 DEF RefreshReturns, Refreshed
  <2>8. CASE Polled
    BY <2>8 DEF Polled, Refreshed
  <2>9. CASE AutoBegins
    BY <2>9, GoesTyped DEF AutoBegins, Actors, Syncs
  <2>10. ASSUME NEW a \in Syncs, AutoSyncReturns(a) \/ AutoRefreshReturns(a) PROVE TypeOK'
    <3>1. a \in Actors
      BY DEF Actors
    <3>2. pc' \in [Actors -> Awaits] /\ snap' \in [Actors -> 0..MaxChanges]
      BY <2>10, <3>1, GoesTyped DEF AutoSyncReturns, AutoRefreshReturns
    <3>3. CASE AutoSyncReturns(a)
      BY <3>1, <3>2, <3>3 DEF AutoSyncReturns, Synced, Apply, Rests
    <3>4. CASE AutoRefreshReturns(a)
      BY <3>2, <3>4 DEF AutoRefreshReturns, Refreshed, Rests
    <3> QED BY <2>10, <3>3, <3>4
  <2>11. CASE RegistryChanges
    BY <2>11 DEF RegistryChanges
  <2>12. CASE TimerFires
    <3>1. Watch \in Actors
      BY DEF Actors, Syncs
    <3>2. pc' \in [Actors -> Awaits] /\ snap' \in [Actors -> 0..MaxChanges]
      BY <2>12, <3>1, GoesTyped DEF TimerFires
    <3> QED BY <2>12, <3>2 DEF TimerFires
  <2>13. CASE Stop
    BY <2>13 DEF Stop
  <2>14. CASE UNCHANGED vars
    BY <2>14 DEF vars
  <2> QED BY <2>1, <2>2, <2>3, <2>4, <2>5, <2>6, <2>7, <2>8, <2>9, <2>10, <2>11, <2>12, <2>13, <2>14
          DEF Next, CallGoesOn
<1> QED BY <1>1, <1>2, PTL DEF Spec

-----------------------------------------------------------------------------
(* The repair issues.                                                          *)

\* One issue stands at most.
RaisedOne == raised \in {{}, {"issues"}, {"unavailable"}}

\* The two issues of the Home Graph never stand together, whichever refreshes overlap: every one
\* that returns withdraws the issue it does not raise.
THEOREM OneIssueStands == Spec => []IssuesExclude
<1>1. Init => RaisedOne
  BY DEF Init, RaisedOne
<1>2. RaisedOne /\ [Next]_vars => RaisedOne'
  <2> SUFFICES ASSUME RaisedOne, [Next]_vars PROVE RaisedOne'
    OBVIOUS
  <2> USE DEF RaisedOne, runtimeVars
  <2>1. Refreshed => RaisedOne'
    BY DEF Refreshed
  <2>2. ASSUME NEW c \in Calls, Begin(c) \/ CallGoesOn(c) PROVE RaisedOne'
    BY <2>1, <2>2 DEF Begin, CallGoesOn, FileRead, ReadFails, ReadEnds, SyncReturns, RequestReturns,
                      RereadReturns, RegenerateReturns, RefreshReturns
  <2>3. ASSUME NEW a \in Syncs, AutoSyncReturns(a) \/ AutoRefreshReturns(a) PROVE RaisedOne'
    BY <2>1, <2>3 DEF AutoSyncReturns, AutoRefreshReturns
  <2>4. CASE AutoBegins \/ RegistryChanges \/ TimerFires \/ Stop \/ UNCHANGED vars
    BY <2>4 DEF AutoBegins, RegistryChanges, TimerFires, Stop, vars
  <2> QED BY <2>1, <2>2, <2>3, <2>4 DEF Next, Polled
<1>3. RaisedOne => IssuesExclude
  BY DEF RaisedOne, IssuesExclude
<1> QED BY <1>1, <1>2, <1>3, PTL DEF Spec

-----------------------------------------------------------------------------
(* What the daemon has carried out.                                            *)

\* A call whose request is answered is past it, and reads again, or has failed, only if it is a
\* refinement.
CarriedInv ==
    \A c \in carried : /\ pc[c] \in Ends \cup {"reread", "failed"}
                       /\ pc[c] \in {"reread", "failed"} => does[c].reread

\* A change that was carried out is not reported as failed, save a refinement whose tasks could
\* not be read again.
THEOREM CarriedOutIsAnswered == Spec => []CarriedIsAnswered
<1>1. Init => CarriedInv
  BY DEF Init, CarriedInv
<1>2. TypeOK /\ CarriedInv /\ [Next]_vars => CarriedInv'
  <2> SUFFICES ASSUME TypeOK, CarriedInv, [Next]_vars PROVE CarriedInv'
    OBVIOUS
  <2> USE DEF CarriedInv, Ends, runtimeVars, callVars, homeVars
  <2>0. /\ carried \subseteq Calls /\ Calls \subseteq Actors /\ Syncs \subseteq Actors
        /\ \A a \in Syncs : a \notin Calls
        /\ \A c \in Calls : does[c] \in Effects
    BY ActorsAssumption DEF TypeOK, Actors
  <2>1. ASSUME NEW c \in Calls, Begin(c) PROVE CarriedInv'
    <3>1. PICK d \in Effects, p \in Awaits : does' = [does EXCEPT ![c] = d] /\ Goes(c, p)
      BY <2>1, BeginShape
    <3>2. c \notin carried
      BY <2>1 DEF Begin
    <3>3. \A b \in carried : does'[b] = does[b] /\ pc'[b] = pc[b]
      BY <2>0, <3>1, <3>2, GoesAlone DEF TypeOK
    <3> QED BY <2>1, <3>3 DEF Begin
  <2>2. ASSUME NEW a \in Actors, NEW p, Goes(a, p), a \notin carried, UNCHANGED <<does, carried>>
        PROVE  CarriedInv'
    <3>1. \A b \in carried : pc'[b] = pc[b]
      BY <2>0, <2>2, GoesAlone
    <3> QED BY <2>2, <3>1
  <2>3. ASSUME NEW c \in Calls, ReadFails(c) \/ ReadEnds(c) \/ SyncReturns(c) PROVE CarriedInv'
    <3>1. c \notin carried /\ UNCHANGED <<does, carried>> /\ \E p : Goes(c, p)
      BY <2>3 DEF ReadFails, ReadEnds, SyncReturns
    <3> QED BY <2>0, <2>2, <3>1
  <2>4. ASSUME NEW c \in Calls, RequestReturns(c) PROVE CarriedInv'
    <3>1. c \notin carried
      BY <2>4 DEF RequestReturns
    <3>2. CASE UNCHANGED carried
      BY <2>0, <2>2, <2>4, <3>1, <3>2 DEF RequestReturns
    <3>3. CASE Goes(c, AfterRequest(does[c])) /\ carried' = carried \cup {c}
      <4>1. /\ AfterRequest(does[c]) \in Ends \cup {"reread"}
            /\ AfterRequest(does[c]) = "reread" => does[c].reread
        BY <2>0, EffectShape
      <4>2. pc'[c] = AfterRequest(does[c]) /\ \A b \in carried : pc'[b] = pc[b]
        BY <2>0, <3>1, <3>3, GoesAlone
      <4> QED BY <2>4, <3>3, <4>1, <4>2 DEF RequestReturns
    <3> QED BY <2>4, <3>2, <3>3 DEF RequestReturns
  <2>5. ASSUME NEW c \in Calls, NEW p \in Ends, Goes(c, p), UNCHANGED <<does, carried>>
        PROVE  CarriedInv'
    BY <2>0, <2>5, GoesAlone
  <2>6. ASSUME NEW c \in Calls, RereadReturns(c) PROVE CarriedInv'
    <3>1. Last(does[c]) \in Ends
      BY <2>0, EffectShape
    <3>2. UNCHANGED <<does, carried>> /\ (Goes(c, "failed") \/ Goes(c, Last(does[c])))
      BY <2>6 DEF RereadReturns
    <3>3. CASE Goes(c, "failed")
      <4>1. pc'[c] = "failed" /\ \A b \in Actors : b # c => pc'[b] = pc[b]
        BY <2>0, <3>3, GoesAlone
      <4>2. c \in carried => does[c].reread
        BY <2>6 DEF RereadReturns
      <4> QED BY <2>0, <3>2, <4>1, <4>2
    <3> QED BY <2>5, <3>1, <3>2, <3>3
  <2>7. ASSUME NEW c \in Calls, RegenerateReturns(c) \/ RefreshReturns(c) PROVE CarriedInv'
    BY <2>5, <2>7 DEF RegenerateReturns, RefreshReturns
  <2>8. ASSUME NEW a \in Syncs, AutoSyncReturns(a) \/ AutoRefreshReturns(a) PROVE CarriedInv'
    <3>1. UNCHANGED <<does, carried>> /\ \E p : Goes(a, p)
      BY <2>8 DEF AutoSyncReturns, AutoRefreshReturns
    <3> QED BY <2>0, <2>2, <3>1
  <2>9. CASE AutoBegins \/ TimerFires
    <3>1. Startup \in Syncs /\ Watch \in Syncs
      BY DEF Syncs
    <3>2. CASE \E a \in Syncs, p \in Awaits : Goes(a, p)
      BY <2>0, <2>2, <2>9, <3>2 DEF AutoBegins, TimerFires
    <3> QED BY <2>9, <3>1, <3>2 DEF AutoBegins, TimerFires, Awaits
  <2>10. CASE Stop
    <3>1. \A c \in Calls : pc'[c] = pc[c]
      BY <2>0, <2>10 DEF Stop, Syncs, TypeOK
    <3> QED BY <2>0, <2>10, <3>1 DEF Stop
  <2>11. CASE UNCHANGED <<does, pc, carried>>
    BY <2>11
  <2> QED BY <2>1, <2>3, <2>4, <2>6, <2>7, <2>8, <2>9, <2>10, <2>11
          DEF Next, CallGoesOn, FileRead, Polled, RegistryChanges, vars
<1>3. CarriedInv => CarriedIsAnswered
  BY DEF CarriedInv, CarriedIsAnswered
<1> QED BY <1>1, <1>2, <1>3, TypeCorrect, PTL DEF Spec

-----------------------------------------------------------------------------
(* The uploads.                                                                *)

\* A call has a file from when it is read; an upload goes from its sync to its request to its
\* refresh, with its file, and no way of ending but "unread" keeps it.
UploadInv ==
    \A c \in Calls :
        /\ pc[c] = "idle" => c \notin files
        /\ does[c].file =>
              /\ pc[c] \notin {"reread", "regenerate"}
              /\ pc[c] \in {"sync", "request"} => c \in files
              /\ pc[c] \in {"answered", "failed", "refused"} => c \notin files

\* An upload is sent from a file that is whole and there, and leaves none once it was read,
\* wherever it fails.
THEOREM UploadKeepsItsFile == Spec => []UploadedFromFile
<1>1. Init => UploadInv
  BY DEF Init, UploadInv, AutoSync, Effect, Actors
<1>2. TypeOK /\ UploadInv /\ [Next]_vars => UploadInv'
  <2> SUFFICES ASSUME TypeOK, UploadInv, [Next]_vars PROVE UploadInv'
    OBVIOUS
  <2> USE DEF runtimeVars, callVars, homeVars
  <2> DEFINE Sound(c) == /\ pc[c] = "idle" => c \notin files
                         /\ does[c].file =>
                               /\ pc[c] \notin {"reread", "regenerate"}
                               /\ pc[c] \in {"sync", "request"} => c \in files
                               /\ pc[c] \in {"answered", "failed", "refused"} => c \notin files
  <2>0. /\ Calls \subseteq Actors /\ Syncs \subseteq Actors /\ \A a \in Syncs : a \notin Calls
        /\ \A c \in Calls : does[c] \in Effects
    BY ActorsAssumption DEF TypeOK, Actors
  <2>1. \A c \in Calls : Sound(c)
    BY DEF UploadInv
  <2>2. ASSUME NEW c \in Calls, Sound(c)', NEW p, Goes(c, p), UNCHANGED does,
               files' \in {files, files \ {c}}
        PROVE  UploadInv'
    <3>1. \A b \in Calls : b # c => pc'[b] = pc[b] /\ (b \in files' <=> b \in files)
      BY <2>0, <2>2, GoesAlone
    <3>2. \A b \in Calls : b # c => Sound(b)'
      BY <2>1, <2>2, <3>1
    <3> QED BY <2>2, <3>2 DEF UploadInv
  <2>3. ASSUME NEW c \in Calls, Begin(c) PROVE UploadInv'
    <3>1. PICK d \in Effects, p \in Awaits :
             /\ does' = [does EXCEPT ![c] = d] /\ Goes(c, p)
             /\ p \in {"refused", "reading", First(d)}
             /\ d.file => p \in {"refused", "reading"}
      BY <2>3, BeginShape
    <3>2. files' = files /\ c \notin files
      BY <2>1, <2>3 DEF Begin
    <3>3. pc'[c] = p /\ does'[c] = d
      BY <2>0, <3>1, GoesAlone DEF TypeOK
    <3>4. Sound(c)'
      BY <3>1, <3>2, <3>3
    <3>5. \A b \in Calls : b # c => pc'[b] = pc[b] /\ does'[b] = does[b]
      BY <2>0, <3>1, GoesAlone DEF TypeOK
    <3>6. \A b \in Calls : b # c => Sound(b)'
      BY <2>1, <3>2, <3>5
    <3> QED BY <3>4, <3>6 DEF UploadInv
  <2>4. ASSUME NEW c \in Calls, FileRead(c) PROVE UploadInv'
    BY <2>1, <2>4 DEF FileRead, UploadInv
  <2>5. ASSUME NEW c \in Calls, ReadFails(c) \/ ReadEnds(c) PROVE UploadInv'
    <3>1. PICK p \in {"unread", "sync", "refused"} :
             /\ Goes(c, p) /\ UNCHANGED does /\ files' \in {files, files \ {c}}
             /\ p = "sync" => c \in files'
             /\ p = "refused" => c \notin files'
      BY <2>5 DEF ReadFails, ReadEnds
    <3>2. pc'[c] = p
      BY <2>0, <3>1, GoesAlone
    <3>3. Sound(c)'
      BY <3>1, <3>2
    <3> QED BY <2>2, <3>1, <3>3
  <2>6. ASSUME NEW c \in Calls, SyncReturns(c) PROVE UploadInv'
    <3>1. /\ does[c].file => AfterSync(does[c]) = "request"
          /\ AfterSync(does[c]) # "idle"
      BY <2>0, EffectShape DEF Ends
    <3>2. UNCHANGED does /\ pc[c] = "sync"
      BY <2>6 DEF SyncReturns
    <3>3. CASE Goes(c, "failed") /\ files' = files \ {c}
      <4>1. pc'[c] = "failed"
        BY <2>0, <3>3, GoesAlone
      <4> QED BY <2>2, <3>2, <3>3, <4>1
    <3>4. CASE Goes(c, AfterSync(does[c])) /\ UNCHANGED files
      <4>1. pc'[c] = AfterSync(does[c])
        BY <2>0, <3>4, GoesAlone
      <4>2. Sound(c)'
        BY <2>1, <3>1, <3>2, <3>4, <4>1
      <4> QED BY <2>2, <3>2, <3>4, <4>2
    <3> QED BY <2>6, <3>3, <3>4 DEF SyncReturns
  <2>7. ASSUME NEW c \in Calls, RequestReturns(c) PROVE UploadInv'
    <3>1. /\ does[c].file => AfterRequest(does[c]) = "refresh" /\ ~does[c].declines
          /\ AfterRequest(does[c]) # "idle"
      BY <2>0, EffectShape DEF Ends
    <3>2. UNCHANGED does /\ pc[c] = "request"
      BY <2>7 DEF RequestReturns
    <3>3. CASE Goes(c, "failed") /\ files' = files \ {c}
      <4>1. pc'[c] = "failed"
        BY <2>0, <3>3, GoesAlone
      <4> QED BY <2>2, <3>2, <3>3, <4>1
    <3>4. CASE does[c].declines /\ Goes(c, "answered") /\ UNCHANGED files
      <4>1. pc'[c] = "answered"
        BY <2>0, <3>4, GoesAlone
      <4>2. Sound(c)'
        BY <3>1, <3>2, <3>4, <4>1
      <4> QED BY <2>2, <3>2, <3>4, <4>2
    <3>5. CASE Goes(c, AfterRequest(does[c])) /\ UNCHANGED files
      <4>1. pc'[c] = AfterRequest(does[c])
        BY <2>0, <3>5, GoesAlone
      <4>2. Sound(c)'
        BY <3>1, <3>2, <3>5, <4>1
      <4> QED BY <2>2, <3>2, <3>5, <4>2
    <3> QED BY <2>7, <3>3, <3>4, <3>5 DEF RequestReturns
  <2>8. ASSUME NEW c \in Calls, NEW p \in Awaits, p # "idle", ~does[c].file, Goes(c, p),
               UNCHANGED <<does, files>>
        PROVE  UploadInv'
    <3>1. pc'[c] = p
      BY <2>0, <2>8, GoesAlone
    <3> QED BY <2>2, <2>8, <3>1
  <2>9. ASSUME NEW c \in Calls, RereadReturns(c) \/ RegenerateReturns(c) PROVE UploadInv'
    <3>1. ~does[c].file
      BY <2>1, <2>9 DEF RereadReturns, RegenerateReturns
    <3>2. Last(does[c]) \in Ends
      BY <2>0, EffectShape
    <3>3. \E p \in Awaits : p # "idle" /\ Goes(c, p)
      BY <2>9, <3>2 DEF RereadReturns, RegenerateReturns, Awaits, Ends
    <3> QED BY <2>8, <2>9, <3>1, <3>3 DEF RereadReturns, RegenerateReturns
  <2>10. ASSUME NEW c \in Calls, RefreshReturns(c) PROVE UploadInv'
    <3>1. Goes(c, "answered") /\ files' = files \ {c} /\ UNCHANGED does
      BY <2>10 DEF RefreshReturns
    <3>2. pc'[c] = "answered"
      BY <2>0, <3>1, GoesAlone
    <3> QED BY <2>2, <3>1, <3>2
  <2>11. ASSUME NEW a \in Syncs, NEW p, Goes(a, p), UNCHANGED <<does, files>> PROVE UploadInv'
    <3>1. \A c \in Calls : pc'[c] = pc[c]
      BY <2>0, <2>11, GoesAlone
    <3> QED BY <2>11, <3>1 DEF UploadInv
  <2>12. ASSUME NEW a \in Syncs, AutoSyncReturns(a) \/ AutoRefreshReturns(a) PROVE UploadInv'
    BY <2>11, <2>12 DEF AutoSyncReturns, AutoRefreshReturns
  <2>13. CASE UNCHANGED <<does, pc, files>>
    BY <2>13 DEF UploadInv
  <2>14. CASE AutoBegins \/ TimerFires
    <3>1. Startup \in Syncs /\ Watch \in Syncs
      BY DEF Syncs
    <3> QED BY <2>11, <2>13, <2>14, <3>1 DEF AutoBegins, TimerFires
  <2>15. CASE Stop
    <3>1. \A c \in Calls : pc'[c] = pc[c]
      BY <2>0, <2>15 DEF Stop, Syncs, TypeOK
    <3> QED BY <2>15, <3>1 DEF Stop, UploadInv
  <2> QED BY <2>3, <2>4, <2>5, <2>6, <2>7, <2>9, <2>10, <2>12, <2>13, <2>14, <2>15
          DEF Next, CallGoesOn, Polled, RegistryChanges, vars
<1>3. UploadInv => UploadedFromFile
  BY DEF UploadInv, UploadedFromFile
<1> QED BY <1>1, <1>2, <1>3, TypeCorrect, PTL DEF Spec

-----------------------------------------------------------------------------
(* The panel's review queue.                                                   *)

PagePromises == Refreshers \cup Triagers

Places == {"idle", "status", "lists", "rest", "triage", "triaged", "reread", "browse"}

Counts == 0 .. Cardinality(Issues)

\* No set of issues counts more than all issues.
LEMMA Counted ==
    ASSUME NEW S \in SUBSET Issues
    PROVE  Cardinality(S) \in Counts
<1>1. IsFiniteSet(Issues)
  BY PanelAssumption
<1>2. IsFiniteSet(S) /\ Cardinality(S) <= Cardinality(Issues)
  BY <1>1, FS_Subset
<1>3. Cardinality(S) \in Nat /\ Cardinality(Issues) \in Nat
  BY <1>1, <1>2, FS_CardinalityType
<1> QED BY <1>2, <1>3 DEF Counts

\* The count the review bar shows is a number of issues, or none.
LEMMA TotalCounted ==
    ASSUME NEW n \in Counts, NEW S \in SUBSET Issues
    PROVE  IssueTotal(n, S) \in Counts
BY Counted DEF IssueTotal

\* Type correctness, for every value of the constants.
THEOREM PanelTypeCorrect == PanelSpec => []PanelTypeOK
<1> USE DEF PanelTypeOK, PagePromises, Places, Counts
<1>1. PanelInit => PanelTypeOK
  <2>1. 0 \in Counts
    <3>1. Cardinality({}) \in Counts
      BY Counted
    <3> QED BY <3>1, FS_EmptySet
  <2>2. 0 \in 0..MaxFound /\ 0 \in 0..MaxManual
    BY PanelAssumption
  <2>3. Nothing \in [processed : SUBSET Issues, rejects : BOOLEAN, remaining : BOOLEAN]
    BY DEF Nothing
  <2>4. ASSUME PanelInit
        PROVE  /\ at \in [PagePromises -> Places] /\ saw \in [PagePromises -> SUBSET Issues]
               /\ batch \in [Triagers -> [processed : SUBSET Issues, rejects : BOOLEAN, remaining : BOOLEAN]]
    BY <2>3, <2>4 DEF PanelInit
  <2> QED BY <2>1, <2>2, <2>4 DEF PanelInit
<1>2. PanelTypeOK /\ [PanelNext]_panelVars => PanelTypeOK'
  <2> SUFFICES ASSUME PanelTypeOK, [PanelNext]_panelVars PROVE PanelTypeOK'
    OBVIOUS
  <2>a. ASSUME NEW p \in PagePromises, NEW w \in Places, Asks(p, w)
        PROVE  at' \in [PagePromises -> Places] /\ saw' \in [PagePromises -> SUBSET Issues]
    BY <2>a DEF Asks
  <2>b. ASSUME NEW t \in Triagers, NEW S, NEW b, TriageEnds(t, S, b)
        PROVE  /\ at' \in [PagePromises -> Places] /\ saw' \in [PagePromises -> SUBSET Issues]
               /\ batch' \in [Triagers -> [processed : SUBSET Issues, rejects : BOOLEAN, remaining : BOOLEAN]]
               /\ inFlight' \in BOOLEAN /\ signature' \in SUBSET Issues
               /\ queued' \in BOOLEAN /\ total' = total
    BY <2>a, <2>b DEF TriageEnds, QueuedAfterBatch, Nothing
  <2>c. ASSUME NEW t, NEW g \in SUBSET Issues, t \in IdleRuns, TriageBegins(t, g)
        PROVE  /\ at' \in [PagePromises -> Places] /\ saw' \in [PagePromises -> SUBSET Issues]
               /\ inFlight' \in BOOLEAN /\ signature' \in SUBSET Issues /\ total' \in Counts
    <3>1. t \in Triagers
      BY <2>c DEF IdleRuns
    <3>2. IssueTotal(counted, listed) \in Counts
      BY TotalCounted
    <3> QED BY <2>a, <2>c, <3>1, <3>2 DEF TriageBegins
  <2>d. IdleRuns # {} => NextRun \in IdleRuns
    BY DEF NextRun
  <2>1. ASSUME NEW i \in Issues, IssueFound(i) \/ IssueReviewed(i) PROVE PanelTypeOK'
    BY <2>1, PanelAssumption DEF IssueFound, IssueReviewed, queueVars, boundVars
  <2>2. ASSUME NEW r \in Refreshers, RefreshBegins(r) \/ StatusReturns(r) PROVE PanelTypeOK'
    BY <2>2, <2>a, Counted DEF RefreshBegins, StatusReturns, queueVars, boundVars
  <2>3. ASSUME NEW r \in Refreshers, IssuesReturn(r) PROVE PanelTypeOK'
    BY <2>3, <2>a DEF IssuesReturn, queueVars, boundVars
  <2>4. ASSUME NEW r \in Refreshers, RefreshEnds(r) PROVE PanelTypeOK'
    <3>1. IssueTotal(counted, listed) \in Counts
      BY TotalCounted
    <3>2. /\ signature' \in SUBSET Issues /\ seenIds' \in SUBSET Issues
          /\ queued' \in BOOLEAN /\ total' \in Counts
      BY <2>4, <3>1 DEF RefreshEnds, QueuedAfterRefresh, queueVars
    <3> QED BY <2>4, <2>a, <3>2 DEF RefreshEnds, boundVars
  <2>5. CASE TimeoutFires
    BY <2>5, <2>c, <2>d DEF TimeoutFires, TriageBegins
  <2>6. CASE RunTriage
    <3>1. NextRun \in IdleRuns /\ TriageBegins(NextRun, {})
      BY <2>6, <2>d DEF RunTriage, TriageBegins
    <3>2. /\ at' \in [PagePromises -> Places] /\ saw' \in [PagePromises -> SUBSET Issues]
          /\ inFlight' \in BOOLEAN /\ signature' \in SUBSET Issues /\ total' \in Counts
      BY <2>c, <3>1
    <3>3. manual' \in 0..MaxManual
      BY <2>6, PanelAssumption DEF RunTriage
    <3> QED BY <2>6, <3>1, <3>2, <3>3 DEF RunTriage, TriageBegins
  <2>7. ASSUME NEW t \in Triagers, DaemonTriages(t) PROVE PanelTypeOK'
    BY <2>7, <2>a DEF DaemonTriages, queueVars, boundVars
  <2>8. ASSUME NEW t \in Triagers, TriageFails(t) PROVE PanelTypeOK'
    BY <2>8, <2>b DEF TriageFails, boundVars
  <2>9. ASSUME NEW t \in Triagers, TriageReturns(t) PROVE PanelTypeOK'
    <3>1. SeenAfter(t) \in SUBSET Issues
      BY DEF SeenAfter
    <3>2. CASE batch[t].rejects
      BY <2>9, <2>a, <3>1, <3>2 DEF TriageReturns, boundVars
    <3>3. CASE ~batch[t].rejects
      BY <2>9, <2>b, <3>1, <3>3 DEF TriageReturns, boundVars
    <3> QED BY <3>2, <3>3
  <2>10. ASSUME NEW t \in Triagers, RereadReturned(t) PROVE PanelTypeOK'
    BY <2>10, <2>a DEF RereadReturned, queueVars, boundVars
  <2>11. ASSUME NEW t \in Triagers, BrowseReturned(t) PROVE PanelTypeOK'
    BY <2>11, <2>b DEF BrowseReturned, boundVars
  <2>12. CASE UNCHANGED panelVars
    BY <2>12 DEF panelVars, queueVars, boundVars
  <2> QED BY <2>1, <2>2, <2>3, <2>4, <2>5, <2>6, <2>7, <2>8, <2>9, <2>10, <2>11, <2>12
          DEF PanelNext, RefreshGoesOn, TriageProceeds, TriageGoesOn
<1> QED BY <1>1, <1>2, PTL DEF PanelSpec

\* Timeouts, the button and the next batch never start a triage beside another one.
THEOREM TriageIsSingle == PanelSpec => []OneTriage
<1> USE DEF OneTriage
<1>1. PanelInit => OneTriage
  BY DEF PanelInit
<1>2. PanelTypeOK /\ OneTriage /\ [PanelNext]_panelVars => OneTriage'
  <2> SUFFICES ASSUME PanelTypeOK, OneTriage, [PanelNext]_panelVars PROVE OneTriage'
    OBVIOUS
  <2>0. at \in [PagePromises -> Places]
    BY DEF PanelTypeOK, PagePromises, Places
  <2>1. ASSUME NEW r \in Refreshers, NEW w \in Places, Asks(r, w), UNCHANGED inFlight
        PROVE  OneTriage'
    <3>1. \A t \in Triagers : at'[t] = at[t]
      BY <2>1, <2>0, PanelAssumption DEF Asks, PagePromises
    <3> QED BY <2>1, <3>1
  <2>2. ASSUME NEW r \in Refreshers, RefreshBegins(r) \/ RefreshGoesOn(r) PROVE OneTriage'
    BY <2>2, <2>1 DEF RefreshBegins, RefreshGoesOn, StatusReturns, IssuesReturn, RefreshEnds, Places
  <2>3. ASSUME NEW g, IdleRuns # {}, TriageBegins(NextRun, g) PROVE OneTriage'
    <3>1. NextRun \in Triagers
      BY <2>3 DEF NextRun, IdleRuns
    <3>2. CASE ~inFlight /\ listed # {}
      <4>1. \A t \in Triagers : at[t] = "idle"
        BY <3>2
      <4>2. inFlight' = TRUE /\ at' = [at EXCEPT ![NextRun] = "triage"]
        BY <2>3, <3>2 DEF TriageBegins, MayTriage, Asks
      <4> QED BY <2>0, <3>1, <4>1, <4>2 DEF PagePromises
    <3>3. CASE inFlight \/ listed = {}
      BY <2>3, <3>3 DEF TriageBegins, MayTriage
    <3> QED BY <3>2, <3>3
  <2>4. CASE TimeoutFires \/ RunTriage
    BY <2>4, <2>3 DEF TimeoutFires, RunTriage, TriageBegins
  <2>5. ASSUME NEW t \in Triagers, NEW w \in Places, at[t] # "idle", w # "idle", Asks(t, w),
               UNCHANGED inFlight
        PROVE  OneTriage'
    BY <2>0, <2>5 DEF Asks, PagePromises
  <2>6. ASSUME NEW t \in Triagers, at[t] # "idle", Asks(t, "idle"), inFlight' = FALSE
        PROVE  OneTriage'
    BY <2>0, <2>6 DEF Asks, PagePromises
  <2>7. ASSUME NEW t \in Triagers, DaemonTriages(t) \/ RereadReturned(t) PROVE OneTriage'
    BY <2>7, <2>5 DEF DaemonTriages, RereadReturned, Places
  <2>8. ASSUME NEW t \in Triagers, TriageFails(t) \/ BrowseReturned(t) PROVE OneTriage'
    BY <2>8, <2>6 DEF TriageFails, BrowseReturned, TriageEnds
  <2>9. ASSUME NEW t \in Triagers, TriageReturns(t) PROVE OneTriage'
    BY <2>9, <2>5, <2>6 DEF TriageReturns, TriageEnds, Places
  <2>10. CASE UNCHANGED <<at, inFlight>>
    BY <2>10
  <2> QED BY <2>2, <2>4, <2>7, <2>8, <2>9, <2>10
          DEF PanelNext, IssueFound, IssueReviewed, TriageProceeds, TriageGoesOn, panelVars
<1> QED BY <1>1, <1>2, PanelTypeCorrect, PTL DEF PanelSpec
=============================================================================
