------------------------------ MODULE MCTurns ------------------------------
(***************************************************************************)
(* Instances of Turns for TLC: two Assist turns, a prompt answered in a     *)
(* remote chat session and an agent run.                                    *)
(***************************************************************************)
EXTENDS Turns, TLC

CONSTANTS t1, t2, prompt, agent, chat, room, agent1, run1, msg, ask

AllIds == {t1, t2, chat, room, agent1, run1, msg, ask}

Ids4(m, s, a, r) == "message" :> m @@ "session" :> s @@ "agent" :> a @@ "run" :> r

\* The turns share an Assist session; each submission has what its route returns.
ReportedIds ==
    t1 :> Ids4(t1, chat, NoId, NoId) @@ t2 :> Ids4(t2, chat, NoId, NoId)
        @@ prompt :> Ids4(ask, room, NoId, NoId)
        @@ agent :> Ids4(msg, NoId, agent1, run1)

Reported == [w \in Work |-> ReportedIds[w]]

\* An agent whose events do not name the message it was started with.
ReportedUnnamed ==
    [w \in Work |-> IF w = agent THEN [ReportedIds[w] EXCEPT !["message"] = NoId]
                    ELSE ReportedIds[w]]
=============================================================================
