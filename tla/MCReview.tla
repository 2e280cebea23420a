------------------------------ MODULE MCReview ------------------------------
(***************************************************************************)
(* Instance for TLC of what users review: habit proposals, which become       *)
(* automations when they accept them, or the issues in the panel's queue.  The  *)
(* two share no state, so a behaviour is one of the store or one of the panel.  *)
(***************************************************************************)
EXTENDS MCAutomationStore, PanelTriage

VARIABLE onPanel

ReviewInit == onPanel \in BOOLEAN /\ Init /\ PanelInit

StoreStep == ~onPanel /\ Next /\ UNCHANGED <<onPanel, panelVars>>

PanelStep == onPanel /\ PanelNext /\ UNCHANGED <<onPanel, vars>>

ReviewNext == StoreStep \/ PanelStep

\* What is left alone has nothing that could proceed: its fairness asks for nothing.
ReviewSpec ==
    /\ ReviewInit
    /\ [][ReviewNext]_<<onPanel, vars, panelVars>>
    /\ StoreFairness /\ PanelFairness
=============================================================================
