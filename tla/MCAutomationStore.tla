------------------------- MODULE MCAutomationStore -------------------------
(***************************************************************************)
(* Instances of AutomationStore for TLC: three accept calls, two of them    *)
(* for the same proposal, and an automation the editor knows.               *)
(***************************************************************************)
EXTENDS AutomationStore, TLC

CONSTANTS c1, c2, c3, lamp, blind, mine

AllIds == {lamp, blind, mine}

\* c1 and c3 accept the same proposal.
Accepts == c1 :> lamp @@ c2 :> blind @@ c3 :> lamp
=============================================================================
