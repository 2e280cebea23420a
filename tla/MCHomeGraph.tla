----------------------------- MODULE MCHomeGraph -----------------------------
(***************************************************************************)
(* Instances of HomeGraph for TLC.                                           *)
(***************************************************************************)
EXTENDS HomeGraph

CONSTANTS call1, call2
=============================================================================
