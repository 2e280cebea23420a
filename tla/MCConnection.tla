---------------------------- MODULE MCConnection ----------------------------
(***************************************************************************)
(* Instances of Connection for TLC.  The .cfg files give the callers as    *)
(* model values and choose the environment: which answers the daemon gives, *)
(* which faults it reports, which service calls a script may stop.          *)
(***************************************************************************)
EXTENDS Connection, TLC

\* Service calls and reconnect attempts are interchangeable (safety runs only).
Interchangeable == Permutations(Attempts) \cup Permutations(Services \ Cancellable)
=============================================================================
