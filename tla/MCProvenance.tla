---------------------------- MODULE MCProvenance ----------------------------
(***************************************************************************)
(* Instances of Provenance for TLC.                                         *)
(***************************************************************************)
EXTENDS Provenance, TLC

CONSTANTS morning, movie, press, evening, door, power

\* What a press of a button changes triggers an automation, and what that one changes
\* another; in the evening a user applies a scene.
Family == press :> NoContext @@ morning :> press @@ movie :> morning @@ evening :> NoContext

\* As in Home Assistant, a run and the service calls it makes share one context: the
\* button calls a service that starts a script, the first automation calls services.
FiresShared ==
    press :> {"service_call", "script"} @@ morning :> {"automation", "service_call"}
        @@ movie :> {"automation"} @@ evening :> {"scene"}

\* The entities differ in nothing but their name.
Interchangeable == Permutations({door, power})
=============================================================================
