-------------------------- MODULE ConnectionReport --------------------------
(***************************************************************************)
(* What one config entry promises about its daemon connection, whatever the *)
(* refresh and the watchdog do to keep it: every outage is shown with a     *)
(* reason, the end of one takes the reasons away, and every outage of an    *)
(* entry that is present is watched until it ends.  The entry begins as     *)
(* available, under whatever reasons were shown before it was set up.       *)
(***************************************************************************)
CONSTANT Reasons     \* the repair issues an outage may be shown with

VARIABLES
    available,       \* entities are available
    reasons,         \* the reasons shown to the user
    watched,         \* somebody is going to find out that the daemon is back
    present          \* the entry is not unloaded

vars == <<available, reasons, watched, present>>

Init ==
    /\ available = TRUE
    /\ reasons \in SUBSET Reasons
    /\ watched = FALSE
    /\ present = TRUE

\* A probe fails, or is retried: entities go (or stay) down, with a reason, watched.
Drop ==
    /\ available' = FALSE
    /\ reasons' \in (SUBSET Reasons) \ {{}}
    /\ present => watched'
    /\ UNCHANGED present

\* A probe succeeds.  A watch may outlast the outage it began with, but none begins
\* while there is no outage.
Restore ==
    /\ available' = TRUE
    /\ reasons' = {}
    /\ watched' => watched
    /\ UNCHANGED present

\* Until the first probe has given its verdict the reasons stay as they were.
Wait ==
    /\ available
    /\ watched' => watched
    /\ UNCHANGED <<available, reasons, present>>

\* The entry is unloaded.
Withdraw ==
    /\ present' = FALSE
    /\ watched' => watched
    /\ UNCHANGED <<available, reasons>>

Next == Drop \/ Restore \/ Wait \/ Withdraw

Spec == Init /\ [][Next]_vars

=============================================================================
