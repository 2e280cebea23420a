---------------------------- MODULE AtomicStore ----------------------------
(***************************************************************************)
(* What accepting habit proposals promises about automations.yaml: each     *)
(* accepted call adds its automation in one step or finds it there already, *)
(* and nothing that is in the file is ever lost.                            *)
(***************************************************************************)
CONSTANTS Calls, Ids, IdOf

VARIABLES
    store,       \* ids of the automations in the file
    created,     \* the calls that have added theirs
    refused      \* the calls that were told theirs exists

vars == <<store, created, refused>>

Init ==
    /\ store \in SUBSET Ids
    /\ created = {}
    /\ refused = {}

Create(c) ==
    /\ c \notin created \cup refused
    /\ IdOf[c] \notin store
    /\ store' = store \cup {IdOf[c]}
    /\ created' = created \cup {c}
    /\ UNCHANGED refused

Refuse(c) ==
    /\ c \notin created \cup refused
    /\ IdOf[c] \in store
    /\ refused' = refused \cup {c}
    /\ UNCHANGED <<store, created>>

Next == \E c \in Calls : Create(c) \/ Refuse(c)

Spec == Init /\ [][Next]_vars

=============================================================================
