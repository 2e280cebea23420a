------------------------------- MODULE MCParts -------------------------------
(***************************************************************************)
(* Instance for TLC of the components that share no state: a behaviour picks *)
(* one of them and the others stay as they are.                              *)
(***************************************************************************)
EXTENDS EntryLifecycle, AnswerStream, Perception, MailCalendar, HabitMining, Snapshot, UpdateInstall

CONSTANTS house, cabin   \* config entries

VARIABLE part   \* the component whose steps are taken

Lights == <<"lights", "on">>
EachItsOwn == [q \in Requests |-> q]
ThreeReleases == <<<<"const", "data", "old">>, <<"const", "data", "new">>, <<"data", "const", "new">>>>

\* What a component that is not picked starts from.
Still ==
    /\ part = "entries" \/ running = FALSE
    /\ part = "stream" \/ body = CHOOSE b \in Bodies : TRUE
    /\ part = "perception" \/ (exposedNow = {} /\ value = [x \in Watchable |-> "on"])
    /\ part = "habits" \/ shown = {}
    /\ part = "snapshot" \/
        home = [devices |-> HomeDevices, areas |-> HomeAreas, exposed |-> {}, device |-> [x \in HomeEntities |-> Nowhere],
                area |-> [x \in HomeEntities \cup HomeDevices |-> Nowhere]]

PartsInit ==
    /\ part \in {"entries", "stream", "perception", "mail", "habits", "snapshot", "update"}
    /\ Still
    /\ Init /\ StreamInit /\ PerceptionInit /\ MailInit
    /\ HabitInit /\ SnapshotInit /\ UpdateInit

\* Of these components only the one that was picked takes a step.
EntriesStand == UNCHANGED vars
OthersStand == UNCHANGED <<part, mailVars, habitVars, snapshotVars, updateVars>>
ReadersStand == UNCHANGED <<part, streamVars, perceptionVars>>

EntryStep ==
    part = "entries" /\ Next /\ ReadersStand /\ OthersStand

StreamStep ==
    part = "stream" /\ StreamNext /\ UNCHANGED perceptionVars /\ EntriesStand /\ OthersStand

PerceptionStep ==
    part = "perception" /\ PerceptionNext /\ UNCHANGED streamVars /\ EntriesStand /\ OthersStand

MailStep ==
    part = "mail" /\ MailNext /\ UNCHANGED <<habitVars, snapshotVars, updateVars>> /\ EntriesStand /\ ReadersStand

HabitStep ==
    part = "habits" /\ HabitNext /\ UNCHANGED <<mailVars, snapshotVars, updateVars>> /\ EntriesStand /\ ReadersStand

SnapshotStep ==
    part = "snapshot" /\ SnapshotNext /\ UNCHANGED <<mailVars, habitVars, updateVars>> /\ EntriesStand /\ ReadersStand

UpdateStep ==
    part = "update" /\ UpdateNext /\ UNCHANGED <<mailVars, habitVars, snapshotVars>> /\ EntriesStand /\ ReadersStand

PartsNext ==
    \/ EntryStep \/ StreamStep \/ PerceptionStep
    \/ MailStep \/ HabitStep \/ SnapshotStep \/ UpdateStep

partsVars ==
    <<part, vars, streamVars, perceptionVars, mailVars, habitVars, snapshotVars, updateVars>>

\* A component that is not picked has nothing that could proceed: its fairness asks for nothing.
PartsSpec == PartsInit /\ [][PartsNext]_partsVars /\ Fairness

\* The types of all seven: delays, indices, states and lengths stay within the bounds the code
\* gives its containers (habits.py:265, mail_calendar.py:13-23, update.py:336).
PartsTypeOK ==
    /\ TypeOK /\ StreamTypeOK /\ PerceptionTypeOK /\ MailTypeOK
    /\ HabitTypeOK /\ SnapshotTypeOK /\ UpdateTypeOK
=============================================================================
