------------------------------ MODULE Snapshot ------------------------------
(***************************************************************************)
(* The snapshot of the home that a Home Graph sync sends to the daemon       *)
(* (home_graph.async_build_home_graph_snapshot): what the registries hold,   *)
(* cut down to what the user exposes to assistants.                          *)
(*                                                                          *)
(* The registries are read one after the other without an await; then the   *)
(* metadata of the integrations is loaded, and the home may change before    *)
(* the request is sent.                                                     *)
(***************************************************************************)
EXTENDS Naturals, Sequences

CONSTANTS
    HomeEntities, HomeDevices, HomeAreas,
    Nowhere,     \* no device, no area
    IncludeAll,  \* include_unexposed
    MaxEdits     \* bound: changes of the home

ASSUME SnapshotAssumption ==
    Nowhere \notin HomeDevices \cup HomeAreas /\ IncludeAll \in BOOLEAN /\ MaxEdits \in Nat

VARIABLES
    home,     \* the registries and what is exposed: see SnapshotTypeOK
    reading,  \* the snapshot under way, if any: <<>> or <<snapshot>>
    sent,     \* the snapshot sent last; an empty one at first
    edits,    \* changes of the home so far
    shared    \* ghost: what was exposed when the snapshot under way, and the one sent, was begun

snapshotVars == <<home, reading, sent, edits, shared>>

Empty == [entities |-> {}, devices |-> {}, areas |-> {}, refs |-> {}]

\* A reference: <<entity, its device>>, <<entity, its area>> or <<device, its area>>.
References == (HomeEntities \cup HomeDevices) \X (HomeDevices \cup HomeAreas)
Snapshots == [entities : SUBSET HomeEntities, devices : SUBSET HomeDevices,
              areas : SUBSET HomeAreas, refs : SUBSET References]

SnapshotTypeOK ==
    /\ home.devices \subseteq HomeDevices /\ home.areas \subseteq HomeAreas
    /\ home.exposed \subseteq HomeEntities
    /\ home.device \in [HomeEntities -> home.devices \cup {Nowhere}]
    /\ home.area \in [HomeEntities \cup HomeDevices -> home.areas \cup {Nowhere}]
    /\ reading \in Seq(Snapshots) /\ Len(reading) <= 1 /\ sent \in Snapshots
    /\ edits \in 0..MaxEdits

SnapshotInit ==
    /\ home \in [devices : {HomeDevices}, areas : {HomeAreas}, exposed : SUBSET HomeEntities,
                 device : [HomeEntities -> HomeDevices \cup {Nowhere}],
                 area : [HomeEntities \cup HomeDevices -> HomeAreas \cup {Nowhere}]]
    /\ reading = <<>> /\ sent = Empty /\ edits = 0
    /\ shared = [reading |-> {}, sent |-> {}]

-----------------------------------------------------------------------------

\* _should_include_entity
Included(h) == IF IncludeAll THEN HomeEntities ELSE h.exposed

\* The devices of the entities that are included.
IncludedDevices(h) == {h.device[x] : x \in Included(h)} \cap h.devices

\* The areas of the entities and of the devices that are included.
IncludedAreas(h) == {h.area[x] : x \in Included(h) \cup IncludedDevices(h)} \cap h.areas

Refs(h) ==
    {<<x, h.device[x]>> : x \in {y \in Included(h) : h.device[y] # Nowhere}}
    \cup {<<x, h.area[x]>> : x \in {y \in Included(h) \cup IncludedDevices(h) : h.area[y] # Nowhere}}

Cut(h) == [entities |-> Included(h), devices |-> IncludedDevices(h),
           areas |-> IncludedAreas(h), refs |-> Refs(h)]

\* Mutant: devices and areas are read again after the metadata.
FinishedLate(s) == [s EXCEPT !.devices = IncludedDevices(home), !.areas = IncludedAreas(home)]

\* What is sent is what was read, with the integrations.
Finished(s) == s

\* The registries are read.
SnapshotBegins ==
    /\ reading = <<>>
    /\ reading' = <<Cut(home)>> /\ shared' = [shared EXCEPT !.reading = home.exposed]
    /\ UNCHANGED <<home, sent, edits>>

\* The metadata is there: the snapshot goes to the daemon.
SnapshotSent ==
    /\ reading # <<>>
    /\ sent' = Finished(reading[1]) /\ reading' = <<>>
    /\ shared' = [shared EXCEPT !.sent = shared.reading]
    /\ UNCHANGED <<home, edits>>

-----------------------------------------------------------------------------
(* Home Assistant keeps its registries closed: what is removed is referred to   *)
(* no more.                                                                    *)

Without(f, z) == [x \in DOMAIN f |-> IF f[x] = z THEN Nowhere ELSE f[x]]

Edit(new) ==
    /\ edits < MaxEdits /\ new # home
    /\ home' = new /\ edits' = edits + 1
    /\ UNCHANGED <<reading, sent, shared>>

ExposureEdited(x) ==
    Edit([home EXCEPT !.exposed = IF x \in @ THEN @ \ {x} ELSE @ \cup {x}])

DeviceRemoved(d) ==
    d \in home.devices /\ Edit([home EXCEPT !.devices = @ \ {d}, !.device = Without(@, d),
                                            !.area = [@ EXCEPT ![d] = Nowhere]])

AreaRemoved(a) ==
    a \in home.areas /\ Edit([home EXCEPT !.areas = @ \ {a}, !.area = Without(@, a)])

\* An entity or a device is moved.
AreaEdited(x, a) ==
    /\ x \in HomeEntities \cup home.devices /\ a \in home.areas \cup {Nowhere}
    /\ Edit([home EXCEPT !.area[x] = a])

SnapshotNext ==
    \/ SnapshotBegins \/ SnapshotSent
    \/ \E x \in HomeEntities : ExposureEdited(x)
    \/ \E d \in HomeDevices : DeviceRemoved(d)
    \/ \E a \in HomeAreas : AreaRemoved(a)
    \/ \E x \in HomeEntities \cup HomeDevices, a \in HomeAreas \cup {Nowhere} : AreaEdited(x, a)

SnapshotSpec == SnapshotInit /\ [][SnapshotNext]_snapshotVars

-----------------------------------------------------------------------------

\* Whatever the user changes while it is built, a snapshot is closed: the daemon is told of every
\* device and area that something in it refers to, and of nothing else: each leads to an entity
\* that was exposed in the home it was read from (home_graph.py:108-166).
SnapshotIsClosed ==
    /\ \A r \in sent.refs : r[2] \in sent.devices \cup sent.areas
    /\ IncludeAll \/ sent.entities \subseteq shared.sent
    /\ \A d \in sent.devices : \E x \in sent.entities : <<x, d>> \in sent.refs
    /\ \A a \in sent.areas : \E x \in sent.entities :
          <<x, a>> \in sent.refs \/ \E d \in sent.devices : {<<x, d>>, <<d, a>>} \subseteq sent.refs
=============================================================================
