---------------------------- MODULE UpdateInstall ----------------------------
(***************************************************************************)
(* The update entities of the integration (update.py): each looks releases   *)
(* up and installs one by writing its files, one by one, over the installed  *)
(* ones.                                                                    *)
(*                                                                          *)
(* There is one entity for each config entry and one directory for all; an   *)
(* entry is not reloaded while its entity installs.                         *)
(* A release is a number; its version is the file const.py says, so what    *)
(* counts as installed after a restart is what that file is of.              *)
(***************************************************************************)
EXTENDS Naturals, Sequences

CONSTANTS
    Updaters,     \* the update entities
    Installs,     \* the installs a user may ask for
    Archive,      \* Archive[r]: the files of release r in the order of the archive
    VersionFile,  \* const.py, which is in every release
    MaxRestarts   \* bound: restarts of Home Assistant

Releases == DOMAIN Archive
Files == UNION {{Archive[r][i] : i \in DOMAIN Archive[r]} : r \in Releases}

ASSUME UpdateAssumption ==
    /\ Archive \in Seq(Seq(STRING)) /\ Archive # <<>>
    /\ \A r \in Releases : \E i \in DOMAIN Archive[r] : Archive[r][i] = VersionFile
    /\ MaxRestarts \in Nat

VARIABLES
    published,  \* the newest release on GitHub
    loaded,     \* INTEGRATION_VERSION of the running code
    latest,     \* latest[u]: the release u found last, or loaded before it found one
    busy,       \* _in_progress
    install,    \* install[i]: what the install is doing, for whom, what, and the files written
    disk,       \* disk[f]: the release the file is of, 0 if there is none
    restarts,
    alone       \* ghost: alone[i]: nothing else has written since i began to write

updateVars == <<published, loaded, latest, busy, install, disk, restarts, alone>>

NotAsked == [at |-> "unasked", by |-> "nobody", of |-> 0, written |-> 0]

\* An install whose caller is gone goes on as a thread without one: "orphaned".
Stages == {"unasked", "download", "write", "orphaned", "notified", "failed"}

UpdateTypeOK ==
    /\ published \in Releases /\ loaded \in Releases
    /\ latest \in [Updaters -> Releases]
    /\ busy \subseteq Updaters
    /\ install \in [Installs -> [at : Stages, by : Updaters \cup {"nobody"}, of : Releases \cup {0}, written : Nat]]
    /\ \A i \in Installs : \/ install[i] = NotAsked
                           \/ /\ install[i].by \in Updaters /\ install[i].of \in Releases
                              /\ install[i].written <= Len(Archive[install[i].of])
    /\ disk \in [Files -> Releases \cup {0}] /\ disk[VersionFile] # 0
    /\ restarts \in 0..MaxRestarts
    /\ alone \in [Installs -> BOOLEAN]

\* A whole first release, loaded.
UpdateInit ==
    /\ published = 1 /\ loaded = 1
    /\ latest = [u \in Updaters |-> 1]
    /\ busy = {}
    /\ install = [i \in Installs |-> NotAsked]
    /\ disk = [f \in Files |-> IF \E k \in DOMAIN Archive[1] : Archive[1][k] = f THEN 1 ELSE 0]
    /\ restarts = 0 /\ alone = [i \in Installs |-> FALSE]

Writing(i) == install[i].at \in {"write", "orphaned"}

-----------------------------------------------------------------------------

\* async_update; a lookup that fails leaves what was found before.
LooksUp(u) ==
    /\ latest[u] # published
    /\ latest' = [latest EXCEPT ![u] = published]
    /\ UNCHANGED <<published, loaded, busy, install, disk, restarts, alone>>

\* Home Assistant offers a newer release only, and refuses an entity that is in progress.
InstallAsked(i, u) ==
    /\ install[i] = NotAsked
    /\ u \notin busy /\ latest[u] > loaded
    /\ busy' = busy \cup {u}
    /\ install' = [install EXCEPT ![i] = [at |-> "download", by |-> u, of |-> latest[u], written |-> 0]]
    /\ UNCHANGED <<published, loaded, latest, disk, restarts, alone>>

\* The archive is there and the executor job begins.
Downloaded(i) ==
    /\ install[i].at = "download"
    /\ install' = [install EXCEPT ![i].at = "write"]
    /\ alone' = [alone EXCEPT ![i] = \A j \in Installs : ~Writing(j)]
    /\ UNCHANGED <<published, loaded, latest, busy, disk, restarts>>

\* The next file of _install_release_zip.
NextFile(i) == Archive[install[i].of][install[i].written + 1]

\* Mutant: a file that is there already is kept.
FileWrittenIfMissing(i) ==
    /\ Writing(i) /\ install[i].written < Len(Archive[install[i].of])
    /\ disk' = [disk EXCEPT ![NextFile(i)] = IF @ = 0 THEN install[i].of ELSE @]
    /\ install' = [install EXCEPT ![i].written = @ + 1]
    /\ alone' = [j \in Installs |-> alone[j] /\ j = i]
    /\ UNCHANGED <<published, loaded, latest, busy, restarts>>

\* One file is written, whatever was there; files the release does not have are kept.
FileWritten(i) ==
    /\ Writing(i) /\ install[i].written < Len(Archive[install[i].of])
    /\ disk' = [disk EXCEPT ![NextFile(i)] = install[i].of]
    /\ install' = [install EXCEPT ![i].written = @ + 1]
    /\ alone' = [j \in Installs |-> alone[j] /\ j = i]
    /\ UNCHANGED <<published, loaded, latest, busy, restarts>>

\* Mutant: an install that is over leaves its entity in progress.
NoLongerBusy(i) == busy

\* finally: the entity is free again.
Free(i) == busy \ {install[i].by}

\* The job is done: the user is told that the files were updated.
InstallNotifies(i) ==
    /\ install[i].at = "write" /\ install[i].written = Len(Archive[install[i].of])
    /\ install' = [install EXCEPT ![i].at = "notified"]
    /\ busy' = Free(i)
    /\ UNCHANGED <<published, loaded, latest, disk, restarts, alone>>

\* The download or a write fails, anywhere.
InstallFails(i) ==
    /\ install[i].at \in {"download", "write"}
    /\ install' = [install EXCEPT ![i].at = "failed"]
    /\ busy' = Free(i)
    /\ UNCHANGED <<published, loaded, latest, disk, restarts, alone>>

\* The call is cancelled while it waits for the executor: the thread cannot be.
InstallCancelled(i) ==
    /\ install[i].at = "write"
    /\ install' = [install EXCEPT ![i].at = "orphaned"]
    /\ busy' = Free(i)
    /\ UNCHANGED <<published, loaded, latest, disk, restarts, alone>>

\* The thread of a cancelled call ends, done or not; nobody is told.
OrphanEnds(i) ==
    /\ install[i].at = "orphaned"
    /\ install' = [install EXCEPT ![i].at = "failed"]
    /\ UNCHANGED <<published, loaded, latest, busy, disk, restarts, alone>>

\* Home Assistant restarts, in the middle of whatever is going on.
UpdateRestart ==
    /\ restarts < MaxRestarts
    /\ restarts' = restarts + 1
    /\ loaded' = disk[VersionFile]
    /\ latest' = [u \in Updaters |-> disk[VersionFile]]
    /\ busy' = {}
    /\ install' = [i \in Installs |->
                     IF Writing(i) \/ install[i].at = "download" THEN [install[i] EXCEPT !.at = "failed"]
                                                                ELSE install[i]]
    /\ UNCHANGED <<published, disk, alone>>

ReleasePublished ==
    /\ published < Len(Archive)
    /\ published' = published + 1
    /\ UNCHANGED <<loaded, latest, busy, install, disk, restarts, alone>>

UpdateNext ==
    \/ \E u \in Updaters : LooksUp(u) \/ \E i \in Installs : InstallAsked(i, u)
    \/ \E i \in Installs : \/ Downloaded(i) \/ FileWritten(i) \/ InstallNotifies(i)
                           \/ InstallFails(i) \/ InstallCancelled(i) \/ OrphanEnds(i)
    \/ UpdateRestart \/ ReleasePublished

UpdateSpec == UpdateInit /\ [][UpdateNext]_updateVars

-----------------------------------------------------------------------------

\* Whatever mixture failed, cancelled or interrupted installs left behind, an install that says
\* the files were updated, and beside which no other wrote, has left the whole of its release
\* (update.py:204-222, 324-336).
NotifiesWhole ==
    \A i \in Installs :
        install[i].at = "notified" /\ alone[i] =>
            \A k \in DOMAIN Archive[install[i].of] : disk[Archive[install[i].of][k]] = install[i].of

\* At most one install of an entity is downloaded or awaited at a time, and an entity that shows
\* none is free for the next, also after failures and cancelled calls (update.py:204-224).
BusyWhileInstalling ==
    /\ busy = {install[i].by : i \in {j \in Installs : install[j].at \in {"download", "write"}}}
    /\ \A i, j \in Installs :
          {install[i].at, install[j].at} \subseteq {"download", "write"} /\ install[i].by = install[j].by => i = j
=============================================================================
