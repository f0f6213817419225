------------------------------- MODULE Worlds -------------------------------
(***************************************************************************)
(* The saved world of one server: the guest's snapshot control server      *)
(* (cmd/init/vsock_linux.go), the agent's live snapshots (quiesce.go), the *)
(* snapshots and restores of its lifecycle commands (runtime.go,           *)
(* worldsnapshot.go, worlddisk.go), the store, and the reaper of orphaned  *)
(* worlds (reaper.go).                                                     *)
(*                                                                         *)
(* A world is a version number; playing makes the next one.  Snapshots by  *)
(* the periodic sweep and by the backup command run beside each other and  *)
(* beside the lifecycle commands, which the control plane issues one at a  *)
(* time.  The game's console (RCON) may fail, as may every file operation  *)
(* that the code checks.                                                   *)
(*                                                                         *)
(* There is one guest of the server that the control plane knows, and its  *)
(* host has one VM of it.  A guest on a host that was given up while it    *)
(* was only out of touch goes on beside that one; of it the module keeps   *)
(* what it does to the store.                                              *)
(***************************************************************************)
EXTENDS Integers

CONSTANTS Snapper,    \* who takes live snapshots: the sweep, backup commands, and
                      \* guests on hosts that were given up
          MaxWorld    \* bound: the last version played

Sweep == 1
None   == -1          \* no world
Mixed  == -2          \* a disk with blocks of two versions: packs and unpacks like any
Broken == -3          \* a packed image cut short or overwritten: does not unpack
World == 0 .. MaxWorld
Blob  == World \cup {None, Mixed, Broken}

ASSUME WorldsAssumption == MaxWorld \in Nat /\ Snapper \subseteq Nat

VARIABLES row,      \* the server's row: none, live, deleting, deleted
          vm,       \* none, or in the agent's map: guest up; exited by itself, not
                    \* reaped, so running() still holds; down
          op,       \* the lifecycle command at work
          game,     \* the world in the guest's memory (0 while there is no guest)
          disk,     \* the world disk file on the host
          saves,    \* the game saves by itself
          frozen,   \* the guest's file system is frozen
          serving,  \* the connection the guest is at
          snap,     \* per snapshotter: its progress
          tmp,      \* whose capture the file worldDisk.snap is
          store,    \* the stored world
          late,     \* a snapshot that outlived its guest, or a guest on a host that
                    \* was given up, has published
          reaper    \* the reaper's progress: key listed, row found live

guestVars == <<game, saves, frozen, serving>>
fileVars  == <<disk, tmp, store, late>>
vars == <<row, vm, op, guestVars, snap, fileVars, reaper>>

\* at: progress of snapshotRunning; conn: the control connection, "left" once the
\* host closed it and the guest has yet to see that; img: what the capture holds;
\* cut: the guest went down since it was dialled, or a snapshot that outlived its
\* guest was still at work then.
NoSnap == [at |-> "idle", conn |-> "none", img |-> None, cut |-> FALSE]

\* Not a snapshot of the guest modelled here but all those of a guest on another host.
Astray == [NoSnap EXCEPT !.at = "astray"]

TypeOK ==
    /\ row \in {"none", "live", "deleting", "deleted"}
    /\ vm \in {"none", "up", "exited", "down"}
    /\ op \in {"idle", "storing", "stored"}
    /\ game \in World \cup {Mixed} /\ disk \in Blob \ {Broken}
    /\ saves \in BOOLEAN /\ frozen \in BOOLEAN
    /\ serving \in Snapper \cup {None} /\ tmp \in Snapper \cup {None}
    /\ snap \in [Snapper -> [at : {"idle", "dialled", "frozen", "reading", "captured",
                                   "thawed", "putting", "closing", "astray"},
                             conn : {"none", "queued", "served", "broken", "left"},
                             img : Blob, cut : BOOLEAN]]
    /\ store \in Blob /\ late \in BOOLEAN
    /\ reaper \in {"idle", "listed", "orphan"}

Init ==
    /\ row = "none" /\ vm = "none" /\ op = "idle"
    /\ game = 0 /\ disk = None /\ saves = TRUE /\ frozen = FALSE /\ serving = None
    /\ snap = [p \in Snapper |-> NoSnap]
    /\ tmp = None /\ store = None /\ late = FALSE /\ reaper = "idle"

-----------------------------------------------------------------------------
(* The guest.                                                              *)

\* Writing the disk in place spoils a capture that is being read from it.
Spoil(w) == [p \in Snapper |->
               IF snap[p].at = "reading" /\ snap[p].img # Broken /\ w # disk
                 THEN [snap[p] EXCEPT !.img = Mixed]
                 ELSE snap[p]]

\* Playing on a mixed world leaves it one.
Play ==
    /\ vm = "up" /\ game \in World \ {MaxWorld}
    /\ game' = game + 1
    /\ UNCHANGED <<row, vm, op, saves, frozen, serving, snap, fileVars, reaper>>

AutoSave ==
    /\ vm = "up" /\ saves /\ ~frozen /\ disk # game
    /\ disk' = game
    /\ snap' = Spoil(game)
    /\ UNCHANGED <<row, vm, op, guestVars, tmp, store, late, reaper>>

\* Mutant: PREPARE is answered with OK although the freeze failed.
PrepareUnfrozen(p) ==
    /\ vm = "up" /\ serving = None /\ snap[p].conn \in {"queued", "left"}
    /\ serving' = p
    /\ frozen' \in BOOLEAN
    /\ snap' = [snap EXCEPT ![p].conn = IF @ = "queued" THEN "served" ELSE @,
                            ![p].at = IF snap[p].conn = "queued" THEN "frozen" ELSE @]
    /\ UNCHANGED <<row, vm, op, game, saves, disk, tmp, store, late, reaper>>

\* serveSnapshotControl takes the next connection and prepareSnapshot runs: the
\* game stops saving and then flushes, if the console answers, and the file system is
\* frozen, if it can be.  A PREPARE whose sender has given up runs as well.
Prepare(p) ==
    /\ vm = "up" /\ serving = None /\ snap[p].conn \in {"queued", "left"}
    /\ serving' = p
    /\ \E off, flushed, ok \in BOOLEAN :
          /\ flushed => off
          /\ saves' = (saves /\ ~off)
          /\ disk' = IF flushed THEN game ELSE disk
          /\ frozen' = ok
          /\ snap' = [Spoil(disk') EXCEPT
                        ![p].conn = IF @ = "queued" THEN "served" ELSE @,
                        ![p].at = IF ok /\ snap[p].conn = "queued" THEN "frozen" ELSE @]
    /\ UNCHANGED <<row, vm, op, game, tmp, store, late, reaper>>

\* Mutant: the end of a connection does not thaw.
HangupStaysFrozen(p) ==
    /\ serving = p /\ snap[p].conn = "left"
    /\ serving' = None
    /\ snap' = [snap EXCEPT ![p].conn = "none"]
    /\ UNCHANGED <<row, vm, op, game, saves, frozen, fileVars, reaper>>

\* handleSnapshotConn returns when the connection ends: the deferred thaw, and before
\* it a RESUME that was sent but is still unread, if there is one.
Hangup(p) ==
    /\ serving = p /\ snap[p].conn = "left"
    /\ serving' = None /\ frozen' = FALSE
    /\ saves' \in {saves, TRUE}
    /\ snap' = [snap EXCEPT ![p].conn = "none"]
    /\ UNCHANGED <<row, vm, op, game, fileVars, reaper>>

-----------------------------------------------------------------------------
(* snapshotRunning.                                                        *)

Goto(p, to)  == snap' = [snap EXCEPT ![p].at = to]
ToClosing(p) == snap' = [snap EXCEPT ![p].at = "closing", ![p].img = None]

\* snapshotCandidates, or Snapshot for the backup of a server that has its row, then
\* dialVsockControl.
Dial(p) ==
    /\ snap[p] = NoSnap /\ vm = "up"
    /\ p = Sweep \/ row = "live"
    /\ snap' = [snap EXCEPT ![p].at = "dialled", ![p].conn = "queued",
                            ![p].cut = \E q \in Snapper : snap[q].cut]
    /\ UNCHANGED <<row, vm, op, guestVars, fileVars, reaper>>

\* The end of a host's side of a connection, with what the guest still has of it.
Ended(p) == [NoSnap EXCEPT !.conn = IF snap[p].conn \in {"queued", "served"} THEN "left"
                                                                            ELSE "none"]

\* PREPARE is refused, not answered within snapshotDeadline, or the connection broke.
PrepareFails(p) ==
    /\ snap[p].at = "dialled"
    /\ snap' = [snap EXCEPT ![p] = Ended(p)]
    /\ UNCHANGED <<row, vm, op, guestVars, fileVars, reaper>>

\* gzipDiskToFile opens the disk and truncates worldDisk.snap: whoever else is
\* using that file has lost its capture, and spoils this one while it writes.
CaptureBegin(p) ==
    /\ snap[p].at = "frozen" /\ disk # None
    /\ snap' = [q \in Snapper |->
                  IF q = p THEN [snap[p] EXCEPT !.at = "reading",
                                   !.img = IF tmp \notin {None, p} /\ snap[tmp].at = "reading"
                                             THEN Broken ELSE disk]
                  ELSE IF q = tmp /\ snap[q].img # None THEN [snap[q] EXCEPT !.img = Broken]
                  ELSE snap[q]]
    /\ tmp' = p
    /\ UNCHANGED <<row, vm, op, guestVars, disk, store, late, reaper>>

CaptureEnd(p) ==
    /\ snap[p].at = "reading"
    /\ Goto(p, "captured")
    /\ UNCHANGED <<row, vm, op, guestVars, fileVars, reaper>>

\* An error of gzipDiskToFile: the capture is given up after RESUME.
CaptureFails(p) ==
    /\ snap[p].at \in {"frozen", "reading"}
    /\ snap' = [snap EXCEPT ![p].at = "captured", ![p].img = None]
    /\ UNCHANGED <<row, vm, op, guestVars, fileVars, reaper>>

\* RESUME.  Its failure, by a broken connection or the deadline, is ignored.
Resume(p) ==
    /\ snap[p].at = "captured"
    /\ Goto(p, IF snap[p].img = None THEN "closing" ELSE "thawed")
    /\ \/ /\ snap[p].conn = "served"
          /\ frozen' = FALSE
          /\ saves' \in {saves, TRUE}
       \/ UNCHANGED <<frozen, saves>>
    /\ UNCHANGED <<row, vm, op, game, serving, fileVars, reaper>>

\* Mutant: the connection is closed once the guest is thawed.
UploadOpenClosesFirst(p) ==
    /\ snap[p].at = "thawed"
    /\ snap' = [snap EXCEPT ![p].at = "putting", ![p].conn = Ended(p).conn]
    /\ UNCHANGED <<row, vm, op, guestVars, fileVars, reaper>>

\* putGzFile opens worldDisk.snap, which may be gone by now, or another capture: what
\* is read of that is all of it or, while the other writes or removes it, a part.
UploadOpen(p) ==
    /\ snap[p].at = "thawed"
    /\ \/ tmp = None /\ ToClosing(p)
       \/ /\ tmp # None
          /\ \E i \in IF tmp = p THEN {snap[p].img} ELSE {Broken, snap[tmp].img} \ {None} :
                snap' = [snap EXCEPT ![p].at = "putting", ![p].img = i]
    /\ UNCHANGED <<row, vm, op, guestVars, fileVars, reaper>>

\* DirStore.Put: everything is read, then renamed into place.
Publish(p) ==
    /\ snap[p].at = "putting"
    /\ store' = snap[p].img
    /\ late' = (late \/ snap[p].cut)
    /\ ToClosing(p)
    /\ UNCHANGED <<row, vm, op, guestVars, disk, tmp, reaper>>

PublishFails(p) ==
    /\ snap[p].at = "putting"
    /\ ToClosing(p)
    /\ UNCHANGED <<row, vm, op, guestVars, fileVars, reaper>>

\* The deferred calls: remove the file, then close the connection.
Close(p) ==
    /\ snap[p].at = "closing"
    /\ tmp' = None
    /\ snap' = [snap EXCEPT ![p] = Ended(p)]
    /\ UNCHANGED <<row, vm, op, guestVars, disk, store, late, reaper>>

-----------------------------------------------------------------------------
(* Lifecycle commands.                                                     *)

\* The guest is gone, with its ends of the connections.
GuestDown(s) ==
    /\ game' = 0 /\ saves' = TRUE /\ frozen' = FALSE /\ serving' = None
    /\ snap' = [p \in Snapper |->
                  [s[p] EXCEPT !.conn = IF @ \in {"none", "left"} THEN "none" ELSE "broken",
                               !.cut = s[p].at \notin {"idle", "astray"}]]

Create ==
    /\ row = "none"
    /\ row' = "live"
    /\ UNCHANGED <<vm, op, guestVars, snap, fileVars, reaper>>

\* Mutant: an existing disk is kept even if the store has the world.
ProvisionKeepsDisk ==
    /\ row = "live" /\ vm = "none" /\ op = "idle" /\ store # Broken
    /\ disk' = IF disk = None THEN 0 ELSE disk
    /\ vm' = "up" /\ game' = disk'
    /\ UNCHANGED <<row, op, saves, frozen, serving, snap, tmp, store, late, reaper>>

\* Mutant: the checksum of what is unpacked is not checked.
ProvisionUnchecked ==
    /\ row = "live" /\ vm = "none" /\ op = "idle"
    /\ disk' = IF store # None THEN store ELSE IF disk = None THEN 0 ELSE disk
    /\ vm' = "up" /\ game' = 0
    /\ UNCHANGED <<row, op, saves, frozen, serving, snap, tmp, store, late, reaper>>

\* prepareWorldDisk restores the stored world, or else keeps the disk that is there,
\* or makes an empty one.  A broken image does not unpack and Provision fails; a
\* mixed one unpacks and is booted.
Provision ==
    /\ row = "live" /\ vm = "none" /\ op = "idle" /\ store # Broken
    /\ disk' = IF store # None THEN store ELSE IF disk = None THEN 0 ELSE disk
    /\ vm' = "up" /\ game' = disk'
    /\ UNCHANGED <<row, op, saves, frozen, serving, snap, tmp, store, late, reaper>>

\* A failure after that, up to the boot's, leaves the disk.
ProvisionFails ==
    /\ row = "live" /\ vm = "none" /\ op = "idle" /\ store # Broken
    /\ disk' = IF store # None THEN store ELSE IF disk = None THEN 0 ELSE disk
    /\ UNCHANGED <<row, vm, op, guestVars, snap, tmp, store, late, reaper>>

\* Stop halts the guest, which syncs unless it is frozen or has to be killed.
Stop ==
    /\ row = "live" /\ vm # "none" /\ op \in {"idle", "stored"}
    /\ op' = "storing" /\ vm' = "down"
    /\ IF vm # "up" THEN UNCHANGED <<disk, guestVars, snap>>
       ELSE /\ disk' \in {disk} \cup (IF frozen THEN {} ELSE {game})
            /\ GuestDown(Spoil(disk'))
    /\ UNCHANGED <<row, tmp, store, late, reaper>>

\* Then snapshotWorldDisk; the command fails if that does.
StopStore ==
    /\ op = "storing"
    /\ \/ store' = disk /\ op' = "stored"
       \/ UNCHANGED store /\ op' = "idle"
    /\ UNCHANGED <<row, vm, guestVars, snap, disk, tmp, late, reaper>>

\* powerOff: the server process ended and init resets the guest, which ends Firecracker.
\* Nobody waits for that process, so to the agent the VM runs on.
GuestExit ==
    /\ vm = "up"
    /\ vm' = "exited"
    /\ disk' \in {disk} \cup (IF frozen THEN {} ELSE {game})
    /\ GuestDown(Spoil(disk'))
    /\ UNCHANGED <<row, op, tmp, store, late, reaper>>

\* A no-op for a VM that runs, or is taken to.
Start ==
    /\ row = "live" /\ vm = "down" /\ op = "idle"
    /\ vm' = "up" /\ game' = disk
    /\ UNCHANGED <<row, op, saves, frozen, serving, snap, fileVars, reaper>>

\* teardown removes the directory of the disk, worldDisk.snap with it, or fails to;
\* the retry then finds no VM and succeeds.  stop calls Evict once Stop has succeeded.
Evict ==
    /\ op = "stored"
    /\ op' = "idle" /\ vm' = "none"
    /\ \/ disk' = None /\ tmp' = None
       \/ UNCHANGED <<disk, tmp>>
    /\ UNCHANGED <<row, guestVars, snap, store, late, reaper>>

\* delete: MarkStatus(deleting), Deprovision of the VM, if there is one still, and of
\* the stored world, if the store lets it.  Nobody looks at the row in between.
Delete ==
    /\ row = "live" /\ op # "storing"
    /\ row' = "deleting" /\ op' = "idle"
    /\ IF vm = "none" THEN UNCHANGED <<vm, guestVars, snap, disk, tmp, store>>
       ELSE /\ vm' = "none"
            /\ \/ disk' = None /\ tmp' = None /\ store' \in {None, store}
               \/ UNCHANGED <<disk, tmp, store>>
            /\ GuestDown(snap)
    /\ UNCHANGED <<late, reaper>>

\* On a host that cannot be reached the VM is left alone and the row goes anyway.
DeleteUnreachable ==
    /\ row = "live" /\ vm # "none" /\ op # "storing"
    /\ row' = "deleted" /\ op' = "idle"
    /\ UNCHANGED <<vm, guestVars, snap, fileVars, reaper>>

SoftDelete ==
    /\ row = "deleting"
    /\ row' = "deleted"
    /\ UNCHANGED <<vm, op, guestVars, snap, fileVars, reaper>>

\* checkServerLiveness: the host of a running server is out of touch for hostDeadAfter,
\* the server is marked lost and placed on another.  The host is dead, or it is not and
\* its guest and its sweep go on.
HostLost ==
    /\ row = "live" /\ vm \in {"up", "exited"} /\ op = "idle"
    /\ vm' = "none" /\ disk' = None /\ tmp' = None
    /\ game' = 0 /\ saves' = TRUE /\ frozen' = FALSE /\ serving' = None
    /\ \E alive \in {{}} \cup {{p} : p \in Snapper \ {Sweep}} :
          snap' = [p \in Snapper |-> IF snap[p] = Astray \/ p \in alive THEN Astray ELSE NoSnap]
    /\ UNCHANGED <<row, op, store, late, reaper>>

\* snapshotSweep on a host that was given up.  Its guest was played on since, or has
\* exited under a capture: any version may come, or a spoiled one.
StrayPublish(p) ==
    /\ snap[p] = Astray
    /\ store' \in Blob \ {None}
    /\ late' = TRUE
    /\ UNCHANGED <<row, vm, op, guestVars, snap, disk, tmp, reaper>>

-----------------------------------------------------------------------------
(* reapWorlds.                                                             *)

\* Mutant: live servers are listed before stored worlds.
ReapListIdsFirst ==
    /\ reaper = "idle" /\ row \in {"none", "deleted"}
    /\ reaper' = "orphan"
    /\ UNCHANGED <<row, vm, op, guestVars, snap, fileVars>>

ReapList ==
    /\ reaper = "idle" /\ store # None
    /\ reaper' = "listed"
    /\ UNCHANGED <<row, vm, op, guestVars, snap, fileVars>>

\* Mutant: a row that is gone keeps its world.
ReapIdsAll ==
    /\ reaper = "listed"
    /\ reaper' = IF row = "none" THEN "orphan" ELSE "idle"
    /\ UNCHANGED <<row, vm, op, guestVars, snap, fileVars>>

ReapIds ==
    /\ reaper = "listed"
    /\ reaper' = IF row \in {"live", "deleting"} THEN "idle" ELSE "orphan"
    /\ UNCHANGED <<row, vm, op, guestVars, snap, fileVars>>

ReapDelete ==
    /\ reaper = "orphan"
    /\ reaper' = "idle"
    /\ store' = None
    /\ UNCHANGED <<row, vm, op, guestVars, snap, disk, tmp, late>>

\* An error of any of the three ends the round, or skips the world.
ReapFails ==
    /\ reaper # "idle"
    /\ reaper' = "idle"
    /\ UNCHANGED <<row, vm, op, guestVars, snap, fileVars>>

-----------------------------------------------------------------------------

Finish(p) ==
    \/ PrepareFails(p) \/ CaptureBegin(p) \/ CaptureEnd(p) \/ CaptureFails(p)
    \/ Resume(p) \/ UploadOpen(p) \/ Publish(p) \/ PublishFails(p) \/ Close(p)

Snapshot(p) == Dial(p) \/ Finish(p)

Guest == \/ Play \/ AutoSave \/ GuestExit
         \/ \E p \in Snapper : Prepare(p) \/ Hangup(p)

Lifecycle == \/ Create \/ Provision \/ ProvisionFails \/ Stop \/ StopStore \/ Start \/ Evict
             \/ Delete \/ DeleteUnreachable \/ SoftDelete \/ HostLost

Reap == ReapList \/ ReapIds \/ ReapDelete \/ ReapFails

Next == Guest \/ Lifecycle \/ Reap \/ \E p \in Snapper : Snapshot(p) \/ StrayPublish(p)

Spec == Init /\ [][Next]_vars

\* Every wait of a snapshot has a deadline, so every snapshot ends: what weak fairness
\* of Finish(p) comes to, as a step of it is possible until then and each leads on.
\* The guest's server loop runs; the reaper's ticker keeps firing and its errors are
\* not permanent.  The subscripts name a variable that every step of the action changes.
Fairness ==
    /\ \A p \in Snapper : []<>(snap[p].at \in {"idle", "astray"})
    /\ WF_snap(\E p \in Snapper : Hangup(p))
    /\ WF_reaper(ReapList) /\ SF_reaper(ReapIds) /\ SF_reaper(ReapDelete)

FairSpec == Spec /\ Fairness

-----------------------------------------------------------------------------

\* A live snapshot that kept its guest, with none left over from an earlier guest,
\* is whole, if the disk is: no one writes the disk while it is read and no other
\* snapshot gets at its file, since the guest answers one connection at a time and
\* the connection outlives the file.
CapturesWhole ==
    \A p \in Snapper :
        snap[p].at \in {"captured", "thawed", "putting"} /\ ~snap[p].cut =>
            snap[p].img # Broken /\ (snap[p].img = Mixed => disk = Mixed)

\* Unless a snapshot that outlived its guest, or a guest on a host that was given up,
\* has published, the stored world is whole, and so is the disk that is restored from
\* it: nothing else stores an image that is torn (worldsnapshot.go:26-27) or useless.
SpoiledOnlyWhenLate == store \in {Mixed, Broken} \/ disk = Mixed => late

Older == store \in World /\ store' \in World /\ store' < store

\* Unless a snapshot that outlived its guest, or a guest on a host that was given up,
\* has published, the stored world never goes back: not by Stop, nor after a restore,
\* nor by two snapshots of one guest.
GoesBackOnlyWhenLate == [][Older => late']_vars

\* The stored world never goes back (runtime.go:369-373: Stop stores the world "so
\* a later delete or reschedule can restore the world").
NeverGoesBack == [][~Older]_vars

\* Nobody deletes the stored world of a server whose deletion was not asked for:
\* not the reaper, whatever happens between its two listings.
LiveWorldKept ==
    [][store # None /\ store' = None => row' \in {"deleting", "deleted"}]_vars

\* No snapshot, whichever step of it fails, leaves the guest frozen (quiesce.go:37
\* "never leaves the guest's disk frozen").
ThawedInTheEnd == frozen ~> ~frozen

\* The world of a deleted server is deleted in the end, even if its host was gone,
\* and again if a late upload brings it back.
OrphansReaped == (row = "deleted") ~> (row = "deleted" /\ store = None)
=============================================================================
