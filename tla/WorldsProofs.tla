---------------------------- MODULE WorldsProofs ----------------------------
(***************************************************************************)
(* The saved world, for any number of snapshotters and any length of play: *)
(* it is kept while its server lives, captures are whole, and it goes back *)
(* or is spoiled only when a snapshot that outlived its guest, or a guest  *)
(* on a host that was given up, has published.                             *)
(***************************************************************************)
EXTENDS Worlds, TLAPS

\* Steps are first-order unless they say SMT.
USE Zenon

Progress == {"idle", "dialled", "frozen", "reading", "captured", "thawed", "putting",
             "closing", "astray"}

\* No snapshot of this guest is at work.
Off == {"idle", "astray"}

Conn == {"none", "queued", "served", "broken", "left"}

SnapState == [at : Progress, conn : Conn, img : Blob, cut : BOOLEAN]

-----------------------------------------------------------------------------
(* Types, and the life of a server.                                        *)

\* A VM in the agent's map has a disk, a guest has the world of its disk or one played
\* on from it, a command at work has halted its guest, nothing is there before the row
\* is, and the reaper condemns deleted rows only.
LifeInv ==
    /\ vm # "none" => disk # None
    /\ vm = "up" => (disk = Mixed <=> game = Mixed)
    /\ op # "idle" => vm = "down"
    /\ row = "none" => /\ vm = "none" /\ store = None
                       /\ \A p \in Snapper : snap[p].at = "idle"
    /\ reaper # "idle" => row # "none"
    /\ reaper = "orphan" => row = "deleted"
    /\ \A p \in Snapper : snap[p].at \in {"thawed", "putting"} => snap[p].img # None

\* The numbers that stand for no world, a mixed or a broken one, and nobody.
LEMMA Markers ==
    /\ None \in Blob /\ Mixed \in Blob /\ Broken \in Blob
    /\ None # Mixed /\ None # Broken /\ Mixed # Broken
    /\ None \notin World /\ Mixed \notin World /\ Broken \notin World /\ 0 \in World
    /\ \A w \in World : w \in Nat /\ w \in Blob \ {None, Mixed, Broken}
    /\ \A w \in Blob \ {None, Mixed, Broken} : w \in World
    /\ None \notin Snapper
  BY WorldsAssumption, SMT DEF None, Mixed, Broken, World, Blob

\* No snapshot is a state of one.
LEMMA NoSnapType ==
    /\ NoSnap \in SnapState /\ NoSnap.at = "idle" /\ ~NoSnap.cut
    /\ Astray \in SnapState /\ Astray.at = "astray" /\ ~Astray.cut
    /\ NoSnap.conn = "none" /\ Astray.conn = "none"
  BY Markers DEF NoSnap, Astray, SnapState, Progress, Conn

\* The host is given up: every snapshot of it is forgotten or goes astray.
LEMMA LostFacts ==
    ASSUME HostLost
    PROVE  /\ snap' \in [Snapper -> SnapState]
           /\ \A q \in Snapper : snap'[q].at \in Off /\ snap'[q].conn = "none"
  <1>1. PICK alive : snap' = [p \in Snapper |-> IF snap[p] = Astray \/ p \in alive
                                                THEN Astray ELSE NoSnap]
    BY DEF HostLost
  <1>2. \A q \in Snapper : snap'[q] \in {Astray, NoSnap}
    BY <1>1
  <1> QED BY <1>1, <1>2, NoSnapType DEF Off

\* Writing the disk changes nothing but what is being read from it.
LEMMA SpoilFacts ==
    ASSUME TypeOK, NEW w, NEW q \in Snapper
    PROVE  /\ Spoil(w)[q] \in SnapState
           /\ Spoil(w)[q].at = snap[q].at
           /\ Spoil(w)[q].conn = snap[q].conn
           /\ Spoil(w)[q].cut = snap[q].cut
           /\ Spoil(w)[q].img # snap[q].img =>
                 Spoil(w)[q].img = Mixed /\ snap[q].at = "reading" /\ w # disk
  <1>1. snap[q] \in SnapState
    BY DEF TypeOK, SnapState, Progress, Conn
  <1> QED BY <1>1, Markers DEF Spoil, SnapState

\* What is left when the guest is gone.
LEMMA DownFacts ==
    ASSUME NEW s, NEW q \in Snapper, s[q] \in SnapState, GuestDown(s)
    PROVE  /\ snap'[q] \in SnapState
           /\ snap'[q].at = s[q].at
           /\ snap'[q].img = s[q].img
           /\ snap'[q].cut = (s[q].at \notin Off)
           /\ snap'[q].conn # "queued"
  BY DEF GuestDown, SnapState, Conn, Off

\* The end of the host's side of a connection.
LEMMA EndedFacts ==
    ASSUME NEW p
    PROVE  /\ Ended(p) \in SnapState /\ Ended(p).at = "idle" /\ ~Ended(p).cut
           /\ Ended(p).conn # "queued"
  BY Markers DEF Ended, NoSnap, SnapState, Progress, Conn

\* The step changes the progress of p alone.
Alone(p) == \A q \in Snapper : q # p => snap'[q] = snap[q]

\* Dialling, and the end of a connection the guest is at.
LEMMA DialFacts ==
    ASSUME TypeOK, NEW p \in Snapper, Dial(p)
    PROVE  /\ snap' \in [Snapper -> SnapState] /\ Alone(p)
           /\ snap'[p].at = "dialled" /\ snap'[p].img = None
           /\ snap'[p].cut = \E q \in Snapper : snap[q].cut
  <1> DEFINE c == \E q \in Snapper : snap[q].cut
             r == [at |-> "dialled", conn |-> "queued", img |-> None, cut |-> c]
  <1>0. snap \in [Snapper -> SnapState]
    BY DEF TypeOK, SnapState, Progress, Conn
  <1>1. c \in BOOLEAN
    OBVIOUS
  <1>2. snap[p] = NoSnap /\ snap' = [snap EXCEPT ![p].at = "dialled", ![p].conn = "queued",
                                                 ![p].cut = c]
    BY DEF Dial
  <1> HIDE DEF c
  <1>3. snap' = [snap EXCEPT ![p] = r]
    BY <1>0, <1>2, SMT DEF NoSnap
  <1>4. r \in SnapState
    BY <1>1, Markers DEF SnapState, Progress, Conn
  <1>5. r.at = "dialled" /\ r.img = None /\ r.cut = c
    OBVIOUS
  <1> HIDE DEF r
  <1>6. snap' \in [Snapper -> SnapState] /\ Alone(p) /\ snap'[p] = r
    BY <1>0, <1>3, <1>4 DEF Alone
  <1> QED BY <1>5, <1>6 DEF c

\* Hanging up forgets the connection.
LEMMA HangupFacts ==
    ASSUME TypeOK, NEW p \in Snapper, Hangup(p)
    PROVE  /\ snap' \in [Snapper -> SnapState] /\ Alone(p)
           /\ snap'[p].at = snap[p].at /\ snap'[p].img = snap[p].img
           /\ snap'[p].cut = snap[p].cut /\ snap'[p].conn = "none"
  <1>0. snap \in [Snapper -> SnapState]
    BY DEF TypeOK, SnapState, Progress, Conn
  <1> QED BY <1>0 DEF Hangup, SnapState, Conn, Alone

\* p moves on to a with image i.
Moved(p, a, i) ==
    /\ snap' \in [Snapper -> SnapState] /\ Alone(p)
    /\ snap'[p].at = a /\ snap'[p].img = i
    /\ snap'[p].conn = snap[p].conn /\ snap'[p].cut = snap[p].cut

\* A step of snapshotRunning that moves on, with the image it has or another.
LEMMA MoveFacts ==
    ASSUME TypeOK, NEW p \in Snapper, NEW a \in Progress, NEW i \in Blob,
           \/ Goto(p, a) /\ i = snap[p].img
           \/ snap' = [snap EXCEPT ![p].at = a, ![p].img = i]
    PROVE  Moved(p, a, i)
  <1>0. snap \in [Snapper -> SnapState]
    BY DEF TypeOK, SnapState, Progress, Conn
  <1>1. CASE Goto(p, a) /\ i = snap[p].img
    BY <1>0, <1>1, SMT DEF Goto, SnapState, Alone, Moved
  <1>2. CASE snap' = [snap EXCEPT ![p].at = a, ![p].img = i]
    BY <1>0, <1>2 DEF SnapState, Alone, Moved
  <1> QED BY <1>1, <1>2

\* What the steps after the freeze do to the snapshot.
LEMMA FinishMoves ==
    ASSUME TypeOK, NEW p \in Snapper
    PROVE  /\ CaptureEnd(p) => Moved(p, "captured", snap[p].img)
           /\ CaptureFails(p) => Moved(p, "captured", None)
           /\ Resume(p) => Moved(p, IF snap[p].img = None THEN "closing" ELSE "thawed",
                                 snap[p].img)
           /\ UploadOpen(p) => \/ tmp = None /\ Moved(p, "closing", None)
                               \/ \E i \in Blob : /\ tmp # None /\ Moved(p, "putting", i)
                                                   /\ IF tmp = p THEN i = snap[p].img
                                                                 ELSE i # None
           /\ Publish(p) \/ PublishFails(p) => Moved(p, "closing", None)
  <1>0. snap \in [Snapper -> SnapState] /\ snap[p].img \in Blob
    BY DEF TypeOK, SnapState, Progress, Conn
  <1>1. CaptureEnd(p) => Moved(p, "captured", snap[p].img)
    BY <1>0, MoveFacts DEF CaptureEnd, Progress
  <1>2. CaptureFails(p) => Moved(p, "captured", None)
    BY <1>0, MoveFacts, Markers DEF CaptureFails, Progress
  <1>3. Resume(p) => Moved(p, IF snap[p].img = None THEN "closing" ELSE "thawed",
                           snap[p].img)
    BY <1>0, MoveFacts DEF Resume, Progress
  <1>4. ASSUME UploadOpen(p)
        PROVE  \/ tmp = None /\ Moved(p, "closing", None)
               \/ \E i \in Blob : /\ tmp # None /\ Moved(p, "putting", i)
                                   /\ IF tmp = p THEN i = snap[p].img ELSE i # None
    <2>1. CASE tmp = None
      BY <1>4, <2>1, MoveFacts, Markers DEF UploadOpen, ToClosing, Progress
    <2>2. CASE tmp # None
      <3>1. tmp \in Snapper /\ snap[tmp].img \in Blob
        BY <2>2 DEF TypeOK
      <3>2. PICK i \in IF tmp = p THEN {snap[p].img} ELSE {Broken, snap[tmp].img} \ {None} :
              snap' = [snap EXCEPT ![p].at = "putting", ![p].img = i]
        BY <1>4, <2>2 DEF UploadOpen
      <3>3. i \in Blob /\ IF tmp = p THEN i = snap[p].img ELSE i # None
        BY <1>0, <3>1, <3>2, Markers
      <3>4. Moved(p, "putting", i)
        BY <3>2, <3>3, MoveFacts DEF Progress
      <3> QED BY <2>2, <3>3, <3>4
    <2> QED BY <2>1, <2>2
  <1>5. Publish(p) \/ PublishFails(p) => Moved(p, "closing", None)
    BY <1>0, MoveFacts, Markers DEF Publish, PublishFails, ToClosing, Progress
  <1> QED BY <1>1, <1>2, <1>3, <1>4, <1>5

\* PREPARE freezes p's snapshot, if p still waits for it, and spoils what is read.
LEMMA PrepareFacts ==
    ASSUME TypeOK, NEW p \in Snapper, Prepare(p)
    PROVE  /\ snap' \in [Snapper -> SnapState]
           /\ \A q \in Snapper :
                /\ snap'[q].cut = snap[q].cut
                /\ snap'[q].img # snap[q].img => snap[q].at = "reading"
                /\ q # p => snap'[q].at = snap[q].at /\ snap'[q].conn = snap[q].conn
           /\ snap'[p].at # snap[p].at =>
                /\ snap[p].conn = "queued"
                /\ snap'[p].at = "frozen" /\ snap'[p].conn = "served" /\ frozen'
           /\ snap'[p].conn \in {snap[p].conn, "served"}
  <1> DEFINE s == Spoil(disk')
  <1>1. PICK ok \in BOOLEAN :
          /\ frozen' = ok
          /\ snap' = [s EXCEPT
                        ![p].conn = IF @ = "queued" THEN "served" ELSE @,
                        ![p].at = IF ok /\ snap[p].conn = "queued" THEN "frozen" ELSE @]
    BY DEF Prepare
  <1>2. \A q \in Snapper : /\ s[q] \in SnapState
                           /\ s[q].at = snap[q].at /\ s[q].conn = snap[q].conn
                           /\ s[q].cut = snap[q].cut
                           /\ s[q].img # snap[q].img => snap[q].at = "reading"
    BY SpoilFacts
  <1>3. s \in [Snapper -> SnapState]
    BY <1>2 DEF Spoil
  <1> HIDE DEF s
  <1>4. \A q \in Snapper : q # p => snap'[q] = s[q]
    BY <1>1, <1>3
  <1> DEFINE c == IF s[p].conn = "queued" THEN "served" ELSE s[p].conn
             a == IF ok /\ snap[p].conn = "queued" THEN "frozen" ELSE s[p].at
  <1>5. c \in Conn /\ a \in Progress
    BY <1>2 DEF SnapState, Conn, Progress
  <1>6. snap' = [s EXCEPT ![p] = [s[p] EXCEPT !.conn = c, !.at = a]]
    BY <1>1, <1>2, <1>3 DEF SnapState
  <1>7. \/ c = s[p].conn /\ a = s[p].at
        \/ c = "served" /\ a = s[p].at
        \/ c = "served" /\ a = "frozen" /\ frozen' /\ s[p].conn = "queued"
    BY <1>1, <1>2
  <1> HIDE DEF c, a
  <1>8. /\ snap'[p].cut = s[p].cut /\ snap'[p].img = s[p].img
        /\ snap'[p].conn = c /\ snap'[p].at = a
        /\ snap' \in [Snapper -> SnapState]
    BY <1>2, <1>3, <1>5, <1>6 DEF SnapState
  <1> QED BY <1>2, <1>4, <1>7, <1>8

\* Truncating worldDisk.snap breaks the capture that is in it.
LEMMA BeginFacts ==
    ASSUME TypeOK, NEW p \in Snapper, CaptureBegin(p)
    PROVE  /\ snap' \in [Snapper -> SnapState]
           /\ \A q \in Snapper :
                /\ snap'[q].cut = snap[q].cut /\ snap'[q].conn = snap[q].conn
                /\ q # p => /\ snap'[q].at = snap[q].at
                            /\ snap'[q].img = snap[q].img \/ snap'[q].img = Broken
           /\ snap'[p].at = "reading"
           /\ snap'[p].img = IF tmp \notin {None, p} /\ snap[tmp].at = "reading"
                               THEN Broken ELSE disk
  <1>0. snap \in [Snapper -> SnapState] /\ disk \in Blob
    BY DEF TypeOK, SnapState, Progress, Conn
  <1>1. ASSUME NEW q \in Snapper
        PROVE  /\ snap'[q] \in SnapState
               /\ snap'[q].cut = snap[q].cut /\ snap'[q].conn = snap[q].conn
               /\ q # p => /\ snap'[q].at = snap[q].at
                           /\ snap'[q].img = snap[q].img \/ snap'[q].img = Broken
               /\ q = p => /\ snap'[q].at = "reading"
                           /\ snap'[q].img = IF tmp \notin {None, p} /\ snap[tmp].at = "reading"
                                               THEN Broken ELSE disk
    <2>1. CASE q = p
      BY <1>0, <2>1, Markers DEF CaptureBegin, SnapState, Progress
    <2>2. CASE q # p
      BY <1>0, <2>2, Markers DEF CaptureBegin, SnapState, Progress
    <2> QED BY <2>1, <2>2
  <1>2. snap' \in [Snapper -> SnapState]
    BY <1>1 DEF CaptureBegin
  <1> QED BY <1>1, <1>2

\* The snapshotters' progress stays well typed.
LEMMA SnapType ==
    ASSUME TypeOK, LifeInv, Next
    PROVE  snap' \in [Snapper -> SnapState]
  <1>0. snap \in [Snapper -> SnapState]
    BY DEF TypeOK, SnapState, Progress, Conn
  <1>1. ASSUME NEW p \in Snapper, Prepare(p) \/ CaptureBegin(p)
        PROVE  snap' \in [Snapper -> SnapState]
    BY <1>1, PrepareFacts, BeginFacts
  <1>2. ASSUME NEW p \in Snapper, Hangup(p) \/ Dial(p)
        PROVE  snap' \in [Snapper -> SnapState]
    BY <1>2, HangupFacts, DialFacts
  <1>3. ASSUME NEW p \in Snapper, PrepareFails(p) \/ Close(p)
        PROVE  snap' \in [Snapper -> SnapState]
    BY <1>0, <1>3, EndedFacts DEF PrepareFails, Close
  <1>5. ASSUME NEW p \in Snapper,
               \/ CaptureEnd(p) \/ CaptureFails(p) \/ Resume(p)
               \/ UploadOpen(p) \/ Publish(p) \/ PublishFails(p)
        PROVE  snap' \in [Snapper -> SnapState]
    BY <1>5, FinishMoves DEF Moved
  <1>7. ASSUME NEW s, GuestDown(s), \A q \in Snapper : s[q] \in SnapState
        PROVE  snap' \in [Snapper -> SnapState]
    <2>1. \A q \in Snapper : snap'[q] \in SnapState
      BY <1>7, DownFacts
    <2> QED BY <1>7, <2>1 DEF GuestDown
  <1>8. CASE Stop \/ GuestExit \/ Delete
    <2>1. \A q \in Snapper : snap[q] \in SnapState /\ Spoil(disk')[q] \in SnapState
      BY <1>0, SpoilFacts
    <2>2. \/ snap' = snap
          \/ GuestDown(snap)
          \/ GuestDown(Spoil(disk'))
      BY <1>8 DEF Stop, GuestExit, Delete
    <2> QED BY <1>0, <1>7, <2>1, <2>2
  <1>9. CASE HostLost
    BY <1>9, LostFacts
  <1>10. CASE AutoSave
    <2>1. \A q \in Snapper : Spoil(game)[q] \in SnapState
      BY SpoilFacts
    <2> QED BY <1>10, <2>1 DEF AutoSave, Spoil
  <1>11. CASE snap' = snap
    BY <1>0, <1>11
  <1>12. CASE \/ Play \/ Create \/ Provision \/ ProvisionFails \/ StopStore \/ Start
              \/ Evict \/ DeleteUnreachable \/ SoftDelete \/ Reap
              \/ \E p \in Snapper : StrayPublish(p)
    BY <1>11, <1>12 DEF Play, Create, Provision, ProvisionFails, StopStore, Start, Evict,
              DeleteUnreachable, SoftDelete, Reap, ReapList, ReapIds, ReapDelete, ReapFails,
              StrayPublish
  <1> QED BY <1>1, <1>2, <1>3, <1>5, <1>8, <1>9, <1>10, <1>12
          DEF Next, Guest, Lifecycle, Snapshot, Finish

\* Lifecycle commands keep the guest, the disk and the store well typed.
LEMMA LifecycleType ==
    ASSUME TypeOK, LifeInv, Lifecycle \/ GuestExit
    PROVE  /\ row' \in {"none", "live", "deleting", "deleted"}
           /\ vm' \in {"none", "up", "exited", "down"} /\ op' \in {"idle", "storing", "stored"}
           /\ game' \in World \cup {Mixed} /\ disk' \in Blob \ {Broken}
           /\ saves' \in BOOLEAN /\ frozen' \in BOOLEAN
           /\ serving' \in Snapper \cup {None} /\ tmp' \in Snapper \cup {None}
           /\ store' \in Blob /\ late' = late /\ reaper' = reaper
  <1>1. CASE Create \/ StopStore \/ DeleteUnreachable \/ SoftDelete \/ Evict \/ HostLost
    BY <1>1, Markers DEF TypeOK, Create, StopStore, DeleteUnreachable, SoftDelete, Evict,
                         HostLost, guestVars, fileVars
  <1>2. CASE Provision \/ ProvisionFails \/ Start
    BY <1>2, Markers DEF TypeOK, LifeInv, Provision, ProvisionFails, Start, guestVars,
                         fileVars
  <1>3. CASE Stop \/ GuestExit
    BY <1>3, Markers DEF TypeOK, Stop, GuestExit, GuestDown, guestVars
  <1>4. CASE Delete
    BY <1>4, Markers DEF TypeOK, Delete, GuestDown, guestVars
  <1> QED BY <1>1, <1>2, <1>3, <1>4 DEF Lifecycle

\* Every step keeps the types.
LEMMA StepType ==
    ASSUME TypeOK, LifeInv, [Next]_vars
    PROVE  TypeOK'
  <1>1. CASE UNCHANGED vars
    BY <1>1, SMT DEF vars, guestVars, fileVars, TypeOK
  <1> SUFFICES ASSUME Next PROVE TypeOK'
    BY <1>1
  <1>2. /\ snap' \in [Snapper -> SnapState]
        /\ \A p \in Snapper : snap[p].img \in Blob /\ snap[p].cut \in BOOLEAN
    BY SnapType DEF TypeOK
  <1>3. CASE Lifecycle \/ GuestExit
    BY <1>2, <1>3, LifecycleType DEF TypeOK, SnapState, Progress, Conn
  <1>4. CASE Play \/ AutoSave
    <2>1. game' \in World \cup {Mixed} /\ disk' \in Blob \ {Broken}
      <3>1. CASE Play
        <4>1. game' \in World
          BY <3>1, WorldsAssumption, SMT DEF Play, TypeOK, World
        <4> QED BY <3>1, <4>1 DEF Play, TypeOK, fileVars
      <3>2. CASE AutoSave
        BY <3>2, Markers DEF AutoSave, TypeOK, guestVars
      <3> QED BY <1>4, <3>1, <3>2
    <2> QED BY <1>2, <1>4, <2>1 DEF Play, AutoSave, TypeOK, SnapState, Progress, Conn,
                                    fileVars, guestVars
  <1>5. ASSUME NEW p \in Snapper, Prepare(p) \/ Hangup(p) PROVE TypeOK'
    <2>1. disk' \in Blob \ {Broken} /\ saves' \in BOOLEAN /\ frozen' \in BOOLEAN
          /\ serving' \in Snapper \cup {None}
      BY <1>5, Markers DEF Prepare, Hangup, TypeOK, fileVars
    <2> QED BY <1>2, <1>5, <2>1 DEF Prepare, Hangup, TypeOK, SnapState, Progress, Conn,
                                    fileVars
  <1>6. ASSUME NEW p \in Snapper, Snapshot(p) PROVE TypeOK'
    <2>1. CASE Dial(p) \/ PrepareFails(p) \/ CaptureEnd(p) \/ CaptureFails(p)
      BY <1>2, <2>1, SMT DEF Dial, PrepareFails, CaptureEnd, CaptureFails, TypeOK, SnapState,
                        Progress, Conn, fileVars, guestVars
    <2>2. CASE UploadOpen(p) \/ PublishFails(p) \/ CaptureBegin(p) \/ Close(p)
      BY <1>2, <2>2, SMT DEF UploadOpen, PublishFails, CaptureBegin, Close, TypeOK, SnapState,
                        Progress, Conn, fileVars, guestVars
    <2>3. CASE Resume(p)
      <3>1. frozen' \in BOOLEAN /\ saves' \in BOOLEAN
        BY <2>3 DEF Resume, TypeOK
      <3> QED BY <1>2, <2>3, <3>1, SMT DEF Resume, TypeOK, SnapState, Progress, Conn, fileVars
    <2>4. CASE Publish(p)
      <3>1. store' \in Blob /\ late' \in BOOLEAN
        BY <1>2, <2>4 DEF Publish, TypeOK
      <3> QED BY <1>2, <2>4, <3>1, SMT DEF Publish, TypeOK, SnapState, Progress, Conn, guestVars
    <2> QED BY <1>6, <2>1, <2>2, <2>3, <2>4 DEF Snapshot, Finish
  <1>7. CASE Reap
    BY <1>2, <1>7, Markers, ZenonT(30) DEF Reap, ReapList, ReapIds, ReapDelete, ReapFails, TypeOK, SnapState,
                      Progress, Conn, fileVars, guestVars
  <1>8. ASSUME NEW p \in Snapper, StrayPublish(p) PROVE TypeOK'
    <2>1. store' \in Blob /\ late' \in BOOLEAN
      BY <1>8 DEF StrayPublish
    <2> QED BY <1>2, <1>8, <2>1, SMT DEF StrayPublish, TypeOK, SnapState, Progress, Conn, guestVars
  <1> QED BY <1>3, <1>4, <1>5, <1>6, <1>7, <1>8 DEF Next, Guest, Lifecycle

\* No snapshot goes to be uploaded without an image.
LEMMA StepFilled ==
    ASSUME TypeOK, LifeInv, Next, NEW q \in Snapper, snap'[q].at \in {"thawed", "putting"}
    PROVE  snap'[q].img # None
  <1>0. snap \in [Snapper -> SnapState]
    BY DEF TypeOK, SnapState, Progress, Conn
  <1>1. CASE snap'[q].at = snap[q].at /\ snap'[q].img \in {snap[q].img, Mixed, Broken}
    BY <1>1, Markers DEF LifeInv
  <1>2. ASSUME NEW p \in Snapper, Prepare(p) PROVE snap'[q].img # None
    BY <1>1, <1>2, PrepareFacts
  <1>3. ASSUME NEW p \in Snapper, Hangup(p) \/ Dial(p) PROVE snap'[q].img # None
    BY <1>1, <1>3, HangupFacts, DialFacts DEF Alone
  <1>4. ASSUME NEW p \in Snapper, PrepareFails(p) \/ Close(p) PROVE snap'[q].img # None
    BY <1>0, <1>1, <1>4, EndedFacts DEF PrepareFails, Close
  <1>5. ASSUME NEW p \in Snapper, CaptureBegin(p) PROVE snap'[q].img # None
    BY <1>1, <1>5, BeginFacts
  <1>6. ASSUME NEW p \in Snapper,
               \/ CaptureEnd(p) \/ CaptureFails(p) \/ Resume(p)
               \/ UploadOpen(p) \/ Publish(p) \/ PublishFails(p)
        PROVE  snap'[q].img # None
    <2>1. CASE q # p
      BY <1>1, <1>6, <2>1, FinishMoves DEF Moved, Alone
    <2>2. CASE q = p /\ UploadOpen(p)
      <3>1. snap[p].img # None
        BY <2>2 DEF UploadOpen, LifeInv
      <3>2. CASE Moved(p, "closing", None)
        BY <2>2, <3>2 DEF Moved
      <3>3. CASE \E i \in Blob : Moved(p, "putting", i) /\ i # None
        BY <2>2, <3>3 DEF Moved
      <3> QED BY <2>2, <3>1, <3>2, <3>3, FinishMoves
    <2>3. CASE q = p /\ ~UploadOpen(p)
      BY <1>6, <2>3, FinishMoves DEF Moved
    <2> QED BY <2>1, <2>2, <2>3
  <1>7. CASE Stop \/ GuestExit \/ Delete
    <2>1. \/ snap' = snap
          \/ GuestDown(snap)
          \/ GuestDown(Spoil(disk'))
      BY <1>7 DEF Stop, GuestExit, Delete
    <2>2. ASSUME GuestDown(snap) PROVE snap'[q].img # None
      BY <1>0, <1>1, <2>2, DownFacts
    <2>3. ASSUME GuestDown(Spoil(disk')) PROVE snap'[q].img # None
      BY <1>1, <2>3, DownFacts, SpoilFacts, SMT
    <2> QED BY <1>1, <2>1, <2>2, <2>3
  <1>8. CASE HostLost
    BY <1>8, LostFacts DEF Off
  <1>9. CASE AutoSave
    BY <1>1, <1>9, SpoilFacts DEF AutoSave
  <1>10. CASE \/ Play \/ Create \/ Provision \/ ProvisionFails \/ StopStore \/ Start
              \/ Evict \/ DeleteUnreachable \/ SoftDelete \/ Reap
              \/ \E p \in Snapper : StrayPublish(p)
    BY <1>1, <1>10 DEF Play, Create, Provision, ProvisionFails, StopStore, Start, Evict,
              DeleteUnreachable, SoftDelete, Reap, ReapList, ReapIds, ReapDelete, ReapFails,
              StrayPublish
  <1> QED BY <1>2, <1>3, <1>4, <1>5, <1>6, <1>7, <1>8, <1>9, <1>10
          DEF Next, Guest, Lifecycle, Snapshot, Finish

\* What the steps of a snapshot and of the guest leave alone.
LEMMA SnapshotFrame ==
    ASSUME NEW p \in Snapper, Snapshot(p) \/ Prepare(p) \/ Hangup(p)
    PROVE  /\ UNCHANGED <<row, vm, op, game, reaper>>
           /\ ~Prepare(p) => UNCHANGED disk
           /\ ~Publish(p) => UNCHANGED <<store, late>>
           /\ snap[p].at = "idle" => ~Publish(p)
  BY DEF Snapshot, Finish, Dial, PrepareFails, CaptureBegin, CaptureEnd, CaptureFails,
         Resume, UploadOpen, Publish, PublishFails, Close, Prepare, Hangup, guestVars,
         fileVars

\* Before the row is created nothing happens but its creation.
LEMMA StepUnborn ==
    ASSUME TypeOK, LifeInv, Next, row' = "none"
    PROVE  /\ row = "none" /\ vm' = "none" /\ store' = None
           /\ \A p \in Snapper : snap'[p].at = "idle"
  <1>0. ASSUME row = "none"
        PROVE  /\ vm = "none" /\ store = None /\ op = "idle" /\ reaper = "idle"
               /\ \A p \in Snapper : snap[p].at = "idle"
    BY <1>0 DEF LifeInv
  <1>1. CASE Lifecycle \/ GuestExit \/ Play \/ AutoSave \/ Reap
    BY <1>0, <1>1 DEF Lifecycle, GuestExit, Play, AutoSave, Reap, ReapList, ReapIds,
           ReapDelete, ReapFails, Create, Provision, ProvisionFails, Stop, StopStore, Start,
           Evict, Delete, DeleteUnreachable, SoftDelete, HostLost, fileVars, guestVars
  <1>2. ASSUME NEW p \in Snapper, Snapshot(p) \/ Prepare(p) \/ StrayPublish(p)
        PROVE  FALSE
    BY <1>0, <1>2, SnapshotFrame DEF Snapshot, Finish, Dial, PrepareFails, CaptureBegin, CaptureEnd,
           CaptureFails, Resume, UploadOpen, Publish, PublishFails, Close, Prepare,
           NoSnap, StrayPublish, Astray
  <1>3. ASSUME NEW p \in Snapper, Hangup(p)
        PROVE  /\ row = "none" /\ vm' = "none" /\ store' = None
               /\ \A q \in Snapper : snap'[q].at = "idle"
    <2>1. UNCHANGED <<row, vm, store>>
      BY <1>3 DEF Hangup, fileVars
    <2>2. \A q \in Snapper : snap'[q].at = snap[q].at
      BY <1>3, HangupFacts DEF Alone
    <2> QED BY <1>0, <2>1, <2>2
  <1> QED BY <1>1, <1>2, <1>3 DEF Next, Guest

\* Every step keeps the life of a server in order.
LEMMA StepLife ==
    ASSUME TypeOK, LifeInv, [Next]_vars
    PROVE  LifeInv'
  <1>1. CASE UNCHANGED vars
    BY <1>1 DEF vars, guestVars, fileVars, LifeInv
  <1> SUFFICES ASSUME Next PROVE LifeInv'
    BY <1>1
  <1>2. /\ vm' # "none" => disk' # None
        /\ op' # "idle" => vm' = "down"
    <2>1. CASE Lifecycle
      BY <2>1, Markers DEF Lifecycle, TypeOK, LifeInv, Create, Provision, ProvisionFails, Stop,
             StopStore, Start, Evict, Delete, DeleteUnreachable, SoftDelete, HostLost,
             fileVars, GuestDown
    <2>2. CASE Play \/ AutoSave \/ GuestExit
      BY <2>2, Markers DEF Play, AutoSave, GuestExit, TypeOK, LifeInv, fileVars
    <2>3. ASSUME NEW p \in Snapper, Snapshot(p) \/ Prepare(p) \/ Hangup(p)
          PROVE  /\ UNCHANGED <<vm, op>>
                 /\ disk' = disk \/ disk' = game
      BY <2>3, SnapshotFrame DEF Prepare
    <2>4. CASE Reap
      BY <2>4 DEF Reap, ReapList, ReapIds, ReapDelete, ReapFails, LifeInv, fileVars
    <2>5. ASSUME NEW p \in Snapper, StrayPublish(p) PROVE UNCHANGED <<vm, op, disk>>
      BY <2>5 DEF StrayPublish
    <2> QED BY <2>1, <2>2, <2>3, <2>4, <2>5, Markers DEF Next, Guest, LifeInv, TypeOK
  <1>3. /\ reaper' # "idle" => row' # "none"
        /\ reaper' = "orphan" => row' = "deleted"
    <2>1. CASE Reap
      BY <2>1 DEF Reap, ReapList, ReapIds, ReapDelete, ReapFails, LifeInv, TypeOK
    <2>2. CASE ~Reap
      <3>1. UNCHANGED reaper /\ (row = "deleted" => row' = "deleted")
        <4>1. ASSUME NEW p \in Snapper, Snapshot(p) \/ Prepare(p) \/ Hangup(p)
              PROVE  UNCHANGED <<reaper, row>>
          BY <4>1, SnapshotFrame
        <4>3. ASSUME NEW p \in Snapper, StrayPublish(p) PROVE UNCHANGED <<reaper, row>>
          BY <4>3 DEF StrayPublish
        <4>2. CASE Lifecycle \/ GuestExit \/ Play \/ AutoSave
          BY <4>2 DEF Lifecycle, GuestExit, Play, AutoSave, Create, Provision,
                 ProvisionFails, Stop, StopStore, Start, Evict, Delete, DeleteUnreachable,
                 SoftDelete, HostLost
        <4> QED BY <2>2, <4>1, <4>2, <4>3 DEF Next, Guest
      <3> QED BY <3>1, StepUnborn DEF LifeInv
    <2> QED BY <2>1, <2>2
  <1>4. ASSUME vm' = "up" PROVE disk' = Mixed <=> game' = Mixed
    <2>1. CASE UNCHANGED <<vm, disk, game>> \/ disk' = game'
      BY <1>4, <2>1 DEF LifeInv
    <2>2. CASE Lifecycle
      BY <1>4, <2>1, <2>2 DEF Lifecycle, LifeInv, Create, Provision, ProvisionFails, Stop,
             StopStore, Start, Evict, Delete, DeleteUnreachable, SoftDelete, HostLost,
             fileVars, guestVars
    <2>3. CASE Play
      <3>1. game \in World /\ game' \in World
        BY <2>3, WorldsAssumption, SMT DEF Play, World
      <3> QED BY <2>3, <3>1, Markers DEF Play, LifeInv, fileVars
    <2>4. CASE AutoSave \/ GuestExit
      BY <1>4, <2>1, <2>4 DEF AutoSave, GuestExit, guestVars
    <2>5. ASSUME NEW p \in Snapper, Snapshot(p) \/ Prepare(p) \/ Hangup(p)
          PROVE  UNCHANGED <<vm, disk, game>> \/ disk' = game'
      BY <2>5, SnapshotFrame DEF Prepare
    <2>6. ASSUME NEW p \in Snapper, StrayPublish(p) PROVE UNCHANGED <<vm, disk, game>>
      BY <2>6 DEF StrayPublish, guestVars
    <2>7. CASE Reap
      BY <2>1, <2>7 DEF Reap, ReapList, ReapIds, ReapDelete, ReapFails, fileVars, guestVars
    <2> QED BY <2>1, <2>2, <2>3, <2>4, <2>5, <2>6, <2>7 DEF Next, Guest
  <1> QED BY <1>2, <1>3, <1>4, StepUnborn, StepFilled DEF LifeInv

\* A server that does not exist yet.
LEMMA InitLife ==
    ASSUME Init
    PROVE  TypeOK /\ LifeInv
  <1>1. TypeOK
    BY Markers DEF Init, TypeOK, NoSnap
  <1> QED BY <1>1 DEF Init, LifeInv, NoSnap

\* The guest, the files of the host, the store and the reaper are type correct; in
\* particular an image that does not unpack, which snapshots beside each other may store,
\* never becomes the disk of a guest.
THEOREM TypeCorrect == Spec => []TypeOK
  <1>1. TypeOK /\ LifeInv /\ [Next]_vars => TypeOK' /\ LifeInv'
    BY StepType, StepLife
  <1> QED BY <1>1, InitLife, PTL DEF Spec

\* A stored world is replaced by nothing only for a server whose deletion was asked
\* for: reapWorlds lists the rows after the worlds, and no upload or Stop stores
\* nothing.
THEOREM WorldsKept == Spec => LiveWorldKept
  <1>1. TypeOK /\ LifeInv /\ [Next]_vars => TypeOK' /\ LifeInv'
    BY StepType, StepLife
  <1>2. ASSUME TypeOK, LifeInv, [Next]_vars
        PROVE  [store # None /\ store' = None => row' \in {"deleting", "deleted"}]_vars
    <2> SUFFICES ASSUME Next, store # None, store' = None
                 PROVE  row' \in {"deleting", "deleted"}
      BY <1>2
    <2>1. CASE Lifecycle
      BY <1>2, <2>1 DEF Lifecycle, LifeInv, Create, Provision, ProvisionFails, Stop, StopStore,
             Start, Evict, Delete, DeleteUnreachable, SoftDelete, HostLost, fileVars
    <2>2. CASE Reap
      BY <1>2, <2>2 DEF Reap, ReapList, ReapIds, ReapDelete, ReapFails, LifeInv, fileVars
    <2>3. ASSUME NEW p \in Snapper, Snapshot(p) \/ Prepare(p) \/ Hangup(p) PROVE FALSE
      BY <1>2, <2>3, SnapshotFrame DEF Publish, LifeInv
    <2>4. CASE Play \/ AutoSave \/ GuestExit
      BY <2>4 DEF Play, AutoSave, GuestExit, fileVars
    <2>5. ASSUME NEW p \in Snapper, StrayPublish(p) PROVE FALSE
      BY <2>5 DEF StrayPublish
    <2> QED BY <2>1, <2>2, <2>3, <2>4, <2>5 DEF Next, Guest
  <1> QED BY <1>1, <1>2, InitLife, PTL DEF Spec, LiveWorldKept

-----------------------------------------------------------------------------
(* Captures are whole.                                                     *)

\* The snapshot has its guest still, and so has every other that is at work.
Kept(p) == snap[p].at \notin Off /\ ~snap[p].cut

Attended == {"frozen", "reading", "captured", "thawed", "putting", "closing"}
Filled   == {"reading", "captured", "thawed", "putting"}

\* From the freeze on the guest is at the snapshot's connection; it stays frozen until
\* the disk is read; and worldDisk.snap is the snapshot's own, and whole if the disk is.
Guarded(p) ==
    /\ snap[p].at \in Attended => serving = p /\ snap[p].conn = "served"
    /\ snap[p].at \in {"frozen", "reading"} => frozen
    /\ snap[p].at \in Filled => /\ snap[p].img # Broken
                                /\ snap[p].img = Mixed => disk = Mixed
                                /\ snap[p].img # None => tmp = p

\* This holds of a snapshot that has its guest, and there is none without one then.
GuardInv ==
    \A p \in Snapper :
        Kept(p) => vm = "up" /\ (\A q \in Snapper : ~snap[q].cut) /\ Guarded(p)

\* A connection the guest has yet to take has its snapshot waiting at the other end.
QueueInv == \A p \in Snapper : snap[p].conn = "queued" => snap[p].at \notin Off

\* Every step keeps that: a snapshot that ends, by itself or with the guest, takes its
\* connection out of the queue.
LEMMA StepQueue ==
    ASSUME TypeOK, LifeInv, QueueInv, [Next]_vars
    PROVE  QueueInv'
  <1> SUFFICES ASSUME NEW q \in Snapper, snap'[q].conn = "queued"
               PROVE  snap'[q].at \notin Off
    BY DEF QueueInv
  <1>0. CASE snap' = snap
    BY <1>0 DEF QueueInv
  <1>1. ASSUME NEW p \in Snapper, Dial(p) \/ Hangup(p) \/ PrepareFails(p) \/ Close(p)
        PROVE  snap'[q].at \notin Off
    <2>1. q # p => snap'[q] = snap[q]
      BY <1>1, DialFacts, HangupFacts DEF Alone, PrepareFails, Close, TypeOK
    <2>2. q = p => Dial(p)
      BY <1>1, HangupFacts, EndedFacts, SMT DEF PrepareFails, Close, TypeOK
    <2> QED BY <2>1, <2>2, DialFacts DEF QueueInv, Off
  <1>2. ASSUME NEW p \in Snapper,
               \/ CaptureEnd(p) \/ CaptureFails(p) \/ Resume(p)
               \/ UploadOpen(p) \/ Publish(p) \/ PublishFails(p)
        PROVE  snap'[q].at \notin Off
    BY <1>2, FinishMoves DEF Moved, Alone, QueueInv, Off
  <1>3. ASSUME NEW p \in Snapper, CaptureBegin(p) PROVE snap'[q].at \notin Off
    BY <1>3, BeginFacts DEF QueueInv, Off
  <1>4. ASSUME NEW p \in Snapper, Prepare(p) PROVE snap'[q].at \notin Off
    BY <1>4, PrepareFacts, ZenonT(30) DEF QueueInv, Off
  <1>5. CASE Stop \/ GuestExit \/ Delete
    <2>1. snap[q] \in SnapState /\ Spoil(disk')[q] \in SnapState
      BY SpoilFacts DEF TypeOK, SnapState, Progress, Conn
    <2>2. snap' = snap \/ GuestDown(snap) \/ GuestDown(Spoil(disk'))
      BY <1>5 DEF Stop, GuestExit, Delete
    <2> QED BY <1>0, <2>1, <2>2, DownFacts
  <1>6. CASE HostLost
    BY <1>6, LostFacts
  <1>7. CASE AutoSave
    <2>1. snap' = Spoil(game)
      BY <1>7 DEF AutoSave
    <2>2. Spoil(game)[q].at = snap[q].at /\ Spoil(game)[q].conn = snap[q].conn
      BY SpoilFacts
    <2> QED BY <2>1, <2>2 DEF QueueInv
  <1>8. CASE \/ Play \/ Create \/ Provision \/ ProvisionFails \/ StopStore \/ Start
             \/ Evict \/ DeleteUnreachable \/ SoftDelete \/ Reap \/ UNCHANGED vars
             \/ \E p \in Snapper : StrayPublish(p)
    BY <1>0, <1>8 DEF Play, Create, Provision, ProvisionFails, StopStore, Start, Evict,
              DeleteUnreachable, SoftDelete, Reap, ReapList, ReapIds, ReapDelete, ReapFails,
              StrayPublish, vars
  <1> QED BY <1>1, <1>2, <1>3, <1>4, <1>5, <1>6, <1>7, <1>8
          DEF Next, Guest, Lifecycle, Snapshot, Finish

\* The guest answers one connection at a time.
LEMMA OneAttended ==
    ASSUME GuardInv, NEW p \in Snapper, Kept(p)
    PROVE  /\ vm = "up" /\ Guarded(p)
           /\ \A q \in Snapper : ~snap[q].cut
           /\ \A q \in Snapper : snap[q].at \in Attended =>
                 /\ Guarded(q) /\ serving = q /\ snap[q].conn = "served"
                 /\ snap[p].at \in Attended => q = p
  <1>1. ASSUME NEW q \in Snapper, snap[q].at \in Attended
        PROVE  Guarded(q) /\ serving = q /\ snap[q].conn = "served"
    BY <1>1 DEF GuardInv, Kept, Guarded, Attended, Off
  <1> QED BY <1>1 DEF GuardInv

\* Nothing that Guarded reads changes.
LEMMA GuardFrame ==
    ASSUME NEW p, Guarded(p), snap'[p] = snap[p], UNCHANGED <<serving, frozen, tmp, disk>>
    PROVE  Guarded(p)'
  BY DEF Guarded

\* A snapshot that does not have the guest's attention needs nothing.
LEMMA GuardIdle ==
    ASSUME NEW p, snap'[p].at \notin Attended
    PROVE  Guarded(p)'
  BY DEF Guarded, Attended, Filled

\* The steps of snapshotRunning between the freeze and the end keep what is guarded.
LEMMA MoveGuard ==
    ASSUME TypeOK, LifeInv, GuardInv, NEW m \in Snapper, NEW p \in Snapper, Kept(p),
           \/ CaptureEnd(m) \/ CaptureFails(m) \/ Resume(m)
           \/ UploadOpen(m) \/ Publish(m) \/ PublishFails(m)
    PROVE  Guarded(p)'
  <1>0. UNCHANGED <<serving, tmp, disk>> /\ (~Resume(m) => UNCHANGED frozen)
    BY DEF CaptureEnd, CaptureFails, Resume, UploadOpen, Publish, PublishFails, guestVars,
           fileVars
  <1>1. PICK a \in Progress, i \in Blob : Moved(m, a, i)
    <2>1. \A x \in {"captured", "thawed", "putting", "closing"} : x \in Progress
      BY DEF Progress
    <2>2. None \in Blob /\ snap[m].img \in Blob
      BY Markers DEF TypeOK
    <2> QED BY <2>1, <2>2, FinishMoves
  <1>2. snap[m].at \in Attended
    BY DEF CaptureEnd, CaptureFails, Resume, UploadOpen, Publish, PublishFails, Attended
  <1>3. CASE p # m
    <2>1. snap'[p] = snap[p]
      BY <1>1, <1>3 DEF Moved, Alone
    <2>2. snap[p].at \notin Attended
      BY <1>2, <1>3, OneAttended
    <2> QED BY <2>1, <2>2, GuardIdle
  <1>4. CASE p = m
    <2>0. /\ serving = m /\ snap[m].conn = "served" /\ Guarded(m)
          /\ snap'[m].conn = "served" /\ serving' = m
      BY <1>0, <1>1, <1>2, OneAttended DEF Moved
    <2>1. CASE CaptureEnd(m)
      BY <1>0, <2>0, <2>1, FinishMoves, <1>4 DEF CaptureEnd, Moved, Guarded, Attended, Filled
    <2>2. CASE CaptureFails(m)
      BY <1>0, <2>0, <2>2, FinishMoves, Markers, <1>4 DEF CaptureFails, Moved, Guarded
    <2>3. CASE Resume(m)
      BY <1>0, <2>0, <2>3, FinishMoves, <1>4 DEF Resume, Moved, Guarded, Attended, Filled
    <2>4. CASE UploadOpen(m)
      <3>1. /\ snap[m].img # Broken /\ (snap[m].img = Mixed => disk = Mixed)
            /\ snap[m].img # None => tmp = m
        BY <2>0, <2>4 DEF UploadOpen, Guarded, Filled
      <3>2. \/ Moved(m, "closing", None)
            \/ Moved(m, "putting", snap[m].img) /\ tmp = m
        BY <2>4, <3>1, FinishMoves DEF UploadOpen, LifeInv
      <3> QED BY <1>0, <2>0, <2>4, <3>1, <3>2, <1>4 DEF Moved, Guarded, Filled
    <2>5. CASE Publish(m) \/ PublishFails(m)
      BY <1>0, <2>0, <2>5, FinishMoves, <1>4 DEF Moved, Guarded, Filled
    <2> QED BY <2>1, <2>2, <2>3, <2>4, <2>5
  <1> QED BY <1>3, <1>4

\* So do dialling, PREPARE, the capture's begin, and the end of a connection; and a
\* snapshot that has its guest afterwards had it before, or has just dialled it.
LEMMA SnapshotGuard ==
    ASSUME TypeOK, LifeInv, QueueInv, GuardInv, NEW m \in Snapper,
           Snapshot(m) \/ Prepare(m) \/ Hangup(m),
           NEW p \in Snapper, Kept(p)'
    PROVE  vm' = "up" /\ (\A q \in Snapper : ~snap'[q].cut) /\ Guarded(p)'
  <1>0. UNCHANGED vm
    BY SnapshotFrame
  <1>1. CASE Dial(m)
    <2>1. ASSUME NEW q \in Snapper PROVE ~snap[q].cut
      <3>1. CASE p = m
        BY <1>1, <3>1, DialFacts DEF Kept
      <3>2. CASE p # m
        BY <1>1, <3>2, DialFacts, OneAttended DEF Kept, Alone
      <3> QED BY <3>1, <3>2
    <2>2. \A q \in Snapper : ~snap'[q].cut
      BY <1>1, <2>1, DialFacts DEF Alone
    <2>3. vm = "up" /\ UNCHANGED <<serving, frozen, tmp, disk>>
      BY <1>1 DEF Dial, guestVars, fileVars
    <2>4. CASE p = m
      BY <1>0, <1>1, <2>2, <2>3, <2>4, DialFacts, GuardIdle DEF Attended
    <2>5. CASE p # m
      BY <1>0, <1>1, <2>2, <2>3, <2>5, DialFacts, OneAttended, GuardFrame DEF Kept, Alone
    <2> QED BY <2>4, <2>5
  <1>2. CASE PrepareFails(m) \/ Close(m)
    <2>1. Alone(m) /\ snap'[m].at = "idle" /\ ~snap'[m].cut
      BY <1>2, EndedFacts, SMT DEF PrepareFails, Close, Alone, TypeOK
    <2>2. p # m /\ Kept(p)
      BY <2>1 DEF Kept, Alone, Off
    <2>3. \A q \in Snapper : ~snap'[q].cut
      BY <2>1, <2>2, OneAttended DEF Alone
    <2>4. CASE PrepareFails(m)
      <3>1. UNCHANGED <<serving, frozen, tmp, disk>>
        BY <2>4 DEF PrepareFails, guestVars, fileVars
      <3> QED BY <1>0, <2>1, <2>2, <2>3, <3>1, OneAttended, GuardFrame DEF Alone
    <2>5. CASE Close(m)
      <3>1. snap[p].at \notin Attended
        BY <2>2, <2>5, OneAttended DEF Close, Attended
      <3> QED BY <1>0, <2>1, <2>2, <2>3, <3>1, OneAttended, GuardIdle DEF Alone
    <2> QED BY <1>2, <2>4, <2>5
  <1>3. CASE \/ CaptureEnd(m) \/ CaptureFails(m) \/ Resume(m)
             \/ UploadOpen(m) \/ Publish(m) \/ PublishFails(m)
    <2>1. /\ \A q \in Snapper : snap'[q].cut = snap[q].cut
          /\ \A q \in Snapper : q # m => snap'[q].at = snap[q].at
      BY <1>3, FinishMoves DEF Moved, Alone
    <2>2. snap[m].at \notin Off
      BY <1>3 DEF Off, CaptureEnd, CaptureFails, Resume, UploadOpen, Publish, PublishFails
    <2>3. Kept(p)
      BY <2>1, <2>2 DEF Kept
    <2> QED BY <1>0, <1>3, <2>1, <2>3, OneAttended, MoveGuard
  <1>4. CASE CaptureBegin(m)
    <2>1. snap[m].at = "frozen" /\ tmp' = m /\ UNCHANGED <<serving, frozen, disk>>
      BY <1>4 DEF CaptureBegin, guestVars
    <2>2. Kept(p)
      BY <1>4, <2>1, BeginFacts DEF Kept, Off
    <2>3. CASE p # m
      BY <1>0, <1>4, <2>1, <2>2, <2>3, BeginFacts, OneAttended, GuardIdle DEF Attended
    <2>4. CASE p = m
      <3>1. ~(tmp \notin {None, m} /\ snap[tmp].at = "reading")
        BY <2>1, <2>2, <2>4, OneAttended DEF Attended, TypeOK
      <3>2. /\ snap'[m].img = disk /\ disk # Broken
            /\ snap'[m].at = "reading" /\ snap'[m].conn = snap[m].conn
        BY <1>4, <3>1, BeginFacts DEF TypeOK
      <3>3. Guarded(m)'
        BY <2>1, <2>2, <2>4, <3>2, OneAttended DEF Guarded, Attended
      <3> QED BY <1>0, <1>4, <2>2, <2>4, <3>3, BeginFacts, OneAttended
    <2> QED BY <2>3, <2>4
  <1>5. CASE Hangup(m)
    <2>1. serving = m /\ snap[m].conn = "left"
      BY <1>5 DEF Hangup
    <2>2. Kept(p) /\ snap'[p].at = snap[p].at
      BY <1>5, HangupFacts DEF Kept, Alone
    <2>3. snap[p].at \notin Attended
      BY <2>1, <2>2, OneAttended
    <2> QED BY <1>0, <1>5, <2>2, <2>3, HangupFacts, OneAttended, GuardIdle DEF Alone
  <1>6. CASE Prepare(m)
    <2>1. serving = None /\ serving' = m
      BY <1>6 DEF Prepare
    <2>2. CASE Kept(p)
      <3>1. snap[p].at \notin Attended
        BY <2>1, <2>2, OneAttended, Markers
      <3>2. CASE snap'[p].at = snap[p].at
        BY <1>0, <1>6, <2>2, <3>1, <3>2, PrepareFacts, OneAttended, GuardIdle
      <3>3. CASE snap'[p].at # snap[p].at
        BY <1>0, <1>6, <2>1, <2>2, <3>3, PrepareFacts, OneAttended, ZenonT(30) DEF Guarded, Filled
      <3> QED BY <3>2, <3>3
    <2>3. snap'[p].at # snap[p].at => p = m /\ snap[m].conn = "queued"
      BY <1>6, PrepareFacts
    <2> QED BY <1>6, <2>2, <2>3, PrepareFacts DEF Kept, QueueInv
  <1> QED BY <1>1, <1>2, <1>3, <1>4, <1>5, <1>6 DEF Snapshot, Finish

\* The guest goes down: no snapshot that is at work has its guest any more.
LEMMA DownUnkept ==
    ASSUME TypeOK, GuestDown(snap) \/ GuestDown(Spoil(disk')), NEW p \in Snapper
    PROVE  ~Kept(p)'
  <1>1. snap[p] \in SnapState /\ Spoil(disk')[p] \in SnapState
    BY SpoilFacts DEF TypeOK, SnapState, Progress, Conn
  <1> QED BY <1>1, DownFacts DEF Kept

\* Every step keeps the snapshots that have their guest guarded.
LEMMA StepGuard ==
    ASSUME TypeOK, LifeInv, QueueInv, GuardInv, [Next]_vars
    PROVE  GuardInv'
  <1> SUFFICES ASSUME NEW p \in Snapper, Kept(p)'
               PROVE  vm' = "up" /\ (\A q \in Snapper : ~snap'[q].cut) /\ Guarded(p)'
    BY DEF GuardInv
  <1>0. ASSUME snap' = snap
        PROVE  vm = "up" /\ op = "idle" /\ Guarded(p) /\ \A q \in Snapper : ~snap[q].cut
    BY <1>0, OneAttended DEF Kept, LifeInv
  <1>1. CASE GuestExit \/ Stop \/ Delete
    <2>1. (snap' = snap /\ vm # "up") \/ GuestDown(snap) \/ GuestDown(Spoil(disk'))
      BY <1>1 DEF GuestExit, Stop, Delete
    <2> QED BY <1>0, <2>1, DownUnkept
  <1>2. CASE HostLost
    BY <1>2, LostFacts DEF Kept
  <1>3. CASE AutoSave
    <2>1. /\ ~frozen /\ UNCHANGED <<vm, serving, frozen, tmp>>
          /\ disk = Mixed => disk' = Mixed
      BY <1>3 DEF AutoSave, guestVars, LifeInv
    <2>2. \A q \in Snapper : /\ snap'[q].at = snap[q].at /\ snap'[q].conn = snap[q].conn
                             /\ snap'[q].cut = snap[q].cut
                             /\ snap'[q].img # snap[q].img => snap[q].at = "reading"
      BY <1>3, SpoilFacts DEF AutoSave
    <2>3. Kept(p)
      BY <2>2 DEF Kept
    <2>4. Guarded(p) /\ vm = "up" /\ \A q \in Snapper : ~snap[q].cut
      BY <2>3, OneAttended
    <2> QED BY <2>1, <2>2, <2>4 DEF Guarded
  <1>4. ASSUME NEW m \in Snapper, Snapshot(m) \/ Prepare(m) \/ Hangup(m)
        PROVE  vm' = "up" /\ (\A q \in Snapper : ~snap'[q].cut) /\ Guarded(p)'
    BY <1>4, SnapshotGuard
  <1>5. CASE Provision \/ ProvisionFails \/ StopStore \/ Start \/ Evict
    BY <1>0, <1>5 DEF Provision, ProvisionFails, StopStore, Start, Evict
  <1>6. CASE \/ Play \/ Create \/ DeleteUnreachable \/ SoftDelete \/ Reap \/ UNCHANGED vars
             \/ \E m \in Snapper : StrayPublish(m)
    <2>1. UNCHANGED <<snap, vm, serving, frozen, tmp, disk>>
      BY <1>6 DEF Play, Create, DeleteUnreachable, SoftDelete, Reap, ReapList, ReapIds,
             ReapDelete, ReapFails, StrayPublish, vars, guestVars, fileVars
    <2> QED BY <1>0, <2>1, GuardFrame
  <1> QED BY <1>1, <1>2, <1>3, <1>4, <1>5, <1>6 DEF Next, Guest, Lifecycle

\* No snapshot is at work at first.
LEMMA InitGuard == Init => QueueInv /\ GuardInv
  <1>1. Init => \A p \in Snapper : snap[p] = NoSnap
    BY DEF Init
  <1> QED BY <1>1, SMT DEF QueueInv, GuardInv, Kept, NoSnap, Off

\* Whatever snapshots run beside each other and beside Stop, Start, Evict, Delete and a
\* guest that exits: a capture of a snapshot that kept its guest is whole, if the
\* disk it was taken from is.
THEOREM CapturesAlwaysWhole == Spec => []CapturesWhole
  <1> DEFINE Inv == TypeOK /\ LifeInv /\ QueueInv /\ GuardInv
  <1>1. Init => Inv
    BY InitGuard, InitLife
  <1>2. Inv /\ [Next]_vars => Inv'
    BY StepType, StepLife, StepQueue, StepGuard
  <1>3. Inv => CapturesWhole
    BY DEF GuardInv, Kept, Guarded, Filled, Off, CapturesWhole
  <1> QED BY <1>1, <1>2, <1>3, PTL DEF Spec

-----------------------------------------------------------------------------
(* The stored world does not go back.                                      *)

\* The image of a snapshot that has its guest lies between the store and the disk.
Between(p) ==
    Kept(p) /\ snap[p].at \in Filled /\ snap[p].img # None =>
        snap[p].img <= disk /\ (store \in World => store <= snap[p].img)

\* Each copy of the world is at most as new as the one it was made from: store, image,
\* disk, memory.
Ordered ==
    /\ vm # "none" /\ store \in World => store <= disk
    /\ vm = "up" => disk <= game
    /\ \A p \in Snapper : Between(p)

\* Neither the stored world nor the disk is spoiled.
Whole == store \notin {Mixed, Broken} /\ disk # Mixed

\* So it is while no snapshot that outlived its guest and no guest on a host that was
\* given up has published.
AgeInv == ~late => Ordered /\ Whole

\* Then the disk of a VM in the map is a world, and so is the guest's.
LEMMA DiskWorld ==
    ASSUME TypeOK, LifeInv, AgeInv, ~late
    PROVE  /\ vm # "none" => disk \in World
           /\ vm = "up" => game \in World
           /\ store \notin {Mixed, Broken} /\ disk # Mixed
           /\ store # None => store \in World
  BY Markers DEF TypeOK, LifeInv, AgeInv, Whole

\* Worlds and what stands for none are numbers.
LEMMA Numbers ==
    /\ \A w \in Blob : w \in Int
    /\ TypeOK => store \in Int /\ disk \in Int /\ game \in Int
    /\ store' = store => ~Older
  BY WorldsAssumption, SMT DEF Blob, World, None, Mixed, Broken, TypeOK, Older

\* No step but a late publication spoils the stored world or the disk.
LEMMA StepWhole ==
    ASSUME TypeOK, LifeInv, GuardInv, AgeInv, [Next]_vars, ~late'
    PROVE  Whole'
  <1>1. ASSUME NEW m \in Snapper, Publish(m) PROVE Whole'
    <2>1. /\ store' = snap[m].img /\ UNCHANGED disk /\ snap[m].at = "putting"
          /\ ~snap[m].cut /\ ~late
      BY <1>1 DEF Publish
    <2>2. Kept(m) /\ snap[m].at \in Filled
      BY <2>1 DEF Kept, Off, Filled
    <2>3. snap[m].img # Broken /\ (snap[m].img = Mixed => disk = Mixed)
      BY <2>2, OneAttended DEF Guarded
    <2> QED BY <2>1, <2>3, DiskWorld DEF Whole
  <1>2. CASE UNCHANGED late /\ disk' \in {disk, 0, None} /\ store' \in {store, disk, None}
    BY <1>2, DiskWorld, Markers DEF Whole, TypeOK
  <1>3. CASE UNCHANGED <<late, store>> /\ vm = "up" /\ disk' \in {disk, game}
    BY <1>3, DiskWorld, Markers DEF Whole
  <1>4. CASE UNCHANGED <<late, store>> /\ disk' = store
    BY <1>4, DiskWorld DEF Whole
  <1>5. ASSUME NEW m \in Snapper, Snapshot(m) \/ Prepare(m) \/ Hangup(m), ~Publish(m)
        PROVE  Whole'
    <2>1. UNCHANGED <<store, late>> /\ (~Prepare(m) => UNCHANGED disk)
      BY <1>5, SnapshotFrame
    <2>2. Prepare(m) => vm = "up" /\ disk' \in {disk, game}
      BY DEF Prepare
    <2> QED BY <1>2, <1>3, <2>1, <2>2
  <1>6. CASE Play \/ AutoSave \/ GuestExit \/ Stop
    BY <1>2, <1>3, <1>6 DEF Play, AutoSave, GuestExit, Stop, fileVars
  <1>7. CASE Provision \/ ProvisionFails
    BY <1>2, <1>4, <1>7 DEF Provision, ProvisionFails
  <1>8. CASE Create \/ StopStore \/ Start \/ Evict \/ Delete \/ DeleteUnreachable
             \/ SoftDelete \/ HostLost
    BY <1>2, <1>8 DEF Create, StopStore, Start, Evict, Delete, DeleteUnreachable, SoftDelete,
           HostLost, fileVars
  <1>9. CASE Reap \/ UNCHANGED vars
    BY <1>2, <1>9 DEF Reap, ReapList, ReapIds, ReapDelete, ReapFails, vars, fileVars
  <1>10. ASSUME NEW m \in Snapper, StrayPublish(m) PROVE FALSE
    BY <1>10 DEF StrayPublish
  <1> QED BY <1>1, <1>5, <1>6, <1>7, <1>8, <1>9, <1>10 DEF Next, Guest, Lifecycle

\* The steps of a snapshot keep its image between the store and the disk; publishing
\* it makes it the stored world.
LEMMA SnapshotAge ==
    ASSUME TypeOK, LifeInv, QueueInv, GuardInv, AgeInv, ~late',
           NEW m \in Snapper, Snapshot(m) \/ Prepare(m) \/ Hangup(m),
           TypeOK', LifeInv', GuardInv'
    PROVE  Ordered' /\ ~Older
  <1>0. UNCHANGED <<vm, game>> /\ ~late
    BY SnapshotFrame DEF Publish
  <1>2. disk \in Int /\ game \in Int /\ store \in Int
    BY Numbers
  <1>1. /\ vm # "none" /\ store \in World => store <= disk
        /\ vm = "up" => disk <= game
        /\ \A p \in Snapper : Between(p)
    BY <1>0 DEF AgeInv, Ordered
  <1>3. CASE Dial(m) \/ PrepareFails(m) \/ Close(m) \/ Hangup(m)
    <2>1. UNCHANGED <<store, disk>>
      BY <1>3 DEF Dial, PrepareFails, Close, Hangup, fileVars
    <2>2. Alone(m)
      BY <1>3, DialFacts, HangupFacts DEF PrepareFails, Close, Alone, TypeOK
    <2>3. snap'[m].at \notin Filled \/ Hangup(m)
      <3>1. PrepareFails(m) \/ Close(m) => snap'[m].at = "idle"
        BY EndedFacts, SMT DEF PrepareFails, Close, TypeOK
      <3> QED BY <1>3, <3>1, DialFacts DEF Filled
    <2>4. \A p \in Snapper : Between(p)'
      <3>1. CASE Hangup(m)
        BY <1>1, <2>1, <2>2, <3>1, HangupFacts DEF Between, Kept, Alone
      <3>2. CASE snap'[m].at \notin Filled
        BY <1>1, <2>1, <2>2, <3>2 DEF Between, Kept, Alone
      <3> QED BY <2>3, <3>1, <3>2
    <2>5. ~Older
      BY <2>1, Numbers
    <2> QED BY <1>0, <1>1, <2>1, <2>4, <2>5 DEF Ordered
  <1>4. CASE Prepare(m)
    <2>1. UNCHANGED store /\ (disk' = disk \/ disk' = game) /\ serving = None /\ vm = "up"
      BY <1>4 DEF Prepare
    <2>2. disk <= disk' /\ disk' <= game
      BY <1>1, <1>2, <2>1, SMT
    <2>3. ASSUME NEW p \in Snapper, Kept(p)' PROVE snap'[p].at \notin Filled
      <3>1. Kept(p) => snap[p].at \notin Attended
        BY <2>1, OneAttended, Markers
      <3>2. \/ snap'[p].at = snap[p].at /\ Kept(p)
            \/ snap'[p].at = "frozen"
        BY <1>4, <2>3, PrepareFacts DEF Kept
      <3> QED BY <3>1, <3>2 DEF Attended, Filled
    <2>4. \A p \in Snapper : Between(p)'
      BY <2>3 DEF Between
    <2>5. store \in World => store <= disk'
      BY <1>1, <1>2, <2>1, <2>2, Numbers, <1>0, SMT DEF TypeOK
    <2>6. ~Older
      BY <2>1, Numbers
    <2> QED BY <1>0, <2>1, <2>2, <2>4, <2>5, <2>6 DEF Ordered
  <1>5. CASE CaptureBegin(m)
    <2>1. UNCHANGED <<store, disk>> /\ snap[m].at = "frozen"
      BY <1>5 DEF CaptureBegin
    <2>2. ASSUME NEW p \in Snapper, Kept(p)', snap'[p].at \in Filled, snap'[p].img # None
          PROVE  p = m /\ vm = "up" /\ snap'[p].img = disk
      <3>1. Kept(p)
        BY <1>5, <2>1, <2>2, BeginFacts DEF Kept, Off
      <3>2. snap[p].at \in Attended
        BY <1>5, <2>1, <2>2, BeginFacts DEF Filled, Attended
      <3>3. p = m /\ vm = "up"
        BY <2>1, <3>1, <3>2, OneAttended DEF Attended
      <3>4. snap'[p].img # Broken
        BY <2>2 DEF GuardInv, Guarded
      <3> QED BY <1>5, <3>3, <3>4, BeginFacts
    <2>3. \A p \in Snapper : Between(p)'
      BY <1>1, <1>2, <2>1, <2>2, SMT DEF Between
    <2>4. ~Older
      BY <2>1, Numbers
    <2> QED BY <1>0, <1>1, <2>1, <2>3, <2>4 DEF Ordered
  <1>6. CASE CaptureEnd(m) \/ CaptureFails(m) \/ Resume(m) \/ UploadOpen(m) \/ PublishFails(m)
    <2>1. UNCHANGED <<store, disk>>
      BY <1>6 DEF CaptureEnd, CaptureFails, Resume, UploadOpen, PublishFails, fileVars
    <2>2. /\ Alone(m) /\ snap'[m].cut = snap[m].cut
          /\ snap'[m].img \in {snap[m].img, None} \/ (UploadOpen(m) /\ tmp # m)
      BY <1>6, FinishMoves DEF Moved
    <2>3. /\ snap[m].at \notin Off /\ snap[m].at \in Attended
          /\ snap'[m].at \in Filled => snap[m].at \in Filled \/ snap'[m].img = None
      BY <1>6, FinishMoves DEF CaptureEnd, CaptureFails, Resume, UploadOpen, PublishFails,
             Moved, Filled, Attended, Off
    <2>4. ASSUME Kept(m)' PROVE ~(UploadOpen(m) /\ tmp # m)
      <3>1. Kept(m)
        BY <2>2, <2>3, <2>4 DEF Kept
      <3>2. UploadOpen(m) => snap[m].img # None /\ snap[m].at \in Filled
        BY DEF UploadOpen, LifeInv, Filled
      <3> QED BY <3>1, <3>2, OneAttended DEF Guarded
    <2>5. Between(m)'
      BY <1>1, <2>1, <2>2, <2>3, <2>4 DEF Between, Kept
    <2>6. \A p \in Snapper : Between(p)'
      BY <1>1, <2>1, <2>2, <2>5 DEF Between, Kept, Alone
    <2>7. ~Older
      BY <2>1, Numbers
    <2> QED BY <1>0, <1>1, <2>1, <2>6, <2>7 DEF Ordered
  <1>7. CASE Publish(m)
    <2>1. /\ store' = snap[m].img /\ UNCHANGED disk /\ snap[m].at = "putting" /\ ~snap[m].cut
      BY <1>7 DEF Publish
    <2>2. Kept(m) /\ vm = "up" /\ snap[m].img \in World
      <3>1. Kept(m)
        BY <2>1 DEF Kept, Off
      <3>2. snap[m].img # Broken /\ snap[m].img # None /\ snap[m].img # Mixed
        BY <1>0, <2>1, <3>1, OneAttended, DiskWorld DEF Guarded, Filled, LifeInv
      <3> QED BY <3>1, <3>2, OneAttended, Markers DEF TypeOK
    <2>3. snap[m].img <= disk /\ (store \in World => store <= snap[m].img)
      BY <1>1, <2>1, <2>2, Markers DEF Between, Filled
    <2>4. \A p \in Snapper : Between(p)'
      <3>1. Moved(m, "closing", None)
        BY <1>7, FinishMoves
      <3>2. ASSUME NEW p \in Snapper, p # m PROVE snap'[p].at \notin Attended
        BY <2>1, <2>2, <3>1, <3>2, OneAttended DEF Moved, Alone, Attended
      <3> QED BY <3>1, <3>2 DEF Moved, Between, Attended, Filled
    <2>5. ~Older
      BY <1>2, <2>1, <2>2, <2>3, Markers, SMT DEF Older
    <2> QED BY <1>0, <1>1, <2>1, <2>3, <2>4, <2>5 DEF Ordered
  <1> QED BY <1>3, <1>4, <1>5, <1>6, <1>7 DEF Snapshot, Finish

\* Every other step keeps the order of the copies, and stores nothing older.
LEMMA StepAge ==
    ASSUME TypeOK, LifeInv, QueueInv, GuardInv, AgeInv, [Next]_vars
    PROVE  AgeInv' /\ (Older => late')
  <1>0. TypeOK' /\ LifeInv' /\ GuardInv'
    BY StepType, StepLife, StepGuard
  <1> SUFFICES ASSUME ~late'
               PROVE  Ordered' /\ ~Older
    BY StepWhole DEF AgeInv
  <1>1. ASSUME NEW m \in Snapper, Snapshot(m) \/ Prepare(m) \/ Hangup(m)
        PROVE  Ordered' /\ ~Older
    BY <1>0, <1>1, SnapshotAge
  <1>3. ASSUME NEW m \in Snapper, StrayPublish(m) PROVE FALSE
    BY <1>3 DEF StrayPublish
  <1>2. CASE Guest \/ Lifecycle \/ Reap \/ UNCHANGED vars
    <2>0. CASE \E m \in Snapper : Prepare(m) \/ Hangup(m)
      BY <1>1, <2>0
    <2>1. UNCHANGED late \/ \E m \in Snapper : Prepare(m) \/ Hangup(m)
      BY <1>2 DEF Guest, Lifecycle, Reap, Play, AutoSave, GuestExit, Create, Provision,
             ProvisionFails, Stop, StopStore, Start, Evict, Delete, DeleteUnreachable,
             SoftDelete, HostLost, ReapList, ReapIds, ReapDelete, ReapFails, vars, fileVars
    <2>2. CASE UNCHANGED late
      <3>1. /\ vm # "none" /\ store \in World => store <= disk
            /\ vm = "up" => disk <= game
            /\ \A p \in Snapper : Between(p)
        BY <2>2 DEF AgeInv, Ordered
      <3>0. /\ disk \in Int /\ game \in Int /\ store \in Int
            /\ disk' \in Int /\ game' \in Int
        BY <1>0, Numbers, SMT DEF TypeOK, Blob, World, None, Mixed, Broken
      <3>2. ASSUME vm' # "up" PROVE \A p \in Snapper : Between(p)'
        BY <1>0, <3>2 DEF GuardInv, Between
      <3>3. ASSUME vm # "up", snap' = snap PROVE \A p \in Snapper : Between(p)'
        BY <3>3 DEF GuardInv, Between, Kept
      <3>4. ASSUME UNCHANGED <<snap, disk>>, store' = store \/ store' \notin World
            PROVE  \A p \in Snapper : Between(p)'
        BY <3>1, <3>4 DEF Between, Kept
      <3>5. CASE Play \/ Create \/ DeleteUnreachable \/ SoftDelete \/ Reap \/ UNCHANGED vars
        <4>1. UNCHANGED <<vm, snap, disk>>
          BY <3>5 DEF Play, Create, DeleteUnreachable, SoftDelete, Reap, ReapList, ReapIds,
                 ReapDelete, ReapFails, vars, fileVars
        <4>2. store' = store \/ store' \notin World
          BY <3>5, Markers DEF Play, Create, DeleteUnreachable, SoftDelete, Reap, ReapList,
                 ReapIds, ReapDelete, ReapFails, vars, fileVars
        <4>3. game' = game \/ Play
          BY <3>5 DEF Create, DeleteUnreachable, SoftDelete, Reap, ReapList, ReapIds,
                 ReapDelete, ReapFails, vars, guestVars
        <4>4. vm' = "up" => disk' <= game'
          BY <3>0, <3>1, <4>1, <4>3, SMT DEF Play
        <4>5. ~Older
          BY <4>2, Numbers DEF Older
        <4> QED BY <3>1, <3>4, <4>1, <4>2, <4>4, <4>5 DEF Ordered
      <3>6. CASE Provision \/ ProvisionFails \/ Start
        <4>1. /\ vm # "up" /\ UNCHANGED <<snap, store>>
              /\ vm' = "up" => game' = disk'
          BY <3>6 DEF Provision, ProvisionFails, Start, fileVars
        <4>2. vm' # "none" /\ store' \in World => store' <= disk'
          <5>1. CASE Provision
            BY <3>0, <5>1, Markers, SMT DEF Provision
          <5>2. CASE ProvisionFails
            BY <5>2 DEF ProvisionFails
          <5>3. CASE Start
            BY <3>1, <5>3 DEF Start, fileVars
          <5> QED BY <3>6, <5>1, <5>2, <5>3
        <4>3. vm' = "up" => disk' <= game'
          BY <3>0, <4>1, SMT
        <4>4. ~Older
          BY <4>1, Numbers
        <4> QED BY <3>3, <4>1, <4>2, <4>3, <4>4 DEF Ordered
      <3>7. CASE StopStore \/ Evict
        <4>1. vm = "down" /\ vm' # "up" /\ store' \in {store, disk}
          BY <3>7 DEF StopStore, Evict, LifeInv
        <4>2. StopStore => UNCHANGED disk
          BY DEF StopStore
        <4>3. Evict => vm' = "none" /\ store' = store
          BY DEF Evict
        <4>4. vm' # "none" /\ store' \in World => store' <= disk'
          BY <3>0, <3>1, <3>7, <4>1, <4>2, <4>3, SMT
        <4>5. ~Older
          BY <3>0, <3>1, <4>1, SMT DEF Older
        <4> QED BY <3>2, <4>1, <4>4, <4>5 DEF Ordered
      <3>8. CASE GuestExit \/ Stop
        <4>1. /\ vm' # "up" /\ vm # "none" /\ store' = store
              /\ \/ disk' = disk
                 \/ vm = "up" /\ disk' = game
          <5>1. CASE GuestExit
            BY <5>1 DEF GuestExit
          <5>2. CASE Stop /\ vm # "up"
            BY <5>2 DEF Stop, guestVars
          <5>3. CASE Stop /\ vm = "up"
            BY <5>3 DEF Stop
          <5> QED BY <3>8, <5>1, <5>2, <5>3
        <4>2. store' \in World => store' <= disk'
          BY <3>0, <3>1, <4>1, SMT
        <4>3. ~Older
          BY <4>1, Numbers
        <4> QED BY <3>2, <4>1, <4>2, <4>3 DEF Ordered
      <3>9. CASE Delete \/ HostLost
        <4>1. vm' = "none" /\ (store' = store \/ store' = None)
          BY <3>9 DEF Delete, HostLost
        <4>2. ~Older
          BY <4>1, Numbers, Markers DEF Older
        <4> QED BY <3>2, <4>1, <4>2 DEF Ordered
      <3>10. CASE AutoSave
        <4>1. vm = "up" /\ UNCHANGED <<vm, store, game>> /\ disk' = game
          BY <3>10 DEF AutoSave, guestVars
        <4>2. disk <= game /\ (store \in World => store <= game)
          BY <3>0, <3>1, <4>1, SMT
        <4>3. ASSUME NEW p \in Snapper PROVE Between(p)'
          <5>1. /\ snap'[p].at = snap[p].at /\ snap'[p].cut = snap[p].cut
                /\ snap'[p].img = snap[p].img \/ snap'[p].img = Mixed
            BY <3>10, SpoilFacts DEF AutoSave
          <5>2. Kept(p)' /\ snap'[p].at \in Filled => snap'[p].img # Mixed
            BY <1>0, StepWhole DEF GuardInv, Guarded, Whole
          <5>3. snap[p].img \in Int
            BY Numbers DEF TypeOK
          <5> QED BY <3>0, <3>1, <4>1, <4>2, <5>1, <5>2, <5>3, SMT DEF Between, Kept
        <4>4. ~Older
          BY <4>1, Numbers
        <4>5. disk' <= game'
          BY <3>0, <4>1, SMT
        <4> QED BY <4>1, <4>2, <4>3, <4>4, <4>5 DEF Ordered
      <3> QED BY <1>2, <2>0, <3>5, <3>6, <3>7, <3>8, <3>9, <3>10 DEF Guest, Lifecycle
    <2> QED BY <2>0, <2>1, <2>2
  <1> QED BY <1>1, <1>2, <1>3 DEF Next

\* A server without a world.
LEMMA InitAge == Init => AgeInv
  <1>1. Init => Whole
    BY Markers DEF Init, Whole
  <1>2. Init => Ordered
    <2>1. Init => \A p \in Snapper : snap[p].at = "idle"
      BY NoSnapType DEF Init
    <2>2. Init => vm = "none"
      BY DEF Init
    <2>3. Init => \A p \in Snapper : Between(p)
      BY <2>1 DEF Between, Kept, Off
    <2> QED BY <2>2, <2>3 DEF Ordered
  <1> QED BY <1>1, <1>2 DEF AgeInv

\* The stored world, and the disk restored from it, are spoiled only by what the control
\* plane had given up: until a snapshot that outlived its guest, or a guest on a host
\* that was given up, has published, they are whole, however snapshots run beside each
\* other and beside the lifecycle commands and whichever steps fail.
THEOREM OnlyLateSpoils == Spec => []SpoiledOnlyWhenLate
  <1> DEFINE Inv == TypeOK /\ LifeInv /\ QueueInv /\ GuardInv /\ AgeInv
  <1>1. Init => Inv
    BY InitAge, InitGuard, InitLife
  <1>2. Inv /\ [Next]_vars => Inv'
    BY StepType, StepLife, StepQueue, StepGuard, StepAge
  <1>3. Inv => SpoiledOnlyWhenLate
    BY DEF AgeInv, Whole, SpoiledOnlyWhenLate
  <1> QED BY <1>1, <1>2, <1>3, PTL DEF Spec

\* The stored world never goes back, by Stop, by a restore or by snapshots beside each
\* other, unless a snapshot that outlived its guest, or a guest on a host that was given
\* up, has published.
THEOREM OnlyLateGoesBack == Spec => GoesBackOnlyWhenLate
  <1> DEFINE Inv == TypeOK /\ LifeInv /\ QueueInv /\ GuardInv /\ AgeInv
  <1>1. Init => Inv
    BY InitAge, InitGuard, InitLife
  <1>2. Inv /\ [Next]_vars => Inv' /\ [Older => late']_vars
    BY StepType, StepLife, StepQueue, StepGuard, StepAge
  <1> QED BY <1>1, <1>2, PTL DEF Spec, GoesBackOnlyWhenLate
=============================================================================
