--------------------------- MODULE RecordsProofs ---------------------------
(***************************************************************************)
(* Rows and VMs, for any fleet and whatever fails: the reconciler's copies *)
(* are in sync with the rows they were read from, at most one call is      *)
(* outstanding and it is the one the reconciler waits for, and so a row    *)
(* names a VM of its own server on its own host.  Within one life of the   *)
(* control plane a running server is given up only when its VM or its host *)
(* is, and when statements do not fail either the meter follows the rows.  *)
(***************************************************************************)
EXTENDS ControlPlaneProofs

\* Steps are first-order unless they say SMT.
USE Zenon

\* Control points at which the copy in hand must still be right.
Tracking == Working \ {"lost", "lostBilling", "stopBilling", "fail"}

\* Control points of a server without a VM that is being placed.
Placing == {"dropStale", "dropRelease", "unassign", "schedule", "assign", "unreserve",
            "unschedulable"}

\* Whatever the users do meanwhile, a copy has the host and the VM of its row.
SyncInv ==
    /\ \A s \in Server : ~rows[s].created => rows[s].vm = NoVM /\ rows[s].host = NoHost
    /\ pc \in Tracking => Live(cur) /\ rows[cur].host = loc.host
    /\ pc \in Tracking \ {"startBilling"} => rows[cur].vm = loc.vm
    /\ pc \in Placing => loc.vm = NoVM
    /\ pc \in Working => cur \notin todo
    /\ \A s \in todo : Live(s) /\ rows[s].host = snap[s].host /\ rows[s].vm = snap[s].vm

\* Control points of calls to an agent, and the command each sends.
Calling == {"backup", "boot", "stop", "evict", "deprovision"}

CallOp == IF pc = "backup" THEN "snapshot"
          ELSE IF pc # "boot" THEN pc
          ELSE IF loc.vm # NoVM THEN "start" ELSE "provision"

Outstanding == [op |-> CallOp, host |-> loc.host, server |-> cur, vm |-> loc.vm,
                awaited |-> TRUE]

\* The VM in the reply, if it still exists, is the server's in hand, on its host.
GotMine ==
    /\ got \in VM /\ loc.host # NoHost
    /\ vms[got].host # NoHost => vms[got].server = cur /\ vms[got].host = loc.host

\* Only the outstanding call can be answered, and only once.
CallInv ==
    /\ waiting => pc \in Calling /\ loc.host # NoHost
    /\ \A c \in wire : c.awaited => waiting /\ reply = "none" /\ c = Outstanding
    /\ reply # "none" \/ waiter # NoHost => waiting
    /\ pc = "boot" /\ reply = "ok" => GotMine
    /\ pc = "markRunning" => GotMine

-----------------------------------------------------------------------------
(* What the statements write.                                              *)

\* The row of s, and no other, becomes this.
Becomes(s, created, deleted, status, host, vm) ==
    /\ \A t \in Server : t # s => rows'[t] = rows[t]
    /\ rows'[s].created = created /\ rows'[s].deleted = deleted
    /\ rows'[s].status = status /\ rows'[s].host = host /\ rows'[s].vm = vm

\* The statements, field by field.
LEMMA RowEffects ==
    ASSUME RecordsTypeOK, NEW s \in Server, NEW row, row = rows[s]
    PROVE  /\ Create(s) => Becomes(s, TRUE, FALSE, "pending", NoHost, NoVM)
           /\ UpdateSpec(s) \/ (\E d : SetDesiredState(s, d)) \/ RequestBackup(s)
                 \/ MarkBackedUp(s) =>
                 Becomes(s, row.created, row.deleted, row.status, row.host, row.vm)
           /\ \A h : AssignHost(s, h) =>
                 Becomes(s, row.created, row.deleted, row.status, h, row.vm)
           /\ UnassignHost(s) =>
                 Becomes(s, row.created, row.deleted, row.status, NoHost, row.vm)
           /\ \A st : MarkStatus(s, st) =>
                 Becomes(s, row.created, row.deleted, st, row.host, row.vm)
           /\ \A v : MarkRunning(s, v) =>
                 Becomes(s, row.created, row.deleted, "running", row.host, v)
           /\ MarkStopped(s) =>
                 Becomes(s, row.created, row.deleted, "stopped", NoHost, NoVM)
           /\ SoftDelete(s) => Becomes(s, row.created, TRUE, "deleted", NoHost, NoVM)
           /\ MarkLost(s) =>
                 IF Live(s) /\ row.status = "running"
                   THEN Becomes(s, row.created, row.deleted, "pending", row.host, NoVM)
                   ELSE UNCHANGED rows
  <1>0. rows \in [Server -> Row] /\ row \in Row
    BY DEF RecordsTypeOK
  <1>1. ASSUME NEW new, Write(s, new)
        PROVE  Becomes(s, new.created, new.deleted, new.status, new.host, new.vm)
    BY <1>0, <1>1 DEF Write, Becomes
  <1>2. Create(s) => Becomes(s, TRUE, FALSE, "pending", NoHost, NoVM)
    <2> DEFINE r == [Blank EXCEPT !.created = TRUE]
    <2>1. Create(s) => Becomes(s, r.created, r.deleted, r.status, r.host, r.vm)
      BY <1>1 DEF Create
    <2> QED BY <2>1 DEF Blank
  <1>3. UpdateSpec(s) => Becomes(s, row.created, row.deleted, row.status, row.host, row.vm)
    BY <1>1 DEF UpdateSpec
  <1>4. (\E d : SetDesiredState(s, d)) =>
           Becomes(s, row.created, row.deleted, row.status, row.host, row.vm)
    <2> SUFFICES ASSUME NEW d, SetDesiredState(s, d)
                 PROVE  Becomes(s, row.created, row.deleted, row.status, row.host, row.vm)
      OBVIOUS
    <2> DEFINE r == [row EXCEPT !.desired = d]
    <2>1. Becomes(s, r.created, r.deleted, r.status, r.host, r.vm)
      BY <1>1 DEF SetDesiredState
    <2> QED BY <1>0, <2>1 DEF Row
  <1>5. ASSUME NEW b
        PROVE  Write(s, [row EXCEPT !.backup = b]) =>
                  Becomes(s, row.created, row.deleted, row.status, row.host, row.vm)
    <2> DEFINE r == [row EXCEPT !.backup = b]
    <2>1. Write(s, r) => Becomes(s, r.created, r.deleted, r.status, r.host, r.vm)
      BY <1>1
    <2> QED BY <1>0, <2>1 DEF Row
  <1>6. ASSUME NEW h
        PROVE  Write(s, [row EXCEPT !.host = h]) =>
                  Becomes(s, row.created, row.deleted, row.status, h, row.vm)
    <2> DEFINE r == [row EXCEPT !.host = h]
    <2>1. Write(s, r) => Becomes(s, r.created, r.deleted, r.status, r.host, r.vm)
      BY <1>1
    <2> QED BY <1>0, <2>1 DEF Row
  <1>7. ASSUME NEW st
        PROVE  MarkStatus(s, st) =>
                  Becomes(s, row.created, row.deleted, st, row.host, row.vm)
    <2> DEFINE r == [row EXCEPT !.status = st]
    <2>1. MarkStatus(s, st) => Becomes(s, r.created, r.deleted, r.status, r.host, r.vm)
      BY <1>1 DEF MarkStatus
    <2> QED BY <1>0, <2>1 DEF Row
  <1>8. ASSUME NEW st, NEW v
        PROVE  Write(s, [row EXCEPT !.status = st, !.vm = v]) =>
                  Becomes(s, row.created, row.deleted, st, row.host, v)
    <2> DEFINE r == [row EXCEPT !.status = st, !.vm = v]
    <2>1. Write(s, r) => Becomes(s, r.created, r.deleted, r.status, r.host, r.vm)
      BY <1>1
    <2> QED BY <1>0, <2>1 DEF Row
  <1>9. MarkStopped(s) => Becomes(s, row.created, row.deleted, "stopped", NoHost, NoVM)
    <2> DEFINE r == [row EXCEPT !.status = "stopped", !.vm = NoVM, !.host = NoHost]
    <2>1. MarkStopped(s) => Becomes(s, r.created, r.deleted, r.status, r.host, r.vm)
      BY <1>1 DEF MarkStopped
    <2> QED BY <1>0, <2>1 DEF Row
  <1>10. SoftDelete(s) => Becomes(s, row.created, TRUE, "deleted", NoHost, NoVM)
    <2> DEFINE r == [row EXCEPT !.status = "deleted", !.vm = NoVM, !.host = NoHost,
                                !.deleted = TRUE]
    <2>1. SoftDelete(s) => Becomes(s, r.created, r.deleted, r.status, r.host, r.vm)
      BY <1>1 DEF SoftDelete
    <2> QED BY <1>0, <2>1 DEF Row
  <1> QED BY <1>2, <1>3, <1>4, <1>5, <1>6, <1>7, <1>8, <1>9, <1>10
          DEF RequestBackup, MarkBackedUp, AssignHost, UnassignHost, MarkRunning, MarkLost

-----------------------------------------------------------------------------
(* The copies are in sync.                                                 *)

\* The step writes neither a placement nor a VM.
SameBacking ==
    \A s \in Server : /\ rows'[s].created = rows[s].created
                      /\ rows'[s].deleted = rows[s].deleted
                      /\ rows'[s].host = rows[s].host
                      /\ rows'[s].vm = rows[s].vm

\* What the reconciler may write to a row: a server with a VM loses the VM with its host
\* or before it.
RowStep(s) ==
    \/ rows'[s].vm = rows[s].vm /\ rows'[s].host = rows[s].host
    \/ /\ rows'[s].vm = NoVM
       /\ \/ rows[s].vm = NoVM
          \/ rows'[s].host = rows[s].host
          \/ rows'[s].status \in {"stopped", "deleted"}

\* Statements that do not touch them.
LEMMA BackingKept ==
    ASSUME RecordsTypeOK, NEW s \in Server,
           \/ UNCHANGED rows
           \/ UpdateSpec(s) \/ (\E d : SetDesiredState(s, d)) \/ RequestBackup(s)
           \/ MarkBackedUp(s) \/ (\E st : MarkStatus(s, st))
    PROVE  SameBacking
  <1>1. CASE UNCHANGED rows
    BY <1>1 DEF SameBacking
  <1>2. CASE ~UNCHANGED rows
    <2>1. \E st : Becomes(s, rows[s].created, rows[s].deleted, st, rows[s].host, rows[s].vm)
      BY <1>2, RowEffects
    <2> QED BY <2>1 DEF Becomes, SameBacking
  <1> QED BY <1>1, <1>2

\* A row that is written while it is on no list: the lists are still right.
LEMMA ListsSync ==
    ASSUME TInv, SyncInv, NEW s \in Server, s \notin todo, UNCHANGED <<todo, snap>>,
           \A t \in Server : t # s => rows'[t] = rows[t],
           rows'[s].created \/ (rows'[s].vm = NoVM /\ rows'[s].host = NoHost)
    PROVE  /\ \A t \in Server :
                 ~rows'[t].created => rows'[t].vm = NoVM /\ rows'[t].host = NoHost
           /\ \A t \in todo' :
                 /\ Live(t)'
                 /\ rows'[t].host = snap'[t].host /\ rows'[t].vm = snap'[t].vm
  <1>1. todo \in SUBSET Server
    BY DEF TInv, RecTypeOK
  <1>2. ASSUME NEW t \in Server, ~rows'[t].created
        PROVE  rows'[t].vm = NoVM /\ rows'[t].host = NoHost
    <2>1. CASE t = s
      BY <1>2, <2>1
    <2>2. CASE t # s
      BY <1>2, <2>2 DEF SyncInv
    <2> QED BY <2>1, <2>2
  <1>3. ASSUME NEW t \in todo'
        PROVE  Live(t)' /\ rows'[t].host = snap'[t].host /\ rows'[t].vm = snap'[t].vm
    <2>1. t \in todo /\ t \in Server /\ t # s
      BY <1>1, <1>3
    <2>2. rows'[t] = rows[t] /\ snap'[t] = snap[t]
      BY <2>1
    <2> QED BY <2>1, <2>2 DEF SyncInv, Live
  <1> QED BY <1>2, <1>3

\* Going on with the server in hand.
LEMMA SyncGoto ==
    ASSUME TInv, SyncInv, SameBacking, UNCHANGED <<todo, snap, cur, loc>>,
           \/ pc' = pc
           \/ pc \in Tracking \ {"startBilling"}
           \/ pc \in Working /\ pc' \notin Tracking
           \/ pc' \notin Working,
           pc' \in Placing => pc \in Placing \/ loc.vm = NoVM
    PROVE  SyncInv' /\ \A s \in Server : RowStep(s)
  <1>1. \A s \in Server : /\ Live(s)' = Live(s)
                          /\ rows'[s].host = rows[s].host /\ rows'[s].vm = rows[s].vm
                          /\ rows'[s].created = rows[s].created
    BY DEF SameBacking, Live
  <1>2. todo \in SUBSET Server /\ (pc \in Working => cur \in Server)
    BY DEF TInv, RecTypeOK, InHand
  <1>3. Tracking \subseteq Working /\ Placing \subseteq Tracking \ {"startBilling"}
    <2>1. Placing \subseteq PC
      BY DEF Placing, PC
    <2>2. \A p \in Placing : p \notin {"idle", "probe", "list", "next", "lost", "lostBilling",
                                       "stopBilling", "fail", "startBilling"}
      BY DEF Placing
    <2> QED BY <2>1, <2>2 DEF Tracking, Working
  <1>4. /\ pc' \in Working => pc \in Working
        /\ pc' \in Tracking => pc \in Tracking
    BY <1>3
  <1>5. pc' \in Tracking \ {"startBilling"} => pc # "startBilling"
    BY <1>3
  <1>6. \A s \in todo : Live(s)' /\ rows'[s].host = snap'[s].host /\ rows'[s].vm = snap'[s].vm
    BY <1>1, <1>2 DEF SyncInv
  <1>7. pc' \in Tracking => Live(cur)' /\ rows'[cur'].host = loc'.host
    BY <1>1, <1>2, <1>3, <1>4 DEF SyncInv, Live
  <1>9. /\ pc' \in Tracking \ {"startBilling"} => rows'[cur'].vm = loc'.vm
        /\ pc' \in Placing => loc'.vm = NoVM
        /\ pc' \in Working => cur' \notin todo'
    BY <1>1, <1>2, <1>3, <1>4, <1>5 DEF SyncInv
  <1>10. \A s \in Server : ~rows'[s].created => rows'[s].vm = NoVM /\ rows'[s].host = NoHost
    BY <1>1 DEF SyncInv
  <1> QED BY <1>1, <1>6, <1>7, <1>9, <1>10 DEF SyncInv, RowStep, Live

\* Dropping it.
LEMMA SyncDone ==
    ASSUME TInv, SyncInv, SameBacking, NEW p, p \notin Working, Done(p)
    PROVE  SyncInv' /\ \A s \in Server : RowStep(s)
  <1>1. \A s \in Server : /\ Live(s)' = Live(s)
                          /\ rows'[s].host = rows[s].host /\ rows'[s].vm = rows[s].vm
                          /\ rows'[s].created = rows[s].created
    BY DEF SameBacking, Live
  <1>2. todo \in SUBSET Server
    BY DEF TInv, RecTypeOK
  <1>3. p \notin Tracking /\ p \notin Placing
    BY DEF Tracking, Placing, Working, PC
  <1>4. pc' = p /\ UNCHANGED <<todo, snap>>
    BY DEF Done
  <1>5. \A s \in Server : ~rows'[s].created => rows'[s].vm = NoVM /\ rows'[s].host = NoHost
    BY <1>1 DEF SyncInv
  <1>6. \A s \in todo' : /\ Live(s)'
                         /\ rows'[s].host = snap'[s].host /\ rows'[s].vm = snap'[s].vm
    BY <1>1, <1>2, <1>4 DEF SyncInv
  <1>7. \A s \in Server : RowStep(s)
    BY <1>1 DEF RowStep
  <1> QED BY <1>3, <1>4, <1>5, <1>6, <1>7 DEF SyncInv

\* Taking one in hand.
LEMMA SyncTake ==
    ASSUME TInv, SyncInv, UNCHANGED rows, NEW s \in todo, NEW p, Take(s, p),
           p \in Placing => snap[s].vm = NoVM
    PROVE  SyncInv' /\ \A t \in Server : RowStep(t)
  <1>1. todo \in SUBSET Server /\ snap \in [Server -> Row]
    BY DEF TInv, RecTypeOK
  <1>2. \A t \in todo : t # s => snap'[t] = snap[t]
    BY <1>1 DEF Take
  <1> QED BY <1>1, <1>2 DEF SyncInv, Take, Live, RowStep

\* A list query.
LEMMA SyncList ==
    ASSUME TInv, SyncInv, UNCHANGED rows, NEW S \in SUBSET Server, \A s \in S : Live(s),
           NEW p, p \notin Working, List(S, p)
    PROVE  SyncInv' /\ \A s \in Server : RowStep(s)
  <1>1. p \notin Tracking /\ p \notin Placing
    BY DEF Tracking, Placing, Working, PC
  <1> QED BY <1>1 DEF SyncInv, List, Live, RowStep

\* Writing the row in hand and not looking at the copy any more.
LEMMA SyncWrite ==
    ASSUME TInv, SyncInv, UNCHANGED <<todo, snap, cur>>, pc \in Working, pc' \in Working,
           pc' \notin Tracking,
           \A t \in Server : t # cur => rows'[t] = rows[t],
           rows'[cur].created = rows[cur].created, rows'[cur].vm = NoVM,
           rows'[cur].host \in {rows[cur].host, NoHost}
    PROVE  SyncInv'
  <1>1. todo \in SUBSET Server /\ cur \in Server
    BY DEF TInv, RecTypeOK, InHand
  <1>2. cur \notin todo
    BY DEF SyncInv
  <1>3. pc' \notin Placing
    BY DEF Placing, Tracking, Working, PC
  <1> QED BY <1>1, <1>2, <1>3, ListsSync DEF SyncInv

\* The main loop and the liveness probes.
LEMMA LoopSync ==
    ASSUME TInv, SyncInv,
           \/ ListRunningServers \/ ProbesDone \/ DoMarkLost \/ LostBilling
           \/ \E s \in Server : ProbeAlive(s) \/ ProbeLost(s) \/ ReconcileNext(s)
           \/ ListReconcilableServers \/ TickDone \/ Fail
    PROVE  SyncInv' /\ \A s \in Server : RowStep(s)
  <1>0. RecordsTypeOK /\ (pc \in Working => cur \in Server)
    BY DEF TInv, WorldTypeOK, RecTypeOK, InHand
  <1>a. UNCHANGED rows => SameBacking
    BY DEF SameBacking
  <1>b. \A p \in {"idle", "probe", "list", "next"} : p \notin Working
    BY DEF Working
  <1>1. CASE ListRunningServers
    <2>1. ListRunning \in SUBSET Server /\ \A s \in ListRunning : Live(s)
      BY DEF ListRunning, Oldest
    <2>2. UNCHANGED rows /\ (List(ListRunning, "probe") \/ Goto("list"))
      BY <1>1 DEF ListRunningServers, Statement, dbVars
    <2>3. CASE List(ListRunning, "probe")
      BY <1>b, <2>1, <2>2, <2>3, SyncList
    <2>4. CASE Goto("list")
      BY <1>a, <1>b, <2>2, <2>4, SyncGoto DEF Goto, Placing
    <2> QED BY <2>2, <2>3, <2>4
  <1>2. CASE ProbesDone \/ TickDone
    <2>1. UNCHANGED <<rows, todo, snap, cur, loc>> /\ pc' \in {"list", "idle"}
      BY <1>2 DEF ProbesDone, TickDone, Local, Goto
    <2> QED BY <1>a, <1>b, <2>1, SyncGoto DEF Placing
  <1>3. CASE DoMarkLost
    <2>1. cur \in Server /\ pc \in Working
      BY <1>0, <1>3 DEF DoMarkLost, Working, PC
    <2>2. CASE Done("probe") /\ UNCHANGED rows
      BY <1>a, <1>b, <2>2, SyncDone
    <2>3. CASE MarkLost(cur) /\ Goto("lostBilling")
      <3>1. "lostBilling" \in Working /\ "lostBilling" \notin Tracking
        BY DEF Tracking, Working, PC
      <3>2. CASE UNCHANGED rows
        BY <1>a, <2>1, <2>3, <3>1, <3>2, SyncGoto DEF Goto, Placing
      <3>3. CASE \E st : Becomes(cur, rows[cur].created, rows[cur].deleted, st,
                                 rows[cur].host, NoVM)
        BY <2>1, <2>3, <3>1, <3>3, SyncWrite DEF Goto, Becomes, RowStep
      <3> QED BY <1>0, <2>1, <2>3, <3>2, <3>3, RowEffects
    <2> QED BY <1>3, <2>2, <2>3 DEF DoMarkLost, Statement, dbVars
  <1>4. CASE LostBilling
    <2>1. UNCHANGED rows /\ Done("probe")
      BY <1>4 DEF LostBilling, CloseInterval
    <2> QED BY <1>a, <1>b, <2>1, SyncDone
  <1>5. ASSUME NEW s \in Server, ProbeAlive(s)
        PROVE  SyncInv' /\ \A t \in Server : RowStep(t)
    <2>1. UNCHANGED rows /\ todo \in SUBSET Server
      BY <1>5 DEF ProbeAlive, Local, TInv, RecTypeOK
    <2>2. pc' = "probe" /\ "probe" \notin Working /\ "probe" \notin Tracking
      BY <1>5 DEF ProbeAlive, Working, Tracking
    <2> QED BY <1>5, <2>1, <2>2 DEF ProbeAlive, SyncInv, RowStep, Live, TInv, RecTypeOK,
            Placing
  <1>6. ASSUME NEW s \in Server, ProbeLost(s)
        PROVE  SyncInv' /\ \A t \in Server : RowStep(t)
    <2>1. UNCHANGED rows /\ s \in todo /\ Take(s, "lost")
      BY <1>6 DEF ProbeLost, Local
    <2> QED BY <2>1, SyncTake DEF Placing
  <1>7. ASSUME NEW s \in Server, ReconcileNext(s)
        PROVE  SyncInv' /\ \A t \in Server : RowStep(t)
    <2>1. UNCHANGED rows /\ s \in todo /\ Take(s, FirstStep(snap[s]))
      BY <1>7 DEF ReconcileNext, Local
    <2>2. FirstStep(snap[s]) \in Placing => snap[s].vm = NoVM
      BY DEF FirstStep, Converge, Placing
    <2> QED BY <2>1, <2>2, SyncTake
  <1>8. CASE ListReconcilableServers
    <2>1. ListReconcilable \in SUBSET Server /\ \A s \in ListReconcilable : Live(s)
      BY DEF ListReconcilable, Oldest
    <2>2. UNCHANGED rows /\ (List(ListReconcilable, "next") \/ Done("idle"))
      BY <1>8 DEF ListReconcilableServers, Statement, dbVars
    <2> QED BY <1>a, <1>b, <2>1, <2>2, SyncList, SyncDone
  <1>9. CASE Fail
    <2>1. cur \in Server
      BY <1>0, <1>9 DEF Fail, Working, PC
    <2>2. Done("next") /\ (MarkStatus(cur, "error") \/ UNCHANGED rows)
      BY <1>9 DEF Fail, Statement, dbVars
    <2>3. SameBacking
      BY <1>0, <2>1, <2>2, BackingKept
    <2> QED BY <1>b, <2>2, <2>3, SyncDone
  <1> QED BY <1>1, <1>2, <1>3, <1>4, <1>5, <1>6, <1>7, <1>8, <1>9

\* A call to an agent writes no row.
LEMMA CallSync ==
    ASSUME TInv, SyncInv, NEW op, NEW ok, NEW err, Call(op, ok, err),
           pc \in Tracking \ {"startBilling"}, ok \notin Placing, err \notin Placing
    PROVE  SyncInv' /\ \A s \in Server : RowStep(s)
  <1>1. UNCHANGED <<rows, todo, snap, cur, loc>> /\ pc' \in {pc, ok, err}
    BY DEF Call, Goto, Local, Send, Return
  <1> QED BY <1>1, SyncGoto DEF SameBacking

\* backup, start, stop and delete; only MarkRunning gives a row a VM.
LEMMA WorkSync ==
    ASSUME TInv, SyncInv,
           \/ SkipBackup \/ TakeBackup \/ BackupFailed \/ DoMarkBackedUp
           \/ DropStale \/ DropRelease \/ NoCapacity \/ DoMarkUnschedulable \/ Unreserve
           \/ DoMarkProvisioning \/ ProvisionOrStart \/ StartBilling
           \/ DoMarkStopping \/ StopVM \/ EvictVM \/ ReleaseHost \/ StopBilling
           \/ DoMarkDeleting \/ DeprovisionVM \/ CheckReachable
           \/ \E h \in Host : Schedule(h)
    PROVE  SyncInv' /\ \A s \in Server : RowStep(s)
  <1>0. RecordsTypeOK /\ (pc \in Working => cur \in Server)
    BY DEF TInv, WorldTypeOK, RecTypeOK, InHand
  <1>a. UNCHANGED rows => SameBacking
    BY DEF SameBacking
  <1>b. "next" \notin Working
    BY DEF Working
  <1>1. CASE TakeBackup \/ ProvisionOrStart \/ StopVM \/ EvictVM \/ DeprovisionVM
    <2>1. pc \in Tracking \ {"startBilling"}
      BY <1>1 DEF TakeBackup, ProvisionOrStart, StopVM, EvictVM, DeprovisionVM, Tracking,
             Working, PC
    <2> QED BY <1>1, <2>1, CallSync DEF TakeBackup, ProvisionOrStart, StopVM, EvictVM,
            DeprovisionVM, Placing
  <1>2. CASE BackupFailed \/ DoMarkBackedUp
    <2>1. pc \in Tracking \ {"startBilling"} /\ pc \in Working
      BY <1>2 DEF BackupFailed, DoMarkBackedUp, Tracking, Working, PC
    <2>2. AfterBackup /\ (UNCHANGED rows \/ MarkBackedUp(cur))
      BY <1>2 DEF BackupFailed, DoMarkBackedUp, Statement, dbVars, Local
    <2>3. SameBacking
      BY <1>0, <2>1, <2>2, BackingKept
    <2>4. Converge(loc) \in Placing => loc.vm = NoVM
      BY DEF Converge, Placing
    <2>5. CASE Done("next")
      BY <1>b, <2>3, <2>5, SyncDone
    <2>6. CASE Goto(Converge(loc))
      BY <2>1, <2>3, <2>4, <2>6, SyncGoto DEF Goto
    <2> QED BY <2>2, <2>5, <2>6 DEF AfterBackup
  <1>3. CASE SkipBackup \/ DropStale \/ NoCapacity \/ CheckReachable
    <2>1. pc \in Tracking \ {"startBilling"}
      BY <1>3 DEF SkipBackup, DropStale, NoCapacity, CheckReachable, Tracking, Working, PC
    <2>2. UNCHANGED <<rows, todo, snap, cur, loc>>
      BY <1>3 DEF SkipBackup, DropStale, NoCapacity, CheckReachable, Local, Goto
    <2>3. pc' \in Placing => pc \in Placing
      BY <1>3 DEF SkipBackup, DropStale, NoCapacity, CheckReachable, Goto, Placing
    <2> QED BY <1>a, <2>1, <2>2, <2>3, SyncGoto
  <1>4. CASE DropRelease \/ Unreserve \/ ReleaseHost \/ \E h \in Host : Schedule(h)
    <2>1. pc \in Tracking \ {"startBilling"}
      BY <1>4 DEF DropRelease, Unreserve, ReleaseHost, Schedule, Tracking, Working, PC
    <2>2. UNCHANGED <<rows, todo, snap, cur, loc>>
      BY <1>4 DEF DropRelease, Unreserve, ReleaseHost, Schedule, OnHosts, Goto
    <2>3. pc' \in Placing => pc \in Placing
      BY <1>4 DEF DropRelease, Unreserve, ReleaseHost, Schedule, Goto, Placing
    <2> QED BY <1>a, <2>1, <2>2, <2>3, SyncGoto
  <1>5. CASE DoMarkUnschedulable \/ DoMarkProvisioning \/ DoMarkStopping \/ DoMarkDeleting
    <2>1. pc \in Tracking \ {"startBilling"} /\ pc \in Working
      BY <1>5 DEF DoMarkUnschedulable, DoMarkProvisioning, DoMarkStopping, DoMarkDeleting,
             Tracking, Working, PC
    <2>2. UNCHANGED rows \/ \E st : MarkStatus(cur, st)
      BY <1>5 DEF DoMarkUnschedulable, DoMarkProvisioning, DoMarkStopping, DoMarkDeleting,
             Statement, dbVars
    <2>3. SameBacking
      BY <1>0, <2>1, <2>2, BackingKept
    <2>4. Done("next") \/ \E p \in {"boot", "stop", "deprovision", "fail"} : Goto(p)
      BY <1>5 DEF DoMarkUnschedulable, DoMarkProvisioning, DoMarkStopping, DoMarkDeleting,
             Statement
    <2>5. CASE Done("next")
      BY <1>b, <2>3, <2>5, SyncDone
    <2>6. ASSUME NEW p \in {"boot", "stop", "deprovision", "fail"}, Goto(p)
          PROVE  SyncInv' /\ \A s \in Server : RowStep(s)
      BY <2>1, <2>3, <2>6, SyncGoto DEF Goto, Placing
    <2> QED BY <2>4, <2>5, <2>6
  <1>6. CASE StartBilling \/ StopBilling
    <2>1. UNCHANGED rows /\ Done("next")
      BY <1>6 DEF StartBilling, StopBilling, CloseInterval
    <2> QED BY <1>a, <1>b, <2>1, SyncDone
  <1> QED BY <1>1, <1>2, <1>3, <1>4, <1>5, <1>6

\* What a step other than MarkRunning may do to the rows.
RowSteps == \A s \in Server : RowStep(s)

\* The statements that write a placement: the copy follows the row, or is not used again.
LEMMA PlaceSync ==
    ASSUME TInv, SyncInv, DoUnassign \/ DoAssign \/ DoMarkStopped \/ DoSoftDelete
    PROVE  SyncInv' /\ RowSteps
  <1>0. RecordsTypeOK /\ rows \in [Server -> Row] /\ loc \in Row
    BY DEF TInv, WorldTypeOK, RecTypeOK, RecordsTypeOK
  <1>1. cur \in Server /\ pc \in Working /\ pc \in Tracking \ {"startBilling"}
    BY DEF DoUnassign, DoAssign, DoMarkStopped, DoSoftDelete, Tracking, Working, PC, TInv,
           RecTypeOK, InHand
  <1>2. CASE UNCHANGED rows /\ (Goto("fail") \/ Goto("unreserve"))
    <2>1. pc \in Placing \/ pc' \notin Placing
      BY <1>2 DEF DoUnassign, DoAssign, DoMarkStopped, DoSoftDelete, Goto, Statement, Placing
    <2> QED BY <1>1, <1>2, <2>1, SyncGoto DEF Goto, SameBacking, RowSteps
  <1>3. ASSUME NEW h, h \in {NoHost, target}, NEW p \in {"schedule", "markProvisioning"},
               AssignHost(cur, h), pc \in Placing,
               loc' = [loc EXCEPT !.host = h], pc' = p, UNCHANGED <<todo, snap, cur>>
        PROVE  SyncInv' /\ RowSteps
    <2>1. Becomes(cur, rows[cur].created, rows[cur].deleted, rows[cur].status, h, rows[cur].vm)
      BY <1>0, <1>1, <1>3, RowEffects
    <2>2. loc'.host = h /\ loc'.vm = loc.vm
      BY <1>0, <1>3 DEF Row
    <2>3. Live(cur) /\ rows[cur].vm = NoVM /\ loc.vm = NoVM /\ cur \notin todo
      BY <1>1, <1>3 DEF SyncInv
    <2>4. \A t \in Server : t # cur => rows'[t] = rows[t]
      BY <2>1 DEF Becomes
    <2>5. /\ rows'[cur].host = h /\ rows'[cur].vm = NoVM
          /\ rows'[cur].created /\ ~rows'[cur].deleted
      BY <2>1, <2>3 DEF Becomes, Live
    <2>6. SyncInv'
      <3>1. /\ \A t \in Server :
                  ~rows'[t].created => rows'[t].vm = NoVM /\ rows'[t].host = NoHost
            /\ \A t \in todo' :
                  /\ Live(t)'
                  /\ rows'[t].host = snap'[t].host /\ rows'[t].vm = snap'[t].vm
        BY <1>1, <1>3, <2>3, <2>4, <2>5, ListsSync
      <3>2. Live(cur)' /\ rows'[cur'].host = loc'.host /\ rows'[cur'].vm = loc'.vm
        BY <1>3, <2>2, <2>3, <2>5 DEF Live
      <3> QED BY <1>3, <2>2, <2>3, <3>1, <3>2 DEF SyncInv
    <2>7. RowSteps
      BY <2>3, <2>4, <2>5 DEF RowSteps, RowStep
    <2> QED BY <2>6, <2>7
  <1>4. CASE DoUnassign
    BY <1>2, <1>3, <1>4 DEF DoUnassign, Statement, dbVars, UnassignHost, AssignHost, Placing
  <1>5. CASE DoAssign
    BY <1>2, <1>3, <1>5 DEF DoAssign, Statement, dbVars, Placing
  <1>6. CASE (MarkStopped(cur) \/ SoftDelete(cur)) /\ Goto("stopBilling")
    <2>1. \E d : \E st \in {"stopped", "deleted"} :
             Becomes(cur, rows[cur].created, d, st, NoHost, NoVM)
      BY <1>0, <1>1, <1>6, RowEffects
    <2>2. "stopBilling" \in Working /\ "stopBilling" \notin Tracking
      BY DEF Working, Tracking, PC
    <2> QED BY <1>1, <1>6, <2>1, <2>2, SyncWrite DEF Becomes, Goto, RowSteps, RowStep
  <1> QED BY <1>2, <1>4, <1>5, <1>6 DEF DoMarkStopped, DoSoftDelete, Statement, dbVars

\* MarkRunning gives the row in hand the VM of the reply.
LEMMA RunningSync ==
    ASSUME TInv, SyncInv, DoMarkRunning
    PROVE  /\ SyncInv'
           /\ \A s \in Server : rows'[s].host = rows[s].host
           /\ \A s \in Server : rows'[s].vm = rows[s].vm \/ (s = cur /\ rows'[s].vm = got)
  <1>0. RecordsTypeOK /\ todo \in SUBSET Server
    BY DEF TInv, WorldTypeOK, RecTypeOK
  <1>1. cur \in Server /\ pc \in Working /\ pc \in Tracking \ {"startBilling"}
    BY DEF DoMarkRunning, Tracking, Working, PC, TInv, RecTypeOK, InHand
  <1>2. CASE UNCHANGED rows /\ Goto("fail")
    BY <1>1, <1>2, SyncGoto DEF Goto, SameBacking, Placing
  <1>3. CASE MarkRunning(cur, got) /\ Goto("startBilling")
    <2>1. Becomes(cur, rows[cur].created, rows[cur].deleted, "running", rows[cur].host, got)
      BY <1>0, <1>1, <1>3, RowEffects
    <2>2. \A t \in Server : t # cur => rows'[t] = rows[t]
      BY <2>1 DEF Becomes
    <2>3. Live(cur) /\ cur \notin todo /\ rows[cur].host = loc.host
      BY <1>1 DEF SyncInv
    <2>4. /\ rows'[cur].host = loc.host /\ rows'[cur].vm = got
          /\ rows'[cur].created /\ ~rows'[cur].deleted
      BY <2>1, <2>3 DEF Becomes, Live
    <2>5. SyncInv'
      <3>1. /\ \A t \in Server :
                  ~rows'[t].created => rows'[t].vm = NoVM /\ rows'[t].host = NoHost
            /\ \A t \in todo' :
                  /\ Live(t)'
                  /\ rows'[t].host = snap'[t].host /\ rows'[t].vm = snap'[t].vm
        BY <1>1, <1>3, <2>2, <2>3, <2>4, ListsSync DEF Goto
      <3>2. pc' = "startBilling" /\ UNCHANGED <<cur, loc, todo>>
        BY <1>3 DEF Goto
      <3>3. Live(cur)' /\ rows'[cur'].host = loc'.host /\ cur' \notin todo'
        BY <2>3, <2>4, <3>2 DEF Live
      <3> QED BY <3>1, <3>2, <3>3 DEF SyncInv, Placing
    <2> QED BY <2>2, <2>3, <2>4, <2>5
  <1> QED BY <1>2, <1>3 DEF DoMarkRunning, Statement, dbVars

\* The users' statements, the agents and their streams, and a crash.
LEMMA OutsideSync ==
    ASSUME TInv, SyncInv, Environment \/ Users \/ Crash \/ UNCHANGED vars
    PROVE  SyncInv' /\ RowSteps
  <1>0. RecordsTypeOK /\ todo \in SUBSET Server /\ (pc \in Working => cur \in Server)
    BY DEF TInv, WorldTypeOK, RecTypeOK, InHand
  <1>a. ASSUME SameBacking, UNCHANGED recVars PROVE SyncInv' /\ RowSteps
    BY <1>a, SyncGoto DEF recVars, RowSteps
  <1>1. CASE Environment \/ UNCHANGED vars
    <2>1. UNCHANGED rows /\ UNCHANGED recVars
      BY <1>1 DEF vars, Environment, LinkNext, Disconnect, GoSilent, SpeakAgain,
                  AgentRestarts, ConnectRead, ConnectRegister, HandlerEnds, Beat,
                  Quiet, ReapHosts, Execute, ExecuteFails, GuestPowersOff, StreamLost
    <2> QED BY <1>a, <2>1 DEF SameBacking
  <1>2. CASE Crash
    <2>1. UNCHANGED rows /\ pc' = "idle" /\ todo' = {}
      BY <1>2 DEF Crash
    <2>2. "idle" \notin Working /\ "idle" \notin Tracking /\ "idle" \notin Placing
      BY DEF Working, Tracking, Placing
    <2> QED BY <2>1, <2>2 DEF SyncInv, RowSteps, RowStep
  <1>3. ASSUME NEW s \in Server, UpdateServer(s) \/ BackupServer(s)
        PROVE  SyncInv' /\ RowSteps
    <2>1. UNCHANGED recVars
      BY <1>3 DEF UpdateServer, BackupServer, Handler
    <2>2. UpdateSpec(s) \/ (\E d : SetDesiredState(s, d)) \/ RequestBackup(s)
      BY <1>3 DEF UpdateServer, BackupServer, Handler
    <2> QED BY <1>0, <1>a, <2>1, <2>2, BackingKept
  <1>4. ASSUME NEW s \in Server, CreateServer(s) PROVE SyncInv' /\ RowSteps
    <2>1. UNCHANGED recVars /\ Create(s) /\ ~rows[s].created
      BY <1>4 DEF CreateServer, Handler
    <2>2. Becomes(s, TRUE, FALSE, "pending", NoHost, NoVM)
      BY <1>0, <2>1, RowEffects
    <2>3. rows[s].vm = NoVM /\ s \notin todo /\ (pc \in Tracking => s # cur)
      BY <2>1 DEF SyncInv, Live
    <2>4. Tracking \subseteq Working
      BY DEF Tracking
    <2>5. RowSteps
      BY <2>2, <2>3 DEF Becomes, RowSteps, RowStep
    <2>6. UNCHANGED <<pc, todo, snap, cur, loc>>
      BY <2>1 DEF recVars
    <2>7. /\ rows'[s].created /\ rows'[s].vm = NoVM
          /\ \A t \in Server : t # s => rows'[t] = rows[t]
      BY <2>2 DEF Becomes
    <2>8. /\ \A t \in Server :
                ~rows'[t].created => rows'[t].vm = NoVM /\ rows'[t].host = NoHost
          /\ \A t \in todo' :
                /\ Live(t)'
                /\ rows'[t].host = snap'[t].host /\ rows'[t].vm = snap'[t].vm
      BY <2>3, <2>6, <2>7, ListsSync
    <2>9. pc \in Tracking => rows'[cur] = rows[cur]
      BY <1>0, <2>3, <2>4, <2>7
    <2>10. SyncInv'
      BY <2>6, <2>8, <2>9 DEF SyncInv, Live, Placing
    <2> QED BY <2>5, <2>10
  <1> QED BY <1>1, <1>2, <1>3, <1>4 DEF Users

\* Every step.
LEMMA StepSync ==
    ASSUME TInv, SyncInv, [Next]_vars
    PROVE  SyncInv' /\ (RowSteps \/ DoMarkRunning)
  <1>1. CASE Reconciler
    BY <1>1, LoopSync, WorkSync, PlaceSync, RunningSync DEF Reconciler, RowSteps
  <1>2. CASE Environment \/ Users \/ Crash \/ UNCHANGED vars
    BY <1>2, OutsideSync
  <1> QED BY <1>1, <1>2 DEF Next

\* A new table is in sync.
LEMMA InitSync == Init => SyncInv
  BY SMT DEF Init, RecordsInit, SyncInv, Blank, Tracking, Placing, Working

-----------------------------------------------------------------------------
(* Calls.                                                                  *)

\* Outside a call a step leaves the links alone, and does not get to markRunning.
Aside == ~waiting /\ UNCHANGED <<waiting, wire, waiter, reply>> /\ pc' # "markRunning"

\* Such a step keeps CallInv: nobody waits, so there is nothing to answer.
LEMMA AsideCalls ==
    ASSUME CallInv, Aside
    PROVE  CallInv'
  <1>1. ~waiting /\ ~waiting' /\ reply' = "none" /\ waiter' = NoHost
    BY DEF CallInv, Aside
  <1>2. \A c \in wire' : ~c.awaited
    BY DEF CallInv, Aside
  <1> QED BY <1>1, <1>2 DEF CallInv, Aside

\* checkLiveness and the main loop.
LEMMA LoopAside ==
    ASSUME TInv, CallInv,
           \/ ListRunningServers \/ ProbesDone \/ DoMarkLost \/ LostBilling
           \/ \E s \in Server : ProbeAlive(s) \/ ProbeLost(s) \/ ReconcileNext(s)
           \/ ListReconcilableServers \/ TickDone \/ Fail
    PROVE  Aside /\ UNCHANGED vms
  <1>1. pc \notin Calling
    BY DEF ListRunningServers, ProbesDone, DoMarkLost, LostBilling, ProbeAlive, ProbeLost,
           ReconcileNext, ListReconcilableServers, TickDone, Fail, Calling
  <1>2. ~waiting
    BY <1>1 DEF CallInv
  <1>3. CASE ListRunningServers \/ DoMarkLost \/ ListReconcilableServers \/ Fail
    BY <1>2, <1>3 DEF ListRunningServers, DoMarkLost, ListReconcilableServers, Fail,
                      Statement, OnRecords, NoLinkChange, List, Goto, Done, Aside
  <1>4. CASE ProbesDone \/ TickDone \/ LostBilling
    BY <1>2, <1>4 DEF ProbesDone, TickDone, LostBilling, CloseInterval, NoLinkChange, Goto,
                      Done, Local, linkVars, Aside
  <1>5. CASE \E s \in Server : ProbeAlive(s) \/ ProbeLost(s)
    BY <1>2, <1>5 DEF ProbeAlive, ProbeLost, Take, Local, linkVars, Aside
  <1>6. CASE \E s \in Server : ReconcileNext(s)
    <2>1. \A row : FirstStep(row) # "markRunning"
      BY DEF FirstStep, Converge
    <2> QED BY <1>2, <1>6, <2>1 DEF ReconcileNext, Take, Local, linkVars, Aside
  <1> QED BY <1>3, <1>4, <1>5, <1>6

\* The statements and local steps of backup, start, stop and delete.
LEMMA WorkAside ==
    ASSUME TInv, CallInv,
           \/ SkipBackup \/ BackupFailed \/ DoMarkBackedUp
           \/ DropStale \/ DropRelease \/ DoUnassign
           \/ \E h \in Host : Schedule(h)
           \/ NoCapacity \/ DoMarkUnschedulable \/ DoAssign \/ Unreserve
           \/ DoMarkProvisioning \/ DoMarkRunning \/ StartBilling
           \/ DoMarkStopping \/ ReleaseHost \/ DoMarkStopped \/ StopBilling
           \/ DoMarkDeleting \/ CheckReachable \/ DoSoftDelete
    PROVE  Aside /\ UNCHANGED vms
  <1>1. CASE SkipBackup
    BY <1>1 DEF SkipBackup, Goto, Local, linkVars, Aside
  <1>2. CASE BackupFailed \/ DoMarkBackedUp
    <2>1. ~waiting
      BY <1>2 DEF BackupFailed, DoMarkBackedUp, CallInv, Calling
    <2>2. Converge(loc) # "markRunning"
      BY DEF Converge
    <2>3. AfterBackup /\ UNCHANGED <<wire, waiter, reply, vms>>
      BY <1>2 DEF BackupFailed, DoMarkBackedUp, Statement, OnRecords, NoLinkChange, Local,
                  linkVars
    <2> QED BY <2>1, <2>2, <2>3 DEF AfterBackup, Done, Goto, Aside
  <1>3. CASE DropStale \/ DropRelease \/ DoUnassign
    BY <1>3 DEF DropStale, DropRelease, DoUnassign, Goto, Local, OnHosts, Statement,
                OnRecords, NoLinkChange, linkVars, Aside, CallInv, Calling
  <1>4. CASE (\E h \in Host : Schedule(h)) \/ NoCapacity \/ DoMarkUnschedulable
    BY <1>4 DEF Schedule, NoCapacity, DoMarkUnschedulable, Goto, Done, Local, OnHosts,
                Statement, OnRecords, NoLinkChange, linkVars, Aside, CallInv, Calling
  <1>5. CASE DoAssign \/ Unreserve \/ DoMarkProvisioning
    BY <1>5 DEF DoAssign, Unreserve, DoMarkProvisioning, Goto, OnHosts,
                Statement, OnRecords, NoLinkChange, linkVars, Aside, CallInv, Calling
  <1>6. CASE DoMarkRunning \/ StartBilling \/ StopBilling
    BY <1>6 DEF DoMarkRunning, StartBilling, StopBilling, CloseInterval, Goto, Done,
                Statement, NoLinkChange, Aside, CallInv, Calling
  <1>7. CASE DoMarkStopping \/ ReleaseHost \/ DoMarkStopped
    BY <1>7 DEF DoMarkStopping, ReleaseHost, DoMarkStopped, Goto, OnHosts,
                Statement, OnRecords, NoLinkChange, linkVars, Aside, CallInv, Calling
  <1>8. CASE DoMarkDeleting \/ CheckReachable \/ DoSoftDelete
    BY <1>8 DEF DoMarkDeleting, CheckReachable, DoSoftDelete, Goto, Local,
                Statement, OnRecords, NoLinkChange, linkVars, Aside, CallInv, Calling
  <1> QED BY <1>1, <1>2, <1>3, <1>4, <1>5, <1>6, <1>7, <1>8

\* One step of a call: it returns at once, sends its command, or takes the reply.
LEMMA OneCall ==
    ASSUME TInv, CallInv, pc \in Calling, NEW ok, NEW err, Call(CallOp, ok, err),
           ok = "markRunning" => pc = "boot", err # "markRunning"
    PROVE  CallInv' /\ UNCHANGED vms
  <1>1. CASE ~waiting /\ NothingToDo(CallOp) /\ Goto(ok) /\ Local
    <2>1. pc # "boot"
      BY <1>1 DEF NothingToDo, CallOp
    <2>2. Aside
      BY <1>1, <2>1 DEF Aside, Goto, Local, linkVars
    <2> QED BY <1>1, <2>2, AsideCalls DEF Local
  <1>2. CASE ~waiting /\ Goto(err) /\ Local
    <2>1. Aside
      BY <1>2 DEF Aside, Goto, Local, linkVars
    <2> QED BY <1>2, <2>1, AsideCalls DEF Local
  <1>3. CASE ~waiting /\ ~Unreachable /\ Send(CallOp)
    <2>1. loc.host # NoHost /\ reply' = "none" /\ waiting' /\ (\A c \in wire : ~c.awaited)
      BY <1>3 DEF Unreachable, CallInv, Send
    <2>2. wire' = wire \cup {Outstanding} /\ Outstanding' = Outstanding
      BY <1>3 DEF Send, Outstanding, CallOp
    <2>3. pc' = pc /\ loc' = loc /\ pc # "markRunning"
      BY <1>3 DEF Send, Calling
    <2> QED BY <1>3, <2>1, <2>2, <2>3 DEF CallInv, Send
  <1>4. ASSUME NEW p, NEW res \in {"ok", "err"}, Returned(res), Return(p),
               p = "markRunning" => pc = "boot" /\ res = "ok"
        PROVE  CallInv' /\ UNCHANGED vms
    <2>1. \A c \in wire' : ~c.awaited
      BY <1>4 DEF CallInv, Returned, Return
    <2>2. pc' = "markRunning" => GotMine'
      BY <1>4 DEF CallInv, Returned, Return, GotMine
    <2> QED BY <1>4, <2>1, <2>2 DEF CallInv, Return
  <1> QED BY <1>1, <1>2, <1>3, <1>4 DEF Call

\* The five calls.
LEMMA CallCalls ==
    ASSUME TInv, CallInv,
           TakeBackup \/ ProvisionOrStart \/ StopVM \/ EvictVM \/ DeprovisionVM
    PROVE  CallInv' /\ UNCHANGED vms
  <1>1. CASE TakeBackup
    BY <1>1, OneCall, SMT DEF TakeBackup, CallOp, Calling
  <1>2. CASE ProvisionOrStart
    BY <1>2, OneCall, SMT DEF ProvisionOrStart, CallOp, Calling
  <1>3. CASE StopVM
    BY <1>3, OneCall, SMT DEF StopVM, CallOp, Calling
  <1>4. CASE EvictVM
    BY <1>4, OneCall, SMT DEF EvictVM, CallOp, Calling
  <1>5. CASE DeprovisionVM
    BY <1>5, OneCall, SMT DEF DeprovisionVM, CallOp, Calling
  <1> QED BY <1>1, <1>2, <1>3, <1>4, <1>5

-----------------------------------------------------------------------------
(* The agents.                                                             *)

\* A VM goes away or stays where and whose it is; only an unused id is taken.
VMSteps ==
    \A v \in VM : \/ vms'[v].host = NoHost
                  \/ vms'[v].host = vms[v].host /\ vms'[v].server = vms[v].server
                  \/ v \in UnusedVMs

\* The runtime's operations on one VM.
LEMMA RuntimeVMs ==
    ASSUME RuntimeTypeOK, NEW h, NEW v,
           Start(h, v) \/ Stop(h, v) \/ Remove(h, v) \/ UNCHANGED vms
    PROVE  VMSteps
  <1>1. CASE UNCHANGED vms
    BY <1>1 DEF VMSteps
  <1>2. CASE v \notin VM
    BY <1>2 DEF Start, Stop, Remove, RuntimeTypeOK, VMSteps
  <1>3. CASE v \in VM
    <2>1. Start(h, v) \/ Stop(h, v) \/ Remove(h, v) =>
             \A w \in VM : w # v => vms'[w] = vms[w]
      BY <1>3 DEF RuntimeTypeOK, Start, Stop, Remove
    <2>2. vms[v] \in VMRecord
      BY <1>3 DEF RuntimeTypeOK
    <2>3. ASSUME NEW st, vms'[v] = [vms[v] EXCEPT !.state = st]
          PROVE  vms'[v].host = vms[v].host /\ vms'[v].server = vms[v].server
      BY <2>2, <2>3 DEF VMRecord
    <2>4. NoSuchVM.host = NoHost
      BY DEF NoSuchVM
    <2>5. Start(h, v) \/ Stop(h, v) =>
             vms'[v].host = vms[v].host /\ vms'[v].server = vms[v].server
      <3>1. Start(h, v) => vms'[v] = [vms[v] EXCEPT !.state = "running"] \/ vms'[v] = vms[v]
        BY <1>3 DEF RuntimeTypeOK, Start
      <3>2. Stop(h, v) => vms'[v] = [vms[v] EXCEPT !.state = "stopped"] \/ vms'[v] = vms[v]
        BY <1>3 DEF RuntimeTypeOK, Stop
      <3> QED BY <2>3, <3>1, <3>2
    <2>6. Remove(h, v) => vms'[v].host = NoHost \/ vms'[v] = vms[v]
      BY <1>3, <2>4 DEF RuntimeTypeOK, Remove
    <2> QED BY <1>1, <2>1, <2>5, <2>6 DEF VMSteps
  <1> QED BY <1>1, <1>2, <1>3

\* A new VM.
LEMMA ProvisionVMs ==
    ASSUME RuntimeTypeOK, NEW h, NEW s, NEW v \in UnusedVMs, Provision(h, s, v)
    PROVE  VMSteps /\ vms'[v].host = h /\ vms'[v].server = s
  BY DEF UnusedVMs, RuntimeTypeOK, Provision, VMSteps

\* What a step of the environment does to the VMs.
LEMMA EnvironmentVMs ==
    ASSUME TInv, Environment
    PROVE  VMSteps
  <1>0. RuntimeTypeOK
    BY DEF TInv, WorldTypeOK
  <1>1. NewVM \subseteq UnusedVMs
    BY DEF NewVM
  <1>2. ASSUME UNCHANGED vms PROVE VMSteps
    BY <1>2 DEF VMSteps
  <1>3. CASE \E h \in Host : AgentRestarts(h)
    BY <1>3, SMT DEF AgentRestarts, AgentForgets, NoSuchVM, VMSteps
  <1>4. CASE \E v \in VM : GuestPowersOff(v)
    <2>1. PICK v \in VM : GuestExits(v)
      BY <1>4 DEF GuestPowersOff
    <2>2. /\ [vms[v] EXCEPT !.state = "exited"].host = vms[v].host
          /\ [vms[v] EXCEPT !.state = "exited"].server = vms[v].server
      BY <1>0, <2>1 DEF RuntimeTypeOK, VMRecord
    <2> QED BY <1>0, <2>1, <2>2 DEF GuestExits, RuntimeTypeOK, VMSteps
  <1>5. ASSUME NEW c \in wire, Execute(c, NewVM) PROVE VMSteps
    BY <1>0, <1>1, <1>2, <1>5, RuntimeVMs, ProvisionVMs DEF Execute, Outcome
  <1>6. ASSUME NEW c \in wire, ExecuteFails(c) PROVE VMSteps
    BY <1>0, <1>2, <1>6, RuntimeVMs DEF ExecuteFails
  <1>7. CASE \E h \in Host : \/ Disconnect(h) \/ GoSilent(h) \/ SpeakAgain(h)
                             \/ ConnectRead(h) \/ ConnectRegister(h) \/ HandlerEnds(h)
                             \/ Beat(h) \/ Quiet(h)
    BY <1>2, <1>7 DEF Disconnect, GoSilent, SpeakAgain, ConnectRead, ConnectRegister,
                      HandlerEnds, Beat, Quiet
  <1>8. CASE ReapHosts
    BY <1>2, <1>8 DEF ReapHosts
  <1> QED BY <1>3, <1>4, <1>5, <1>6, <1>7, <1>8 DEF Environment, LinkNext

\* What is on the wire and awaited was so before.
FewerAwaited == \A c \in wire' : c.awaited => c \in wire

\* A step of the environment that answers nobody.
LEMMA UnansweredCalls ==
    ASSUME TInv, CallInv, VMSteps, UNCHANGED recVars, FewerAwaited,
           \/ UNCHANGED <<waiter, reply, got>>
           \/ \E h \in Host : LoseReply(h)
    PROVE  CallInv'
  <1>1. Outstanding' = Outstanding
    BY DEF recVars, Outstanding, CallOp
  <1>2. CASE UNCHANGED <<waiter, reply, got>>
    <2>1. ASSUME GotMine PROVE GotMine'
      <3>1. got \notin UnusedVMs
        BY DEF UnusedVMs
      <3>2. got' = got /\ loc' = loc /\ cur' = cur /\ got \in VM
        BY <1>2, <2>1 DEF recVars, GotMine
      <3> QED BY <2>1, <3>1, <3>2 DEF GotMine, VMSteps
    <2> QED BY <1>1, <1>2, <2>1 DEF CallInv, recVars, FewerAwaited
  <1>3. CASE waiter # NoHost /\ reply' = "none" /\ waiter' = NoHost
    <2>1. waiting /\ pc # "markRunning"
      BY <1>3 DEF CallInv, Calling
    <2> QED BY <1>1, <1>3, <2>1 DEF CallInv, recVars, FewerAwaited
  <1> QED BY <1>2, <1>3, FleetAssumption DEF LoseReply

\* Lost streams: what was sent on them is dropped, or runs on unanswered.
LEMMA LostAwaited ==
    ASSUME LinkTypeOK, NEW h, LoseCommands(h)
    PROVE  FewerAwaited
  <1>1. \A c \in wire : ~[c EXCEPT !.awaited = FALSE].awaited
    BY DEF LinkTypeOK, Command
  <1>2. CASE wire' = {c \in wire : c.host # h}
    BY <1>2 DEF FewerAwaited
  <1>3. CASE wire' = {IF c.host = h THEN [c EXCEPT !.awaited = FALSE] ELSE c : c \in wire}
    <2>1. ASSUME NEW d \in wire', d.awaited PROVE d \in wire
      <3>1. PICK c \in wire : d = IF c.host = h THEN [c EXCEPT !.awaited = FALSE] ELSE c
        BY <1>3
      <3> QED BY <1>1, <2>1, <3>1
    <2> QED BY <2>1 DEF FewerAwaited
  <1> QED BY <1>2, <1>3 DEF LoseCommands

\* The answer to the outstanding call: to a boot it names the server's VM.
LEMMA AnswerCalls ==
    ASSUME TInv, SyncInv, CallInv, RecordsMatchVMs, UNCHANGED recVars,
           NEW c \in wire, c.awaited, wire' = wire \ {c}, waiter' = waiter,
           Outcome(c, NewVM) \/ reply' = "err"
    PROVE  CallInv'
  <1>1. waiting /\ pc \in Calling /\ loc.host # NoHost /\ c = Outstanding
    BY DEF CallInv
  <1>2. Outstanding' = Outstanding
    BY DEF recVars, Outstanding, CallOp
  <1>3. \A d \in wire' : ~d.awaited
    BY <1>1 DEF CallInv
  <1>4. ASSUME pc = "boot", reply' = "ok" PROVE GotMine'
    <2>1. /\ c.host = loc.host /\ c.server = cur /\ c.vm = loc.vm
          /\ c.op = IF loc.vm # NoVM THEN "start" ELSE "provision"
      BY <1>1, <1>4 DEF Outstanding, CallOp
    <2>2. loc' = loc /\ cur' = cur /\ loc.vm \in VM \cup {NoVM}
      BY DEF recVars, TInv, RecTypeOK, Row
    <2>3. RuntimeTypeOK
      BY DEF TInv, WorldTypeOK
    <2>4. CASE \E v \in NewVM : Provision(c.host, c.server, v) /\ got' = v
      <3>1. PICK v \in UnusedVMs : Provision(c.host, c.server, v) /\ got' = v
        BY <2>4 DEF NewVM
      <3>2. v \in VM
        BY DEF UnusedVMs
      <3> QED BY <1>1, <2>1, <2>2, <2>3, <3>1, <3>2, ProvisionVMs, SMT DEF GotMine
    <2>5. CASE loc.vm # NoVM /\ Start(c.host, c.vm) /\ got' = c.vm
      <3>1. loc.vm \in VM /\ vms[loc.vm].host = loc.host
        BY <2>1, <2>2, <2>5 DEF Start, CanStart, ExistsOn
      <3>2. cur \in Server /\ rows[cur].vm = loc.vm
        BY <1>4 DEF SyncInv, TInv, RecTypeOK, InHand, Tracking, Working, PC
      <3>3. vms[loc.vm].server = cur
        BY <1>1, <2>5, <3>1, <3>2 DEF RecordsMatchVMs
      <3>4. loc.vm \notin UnusedVMs /\ VMSteps
        BY <2>3, <2>5, RuntimeVMs DEF UnusedVMs
      <3> QED BY <1>1, <2>1, <2>2, <2>5, <3>1, <3>3, <3>4 DEF GotMine, VMSteps
    <2> QED BY <1>4, <2>1, <2>4, <2>5 DEF Outcome, Answer
  <1>5. pc' = pc /\ waiting' = waiting /\ loc' = loc /\ pc # "markRunning"
    BY <1>1 DEF recVars, Calling
  <1> QED BY <1>1, <1>3, <1>4, <1>5 DEF CallInv

\* Every step of the environment.
LEMMA EnvironmentCalls ==
    ASSUME TInv, SyncInv, CallInv, RecordsMatchVMs, Environment
    PROVE  CallInv'
  <1>0. LinkTypeOK /\ UNCHANGED recVars /\ VMSteps
    BY EnvironmentVMs DEF TInv, WorldTypeOK, Environment
  <1>1. ASSUME NEW h \in Host, Disconnect(h) \/ AgentRestarts(h) PROVE CallInv'
    <2>1. FewerAwaited
      BY <1>0, <1>1, LostAwaited DEF Disconnect, AgentRestarts, FewerAwaited
    <2> QED BY <1>0, <1>1, <2>1, UnansweredCalls DEF Disconnect, AgentRestarts, StreamLost
  <1>2. ASSUME NEW h \in Host, ConnectRegister(h) PROVE CallInv'
    <2>1. FewerAwaited
      BY <1>0, <1>2, LostAwaited DEF ConnectRegister, FewerAwaited
    <2> QED BY <1>0, <1>2, <2>1, UnansweredCalls DEF ConnectRegister
  <1>3. ASSUME UNCHANGED <<wire, waiter, reply, got>> PROVE CallInv'
    <2>1. FewerAwaited
      BY <1>3 DEF FewerAwaited
    <2> QED BY <1>0, <1>3, <2>1, UnansweredCalls
  <1>4. ASSUME NEW h \in Host,
               \/ GoSilent(h) \/ SpeakAgain(h) \/ ConnectRead(h) \/ HandlerEnds(h)
               \/ Beat(h) \/ Quiet(h)
        PROVE  CallInv'
    BY <1>3, <1>4 DEF GoSilent, SpeakAgain, ConnectRead, HandlerEnds, Beat, Quiet, linkVars
  <1>5. ASSUME ReapHosts \/ \E v \in VM : GuestPowersOff(v) PROVE CallInv'
    BY <1>3, <1>5 DEF ReapHosts, GuestPowersOff, linkVars
  <1>6. ASSUME NEW c \in wire, Execute(c, NewVM) \/ ExecuteFails(c) PROVE CallInv'
    <2>1. wire' = wire \ {c} /\ waiter' = waiter
      BY <1>6 DEF Execute, ExecuteFails
    <2>2. CASE c.awaited
      BY <1>0, <1>6, <2>1, <2>2, AnswerCalls DEF Execute, ExecuteFails, Answer
    <2>3. CASE ~c.awaited
      <3>1. UNCHANGED <<reply, got>>
        BY <1>6, <2>3 DEF Execute, ExecuteFails, Outcome, Answer
      <3>2. FewerAwaited
        BY <2>1 DEF FewerAwaited
      <3> QED BY <1>0, <2>1, <3>1, <3>2, UnansweredCalls
    <2> QED BY <2>2, <2>3
  <1> QED BY <1>1, <1>2, <1>4, <1>5, <1>6 DEF Environment, LinkNext

\* Every step.
LEMMA StepCalls ==
    ASSUME TInv, SyncInv, CallInv, RecordsMatchVMs, [Next]_vars
    PROVE  CallInv' /\ (Environment \/ UNCHANGED vms)
  <1>1. CASE Reconciler
    BY <1>1, LoopAside, WorkAside, CallCalls, AsideCalls DEF Reconciler
  <1>2. CASE Environment
    BY <1>2, EnvironmentCalls
  <1>3. CASE Users \/ UNCHANGED vars
    <2>1. UNCHANGED <<vms, linkVars, recVars>>
      BY <1>3 DEF Users, CreateServer, UpdateServer, BackupServer, Handler, vars
    <2> QED BY <2>1 DEF CallInv, linkVars, recVars, Outstanding, CallOp, GotMine
  <1>4. CASE Crash
    <2>1. wire \in SUBSET Command
      BY DEF TInv, WorldTypeOK, LinkTypeOK
    <2>2. ASSUME NEW d \in wire' PROVE ~d.awaited
      <3>1. PICK c \in wire : d = [c EXCEPT !.awaited = FALSE]
        BY <1>4 DEF Crash
      <3> QED BY <2>1, <3>1 DEF Command
    <2> QED BY <1>4, <2>2 DEF Crash, CallInv
  <1> QED BY <1>1, <1>2, <1>3, <1>4 DEF Next

-----------------------------------------------------------------------------
(* Rows and VMs.                                                           *)

\* Every step keeps rows and VMs matched.
LEMMA StepMatch ==
    ASSUME TInv, SyncInv, CallInv, RecordsMatchVMs, [Next]_vars
    PROVE  RecordsMatchVMs'
  <1>0. rows \in [Server -> Row] /\ RuntimeTypeOK
    BY DEF TInv, WorldTypeOK, RecordsTypeOK
  <1>1. CASE Environment
    <2>1. rows' = rows /\ VMSteps
      BY <1>1, EnvironmentVMs
         DEF Environment, LinkNext, Disconnect, GoSilent, SpeakAgain, AgentRestarts,
             ConnectRead, ConnectRegister, HandlerEnds, Beat, Quiet, ReapHosts, Execute,
             ExecuteFails, GuestPowersOff, StreamLost
    <2>2. \A s \in Server : rows[s].vm \in VM \cup {NoVM} /\ rows[s].vm \notin UnusedVMs
      BY <1>0 DEF Row, UnusedVMs
    <2> QED BY <2>1, <2>2 DEF RecordsMatchVMs, VMSteps
  <1>2. CASE UNCHANGED vms /\ RowSteps
    BY <1>2 DEF RecordsMatchVMs, RowSteps, RowStep
  <1>3. CASE DoMarkRunning
    <2>1. /\ \A s \in Server : rows'[s].host = rows[s].host
          /\ \A s \in Server : rows'[s].vm = rows[s].vm \/ (s = cur /\ rows'[s].vm = got)
      BY <1>3, RunningSync
    <2>2. vms' = vms /\ pc = "markRunning"
      BY <1>3 DEF DoMarkRunning
    <2>3. GotMine /\ rows[cur].host = loc.host
      BY <2>2 DEF CallInv, SyncInv, Tracking, Working, PC
    <2> QED BY <2>1, <2>2, <2>3 DEF RecordsMatchVMs, GotMine
  <1> QED BY <1>1, <1>2, <1>3, StepSync, StepCalls

MatchInv == TInv /\ SyncInv /\ CallInv /\ RecordsMatchVMs

\* MatchInv is inductive.
LEMMA MatchInductive ==
    /\ Init => MatchInv
    /\ MatchInv /\ [Next]_vars => MatchInv'
  <1>1. ASSUME Init PROVE MatchInv
    <2>1. CallInv
      BY <1>1 DEF Init, LinkInit, CallInv
    <2>2. RecordsMatchVMs
      BY <1>1 DEF Init, RecordsInit, Blank, RecordsMatchVMs
    <2> QED BY <1>1, <2>1, <2>2, InitType, InitSync DEF MatchInv
  <1>2. ASSUME MatchInv, [Next]_vars PROVE MatchInv'
    BY <1>2, StepType, StepSync, StepCalls, StepMatch DEF MatchInv
  <1> QED BY <1>1, <1>2

\* A row names a VM of its own server on its own host or one that no longer exists,
\* for any fleet and whatever fails: lost, late and repeated commands, agents and
\* control plane restarting at any point, statements that fail.
THEOREM RecordsAlwaysMatch == Spec => []RecordsMatchVMs
  <1>1. MatchInv => RecordsMatchVMs
    BY DEF MatchInv
  <1> QED BY <1>1, MatchInductive, PTL DEF Spec

\* A provisioned server keeps its host until it is stopped or deleted, for any fleet
\* and whatever fails: dropStalePlacement and place never act on the row of a server
\* that has a VM, although they decide on a copy.
THEOREM AlwaysPinned == Spec => PinnedWhileProvisioned
  <1>1. MatchInv /\ [Next]_vars =>
           [\A s \in Server :
               rows[s].vm # NoVM /\ rows'[s].host # rows[s].host =>
                   rows'[s].vm = NoVM /\ rows'[s].status \in {"stopped", "deleted"}]_vars
    <2> SUFFICES ASSUME MatchInv, [Next]_vars, NEW s \in Server,
                        rows[s].vm # NoVM, rows'[s].host # rows[s].host
                 PROVE  rows'[s].vm = NoVM /\ rows'[s].status \in {"stopped", "deleted"}
      OBVIOUS
    <2>1. RowSteps
      BY StepSync, RunningSync DEF MatchInv
    <2> QED BY <2>1 DEF RowSteps, RowStep
  <1> QED BY <1>1, MatchInductive, PTL DEF Spec, PinnedWhileProvisioned

-----------------------------------------------------------------------------
(* What the rows, the inventory and the meter say of one another.          *)

\* Control points at which an interval is about to be opened or closed.
Closing == {"lostBilling", "stopBilling"}
Meter   == Closing \cup {"startBilling"}

\* Database statements do not fail.
NoDatabaseFaults == "db" \notin FaultKinds

\* The process that knows the hosts does not crash.
NoCrash == "crash" \notin FaultKinds

-----------------------------------------------------------------------------
(* What a step may do to a row.                                            *)

SameLife(s) ==
    rows'[s].created = rows[s].created /\ rows'[s].deleted = rows[s].deleted

\* Status and VM stay; UnassignHost and AssignHost may change the host while there
\* is no VM.
Kept(s) ==
    /\ SameLife(s) /\ rows'[s].status = rows[s].status /\ rows'[s].vm = rows[s].vm
    /\ \/ rows'[s].host = rows[s].host
       \/ /\ rows[s].vm = NoVM
          /\ \/ pc = "unassign" /\ rows'[s].host = NoHost
             \/ pc = "assign" /\ rows'[s].host = target

\* Create.
Born(s) ==
    /\ ~rows[s].created /\ wishes' # wishes
    /\ rows'[s].status = "pending" /\ rows'[s].host = NoHost /\ rows'[s].vm = NoVM

\* MarkStatus.
Relabelled(s) ==
    /\ s = cur /\ pc \in Working \ Meter
    /\ SameLife(s) /\ rows'[s].host = rows[s].host /\ rows'[s].vm = rows[s].vm
    /\ \/ rows'[s].status \in {"provisioning", "stopping", "deleting", "error"}
       \/ rows'[s].status = "unschedulable" /\ rows[s].vm = NoVM

\* MarkLost.
Lost(s) ==
    /\ s = cur /\ cur' = cur /\ pc = "lost" /\ pc' = "lostBilling"
    /\ SameLife(s) /\ rows'[s].host = rows[s].host
    /\ rows'[s].status = "pending" /\ rows'[s].vm = NoVM

\* MarkStopped and SoftDelete.
Downed(s) ==
    /\ s = cur /\ cur' = cur
    /\ pc \in {"markStopped", "softDelete"} /\ pc' = "stopBilling"
    /\ rows'[s].created = rows[s].created
    /\ rows'[s].status \in {"stopped", "deleted"}
    /\ rows'[s].host = NoHost /\ rows'[s].vm = NoVM

\* MarkRunning.
Started(s) ==
    /\ s = cur /\ cur' = cur /\ pc = "markRunning" /\ pc' = "startBilling"
    /\ SameLife(s) /\ rows'[s].host = rows[s].host /\ rows[s].host # NoHost
    /\ rows'[s].status = "running" /\ rows'[s].vm = got /\ got # NoVM

RowLaw ==
    \A s \in Server :
        Kept(s) \/ Born(s) \/ Relabelled(s) \/ Lost(s) \/ Downed(s) \/ Started(s)

\* What a step may do to the meter: nothing, or what its control point says.
MeterLaw ==
    \/ UNCHANGED <<billed, pc, cur>>
    \/ UNCHANGED billed /\ pc \notin Meter /\ pc' \notin Meter
    \/ /\ UNCHANGED billed /\ pc \notin Meter
       /\ cur' = cur /\ cur \in Server
       /\ \/ pc' = "startBilling" /\ Started(cur)
          \/ pc' \in Closing /\ ~(Live(cur)' /\ rows'[cur].status = "running")
    \/ pc = "startBilling" /\ pc' \notin Meter /\ UNCHANGED rows /\ billed' = billed \cup {cur}
    \/ pc \in Closing /\ pc' \notin Meter /\ UNCHANGED rows /\ billed' = billed \ {cur}

\* Steps that write no row.
LEMMA UnwrittenRows ==
    ASSUME UNCHANGED rows
    PROVE  RowLaw
  BY DEF RowLaw, Kept, SameLife

\* A written row, and the others.
LEMMA WrittenRow ==
    ASSUME NEW s \in Server, NEW c, NEW d, NEW st, NEW h, NEW v, Becomes(s, c, d, st, h, v),
           Kept(s) \/ Born(s) \/ Relabelled(s) \/ Lost(s) \/ Downed(s) \/ Started(s)
    PROVE  RowLaw
  BY DEF Becomes, RowLaw, Kept, SameLife

\* The steps of the reconciler that do not write a row.
LEMMA ReadLaws ==
    ASSUME TInv,
           \/ ListRunningServers \/ ProbesDone
           \/ \E s \in Server : ProbeAlive(s) \/ ProbeLost(s) \/ ReconcileNext(s)
           \/ ListReconcilableServers \/ TickDone
           \/ SkipBackup \/ BackupFailed \/ DropStale \/ DropRelease
           \/ (\E h \in Host : Schedule(h)) \/ NoCapacity \/ Unreserve
           \/ ReleaseHost \/ CheckReachable
    PROVE  RowLaw /\ MeterLaw
  <1>1. ASSUME UNCHANGED <<rows, billed>>, pc \notin Meter, pc' \notin Meter
        PROVE  RowLaw /\ MeterLaw
    BY <1>1, UnwrittenRows DEF MeterLaw
  <1>2. CASE ListRunningServers \/ ListReconcilableServers
    BY <1>1, <1>2 DEF ListRunningServers, ListReconcilableServers, Statement, OnRecords,
                      dbVars, List, Goto, Done, Meter, Closing
  <1>3. CASE ProbesDone \/ TickDone \/ SkipBackup \/ DropStale \/ NoCapacity \/ CheckReachable
    BY <1>1, <1>3 DEF ProbesDone, TickDone, SkipBackup, DropStale, NoCapacity,
                      CheckReachable, Local, Goto, Meter, Closing
  <1>4. CASE \E s \in Server : ProbeAlive(s) \/ ProbeLost(s)
    BY <1>1, <1>4 DEF ProbeAlive, ProbeLost, Take, Local, Meter, Closing
  <1>5. \A row : Converge(row) \notin Meter /\ FirstStep(row) \notin Meter
    BY DEF Converge, FirstStep, Meter, Closing
  <1>6. CASE \E s \in Server : ReconcileNext(s)
    BY <1>1, <1>5, <1>6 DEF ReconcileNext, Take, Local, Meter, Closing
  <1>7. CASE BackupFailed
    BY <1>1, <1>5, <1>7 DEF BackupFailed, AfterBackup, Done, Goto, Local, Meter, Closing
  <1>8. CASE DropRelease \/ Unreserve \/ ReleaseHost \/ \E h \in Host : Schedule(h)
    BY <1>1, <1>8 DEF DropRelease, Unreserve, ReleaseHost, Schedule, OnHosts, Goto, Meter,
                      Closing
  <1> QED BY <1>2, <1>3, <1>4, <1>6, <1>7, <1>8

\* The calls.
LEMMA CallLaws ==
    ASSUME TakeBackup \/ ProvisionOrStart \/ StopVM \/ EvictVM \/ DeprovisionVM
    PROVE  RowLaw /\ MeterLaw
  <1>1. ASSUME NEW op, NEW ok, NEW err, Call(op, ok, err), pc \notin Meter,
               ok \notin Meter, err \notin Meter
        PROVE  RowLaw /\ MeterLaw
    <2>1. UNCHANGED <<rows, billed>> /\ (pc' = pc \/ pc' = ok \/ pc' = err)
      BY <1>1 DEF Call, Goto, Local, Send, Return
    <2> QED BY <1>1, <2>1, UnwrittenRows DEF MeterLaw
  <1>2. CASE TakeBackup
    BY <1>1, <1>2 DEF TakeBackup, Meter, Closing
  <1>3. CASE ProvisionOrStart
    BY <1>1, <1>3 DEF ProvisionOrStart, Meter, Closing
  <1>4. CASE StopVM \/ EvictVM \/ DeprovisionVM
    BY <1>1, <1>4 DEF StopVM, EvictVM, DeprovisionVM, Meter, Closing
  <1> QED BY <1>2, <1>3, <1>4

\* Statements on the row in hand: a failed one writes nothing and moves on.
LEMMA LabelLaws ==
    ASSUME TInv, SyncInv,
           \/ DoMarkProvisioning \/ DoMarkStopping \/ DoMarkDeleting
           \/ DoMarkUnschedulable \/ Fail \/ DoMarkBackedUp
    PROVE  RowLaw /\ MeterLaw
  <1>0. RecordsTypeOK
    BY DEF TInv, WorldTypeOK
  <1>1. cur \in Server /\ billed' = billed /\ pc \in Working \ Meter
    BY DEF TInv, RecTypeOK, InHand, Working, PC, DoMarkProvisioning, DoMarkStopping,
           DoMarkDeleting, DoMarkUnschedulable, Fail, DoMarkBackedUp, OnRecords, Meter,
           Closing
  <1>2. pc' \notin Meter
    <2>1. \A row : Converge(row) \notin Meter
      BY DEF Converge, Meter, Closing
    <2>2. CASE DoMarkBackedUp
      BY <2>1, <2>2 DEF DoMarkBackedUp, Statement, AfterBackup, Done, Goto, Meter, Closing
    <2>3. CASE DoMarkUnschedulable \/ Fail
      BY <2>3 DEF DoMarkUnschedulable, Fail, Statement, Done, Goto, Meter, Closing
    <2>4. CASE DoMarkProvisioning \/ DoMarkStopping \/ DoMarkDeleting
      BY <2>4 DEF DoMarkProvisioning, DoMarkStopping, DoMarkDeleting, Statement, Goto,
                  Meter, Closing
    <2> QED BY <2>2, <2>3, <2>4
  <1>3. ASSUME NEW st, MarkStatus(cur, st),
               \/ st \in {"provisioning", "stopping", "deleting", "error"}
               \/ st = "unschedulable" /\ rows[cur].vm = NoVM
        PROVE  RowLaw
    <2>1. Becomes(cur, rows[cur].created, rows[cur].deleted, st, rows[cur].host,
                  rows[cur].vm)
      BY <1>0, <1>1, <1>3, RowEffects
    <2>2. Relabelled(cur)
      BY <1>1, <1>3, <2>1 DEF Becomes, Relabelled, SameLife
    <2> QED BY <1>1, <2>1, <2>2, WrittenRow
  <1>4. ASSUME MarkBackedUp(cur) PROVE RowLaw
    <2>1. Becomes(cur, rows[cur].created, rows[cur].deleted, rows[cur].status,
                  rows[cur].host, rows[cur].vm)
      BY <1>0, <1>1, <1>4, RowEffects
    <2>2. Kept(cur)
      BY <2>1 DEF Becomes, Kept, SameLife
    <2> QED BY <1>1, <2>1, <2>2, WrittenRow
  <1>5. CASE DoMarkBackedUp
    BY <1>1, <1>2, <1>4, <1>5, UnwrittenRows DEF DoMarkBackedUp, Statement, dbVars, MeterLaw
  <1>6. CASE DoMarkUnschedulable
    <2>1. rows[cur].vm = NoVM
      BY <1>6 DEF DoMarkUnschedulable, SyncInv, Tracking, Working, PC, Placing
    <2> QED BY <1>1, <1>2, <1>3, <1>6, <2>1, UnwrittenRows
            DEF DoMarkUnschedulable, Statement, dbVars, MeterLaw
  <1>7. CASE DoMarkProvisioning \/ DoMarkStopping \/ DoMarkDeleting \/ Fail
    BY <1>1, <1>2, <1>3, <1>7, UnwrittenRows
       DEF DoMarkProvisioning, DoMarkStopping, DoMarkDeleting, Fail, Statement, dbVars,
           MeterLaw
  <1> QED BY <1>5, <1>6, <1>7

\* MarkLost, MarkStopped and SoftDelete: an interval is about to be closed.
LEMMA DownLaws ==
    ASSUME TInv, DoMarkLost \/ DoMarkStopped \/ DoSoftDelete
    PROVE  RowLaw /\ MeterLaw
  <1>0. RecordsTypeOK
    BY DEF TInv, WorldTypeOK
  <1>1. cur \in Server /\ billed' = billed /\ pc \notin Meter
    BY DEF TInv, RecTypeOK, InHand, Working, PC, DoMarkLost, DoMarkStopped, DoSoftDelete,
           OnRecords, Meter, Closing
  <1>2. CASE UNCHANGED rows /\ (pc' = "fail" \/ pc' = "probe")
    BY <1>1, <1>2, UnwrittenRows DEF MeterLaw, Meter, Closing
  <1>3. CASE MarkLost(cur) /\ Goto("lostBilling") /\ pc = "lost"
    <2>1. CASE Live(cur) /\ rows[cur].status = "running"
      <3>1. Becomes(cur, rows[cur].created, rows[cur].deleted, "pending", rows[cur].host,
                    NoVM)
        BY <1>0, <1>1, <1>3, <2>1, RowEffects
      <3>2. Lost(cur) /\ rows'[cur].status # "running"
        BY <1>3, <3>1 DEF Becomes, Lost, SameLife, Goto
      <3> QED BY <1>1, <1>3, <3>1, <3>2, WrittenRow DEF MeterLaw, Goto, Closing
    <2>2. CASE ~(Live(cur) /\ rows[cur].status = "running")
      <3>1. rows' = rows
        BY <1>3, <2>2 DEF MarkLost
      <3> QED BY <1>1, <1>3, <2>2, <3>1, UnwrittenRows DEF MeterLaw, Goto, Closing, Live
    <2> QED BY <2>1, <2>2
  <1>4. CASE /\ MarkStopped(cur) \/ SoftDelete(cur)
             /\ pc \in {"markStopped", "softDelete"} /\ Goto("stopBilling")
    <2>1. \E d : \E st \in {"stopped", "deleted"} :
             Becomes(cur, rows[cur].created, d, st, NoHost, NoVM)
      BY <1>0, <1>1, <1>4, RowEffects
    <2>2. Downed(cur) /\ rows'[cur].status # "running"
      BY <1>4, <2>1 DEF Becomes, Downed, Goto
    <2> QED BY <1>1, <1>4, <2>1, <2>2, WrittenRow DEF MeterLaw, Goto, Closing
  <1> QED BY <1>2, <1>3, <1>4 DEF DoMarkLost, DoMarkStopped, DoSoftDelete, Statement, dbVars,
                                  Goto, Done

\* AssignHost, UnassignHost and MarkRunning.
LEMMA UpLaws ==
    ASSUME TInv, SyncInv, CallInv, DoAssign \/ DoUnassign \/ DoMarkRunning
    PROVE  RowLaw /\ MeterLaw
  <1>0. RecordsTypeOK
    BY DEF TInv, WorldTypeOK
  <1>1. cur \in Server /\ billed' = billed /\ pc \notin Meter
    BY DEF TInv, RecTypeOK, InHand, Working, PC, DoAssign, DoUnassign, DoMarkRunning,
           OnRecords, Meter, Closing
  <1>2. CASE UNCHANGED rows /\ (pc' = "fail" \/ pc' = "unreserve")
    BY <1>1, <1>2, UnwrittenRows DEF MeterLaw, Meter, Closing
  <1>3. ASSUME NEW h, AssignHost(cur, h), pc \in {"assign", "unassign"},
               (pc = "unassign" /\ h = NoHost) \/ (pc = "assign" /\ h = target),
               pc' \in {"schedule", "markProvisioning"}
        PROVE  RowLaw /\ MeterLaw
    <2>1. Becomes(cur, rows[cur].created, rows[cur].deleted, rows[cur].status, h,
                  rows[cur].vm)
      BY <1>0, <1>1, <1>3, RowEffects
    <2>2. rows[cur].vm = NoVM
      BY <1>3 DEF SyncInv, Tracking, Working, PC, Placing
    <2>3. Kept(cur)
      BY <1>3, <2>1, <2>2 DEF Becomes, Kept, SameLife
    <2> QED BY <1>1, <1>3, <2>1, <2>3, WrittenRow DEF MeterLaw, Meter, Closing
  <1>4. CASE MarkRunning(cur, got) /\ Goto("startBilling") /\ pc = "markRunning"
    <2>1. Becomes(cur, rows[cur].created, rows[cur].deleted, "running", rows[cur].host, got)
      BY <1>0, <1>1, <1>4, RowEffects
    <2>2. got # NoVM /\ rows[cur].host # NoHost
      BY <1>4, FleetAssumption DEF CallInv, GotMine, SyncInv, Tracking, Working, PC
    <2>3. Started(cur)
      BY <1>1, <1>4, <2>1, <2>2 DEF Becomes, Started, SameLife, Goto
    <2> QED BY <1>1, <1>4, <2>1, <2>3, WrittenRow DEF MeterLaw, Goto
  <1>5. CASE DoAssign
    BY <1>2, <1>3, <1>5 DEF DoAssign, Statement, dbVars, Goto
  <1>6. CASE DoUnassign
    BY <1>2, <1>3, <1>6 DEF DoUnassign, Statement, dbVars, Goto, UnassignHost, AssignHost
  <1>7. CASE DoMarkRunning
    BY <1>2, <1>4, <1>7 DEF DoMarkRunning, Statement, dbVars, Goto
  <1> QED BY <1>5, <1>6, <1>7

\* The steps on the meter, each of which may fail with the database.
LEMMA MeterLaws ==
    ASSUME StartBilling \/ StopBilling \/ LostBilling
    PROVE  RowLaw /\ (NoDatabaseFaults => MeterLaw)
  <1>1. RowLaw
    BY UnwrittenRows DEF StartBilling, StopBilling, LostBilling, CloseInterval
  <1>2. pc' \notin Meter /\ UNCHANGED rows
    BY DEF StartBilling, StopBilling, LostBilling, CloseInterval, Done, Meter, Closing
  <1>3. ASSUME NoDatabaseFaults PROVE MeterLaw
    BY <1>2, <1>3 DEF StartBilling, StopBilling, LostBilling, CloseInterval, Fault, MeterLaw,
                      Closing, NoDatabaseFaults
  <1> QED BY <1>1, <1>3

\* The handlers, the agents and their streams.
LEMMA OutsideLaws ==
    ASSUME TInv, SyncInv, Environment \/ Users \/ Crash \/ UNCHANGED vars
    PROVE  RowLaw /\ (Crash \/ MeterLaw)
  <1>0. RecordsTypeOK
    BY DEF TInv, WorldTypeOK
  <1>1. CASE Environment \/ UNCHANGED vars
    <2>1. UNCHANGED <<rows, billed, pc, cur>>
      BY <1>1 DEF vars, recVars, Environment, LinkNext, Disconnect, GoSilent, SpeakAgain,
                  AgentRestarts, ConnectRead, ConnectRegister, HandlerEnds, Beat,
                  Quiet, ReapHosts, Execute, ExecuteFails, GuestPowersOff, StreamLost
    <2> QED BY <2>1, UnwrittenRows DEF MeterLaw
  <1>2. CASE Crash
    BY <1>2, UnwrittenRows DEF Crash
  <1>3. ASSUME NEW s \in Server, CreateServer(s) \/ UpdateServer(s) \/ BackupServer(s)
        PROVE  RowLaw /\ MeterLaw
    <2>1. UNCHANGED <<billed, pc, cur>>
      BY <1>3 DEF CreateServer, UpdateServer, BackupServer, Handler, recVars
    <2>2. CASE CreateServer(s)
      <3>1. Create(s) /\ ~rows[s].created /\ wishes' # wishes
        BY <2>2, SMT DEF CreateServer, Handler, TInv, WorldTypeOK
      <3>2. Becomes(s, TRUE, FALSE, "pending", NoHost, NoVM)
        BY <1>0, <3>1, RowEffects
      <3>3. Born(s)
        BY <3>1, <3>2 DEF Becomes, Born
      <3> QED BY <2>1, <3>2, <3>3, WrittenRow DEF MeterLaw
    <2>3. CASE UpdateServer(s) \/ BackupServer(s)
      <3>1. UpdateSpec(s) \/ (\E d : SetDesiredState(s, d)) \/ RequestBackup(s)
        BY <2>3 DEF UpdateServer, BackupServer, Handler
      <3>2. Becomes(s, rows[s].created, rows[s].deleted, rows[s].status, rows[s].host,
                    rows[s].vm)
        BY <1>0, <3>1, RowEffects
      <3>3. Kept(s)
        BY <3>2 DEF Becomes, Kept, SameLife
      <3> QED BY <2>1, <3>2, <3>3, WrittenRow DEF MeterLaw
    <2> QED BY <1>3, <2>2, <2>3
  <1> QED BY <1>1, <1>2, <1>3 DEF Users

\* Every step.
LEMMA StepLaws ==
    ASSUME MatchInv, [Next]_vars
    PROVE  RowLaw /\ (NoDatabaseFaults => Crash \/ MeterLaw)
  <1>0. TInv /\ SyncInv /\ CallInv
    BY DEF MatchInv
  <1>1. CASE Reconciler
    BY <1>0, <1>1, ReadLaws, CallLaws, LabelLaws, DownLaws, UpLaws, MeterLaws
       DEF Reconciler
  <1>2. CASE Environment \/ Users \/ Crash \/ UNCHANGED vars
    BY <1>0, <1>2, OutsideLaws
  <1> QED BY <1>1, <1>2 DEF Next

-----------------------------------------------------------------------------
(* Running servers, the listed ones among them, and the hosts of rows.     *)

Probing == {"probe", "lost", "lostBilling"}

\* A running server has a VM and a host; so has each that is still to be probed.
RunInv ==
    /\ \A s \in Server :
          rows[s].status = "running" => rows[s].vm # NoVM /\ rows[s].host # NoHost
    /\ pc \in Probing => \A s \in todo : snap[s].vm # NoVM /\ snap[s].host # NoHost

\* The inventory knows the hosts that rows are, or are about to be, assigned to.
KnownInv ==
    /\ \A s \in Server : rows[s].host # NoHost => hosts[rows[s].host].known
    /\ pc \in {"assign", "unreserve"} => target \in Host /\ hosts[target].known

\* Where the copies to be probed come from.
SnapLaw ==
    pc' \in Probing =>
        \/ pc \in Probing /\ \A s \in todo' : s \in todo /\ snap'[s] = snap[s]
        \/ todo' \subseteq Server /\ UNCHANGED rows
           /\ \A s \in todo' : snap'[s] = rows[s] /\ rows[s].status = "running"

\* Where a reservation comes from, and that hosts are not forgotten.
HostLaw ==
    /\ \A h \in Host : hosts[h].known => hosts'[h].known
    /\ pc' \in {"assign", "unreserve"} =>
          \/ pc \in {"assign", "unreserve"} /\ target' = target
          \/ target' \in Host /\ hosts[target'].known

\* checkLiveness and the main loop.
LEMMA LoopMoves ==
    ASSUME TInv,
           \/ ListRunningServers \/ ProbesDone \/ DoMarkLost \/ LostBilling
           \/ \E s \in Server : ProbeAlive(s) \/ ProbeLost(s) \/ ReconcileNext(s)
           \/ ListReconcilableServers \/ TickDone \/ Fail
    PROVE  SnapLaw /\ HostLaw
  <1>0. snap \in [Server -> Row] /\ todo \in SUBSET Server
    BY DEF TInv, RecTypeOK
  <1>1. hosts' = hosts
    BY DEF ListRunningServers, ProbesDone, DoMarkLost, LostBilling, ProbeAlive, ProbeLost,
           ReconcileNext, ListReconcilableServers, TickDone, Fail, OnRecords, Local,
           CloseInterval
  <1>2. ASSUME pc' \notin Probing, pc' \notin {"assign", "unreserve"}
        PROVE  SnapLaw /\ HostLaw
    BY <1>1, <1>2 DEF SnapLaw, HostLaw
  <1>3. ASSUME pc \in Probing, pc' \in Probing,
               \A s \in todo' : s \in todo /\ snap'[s] = snap[s]
        PROVE  SnapLaw /\ HostLaw
    BY <1>1, <1>3 DEF SnapLaw, HostLaw, Probing
  <1>4. CASE ListRunningServers
    <2>1. CASE List(ListRunning, "probe") /\ UNCHANGED rows
      <3>1. \A s \in ListRunning : s \in Server /\ rows[s].status = "running"
        BY DEF ListRunning, Oldest
      <3> QED BY <1>1, <2>1, <3>1 DEF List, SnapLaw, HostLaw
    <2>2. CASE Goto("list")
      BY <1>2, <2>2 DEF Goto, Probing
    <2> QED BY <1>4, <2>1, <2>2 DEF ListRunningServers, Statement, dbVars
  <1>5. CASE DoMarkLost \/ LostBilling
    BY <1>3, <1>5 DEF DoMarkLost, LostBilling, CloseInterval, Statement, Goto, Done, Probing
  <1>6. CASE \E s \in Server : ProbeAlive(s)
    BY <1>0, <1>3, <1>6 DEF ProbeAlive, Probing
  <1>7. CASE \E s \in Server : ProbeLost(s)
    BY <1>0, <1>3, <1>7 DEF ProbeLost, Take, Probing
  <1>8. CASE \E s \in Server : ReconcileNext(s)
    <2>1. \A row : FirstStep(row) \notin Probing /\ FirstStep(row) \notin {"assign", "unreserve"}
      BY DEF FirstStep, Converge, Probing
    <2> QED BY <1>2, <1>8, <2>1 DEF ReconcileNext, Take
  <1>9. CASE ProbesDone \/ TickDone \/ ListReconcilableServers \/ Fail
    BY <1>2, <1>9 DEF ProbesDone, TickDone, ListReconcilableServers, Fail, Statement, Goto,
                      Done, List, Probing
  <1> QED BY <1>4, <1>5, <1>6, <1>7, <1>8, <1>9

\* The statements and local steps of backup, start, stop and delete.
LEMMA WorkMoves ==
    ASSUME \/ SkipBackup \/ BackupFailed \/ DoMarkBackedUp \/ DropStale \/ DoUnassign
           \/ NoCapacity \/ DoMarkUnschedulable \/ DoAssign
           \/ DoMarkProvisioning \/ DoMarkRunning \/ StartBilling
           \/ DoMarkStopping \/ DoMarkStopped \/ StopBilling
           \/ DoMarkDeleting \/ CheckReachable \/ DoSoftDelete
    PROVE  SnapLaw /\ HostLaw
  <1>1. hosts' = hosts
    BY DEF SkipBackup, BackupFailed, DoMarkBackedUp, DropStale, DoUnassign, NoCapacity,
           DoMarkUnschedulable, DoAssign, DoMarkProvisioning, DoMarkRunning, StartBilling,
           DoMarkStopping, DoMarkStopped, StopBilling, DoMarkDeleting, CheckReachable,
           DoSoftDelete, Local, OnRecords, CloseInterval
  <1>2. ASSUME pc' \notin Probing,
               \/ pc' \notin {"assign", "unreserve"}
               \/ pc \in {"assign", "unreserve"} /\ target' = target
        PROVE  SnapLaw /\ HostLaw
    BY <1>1, <1>2 DEF SnapLaw, HostLaw
  <1>3. CASE BackupFailed \/ DoMarkBackedUp
    <2>1. AfterBackup
      BY <1>3 DEF BackupFailed, DoMarkBackedUp, Statement
    <2>2. Converge(loc) \notin Probing /\ Converge(loc) \notin {"assign", "unreserve"}
      BY DEF Converge, Probing
    <2> QED BY <1>2, <2>1, <2>2 DEF AfterBackup, Done, Goto, Probing
  <1>4. CASE SkipBackup \/ DropStale \/ DoUnassign \/ NoCapacity \/ CheckReachable
    BY <1>2, <1>4 DEF SkipBackup, DropStale, DoUnassign, NoCapacity, CheckReachable,
                      Statement, Goto, Probing
  <1>5. CASE DoMarkUnschedulable \/ DoAssign \/ DoMarkProvisioning
    BY <1>2, <1>5 DEF DoMarkUnschedulable, DoAssign, DoMarkProvisioning, Statement, Goto,
                      Done, Probing
  <1>6. CASE DoMarkRunning \/ StartBilling \/ StopBilling
    BY <1>2, <1>6 DEF DoMarkRunning, StartBilling, StopBilling, CloseInterval, Statement,
                      Goto, Done, Probing
  <1>7. CASE DoMarkStopping \/ DoMarkStopped \/ DoMarkDeleting \/ DoSoftDelete
    BY <1>2, <1>7 DEF DoMarkStopping, DoMarkStopped, DoMarkDeleting, DoSoftDelete, Statement,
                      Goto, Probing
  <1> QED BY <1>3, <1>4, <1>5, <1>6, <1>7

\* The calls to agents.
LEMMA CallMoves ==
    ASSUME TakeBackup \/ ProvisionOrStart \/ StopVM \/ EvictVM \/ DeprovisionVM
    PROVE  SnapLaw /\ HostLaw
  <1>1. ASSUME NEW op, NEW ok, NEW err, Call(op, ok, err),
               pc \notin Probing \cup {"assign", "unreserve"},
               ok \notin Probing \cup {"assign", "unreserve"},
               err \notin Probing \cup {"assign", "unreserve"}
        PROVE  SnapLaw /\ HostLaw
    <2>1. hosts' = hosts /\ (pc' = pc \/ pc' = ok \/ pc' = err)
      BY <1>1 DEF Call, Goto, Local, Send, Return
    <2> QED BY <1>1, <2>1 DEF SnapLaw, HostLaw
  <1>2. CASE TakeBackup
    BY <1>1, <1>2 DEF TakeBackup, Probing
  <1>3. CASE ProvisionOrStart
    BY <1>1, <1>3 DEF ProvisionOrStart, Probing
  <1>4. CASE StopVM \/ EvictVM \/ DeprovisionVM
    BY <1>1, <1>4 DEF StopVM, EvictVM, DeprovisionVM, Probing
  <1> QED BY <1>2, <1>3, <1>4

\* The steps that book capacity.
LEMMA BookMoves ==
    ASSUME TInv, DropRelease \/ Unreserve \/ ReleaseHost \/ \E h \in Host : Schedule(h)
    PROVE  SnapLaw /\ HostLaw
  <1>0. HostsTypeOK /\ cur \in Server /\ Demand[cur] \in Amount
    BY FleetAssumption DEF TInv, WorldTypeOK, RecTypeOK, InHand, Working, PC, DropRelease,
       Unreserve, ReleaseHost, Schedule
  <1>1. ASSUME NEW h, Release(h, Demand[cur])
        PROVE  \A g \in Host : hosts[g].known => hosts'[g].known
    <2>1. CASE h \in Host
      BY <1>0, <1>1, <2>1, ReleaseBooks
    <2>2. CASE h \notin Host
      BY <1>0, <1>1, <2>2 DEF Release, HostsTypeOK
    <2> QED BY <2>1, <2>2
  <1>2. CASE DropRelease \/ Unreserve \/ ReleaseHost
    BY <1>1, <1>2 DEF DropRelease, Unreserve, ReleaseHost, Goto, SnapLaw, HostLaw, Probing
  <1>3. ASSUME NEW h \in Host, Schedule(h) PROVE SnapLaw /\ HostLaw
    <2>1. hosts[h].known /\ \A g \in Host : hosts'[g].known = hosts[g].known
      BY <1>0, <1>3, ReserveBooks DEF Schedule
    <2> QED BY <1>3, <2>1 DEF Schedule, SnapLaw, HostLaw, Probing
  <1> QED BY <1>2, <1>3

\* The handlers, the agents and their streams.
LEMMA OutsideMoves ==
    ASSUME TInv, Environment \/ Users \/ UNCHANGED vars
    PROVE  SnapLaw /\ HostLaw
  <1>0. HostsTypeOK /\ LinkTypeOK
    BY DEF TInv, WorldTypeOK
  <1>1. UNCHANGED recVars
    BY DEF Environment, Users, CreateServer, UpdateServer, BackupServer, Handler, vars
  <1>2. ASSUME \A h \in Host : hosts[h].known => hosts'[h].known
        PROVE  SnapLaw /\ HostLaw
    BY <1>1, <1>2 DEF recVars, SnapLaw, HostLaw
  <1>3. CASE UNCHANGED hosts
    BY <1>2, <1>3
  <1>4. ASSUME NEW h \in Host, ConnectRegister(h) PROVE SnapLaw /\ HostLaw
    <2>1. PICK used \in joining[h] : RegisterReserved(h, HostCapacity[h], used)
      BY <1>4 DEF ConnectRegister
    <2>2. used \in Amount /\ HostCapacity[h] \in Amount
      BY <1>0, RuntimeAssumption DEF LinkTypeOK
    <2> QED BY <1>0, <1>2, <2>1, <2>2, RegisterBooks
  <1>5. CASE \/ ReapHosts
             \/ \E h \in Host : HandlerEnds(h) \/ Beat(h) \/ Quiet(h)
    <2>1. SameBooks
      BY <1>0, <1>5, StatusBooks DEF ReapHosts, HandlerEnds, Beat, Quiet
    <2> QED BY <1>2, <2>1 DEF SameBooks
  <1>6. CASE Users \/ UNCHANGED vars
    BY <1>3, <1>6 DEF Users, CreateServer, UpdateServer, BackupServer, Handler, vars
  <1>7. CASE Environment
    BY <1>3, <1>4, <1>5, <1>7
       DEF Environment, LinkNext, Disconnect, GoSilent, SpeakAgain, AgentRestarts,
           ConnectRead, Execute, ExecuteFails, GuestPowersOff, StreamLost
  <1> QED BY <1>6, <1>7

\* Every step but a crash.
LEMMA StepMoves ==
    ASSUME TInv, [Next]_vars
    PROVE  (SnapLaw /\ HostLaw) \/ Crash
  <1>1. CASE Reconciler
    BY <1>1, LoopMoves, WorkMoves, CallMoves, BookMoves DEF Reconciler
  <1>2. CASE Environment \/ Users \/ UNCHANGED vars
    BY <1>2, OutsideMoves
  <1> QED BY <1>1, <1>2 DEF Next

-----------------------------------------------------------------------------
(* A server about to be placed is nowhere.                                 *)

Homeless == pc \in {"schedule", "assign"} => loc.host = NoHost

\* The reconciler enters start at schedule only for a row without a host.
LEMMA ConvergeHomeless ==
    ASSUME NEW row
    PROVE  /\ Converge(row) = "schedule" => row.host = NoHost
           /\ FirstStep(row) = "schedule" => row.host = NoHost
           /\ Converge(row) # "assign" /\ FirstStep(row) # "assign"
  BY DEF Converge, FirstStep

\* A call ends at one of its two continuations, or is under way: no call leads to
\* schedule or assign.
LEMMA CallHomeless ==
    ASSUME NEW op, NEW ok, NEW err, Call(op, ok, err),
           pc \notin {"schedule", "assign"}, ok \notin {"schedule", "assign"},
           err \notin {"schedule", "assign"}
    PROVE  Homeless'
  <1>1. pc' = pc \/ pc' = ok \/ pc' = err
    BY SMTT(20) DEF Call, Goto, Send, Return
  <1> QED BY <1>1 DEF Homeless

\* The steps of the main loop and of the liveness probes.
LEMMA LoopHomeless ==
    ASSUME \/ ListRunningServers \/ ProbesDone \/ DoMarkLost \/ LostBilling
           \/ \E s \in Server : ProbeAlive(s) \/ ProbeLost(s) \/ ReconcileNext(s)
           \/ ListReconcilableServers \/ TickDone \/ Fail
    PROVE  Homeless'
  <1>1. CASE ListRunningServers \/ ListReconcilableServers \/ DoMarkLost \/ Fail
    BY <1>1 DEF ListRunningServers, ListReconcilableServers, DoMarkLost, Fail, Statement,
                List, Goto, Done, Homeless
  <1>2. CASE ProbesDone \/ LostBilling \/ TickDone
    BY <1>2 DEF ProbesDone, LostBilling, CloseInterval, TickDone, Goto, Done, Homeless
  <1>3. CASE \E s \in Server : ProbeAlive(s) \/ ProbeLost(s)
    BY <1>3 DEF ProbeAlive, ProbeLost, Take, Homeless
  <1>4. CASE \E s \in Server : ReconcileNext(s)
    BY <1>4, ConvergeHomeless DEF ReconcileNext, Take, Homeless
  <1> QED BY <1>1, <1>2, <1>3, <1>4

\* The steps of backup, start, stop and delete.
LEMMA WorkHomeless ==
    ASSUME TInv, Homeless,
           \/ SkipBackup \/ TakeBackup \/ BackupFailed \/ DoMarkBackedUp
           \/ DropStale \/ DropRelease \/ DoUnassign
           \/ \E h \in Host : Schedule(h)
           \/ NoCapacity \/ DoMarkUnschedulable \/ DoAssign \/ Unreserve
           \/ DoMarkProvisioning \/ ProvisionOrStart \/ DoMarkRunning \/ StartBilling
           \/ DoMarkStopping \/ StopVM \/ EvictVM \/ ReleaseHost \/ DoMarkStopped
           \/ StopBilling
           \/ DoMarkDeleting \/ DeprovisionVM \/ CheckReachable \/ DoSoftDelete
    PROVE  Homeless'
  <1>1. CASE TakeBackup \/ ProvisionOrStart \/ StopVM \/ EvictVM \/ DeprovisionVM
    <2>1. CASE TakeBackup
      <3>1. pc = "backup" /\ Call("snapshot", "markBackedUp", "backupFailed")
        BY <2>1 DEF TakeBackup
      <3> QED BY <3>1, CallHomeless, SMT
    <2>2. CASE ProvisionOrStart
      BY <2>2, CallHomeless, SMT DEF ProvisionOrStart
    <2>3. CASE StopVM \/ EvictVM \/ DeprovisionVM
      BY <2>3, CallHomeless, SMT DEF StopVM, EvictVM, DeprovisionVM
    <2> QED BY <1>1, <2>1, <2>2, <2>3
  <1>2. CASE BackupFailed \/ DoMarkBackedUp
    <2>1. AfterBackup
      BY <1>2 DEF BackupFailed, DoMarkBackedUp, Statement
    <2> QED BY <2>1, ConvergeHomeless DEF AfterBackup, Done, Goto, Homeless
  <1>3. CASE DoUnassign
    <2>1. loc \in Row
      BY DEF TInv, RecTypeOK
    <2> QED BY <1>3, <2>1 DEF DoUnassign, Statement, Goto, Homeless, Row
  <1>4. CASE \E h \in Host : Schedule(h)
    BY <1>4 DEF Schedule, Homeless
  <1>5. CASE SkipBackup \/ DropStale \/ DropRelease \/ NoCapacity \/ Unreserve
    BY <1>5 DEF SkipBackup, DropStale, DropRelease, NoCapacity, Unreserve, Goto, Homeless
  <1>6. CASE DoMarkUnschedulable \/ DoAssign \/ DoMarkProvisioning \/ DoMarkRunning
    BY <1>6 DEF DoMarkUnschedulable, DoAssign, DoMarkProvisioning, DoMarkRunning,
                Statement, Goto, Done, Homeless
  <1>7. CASE StartBilling \/ StopBilling
    BY <1>7 DEF StartBilling, StopBilling, CloseInterval, Done, Homeless
  <1>8. CASE DoMarkStopping \/ DoMarkStopped \/ DoMarkDeleting \/ DoSoftDelete
    BY <1>8 DEF DoMarkStopping, DoMarkStopped, DoMarkDeleting, DoSoftDelete, Statement,
                Goto, Homeless
  <1>9. CASE ReleaseHost \/ CheckReachable
    BY <1>9 DEF ReleaseHost, CheckReachable, Goto, Homeless
  <1> QED BY <1>1, <1>2, <1>3, <1>4, <1>5, <1>6, <1>7, <1>8, <1>9

\* Every step.
LEMMA StepHomeless ==
    ASSUME TInv, Homeless, [Next]_vars
    PROVE  Homeless'
  <1>1. CASE Reconciler
    BY <1>1, LoopHomeless, WorkHomeless DEF Reconciler
  <1>2. CASE Environment \/ Users \/ UNCHANGED vars
    <2>1. UNCHANGED <<pc, loc>>
      BY <1>2 DEF Environment, Users, CreateServer, UpdateServer, BackupServer, Handler,
                  recVars, vars
    <2> QED BY <2>1 DEF Homeless
  <1>3. CASE Crash
    BY <1>3 DEF Crash, Homeless
  <1> QED BY <1>1, <1>2, <1>3 DEF Next

-----------------------------------------------------------------------------
(* The theorems.                                                           *)

\* A running server has a VM and a host, whatever fails.
LEMMA StepRun ==
    ASSUME MatchInv, RunInv, [Next]_vars
    PROVE  RunInv'
  <1>0. TInv /\ todo \in SUBSET Server
    BY DEF MatchInv, TInv, RecTypeOK
  <1>1. ASSUME NEW s \in Server, rows'[s].status = "running"
        PROVE  rows'[s].vm # NoVM /\ rows'[s].host # NoHost
    <2>1. Kept(s) \/ Started(s)
      BY <1>1, StepLaws DEF RowLaw, Born, Relabelled, Lost, Downed
    <2> QED BY <1>1, <2>1 DEF RunInv, Kept, Started
  <1>2. ASSUME pc' \in Probing, NEW s \in todo'
        PROVE  snap'[s].vm # NoVM /\ snap'[s].host # NoHost
    <2>1. CASE Crash
      BY <1>2, <2>1 DEF Crash, Probing
    <2>2. CASE SnapLaw
      BY <1>2, <2>2 DEF SnapLaw, RunInv
    <2> QED BY <1>0, <2>1, <2>2, StepMoves
  <1> QED BY <1>1, <1>2 DEF RunInv

\* Within one life of the process the hosts of rows are known.
LEMMA StepKnown ==
    ASSUME NoCrash, MatchInv, KnownInv, [Next]_vars
    PROVE  KnownInv'
  <1>0. TInv /\ rows \in [Server -> Row]
    BY DEF MatchInv, TInv, WorldTypeOK, RecordsTypeOK
  <1>1. HostLaw
    BY <1>0, StepMoves DEF Crash, Fault, NoCrash
  <1>2. ASSUME NEW s \in Server, rows'[s].host # NoHost
        PROVE  hosts'[rows'[s].host].known
    <2>1. \/ rows'[s].host = rows[s].host
          \/ pc = "assign" /\ rows'[s].host = target
      BY <1>2, StepLaws DEF RowLaw, Kept, Born, Relabelled, Lost, Downed, Started
    <2>2. rows'[s].host \in Host /\ hosts[rows'[s].host].known
      BY <1>0, <1>2, <2>1 DEF KnownInv, Row
    <2> QED BY <1>1, <2>2 DEF HostLaw
  <1>3. ASSUME pc' \in {"assign", "unreserve"}
        PROVE  target' \in Host /\ hosts'[target'].known
    BY <1>1, <1>3 DEF HostLaw, KnownInv
  <1> QED BY <1>2, <1>3 DEF KnownInv

GraceInv == MatchInv /\ RunInv /\ KnownInv

\* A server whose VM runs is given up only when its host has been out of touch past
\* hostDeadAfter, within one life of the control plane, for any fleet, any loss of
\* streams and replies, and also when statements fail: a probe acts on a copy, and
\* the copy names the VM and a host that the inventory knows.
THEOREM LostAfterGrace ==
    ASSUME NoCrash
    PROVE  Spec => LostOnlyAfterGrace
  <1>1. Init => GraceInv
    <2> SUFFICES ASSUME Init PROVE RunInv /\ KnownInv
      BY MatchInductive DEF GraceInv
    <2> QED BY DEF Init, RecordsInit, Blank, RunInv, KnownInv, Probing
  <1>2. GraceInv /\ [Next]_vars => GraceInv'
    BY MatchInductive, StepRun, StepKnown DEF GraceInv
  <1>3. GraceInv /\ [Next]_vars =>
           [pc = "probe" /\ pc' = "lost" =>
               \/ StatusOf(loc'.host, loc'.vm) # "running"
               \/ hosts[loc'.host].age = Dead]_vars
    <2> SUFFICES ASSUME GraceInv, Next, pc = "probe", pc' = "lost"
                 PROVE  \/ StatusOf(loc'.host, loc'.vm) # "running"
                        \/ hosts[loc'.host].age = Dead
      BY DEF vars
    <2>1. PICK s \in Server : ProbeLost(s)
      <3>1. CASE Reconciler
        BY <3>1 DEF Reconciler, ListRunningServers, ProbesDone, DoMarkLost, LostBilling,
             ProbeAlive, ProbeLost, ReconcileNext, ListReconcilableServers, TickDone, Fail,
             SkipBackup, TakeBackup, BackupFailed, DoMarkBackedUp, DropStale, DropRelease,
             DoUnassign, Schedule, NoCapacity, DoMarkUnschedulable, DoAssign, Unreserve,
             DoMarkProvisioning, ProvisionOrStart, DoMarkRunning, StartBilling,
             DoMarkStopping, StopVM, EvictVM, ReleaseHost, DoMarkStopped, StopBilling,
             DoMarkDeleting, DeprovisionVM, CheckReachable, DoSoftDelete, Goto
      <3>2. CASE Environment \/ Users \/ Crash
        BY <3>2 DEF Environment, Users, CreateServer, UpdateServer, BackupServer, Handler,
             recVars, Crash
      <3> QED BY <3>1, <3>2 DEF Next
    <2>2. s \in todo /\ loc' = snap[s]
      BY <2>1 DEF ProbeLost, Take
    <2>3. snap[s].vm # NoVM /\ snap[s].host # NoHost
      BY <2>2 DEF GraceInv, RunInv, Probing
    <2>4. hosts[snap[s].host].known
      BY <2>2, <2>3 DEF GraceInv, MatchInv, SyncInv, KnownInv
    <2> QED BY <2>1, <2>2, <2>3, <2>4 DEF ProbeLost, ProbeResult, PresumedDead,
                                          HostDeadTooLong
  <1> QED BY <1>1, <1>2, <1>3, PTL DEF Spec, LostOnlyAfterGrace

\* The interval of a server is open from MarkRunning to the row that ends the run,
\* or about to be opened or closed.
BillInv ==
    /\ RunningIsBilled
    /\ \A s \in billed :
          /\ rows[s].created
          /\ \/ cur = s /\ pc \in Closing
             \/ /\ ~rows[s].deleted /\ rows[s].vm # NoVM
                /\ rows[s].status \notin {"stopped", "pending", "unschedulable"}
    /\ pc \in Closing => ~(Live(cur) /\ rows[cur].status = "running")
    /\ pc = "startBilling" => rows[cur].status = "running" /\ rows[cur].vm # NoVM

\* Every step keeps BillInv: the row and the meter are written in two steps.
LEMMA StepBill ==
    ASSUME NoCrash, NoDatabaseFaults, MatchInv, BillInv, [Next]_vars
    PROVE  BillInv'
  <1>0. /\ RowLaw /\ MeterLaw
        /\ billed \in SUBSET Server /\ (pc \in Meter => cur \in Server)
    BY StepLaws DEF Crash, Fault, NoCrash, MatchInv, TInv, WorldTypeOK, RecTypeOK, InHand,
                    Working, PC, Meter, Closing
  <1>1. pc = "startBilling" => Live(cur)
    BY DEF MatchInv, SyncInv, Tracking, Working, PC
  <1>2. UNCHANGED rows => \A s \in Server : Kept(s)
    BY DEF Kept, SameLife
  <1>3. RunningIsBilled'
    <2> SUFFICES ASSUME NEW s \in Server, Live(s)', rows'[s].status = "running",
                        ~Started(s)
                 PROVE  s \in billed' \/ (cur' = s /\ pc' = "startBilling")
      BY DEF RunningIsBilled, Started
    <2>1. Live(s) /\ rows[s].status = "running"
      BY <1>0 DEF RowLaw, Kept, SameLife, Born, Relabelled, Lost, Downed, Live
    <2>2. s \in billed \/ (cur = s /\ pc = "startBilling")
      BY <2>1 DEF BillInv, RunningIsBilled
    <2>3. pc \in Closing => s # cur
      BY <2>1 DEF BillInv
    <2> QED BY <1>0, <2>2, <2>3 DEF MeterLaw, Meter
  <1>4. ASSUME NEW s \in billed'
        PROVE  /\ rows'[s].created
               /\ \/ cur' = s /\ pc' \in Closing
                  \/ /\ ~rows'[s].deleted /\ rows'[s].vm # NoVM
                     /\ rows'[s].status \notin {"stopped", "pending", "unschedulable"}
    <2>1. s \in billed \/ (s = cur /\ pc = "startBilling")
      BY <1>0, <1>4 DEF MeterLaw
    <2>2. s \in Server /\ rows[s].created
      BY <1>0, <1>1, <2>1 DEF BillInv, Live, Meter
    <2>3. CASE cur = s /\ pc \in Closing
      <3>1. UNCHANGED <<billed, pc, cur>>
        BY <1>0, <1>4, <2>3 DEF MeterLaw, Meter, Closing
      <3>2. rows'[s].created
        BY <1>0, <2>2 DEF RowLaw, Kept, SameLife, Born, Relabelled, Lost, Downed, Started
      <3> QED BY <2>3, <3>1, <3>2
    <2>4. CASE ~(cur = s /\ pc \in Closing)
      <3>1. /\ ~rows[s].deleted /\ rows[s].vm # NoVM
            /\ rows[s].status \notin {"stopped", "pending", "unschedulable"}
        BY <1>1, <2>1, <2>4 DEF BillInv, Live
      <3>2. Kept(s) \/ Relabelled(s) \/ Lost(s) \/ Downed(s) \/ Started(s)
        BY <1>0, <2>2 DEF RowLaw, Born
      <3> QED BY <2>2, <3>1, <3>2 DEF Kept, SameLife, Relabelled, Lost, Downed, Started,
                                      Closing
    <2> QED BY <2>3, <2>4
  <1>5. ASSUME pc' \in Closing PROVE ~(Live(cur)' /\ rows'[cur'].status = "running")
    <2>1. CASE UNCHANGED <<billed, pc, cur>>
      <3>1. cur \in Server /\ ~(Live(cur) /\ rows[cur].status = "running")
        BY <1>0, <1>5, <2>1 DEF BillInv, Meter
      <3>2. Kept(cur) \/ Born(cur) \/ Lost(cur) \/ Downed(cur)
        BY <1>0, <1>5, <2>1, <3>1 DEF RowLaw, Relabelled, Started, Meter
      <3> QED BY <2>1, <3>1, <3>2 DEF Kept, SameLife, Born, Lost, Downed, Live
    <2>2. CASE ~UNCHANGED <<billed, pc, cur>>
      BY <1>0, <1>5, <2>2 DEF MeterLaw, Meter, Closing, Live
    <2> QED BY <2>1, <2>2
  <1>6. ASSUME pc' = "startBilling"
        PROVE  rows'[cur'].status = "running" /\ rows'[cur'].vm # NoVM
    <2>1. CASE UNCHANGED <<billed, pc, cur>>
      <3>1. cur \in Server /\ Live(cur) /\ rows[cur].status = "running" /\ rows[cur].vm # NoVM
        BY <1>0, <1>1, <1>6, <2>1 DEF BillInv, Meter
      <3>2. Kept(cur)
        BY <1>0, <1>6, <2>1, <3>1
           DEF RowLaw, Born, Relabelled, Lost, Downed, Started, Meter, Live
      <3> QED BY <2>1, <3>1, <3>2 DEF Kept
    <2>2. CASE ~UNCHANGED <<billed, pc, cur>>
      BY <1>0, <1>6, <2>2 DEF MeterLaw, Meter, Closing, Started
    <2> QED BY <2>1, <2>2
  <1> QED BY <1>3, <1>4, <1>5, <1>6 DEF BillInv

\* BillInv holds, as long as statements do not fail (the meter's failures are logged
\* and not repeated) and the process does not crash between the row and the meter.
LEMMA BillInductive ==
    ASSUME NoCrash, NoDatabaseFaults
    PROVE  /\ Init => MatchInv /\ BillInv
           /\ MatchInv /\ BillInv /\ [Next]_vars => (MatchInv /\ BillInv)'
  <1>1. ASSUME Init PROVE BillInv
    BY <1>1 DEF Init, RecordsInit, Blank, BillInv, RunningIsBilled, Live, Closing
  <1> QED BY <1>1, MatchInductive, StepBill

\* A running server is billed, for any fleet and any loss of hosts, streams and
\* replies: the interval is opened in the step after MarkRunning and closed only
\* after the row has ceased to be running.
THEOREM RunningAlwaysBilled ==
    ASSUME NoCrash, NoDatabaseFaults
    PROVE  Spec => []RunningIsBilled
  <1>1. BillInv => RunningIsBilled
    BY DEF BillInv
  <1> QED BY <1>1, BillInductive, PTL DEF Spec

\* A server that was stopped, lost or deleted is not billed, except between the
\* write of its row and the step on the meter: no path from running to a row that is
\* down leaves out the meter.
THEOREM DownNeverBilled ==
    ASSUME NoCrash, NoDatabaseFaults
    PROVE  Spec => []DownIsNotBilled
  <1>1. BillInv => DownIsNotBilled
    BY DEF BillInv, DownIsNotBilled, Closing
  <1> QED BY <1>1, BillInductive, PTL DEF Spec
=============================================================================
