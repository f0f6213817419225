------------------------- MODULE ControlPlaneProofs -------------------------
(***************************************************************************)
(* Type correctness of the control plane, for any number of servers,       *)
(* hosts, VMs, faults and user requests.                                   *)
(***************************************************************************)
EXTENDS ControlPlane, HostInventoryProofs

\* Steps are first-order unless they say SMT.
USE Zenon

-----------------------------------------------------------------------------
(* Types.  TypeOK is inductive together with the fact that the reconciler  *)
(* has a server in hand wherever it acts on one.                           *)

\* Control points at which the reconciler works on the server cur.
Working == PC \ {"idle", "probe", "list", "next"}

InHand == pc \in Working => cur \in Server

\* The reconciler's variables ...
RecTypeOK == /\ pc \in PC
             /\ todo \in SUBSET Server
             /\ snap \in [Server -> Row]
             /\ cur \in Server \cup {NoServer}
             /\ loc \in Row
             /\ target \in Host \cup {NoHost}
             /\ waiting \in BOOLEAN
             /\ InHand

\* ... and everything else.
WorldTypeOK == /\ HostsTypeOK /\ RecordsTypeOK /\ RuntimeTypeOK /\ LinkTypeOK
               /\ billed \in SUBSET Server
               /\ wishes \in Nat

TInv == WorldTypeOK /\ RecTypeOK

\* A row as Create inserts it is a row.
LEMMA BlankType == Blank \in Row /\ Empty \in [Server -> Row]
  BY DEF Blank, Empty, Row, Desired, Status

\* The step forms keep the reconciler's variables well typed.
LEMMA GotoType ==
    ASSUME RecTypeOK, NEW p \in PC, p \in Working => cur \in Server, Goto(p)
    PROVE  RecTypeOK'
  BY DEF RecTypeOK, InHand, Goto

\* Dropping the server in hand does.
LEMMA DoneType ==
    ASSUME RecTypeOK, NEW p \in PC, p \notin Working, Done(p)
    PROVE  RecTypeOK'
  BY BlankType DEF RecTypeOK, InHand, Done

\* Taking one does.
LEMMA TakeType ==
    ASSUME RecTypeOK, NEW s \in Server, NEW p \in PC, Take(s, p)
    PROVE  RecTypeOK'
  <1>1. snap' \in [Server -> Row]
    BY BlankType DEF RecTypeOK, Take
  <1> QED BY <1>1 DEF RecTypeOK, InHand, Take

\* A list query does.
LEMMA ListType ==
    ASSUME RecTypeOK, RecordsTypeOK, NEW S \in SUBSET Server, NEW p \in PC,
           p \notin Working, List(S, p)
    PROVE  RecTypeOK'
  <1>1. snap' \in [Server -> Row]
    BY BlankType DEF RecordsTypeOK, List
  <1> QED BY <1>1 DEF RecTypeOK, InHand, List

\* Writing a row keeps the records well typed.
LEMMA WriteRowType ==
    ASSUME RecordsTypeOK, NEW s \in Server, NEW row \in Row, Write(s, row)
    PROVE  RecordsTypeOK'
  <1>1. rows' \in [Server -> Row]
    BY DEF RecordsTypeOK, Write
  <1>2. order' \in SUBSET (Server \X Server)
    BY DEF RecordsTypeOK, Write, Touch
  <1> QED BY <1>1, <1>2 DEF RecordsTypeOK

\* Every statement of the repository writes a row.
LEMMA StatementType ==
    ASSUME RecordsTypeOK, NEW s \in Server,
           \/ Create(s)
           \/ UpdateSpec(s)
           \/ \E d \in Desired : SetDesiredState(s, d)
           \/ RequestBackup(s) \/ MarkBackedUp(s)
           \/ \E h \in Host \cup {NoHost} : AssignHost(s, h)
           \/ UnassignHost(s)
           \/ \E st \in Status : MarkStatus(s, st)
           \/ \E v \in VM \cup {NoVM} : MarkRunning(s, v)
           \/ MarkStopped(s) \/ MarkLost(s) \/ SoftDelete(s)
    PROVE  RecordsTypeOK'
  <1>1. rows[s] \in Row
    BY DEF RecordsTypeOK
  <1>2. ASSUME UNCHANGED <<rows, order>> PROVE RecordsTypeOK'
    BY <1>2 DEF RecordsTypeOK
  <1>3. ASSUME NEW row, Write(s, row), row \in Row PROVE RecordsTypeOK'
    BY <1>3, WriteRowType
  <1>4. CASE Create(s)
    <2>1. [Blank EXCEPT !.created = TRUE] \in Row
      BY BlankType DEF Row
    <2> QED BY <1>3, <1>4, <2>1 DEF Create
  <1>5. CASE UpdateSpec(s)
    BY <1>1, <1>3, <1>5 DEF UpdateSpec
  <1>6. CASE \E d \in Desired : SetDesiredState(s, d)
    <2>1. \A d \in Desired : [rows[s] EXCEPT !.desired = d] \in Row
      BY <1>1 DEF Row
    <2> QED BY <1>3, <1>6, <2>1 DEF SetDesiredState
  <1>7. CASE RequestBackup(s)
    <2>1. [rows[s] EXCEPT !.backup = TRUE] \in Row
      BY <1>1 DEF Row
    <2> QED BY <1>3, <1>7, <2>1 DEF RequestBackup
  <1>8. CASE MarkBackedUp(s)
    <2>1. [rows[s] EXCEPT !.backup = FALSE] \in Row
      BY <1>1 DEF Row
    <2> QED BY <1>3, <1>8, <2>1 DEF MarkBackedUp
  <1>9. CASE \E h \in Host \cup {NoHost} : AssignHost(s, h)
    <2>1. \A h \in Host \cup {NoHost} : [rows[s] EXCEPT !.host = h] \in Row
      BY <1>1 DEF Row
    <2> QED BY <1>3, <1>9, <2>1 DEF AssignHost
  <1>10. CASE UnassignHost(s)
    <2>1. [rows[s] EXCEPT !.host = NoHost] \in Row
      BY <1>1 DEF Row
    <2> QED BY <1>3, <1>10, <2>1 DEF UnassignHost
  <1>11. CASE \E st \in Status : MarkStatus(s, st)
    <2>1. \A st \in Status : [rows[s] EXCEPT !.status = st] \in Row
      BY <1>1 DEF Row
    <2> QED BY <1>3, <1>11, <2>1 DEF MarkStatus
  <1>12. CASE \E v \in VM \cup {NoVM} : MarkRunning(s, v)
    <2>1. \A v \in VM \cup {NoVM} :
              [rows[s] EXCEPT !.status = "running", !.vm = v] \in Row
      BY <1>1 DEF Row, Status
    <2> QED BY <1>3, <1>12, <2>1 DEF MarkRunning
  <1>13. CASE MarkStopped(s)
    <2>1. [rows[s] EXCEPT !.status = "stopped", !.vm = NoVM, !.host = NoHost] \in Row
      BY <1>1 DEF Row, Status
    <2> QED BY <1>3, <1>13, <2>1 DEF MarkStopped
  <1>14. CASE MarkLost(s)
    <2>1. [rows[s] EXCEPT !.status = "pending", !.vm = NoVM] \in Row
      BY <1>1 DEF Row, Status
    <2> QED BY <1>2, <1>3, <1>14, <2>1 DEF MarkLost
  <1>15. CASE SoftDelete(s)
    <2>1. [rows[s] EXCEPT !.status = "deleted", !.vm = NoVM, !.host = NoHost,
                          !.deleted = TRUE] \in Row
      BY <1>1 DEF Row, Status
    <2> QED BY <1>3, <1>15, <2>1 DEF SoftDelete
  <1> QED BY <1>4, <1>5, <1>6, <1>7, <1>8, <1>9, <1>10, <1>11, <1>12, <1>13,
             <1>14, <1>15

\* The frames of the reconciler's steps.
LEMMA LocalStep ==
    ASSUME TInv, Local, RecTypeOK'
    PROVE  TInv'
  BY DEF TInv, WorldTypeOK, Local, HostsTypeOK, RecordsTypeOK, RuntimeTypeOK,
         LinkTypeOK, linkVars

\* A statement that succeeded or failed.
LEMMA RecordsStep ==
    ASSUME TInv, OnRecords, UNCHANGED faults \/ Fault("db"), RecordsTypeOK', RecTypeOK'
    PROVE  TInv'
  <1>1. faults' \in Nat
    BY SMT DEF TInv, WorldTypeOK, LinkTypeOK, Fault
  <1> QED BY <1>1 DEF TInv, WorldTypeOK, OnRecords, NoLinkChange, HostsTypeOK,
                      RuntimeTypeOK, LinkTypeOK

\* A call on the inventory.
LEMMA HostsStep ==
    ASSUME TInv, OnHosts, HostsTypeOK', RecTypeOK'
    PROVE  TInv'
  BY DEF TInv, WorldTypeOK, OnHosts, RecordsTypeOK, RuntimeTypeOK, LinkTypeOK, linkVars

\* A statement on the meter.
LEMMA MeterStep ==
    ASSUME TInv, cur \in Server, RecTypeOK', NoLinkChange,
           UNCHANGED <<hosts, rows, order, vms, wishes>>,
           \/ billed' \in {billed \cup {cur}, billed \ {cur}} /\ UNCHANGED faults
           \/ Fault("db") /\ UNCHANGED billed
    PROVE  TInv'
  <1>1. faults' \in Nat /\ billed' \in SUBSET Server
    BY SMT DEF TInv, WorldTypeOK, LinkTypeOK, Fault
  <1> QED BY <1>1 DEF TInv, WorldTypeOK, NoLinkChange, HostsTypeOK, RecordsTypeOK,
                      RuntimeTypeOK, LinkTypeOK

\* A call to an agent: the command that goes out is well formed.
LEMMA CallStep ==
    ASSUME TInv, cur \in Server, NEW op \in Op, NEW ok \in PC, NEW err \in PC,
           Call(op, ok, err)
    PROVE  TInv'
  <1>0. RecTypeOK
    BY DEF TInv
  <1>1. CASE (Goto(ok) \/ Goto(err)) /\ Local
    BY <1>0, <1>1, GotoType, LocalStep
  <1>2. CASE ~Unreachable /\ Send(op)
    <2>1. loc \in Row /\ loc.host \in Host
      BY <1>0, <1>2 DEF RecTypeOK, Row, Unreachable
    <2>2. [op |-> op, host |-> loc.host, server |-> cur, vm |-> loc.vm,
           awaited |-> TRUE] \in Command
      BY <2>1 DEF Command, Row
    <2>3. LinkTypeOK'
      BY <1>2, <2>1, <2>2 DEF TInv, WorldTypeOK, LinkTypeOK, Send
    <2>4. RecTypeOK'
      BY <1>0, <1>2 DEF RecTypeOK, InHand, Send
    <2> QED BY <1>2, <2>3, <2>4 DEF TInv, WorldTypeOK, HostsTypeOK, RecordsTypeOK,
                                    RuntimeTypeOK, Send
  <1>3. CASE Return(ok) \/ Return(err)
    <2>1. LinkTypeOK'
      BY <1>3 DEF TInv, WorldTypeOK, LinkTypeOK, Return
    <2>2. RecTypeOK'
      BY <1>0, <1>3 DEF RecTypeOK, InHand, Return
    <2> QED BY <1>3, <2>1, <2>2 DEF TInv, WorldTypeOK, HostsTypeOK, RecordsTypeOK,
                                    RuntimeTypeOK, Return
  <1> QED BY <1>1, <1>2, <1>3 DEF Call

\* Where start or stop begins is a control point.
LEMMA ConvergeType == \A row : Converge(row) \in PC /\ FirstStep(row) \in PC
  BY ZenonT(30) DEF Converge, FirstStep, PC

\* Every step of checkLiveness and of the main loop keeps the types.
LEMMA LoopType ==
    ASSUME TInv,
           \/ ListRunningServers \/ ProbesDone \/ DoMarkLost \/ LostBilling
           \/ \E s \in Server : ProbeAlive(s) \/ ProbeLost(s) \/ ReconcileNext(s)
           \/ ListReconcilableServers \/ TickDone \/ Fail
    PROVE  TInv'
  <1>0. RecTypeOK /\ RecordsTypeOK
    BY DEF TInv, WorldTypeOK
  <1>a. UNCHANGED dbVars => RecordsTypeOK'
    BY <1>0 DEF RecordsTypeOK, dbVars
  <1>b. pc \in Working => cur \in Server
    BY <1>0 DEF RecTypeOK, InHand
  <1>1. CASE ListRunningServers
    <2>1. ListRunning \in SUBSET Server
      BY DEF ListRunning, Oldest
    <2>2. RecTypeOK'
      BY <1>0, <1>1, <2>1, ListType, GotoType DEF ListRunningServers, Statement, Working, PC
    <2> QED BY <1>1, <1>a, <2>2, RecordsStep DEF ListRunningServers, Statement
  <1>2. CASE ProbesDone
    <2>1. RecTypeOK'
      BY <1>0, <1>2, GotoType DEF ProbesDone, Working, PC
    <2> QED BY <1>2, <2>1, LocalStep DEF ProbesDone
  <1>3. CASE DoMarkLost
    <2>1. cur \in Server
      BY <1>3, <1>b DEF DoMarkLost, Working, PC
    <2>2. RecTypeOK'
      BY <1>0, <1>3, <2>1, GotoType, DoneType DEF DoMarkLost, Statement, Working, PC
    <2>3. RecordsTypeOK'
      BY <1>0, <1>3, <1>a, <2>1, StatementType DEF DoMarkLost, Statement
    <2> QED BY <1>3, <2>2, <2>3, RecordsStep DEF DoMarkLost, Statement
  <1>4. CASE LostBilling
    <2>1. cur \in Server
      BY <1>4, <1>b DEF LostBilling, Working, PC
    <2>2. RecTypeOK'
      BY <1>0, <1>4, DoneType DEF LostBilling, CloseInterval, Working, PC
    <2> QED BY <1>4, <2>1, <2>2, MeterStep DEF LostBilling, CloseInterval
  <1>5. ASSUME NEW s \in Server, ProbeAlive(s) PROVE TInv'
    <2>1. snap' \in [Server -> Row]
      BY <1>0, <1>5, BlankType DEF RecTypeOK, ProbeAlive
    <2>2. RecTypeOK'
      BY <1>0, <1>5, <2>1 DEF RecTypeOK, InHand, ProbeAlive
    <2> QED BY <1>5, <2>2, LocalStep DEF ProbeAlive
  <1>6. ASSUME NEW s \in Server, ProbeLost(s) PROVE TInv'
    <2>1. RecTypeOK'
      BY <1>0, <1>6, TakeType DEF ProbeLost, PC
    <2> QED BY <1>6, <2>1, LocalStep DEF ProbeLost
  <1>7. ASSUME NEW s \in Server, ReconcileNext(s) PROVE TInv'
    <2>1. RecTypeOK'
      BY <1>0, <1>7, TakeType, ConvergeType DEF ReconcileNext
    <2> QED BY <1>7, <2>1, LocalStep DEF ReconcileNext
  <1>8. CASE ListReconcilableServers
    <2>1. ListReconcilable \in SUBSET Server
      BY DEF ListReconcilable, Oldest
    <2>2. RecTypeOK'
      BY <1>0, <1>8, <2>1, ListType, DoneType
      DEF ListReconcilableServers, Statement, Working, PC
    <2> QED BY <1>8, <1>a, <2>2, RecordsStep DEF ListReconcilableServers, Statement
  <1>9. CASE TickDone
    <2>1. RecTypeOK'
      BY <1>0, <1>9, GotoType DEF TickDone, Working, PC
    <2> QED BY <1>9, <2>1, LocalStep DEF TickDone
  <1>10. CASE Fail
    <2>1. cur \in Server
      BY <1>10, <1>b DEF Fail, Working, PC
    <2>2. RecTypeOK'
      BY <1>0, <1>10, DoneType DEF Fail, Statement, Working, PC
    <2>3. RecordsTypeOK'
      BY <1>0, <1>10, <1>a, <2>1, StatementType DEF Fail, Statement, Status
    <2> QED BY <1>10, <2>2, <2>3, RecordsStep DEF Fail, Statement
  <1> QED BY <1>1, <1>2, <1>3, <1>4, <1>5, <1>6, <1>7, <1>8, <1>9, <1>10

\* So does every step of backup and start.
LEMMA StartType ==
    ASSUME TInv,
           \/ SkipBackup \/ TakeBackup \/ BackupFailed \/ DoMarkBackedUp
           \/ DropStale \/ DropRelease \/ DoUnassign
           \/ \E h \in Host : Schedule(h)
           \/ NoCapacity \/ DoMarkUnschedulable \/ DoAssign \/ Unreserve
           \/ DoMarkProvisioning \/ ProvisionOrStart \/ DoMarkRunning \/ StartBilling
    PROVE  TInv'
  <1>0. RecTypeOK /\ RecordsTypeOK /\ HostsTypeOK
    BY DEF TInv, WorldTypeOK
  <1>a. UNCHANGED dbVars => RecordsTypeOK'
    BY <1>0 DEF RecordsTypeOK, dbVars
  <1>b. pc \in Working => cur \in Server
    BY <1>0 DEF RecTypeOK, InHand
  <1>c. ASSUME cur \in Server, AfterBackup PROVE RecTypeOK'
    BY <1>0, <1>c, GotoType, DoneType, ConvergeType DEF AfterBackup, Working, PC
  <1>1. CASE SkipBackup
    <2>1. cur \in Server
      BY <1>1, <1>b DEF SkipBackup, Working, PC
    <2>2. RecTypeOK'
      BY <1>0, <1>1, <2>1, GotoType DEF SkipBackup, PC
    <2> QED BY <1>1, <2>2, LocalStep DEF SkipBackup
  <1>2. CASE TakeBackup
    <2>1. cur \in Server
      BY <1>2, <1>b DEF TakeBackup, Working, PC
    <2> QED BY <1>2, <2>1, CallStep DEF TakeBackup, Op, PC
  <1>3. CASE BackupFailed
    <2>1. cur \in Server
      BY <1>3, <1>b DEF BackupFailed, Working, PC
    <2> QED BY <1>3, <1>c, <2>1, LocalStep DEF BackupFailed
  <1>4. CASE DoMarkBackedUp
    <2>1. cur \in Server
      BY <1>4, <1>b DEF DoMarkBackedUp, Working, PC
    <2>2. RecTypeOK'
      BY <1>4, <1>c, <2>1 DEF DoMarkBackedUp, Statement
    <2>3. RecordsTypeOK'
      BY <1>0, <1>4, <1>a, <2>1, StatementType DEF DoMarkBackedUp, Statement
    <2> QED BY <1>4, <2>2, <2>3, RecordsStep DEF DoMarkBackedUp, Statement
  <1>5. CASE DropStale
    <2>1. cur \in Server
      BY <1>5, <1>b DEF DropStale, Working, PC
    <2>2. RecTypeOK'
      BY <1>0, <1>5, <2>1, GotoType DEF DropStale, PC
    <2> QED BY <1>5, <2>2, LocalStep DEF DropStale
  <1>6. CASE DropRelease
    <2>1. cur \in Server
      BY <1>6, <1>b DEF DropRelease, Working, PC
    <2>2. RecTypeOK'
      BY <1>0, <1>6, <2>1, GotoType DEF DropRelease, PC
    <2>3. HostsTypeOK'
      <3>1. CASE loc.host \in Host
        BY <1>0, <1>6, <2>1, <3>1, DemandType, ReleaseType DEF DropRelease
      <3>2. CASE loc.host \notin Host
        BY <1>0, <1>6, <3>2 DEF DropRelease, Release, HostsTypeOK
      <3> QED BY <3>1, <3>2
    <2> QED BY <1>6, <2>2, <2>3, HostsStep DEF DropRelease
  <1>7. CASE DoUnassign
    <2>1. cur \in Server
      BY <1>7, <1>b DEF DoUnassign, Working, PC
    <2>2. ASSUME loc' = [loc EXCEPT !.host = NoHost], pc' = "schedule",
                 UNCHANGED <<todo, snap, cur, target, waiting>>
          PROVE  RecTypeOK'
      <3>1. loc' \in Row
        BY <1>0, <2>2 DEF RecTypeOK, Row
      <3> QED BY <1>0, <2>1, <2>2, <3>1 DEF RecTypeOK, InHand, PC
    <2>3. RecTypeOK'
      BY <1>0, <1>7, <2>1, <2>2, GotoType DEF DoUnassign, Statement, PC
    <2>4. RecordsTypeOK'
      BY <1>0, <1>7, <1>a, <2>1, StatementType DEF DoUnassign, Statement
    <2> QED BY <1>7, <2>3, <2>4, RecordsStep DEF DoUnassign, Statement
  <1>8. ASSUME NEW h \in Host, Schedule(h) PROVE TInv'
    <2>1. cur \in Server
      BY <1>8, <1>b DEF Schedule, Working, PC
    <2>2. RecTypeOK'
      BY <1>0, <1>8, <2>1 DEF Schedule, RecTypeOK, InHand, PC
    <2>3. HostsTypeOK'
      BY <1>0, <1>8, <2>1, DemandType, ReserveType DEF Schedule
    <2> QED BY <1>8, <2>2, <2>3, HostsStep DEF Schedule
  <1>9. CASE NoCapacity
    <2>1. cur \in Server
      BY <1>9, <1>b DEF NoCapacity, Working, PC
    <2>2. RecTypeOK'
      BY <1>0, <1>9, <2>1, GotoType DEF NoCapacity, PC
    <2> QED BY <1>9, <2>2, LocalStep DEF NoCapacity
  <1>10. CASE DoMarkUnschedulable
    <2>1. cur \in Server
      BY <1>10, <1>b DEF DoMarkUnschedulable, Working, PC
    <2>2. RecTypeOK'
      BY <1>0, <1>10, <2>1, GotoType, DoneType DEF DoMarkUnschedulable, Statement, Working, PC
    <2>3. RecordsTypeOK'
      BY <1>0, <1>10, <1>a, <2>1, StatementType DEF DoMarkUnschedulable, Statement, Status
    <2> QED BY <1>10, <2>2, <2>3, RecordsStep DEF DoMarkUnschedulable, Statement
  <1>11. CASE DoAssign
    <2>1. cur \in Server /\ target \in Host \cup {NoHost}
      BY <1>0, <1>11, <1>b DEF DoAssign, Working, PC, RecTypeOK
    <2>2. ASSUME loc' = [loc EXCEPT !.host = target], pc' = "markProvisioning",
                 target' = NoHost, UNCHANGED <<todo, snap, cur, waiting>>
          PROVE  RecTypeOK'
      <3>1. loc' \in Row
        BY <1>0, <2>1, <2>2 DEF RecTypeOK, Row
      <3> QED BY <1>0, <2>1, <2>2, <3>1 DEF RecTypeOK, InHand, PC
    <2>3. RecTypeOK'
      BY <1>0, <1>11, <2>1, <2>2, GotoType DEF DoAssign, Statement, PC
    <2>4. RecordsTypeOK'
      BY <1>0, <1>11, <1>a, <2>1, StatementType DEF DoAssign, Statement
    <2> QED BY <1>11, <2>3, <2>4, RecordsStep DEF DoAssign, Statement
  <1>12. CASE Unreserve
    <2>1. cur \in Server
      BY <1>12, <1>b DEF Unreserve, Working, PC
    <2>2. RecTypeOK'
      BY <1>0, <1>12, <2>1, GotoType DEF Unreserve, PC
    <2>3. HostsTypeOK'
      <3>1. CASE target \in Host
        BY <1>0, <1>12, <2>1, <3>1, DemandType, ReleaseType DEF Unreserve
      <3>2. CASE target \notin Host
        BY <1>0, <1>12, <3>2 DEF Unreserve, Release, HostsTypeOK
      <3> QED BY <3>1, <3>2
    <2> QED BY <1>12, <2>2, <2>3, HostsStep DEF Unreserve
  <1>13. CASE DoMarkProvisioning
    <2>1. cur \in Server
      BY <1>13, <1>b DEF DoMarkProvisioning, Working, PC
    <2>2. RecTypeOK'
      BY <1>0, <1>13, <2>1, GotoType DEF DoMarkProvisioning, Statement, Working, PC
    <2>3. RecordsTypeOK'
      BY <1>0, <1>13, <1>a, <2>1, StatementType DEF DoMarkProvisioning, Statement, Status
    <2> QED BY <1>13, <2>2, <2>3, RecordsStep DEF DoMarkProvisioning, Statement
  <1>14. CASE ProvisionOrStart
    <2>1. cur \in Server
      BY <1>14, <1>b DEF ProvisionOrStart, Working, PC
    <2> QED BY <1>14, <2>1, CallStep DEF ProvisionOrStart, Op, PC
  <1>15. CASE DoMarkRunning
    <2>1. cur \in Server /\ got \in VM \cup {NoVM}
      BY <1>15, <1>b DEF DoMarkRunning, Working, PC, TInv, WorldTypeOK, LinkTypeOK
    <2>2. RecTypeOK'
      BY <1>0, <1>15, <2>1, GotoType DEF DoMarkRunning, Statement, PC
    <2>3. RecordsTypeOK'
      BY <1>0, <1>15, <1>a, <2>1, StatementType DEF DoMarkRunning, Statement
    <2>4. LinkTypeOK'
      BY <1>15, SMT DEF TInv, WorldTypeOK, LinkTypeOK, DoMarkRunning, Statement, Fault
    <2> QED BY <1>15, <2>2, <2>3, <2>4 DEF TInv, WorldTypeOK, HostsTypeOK,
                                           RuntimeTypeOK, DoMarkRunning
  <1>16. CASE StartBilling
    <2>1. cur \in Server
      BY <1>16, <1>b DEF StartBilling, Working, PC
    <2>2. RecTypeOK'
      BY <1>0, <1>16, DoneType DEF StartBilling, Working, PC
    <2> QED BY <1>16, <2>1, <2>2, MeterStep DEF StartBilling
  <1> QED BY <1>1, <1>2, <1>3, <1>4, <1>5, <1>6, <1>7, <1>8, <1>9, <1>10, <1>11,
             <1>12, <1>13, <1>14, <1>15, <1>16

\* And every step of stop and delete.
LEMMA StopType ==
    ASSUME TInv,
           \/ DoMarkStopping \/ StopVM \/ EvictVM \/ ReleaseHost \/ DoMarkStopped
           \/ StopBilling
           \/ DoMarkDeleting \/ DeprovisionVM \/ CheckReachable \/ DoSoftDelete
    PROVE  TInv'
  <1>0. RecTypeOK /\ RecordsTypeOK /\ HostsTypeOK
    BY DEF TInv, WorldTypeOK
  <1>a. UNCHANGED dbVars => RecordsTypeOK'
    BY <1>0 DEF RecordsTypeOK, dbVars
  <1>b. pc \in Working => cur \in Server
    BY <1>0 DEF RecTypeOK, InHand
  <1>1. CASE DoMarkStopping
    <2>1. cur \in Server
      BY <1>1, <1>b DEF DoMarkStopping, Working, PC
    <2>2. RecTypeOK'
      BY <1>0, <1>1, <2>1, GotoType DEF DoMarkStopping, Statement, Working, PC
    <2>3. RecordsTypeOK'
      BY <1>0, <1>1, <1>a, <2>1, StatementType DEF DoMarkStopping, Statement, Status
    <2> QED BY <1>1, <2>2, <2>3, RecordsStep DEF DoMarkStopping, Statement
  <1>2. CASE StopVM
    <2>1. cur \in Server
      BY <1>2, <1>b DEF StopVM, Working, PC
    <2> QED BY <1>2, <2>1, CallStep DEF StopVM, Op, PC
  <1>3. CASE EvictVM
    <2>1. cur \in Server
      BY <1>3, <1>b DEF EvictVM, Working, PC
    <2> QED BY <1>3, <2>1, CallStep DEF EvictVM, Op, PC
  <1>4. CASE ReleaseHost
    <2>1. cur \in Server
      BY <1>4, <1>b DEF ReleaseHost, Working, PC
    <2>2. RecTypeOK'
      BY <1>0, <1>4, <2>1, GotoType DEF ReleaseHost, PC
    <2>3. HostsTypeOK'
      <3>1. CASE loc.host \in Host /\ Release(loc.host, Demand[cur])
        BY <1>0, <2>1, <3>1, DemandType, ReleaseType
      <3>2. CASE loc.host \notin Host /\ Release(loc.host, Demand[cur])
        BY <1>0, <3>2 DEF Release, HostsTypeOK
      <3>3. CASE UNCHANGED hosts
        BY <1>0, <3>3 DEF HostsTypeOK
      <3> QED BY <1>4, <3>1, <3>2, <3>3 DEF ReleaseHost
    <2> QED BY <1>4, <2>2, <2>3, HostsStep DEF ReleaseHost
  <1>5. CASE DoMarkStopped
    <2>1. cur \in Server
      BY <1>5, <1>b DEF DoMarkStopped, Working, PC
    <2>2. RecTypeOK'
      BY <1>0, <1>5, <2>1, GotoType DEF DoMarkStopped, Statement, Working, PC
    <2>3. RecordsTypeOK'
      BY <1>0, <1>5, <1>a, <2>1, StatementType DEF DoMarkStopped, Statement
    <2> QED BY <1>5, <2>2, <2>3, RecordsStep DEF DoMarkStopped, Statement
  <1>6. CASE StopBilling
    <2>1. cur \in Server
      BY <1>6, <1>b DEF StopBilling, Working, PC
    <2>2. RecTypeOK'
      BY <1>0, <1>6, DoneType DEF StopBilling, CloseInterval, Working, PC
    <2> QED BY <1>6, <2>1, <2>2, MeterStep DEF StopBilling, CloseInterval
  <1>7. CASE DoMarkDeleting
    <2>1. cur \in Server
      BY <1>7, <1>b DEF DoMarkDeleting, Working, PC
    <2>2. RecTypeOK'
      BY <1>0, <1>7, <2>1, GotoType DEF DoMarkDeleting, Statement, Working, PC
    <2>3. RecordsTypeOK'
      BY <1>0, <1>7, <1>a, <2>1, StatementType DEF DoMarkDeleting, Statement, Status
    <2> QED BY <1>7, <2>2, <2>3, RecordsStep DEF DoMarkDeleting, Statement
  <1>8. CASE DeprovisionVM
    <2>1. cur \in Server
      BY <1>8, <1>b DEF DeprovisionVM, Working, PC
    <2> QED BY <1>8, <2>1, CallStep DEF DeprovisionVM, Op, PC
  <1>9. CASE CheckReachable
    <2>1. cur \in Server
      BY <1>9, <1>b DEF CheckReachable, Working, PC
    <2>2. RecTypeOK'
      BY <1>0, <1>9, <2>1, GotoType DEF CheckReachable, PC
    <2> QED BY <1>9, <2>2, LocalStep DEF CheckReachable
  <1>10. CASE DoSoftDelete
    <2>1. cur \in Server
      BY <1>10, <1>b DEF DoSoftDelete, Working, PC
    <2>2. RecTypeOK'
      BY <1>0, <1>10, <2>1, GotoType DEF DoSoftDelete, Statement, Working, PC
    <2>3. RecordsTypeOK'
      BY <1>0, <1>10, <1>a, <2>1, StatementType DEF DoSoftDelete, Statement
    <2> QED BY <1>10, <2>2, <2>3, RecordsStep DEF DoSoftDelete, Statement
  <1> QED BY <1>1, <1>2, <1>3, <1>4, <1>5, <1>6, <1>7, <1>8, <1>9, <1>10

\* Losing a stream leaves well formed commands and an empty waiter.
LEMMA LoseType ==
    ASSUME LinkTypeOK, NEW h \in Host
    PROVE  /\ LoseCommands(h) => wire' \in SUBSET Command
           /\ {c \in wire : c.host # h} \in SUBSET Command
           /\ {[c EXCEPT !.awaited = FALSE] : c \in wire} \in SUBSET Command
           /\ LoseReply(h) => /\ waiter' \in Host \cup {NoHost}
                              /\ reply' \in {"none", "ok", "err"}
                              /\ got' \in VM \cup {NoVM}
  <1>1. \A c \in wire : c \in Command /\ [c EXCEPT !.awaited = FALSE] \in Command
    BY DEF LinkTypeOK, Command
  <1>2. LoseReply(h) => /\ waiter' \in Host \cup {NoHost}
                        /\ reply' \in {"none", "ok", "err"}
                        /\ got' \in VM \cup {NoVM}
    BY DEF LinkTypeOK, LoseReply
  <1>3. {c \in wire : c.host # h} \in SUBSET Command
    BY <1>1
  <1>4. {[c EXCEPT !.awaited = FALSE] : c \in wire} \in SUBSET Command
    BY <1>1
  <1>5. {IF c.host = h THEN [c EXCEPT !.awaited = FALSE] ELSE c : c \in wire}
            \in SUBSET Command
    BY <1>1
  <1>6. LoseCommands(h) => wire' \in SUBSET Command
    BY <1>3, <1>5 DEF LoseCommands
  <1> QED BY <1>2, <1>3, <1>4, <1>6

\* Starting, stopping or removing a VM keeps the agents' VMs well typed.
LEMMA RuntimeStep ==
    ASSUME RuntimeTypeOK, NEW h, NEW v, Start(h, v) \/ Stop(h, v) \/ Remove(h, v)
    PROVE  RuntimeTypeOK'
  <1>1. CASE v \in VM
    <2>1. vms[v] \in VMRecord /\ (vms[v].host # NoHost <=> vms[v].server # NoServer)
      BY <1>1 DEF RuntimeTypeOK
    <2>2. ASSUME NEW rec \in VMRecord, vms' = [vms EXCEPT ![v] = rec],
                 rec.host # NoHost <=> rec.server # NoServer
          PROVE  RuntimeTypeOK'
      BY <2>2 DEF RuntimeTypeOK
    <2>3. \A st \in {"running", "stopped"} :
             /\ [vms[v] EXCEPT !.state = st] \in VMRecord
             /\ [vms[v] EXCEPT !.state = st].host = vms[v].host
             /\ [vms[v] EXCEPT !.state = st].server = vms[v].server
      BY <2>1 DEF VMRecord
    <2>4. /\ NoSuchVM \in VMRecord
          /\ NoSuchVM.host = NoHost /\ NoSuchVM.server = NoServer
      BY DEF NoSuchVM, VMRecord
    <2>5. CASE Start(h, v)
      BY <2>1, <2>2, <2>3, <2>5 DEF Start
    <2>6. CASE Stop(h, v)
      BY <2>1, <2>2, <2>3, <2>6 DEF Stop
    <2>7. CASE Remove(h, v)
      BY <2>1, <2>2, <2>4, <2>7 DEF Remove
    <2> QED BY <2>5, <2>6, <2>7
  <1>2. CASE v \notin VM
    BY <1>2 DEF Start, Stop, Remove, RuntimeTypeOK
  <1> QED BY <1>1, <1>2

\* An agent that runs a command keeps its VMs and the reply well typed.
LEMMA OutcomeType ==
    ASSUME LinkTypeOK, RuntimeTypeOK, NEW c \in wire, NEW Ids \in SUBSET VM, Outcome(c, Ids)
    PROVE  /\ RuntimeTypeOK'
           /\ reply' \in {"none", "ok", "err"}
           /\ got' \in VM \cup {NoVM}
  <1>1. c \in Command
    BY DEF LinkTypeOK
  <1>2. ASSUME NEW v \in VM \cup {NoVM}, NEW res \in {"ok", "err"}, Answer(c, res, v)
        PROVE  reply' \in {"none", "ok", "err"} /\ got' \in VM \cup {NoVM}
    BY <1>2 DEF Answer, LinkTypeOK
  <1>3. ASSUME NEW v \in Ids, Provision(c.host, c.server, v) PROVE RuntimeTypeOK'
    <2>1. [host |-> c.host, server |-> c.server, state |-> "running"] \in VMRecord
      BY <1>1 DEF Command, VMRecord
    <2>2. c.host # NoHost /\ c.server # NoServer
      BY <1>1, FleetAssumption DEF Command
    <2> QED BY <1>3, <2>1, <2>2 DEF Provision, RuntimeTypeOK
  <1>4. UNCHANGED vms => RuntimeTypeOK'
    BY DEF RuntimeTypeOK
  <1>5. RuntimeTypeOK'
    BY <1>3, <1>4, RuntimeStep DEF Outcome
  <1>6. reply' \in {"none", "ok", "err"} /\ got' \in VM \cup {NoVM}
    <2>1. c.vm \in VM \cup {NoVM}
      BY <1>1 DEF Command
    <2> QED BY <1>2, <2>1 DEF Outcome
  <1> QED BY <1>5, <1>6

\* The streams, the agents, the host reaper and the clock keep the types.
LEMMA LinkType ==
    ASSUME TInv, Environment
    PROVE  TInv'
  <1>0. HostsTypeOK /\ RecordsTypeOK /\ RuntimeTypeOK /\ LinkTypeOK /\ RecTypeOK
    BY DEF TInv, WorldTypeOK
  <1>a. RecTypeOK' /\ billed' \in SUBSET Server /\ wishes' \in Nat
    BY DEF TInv, WorldTypeOK, RecTypeOK, InHand, Environment, recVars
  <1>b. UNCHANGED hosts => HostsTypeOK'
    BY <1>0 DEF HostsTypeOK
  <1>c. UNCHANGED <<rows, order>> => RecordsTypeOK'
    BY <1>0 DEF RecordsTypeOK
  <1>d. UNCHANGED vms => RuntimeTypeOK'
    BY <1>0 DEF RuntimeTypeOK
  <1>e. UNCHANGED linkVars => LinkTypeOK'
    BY <1>0 DEF LinkTypeOK, linkVars
  <1> SUFFICES ASSUME LinkNext(NewVM)
               PROVE  HostsTypeOK' /\ RecordsTypeOK' /\ RuntimeTypeOK' /\ LinkTypeOK'
    BY <1>a DEF TInv, WorldTypeOK, Environment
  <1>1. ASSUME NEW h \in Host, Disconnect(h)
        PROVE  HostsTypeOK' /\ RecordsTypeOK' /\ RuntimeTypeOK' /\ LinkTypeOK'
    <2>1. LinkTypeOK'
      BY <1>0, <1>1, LoseType, SMT DEF LinkTypeOK, Disconnect, StreamLost, Fault
    <2> QED BY <1>1, <1>b, <1>c, <1>d, <2>1 DEF Disconnect, StreamLost
  <1>2. ASSUME NEW h \in Host, GoSilent(h) \/ SpeakAgain(h)
        PROVE  HostsTypeOK' /\ RecordsTypeOK' /\ RuntimeTypeOK' /\ LinkTypeOK'
    <2>1. LinkTypeOK'
      BY <1>0, <1>2, SMT DEF LinkTypeOK, GoSilent, SpeakAgain, Fault
    <2> QED BY <1>2, <1>b, <1>c, <1>d, <2>1 DEF GoSilent, SpeakAgain
  <1>3. ASSUME NEW h \in Host, AgentRestarts(h)
        PROVE  HostsTypeOK' /\ RecordsTypeOK' /\ RuntimeTypeOK' /\ LinkTypeOK'
    <2>1. LinkTypeOK'
      BY <1>0, <1>3, LoseType, SMT DEF LinkTypeOK, AgentRestarts, StreamLost, Fault
    <2>2. RuntimeTypeOK'
      BY <1>0, <1>3 DEF AgentRestarts, AgentForgets, RuntimeTypeOK, NoSuchVM, VMRecord
    <2> QED BY <1>3, <1>b, <1>c, <2>1, <2>2 DEF AgentRestarts, StreamLost
  <1>4. ASSUME NEW h \in Host, ConnectRead(h)
        PROVE  HostsTypeOK' /\ RecordsTypeOK' /\ RuntimeTypeOK' /\ LinkTypeOK'
    <2>1. UsedCapacity(h) \in Amount
      <3>1. AssignedTo(h) \in SUBSET Server
        BY DEF AssignedTo
      <3> QED BY <3>1, CommittedType DEF UsedCapacity, Amount
    <2>2. LinkTypeOK'
      BY <1>0, <1>4, <2>1 DEF LinkTypeOK, ConnectRead
    <2> QED BY <1>4, <1>b, <1>c, <1>d, <2>2 DEF ConnectRead
  <1>5. ASSUME NEW h \in Host, ConnectRegister(h)
        PROVE  HostsTypeOK' /\ RecordsTypeOK' /\ RuntimeTypeOK' /\ LinkTypeOK'
    <2>1. HostsTypeOK'
      <3>1. joining[h] \in SUBSET Amount /\ HostCapacity[h] \in Amount
        BY <1>0, RuntimeAssumption DEF LinkTypeOK
      <3> QED BY <1>0, <1>5, <3>1, RegisterType DEF ConnectRegister
    <2>2. LinkTypeOK'
      BY <1>0, <1>5, LoseType DEF LinkTypeOK, ConnectRegister
    <2> QED BY <1>5, <1>c, <1>d, <2>1, <2>2 DEF ConnectRegister
  <1>6. ASSUME NEW h \in Host, HandlerEnds(h)
        PROVE  HostsTypeOK' /\ RecordsTypeOK' /\ RuntimeTypeOK' /\ LinkTypeOK'
    <2>1. HostsTypeOK'
      BY <1>0, <1>6, MarkDownType DEF HandlerEnds
    <2>2. LinkTypeOK'
      BY <1>0, <1>6 DEF LinkTypeOK, HandlerEnds
    <2> QED BY <1>6, <1>c, <1>d, <2>1, <2>2 DEF HandlerEnds
  <1>7. ASSUME NEW h \in Host, Beat(h) \/ Quiet(h)
        PROVE  HostsTypeOK' /\ RecordsTypeOK' /\ RuntimeTypeOK' /\ LinkTypeOK'
    <2>1. HostsTypeOK'
      BY <1>0, <1>7, HeartbeatType, AgeType DEF Beat, Quiet
    <2> QED BY <1>7, <1>c, <1>d, <1>e, <2>1 DEF Beat, Quiet
  <1>8. ASSUME ReapHosts
        PROVE  HostsTypeOK' /\ RecordsTypeOK' /\ RuntimeTypeOK' /\ LinkTypeOK'
    <2>1. HostsTypeOK'
      BY <1>0, <1>8, MarkStaleType DEF ReapHosts
    <2> QED BY <1>8, <1>c, <1>d, <1>e, <2>1 DEF ReapHosts
  <1>9. ASSUME NEW c \in wire, Execute(c, NewVM)
        PROVE  HostsTypeOK' /\ RecordsTypeOK' /\ RuntimeTypeOK' /\ LinkTypeOK'
    <2>1. NewVM \in SUBSET VM
      BY DEF NewVM, UnusedVMs
    <2>2. /\ RuntimeTypeOK'
          /\ reply' \in {"none", "ok", "err"}
          /\ got' \in VM \cup {NoVM}
      BY <1>0, <1>9, <2>1, OutcomeType DEF Execute
    <2>3. LinkTypeOK'
      BY <1>0, <1>9, <2>2 DEF LinkTypeOK, Execute
    <2> QED BY <1>9, <1>b, <1>c, <2>2, <2>3 DEF Execute
  <1>10. ASSUME NEW c \in wire, ExecuteFails(c)
         PROVE  HostsTypeOK' /\ RecordsTypeOK' /\ RuntimeTypeOK' /\ LinkTypeOK'
    <2>1. RuntimeTypeOK'
      BY <1>0, <1>10, <1>d, RuntimeStep DEF ExecuteFails
    <2>2. LinkTypeOK'
      BY <1>0, <1>10, SMT DEF LinkTypeOK, ExecuteFails, Answer, Fault
    <2> QED BY <1>10, <1>b, <1>c, <2>1, <2>2 DEF ExecuteFails
  <1>11. ASSUME NEW v \in VM, GuestPowersOff(v)
         PROVE  HostsTypeOK' /\ RecordsTypeOK' /\ RuntimeTypeOK' /\ LinkTypeOK'
    <2>1. RuntimeTypeOK'
      <3>1. vms[v] \in VMRecord
        BY <1>0 DEF RuntimeTypeOK
      <3>2. /\ [vms[v] EXCEPT !.state = "exited"] \in VMRecord
            /\ [vms[v] EXCEPT !.state = "exited"].host = vms[v].host
            /\ [vms[v] EXCEPT !.state = "exited"].server = vms[v].server
        BY <3>1 DEF VMRecord
      <3> QED BY <1>0, <1>11, <3>2 DEF GuestPowersOff, GuestExits, RuntimeTypeOK
    <2>2. LinkTypeOK'
      BY <1>0, <1>11, SMT DEF LinkTypeOK, GuestPowersOff, Fault
    <2> QED BY <1>11, <1>b, <1>c, <2>1, <2>2 DEF GuestPowersOff
  <1> QED BY <1>1, <1>2, <1>3, <1>4, <1>5, <1>6, <1>7, <1>8, <1>9, <1>10, <1>11
          DEF LinkNext

\* The API handlers keep the types.
LEMMA UsersType ==
    ASSUME TInv, Users
    PROVE  TInv'
  <1>1. ASSUME NEW s \in Server, NEW A, Handler(A), A => RecordsTypeOK'
        PROVE  TInv'
    <2>1. RecTypeOK'
      BY <1>1 DEF TInv, RecTypeOK, InHand, Handler, recVars
    <2>2. wishes' \in Nat
      BY <1>1, SMT DEF TInv, WorldTypeOK, Handler
    <2>3. A
      BY <1>1 DEF Handler
    <2> QED BY <1>1, <2>1, <2>2, <2>3 DEF TInv, WorldTypeOK, Handler, HostsTypeOK,
                                      RuntimeTypeOK, LinkTypeOK, linkVars
  <1>2. PICK s \in Server : CreateServer(s) \/ UpdateServer(s) \/ BackupServer(s)
    BY DEF Users
  <1>3. RecordsTypeOK
    BY DEF TInv, WorldTypeOK
  <1>4. CASE CreateServer(s)
    BY <1>1, <1>3, <1>4, StatementType DEF CreateServer
  <1>5. CASE UpdateServer(s)
    <2>1. \A d \in Wishes : d \in Desired
      BY ControlAssumption
    <2>2. CASE Handler(UpdateSpec(s))
      BY <1>1, <1>3, <2>2, StatementType
    <2>3. ASSUME NEW d \in Wishes, Handler(SetDesiredState(s, d)) PROVE TInv'
      BY <1>1, <1>3, <2>1, <2>3, StatementType
    <2> QED BY <1>5, <2>2, <2>3 DEF UpdateServer
  <1>6. CASE BackupServer(s)
    BY <1>1, <1>3, <1>6, StatementType DEF BackupServer
  <1> QED BY <1>2, <1>4, <1>5, <1>6

\* So does a crash of the process.
LEMMA CrashType ==
    ASSUME TInv, Crash
    PROVE  TInv'
  <1>1. RecTypeOK'
    BY BlankType DEF Crash, RecTypeOK, InHand, Working, PC
  <1>2. HostsTypeOK'
    BY DEF Crash, HostsTypeOK, HostRecord, Unknown, Amount, Zero, Fresh, Stale, Dead
  <1>3. wire' \in SUBSET Command
    <2>1. LinkTypeOK
      BY DEF TInv, WorldTypeOK
    <2>2. {[c EXCEPT !.awaited = FALSE] : c \in wire} \in SUBSET Command
      <3>1. \A c \in Command : [c EXCEPT !.awaited = FALSE] \in Command
        BY DEF Command
      <3> QED BY <2>1, <3>1 DEF LinkTypeOK
    <2> QED BY <2>2 DEF Crash
  <1>4. LinkTypeOK'
    BY <1>3, SMT DEF Crash, TInv, WorldTypeOK, LinkTypeOK, Fault
  <1> QED BY <1>1, <1>2, <1>4 DEF Crash, TInv, WorldTypeOK, RecordsTypeOK, RuntimeTypeOK

\* Every step keeps the types.
LEMMA StepType ==
    ASSUME TInv, [Next]_vars
    PROVE  TInv'
  <1>1. CASE Next
    BY <1>1, LoopType, StartType, StopType, LinkType, UsersType, CrashType
    DEF Next, Reconciler
  <1>2. CASE UNCHANGED vars
    BY <1>2 DEF vars, linkVars, recVars, TInv, WorldTypeOK, RecTypeOK, InHand,
                HostsTypeOK, RecordsTypeOK, RuntimeTypeOK, LinkTypeOK
  <1> QED BY <1>1, <1>2

\* A new installation is well typed.
LEMMA InitType ==
    ASSUME Init
    PROVE  TInv
  <1>1. RecTypeOK
    BY BlankType DEF Init, RecTypeOK, InHand, Working, PC
  <1>2. HostsTypeOK
    BY DEF Init, HostsInit, HostsTypeOK, HostRecord, Unknown, Amount, Zero, Fresh, Stale,
           Dead
  <1>3. LinkTypeOK
    BY LinkAssumption DEF Init, LinkInit, LinkTypeOK
  <1>4. RecordsTypeOK
    BY BlankType DEF Init, RecordsInit, RecordsTypeOK
  <1>5. RuntimeTypeOK
    BY DEF Init, RuntimeInit, RuntimeTypeOK, NoSuchVM, VMRecord
  <1> QED BY <1>1, <1>2, <1>3, <1>4, <1>5, ControlAssumption DEF Init, TInv, WorldTypeOK

\* The control plane is type correct: among other things an allocatable amount in
\* the inventory never becomes negative (Reserve checks it under the lock, Release
\* only adds) and every control point of the reconciler that acts on a server has
\* one in hand.
THEOREM TypeCorrect == Spec => []TypeOK
  <1>1. TInv => TypeOK
    BY DEF TInv, WorldTypeOK, RecTypeOK, TypeOK
  <1>2. Spec => []TInv
    BY InitType, StepType, PTL DEF Spec
  <1> QED BY <1>1, <1>2, PTL
=============================================================================
