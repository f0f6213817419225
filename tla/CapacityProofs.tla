--------------------------- MODULE CapacityProofs ---------------------------
(***************************************************************************)
(* Capacity, for any number of servers, hosts, VMs and user requests.  The *)
(* control plane never promises the capacity of a host twice, whatever     *)
(* happens except database failures; it never loses any, whatever happens  *)
(* except crashes; and inventory and table together implement Ledger.      *)
(*                                                                         *)
(* NoOvercommit is not inductive.  What it rests on:                       *)
(*  - the reconciler's copy of a row agrees with the row on the host, from *)
(*    the list query to the write that changes it (SyncInv);               *)
(*  - what the rows commit to a host, together with a reservation on its   *)
(*    way to a row, fits the host, whether the inventory knows the host or *)
(*    not (WithinHost): it is all that survives a crash;                   *)
(*  - a host is not assigned anything between a first registration's read  *)
(*    of UsedCapacity and its entry in the inventory (ReadCovers);         *)
(*  - a reservation is only ever held on a known host, and never given     *)
(*    back because its row could not be written (TargetKnown).             *)
(***************************************************************************)
EXTENDS RecordsProofs

\* Steps are first-order unless they say SMT.
USE Zenon

\* The servers with a claim on h: a row, or a reservation about to be written.
Claiming(h) == {s \in Server : \/ s \in AssignedTo(h)
                               \/ s = cur /\ pc = "assign" /\ target = h}

WithinHost == \A h \in Host, r \in Resource : Committed(Claiming(h), r) <= HostCapacity[h][r]

ReadCovers ==
    \A h \in Host : ~hosts[h].known =>
        \A used \in joining[h], r \in Resource : Committed(AssignedTo(h), r) <= used[r]

TargetKnown == /\ pc = "assign" => target \in Host /\ hosts[target].known
               /\ pc # "unreserve"

CapacityInv == WithinHost /\ NoOvercommit /\ ReadCovers /\ TargetKnown

\* Amounts are numbers.
LEMMA Numbers ==
    ASSUME HostsTypeOK, NEW h \in Host, NEW r \in Resource
    PROVE  hosts[h].alloc[r] \in Nat /\ HostCapacity[h][r] \in Nat
  <1>1. hosts[h] \in HostRecord
    BY RecordType
  <1>2. hosts[h].alloc \in Amount
    BY <1>1 DEF HostRecord
  <1>3. HostCapacity[h] \in Amount
    BY RuntimeAssumption
  <1>4. \A a \in Amount : a[r] \in Nat
    BY DEF Amount
  <1> QED BY <1>2, <1>3, <1>4

-----------------------------------------------------------------------------
(* Steps that neither place nor book.                                      *)

\* The step writes no placement.
SamePlaces ==
    \A s \in Server : /\ rows'[s].created = rows[s].created
                      /\ rows'[s].deleted = rows[s].deleted
                      /\ rows'[s].host = rows[s].host

\* Control points at which a placement is about to be written.
Writing == {"assign", "unreserve", "unassign", "markStopped", "softDelete"}

Calm ==
    /\ SamePlaces /\ SameBooks /\ UNCHANGED joining
    /\ \/ pc \notin Writing /\ pc' \notin Writing
       \/ UNCHANGED <<pc, cur, target>>

\* Between the control points that write a placement.
LEMMA CalmBetween ==
    ASSUME RowLaw, UNCHANGED <<hosts, joining, wishes>>, pc \notin Writing, pc' \notin Writing
    PROVE  Calm
  BY DEF RowLaw, Kept, SameLife, Born, Relabelled, Lost, Downed, Started, Writing, Calm,
         SamePlaces, SameBooks

\* checkLiveness and the main loop.
LEMMA LoopCalm ==
    ASSUME RowLaw,
           \/ ListRunningServers \/ ProbesDone \/ DoMarkLost \/ LostBilling
           \/ \E s \in Server : ProbeAlive(s) \/ ProbeLost(s) \/ ReconcileNext(s)
           \/ ListReconcilableServers \/ TickDone \/ Fail
    PROVE  Calm
  <1>1. UNCHANGED <<hosts, joining, wishes>> /\ pc \notin Writing
    BY DEF ListRunningServers, ProbesDone, DoMarkLost, LostBilling, ProbeAlive, ProbeLost,
           ReconcileNext, ListReconcilableServers, TickDone, Fail, OnRecords, NoLinkChange,
           Local, linkVars, CloseInterval, Writing
  <1>2. CASE ListRunningServers \/ DoMarkLost \/ LostBilling
    BY <1>1, <1>2, CalmBetween DEF ListRunningServers, DoMarkLost, LostBilling,
       CloseInterval, Statement, List, Goto, Done, Writing
  <1>3. CASE ProbesDone \/ TickDone \/ ListReconcilableServers \/ Fail
    BY <1>1, <1>3, CalmBetween DEF ProbesDone, TickDone, ListReconcilableServers, Fail,
       Statement, List, Goto, Done, Writing
  <1>4. CASE \E s \in Server : ProbeAlive(s) \/ ProbeLost(s) \/ ReconcileNext(s)
    <2>1. \A row : FirstStep(row) \notin Writing
      BY DEF FirstStep, Converge, Writing
    <2> QED BY <1>1, <1>4, <2>1, CalmBetween DEF ProbeAlive, ProbeLost, ReconcileNext, Take,
               Writing
  <1> QED BY <1>2, <1>3, <1>4

\* The statements and local steps of backup, start, stop and delete.
LEMMA WorkCalm ==
    ASSUME RowLaw,
           \/ SkipBackup \/ BackupFailed \/ DoMarkBackedUp \/ DropStale
           \/ NoCapacity \/ DoMarkUnschedulable
           \/ DoMarkProvisioning \/ DoMarkRunning \/ StartBilling
           \/ DoMarkStopping \/ StopBilling \/ DoMarkDeleting \/ CheckReachable
    PROVE  Calm
  <1>1. UNCHANGED <<hosts, joining, wishes>> /\ pc \notin Writing
    BY DEF SkipBackup, BackupFailed, DoMarkBackedUp, DropStale, NoCapacity,
           DoMarkUnschedulable, DoMarkProvisioning, DoMarkRunning, StartBilling,
           DoMarkStopping, StopBilling, DoMarkDeleting, CheckReachable, OnRecords,
           NoLinkChange, Local, linkVars, CloseInterval, Writing
  <1>2. CASE BackupFailed \/ DoMarkBackedUp
    <2>1. AfterBackup
      BY <1>2 DEF BackupFailed, DoMarkBackedUp, Statement
    <2>2. Converge(loc) \notin Writing
      BY DEF Converge, Writing
    <2> QED BY <1>1, <2>1, <2>2, CalmBetween DEF AfterBackup, Done, Goto, Writing
  <1>3. CASE SkipBackup \/ DropStale \/ NoCapacity \/ CheckReachable
    BY <1>1, <1>3, CalmBetween DEF SkipBackup, DropStale, NoCapacity, CheckReachable, Goto,
       Writing
  <1>4. CASE DoMarkUnschedulable \/ DoMarkProvisioning \/ DoMarkRunning
    BY <1>1, <1>4, CalmBetween DEF DoMarkUnschedulable, DoMarkProvisioning, DoMarkRunning,
       Statement, Goto, Done, Writing
  <1>5. CASE DoMarkStopping \/ DoMarkDeleting
    BY <1>1, <1>5, CalmBetween DEF DoMarkStopping, DoMarkDeleting, Statement, Goto, Writing
  <1>6. CASE StartBilling \/ StopBilling
    BY <1>1, <1>6, CalmBetween DEF StartBilling, StopBilling, CloseInterval, Done, Writing
  <1> QED BY <1>2, <1>3, <1>4, <1>5, <1>6

\* The calls to agents.
LEMMA CallCalm ==
    ASSUME RowLaw, TakeBackup \/ ProvisionOrStart \/ StopVM \/ EvictVM \/ DeprovisionVM
    PROVE  Calm
  <1>1. ASSUME NEW op, NEW ok, NEW err, Call(op, ok, err), pc \notin Writing,
               ok \notin Writing, err \notin Writing
        PROVE  Calm
    <2>1. UNCHANGED <<hosts, joining, wishes>> /\ (pc' = pc \/ pc' = ok \/ pc' = err)
      BY <1>1, SMTT(20) DEF Call, Goto, Local, linkVars, Send, Return
    <2>2. pc' \notin Writing
      BY <1>1, <2>1
    <2>3. UNCHANGED <<hosts, joining, wishes>> /\ pc \notin Writing
      BY <1>1, <2>1
    <2> QED BY <2>2, <2>3, CalmBetween
  <1>2. CASE TakeBackup
    BY <1>1, <1>2 DEF TakeBackup, Writing
  <1>3. CASE ProvisionOrStart
    BY <1>1, <1>3 DEF ProvisionOrStart, Writing
  <1>4. CASE StopVM \/ EvictVM \/ DeprovisionVM
    BY <1>1, <1>4 DEF StopVM, EvictVM, DeprovisionVM, Writing
  <1> QED BY <1>2, <1>3, <1>4

\* The handlers that do not create a server, the agents, and streams that neither
\* read the table nor register.
LEMMA OutsideCalm ==
    ASSUME TInv, Environment \/ Users \/ UNCHANGED vars,
           \A h \in Host : ~ConnectRead(h) /\ ~ConnectRegister(h),
           \A s \in Server : ~CreateServer(s)
    PROVE  Calm
  <1>0. HostsTypeOK /\ RecordsTypeOK
    BY DEF TInv, WorldTypeOK
  <1>1. UNCHANGED <<pc, cur, target>>
    BY DEF Environment, Users, CreateServer, UpdateServer, BackupServer, Handler, vars,
           recVars
  <1>2. CASE Users
    <2>1. PICK s \in Server : UpdateServer(s) \/ BackupServer(s)
      BY <1>2 DEF Users
    <2>2. /\ UpdateSpec(s) \/ (\E d : SetDesiredState(s, d)) \/ RequestBackup(s)
          /\ UNCHANGED <<hosts, joining>>
      BY <2>1 DEF UpdateServer, BackupServer, Handler, linkVars
    <2>3. SameBacking
      BY <1>0, <2>2, BackingKept
    <2> QED BY <1>1, <2>2, <2>3 DEF SameBacking, Calm, SamePlaces, SameBooks
  <1>3. ASSUME UNCHANGED <<rows, joining>>, SameBooks PROVE Calm
    BY <1>1, <1>3 DEF Calm, SamePlaces
  <1>4. CASE UNCHANGED <<rows, joining, hosts>>
    BY <1>3, <1>4 DEF SameBooks
  <1>5. CASE \/ ReapHosts
             \/ \E h \in Host : HandlerEnds(h) \/ Beat(h) \/ Quiet(h)
    <2>1. SameBooks
      BY <1>0, <1>5, StatusBooks DEF ReapHosts, HandlerEnds, Beat, Quiet
    <2>2. UNCHANGED <<rows, joining>>
      BY <1>5 DEF ReapHosts, HandlerEnds, Beat, Quiet, linkVars
    <2> QED BY <1>3, <2>1, <2>2
  <1>6. CASE Environment
    BY <1>4, <1>5, <1>6 DEF Environment, LinkNext, Disconnect, GoSilent, SpeakAgain,
       AgentRestarts, Execute, ExecuteFails, GuestPowersOff, StreamLost
  <1> QED BY <1>2, <1>4, <1>6 DEF vars, linkVars

\* The steps that are not calm.
Booking ==
    \/ DoUnassign \/ DoMarkStopped \/ DoSoftDelete \/ DoAssign
    \/ DropRelease \/ ReleaseHost \/ Unreserve
    \/ \E h \in Host : Schedule(h)
    \/ /\ UNCHANGED recVars
       /\ \E h \in Host : ConnectRead(h) \/ ConnectRegister(h)
    \/ \E s \in Server : CreateServer(s)

\* Every step.
LEMMA StepKinds ==
    ASSUME MatchInv, [Next]_vars
    PROVE  Calm \/ Booking \/ Crash
  <1>0. TInv /\ RowLaw
    BY StepLaws DEF MatchInv
  <1>1. CASE Reconciler
    BY <1>0, <1>1, LoopCalm, WorkCalm, CallCalm DEF Reconciler, Booking
  <1>2. CASE Environment \/ Users \/ UNCHANGED vars
    <2>1. ASSUME NEW h \in Host, ConnectRead(h) \/ ConnectRegister(h), Environment
          PROVE  Booking
      BY <2>1 DEF Booking, Environment
    <2>2. ASSUME NEW h \in Host, ConnectRead(h) \/ ConnectRegister(h),
                 Users \/ UNCHANGED vars
          PROVE  Booking
      BY <2>2 DEF Booking, Users, CreateServer, UpdateServer, BackupServer, Handler, vars
    <2>3. ASSUME NEW s \in Server, CreateServer(s) PROVE Booking
      BY <2>3 DEF Booking
    <2> QED BY <1>0, <1>2, <2>1, <2>2, <2>3, OutsideCalm
  <1> QED BY <1>1, <1>2 DEF Next

-----------------------------------------------------------------------------
(* No host is promised twice.                                              *)

\* Fewer claims on a host and no more capacity to hand out are harmless.
LEMMA FewerClaims ==
    ASSUME TInv, TInv', CapacityInv, UNCHANGED joining,
           \A h \in Host : /\ Claiming(h)' \in SUBSET Claiming(h)
                           /\ Counted(h)' \in SUBSET Counted(h)
                           /\ ~hosts[h].known =>
                                 AssignedTo(h)' \in SUBSET AssignedTo(h)
                           /\ hosts'[h].known = hosts[h].known
                           /\ hosts'[h].alloc = hosts[h].alloc
    PROVE  WithinHost' /\ NoOvercommit' /\ ReadCovers'
  <1>0. HostCapacity \in [Host -> Amount] /\ HostsTypeOK /\ LinkTypeOK
    BY RuntimeAssumption DEF TInv, WorldTypeOK
  <1>1. ASSUME NEW h \in Host, NEW r \in Resource
        PROVE  Committed(Claiming(h), r)' <= HostCapacity[h][r]
    <2>1. Claiming(h) \in SUBSET Server /\ Claiming(h)' \in SUBSET Claiming(h)
      BY DEF Claiming
    <2>2. Committed(Claiming(h)', r) <= Committed(Claiming(h), r)
      BY <2>1, CommittedMonotone
    <2>3. Committed(Claiming(h)', r) \in Nat /\ Committed(Claiming(h), r) \in Nat
      BY <2>1, CommittedType
    <2>4. Committed(Claiming(h), r) <= HostCapacity[h][r] /\ HostCapacity[h][r] \in Nat
      BY <1>0 DEF CapacityInv, WithinHost, Amount
    <2> QED BY <2>2, <2>3, <2>4, SMT
  <1>2. ASSUME NEW h \in Host, NEW r \in Resource, hosts'[h].known
        PROVE  hosts'[h].alloc[r] + Committed(Counted(h), r)' <= HostCapacity[h][r]
    <2>1. Counted(h) \in SUBSET Server /\ Counted(h)' \in SUBSET Counted(h)
      BY DEF Counted
    <2>2. Committed(Counted(h)', r) <= Committed(Counted(h), r)
      BY <2>1, CommittedMonotone
    <2>3. Committed(Counted(h)', r) \in Nat /\ Committed(Counted(h), r) \in Nat
      BY <2>1, CommittedType
    <2>4. hosts[h].alloc[r] + Committed(Counted(h), r) <= HostCapacity[h][r]
      BY <1>2 DEF CapacityInv, NoOvercommit
    <2>5. hosts[h].alloc[r] \in Nat /\ HostCapacity[h][r] \in Nat
      BY <1>0, RecordType, SMT DEF HostRecord, Amount
    <2> QED BY <2>2, <2>3, <2>4, <2>5, SMT
  <1>3. ASSUME NEW h \in Host, ~hosts'[h].known, NEW used \in joining'[h],
               NEW r \in Resource
        PROVE  Committed(AssignedTo(h), r)' <= used[r]
    <2>1. AssignedTo(h) \in SUBSET Server /\ AssignedTo(h)' \in SUBSET AssignedTo(h)
      BY <1>3 DEF AssignedTo
    <2>2. Committed(AssignedTo(h)', r) <= Committed(AssignedTo(h), r)
      BY <2>1, CommittedMonotone
    <2>3. Committed(AssignedTo(h)', r) \in Nat /\ Committed(AssignedTo(h), r) \in Nat
      BY <2>1, CommittedType
    <2>4. Committed(AssignedTo(h), r) <= used[r]
      BY <1>3 DEF CapacityInv, ReadCovers
    <2>5. used[r] \in Nat
      BY <1>0, <1>3 DEF LinkTypeOK, Amount
    <2> QED BY <2>2, <2>3, <2>4, <2>5, SMT
  <1> QED BY <1>1, <1>2, <1>3 DEF WithinHost, NoOvercommit, ReadCovers

\* A calm step leaves every claim as it is.
LEMMA CalmCapacity ==
    ASSUME TInv, TInv', CapacityInv, Calm
    PROVE  CapacityInv'
  <1>1. \A h \in Host : /\ Claiming(h)' = Claiming(h)
                        /\ Counted(h)' = Counted(h)
                        /\ AssignedTo(h)' = AssignedTo(h)
    BY DEF Calm, SamePlaces, Claiming, Counted, AssignedTo, Live, Writing
  <1>2. WithinHost' /\ NoOvercommit' /\ ReadCovers'
    BY <1>1, FewerClaims DEF Calm, SameBooks
  <1>3. TargetKnown'
    BY DEF Calm, CapacityInv, TargetKnown, SameBooks, Writing
  <1> QED BY <1>2, <1>3 DEF CapacityInv

\* dropStalePlacement, stop and delete write the row after the release, or fail to.
LEMMA Unplaced ==
    ASSUME TInv, DoUnassign \/ DoMarkStopped \/ DoSoftDelete
    PROVE  /\ cur \in Server /\ pc \in {"unassign", "markStopped", "softDelete"}
           /\ UNCHANGED <<hosts, joining, cur>>
           /\ \/ UNCHANGED rows /\ pc' = "fail" /\ ~NoDatabaseFaults
              \/ /\ rows'[cur].host = NoHost /\ pc' \in {"schedule", "stopBilling"}
                 /\ \A s \in Server : s # cur => rows'[s] = rows[s]
  <1>1. cur \in Server /\ RecordsTypeOK
    BY DEF TInv, WorldTypeOK, RecTypeOK, InHand, Working, PC, DoUnassign, DoMarkStopped,
           DoSoftDelete
  <1>2. UnassignHost(cur) \/ MarkStopped(cur) \/ SoftDelete(cur) =>
           /\ rows'[cur].host = NoHost
           /\ \A s \in Server : s # cur => rows'[s] = rows[s]
    BY <1>1, RowEffects DEF Becomes
  <1>3. CASE DoUnassign
    BY <1>1, <1>2, <1>3 DEF DoUnassign, Statement, Fault, NoDatabaseFaults, dbVars,
       OnRecords, NoLinkChange, Goto
  <1>4. CASE DoMarkStopped \/ DoSoftDelete
    BY <1>1, <1>2, <1>4 DEF DoMarkStopped, DoSoftDelete, Statement, Fault, NoDatabaseFaults,
       dbVars, OnRecords, NoLinkChange, Goto
  <1> QED BY <1>3, <1>4

\* place writes the row after the reservation, or fails to.
LEMMA Assigned ==
    ASSUME MatchInv, DoAssign
    PROVE  /\ cur \in Server /\ pc = "assign" /\ Live(cur) /\ rows[cur].host = loc.host
           /\ UNCHANGED <<hosts, joining, cur>>
           /\ \/ /\ UNCHANGED <<rows, target>>
                 /\ pc' = "unreserve" /\ ~NoDatabaseFaults
              \/ /\ rows'[cur].host = target /\ pc' = "markProvisioning"
                 /\ SameLife(cur)
                 /\ \A s \in Server : s # cur => rows'[s] = rows[s]
  <1>1. cur \in Server /\ RecordsTypeOK /\ pc = "assign"
    BY DEF MatchInv, TInv, WorldTypeOK, RecTypeOK, InHand, Working, PC, DoAssign
  <1>2. Live(cur) /\ rows[cur].host = loc.host
    BY <1>1 DEF MatchInv, SyncInv, Tracking, Working, PC
  <1>3. AssignHost(cur, target) =>
           /\ rows'[cur].host = target /\ SameLife(cur)
           /\ \A s \in Server : s # cur => rows'[s] = rows[s]
    <2>1. AssignHost(cur, target) =>
             Becomes(cur, rows[cur].created, rows[cur].deleted, rows[cur].status, target,
                     rows[cur].vm)
      BY <1>1, RowEffects
    <2> QED BY <2>1 DEF Becomes, SameLife
  <1> QED BY <1>1, <1>2, <1>3 DEF DoAssign, Statement, Fault, NoDatabaseFaults, dbVars,
             OnRecords, NoLinkChange, Goto

\* What remains of a claim when its row is written.
LEMMA WriteCapacity ==
    ASSUME MatchInv, TInv', CapacityInv, NoDatabaseFaults,
           DoUnassign \/ DoMarkStopped \/ DoSoftDelete \/ DoAssign
    PROVE  CapacityInv'
  <1>0. TInv
    BY DEF MatchInv
  <1>1. UNCHANGED <<hosts, joining>> /\ pc' \notin Writing
    BY <1>0, Unplaced, Assigned DEF Writing
  <1>2. TargetKnown'
    BY <1>1 DEF TargetKnown, Writing
  <1>3. \A h \in Host : /\ Claiming(h)' \in SUBSET Claiming(h)
                        /\ Counted(h)' \in SUBSET Counted(h)
                        /\ ~hosts[h].known => AssignedTo(h)' \in SUBSET AssignedTo(h)
    <2>1. CASE DoUnassign \/ DoMarkStopped \/ DoSoftDelete
      BY <1>0, <2>1, Unplaced, FleetAssumption DEF Claiming, Counted, AssignedTo, Live
    <2>2. CASE DoAssign
      <3>1. target \in Host /\ hosts[target].known
        BY <2>2, Assigned DEF CapacityInv, TargetKnown
      <3>2. /\ cur \in Server /\ pc = "assign" /\ Live(cur) /\ UNCHANGED cur
            /\ \/ UNCHANGED <<rows, target>> /\ pc' = "unreserve"
               \/ /\ rows'[cur].host = target /\ pc' = "markProvisioning" /\ SameLife(cur)
                  /\ \A s \in Server : s # cur => rows'[s] = rows[s]
        BY <2>2, Assigned
      <3>3. ASSUME NEW h \in Host PROVE AssignedTo(h)' \in SUBSET (AssignedTo(h) \cup {cur})
        BY <3>2 DEF AssignedTo, Live
      <3>4. ASSUME NEW h \in Host, h # target PROVE AssignedTo(h)' \in SUBSET AssignedTo(h)
        BY <3>2, <3>4 DEF AssignedTo, Live, SameLife
      <3>5. ASSUME NEW h \in Host PROVE Claiming(h)' \in SUBSET Claiming(h)
        BY <3>2, <3>3, <3>4 DEF Claiming
      <3>6. ASSUME NEW h \in Host PROVE Counted(h)' \in SUBSET Counted(h)
        BY <3>2, <3>3, <3>4 DEF Counted
      <3> QED BY <3>1, <3>4, <3>5, <3>6
    <2> QED BY <2>1, <2>2
  <1>4. WithinHost' /\ NoOvercommit' /\ ReadCovers'
    BY <1>0, <1>1, <1>3, FewerClaims
  <1> QED BY <1>2, <1>4 DEF CapacityInv

\* A reservation counts against its host from the moment it is made.
LEMMA Scheduled ==
    ASSUME MatchInv, NEW h \in Host, Schedule(h)
    PROVE  /\ cur \in Server /\ pc = "schedule" /\ pc' = "assign" /\ target' = h
           /\ UNCHANGED <<rows, joining, cur, loc>>
           /\ Reserve(h, Demand[cur])
           /\ \A g \in Host : AssignedTo(g)' = AssignedTo(g)
           /\ \A g \in Host : Counted(g) = AssignedTo(g) /\ Claiming(g) = AssignedTo(g)
           /\ \A g \in Host : g # h => Counted(g)' = AssignedTo(g) /\ Claiming(g)' = AssignedTo(g)
           /\ Counted(h)' = AssignedTo(h) \cup {cur} /\ Claiming(h)' = AssignedTo(h) \cup {cur}
  <1>1. /\ pc = "schedule" /\ pc' = "assign" /\ target' = h
        /\ Reserve(h, Demand[cur])
        /\ UNCHANGED <<rows, joining, cur, loc>>
    BY DEF Schedule, OnHosts, linkVars
  <1>2. cur \in Server
    BY <1>1 DEF MatchInv, TInv, RecTypeOK, InHand, Working, PC
  <1>3. \A g \in Host : AssignedTo(g)' = AssignedTo(g)
    BY <1>1 DEF AssignedTo, Live
  <1>4. \A g \in Host : Counted(g) = AssignedTo(g) /\ Claiming(g) = AssignedTo(g)
    BY <1>1 DEF Counted, Claiming, AssignedTo
  <1>5. \A g \in Host : g # h => Counted(g)' = AssignedTo(g) /\ Claiming(g)' = AssignedTo(g)
    BY <1>1, <1>3 DEF Counted, Claiming, AssignedTo
  <1>6. Counted(h)' = AssignedTo(h) \cup {cur} /\ Claiming(h)' = AssignedTo(h) \cup {cur}
    BY <1>1, <1>2, <1>3 DEF Counted, Claiming, AssignedTo
  <1> QED BY <1>1, <1>2, <1>3, <1>4, <1>5, <1>6

\* The host had room for it next to everything that claims it.
LEMMA ScheduleCapacity ==
    ASSUME MatchInv, CapacityInv, NEW h \in Host, Schedule(h)
    PROVE  CapacityInv'
  <1>0. HostsTypeOK /\ cur \in Server
    BY Scheduled DEF MatchInv, TInv, WorldTypeOK
  <1>1. Demand[cur] \in Amount /\ \A r \in Resource : Demand[cur][r] \in Nat
    BY <1>0, DemandType
  <1>2. /\ hosts[h].known
        /\ \A g \in Host : hosts'[g].known = hosts[g].known
        /\ \A g \in Host : g # h => hosts'[g].alloc = hosts[g].alloc
        /\ \A r \in Resource :
              /\ Demand[cur][r] <= hosts[h].alloc[r]
              /\ hosts'[h].alloc[r] = hosts[h].alloc[r] - Demand[cur][r]
    BY <1>0, <1>1, Scheduled, ReserveBooks
  <1> DEFINE with == AssignedTo(h) \cup {cur}
  <1>3. Counted(h)' = with /\ Claiming(h)' = with
    BY Scheduled
  <1>4. AssignedTo(h) \in SUBSET Server /\ with = AssignedTo(h) \cup {cur}
    BY DEF AssignedTo
  <1> HIDE DEF with
  <1>5. ASSUME NEW r \in Resource
        PROVE  /\ Committed(with, r) <= HostCapacity[h][r]
               /\ hosts'[h].alloc[r] + Committed(with, r) <= HostCapacity[h][r]
    <2>1. hosts[h].alloc[r] + Committed(AssignedTo(h), r) <= HostCapacity[h][r]
      BY <1>2, Scheduled DEF CapacityInv, NoOvercommit
    <2>2. /\ Committed(AssignedTo(h), r) \in Nat /\ Committed(with, r) \in Nat
          /\ Committed(with, r) <= Committed(AssignedTo(h), r) + Demand[cur][r]
      BY <1>0, <1>4, CommittedAtMost
    <2>3. hosts[h].alloc[r] \in Nat /\ HostCapacity[h][r] \in Nat
      BY <1>0, Numbers
    <2> QED BY <1>1, <1>2, <2>1, <2>2, <2>3, SMT
  <1>6. WithinHost'
    <2>1. ASSUME NEW g \in Host, NEW r \in Resource
          PROVE  Committed(Claiming(g)', r) <= HostCapacity[g][r]
      <3>1. CASE g # h
        BY <3>1, Scheduled DEF CapacityInv, WithinHost
      <3>2. CASE g = h
        BY <1>3, <1>5, <3>2
      <3> QED BY <3>1, <3>2
    <2> QED BY <2>1 DEF WithinHost
  <1>7. NoOvercommit'
    <2>1. ASSUME NEW g \in Host, NEW r \in Resource, hosts'[g].known
          PROVE  hosts'[g].alloc[r] + Committed(Counted(g)', r) <= HostCapacity[g][r]
      <3>1. CASE g # h
        BY <1>2, <2>1, <3>1, Scheduled DEF CapacityInv, NoOvercommit
      <3>2. CASE g = h
        BY <1>3, <1>5, <3>2
      <3> QED BY <3>1, <3>2
    <2> QED BY <2>1 DEF NoOvercommit
  <1>8. ReadCovers'
    BY <1>2, Scheduled DEF CapacityInv, ReadCovers
  <1>9. TargetKnown'
    BY <1>2, Scheduled DEF TargetKnown
  <1> QED BY <1>6, <1>7, <1>8, <1>9 DEF CapacityInv

\* stop, delete and dropStalePlacement release on the host the row still names.
LEMMA Released ==
    ASSUME MatchInv, DropRelease \/ ReleaseHost
    PROVE  /\ cur \in Server
           /\ pc' \in {"unassign", "markStopped", "softDelete"}
           /\ UNCHANGED <<rows, joining, cur>>
           /\ \A g \in Host : /\ AssignedTo(g)' = AssignedTo(g)
                              /\ Claiming(g)' = Claiming(g)
                              /\ Counted(g) = AssignedTo(g)
                              /\ Counted(g)' = AssignedTo(g) \ {cur}
           /\ \/ UNCHANGED hosts /\ \A g \in Host : cur \notin AssignedTo(g)
              \/ \E h \in Host : /\ Release(h, Demand[cur])
                                 /\ cur \in AssignedTo(h)
                                 /\ \A g \in Host : g # h => cur \notin AssignedTo(g)
  <1>1. /\ pc \in {"dropRelease", "release"}
        /\ pc' \in {"unassign", "markStopped", "softDelete"}
        /\ UNCHANGED <<rows, joining, cur, target>>
        /\ \/ Release(loc.host, Demand[cur])
           \/ loc.host = NoHost /\ UNCHANGED hosts
    BY DEF DropRelease, ReleaseHost, Goto, OnHosts, linkVars
  <1>2. cur \in Server /\ loc.host \in Host \cup {NoHost} /\ HostsTypeOK
    BY <1>1 DEF MatchInv, TInv, WorldTypeOK, RecTypeOK, InHand, Working, PC, Row
  <1>3. Live(cur) /\ rows[cur].host = loc.host
    BY <1>1 DEF MatchInv, SyncInv, Tracking, Working, PC
  <1>4. \A g \in Host : /\ AssignedTo(g)' = AssignedTo(g)
                        /\ Claiming(g)' = Claiming(g)
                        /\ Counted(g) = AssignedTo(g)
                        /\ Counted(g)' = AssignedTo(g) \ {cur}
    BY <1>1 DEF AssignedTo, Claiming, Counted, Live
  <1>5. CASE loc.host = NoHost
    <2>1. UNCHANGED hosts
      BY <1>1, <1>2, <1>5, FleetAssumption, SMT DEF Release, HostsTypeOK
    <2>2. \A g \in Host : cur \notin AssignedTo(g)
      BY <1>3, <1>5, FleetAssumption DEF AssignedTo
    <2> QED BY <1>1, <1>2, <1>4, <2>1, <2>2
  <1>6. ASSUME NEW h \in Host, h = loc.host
        PROVE  /\ Release(h, Demand[cur])
               /\ cur \in AssignedTo(h)
               /\ \A g \in Host : g # h => cur \notin AssignedTo(g)
    <2>1. h # NoHost
      BY <1>6, FleetAssumption
    <2>2. Release(h, Demand[cur])
      BY <1>1, <1>6, <2>1
    <2> QED BY <1>2, <1>3, <1>6, <2>2 DEF AssignedTo
  <1> QED BY <1>1, <1>2, <1>4, <1>5, <1>6

\* A release: the server in hand was counted against the host it is returned to.
LEMMA ReleaseCapacity ==
    ASSUME MatchInv, TInv', CapacityInv, DropRelease \/ ReleaseHost
    PROVE  CapacityInv'
  <1>0. TInv /\ HostsTypeOK /\ HostsTypeOK' /\ cur \in Server
    BY Released DEF MatchInv, TInv, WorldTypeOK
  <1>1. TargetKnown'
    BY Released DEF TargetKnown
  <1>2. CASE UNCHANGED hosts
    <2>1. WithinHost' /\ NoOvercommit' /\ ReadCovers'
      BY <1>0, <1>2, Released, FewerClaims, SMT
    <2> QED BY <1>1, <2>1 DEF CapacityInv
  <1>3. ASSUME NEW h \in Host, Release(h, Demand[cur]), cur \in AssignedTo(h)
        PROVE  CapacityInv'
    <2>1. Demand[cur] \in Amount /\ \A r \in Resource : Demand[cur][r] \in Nat
      BY <1>0, DemandType
    <2>2. /\ \A g \in Host : hosts'[g].known = hosts[g].known
          /\ \A g \in Host : g # h => hosts'[g].alloc = hosts[g].alloc
          /\ hosts[h].known =>
               \A r \in Resource : hosts'[h].alloc[r] <= hosts[h].alloc[r] + Demand[cur][r]
      BY <1>0, <1>3, <2>1, ReleaseBooks
    <2>3. ASSUME NEW g \in Host, NEW r \in Resource, hosts'[g].known
          PROVE  hosts'[g].alloc[r] + Committed(Counted(g)', r) <= HostCapacity[g][r]
      <3> DEFINE rest == AssignedTo(g) \ {cur}
      <3>1. AssignedTo(g) \in SUBSET Server /\ rest \in SUBSET AssignedTo(g)
        BY DEF AssignedTo
      <3>2. Counted(g)' = rest
        BY Released
      <3>3. cur \in AssignedTo(g) =>
               Committed(AssignedTo(g), r) = Committed(rest, r) + Demand[cur][r]
        <4>1. PICK x : x = cur
          OBVIOUS
        <4>2. x \in AssignedTo(g) =>
                 Committed(AssignedTo(g), r) = Committed(rest, r) + Demand[x][r]
          BY <3>1, <4>1, CommittedRemove
        <4> QED BY <4>1, <4>2
      <3> HIDE DEF rest
      <3>4. hosts[g].alloc[r] + Committed(AssignedTo(g), r) <= HostCapacity[g][r]
        BY <2>2, <2>3, Released DEF CapacityInv, NoOvercommit
      <3>5. Committed(AssignedTo(g), r) \in Nat /\ Committed(rest, r) \in Nat
        BY <3>1, CommittedType
      <3>6. /\ hosts[g].alloc[r] \in Nat /\ hosts'[g].alloc[r] \in Nat
            /\ HostCapacity[g][r] \in Nat
        <4>1. hosts'[g] \in HostRecord
          BY <1>0 DEF HostsTypeOK
        <4>2. hosts'[g].alloc \in Amount
          BY <4>1 DEF HostRecord
        <4>3. hosts'[g].alloc[r] \in Nat
          BY <4>2 DEF Amount
        <4> QED BY <1>0, <4>3, Numbers
      <3>7. CASE g # h
        <4>1. Committed(rest, r) <= Committed(AssignedTo(g), r)
          BY <3>1, CommittedMonotone
        <4> QED BY <2>2, <3>2, <3>4, <3>5, <3>6, <3>7, <4>1, SMT
      <3>8. CASE g = h
        <4>1. Committed(AssignedTo(g), r) = Committed(rest, r) + Demand[cur][r]
          BY <1>3, <3>8, <3>3
        <4>2. hosts'[g].alloc[r] <= hosts[g].alloc[r] + Demand[cur][r]
          BY <2>2, <2>3, <3>8
        <4> QED BY <2>1, <3>2, <3>4, <3>5, <3>6, <4>1, <4>2, SMT
      <3> QED BY <3>7, <3>8
    <2>4. NoOvercommit'
      BY <2>3 DEF NoOvercommit
    <2>5. WithinHost'
      BY Released DEF CapacityInv, WithinHost
    <2>6. ReadCovers'
      BY <2>2, Released DEF CapacityInv, ReadCovers
    <2> QED BY <1>1, <2>4, <2>5, <2>6 DEF CapacityInv
  <1> QED BY <1>2, <1>3, Released

\* A registration: a new host starts from what no row has claimed.
LEMMA RegisterCapacity ==
    ASSUME MatchInv, TInv', CapacityInv, NEW h \in Host, ConnectRegister(h), UNCHANGED recVars
    PROVE  CapacityInv'
  <1>0. /\ HostsTypeOK /\ HostsTypeOK' /\ LinkTypeOK /\ HostCapacity[h] \in Amount
    BY RuntimeAssumption DEF MatchInv, TInv, WorldTypeOK
  <1>1. PICK used \in joining[h] : RegisterReserved(h, HostCapacity[h], used)
    BY DEF ConnectRegister
  <1>2. used \in Amount
    BY <1>0, <1>1 DEF LinkTypeOK
  <1>3. /\ hosts'[h].known
        /\ \A g \in Host : g # h => hosts'[g] = hosts[g]
        /\ hosts[h].known => hosts'[h].alloc = hosts[h].alloc
        /\ ~hosts[h].known =>
              \A r \in Resource :
                  \/ hosts'[h].alloc[r] = 0
                  \/ hosts'[h].alloc[r] = HostCapacity[h][r] - used[r]
    BY <1>0, <1>1, <1>2, RegisterBooks, SMT
  <1>4. /\ UNCHANGED <<rows, pc, cur, target>>
        /\ joining' = [joining EXCEPT ![h] = {}]
    BY DEF ConnectRegister, recVars
  <1>5. \A g \in Host : /\ AssignedTo(g)' = AssignedTo(g)
                        /\ Claiming(g)' = Claiming(g)
                        /\ Counted(g)' = Counted(g)
    BY <1>4 DEF AssignedTo, Claiming, Counted, Live
  <1>6. WithinHost'
    BY <1>5 DEF CapacityInv, WithinHost
  <1>7. ReadCovers'
    BY <1>0, <1>3, <1>4, <1>5 DEF CapacityInv, ReadCovers, LinkTypeOK
  <1>8. TargetKnown'
    BY <1>3, <1>4 DEF CapacityInv, TargetKnown
  <1>9. ASSUME NEW r \in Resource, ~hosts[h].known
        PROVE  hosts'[h].alloc[r] + Committed(Counted(h), r) <= HostCapacity[h][r]
    <2>1. Counted(h) \in SUBSET AssignedTo(h) /\ AssignedTo(h) \in SUBSET Claiming(h)
      BY <1>9 DEF Counted, Claiming, CapacityInv, TargetKnown, AssignedTo
    <2>2. Claiming(h) \in SUBSET Server /\ AssignedTo(h) \in SUBSET Server
          /\ Counted(h) \in SUBSET Server
      BY DEF Claiming, AssignedTo, Counted
    <2>3. /\ Committed(Counted(h), r) \in Nat
          /\ Committed(AssignedTo(h), r) \in Nat
          /\ Committed(Claiming(h), r) \in Nat
      BY <2>2, CommittedType
    <2>4. /\ Committed(Counted(h), r) <= Committed(AssignedTo(h), r)
          /\ Committed(AssignedTo(h), r) <= Committed(Claiming(h), r)
      BY <2>1, <2>2, CommittedMonotone
    <2>5. /\ Committed(AssignedTo(h), r) <= used[r]
          /\ Committed(Claiming(h), r) <= HostCapacity[h][r]
      BY <1>1, <1>9 DEF CapacityInv, ReadCovers, WithinHost
    <2>6. used[r] \in Nat /\ HostCapacity[h][r] \in Nat
      BY <1>0, <1>2 DEF Amount
    <2>7. \/ hosts'[h].alloc[r] = 0
          \/ hosts'[h].alloc[r] = HostCapacity[h][r] - used[r]
      BY <1>3, <1>9
    <2>8. CASE hosts'[h].alloc[r] = 0
      <3>1. 0 + Committed(Counted(h), r) <= HostCapacity[h][r]
        BY <2>3, <2>4, <2>5, <2>6, SMT
      <3> QED BY <2>8, <3>1
    <2>9. CASE hosts'[h].alloc[r] = HostCapacity[h][r] - used[r]
      <3>1. (HostCapacity[h][r] - used[r]) + Committed(Counted(h), r) <= HostCapacity[h][r]
        BY <2>3, <2>4, <2>5, <2>6, SMT
      <3> QED BY <2>9, <3>1
    <2> QED BY <2>7, <2>8, <2>9
  <1>10. NoOvercommit'
    BY <1>3, <1>5, <1>9 DEF CapacityInv, NoOvercommit
  <1> QED BY <1>6, <1>7, <1>8, <1>10 DEF CapacityInv

\* A registration's read: it covers everything the rows commit to the host.
LEMMA ReadCapacity ==
    ASSUME MatchInv, CapacityInv, NEW h \in Host, ConnectRead(h), UNCHANGED recVars
    PROVE  CapacityInv'
  <1>0. LinkTypeOK
    BY DEF MatchInv, TInv, WorldTypeOK
  <1>1. /\ UNCHANGED <<rows, hosts, pc, cur, target>>
        /\ joining' = [joining EXCEPT ![h] = {UsedCapacity(h)}]
    BY DEF ConnectRead, recVars
  <1>2. \A g \in Host : /\ AssignedTo(g)' = AssignedTo(g)
                        /\ Claiming(g)' = Claiming(g)
                        /\ Counted(g)' = Counted(g)
    BY <1>1 DEF AssignedTo, Claiming, Counted, Live
  <1>3. WithinHost' /\ NoOvercommit' /\ TargetKnown'
    BY <1>1, <1>2 DEF CapacityInv, WithinHost, NoOvercommit, TargetKnown
  <1>4. ASSUME NEW r \in Resource
        PROVE  /\ Committed(AssignedTo(h), r) \in Nat
               /\ UsedCapacity(h)[r] = Committed(AssignedTo(h), r)
    <2>1. AssignedTo(h) \in SUBSET Server
      BY DEF AssignedTo
    <2> QED BY <2>1, CommittedType DEF UsedCapacity
  <1>5. ASSUME NEW g \in Host, ~hosts'[g].known, NEW used \in joining'[g],
               NEW r \in Resource
        PROVE  Committed(AssignedTo(g)', r) <= used[r]
    <2>1. CASE g = h
      <3>1. used = UsedCapacity(h)
        BY <1>0, <1>1, <1>5, <2>1 DEF LinkTypeOK
      <3>2. used[r] = Committed(AssignedTo(h), r) /\ used[r] \in Nat
        BY <1>4, <3>1
      <3>3. Committed(AssignedTo(g)', r) = used[r]
        BY <1>2, <2>1, <3>2
      <3> QED BY <3>2, <3>3, SMT
    <2>2. CASE g # h
      <3>1. used \in joining[g] /\ ~hosts[g].known
        BY <1>0, <1>1, <1>5, <2>2 DEF LinkTypeOK
      <3> QED BY <1>2, <3>1 DEF CapacityInv, ReadCovers
    <2> QED BY <2>1, <2>2
  <1> QED BY <1>3, <1>5 DEF CapacityInv, ReadCovers

\* A new row has no host.
LEMMA Created ==
    ASSUME MatchInv, NEW s \in Server, CreateServer(s)
    PROVE  /\ UNCHANGED <<hosts, joining, pc, cur, loc, target>>
           /\ \A h \in Host : /\ AssignedTo(h)' = AssignedTo(h)
                              /\ Claiming(h)' = Claiming(h)
                              /\ Counted(h)' = Counted(h)
           /\ \A t \in Server : PlacedOn(t)' = PlacedOn(t)
  <1>1. RecordsTypeOK /\ Create(s) /\ ~rows[s].created
    BY DEF MatchInv, TInv, WorldTypeOK, CreateServer, Handler
  <1>2. UNCHANGED <<hosts, joining, pc, cur, loc, target>>
    BY DEF CreateServer, Handler, linkVars, recVars
  <1>3. Becomes(s, TRUE, FALSE, "pending", NoHost, NoVM)
    BY <1>1, RowEffects
  <1>4. \A h \in Host : AssignedTo(h)' = AssignedTo(h)
    BY <1>1, <1>3, FleetAssumption DEF Becomes, AssignedTo, Live
  <1>5. \A t \in Server : PlacedOn(t)' = PlacedOn(t)
    BY <1>1, <1>3 DEF Becomes, PlacedOn, Live
  <1> QED BY <1>2, <1>4, <1>5 DEF Claiming, Counted

\* So nothing changes for the hosts.
LEMMA CreateCapacity ==
    ASSUME MatchInv, TInv', CapacityInv, NEW s \in Server, CreateServer(s)
    PROVE  CapacityInv'
  <1>1. WithinHost' /\ NoOvercommit' /\ ReadCovers'
    BY Created, FewerClaims DEF MatchInv
  <1>2. TargetKnown'
    BY Created DEF CapacityInv, TargetKnown
  <1> QED BY <1>1, <1>2 DEF CapacityInv

\* A crash: the rows survive, and they fit their hosts.
LEMMA CrashCapacity ==
    ASSUME CapacityInv, Crash
    PROVE  CapacityInv'
  <1>1. /\ UNCHANGED rows /\ pc' = "idle"
        /\ hosts' = [h \in Host |-> Unknown]
        /\ joining' = [h \in Host |-> {}]
    BY DEF Crash
  <1>2. TargetKnown'
    BY <1>1 DEF TargetKnown
  <1>3. NoOvercommit' /\ ReadCovers'
    BY <1>1 DEF NoOvercommit, ReadCovers, Unknown
  <1>4. ASSUME NEW h \in Host, NEW r \in Resource
        PROVE  Committed(Claiming(h)', r) <= HostCapacity[h][r]
    <2>1. Claiming(h) \in SUBSET Server /\ Claiming(h)' \in SUBSET Claiming(h)
      BY <1>1 DEF Claiming, AssignedTo, Live
    <2>2. Committed(Claiming(h)', r) <= Committed(Claiming(h), r)
      BY <2>1, CommittedMonotone
    <2>3. Committed(Claiming(h)', r) \in Nat /\ Committed(Claiming(h), r) \in Nat
      BY <2>1, CommittedType
    <2>4. Committed(Claiming(h), r) <= HostCapacity[h][r] /\ HostCapacity[h][r] \in Nat
      BY RuntimeAssumption DEF CapacityInv, WithinHost, Amount
    <2> QED BY <2>2, <2>3, <2>4, SMT
  <1> QED BY <1>2, <1>3, <1>4 DEF CapacityInv, WithinHost

\* A new installation has committed nothing.
LEMMA InitCapacity ==
    ASSUME Init
    PROVE  CapacityInv
  <1>1. /\ rows = [s \in Server |-> Blank] /\ pc = "idle"
        /\ hosts = [h \in Host |-> Unknown]
        /\ joining = [h \in Host |-> {}]
    BY DEF Init, RecordsInit, HostsInit, LinkInit
  <1>2. TargetKnown
    BY <1>1 DEF TargetKnown
  <1>3. NoOvercommit /\ ReadCovers
    BY <1>1 DEF NoOvercommit, ReadCovers, Unknown
  <1>4. ASSUME NEW h \in Host, NEW r \in Resource
        PROVE  Committed(Claiming(h), r) <= HostCapacity[h][r]
    <2>1. Claiming(h) = {}
      BY <1>1 DEF Claiming, AssignedTo, Live, Blank
    <2>2. Committed({}, r) = 0
      BY SumEmpty DEF Committed
    <2> QED BY <2>1, <2>2, RuntimeAssumption, SMT DEF Amount
  <1> QED BY <1>2, <1>3, <1>4 DEF CapacityInv, WithinHost

IInv == MatchInv /\ CapacityInv

\* Every step keeps the invariant.
LEMMA StepCapacity ==
    ASSUME IInv, [Next]_vars, NoDatabaseFaults
    PROVE  IInv'
  <1>1. MatchInv /\ CapacityInv /\ MatchInv' /\ TInv /\ TInv'
    BY MatchInductive DEF IInv, MatchInv
  <1>2. CASE Calm
    BY <1>1, <1>2, CalmCapacity DEF IInv
  <1>3. CASE Booking
    <2>1. ~Unreserve
      BY <1>1 DEF Unreserve, CapacityInv, TargetKnown
    <2> QED BY <1>1, <1>3, <2>1, WriteCapacity, ScheduleCapacity, ReleaseCapacity,
               RegisterCapacity, ReadCapacity, CreateCapacity DEF Booking, IInv
  <1>4. CASE Crash
    BY <1>1, <1>4, CrashCapacity DEF IInv
  <1> QED BY <1>1, <1>2, <1>3, <1>4, StepKinds

\* No host is ever promised twice, for any number of servers and hosts and any
\* interleaving of the reconciler with lost streams, repeated registrations,
\* heartbeats, the reaper, users, agent restarts and crashes of the control plane,
\* as long as no database statement fails.  (Reserve and AssignHost, Release and
\* the write of the row are separate steps; RegisterReserved works from an earlier
\* read of UsedCapacity.)
THEOREM NeverOvercommitted ==
    ASSUME NoDatabaseFaults
    PROVE  Spec => []NoOvercommit
  <1>1. IInv => NoOvercommit
    BY DEF IInv, CapacityInv
  <1>2. IInv /\ [Next]_vars => IInv'
    BY StepCapacity
  <1>3. Init => IInv
    BY InitCapacity, MatchInductive DEF IInv
  <1>4. Spec => []IInv
    BY <1>2, <1>3, PTL DEF Spec
  <1> QED BY <1>1, <1>4, PTL

-----------------------------------------------------------------------------
(* No capacity is lost.  Within one life of the process a host registers   *)
(* for the first time before any row can name it (KnownInv), so the sums   *)
(* its registration starts from are zero.                                  *)

LeakInv ==
    /\ NoCapacityLeak
    /\ \A h \in Host : hosts[h].known => hosts[h].total = HostCapacity[h]
    /\ \A h \in Host : ~hosts[h].known =>
          \A used \in joining[h], r \in Resource : used[r] = 0

\* Counting more servers, with the same capacity left, loses none.
LEMMA MoreCounted ==
    ASSUME TInv, TInv', NEW h \in Host, NEW r \in Resource,
           hosts[h].alloc[r] + Committed(Counted(h), r) >= HostCapacity[h][r],
           hosts'[h].alloc = hosts[h].alloc,
           Counted(h) \in SUBSET Counted(h)'
    PROVE  hosts'[h].alloc[r] + Committed(Counted(h)', r) >= HostCapacity[h][r]
  <1>1. Counted(h)' \in SUBSET Server /\ Counted(h) \in SUBSET Server
    BY DEF Counted
  <1>2. /\ Committed(Counted(h), r) <= Committed(Counted(h)', r)
        /\ Committed(Counted(h), r) \in Nat /\ Committed(Counted(h)', r) \in Nat
    BY <1>1, CommittedMonotone, CommittedType
  <1>3. hosts[h].alloc[r] \in Nat /\ HostCapacity[h][r] \in Nat
    BY Numbers DEF TInv, WorldTypeOK
  <1> QED BY <1>2, <1>3, SMT

\* A step that books nothing and forgets no server.
LEMMA FrameLeak ==
    ASSUME TInv, TInv', LeakInv, SameBooks, UNCHANGED joining,
           \A h \in Host : Counted(h) \in SUBSET Counted(h)'
    PROVE  LeakInv'
  <1>1. NoCapacityLeak'
    <2> SUFFICES ASSUME NEW h \in Host, NEW r \in Resource, hosts'[h].known
                 PROVE  hosts'[h].alloc[r] + Committed(Counted(h)', r) >= HostCapacity[h][r]
      BY DEF NoCapacityLeak
    <2>1. hosts[h].alloc[r] + Committed(Counted(h), r) >= HostCapacity[h][r]
      BY DEF LeakInv, NoCapacityLeak, SameBooks
    <2> QED BY <2>1, MoreCounted DEF SameBooks
  <1> QED BY <1>1 DEF LeakInv, SameBooks

\* Rows written after the release or the reservation they belong to, or not written.
LEMMA WriteLeak ==
    ASSUME MatchInv, TInv', Homeless, LeakInv,
           DoUnassign \/ DoMarkStopped \/ DoSoftDelete \/ DoAssign
    PROVE  LeakInv'
  <1>0. TInv
    BY DEF MatchInv
  <1>1. UNCHANGED <<hosts, joining>>
    BY <1>0, Unplaced, Assigned
  <1>2. CASE DoUnassign \/ DoMarkStopped \/ DoSoftDelete
    <2>1. \A h \in Host : Counted(h) \in SUBSET Counted(h)'
      BY <1>0, <1>2, Unplaced DEF Counted, AssignedTo, Live
    <2> QED BY <1>0, <1>1, <2>1, FrameLeak DEF SameBooks
  <1>3. CASE DoAssign
    <2>1. rows[cur].host = NoHost
      BY <1>3, Assigned DEF Homeless
    <2>2. \A h \in Host : Counted(h) \in SUBSET Counted(h)'
      BY <1>3, <2>1, Assigned, FleetAssumption DEF Counted, AssignedTo, Live, SameLife
    <2> QED BY <1>0, <1>1, <2>2, FrameLeak DEF SameBooks
  <1> QED BY <1>2, <1>3

\* A reservation counts the server it was taken for, which no host counted before.
LEMMA ScheduleLeak ==
    ASSUME MatchInv, Homeless, LeakInv, NEW h \in Host, Schedule(h)
    PROVE  LeakInv'
  <1>0. HostsTypeOK /\ cur \in Server
    BY Scheduled DEF MatchInv, TInv, WorldTypeOK
  <1>1. Demand[cur] \in Amount /\ \A r \in Resource : Demand[cur][r] \in Nat
    BY <1>0, DemandType
  <1>2. /\ \A g \in Host : /\ hosts'[g].known = hosts[g].known
                           /\ hosts'[g].total = hosts[g].total
        /\ \A g \in Host : g # h => hosts'[g].alloc = hosts[g].alloc
        /\ hosts[h].known
        /\ \A r \in Resource : hosts'[h].alloc[r] = hosts[h].alloc[r] - Demand[cur][r]
    BY <1>0, <1>1, Scheduled, ReserveBooks
  <1>3. cur \notin AssignedTo(h)
    BY Scheduled, FleetAssumption
       DEF Homeless, MatchInv, SyncInv, Tracking, Working, PC, AssignedTo
  <1>4. NoCapacityLeak'
    <2> SUFFICES ASSUME NEW g \in Host, NEW r \in Resource, hosts'[g].known
                 PROVE  hosts'[g].alloc[r] + Committed(Counted(g)', r) >= HostCapacity[g][r]
      BY DEF NoCapacityLeak
    <2>1. hosts[g].alloc[r] + Committed(AssignedTo(g), r) >= HostCapacity[g][r]
      BY <1>2, Scheduled DEF LeakInv, NoCapacityLeak
    <2>2. CASE g # h
      BY <1>2, <2>1, <2>2, Scheduled
    <2>3. CASE g = h
      <3> DEFINE with == AssignedTo(h) \cup {cur}
      <3>1. /\ Counted(h)' = with /\ with = AssignedTo(h) \cup {cur}
            /\ AssignedTo(h) \in SUBSET Server
        BY Scheduled DEF AssignedTo
      <3> HIDE DEF with
      <3>2. Committed(with, r) = Committed(AssignedTo(h), r) + Demand[cur][r]
        BY <1>0, <1>3, <3>1, CommittedAdd, SMT
      <3>3. Committed(AssignedTo(h), r) \in Nat
        BY <3>1, CommittedType
      <3>4. hosts[h].alloc[r] \in Nat /\ HostCapacity[h][r] \in Nat
        BY <1>0, Numbers
      <3> QED BY <1>1, <1>2, <2>1, <2>3, <3>1, <3>2, <3>3, <3>4, SMT
    <2> QED BY <2>2, <2>3
  <1>5. UNCHANGED joining
    BY Scheduled
  <1> QED BY <1>2, <1>4, <1>5 DEF LeakInv

\* Release gives back what the server it is for was counted with, or all there is.
LEMMA GiveBack ==
    ASSUME TInv, TInv', LeakInv, UNCHANGED joining,
           NEW h \in Host, cur \in Server, Release(h, Demand[cur]),
           \A g \in Host : g # h => Counted(g) \in SUBSET Counted(g)',
           Counted(h) \in SUBSET (Counted(h)' \cup {cur})
    PROVE  LeakInv'
  <1>0. HostsTypeOK /\ HostsTypeOK'
    BY DEF TInv, WorldTypeOK
  <1>1. Demand[cur] \in Amount /\ \A r \in Resource : Demand[cur][r] \in Nat
    BY DemandType
  <1>2. /\ \A g \in Host : /\ hosts'[g].known = hosts[g].known
                           /\ hosts'[g].total = hosts[g].total
        /\ \A g \in Host : g # h => hosts'[g].alloc = hosts[g].alloc
        /\ hosts[h].known =>
              \A r \in Resource : \/ hosts'[h].alloc[r] = hosts[h].alloc[r] + Demand[cur][r]
                                  \/ hosts'[h].alloc[r] = hosts[h].total[r]
    BY <1>0, <1>1, ReleaseBooks
  <1>3. NoCapacityLeak'
    <2> SUFFICES ASSUME NEW g \in Host, NEW r \in Resource, hosts'[g].known
                 PROVE  hosts'[g].alloc[r] + Committed(Counted(g)', r) >= HostCapacity[g][r]
      BY DEF NoCapacityLeak
    <2>1. /\ hosts[g].alloc[r] + Committed(Counted(g), r) >= HostCapacity[g][r]
          /\ hosts[g].total = HostCapacity[g]
      BY <1>2 DEF LeakInv, NoCapacityLeak
    <2>2. CASE g # h
      BY <1>2, <2>1, <2>2, MoreCounted
    <2>3. CASE g = h
      <3> DEFINE now == Counted(h)'
                 with == now \cup {cur}
      <3>1. Counted(h) \in SUBSET Server /\ now \in SUBSET Server
        BY DEF Counted
      <3>2. with = now \cup {cur} /\ with \in SUBSET Server /\ Counted(h) \in SUBSET with
        BY <3>1
      <3> HIDE DEF now, with
      <3>3. /\ Committed(Counted(h), r) <= Committed(with, r)
            /\ Committed(Counted(h), r) \in Nat
        BY <3>1, <3>2, CommittedMonotone, CommittedType
      <3>4. /\ Committed(now, r) \in Nat /\ Committed(with, r) \in Nat
            /\ Committed(with, r) <= Committed(now, r) + Demand[cur][r]
        BY <3>1, <3>2, CommittedAtMost
      <3>5. hosts[h].alloc[r] \in Nat /\ HostCapacity[h][r] \in Nat
        BY <1>0, Numbers
      <3>6. \/ hosts'[h].alloc[r] = hosts[h].alloc[r] + Demand[cur][r]
            \/ hosts'[h].alloc[r] = HostCapacity[h][r]
        BY <1>2, <2>1, <2>3
      <3>7. hosts'[h].alloc[r] + Committed(now, r) >= HostCapacity[h][r]
        BY <1>1, <2>1, <2>3, <3>3, <3>4, <3>5, <3>6, SMT
      <3> QED BY <2>3, <3>7 DEF now
    <2> QED BY <2>2, <2>3
  <1> QED BY <1>2, <1>3 DEF LeakInv

\* stop, delete, dropStalePlacement, and place when the row cannot be written.
LEMMA ReleaseLeak ==
    ASSUME MatchInv, TInv', KnownInv, LeakInv, DropRelease \/ ReleaseHost \/ Unreserve
    PROVE  LeakInv'
  <1>0. TInv
    BY DEF MatchInv
  <1>1. CASE DropRelease \/ ReleaseHost
    <2>0. /\ cur \in Server /\ UNCHANGED <<joining, cur>>
          /\ \A g \in Host : Counted(g) = AssignedTo(g) /\ Counted(g)' = AssignedTo(g) \ {cur}
      BY <1>1, Released
    <2>1. CASE UNCHANGED hosts /\ \A g \in Host : cur \notin AssignedTo(g)
      <3>1. \A g \in Host : Counted(g) \in SUBSET Counted(g)'
        BY <2>0, <2>1
      <3> QED BY <1>0, <2>0, <2>1, <3>1, FrameLeak DEF SameBooks
    <2>2. ASSUME NEW h \in Host, Release(h, Demand[cur]),
                 \A g \in Host : g # h => cur \notin AssignedTo(g)
          PROVE  LeakInv'
      <3>1. \A g \in Host : g # h => Counted(g) \in SUBSET Counted(g)'
        BY <2>0, <2>2
      <3>2. Counted(h) \in SUBSET (Counted(h)' \cup {cur})
        BY <2>0
      <3> QED BY <1>0, <2>0, <2>2, <3>1, <3>2, GiveBack
    <2> QED BY <1>1, <2>1, <2>2, Released
  <1>2. CASE Unreserve
    <2>1. /\ pc = "unreserve" /\ pc' = "fail" /\ Release(target, Demand[cur])
          /\ UNCHANGED <<rows, joining, cur, target>>
      BY <1>2 DEF Unreserve, Goto, OnHosts, linkVars
    <2>2. cur \in Server /\ target \in Host
      BY <2>1 DEF MatchInv, TInv, RecTypeOK, InHand, Working, PC, KnownInv
    <2>3. \A g \in Host : /\ g # target => Counted(g) \in SUBSET Counted(g)'
                          /\ Counted(g) \in SUBSET (Counted(g)' \cup {cur})
      BY <2>1 DEF Counted, AssignedTo, Live
    <2> QED BY <1>0, <2>1, <2>2, <2>3, GiveBack
  <1> QED BY <1>1, <1>2

\* A registration, and the read before it.
LEMMA JoinLeak ==
    ASSUME MatchInv, TInv', KnownInv, LeakInv, UNCHANGED recVars,
           NEW h \in Host, ConnectRead(h) \/ ConnectRegister(h)
    PROVE  LeakInv'
  <1>0. TInv /\ HostsTypeOK /\ LinkTypeOK /\ HostCapacity[h] \in Amount
    BY RuntimeAssumption DEF MatchInv, TInv, WorldTypeOK
  <1>1. UNCHANGED <<rows, pc, cur, target>>
    BY DEF ConnectRead, ConnectRegister, recVars
  <1>2. \A g \in Host : Counted(g)' = Counted(g)
    BY <1>1 DEF AssignedTo, Counted, Live
  <1>3. CASE ConnectRead(h)
    <2>1. hosts' = hosts /\ joining' = [joining EXCEPT ![h] = {UsedCapacity(h)}]
      BY <1>3 DEF ConnectRead
    <2>2. ASSUME ~hosts[h].known, NEW r \in Resource PROVE UsedCapacity(h)[r] = 0
      <3>1. AssignedTo(h) = {}
        BY <2>2, FleetAssumption DEF AssignedTo, KnownInv
      <3> QED BY <3>1, CommittedType DEF UsedCapacity
    <2>3. NoCapacityLeak'
      BY <1>2, <2>1 DEF LeakInv, NoCapacityLeak
    <2> QED BY <1>0, <2>1, <2>2, <2>3 DEF LeakInv, LinkTypeOK
  <1>4. CASE ConnectRegister(h)
    <2>1. PICK used \in joining[h] : RegisterReserved(h, HostCapacity[h], used)
      BY <1>4 DEF ConnectRegister
    <2>2. used \in Amount /\ joining' = [joining EXCEPT ![h] = {}]
      BY <1>0, <1>4, <2>1 DEF LinkTypeOK, ConnectRegister
    <2>3. /\ hosts'[h].known /\ hosts'[h].total = HostCapacity[h]
          /\ \A g \in Host : g # h => hosts'[g] = hosts[g]
          /\ hosts[h].known => hosts'[h].alloc = hosts[h].alloc
          /\ ~hosts[h].known =>
                \A r \in Resource :
                    \/ hosts'[h].alloc[r] = 0 /\ HostCapacity[h][r] < used[r]
                    \/ hosts'[h].alloc[r] = HostCapacity[h][r] - used[r]
      BY <1>0, <2>1, <2>2, RegisterBooks
    <2>4. ASSUME NEW r \in Resource, ~hosts[h].known
          PROVE  hosts'[h].alloc[r] + Committed(Counted(h), r) >= HostCapacity[h][r]
      <3>1. used[r] = 0 /\ HostCapacity[h][r] \in Nat
        BY <1>0, <2>1, <2>4 DEF LeakInv, Amount
      <3>2. hosts'[h].alloc[r] = HostCapacity[h][r]
        BY <2>3, <2>4, <3>1, SMT
      <3>3. Committed(Counted(h), r) \in Nat
        BY CommittedType DEF Counted
      <3> QED BY <3>1, <3>2, <3>3, SMT
    <2>5. NoCapacityLeak'
      <3> SUFFICES ASSUME NEW g \in Host, NEW r \in Resource, hosts'[g].known
                   PROVE  hosts'[g].alloc[r] + Committed(Counted(g)', r) >= HostCapacity[g][r]
        BY DEF NoCapacityLeak
      <3>1. CASE g = h /\ ~hosts[h].known
        BY <1>2, <2>4, <3>1
      <3>2. CASE g # h \/ hosts[h].known
        <4>1. hosts[g].known /\ hosts'[g].alloc = hosts[g].alloc
          BY <2>3, <3>2
        <4>2. hosts[g].alloc[r] + Committed(Counted(g), r) >= HostCapacity[g][r]
          BY <4>1 DEF LeakInv, NoCapacityLeak
        <4> QED BY <1>2, <4>1, <4>2
      <3> QED BY <3>1, <3>2
    <2> QED BY <1>0, <2>2, <2>3, <2>5 DEF LeakInv, LinkTypeOK
  <1> QED BY <1>3, <1>4

LeakFree == MatchInv /\ KnownInv /\ Homeless /\ LeakInv

\* Every step but a crash.
LEMMA StepLeak ==
    ASSUME NoCrash, LeakFree, [Next]_vars
    PROVE  LeakFree'
  <1>1. /\ MatchInv /\ KnownInv /\ Homeless /\ LeakInv /\ TInv
        /\ MatchInv' /\ KnownInv' /\ Homeless' /\ TInv'
    BY MatchInductive, StepKnown, StepHomeless DEF LeakFree, MatchInv
  <1>2. CASE Calm
    <2>1. \A h \in Host : Counted(h)' = Counted(h)
      BY <1>2 DEF Calm, SamePlaces, Counted, AssignedTo, Live, Writing
    <2> QED BY <1>1, <1>2, <2>1, FrameLeak DEF Calm, LeakFree
  <1>3. ASSUME NEW s \in Server, CreateServer(s) PROVE LeakInv'
    BY <1>1, <1>3, Created, FrameLeak DEF SameBooks
  <1>4. CASE Booking
    BY <1>1, <1>3, <1>4, WriteLeak, ScheduleLeak, ReleaseLeak, JoinLeak
       DEF Booking, LeakFree
  <1> QED BY <1>1, <1>2, <1>4, StepKinds DEF Crash, Fault, NoCrash

\* Capacity is never lost within one life of the process, for any fleet, whatever
\* happens to hosts, streams and agents and also when database statements fail: what
\* Release gives back is what the server it is for was counted with, and a host that
\* registers again keeps its books.
THEOREM NeverLeaks ==
    ASSUME NoCrash
    PROVE  Spec => []NoCapacityLeak
  <1>1. Init => LeakFree
    <2> SUFFICES ASSUME Init PROVE KnownInv /\ Homeless /\ LeakInv
      BY MatchInductive DEF LeakFree
    <2> QED BY DEF Init, RecordsInit, Blank, KnownInv, Homeless, LeakInv, NoCapacityLeak,
                   HostsInit, LinkInit, Unknown
  <1>2. LeakFree /\ [Next]_vars => LeakFree'
    BY StepLeak
  <1>3. LeakFree => NoCapacityLeak
    BY DEF LeakFree, LeakInv
  <1> QED BY <1>1, <1>2, <1>3, PTL DEF Spec

-----------------------------------------------------------------------------
(* What a step does to the ledger.                                         *)

Placed == [s \in Server |-> PlacedOn(s)]

\* A row that loses its host is taken off the ledger.
LEMMA LedgerFree ==
    ASSUME TInv, NoDatabaseFaults, DoUnassign \/ DoMarkStopped \/ DoSoftDelete
    PROVE  cur \in Server /\ Book!Free(cur)
  <1>1. /\ cur \in Server /\ cur' = cur /\ rows'[cur].host = NoHost
        /\ \A s \in Server : s # cur => rows'[s] = rows[s]
    BY Unplaced
  <1>2. /\ PlacedOn(cur)' = NoHost
        /\ \A s \in Server : s # cur => PlacedOn(s)' = PlacedOn(s)
    BY <1>1 DEF PlacedOn, Live
  <1>3. Placed' = [Placed EXCEPT ![cur] = NoHost]
    BY <1>1, <1>2 DEF Placed
  <1> QED BY <1>1, <1>3 DEF Book!Free, Placed

\* AssignHost books a server that was nowhere, where it fits.
LEMMA LedgerBook ==
    ASSUME IInv, IInv', Homeless, NoDatabaseFaults, DoAssign,
           NEW s \in Server, s = cur, NEW h \in Host, h = target
    PROVE  Book!Book(s, h)
  <1>1. /\ pc = "assign" /\ Live(s) /\ rows[s].host = loc.host
        /\ rows'[s].host = h
        /\ rows'[s].created = rows[s].created
        /\ rows'[s].deleted = rows[s].deleted
        /\ \A t \in Server : t # s => rows'[t] = rows[t]
    BY Assigned DEF IInv, SameLife
  <1>2. rows[s].host = NoHost
    BY <1>1 DEF Homeless
  <1>3. /\ PlacedOn(s) = NoHost /\ PlacedOn(s)' = h
        /\ \A t \in Server : t # s => PlacedOn(t)' = PlacedOn(t)
    BY <1>1, <1>2 DEF PlacedOn, Live
  <1>4. Placed[s] = NoHost /\ Placed' = [Placed EXCEPT ![s] = h]
    BY <1>3 DEF Placed
  <1> DEFINE On == {t \in Server : Placed[t] = h} \cup {s}
  <1>5. On \in SUBSET Claiming(h)' /\ Claiming(h)' \in SUBSET Server
    <2>1. ASSUME NEW t \in Server, Placed[t] = h PROVE t \in AssignedTo(h)'
      <3>1. t # s /\ PlacedOn(t) = h
        BY <1>3, <2>1, FleetAssumption DEF Placed
      <3>2. Live(t) /\ rows[t].host = h /\ rows'[t] = rows[t]
        BY <1>1, <3>1, FleetAssumption DEF PlacedOn
      <3> QED BY <3>2 DEF AssignedTo, Live
    <2>2. s \in AssignedTo(h)'
      BY <1>1 DEF AssignedTo, Live
    <2> QED BY <2>1, <2>2 DEF Claiming, AssignedTo
  <1>6. ASSUME NEW r \in Resource PROVE Committed(On, r) <= HostCapacity[h][r]
    <2>1. Committed(On, r) <= Committed(Claiming(h)', r)
      BY <1>5, CommittedMonotone
    <2>2. Committed(Claiming(h)', r) <= HostCapacity[h][r]
      BY DEF IInv, CapacityInv, WithinHost
    <2>3. Committed(On, r) \in Nat /\ Committed(Claiming(h)', r) \in Nat
      BY <1>5, CommittedType
    <2>4. HostCapacity[h][r] \in Nat
      BY RuntimeAssumption DEF Amount
    <2> QED BY <2>1, <2>2, <2>3, <2>4, SMT
  <1>7. Book!On(h) \cup {s} = On
    BY DEF Book!On, Placed
  <1> HIDE DEF On
  <1>8. Holds(h, Book!On(h) \cup {s})
    BY <1>6, <1>7 DEF Holds
  <1> QED BY <1>4, <1>8 DEF Book!Book, Placed

\* Every step is one of the ledger, or none.
LEMMA StepLedger ==
    ASSUME IInv, IInv', Homeless, [Next]_vars, NoDatabaseFaults
    PROVE  [Book!Next]_Placed
  <1>0. MatchInv /\ TInv
    BY DEF IInv, MatchInv
  <1>1. CASE SamePlaces
    <2>1. \A s \in Server : PlacedOn(s)' = PlacedOn(s)
      BY <1>1 DEF SamePlaces, PlacedOn, Live
    <2> QED BY <2>1 DEF Placed
  <1>2. CASE UNCHANGED rows
    BY <1>1, <1>2 DEF SamePlaces
  <1>3. CASE DoAssign
    <2>1. cur \in Server /\ target \in Host
      BY <1>0, <1>3, Assigned DEF IInv, CapacityInv, TargetKnown
    <2>2. Book!Book(cur, target)
      BY <1>3, <2>1, LedgerBook
    <2> QED BY <2>1, <2>2 DEF Book!Next
  <1>4. CASE DoUnassign \/ DoMarkStopped \/ DoSoftDelete
    BY <1>0, <1>4, LedgerFree DEF Book!Next
  <1>5. CASE \/ DropRelease \/ ReleaseHost \/ Unreserve \/ Crash
             \/ \E h \in Host : Schedule(h) \/ ConnectRead(h) \/ ConnectRegister(h)
    BY <1>2, <1>5 DEF DropRelease, ReleaseHost, Unreserve, Schedule, OnHosts, Crash,
                      ConnectRead, ConnectRegister
  <1>6. ASSUME NEW s \in Server, CreateServer(s) PROVE UNCHANGED Placed
    BY <1>0, <1>6, Created DEF Placed
  <1>7. CASE Booking
    BY <1>3, <1>4, <1>5, <1>6, <1>7 DEF Booking
  <1> QED BY <1>0, <1>1, <1>5, <1>7, StepKinds DEF Calm

\* Without database errors the control plane implements the ledger, for any fleet:
\* whatever streams, agents, users and crashes do, AssignHost only ever puts a
\* server that is nowhere on a host with room for it next to all the live rows
\* there.
THEOREM ImplementsLedger ==
    ASSUME NoDatabaseFaults
    PROVE  Spec => KeepsLedger
  <1>1. Init => IInv /\ Homeless /\ Book!Init
    <2>1. ASSUME Init PROVE Homeless /\ Book!Init
      <3>1. pc = "idle" /\ rows = [s \in Server |-> Blank]
        BY <2>1 DEF Init, RecordsInit
      <3>2. \A s \in Server : PlacedOn(s) = NoHost
        BY <3>1 DEF PlacedOn, Live, Blank
      <3> QED BY <3>1, <3>2 DEF Homeless, Book!Init
    <2> QED BY <2>1, InitCapacity, MatchInductive DEF IInv
  <1>2. IInv /\ Homeless /\ [Next]_vars => IInv' /\ Homeless'
    BY StepCapacity, StepHomeless DEF IInv, MatchInv
  <1>3. IInv /\ IInv' /\ Homeless /\ [Next]_vars => [Book!Next]_Placed
    BY StepLedger
  <1> QED BY <1>1, <1>2, <1>3, PTL DEF Spec, KeepsLedger, Book!Spec, Placed
=============================================================================
