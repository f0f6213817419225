-------------------------- MODULE SchedulerProofs --------------------------
(***************************************************************************)
(* Concurrent calls of Schedule over one shared inventory conserve the     *)
(* capacity of every host, for any number of servers, hosts and callers.   *)
(***************************************************************************)
EXTENDS Scheduler, HostInventoryProofs

\* The inventory and the callers of Schedule stay well typed; in particular no
\* reservation ever makes the allocatable capacity of a host negative.
THEOREM TypeCorrect == Spec => []TypeOK
  <1>1. Init => TypeOK
    BY DEF Init, TypeOK, HostsTypeOK, HostsInit, Unknown, HostRecord, Amount, Zero,
           NoView, Fresh
  <1>2. TypeOK /\ [Next]_vars => TypeOK'
    <2> SUFFICES ASSUME TypeOK, [Next]_vars PROVE TypeOK'
      OBVIOUS
    <2> USE DEF TypeOK
    <2>1. ASSUME NEW s \in Server, Snapshot(s) PROVE TypeOK'
      <3>1. HostsTypeOK'
        BY <2>1 DEF Snapshot, HostsTypeOK
      <3>2. \A h \in Host : hosts[h].alloc \in Amount
        BY RecordType DEF HostRecord
      <3>3. view' \in [Server -> [Host -> Amount]]
        BY <2>1, <3>2 DEF Snapshot, Zero, Amount
      <3> QED BY <2>1, <3>1, <3>3 DEF Snapshot
    <2>2. ASSUME NEW s \in Server, TearDown(s) PROVE TypeOK'
      <3>1. HostsTypeOK'
        BY <2>2, DemandType, ReleaseType DEF TearDown
      <3> QED BY <2>2, <3>1 DEF TearDown
    <2>3. ASSUME NEW s \in Server, NEW h \in Host, TryReserve(s, h) PROVE TypeOK'
      <3>1. HostsTypeOK'
        BY <2>3, DemandType, ReserveType DEF TryReserve
      <3> QED BY <2>3, <3>1 DEF TryReserve, NoView, Zero, Amount
    <2>4. ASSUME NEW s \in Server, NEW h \in Host, FallThrough(s, h) PROVE TypeOK'
      <3>1. HostsTypeOK'
        BY <2>4 DEF FallThrough, HostsTypeOK
      <3> QED BY <2>4, <3>1 DEF FallThrough, NoView, Zero, Amount
    <2>5. ASSUME NEW h \in Host, FleetChanges(h) PROVE TypeOK'
      <3>1. ASSUME NEW total \in Sizes[h], RegisterReserved(h, total, Zero)
            PROVE  HostsTypeOK'
        <4>1. total \in Amount /\ Zero \in Amount
          BY SchedulerAssumption DEF Amount, Zero
        <4> QED BY <3>1, <4>1, RegisterType
      <3>2. HostsTypeOK'
        BY <2>5, <3>1, HeartbeatType, MarkDownType, AgeType DEF FleetChanges
      <3> QED BY <2>5, <3>2 DEF FleetChanges
    <2>6. CASE Reap
      BY <2>6, MarkStaleType DEF Reap
    <2>7. CASE UNCHANGED vars
      BY <2>7 DEF vars, HostsTypeOK
    <2> QED BY <2>1, <2>2, <2>3, <2>4, <2>5, <2>6, <2>7 DEF Next
  <1> QED BY <1>1, <1>2, PTL DEF Spec

-----------------------------------------------------------------------------

\* An agent always announces the same totals.
FixedSizes == \A h \in Host : \E total \in Amount : Sizes[h] = {total}

\* What makes Conserved inductive: a reservation is held on a host the inventory
\* knows, a caller with candidates left holds none yet, and the totals are the
\* announced ones.
Consistent ==
    /\ \A s \in Server : at[s] # NoHost => hosts[at[s]].known
    /\ \A s \in Server : cand[s] # {} => at[s] = NoHost
    /\ \A h \in Host : hosts[h].known => hosts[h].total \in Sizes[h]

IInv == TypeOK /\ Consistent /\ Conserved

\* The part of a host's record that Conserved speaks of.
SameCapacity(h) == /\ hosts'[h].known = hosts[h].known
                   /\ hosts'[h].total = hosts[h].total
                   /\ hosts'[h].alloc = hosts[h].alloc

\* A step that changes neither capacities nor reservations conserves both.
LEMMA SameConserved ==
    ASSUME IInv, UNCHANGED at, \A h \in Host : SameCapacity(h),
           \A s \in Server : cand'[s] # {} => cand[s] # {} \/ at[s] = NoHost
    PROVE  Consistent' /\ Conserved'
  <1>1. Consistent'
    BY DEF IInv, TypeOK, Consistent, SameCapacity
  <1>2. \A h \in Host : HeldOn(h)' = HeldOn(h)
    BY DEF HeldOn
  <1>3. Conserved'
    BY <1>2 DEF IInv, Conserved, SameCapacity
  <1> QED BY <1>1, <1>3

\* Reserving on h for s moves the demand of s from allocatable to committed.
LEMMA ReserveConserves ==
    ASSUME IInv, NEW s \in Server, NEW h \in Host, TryReserve(s, h)
    PROVE  Consistent' /\ Conserved'
  <1>1. at[s] = NoHost /\ h # NoHost /\ at' = [at EXCEPT ![s] = h]
    BY FleetAssumption DEF TryReserve, MostFree, IInv, Consistent
  <1>2. hosts[h] \in HostRecord /\ hosts[h].known
    BY RecordType DEF IInv, TypeOK, TryReserve, Reserve, CanReserve, Placeable
  <1>3. hosts' = [hosts EXCEPT ![h] = [hosts[h] EXCEPT
                    !.alloc = [r \in Resource |-> hosts[h].alloc[r] - Demand[s][r]]]]
    BY DEF TryReserve, Reserve
  <1>4. \A g \in Host : /\ hosts'[g].known = hosts[g].known
                        /\ hosts'[g].total = hosts[g].total
                        /\ g # h => hosts'[g].alloc = hosts[g].alloc
    BY <1>2, <1>3 DEF IInv, TypeOK, HostsTypeOK, HostRecord
  <1>5. \A r \in Resource : hosts'[h].alloc[r] = hosts[h].alloc[r] - Demand[s][r]
    BY <1>2, <1>3 DEF IInv, TypeOK, HostsTypeOK, HostRecord
  <1>6. Consistent'
    <2>1. \A t \in Server : at'[t] # NoHost => hosts'[at'[t]].known
      BY <1>1, <1>2, <1>4 DEF IInv, TypeOK, Consistent
    <2>2. \A t \in Server : cand'[t] # {} => at'[t] = NoHost
      BY <1>1 DEF IInv, TypeOK, Consistent, TryReserve
    <2>3. \A g \in Host : hosts'[g].known => hosts'[g].total \in Sizes[g]
      BY <1>4 DEF IInv, Consistent
    <2> QED BY <2>1, <2>2, <2>3 DEF Consistent
  <1>7. HeldOn(h) \in SUBSET Server /\ s \notin HeldOn(h)
    BY <1>1 DEF HeldOn
  <1>8. HeldOn(h)' = HeldOn(h) \cup {s}
    BY <1>1 DEF HeldOn, IInv, TypeOK
  <1>9. ASSUME NEW g \in Host, NEW r \in Resource, hosts'[g].known
        PROVE  hosts'[g].alloc[r] + Committed(HeldOn(g)', r) = hosts'[g].total[r]
    <2>0. hosts[g].alloc[r] + Committed(HeldOn(g), r) = hosts[g].total[r]
      BY <1>4, <1>9 DEF IInv, Conserved
    <2>1. CASE g # h
      <3>1. HeldOn(g)' = HeldOn(g)
        BY <1>1, <2>1, FleetAssumption DEF HeldOn, IInv, TypeOK
      <3> QED BY <1>4, <2>0, <2>1, <3>1
    <2>2. CASE g = h
      <3>1. Committed(HeldOn(h)', r) = Committed(HeldOn(h), r) + Demand[s][r]
        BY <1>7, <1>8, CommittedAdd
      <3>2. Committed(HeldOn(h), r) \in Nat /\ Demand[s][r] \in Nat
        BY <1>7, CommittedType, DemandType
      <3>3. hosts[h].alloc[r] \in Nat
        BY <1>2 DEF HostRecord, Amount
      <3>4. hosts'[h].alloc[r] + Committed(HeldOn(h)', r) = hosts'[h].total[r]
        BY <1>4, <1>5, <2>0, <2>2, <3>1, <3>2, <3>3
      <3> QED BY <2>2, <3>4
    <2> QED BY <2>1, <2>2
  <1> QED BY <1>6, <1>9 DEF Conserved

\* Releasing gives exactly the demand of s back: the clamp never cuts it.
LEMMA ReleaseConserves ==
    ASSUME IInv, NEW s \in Server, TearDown(s)
    PROVE  Consistent' /\ Conserved'
  <1>1. PICK h \in Host : h = at[s] /\ h # NoHost /\ at' = [at EXCEPT ![s] = NoHost]
    BY DEF TearDown, IInv, TypeOK
  <1>2. hosts[h] \in HostRecord /\ hosts[h].known
    BY <1>1, RecordType DEF IInv, TypeOK, Consistent
  <1>3. hosts' = [hosts EXCEPT ![h] = [hosts[h] EXCEPT
                    !.alloc = [r \in Resource |->
                        Least(hosts[h].alloc[r] + Demand[s][r], hosts[h].total[r])]]]
    BY <1>1, <1>2 DEF TearDown, Release
  <1>4. \A g \in Host : /\ hosts'[g].known = hosts[g].known
                        /\ hosts'[g].total = hosts[g].total
                        /\ g # h => hosts'[g].alloc = hosts[g].alloc
    BY <1>2, <1>3 DEF IInv, TypeOK, HostsTypeOK, HostRecord
  <1>5. \A r \in Resource : hosts'[h].alloc[r] =
            Least(hosts[h].alloc[r] + Demand[s][r], hosts[h].total[r])
    BY <1>2, <1>3 DEF IInv, TypeOK, HostsTypeOK, HostRecord
  <1>6. Consistent'
    <2>1. \A t \in Server : at'[t] # NoHost => hosts'[at'[t]].known
      BY <1>1, <1>4 DEF IInv, TypeOK, Consistent
    <2>2. \A t \in Server : cand'[t] # {} => at'[t] = NoHost
      BY <1>1 DEF IInv, TypeOK, Consistent, TearDown
    <2>3. \A g \in Host : hosts'[g].known => hosts'[g].total \in Sizes[g]
      BY <1>4 DEF IInv, Consistent
    <2> QED BY <2>1, <2>2, <2>3 DEF Consistent
  <1>7. HeldOn(h) \in SUBSET Server /\ s \in HeldOn(h)
    BY <1>1 DEF HeldOn
  <1>8. HeldOn(h)' = HeldOn(h) \ {s}
    BY <1>1 DEF HeldOn, IInv, TypeOK
  <1>9. ASSUME NEW g \in Host, NEW r \in Resource, hosts'[g].known
        PROVE  hosts'[g].alloc[r] + Committed(HeldOn(g)', r) = hosts'[g].total[r]
    <2>0. hosts[g].alloc[r] + Committed(HeldOn(g), r) = hosts[g].total[r]
      BY <1>4, <1>9 DEF IInv, Conserved
    <2>1. CASE g # h
      <3>1. HeldOn(g)' = HeldOn(g)
        BY <1>1, <2>1, FleetAssumption DEF HeldOn, IInv, TypeOK
      <3> QED BY <1>4, <2>0, <2>1, <3>1
    <2>2. CASE g = h
      <3>1. Committed(HeldOn(h), r) = Committed(HeldOn(h)', r) + Demand[s][r]
        BY <1>7, <1>8, CommittedRemove
      <3>2. Committed(HeldOn(h)', r) \in Nat /\ Demand[s][r] \in Nat
        <4>1. HeldOn(h)' \in SUBSET Server
          BY <1>7, <1>8
        <4> QED BY <4>1, CommittedType, DemandType
      <3>3. hosts[h].alloc[r] \in Nat /\ hosts[h].total[r] \in Nat
        BY <1>2 DEF HostRecord, Amount
      <3>4. hosts'[h].alloc[r] = hosts[h].alloc[r] + Demand[s][r]
        BY <1>5, <2>0, <2>2, <3>1, <3>2, <3>3 DEF Least
      <3>5. hosts'[h].alloc[r] + Committed(HeldOn(h)', r) = hosts'[h].total[r]
        BY <1>4, <2>0, <2>2, <3>1, <3>2, <3>3, <3>4
      <3> QED BY <2>2, <3>5
    <2> QED BY <2>1, <2>2
  <1> QED BY <1>6, <1>9 DEF Conserved

\* A registration sets up a new host and keeps the capacities of a known one.
LEMMA RegisterConserves ==
    ASSUME IInv, FixedSizes, NEW h \in Host, NEW total \in Sizes[h],
           RegisterReserved(h, total, Zero), UNCHANGED <<at, cand, view>>
    PROVE  Consistent' /\ Conserved'
  <1>1. hosts[h] \in HostRecord /\ total \in Amount /\ Sizes[h] = {total}
    BY RecordType, SchedulerAssumption DEF IInv, TypeOK, FixedSizes
  <1>2. \A g \in Host : g # h => hosts'[g] = hosts[g]
    BY DEF RegisterReserved, IInv, TypeOK, HostsTypeOK
  <1>3. /\ hosts'[h].known
        /\ hosts'[h].total = total
        /\ hosts[h].known => hosts'[h].alloc = hosts[h].alloc
        /\ ~hosts[h].known => \A r \in Resource :
               hosts'[h].alloc[r] = ClampNonNeg(total[r] - Zero[r])
    BY DEF RegisterReserved, IInv, TypeOK, HostsTypeOK
  <1>4. CASE hosts[h].known
    <2>1. hosts[h].total = total
      BY <1>1, <1>4 DEF IInv, Consistent
    <2>2. \A g \in Host : SameCapacity(g)
      BY <1>1, <1>2, <1>3, <1>4, <2>1 DEF SameCapacity, HostRecord
    <2> QED BY <2>2, SameConserved
  <1>5. CASE ~hosts[h].known
    <2>1. HeldOn(h) = {}
      BY <1>5, FleetAssumption DEF HeldOn, IInv, Consistent
    <2>2. \A g \in Host : HeldOn(g)' = HeldOn(g)
      BY DEF HeldOn
    <2>3. ASSUME NEW g \in Host, NEW r \in Resource, hosts'[g].known
          PROVE  hosts'[g].alloc[r] + Committed(HeldOn(g)', r) = hosts'[g].total[r]
      <3>1. CASE g # h
        BY <1>2, <2>2, <2>3, <3>1 DEF IInv, Conserved
      <3>2. CASE g = h
        <4>1. Committed(HeldOn(h)', r) = 0
          BY <2>1, <2>2, CommittedType
        <4>2. hosts'[h].alloc[r] = total[r] /\ total[r] \in Nat
          BY <1>1, <1>3, <1>5 DEF Amount, Zero, ClampNonNeg
        <4>3. hosts'[h].alloc[r] + Committed(HeldOn(h)', r) = hosts'[h].total[r]
          BY <1>3, <4>1, <4>2
        <4> QED BY <3>2, <4>3
      <3> QED BY <3>1, <3>2
    <2>4. Consistent'
      <3>1. \A s \in Server : at'[s] # NoHost => hosts'[at'[s]].known
        BY <1>2, <1>3 DEF IInv, TypeOK, Consistent
      <3>2. \A g \in Host : hosts'[g].known => hosts'[g].total \in Sizes[g]
        BY <1>1, <1>2, <1>3 DEF IInv, Consistent
      <3> QED BY <3>1, <3>2 DEF IInv, Consistent
    <2> QED BY <2>3, <2>4 DEF Conserved
  <1> QED BY <1>4, <1>5

\* The capacity of a host whose agent announces fixed totals is conserved: at
\* every moment what is allocatable and what the servers placed there hold add
\* up to the total, whatever stale snapshots concurrent callers of Schedule act
\* on and however the fleet changes under them.
THEOREM CapacityConserved ==
    ASSUME FixedSizes
    PROVE  Spec => []Conserved
  <1>1. Init => IInv
    <2> SUFFICES ASSUME Init PROVE IInv
      OBVIOUS
    <2>1. TypeOK
      BY DEF Init, TypeOK, HostsTypeOK, HostsInit, Unknown, HostRecord, Amount, Zero,
             NoView, Fresh
    <2>2. \A h \in Host : ~hosts[h].known
      BY DEF Init, HostsInit, Unknown
    <2>3. Consistent /\ Conserved
      BY <2>2 DEF Init, Consistent, Conserved
    <2> QED BY <2>1, <2>3 DEF IInv
  <1>2. TypeOK' /\ IInv /\ [Next]_vars => IInv'
    <2> SUFFICES ASSUME TypeOK', IInv, [Next]_vars PROVE Consistent' /\ Conserved'
      BY DEF IInv
    <2>1. ASSUME NEW s \in Server, Snapshot(s) PROVE Consistent' /\ Conserved'
      <3>1. UNCHANGED at /\ \A h \in Host : SameCapacity(h)
        BY <2>1 DEF Snapshot, SameCapacity
      <3>2. \A u \in Server : cand'[u] # {} => cand[u] # {} \/ at[u] = NoHost
        BY <2>1 DEF Snapshot, IInv, TypeOK
      <3> QED BY <3>1, <3>2, SameConserved
    <2>2. ASSUME NEW s \in Server, TearDown(s) PROVE Consistent' /\ Conserved'
      BY <2>2, ReleaseConserves
    <2>3. ASSUME NEW s \in Server, NEW h \in Host, TryReserve(s, h)
          PROVE  Consistent' /\ Conserved'
      BY <2>3, ReserveConserves
    <2>4. ASSUME NEW s \in Server, NEW h \in Host, FallThrough(s, h)
          PROVE  Consistent' /\ Conserved'
      <3>1. UNCHANGED at /\ \A g \in Host : SameCapacity(g)
        BY <2>4 DEF FallThrough, SameCapacity
      <3>2. \A u \in Server : cand'[u] # {} => cand[u] # {} \/ at[u] = NoHost
        BY <2>4 DEF FallThrough, IInv, TypeOK
      <3> QED BY <3>1, <3>2, SameConserved
    <2>5. ASSUME NEW h \in Host, FleetChanges(h) PROVE Consistent' /\ Conserved'
      <3>1. UNCHANGED <<at, cand, view>>
        BY <2>5 DEF FleetChanges
      <3>2. ASSUME Heartbeat(h) \/ MarkDown(h) \/ HeartbeatAges(h)
            PROVE  \A g \in Host : SameCapacity(g)
        <4>1. \A g \in Host : hosts[g] \in HostRecord
          BY RecordType DEF IInv, TypeOK
        <4>2. CASE Heartbeat(h)
          BY <4>1, <4>2 DEF Heartbeat, SameCapacity, HostRecord, IInv, TypeOK, HostsTypeOK
        <4>3. CASE MarkDown(h)
          BY <4>1, <4>3 DEF MarkDown, SameCapacity, HostRecord, IInv, TypeOK, HostsTypeOK
        <4>4. CASE HeartbeatAges(h)
          BY <4>1, <4>4 DEF HeartbeatAges, SameCapacity, HostRecord, IInv, TypeOK, HostsTypeOK
        <4> QED BY <3>2, <4>2, <4>3, <4>4
      <3>3. CASE Heartbeat(h) \/ MarkDown(h) \/ HeartbeatAges(h)
        BY <3>1, <3>2, <3>3, SameConserved
      <3>4. CASE \E total \in Sizes[h] : RegisterReserved(h, total, Zero)
        BY <3>1, <3>4, RegisterConserves
      <3> QED BY <2>5, <3>3, <3>4 DEF FleetChanges
    <2>6. CASE Reap
      <3>1. \A g \in Host : SameCapacity(g)
        BY <2>6, RecordType DEF Reap, MarkStale, SameCapacity, HostRecord, IInv, TypeOK
      <3> QED BY <2>6, <3>1, SameConserved DEF Reap
    <2>7. CASE UNCHANGED vars
      <3>1. \A g \in Host : SameCapacity(g)
        BY <2>7 DEF vars, SameCapacity
      <3> QED BY <2>7, <3>1, SameConserved DEF vars
    <2> QED BY <2>1, <2>2, <2>3, <2>4, <2>5, <2>6, <2>7 DEF Next
  <1>3. IInv => Conserved
    BY DEF IInv
  <1> QED BY <1>1, <1>2, <1>3, TypeCorrect, PTL DEF Spec
=============================================================================
