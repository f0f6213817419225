------------------------ MODULE HostInventoryProofs ------------------------
(***************************************************************************)
(* The laws of sums, and the methods of the inventory: every one keeps it  *)
(* well typed.  For Reserve that is a fact about capacity: allocatable     *)
(* never becomes negative.  A sum is the cardinality of a set of units, so *)
(* adding a member adds its units.                                         *)
(***************************************************************************)
EXTENDS HostInventory, FiniteSetTheorems, TLAPS

-----------------------------------------------------------------------------
(* Sums (module Fleet).                                                    *)

\* A holder of n units has n of them.
LEMMA UpTo ==
    ASSUME NEW n \in Nat
    PROVE  IsFiniteSet(1 .. n) /\ Cardinality(1 .. n) = n
  <1>1. 1 \in Int /\ n \in Int
    OBVIOUS
  <1>2. /\ IsFiniteSet(1 .. n)
        /\ Cardinality(1 .. n) = IF 1 > n THEN 0 ELSE n - 1 + 1
    BY <1>1, FS_Interval
  <1> QED BY <1>2

\* The units of finitely many holders are finite in number.
LEMMA UnitsFinite ==
    ASSUME NEW S, IsFiniteSet(S), NEW D, NEW r, \A x \in S : D[x][r] \in Nat
    PROVE  IsFiniteSet(Units(S, D, r))
  <1> DEFINE T == {{x} \X (1 .. D[x][r]) : x \in S}
             f == [x \in S |-> {x} \X (1 .. D[x][r])]
  <1>1. f \in Surjection(S, T)
    BY DEF Surjection
  <1>2. IsFiniteSet(T)
    <2> HIDE DEF T, f
    <2> QED BY <1>1, FS_Surjection
  <1>3. \A t \in T : IsFiniteSet(t)
    <2>1. TAKE t \in T
    <2>2. PICK x \in S : t = {x} \X (1 .. D[x][r])
      OBVIOUS
    <2>3. IsFiniteSet({x}) /\ IsFiniteSet(1 .. D[x][r])
      <3>1. D[x][r] \in Nat
        OBVIOUS
      <3>2. IsFiniteSet(1 .. D[x][r])
        BY <3>1, UpTo
      <3> QED BY <3>2, FS_Singleton
    <2> QED BY <2>2, <2>3, FS_Product
  <1>4. IsFiniteSet(UNION T)
    <2> HIDE DEF T
    <2> QED BY <1>2, <1>3, FS_UNION
  <1> QED BY <1>4 DEF Units

\* A sum is a natural number.
LEMMA SumType ==
    ASSUME NEW S, IsFiniteSet(S), NEW D, NEW r, \A x \in S : D[x][r] \in Nat
    PROVE  SumOver(S, D, r) \in Nat
  BY UnitsFinite, FS_CardinalityType DEF SumOver

\* Nobody holds nothing.
LEMMA SumEmpty ==
    ASSUME NEW D, NEW r
    PROVE  SumOver({}, D, r) = 0
  <1>1. Units({}, D, r) = {}
    BY DEF Units
  <1> QED BY <1>1, FS_EmptySet DEF SumOver

\* A new member adds what it holds.
LEMMA SumAdd ==
    ASSUME NEW S, IsFiniteSet(S), NEW x, x \notin S, NEW T, T = S \cup {x},
           NEW D, NEW r, \A y \in T : D[y][r] \in Nat
    PROVE  SumOver(T, D, r) = SumOver(S, D, r) + D[x][r]
  <1> DEFINE U == {x} \X (1 .. D[x][r])
  <1>1. Units(T, D, r) = Units(S, D, r) \cup U
    BY DEF Units
  <1>2. Units(S, D, r) \cap U = {}
    BY DEF Units
  <1>3. IsFiniteSet(Units(S, D, r))
    BY UnitsFinite
  <1>4. IsFiniteSet(U) /\ Cardinality(U) = D[x][r]
    <2>1. IsFiniteSet({x}) /\ Cardinality({x}) = 1
      BY FS_Singleton
    <2>2. D[x][r] \in Nat
      OBVIOUS
    <2>3. IsFiniteSet(1 .. D[x][r]) /\ Cardinality(1 .. D[x][r]) = D[x][r]
      BY <2>2, UpTo
    <2>4. IsFiniteSet(U) /\ Cardinality(U) = Cardinality({x}) * Cardinality(1 .. D[x][r])
      BY <2>1, <2>3, FS_Product
    <2> QED BY <2>1, <2>2, <2>3, <2>4
  <1>5. Cardinality(Units(S, D, r)) \in Nat
    BY <1>3, FS_CardinalityType
  <1> HIDE DEF U
  <1>6. Cardinality(Units(S, D, r) \cup U) = Cardinality(Units(S, D, r)) + D[x][r]
    <2>1. Cardinality(Units(S, D, r) \cup U)
            = Cardinality(Units(S, D, r)) + Cardinality(U) - Cardinality({})
      BY <1>2, <1>3, <1>4, FS_Union
    <2> QED BY <1>4, <1>5, <2>1, FS_EmptySet
  <1> QED BY <1>1, <1>6 DEF SumOver

\* A larger set holds at least as much.
LEMMA SumMonotone ==
    ASSUME NEW T, IsFiniteSet(T), NEW S \in SUBSET T, NEW D, NEW r,
           \A x \in T : D[x][r] \in Nat
    PROVE  SumOver(S, D, r) <= SumOver(T, D, r)
  <1>1. Units(S, D, r) \in SUBSET Units(T, D, r)
    BY DEF Units
  <1> QED BY <1>1, UnitsFinite, FS_Subset DEF SumOver

\* What a set of servers asks for is a natural number, nothing for no server.
LEMMA CommittedType ==
    ASSUME NEW S \in SUBSET Server, NEW r \in Resource
    PROVE  Committed(S, r) \in Nat /\ Committed({}, r) = 0
  <1>1. IsFiniteSet(S) /\ \A x \in S : Demand[x][r] \in Nat
    BY FleetAssumption, FS_Subset DEF Amount
  <1> QED BY <1>1, SumType, SumEmpty DEF Committed

\* One more server adds its spec.
LEMMA CommittedAdd ==
    ASSUME NEW S \in SUBSET Server, NEW x \in Server, x \notin S,
           NEW T, T = S \cup {x}, NEW r \in Resource
    PROVE  Committed(T, r) = Committed(S, r) + Demand[x][r]
  <1>1. IsFiniteSet(S)
    BY FleetAssumption, FS_Subset
  <1>2. \A y \in T : Demand[y][r] \in Nat
    BY FleetAssumption DEF Amount
  <1> QED BY <1>1, <1>2, SumAdd DEF Committed

\* One server less gives its spec back.
LEMMA CommittedRemove ==
    ASSUME NEW S \in SUBSET Server, NEW x \in S, NEW T, T = S \ {x}, NEW r \in Resource
    PROVE  Committed(S, r) = Committed(T, r) + Demand[x][r]
  <1>1. x \notin T /\ S = T \cup {x}
    OBVIOUS
  <1>2. IsFiniteSet(T)
    BY FleetAssumption, FS_Subset
  <1>3. \A y \in S : Demand[y][r] \in Nat
    BY FleetAssumption DEF Amount
  <1> QED BY <1>1, <1>2, <1>3, SumAdd DEF Committed

\* More servers ask for at least as much.
LEMMA CommittedMonotone ==
    ASSUME NEW T \in SUBSET Server, NEW S \in SUBSET T, NEW r \in Resource
    PROVE  Committed(S, r) <= Committed(T, r)
  <1>1. IsFiniteSet(T) /\ \A x \in T : Demand[x][r] \in Nat
    BY FleetAssumption, FS_Subset DEF Amount
  <1> QED BY <1>1, SumMonotone DEF Committed

\* Counting a server in, perhaps again, adds at most its spec.
LEMMA CommittedAtMost ==
    ASSUME NEW S \in SUBSET Server, NEW x \in Server, NEW T, T = S \cup {x},
           NEW r \in Resource
    PROVE  /\ Committed(S, r) \in Nat /\ Committed(T, r) \in Nat /\ Demand[x][r] \in Nat
           /\ Committed(T, r) <= Committed(S, r) + Demand[x][r]
  <1>1. T \in SUBSET Server
    OBVIOUS
  <1>2. Committed(S, r) \in Nat /\ Committed(T, r) \in Nat
    BY <1>1, CommittedType
  <1>3. Demand[x][r] \in Nat
    BY FleetAssumption DEF Amount
  <1>4. CASE x \in S
    <2>1. T = S
      BY <1>4
    <2> QED BY <1>2, <1>3, <2>1
  <1>5. CASE x \notin S
    <2>1. Committed(T, r) = Committed(S, r) + Demand[x][r]
      BY <1>5, CommittedAdd
    <2> QED BY <1>2, <1>3, <2>1
  <1> QED BY <1>4, <1>5

-----------------------------------------------------------------------------
(* The inventory.                                                          *)

\* The demand of a server is an amount.
LEMMA DemandType ==
    ASSUME NEW s \in Server
    PROVE  Demand[s] \in Amount /\ \A r \in Resource : Demand[s][r] \in Nat
  BY FleetAssumption DEF Amount

\* The record of a host has the right fields.
LEMMA RecordType ==
    ASSUME NEW h \in Host, HostsTypeOK
    PROVE  hosts[h] \in HostRecord
  BY DEF HostsTypeOK

\* Writing a well typed record keeps the inventory well typed.
LEMMA WriteType ==
    ASSUME NEW h \in Host, HostsTypeOK, NEW rec \in HostRecord,
           hosts' = [hosts EXCEPT ![h] = rec]
    PROVE  HostsTypeOK'
  BY DEF HostsTypeOK

\* RegisterReserved keeps the inventory well typed.
LEMMA RegisterType ==
    ASSUME NEW h \in Host, NEW total \in Amount, NEW reserved \in Amount,
           HostsTypeOK, RegisterReserved(h, total, reserved)
    PROVE  HostsTypeOK'
  <1> DEFINE left == [r \in Resource |-> ClampNonNeg(total[r] - reserved[r])]
             rec  == [known |-> TRUE, status |-> "ready", total |-> total,
                      alloc |-> IF hosts[h].known THEN hosts[h].alloc ELSE left,
                      age |-> Fresh]
  <1>0. hosts[h] \in HostRecord
    BY RecordType
  <1>1. left \in Amount
    BY DEF Amount, ClampNonNeg
  <1>2. rec \in HostRecord
    <2> HIDE DEF left
    <2> QED BY <1>1, <1>0 DEF HostRecord
  <1>3. hosts' = [hosts EXCEPT ![h] = rec]
    BY DEF RegisterReserved
  <1> HIDE DEF rec
  <1> QED BY <1>2, <1>3, WriteType

\* So does Heartbeat.
LEMMA HeartbeatType ==
    ASSUME NEW h \in Host, HostsTypeOK, Heartbeat(h)
    PROVE  HostsTypeOK'
  <1> DEFINE rec == IF hosts[h].known
                      THEN [hosts[h] EXCEPT !.age = Fresh, !.status = "ready"]
                      ELSE hosts[h]
  <1>0. hosts[h] \in HostRecord
    BY RecordType
  <1>1. rec \in HostRecord
    BY <1>0 DEF HostRecord
  <1>2. hosts' = [hosts EXCEPT ![h] = rec]
    BY DEF Heartbeat
  <1> HIDE DEF rec
  <1> QED BY <1>1, <1>2, WriteType

\* Reserve checks the capacity it takes, so what is left is an amount again.
LEMMA ReserveType ==
    ASSUME NEW h \in Host, NEW d \in Amount, HostsTypeOK, Reserve(h, d)
    PROVE  HostsTypeOK'
  <1> DEFINE left == [r \in Resource |-> hosts[h].alloc[r] - d[r]]
             rec  == [hosts[h] EXCEPT !.alloc = left]
  <1>0. hosts[h] \in HostRecord
    BY RecordType
  <1>1. left \in Amount
    BY <1>0 DEF HostRecord, Reserve, CanReserve, Fits, Amount
  <1>2. rec \in HostRecord
    <2> HIDE DEF left
    <2> QED BY <1>1, <1>0 DEF HostRecord
  <1>3. hosts' = [hosts EXCEPT ![h] = rec]
    BY DEF Reserve
  <1> HIDE DEF rec
  <1> QED BY <1>2, <1>3, WriteType

\* Release stays within the total.
LEMMA ReleaseType ==
    ASSUME NEW h \in Host, NEW d \in Amount, HostsTypeOK, Release(h, d)
    PROVE  HostsTypeOK'
  <1> DEFINE left == [r \in Resource |->
                        Least(hosts[h].alloc[r] + d[r], hosts[h].total[r])]
             rec  == IF hosts[h].known THEN [hosts[h] EXCEPT !.alloc = left] ELSE hosts[h]
  <1>0. hosts[h] \in HostRecord
    BY RecordType
  <1>1. left \in Amount
    BY <1>0 DEF HostRecord, Amount, Least
  <1>2. rec \in HostRecord
    <2> HIDE DEF left
    <2> QED BY <1>1, <1>0 DEF HostRecord
  <1>3. hosts' = [hosts EXCEPT ![h] = rec]
    BY DEF Release
  <1> HIDE DEF rec
  <1> QED BY <1>2, <1>3, WriteType

\* MarkDown, the host reaper and the clock change status and age only.
LEMMA MarkDownType ==
    ASSUME NEW h \in Host, HostsTypeOK, MarkDown(h)
    PROVE  HostsTypeOK'
  <1> DEFINE rec == IF hosts[h].known THEN [hosts[h] EXCEPT !.status = "down"] ELSE hosts[h]
  <1>0. hosts[h] \in HostRecord
    BY RecordType
  <1>1. rec \in HostRecord
    BY <1>0 DEF HostRecord
  <1>2. hosts' = [hosts EXCEPT ![h] = rec]
    BY DEF MarkDown
  <1> HIDE DEF rec
  <1> QED BY <1>1, <1>2, WriteType

\* The host reaper's sweep keeps the inventory well typed.
LEMMA MarkStaleType ==
    ASSUME HostsTypeOK, MarkStale
    PROVE  HostsTypeOK'
  <1>1. ASSUME NEW h \in Host
        PROVE  (IF hosts[h].known /\ hosts[h].age # Fresh
                  THEN [hosts[h] EXCEPT !.status = "down"] ELSE hosts[h]) \in HostRecord
    <2>1. hosts[h] \in HostRecord
      BY RecordType
    <2> QED BY <2>1 DEF HostRecord
  <1> QED BY <1>1 DEF MarkStale, HostsTypeOK

\* The clock moves the age from one class to the next.
LEMMA AgeType ==
    ASSUME NEW h \in Host, HostsTypeOK, HeartbeatAges(h)
    PROVE  HostsTypeOK'
  <1> DEFINE rec == [hosts[h] EXCEPT !.age = hosts[h].age + 1]
  <1>0. hosts[h] \in HostRecord
    BY RecordType
  <1>1. hosts[h].age + 1 \in {Fresh, Stale, Dead}
    BY <1>0 DEF HostRecord, HeartbeatAges, Fresh, Stale, Dead
  <1>2. rec \in HostRecord
    BY <1>1, <1>0 DEF HostRecord
  <1>3. hosts' = [hosts EXCEPT ![h] = rec]
    BY DEF HeartbeatAges
  <1> HIDE DEF rec
  <1> QED BY <1>2, <1>3, WriteType

-----------------------------------------------------------------------------
(* What each method does to the books: the known hosts, their totals and   *)
(* what is left to hand out on them.                                       *)

\* The step books no capacity.
SameBooks ==
    \A h \in Host : /\ hosts'[h].known = hosts[h].known
                    /\ hosts'[h].total = hosts[h].total
                    /\ hosts'[h].alloc = hosts[h].alloc

\* Reserve takes the demand from one host's allocatable capacity.
LEMMA ReserveBooks ==
    ASSUME HostsTypeOK, NEW h \in Host, NEW d \in Amount, Reserve(h, d)
    PROVE  /\ hosts[h].known
           /\ \A g \in Host : /\ hosts'[g].known = hosts[g].known
                              /\ hosts'[g].total = hosts[g].total
           /\ \A g \in Host : g # h => hosts'[g].alloc = hosts[g].alloc
           /\ \A r \in Resource : /\ d[r] <= hosts[h].alloc[r]
                                   /\ hosts'[h].alloc[r] = hosts[h].alloc[r] - d[r]
  <1>1. hosts \in [Host -> HostRecord] /\ hosts[h] \in HostRecord
    BY DEF HostsTypeOK
  <1>2. hosts[h].known /\ \A r \in Resource : d[r] <= hosts[h].alloc[r]
    BY DEF Reserve, CanReserve, Placeable, Fits
  <1> DEFINE rec == [hosts[h] EXCEPT
                        !.alloc = [r \in Resource |-> hosts[h].alloc[r] - d[r]]]
  <1>3. /\ rec.known = hosts[h].known /\ rec.total = hosts[h].total
        /\ \A r \in Resource : rec.alloc[r] = hosts[h].alloc[r] - d[r]
    BY <1>1 DEF HostRecord
  <1>4. hosts' = [hosts EXCEPT ![h] = rec]
    BY DEF Reserve
  <1> HIDE DEF rec
  <1>5. hosts'[h] = rec /\ \A g \in Host : g # h => hosts'[g] = hosts[g]
    BY <1>1, <1>4
  <1> QED BY <1>2, <1>3, <1>5

\* Release adds the demand to it, and never exceeds the total.
LEMMA ReleaseBooks ==
    ASSUME HostsTypeOK, NEW h \in Host, NEW d \in Amount, Release(h, d)
    PROVE  /\ \A g \in Host : /\ hosts'[g].known = hosts[g].known
                              /\ hosts'[g].total = hosts[g].total
           /\ \A g \in Host : g # h => hosts'[g].alloc = hosts[g].alloc
           /\ hosts[h].known =>
                 \A r \in Resource :
                     /\ hosts'[h].alloc[r] <= hosts[h].alloc[r] + d[r]
                     /\ \/ hosts'[h].alloc[r] = hosts[h].alloc[r] + d[r]
                        \/ hosts'[h].alloc[r] = hosts[h].total[r]
  <1>1. hosts \in [Host -> HostRecord] /\ hosts[h] \in HostRecord
    BY DEF HostsTypeOK
  <1> DEFINE back == [r \in Resource |->
                         Least(hosts[h].alloc[r] + d[r], hosts[h].total[r])]
             rec == IF hosts[h].known THEN [hosts[h] EXCEPT !.alloc = back] ELSE hosts[h]
  <1>2. \A r \in Resource : /\ back[r] <= hosts[h].alloc[r] + d[r]
                            /\ \/ back[r] = hosts[h].alloc[r] + d[r]
                               \/ back[r] = hosts[h].total[r]
    BY <1>1 DEF HostRecord, Amount, Least
  <1> HIDE DEF back
  <1>3. /\ rec.known = hosts[h].known /\ rec.total = hosts[h].total
        /\ hosts[h].known => rec.alloc = back
    BY <1>1 DEF HostRecord
  <1>4. hosts' = [hosts EXCEPT ![h] = rec]
    BY DEF Release, back
  <1> HIDE DEF rec
  <1>5. hosts'[h] = rec /\ \A g \in Host : g # h => hosts'[g] = hosts[g]
    BY <1>1, <1>4
  <1> QED BY <1>2, <1>3, <1>5

\* Marking a host down, a heartbeat and the passing of time book nothing.
LEMMA StatusBooks ==
    ASSUME HostsTypeOK,
           \/ \E h \in Host : MarkDown(h) \/ Heartbeat(h) \/ HeartbeatAges(h)
           \/ MarkStale
    PROVE  SameBooks
  <1>1. hosts \in [Host -> HostRecord]
    BY DEF HostsTypeOK
  <1>2. ASSUME NEW h \in Host, MarkDown(h) \/ Heartbeat(h) \/ HeartbeatAges(h)
        PROVE  SameBooks
    <2>1. hosts[h] \in HostRecord
      BY <1>1
    <2>2. ASSUME NEW rec, hosts' = [hosts EXCEPT ![h] = rec],
                 rec.known = hosts[h].known, rec.total = hosts[h].total,
                 rec.alloc = hosts[h].alloc
          PROVE  SameBooks
      BY <1>1, <2>2 DEF SameBooks
    <2>3. CASE MarkDown(h)
      BY <2>1, <2>2, <2>3 DEF MarkDown, HostRecord
    <2>4. CASE Heartbeat(h)
      BY <2>1, <2>2, <2>4 DEF Heartbeat, HostRecord
    <2>5. CASE HeartbeatAges(h)
      BY <2>1, <2>2, <2>5 DEF HeartbeatAges, HostRecord
    <2> QED BY <1>2, <2>3, <2>4, <2>5
  <1>3. CASE MarkStale
    <2>1. \A h \in Host : hosts[h] \in HostRecord
      BY <1>1
    <2> QED BY <1>3, <2>1 DEF MarkStale, SameBooks, HostRecord
  <1> QED BY <1>2, <1>3

\* What a registration leaves to hand out.
LEMMA RegisterBooks ==
    ASSUME HostsTypeOK, NEW h \in Host, NEW total \in Amount, NEW used \in Amount,
           RegisterReserved(h, total, used)
    PROVE  /\ hosts'[h].known /\ hosts'[h].total = total
           /\ \A g \in Host : g # h => hosts'[g] = hosts[g]
           /\ hosts[h].known => hosts'[h].alloc = hosts[h].alloc
           /\ ~hosts[h].known =>
                 \A r \in Resource :
                     \/ hosts'[h].alloc[r] = 0 /\ total[r] < used[r]
                     \/ hosts'[h].alloc[r] = total[r] - used[r]
  <1>1. hosts \in [Host -> HostRecord]
    BY DEF HostsTypeOK
  <1> DEFINE left == [r \in Resource |-> ClampNonNeg(total[r] - used[r])]
             rec == [known |-> TRUE, status |-> "ready", total |-> total,
                     alloc |-> IF hosts[h].known THEN hosts[h].alloc ELSE left,
                     age |-> Fresh]
  <1>2. \A r \in Resource : \/ left[r] = 0 /\ total[r] < used[r]
                            \/ left[r] = total[r] - used[r]
    BY DEF ClampNonNeg, Amount
  <1>3. hosts' = [hosts EXCEPT ![h] = rec]
    BY DEF RegisterReserved
  <1> HIDE DEF left
  <1>4. /\ rec.known /\ rec.total = total
        /\ rec.alloc = IF hosts[h].known THEN hosts[h].alloc ELSE left
    OBVIOUS
  <1> HIDE DEF rec
  <1>5. hosts'[h] = rec /\ \A g \in Host : g # h => hosts'[g] = hosts[g]
    BY <1>1, <1>3
  <1> QED BY <1>2, <1>4, <1>5
=============================================================================
