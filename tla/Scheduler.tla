----------------------------- MODULE Scheduler -----------------------------
(***************************************************************************)
(* Concurrent placement (internal/scheduler/scheduler.go).  Schedule reads *)
(* the ready hosts once, then tries to reserve on each fitting one, most   *)
(* free first, against an inventory that other schedulers, streams, and    *)
(* the reaper change between the two.  The package promises that one       *)
(* scheduler per caller over a shared inventory is safe; here every server *)
(* is placed by a caller of its own.                                       *)
(*                                                                         *)
(* Sizes is the set of totals an agent may announce when it registers.     *)
(***************************************************************************)
EXTENDS HostInventory

CONSTANT Sizes          \* Sizes[h] is the set of totals host h may announce

VARIABLES at,           \* host a server holds a reservation on, or NoHost
          cand,         \* hosts of its snapshot Schedule has yet to try
          view          \* allocatable capacities as of its snapshot

vars == <<hosts, at, cand, view>>

ASSUME SchedulerAssumption == Sizes \in [Host -> SUBSET Amount]

TypeOK == /\ HostsTypeOK
          /\ at \in [Server -> Host \cup {NoHost}]
          /\ cand \in [Server -> SUBSET Host]
          /\ view \in [Server -> [Host -> Amount]]

NoView == [h \in Host |-> Zero]

Init == /\ HostsInit
        /\ at = [s \in Server |-> NoHost]
        /\ cand = [s \in Server |-> {}]
        /\ view = [s \in Server |-> NoView]

\* fittingHosts orders by free memory, then by free cpu.
MoreFree(a, b) == \/ a["mem"] > b["mem"]
                  \/ a["mem"] = b["mem"] /\ a["cpu"] > b["cpu"]

\* The candidates tried next; SliceStable leaves ties in snapshot order, which
\* is any order here.
MostFree(s) == {h \in cand[s] : \A g \in cand[s] : ~MoreFree(view[s][g], view[s][h])}

\* Schedule, first half: ListReady and fittingHosts.
Snapshot(s) ==
    /\ at[s] = NoHost
    /\ cand[s] = {}
    /\ cand' = [cand EXCEPT ![s] = {h \in Host : CanReserve(h, Demand[s])}]
    /\ view' = [view EXCEPT ![s] = [h \in Host |->
                    IF CanReserve(h, Demand[s]) THEN hosts[h].alloc ELSE Zero]]
    /\ UNCHANGED <<hosts, at>>

\* Schedule, one iteration: the reservation is taken on this host ...
TryReserve(s, h) ==
    /\ h \in MostFree(s)
    /\ Reserve(h, Demand[s])
    /\ at' = [at EXCEPT ![s] = h]
    /\ cand' = [cand EXCEPT ![s] = {}]
    /\ view' = [view EXCEPT ![s] = NoView]

\* ... or it is refused (another caller was faster, the host went down) and the
\* next candidate is tried; past the last one the result is ErrNoCapacity.
FallThrough(s, h) ==
    /\ h \in MostFree(s)
    /\ ~CanReserve(h, Demand[s])
    /\ cand' = [cand EXCEPT ![s] = cand[s] \ {h}]
    /\ view' = [view EXCEPT ![s] = IF cand[s] = {h} THEN NoView ELSE view[s]]
    /\ UNCHANGED <<hosts, at>>

\* Scheduler.Release, when the placed server is torn down.
TearDown(s) ==
    /\ at[s] # NoHost
    /\ Release(at[s], Demand[s])
    /\ at' = [at EXCEPT ![s] = NoHost]
    /\ UNCHANGED <<cand, view>>

\* The rest of the process works on the same inventory meanwhile.  A first
\* registration finds nothing committed to the host.
FleetChanges(h) ==
    /\ \/ \E total \in Sizes[h] : RegisterReserved(h, total, Zero)
       \/ Heartbeat(h)
       \/ MarkDown(h)
       \/ HeartbeatAges(h)
    /\ UNCHANGED <<at, cand, view>>

Reap == MarkStale /\ UNCHANGED <<at, cand, view>>

Next == \/ \E s \in Server : Snapshot(s) \/ TearDown(s)
        \/ \E s \in Server, h \in Host : TryReserve(s, h) \/ FallThrough(s, h)
        \/ \E h \in Host : FleetChanges(h)
        \/ Reap

Spec == Init /\ [][Next]_vars

-----------------------------------------------------------------------------

\* The servers holding a reservation on h.
HeldOn(h) == {s \in Server : at[s] = h}

\* The allocatable capacity of a host is exactly its total minus the specs of
\* the servers placed on it, whatever stale snapshots the callers of Schedule
\* acted on: Reserve and Release never lose, duplicate or invent capacity.
Conserved ==
    \A h \in Host, r \in Resource :
        hosts[h].known =>
            hosts[h].alloc[r] + Committed(HeldOn(h), r) = hosts[h].total[r]
=============================================================================
