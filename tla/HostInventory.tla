---------------------------- MODULE HostInventory ----------------------------
(***************************************************************************)
(* The in-memory fleet inventory of the control plane                      *)
(* (internal/repository/host.go).  Every method runs under one mutex, so   *)
(* each is one atomic step on the variable hosts.  A host is identified by *)
(* the stable id its agent supplies (matchExisting by id): an agent that   *)
(* comes back under a new id is simply another element of Host.            *)
(*                                                                         *)
(* LastHeartbeatAt is kept as an age class.  The code only ever compares   *)
(* it with two thresholds: the reaper's ttl (30s) and the reconciler's     *)
(* hostDeadAfter (90s).                                                    *)
(***************************************************************************)
EXTENDS Fleet

VARIABLE hosts          \* HostRepository.hosts

\* Heartbeat ages: within the ttl, past the ttl, past hostDeadAfter.
Fresh == 0
Stale == 1
Dead  == 2

HostRecord == [known  : BOOLEAN,
               status : {"ready", "down"},
               total  : Amount,
               alloc  : Amount,
               age    : {Fresh, Stale, Dead}]

\* The record of a host this process has never heard of.
Unknown == [known |-> FALSE, status |-> "down", total |-> Zero,
            alloc |-> Zero, age |-> Fresh]

HostsTypeOK == hosts \in [Host -> HostRecord]

\* NewHostRepository: a fresh process knows no host.
HostsInit == hosts = [h \in Host |-> Unknown]

-----------------------------------------------------------------------------
(* Reads.                                                                  *)

\* ListReady, and Scheduler.Placeable which looks a host up in it.
Placeable(h) == hosts[h].known /\ hosts[h].status = "ready"

\* Mutant: the reaper's ttl instead of hostDeadAfter.
HostStale(h) == ~hosts[h].known \/ hosts[h].age # Fresh

\* Reconciler.hostDeadTooLong over Scheduler.LastHeartbeat: a host that is not
\* in the inventory counts as dead.
HostDeadTooLong(h) == ~hosts[h].known \/ hosts[h].age = Dead

\* Scheduler.CanEverFit: with no host known yet everything may wait.
CanEverFit(demand) ==
    \/ \A h \in Host : ~hosts[h].known
    \/ \E h \in Host : hosts[h].known /\ Fits(demand, hosts[h].total)

-----------------------------------------------------------------------------
(* Updates.                                                                *)

\* Mutant: a host that reconnects starts from the reserved sums again.
RegisterAfresh(h, total, reserved) ==
    hosts' = [hosts EXCEPT ![h] =
        [known  |-> TRUE,
         status |-> "ready",
         total  |-> total,
         alloc  |-> [r \in Resource |-> ClampNonNeg(total[r] - reserved[r])],
         age    |-> Fresh]]

\* RegisterReserved keeps the allocatable capacity of a host this process
\* already knows; a new host starts from total minus what is committed to it.
RegisterReserved(h, total, reserved) ==
    hosts' = [hosts EXCEPT ![h] =
        [known  |-> TRUE,
         status |-> "ready",
         total  |-> total,
         alloc  |-> IF hosts[h].known
                      THEN hosts[h].alloc
                      ELSE [r \in Resource |-> ClampNonNeg(total[r] - reserved[r])],
         age    |-> Fresh]]

\* Heartbeat: a host marked down is brought back; an unknown one is an error
\* that the hub logs.
Heartbeat(h) ==
    hosts' = [hosts EXCEPT ![h] =
        IF hosts[h].known
          THEN [hosts[h] EXCEPT !.age = Fresh, !.status = "ready"]
          ELSE hosts[h]]

\* Mutant: the capacity is not checked again under the lock.
CanReserveUnchecked(h, demand) == Placeable(h)

CanReserve(h, demand) == Placeable(h) /\ Fits(demand, hosts[h].alloc)

\* Reserve, when it succeeds.
Reserve(h, demand) ==
    /\ CanReserve(h, demand)
    /\ hosts' = [hosts EXCEPT ![h] = [hosts[h] EXCEPT
                    !.alloc = [r \in Resource |-> hosts[h].alloc[r] - demand[r]]]]

\* Mutant: only a ready host gets its capacity back.
ReleaseIfReady(h, demand) ==
    hosts' = [hosts EXCEPT ![h] =
        IF Placeable(h)
          THEN [hosts[h] EXCEPT
                  !.alloc = [r \in Resource |->
                      Least(hosts[h].alloc[r] + demand[r], hosts[h].total[r])]]
          ELSE hosts[h]]

\* Release is clamped to the total, and a no-op for an unknown host.
Release(h, demand) ==
    hosts' = [hosts EXCEPT ![h] =
        IF hosts[h].known
          THEN [hosts[h] EXCEPT
                  !.alloc = [r \in Resource |->
                      Least(hosts[h].alloc[r] + demand[r], hosts[h].total[r])]]
          ELSE hosts[h]]

MarkDown(h) ==
    hosts' = [hosts EXCEPT ![h] =
        IF hosts[h].known THEN [hosts[h] EXCEPT !.status = "down"] ELSE hosts[h]]

\* reapHosts: one sweep marks every host past the ttl down.
MarkStale ==
    hosts' = [h \in Host |->
        IF hosts[h].known /\ hosts[h].age # Fresh
          THEN [hosts[h] EXCEPT !.status = "down"]
          ELSE hosts[h]]

\* The clock: the last heartbeat of h moves past the next threshold.
HeartbeatAges(h) ==
    /\ hosts[h].known
    /\ hosts[h].age # Dead
    /\ hosts' = [hosts EXCEPT ![h] = [hosts[h] EXCEPT !.age = hosts[h].age + 1]]
=============================================================================
