# Craftling in TLA+

Craftling hosts Minecraft servers in Firecracker microVMs.  A control plane (Go,
PostgreSQL) keeps a record per game server and drives host agents over gRPC
streams until the fleet is what the records ask for.  This directory models that
machinery: placement, the reconciler, the streams, the agents' VM lifecycle, the
billing clock and the requests of users; on a host, the network of its VMs down to
the eBPF programs; and the saved world of a server.  Faults are the ones the code is
written for.

- [The system](#the-system): parts, state, operations, interactions
- [Modules](#modules) and how they correspond to the code
- [Properties and runs](#properties-and-runs), bounds, fairness
- [Where code and comments disagree](#where-code-and-comments-disagree)
- [Proofs](#proofs)
- [Not modelled](#not-modelled)
- [Plan](#plan)

## The system

| Part | Source | State | Operations |
|---|---|---|---|
| Server records | `internal/repository/game_server.go` | table `game_servers`: desired_state, status, host_id, vm_id, backup_requested, updated_at, deleted_at | one SQL statement per method: Create, SetDesiredState, AssignHost, Mark*, SoftDelete; ListRunning, ListReconcilable (oldest first, LIMIT 100), UsedCapacity |
| Host inventory | `internal/repository/host.go` | map of hosts **in memory**: status, totals, allocatable, last heartbeat | RegisterReserved, Heartbeat, Reserve, Release, MarkDown, MarkStale, each under one mutex |
| Scheduler | `internal/scheduler/scheduler.go` | none | Schedule (list, sort, reserve on the first that still fits), Release, Placeable, CanEverFit |
| Reconciler | `internal/reconciler/reconciler.go` | one goroutine; row copies from its last list query | every tick: probe running servers, then back up, start, stop or delete what is not as desired |
| Agent link | `internal/agentlink/hub.go`, `internal/agent/link.go` | streams, waiters of outstanding calls | Connect, heartbeats, commands and results |
| Remote provisioner | `internal/provisioner/remote.go` | none | Provision, Start, Stop, Evict, Deprovision, Status, Snapshot |
| Agent runtime | `internal/agent/runtime.go`, `internal/agent/firecracker/` | VMs **in memory** | the same, with a capacity check of its own |
| Host reaper | `internal/reaper/reaper.go` | none | marks hosts without a heartbeat down |
| Server API | `internal/handler/servers.go` | none | POST, PATCH, DELETE, snapshot: they write desired state and return |
| Billing meter | `internal/repository/billing.go` | open intervals | StartRunning, StopRunning, best effort |
| World store, snapshots | `internal/storage`, `internal/worldstore`, `firecracker/world*.go`, `quiesce.go`, `cmd/init/vsock_linux.go` | stored worlds, VM disks | Put, Get, Delete, live capture with a freeze in the guest, world reaper |
| VM network | `firecracker/netalloc.go`, `runtime.go`, `machine.go`, `nat_linux.go` | addresses, ports, eBPF maps | allocate, release, publish, withdraw |
| Packet path | `firecracker/bpf/nat.c`, `bpf/tapfilter.c` | the same maps, the kernel's connection table | nat_tap, nat_uplink, tapfilter, on any CPU for each packet |
| Images | `internal/image`, `internal/squashfs` | cache directory | pull, convert, publish by rename |
| Accounts | `internal/auth`, `handler/auth.go`, `handler/quota.go`, `handler/players.go` | users, tokens, quotas, whitelist | |

Everything above the agents shares one process but no transaction.  A placement
touches three stores: a reservation in memory, an assignment in the database, a
VM on an agent; the reconciler orders these steps and must cope with each of
them failing.  What makes that hard:

- the inventory is rebuilt from the database and the redialling agents after a
  restart, while the reconciler is already working;
- a Connect handler reads the committed capacity and registers the host in two
  steps, and its end marks the host down in yet another one;
- the reconciler works on copies of rows that users change meanwhile;
- a stream may be lost with a call outstanding: the command may or may not have
  been executed, and may still be executed later;
- agents forget their VMs when they restart, guests power themselves off;
- row, reservation and billing interval are written one after the other;
- on a host, commands for different VMs, packets on several CPUs and the kernel's
  timeouts share two pools, two maps and a connection table, with a lock around
  the pools only;
- a world is captured, stored, restored and deleted by a sweep, two kinds of
  commands, Stop, Provision and a reaper in another process, without any lock.

`PROJECT.json` lists these hazards with the lines where they bite.

What the system owes its users, informally: no host is promised twice and no
capacity is lost; a server has at most one VM, where its record says; a stopped
or deleted server has none; a healthy server is not taken down for a short
interruption; running time is billed and only that; and every server eventually
gets where its user wants it.  A VM is reachable at its address and port, and what
it is sent and answers finds its way; a world is stored whole, never goes back and
never disappears while its server exists.

## Modules

```
Fleet ── HostInventory ── Scheduler ── MCScheduler
   ├──── HostInventory ┐
   ├──── ServerRecords ├─ AgentLink ── ControlPlane ── MCControlPlane
   └──── AgentRuntime  ┘

Ledger  (instantiated by ControlPlane)

HostNetwork ── Nat ── MCNat
Worlds

HostInventoryProofs ─┬─ SchedulerProofs
                     └─ ControlPlaneProofs ── RecordsProofs ─┬─ CapacityProofs
                                                             └─ StrayProofs
Nat ── NetworkProofs
Worlds ── WorldsProofs
```

**Fleet** has the ids, the two resources, each server's demand, and sums of
demands.  A sum is the cardinality of a set of units, so that the laws of finite
sets apply to it in proofs.

**HostInventory** has one operator per method of `HostRepository`.  Heartbeat
times are kept as three classes, since the code compares them with two
thresholds: `Fresh`, `Stale` (past the reaper's 30s), `Dead` (past the
reconciler's 90s).

**ServerRecords** has one operator per statement of `GameServerRepository`.
`updated_at` is kept as the order it induces (`order`), which is all the two
`ORDER BY updated_at LIMIT` queries look at.

**AgentRuntime** is the `Runtime` interface as `FakeRuntime` implements it: a
missing VM is an error for Start and success for Stop, Evict and Deprovision; only
running VMs count against the host.  From the firecracker runtime it takes a guest that
powers itself off (`exited`): nobody waits for its process before a Stop or a teardown,
the process still takes signal 0, and so running() still holds (`SeemsRunning`); `UpOn`
says whether the guest is really there.  `vms` is what the agents know.  A restarted
agent knows of nothing (`AgentForgets`), though Firecracker processes of its predecessor
may be left.

**AgentLink** is the streams and the agents' side of a call.  `link` says whether
the current stream of a host is up, down or half open; `joining` holds what a
Connect handler has read and not yet registered; `ending` says that a handler has
dropped its stream and not yet marked the host down.  `wire` holds commands sent
and not yet executed; `awaited` is false once the stream they came from is gone,
their result is then dropped.  `waiter`, `reply` and `got` are the one outstanding
call of the reconciler.

**ControlPlane** composes them with the reconciler, the API and crashes.  `pc`
names what the reconciler does next: each value is one SQL statement, inventory
call or agent call, so everything else can happen in between.  `snap` and `loc` are the
copies of rows the code works on; guards on `loc` are decisions the code takes on
its stale copy.

| `pc` | reconciler.go |
|---|---|
| idle, probe, lost, lostBilling | checkLiveness, checkServerLiveness, markLost |
| list, next, fail | ReconcileOnce, reconcile |
| backup, backupFailed, markBackedUp | backup |
| dropStale, dropRelease, unassign | dropStalePlacement |
| schedule, assign, unreserve, unschedulable | place |
| markProvisioning, boot, markRunning, startBilling | start, provisionOrStart |
| markStopping, stop, evict, release, markStopped, stopBilling | stop |
| markDeleting, deprovision, checkReachable, release, softDelete, stopBilling | delete |

**Ledger** is what placement promises, without reservations, streams, agents or
retries: a function from servers to hosts, a step that books one free server on a
host that holds it together with those already there, and a step that frees one.
ControlPlane instantiates it (`Book`) with the host of every live row.  How much a
host holds is a parameter of Ledger, so that it does not depend on how demands are
summed.

**Scheduler** is a separate composition for what the reconciler alone cannot
show: several callers of `Schedule` over one inventory, each with its own stale
snapshot, as the package comment promises.

**HostNetwork** is one host's agent as far as the network of its VMs goes.  `at[m]`
is how far the command at work on VM m has come: Provision is capacity check,
allocation, TAP, publication, boot and insertion into the runtime's map, each a
step with its error path; teardown is kill, withdraw, release.  `ipam` is the two
pools with their cursors, `vm_config` and `dnat_rules` the eBPF maps.  `NextFree`
says what the scans of takeIP and takePort find rather than how they loop.

| `at` | runtime.go, machine.go, mmds.go |
|---|---|
| new, checked | Provision up to ipam.allocate |
| allocated, tapped | prepareWorldDisk, boot up to createTAP |
| published | after publishVM |
| ready | in the runtime's map |
| killed, withdrawn, gone | teardown |

**Nat** composes it with the packet path.  A packet is its tuple; `cpu[c]` is the
program a CPU is running, with one step per access to the connection table or the
maps, so that insertions race and the agent's writes come in between.  The
connection table `ct` is the kernel's and is modelled from the calls that nat.c
makes (`bpf_skb_ct_lookup`, `bpf_skb_ct_alloc`, `bpf_ct_set_nat_info`,
`bpf_ct_insert_entry`).  `sent` holds the sources a remote has been shown and may
answer to, `heard` the clients a VM has got packets from.  `reused` records the VMs
whose address or port still had table entries of an earlier VM, `lapsed` the flows
whose entry timed out or was refused because of such a leftover: the ones that the
properties set apart.

**Worlds** is the saved world of one server.  A world is a version number, playing
makes the next one.  A disk copied while the guest was writing it is `Mixed`: it packs
and unpacks like any other.  A packed image that is cut short or overwritten is
`Broken`: it does not unpack.  `snap[p]` is the progress of `snapshotRunning` for the
sweep and for a backup command, `serving` and `frozen` the guest's side of it, `tmp`
the one temporary file both capture into, `op` the lifecycle command at work, `reaper`
the reaper between its two listings and its delete.  `vm` has the states of
AgentRuntime.  A host that is given up (`HostLost`) is dead, or only out of touch: its
guest and its sweep then go on, and the snapshot slot `Astray` stands for them
(`StrayPublish`).  `late` records that such a guest, or a snapshot that outlived its
guest, has published.

Simplifications, beyond the ones above:

- In HostNetwork all VMs have the same size, and commands of one VM do not overlap.
  publishVM and withdrawVM write two map entries in one step; the entries belong to
  one VM and packets in between are dropped or go to the host's own stack.
- In Nat, headers, checksums, counters and ring-buffer events are left out.  The
  policy tries are the set `Blocked`; tapfilter's setting is chosen at the start.
- In Worlds, delete's write of the status and its Deprovision are one step, since
  nobody looks at the row in between; so is a delete whose host cannot be reached.
  A host has one VM of the server: the agent does not restart, and a server that was
  given up is not placed on the same host again while the old guest is there (either
  would let two guests share one disk file).  There are at most as many guests on
  given-up hosts as there are backup slots.
- `RegisterReserved` and the hub's `add` that follows it are one step.  A Connect
  whose `UsedCapacity` fails changes nothing: the agent redials.  At most one
  handler per host is between losing its stream and marking the host down.
- An API handler's read of the row and its write are one step; a PATCH with both
  a spec and a desired state is two requests.  The desired state is written
  whatever it was, as in the code, so a handler that acts on a stale read is a
  handler that runs later.
- In ControlPlane, `Schedule` is one step: nothing else reserves there.
- A liveness probe is one step.  Health telemetry does not touch `updated_at` and
  is left out, as is the whitelist push.
- Faults draw on a budget (`MaxFaults`) of the kinds in `FaultKinds`: drop (a
  stream ends), silence (half open), restart (of an agent), op (an agent operation
  fails, possibly half done), exit (a guest powers itself off), db (a statement
  fails), crash (of the control plane).

## Properties and runs

Passing runs.  Numbers are distinct states.

| Run | Instance | Faults | Checks | States |
|---|---|---|---|---|
| `scheduler` | 3 servers of different shapes, 2 hosts | hosts down, stale, re-registered | TypeOK, Conserved | 9 K |
| `placement` | 2 servers, 1 host with room for one, 3 VMs, 4 requests | one of drop, silence, restart, op, exit; no host is silent past the grace period | TypeOK, NoOvercommit, NoStrayVM, KeepsLedger | 376 K |
| `outage` | 1 server, 2 hosts, 3 requests | one of drop, silence, restart, op, exit, any length | NoCapacityLeak, RunningIsBilled, DownIsNotBilled, LostOnlyAfterGrace | 224 K |
| `database` | 1 server, 2 hosts, 3 requests | two of db, crash, drop | RecordsMatchVMs, PinnedWhileProvisioned | 973 K |
| `converge` | 2 servers, 1 host, 3 requests, fair | one of drop, restart, op | Converges, DeadVMNoticed | 205 K |
| `host` | 4 VMs, 3 free addresses, 2 ports, room for 2 | failed allocations and boots | HostTypeOK, PoolsExact, ReachableWhileReady | 35 K |
| `network` | 2 VMs, 2 CPUs, a player, a web server, one public port for all | failed boots, one flow times out | TypeOK, AnswersComeBack, AnswersFromPublishedPort | 1.3 M |
| `worlds` | sweep and backup, two world versions, fair | every step fails, guests exit, hosts are given up dead or alive | TypeOK, CapturesWhole, SpoiledOnlyWhenLate, GoesBackOnlyWhenLate, LiveWorldKept, ThawedInTheEnd, OrphansReaped | 555 K |

- *Conserved*: allocatable plus held reservations is the total of every host,
  whatever stale snapshots the callers of Schedule act on.
- *NoOvercommit*, *NoCapacityLeak*: what the inventory would still hand out plus
  what the rows commit (counting a reservation whose row is not written yet, not
  counting a released one whose row is not written yet) is at most, and at least,
  the host's capacity.  The second holds within one life of the process only: after
  a restart, a release made between a handler's read of UsedCapacity and its
  registration of the host finds no host to give back to, and the host starts with
  too little to hand out.  *NoOvercommit* is checked without crashes and database
  errors; the proof allows crashes.
- *NoStrayVM*: every VM in an agent's map is the one its server's row names, on the
  row's host, or is just being booted.  So no server has two VMs and no stopped one has
  any, as far as agents know: a Firecracker process that outlived its agent is in no
  map, and nothing in the code looks for it.
- *RecordsMatchVMs*, *PinnedWhileProvisioned*: a row never names another server's
  VM or one on another host, and a server with a VM keeps its host.  The run has one
  server and two hosts; that a row names no other server's VM is shown by the proof.
- *LostOnlyAfterGrace*: a server whose VM runs is given up only past hostDeadAfter,
  within one life of the process.
- *RunningIsBilled*, *DownIsNotBilled*: the open intervals follow the rows.
- *KeepsLedger*: the rows, seen through `PlacedOn`, behave as `Ledger`: a server
  gets a host only if that host holds it with those already placed there, never
  moves from host to host in one step, and no step changes two servers.
- *Converges*: once users and faults have come to rest, every server gets where its
  user wants it and stays there.  *DeadVMNoticed*: no row says running for good while
  no guest is up.  Premises and fairness are below.
- *PoolsExact*: addresses and ports in use are exactly those that VMs hold, and no
  two VMs share one.  *ReachableWhileReady*: a VM keeps its two map entries, whatever
  happens to VMs that had its address or port before.
- *AnswersComeBack*: an answer to any source that nat_tap has shown a remote reaches
  the VM, or host, and port of that flow.  *AnswersFromPublishedPort*: a player is
  answered from the port they dialled.  Both leave out VMs whose address or port still
  had table entries of an earlier VM (withdrawVM does not flush them) and remotes that
  have lost an entry: a flow of theirs timed out, or was refused the entry because a
  leftover was in the way.  The last case takes three VMs and was found by the proof: a
  VM on a port with a leftover hears a player without getting an entry, its answer
  takes whatever public port the kernel picks, and that may be the published port of a
  third VM that the same player is just dialling.
- *CapturesWhole*: a live snapshot that kept its guest is as whole as the disk it was
  taken from.  *SpoiledOnlyWhenLate*: no mixed or broken image is in the store, and no
  mixed one on the disk, until a snapshot that outlived its guest, or a guest on a
  given-up host, has published.  *GoesBackOnlyWhenLate*: nor does the stored world go
  back.  *LiveWorldKept*: no stored world is deleted
  before its server's deletion is under way.
- *ThawedInTheEnd*: a frozen guest is thawed, whichever step fails.  *OrphansReaped*:
  the world of a deleted server goes, even if an upload brings it back.

Why the bounds are enough for the cases to happen: two servers on a host with
room for one give contention, waiting and being freed; one server and two hosts
give rescheduling and a VM left on the wrong host; three requests are create,
stop, start or create, create, delete; `Limit` = number of servers keeps the
queries complete.  One fault in the
wrong place is what each handler is written for; `database` has two since a retry
that fails again is the interesting case there.  VM ids are fresh; there are more of
them than the instance can use up.  Symmetry is used in the safety runs only, where
nothing tells servers, hosts or CPUs apart.

In `host` the gateway lies inside the range, both pools run out and both cursors
wrap, and the fourth VM takes over what earlier ones left.  In `network` the port
the kernel picks for a source, the published port and the host's own port are one
and the same, so that all lookups compete; two CPUs are enough for an insertion
race, and one lapsed flow (`MaxLapsed`) for a flow that starts over.  In `worlds`
two versions tell older from newer; the safety properties also hold with three.

Fairness (`FairSpec`): the reconciler's goroutine keeps taking steps (its ticker
never stops); agents execute the commands they received (a goroutine each), redial
(every five seconds, forever) and send heartbeats.  Nothing is assumed of users,
faults, the reaper or the end of an old Connect handler.  Both liveness
properties carry the premise that no call hangs forever, since a lost stream does
hang one (run `wedged`).  *Converges* has two more: no VM of a deleted server is left
over on a live host (run `delete_leak`), and no server stays `Trapped`, to be started
with a vm_id that its agent no longer has.  The `op` faults of the run reach that
state; every other outcome of a failed operation, and every agent restart, is repaired.
Guests that power themselves off are not among the faults of this run, since the code
does not notice them (see the next section).

In Worlds, a snapshot that has been dialled ends, as every wait in it has a deadline
(stated as []<> of being idle: weak fairness of its steps comes to the same and takes
TLC far longer); the guest's server notices that a connection has ended; the reaper keeps
listing, and its listing of the rows and its delete are not refused forever (strong
fairness, as errors may come in between).  Nothing is assumed of the game, the
lifecycle commands or the start of snapshots.

## Where code and comments disagree

Each of these runs checks one property that a comment of the code states, and
TLC finds a behaviour of the code that violates it.  `PROJECT.json` quotes the
lines.

| Run | Property | Behaviour |
|---|---|---|
| `wedged` | CallsReturn | A stream ends during a call.  Nothing fails the waiter and the context has no deadline: the reconciler waits for good. |
| `delete_leak` | DeletedLeavesNoVM | A delete during a short disconnect is finalised; the agent returns with the VM. |
| `expired_flow` | AnswersFromPublishedPortAlways | Redirected packets bypass the host's stack and nothing extends an entry, so a player's connection loses its entry after CT_TIMEOUT; the VM's next packet leaves from another port. |
| `stale_snapshot` | NeverGoesBack | The sweep captures, a Stop halts the guest and stores the final world, then the sweep's upload replaces it. |

Other disagreements are kept as hazards in `PROJECT.json`; the properties they
concern are checked under the premise that excludes them:

- a guest that powers itself off is never noticed (DeadVMNoticed; with `exit` among the
  faults of `converge` TLC finds the behaviour).  The agent does not wait for the
  process, so `kill(pid, 0)` succeeds on the zombie and Status reports it running.
  reconciler.go:157-159 calls the probe "the only place a VM that died under us gets
  noticed and dropped back to pending", machine.go:219 says "running reports whether the
  Firecracker process is still alive", and powerOff (run_linux.go:267) that a reset
  "exits the VMM, freeing the slot", which it does not free;
- a snapshot whose guest was stopped or has exited under it may publish an image that
  mixes two versions, which the next Provision unpacks and boots (SpoiledOnlyWhenLate);
- a guest on a host that was given up while only out of touch goes on publishing its
  world over its successor's (GoesBackOnlyWhenLate, SpoiledOnlyWhenLate);
- with more running servers than the LIMIT of ListRunning, the same oldest rows are
  probed on every tick (DeadVMNoticed);
- after a restart of the control plane an unknown host counts as dead, so healthy
  servers are given up before their agents redial (LostOnlyAfterGrace);
- when the write of a row fails after its reservation was released, the capacity is
  handed out twice (NoOvercommit);
- a stop that fails after its VM is gone traps a server whose user wants it back
  (Converges);
- after a RESUME that was not delivered the guest thaws, but nobody tells the game
  to save again (ThawedInTheEnd is about the file system only);
- with tapfilter on, its TC_ACT_OK ends the chain of programs on the TAP before
  nat_tap (`Handle`).

## Proofs

TLAPS checks these for every number of servers, hosts, VMs, addresses, ports, CPUs
and snapshotters, every demand and capacity, and every fault budget.  Assumptions on
the constants are the named ASSUMEs of the modules: finite sets of servers and VMs,
absent ids are not ids, amounts are natural numbers, remotes have other addresses than
the host and its VMs.  Further premises are hypotheses of the theorem, in the last
column of the table.  Without them the property fails, as described under
[Properties and runs](#properties-and-runs), in the list of
[disagreements](#where-code-and-comments-disagree) or below.

| Theorem | Property | Premises |
|---|---|---|
| `SchedulerProofs!TypeCorrect` | TypeOK: allocatable is never negative | |
| `SchedulerProofs!CapacityConserved` | Conserved | hosts keep their sizes (`FixedSizes`) |
| `ControlPlaneProofs!TypeCorrect` | TypeOK of the whole composition | |
| `RecordsProofs!RecordsAlwaysMatch` | RecordsMatchVMs | |
| `RecordsProofs!AlwaysPinned` | PinnedWhileProvisioned | |
| `RecordsProofs!LostAfterGrace` | LostOnlyAfterGrace | `NoCrash` |
| `RecordsProofs!RunningAlwaysBilled` | RunningIsBilled | `NoCrash`, `NoDatabaseFaults` |
| `RecordsProofs!DownNeverBilled` | DownIsNotBilled | `NoCrash`, `NoDatabaseFaults` |
| `CapacityProofs!NeverOvercommitted` | NoOvercommit | `NoDatabaseFaults` |
| `CapacityProofs!NeverLeaks` | NoCapacityLeak | `NoCrash` |
| `CapacityProofs!ImplementsLedger` | KeepsLedger: ControlPlane implements Ledger | `NoDatabaseFaults` |
| `StrayProofs!NoStrays` | NoStrayVM | `NoLosses` |
| `NetworkProofs!PoolsAlwaysExact` | PoolsExact | |
| `NetworkProofs!AlwaysReachable` | ReachableWhileReady | |
| `NetworkProofs!PathImplementsHost` | Nat's steps are steps of HostNetwork on its state, so HostTypeOK and the two above hold in the composition | |
| `NetworkProofs!PathTypeCorrect` | TypeOK of Nat | |
| `NetworkProofs!AnswersAlwaysComeBack` | AnswersComeBack | |
| `NetworkProofs!PublishedPortAlwaysAnswers` | AnswersFromPublishedPort | |
| `WorldsProofs!TypeCorrect` | TypeOK of Worlds: no image that does not unpack becomes a disk | |
| `WorldsProofs!WorldsKept` | LiveWorldKept | |
| `WorldsProofs!CapturesAlwaysWhole` | CapturesWhole | |
| `WorldsProofs!OnlyLateGoesBack` | GoesBackOnlyWhenLate | |
| `WorldsProofs!OnlyLateSpoils` | SpoiledOnlyWhenLate | |

Every safety property that a passing run checks is among them.  Apart from the types of
the scheduler none is inductive as it stands; what each rests on follows.

**Sums and the inventory** (`HostInventoryProofs`).  The laws of sums of demands
(monotone, additive for one server), from the cardinality theorems of the library, and
for each method of the inventory what it does to types and to allocatable.
*Conserved* needs that the total of a known host is the only size it may announce; then
Reserve moves a demand from allocatable to held and Release back, and the clamp of
Release never bites.

**Types** (`ControlPlaneProofs`).  A call can only be sent to a host, and a release only
be made of a server in hand, because of what `pc` says about `cur`, `loc` and `target`.
`TInv` adds that.

**Rows, copies and calls** (`RecordsProofs`), whatever fails:

- `SyncInv`: from the list query to the write that changes it, a copy has the host and
  the VM of its row, since nobody else writes those two columns; and the server in hand
  is no longer among those still to do;
- `CallInv`: a command that is awaited is the outstanding call of the reconciler, only
  control points that call wait, and the VM that a boot's reply names is the server's in
  hand, on its host, if it still exists (`GotMine`).

From these, MarkRunning writes a VM of the row's own server on the row's own host, and
only UnassignHost without a VM, MarkStopped and SoftDelete take a host away.

**Outages and the meter** (`RecordsProofs`).  `RowLaw` sorts every step by what it does
to a row (keeps it, creates it, relabels it, starts, loses or downs it) and `MeterLaw` by
what it does to the meter, each at the control points where it can happen.
*LostOnlyAfterGrace* adds that a running row and the copy being probed name a VM and a
host (`RunInv`) and that the inventory knows the hosts of rows (`KnownInv`; a crash
breaks that).  The billing properties add `BillInv`: an open interval belongs to a row
that says running or is about to be closed.  A crash or a failed statement between the
row and the meter is what their premises exclude: the meter is best effort, and nothing
repeats its step later.

**Capacity** (`CapacityProofs`).  A crash empties the inventory, and what is left to
reason from is the database:

- `WithinHost`: what rows commit to a host, together with a reservation on its way to a
  row, fits the host, *whether the inventory knows it or not*;
- `ReadCovers`: between a first registration's read of UsedCapacity and its
  registration nothing is assigned to the host, since an unknown host is not placeable;
- `TargetKnown`: a reservation on its way to a row is on a known host.

*KeepsLedger* follows step by step with `Homeless`: when the reconciler is about to
reserve for a server or to write its assignment, its copy of the row has no host, nor by
`SyncInv` has the row, so AssignHost moves no server.  *NoCapacityLeak* needs, within one
life of the process, that a host registers for the first time before any row can name it
(`LeakInv`, `KnownInv`), so that the sums its registration starts from are zero.

**One VM for each server** (`StrayProofs`).  `NoLosses` says that no VM is lost sight of
for good, and each part of it excludes a way in which one is:

| Part | Without it |
|---|---|
| no crash, no database error | the VM of a Provision that was answered is forgotten before MarkRunning has written it, and the retry makes another one |
| no host out of touch past hostDeadAfter (`MaxAge < Dead`) | the server is given up and placed anew, and the host comes back with the old VM |
| no delete | run `delete_leak` |

Lost and half-open streams, commands that run after their caller is gone, lost answers,
failed agent operations, guests that power themselves off and restarts of agents are all
allowed, in any number.  The run `placement` is an instance; with any one part of
`NoLosses` dropped, TLC finds a stray VM on it, so the theorem says where exactly the
promise ends.  The invariant `StrayInv`, which TLC confirms on that instance, adds to the
above:

- `WireInv`: what is on the wire, awaited or not, is the call in hand.  This is where
  run `wedged` comes in: a caller whose answer is lost waits for good, so it never sends
  a second command while the first may still run.  A deadline on calls, the obvious
  remedy for `wedged`, would break this step: a retried Provision could then find the
  first one executed, and NoStrayVM would need another argument (an idempotent
  Provision, for example);
- `KeptInv`, `TouchInv`: no row, nor copy of one, wants a delete; no host counts as dead;
- `AliveInv`: only a stop makes an agent take a VM for halted, and then its row does not
  say running.  So a probe that reports a running server's VM as not running reports one
  that is gone.  (Here it helps that an exited guest still counts as running: were it
  noticed, MarkLost would clear vm_id and leave the halted VM on its agent);
- `OneInv`: the agents have no VM of a server but the one its row names; while the server
  is booted, the one in hand until the command has run, then the one in the reply;
  after an eviction, none.

The proof sorts steps into those of the environment, where the agents' operations only
remove VMs, halt one or boot the one in hand (`Fewer`, `NoneHalted`, `ExecuteVMs`), and
those of the reconciler, which leave the agents alone and move through the control
points in a few ways that matter here (`Passage`).

**A host's network** (`NetworkProofs`).  *PoolsExact* and *ReachableWhileReady* are proved
together with the type invariant (`HInv`): entries stay right because nobody else holds
the address or port, and nobody else does because the pools are exact, which in turn
needs that a VM being torn down holds its own until they are withdrawn.  The packet path
adds `NInv`: entries of the table have one of three shapes and disjoint tuples
(`TableInv`); a rule belongs to the VM that holds its port (`RuleInv`); what leads in to a
VM that started clean pairs its address with its port (`CleanInv`); a program at work
carries the packet and the entry of its control point (`CpuInv`); a client that was heard
has an entry (`HeardInv`), and so has every source shown to a remote (`SentInv`), unless
the flow is one of those set apart.

**Worlds** (`WorldsProofs`).  A command at work has halted its guest, and the reaper
condemns deleted rows only (`LifeInv`).  A snapshot that kept its guest has the guest
frozen and the temporary file to itself from its first read to its last
(`GuardInv`, `QueueInv`): the guest serves one connection at a time.  Until a snapshot
that outlived its guest, or a guest on a given-up host, has published, store, image, disk
and memory are each at most as new as the next (`Ordered`), and store, disk and memory
are whole (`Whole`): `AgeInv`.  The two go together, since a mixed disk is captured,
stored and restored like any other and has no place in the order.

**Only model-checked.**  *Converges*, *DeadVMNoticed*, *ThawedInTheEnd* and
*OrphansReaped*, since fairness and ENABLED are out of the prover's reach, and the four
runs that find a violation.  The proofs use first-order steps (Zenon) and call the SMT
solver only where a step needs arithmetic or record updates.

## Not modelled

- `bpf/vmlinux.h`, 166 925 lines, is the generated type header of the kernel; nat.c
  and tapfilter.c use a few of its structures.  It has no behaviour to model.  Of
  nat.c itself: the ARP answer of the gateway, header parsing and checksum updates,
  counters and events, which touch nothing a translation depends on.
- Commands of one VM that overlap inside an agent (a leftover of a lost call and its
  retry): the runtime takes no lock across them and promises nothing.
- Quotas, the whitelist diff, the environment merge, refresh tokens and the billing
  ledger's arithmetic: a statement or a loop each, without other actors than a
  second request.
- Image builds and the S3 backend: file formats and library calls.
- The generated Firecracker client, the squashfs encoder, the Minecraft
  protocols (ping, RCON), the guest's mount and network set-up, JWT and password
  hashing, configuration, logging, routing and the web front end: sequential
  I/O, formats or library calls without shared state.

## Plan

1. `Lifecycle`: one server as its user sees it, as a second abstract specification
   for ControlPlane.
2. NoStrayVM with deletes, under the premise that a host that is given up does not
   come back with its VMs.
3. The API as several processes: quota check and insert, read then write.
