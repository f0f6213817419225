---------------------------- MODULE ControlPlane ----------------------------
(***************************************************************************)
(* The control plane: the reconciler (internal/reconciler/reconciler.go)   *)
(* driving the server records, the host inventory, the billing meter and   *)
(* the agents, next to the API handlers, the agent streams and the host    *)
(* reaper, with crashes and restarts of the whole process.                 *)
(*                                                                         *)
(* ReconcileOnce is one goroutine.  pc is its control point: the statement,*)
(* inventory call or agent call it performs next.  Everything else may     *)
(* happen between two of its steps.  It works on row copies: snap holds    *)
(* what the last list query returned, loc is the copy being worked on.     *)
(***************************************************************************)
EXTENDS AgentLink

CONSTANTS Wishes,       \* desired states the API's users ask for
          MaxWishes       \* how many API calls they make

VARIABLES pc, todo, snap, cur, loc, target, waiting,
          billed,       \* servers with an open billing interval
          wishes        \* API calls still to come

recVars == <<pc, todo, snap, cur, loc, target, waiting>>
dbVars  == <<rows, order>>
vars    == <<hosts, rows, order, vms, linkVars, recVars, billed, wishes>>

PC == {"idle", "probe", "lost", "lostBilling", "list", "next",
       "backup", "backupFailed", "markBackedUp",
       "dropStale", "dropRelease", "unassign", "schedule", "assign", "unreserve",
       "unschedulable", "markProvisioning", "boot", "markRunning", "startBilling",
       "markStopping", "stop", "evict", "markDeleting", "deprovision",
       "checkReachable", "release", "markStopped", "softDelete", "stopBilling",
       "fail"}

ASSUME ControlAssumption == Wishes \subseteq Desired /\ MaxWishes \in Nat

TypeOK == /\ HostsTypeOK /\ RecordsTypeOK /\ RuntimeTypeOK /\ LinkTypeOK
          /\ pc \in PC
          /\ todo \in SUBSET Server
          /\ snap \in [Server -> Row]
          /\ cur \in Server \cup {NoServer}
          /\ loc \in Row
          /\ target \in Host \cup {NoHost}
          /\ waiting \in BOOLEAN
          /\ billed \in SUBSET Server
          /\ wishes \in Nat

\* The reconciler's variables when it has nothing in hand.
Empty == [s \in Server |-> Blank]

Init == /\ HostsInit /\ RecordsInit /\ RuntimeInit /\ LinkInit
        /\ pc = "idle"
        /\ todo = {}
        /\ snap = Empty
        /\ cur = NoServer
        /\ loc = Blank
        /\ target = NoHost
        /\ waiting = FALSE
        /\ billed = {}
        /\ wishes = MaxWishes

-----------------------------------------------------------------------------
(* Step forms.                                                             *)

\* Move on with the server in hand.
Goto(p) == pc' = p /\ UNCHANGED <<todo, snap, cur, loc, target, waiting>>

\* Drop the server in hand and continue the loop at p.
Done(p) == /\ pc' = p
           /\ cur' = NoServer
           /\ loc' = Blank
           /\ target' = NoHost
           /\ UNCHANGED <<todo, snap, waiting>>

\* Take a listed server in hand and enter its first step.
Take(s, p) == /\ pc' = p
              /\ cur' = s
              /\ loc' = snap[s]
              /\ todo' = todo \ {s}
              /\ snap' = [snap EXCEPT ![s] = Blank]
              /\ UNCHANGED <<target, waiting>>

\* A list query: copy the listed rows.
List(S, p) == /\ pc' = p
              /\ todo' = S
              /\ snap' = [s \in Server |-> IF s \in S THEN rows[s] ELSE Blank]
              /\ UNCHANGED <<cur, loc, target, waiting>>

\* A statement on the records that succeeds and is followed by ok, or fails
\* (the database is unavailable) and is followed by err.
Statement(write, ok, err) ==
    \/ write /\ ok /\ UNCHANGED faults
    \/ Fault("db") /\ err /\ UNCHANGED dbVars

NoLinkChange == UNCHANGED <<link, joining, ending, wire, waiter, reply, got>>

Local == UNCHANGED <<hosts, rows, order, vms, linkVars, billed, wishes>>

\* The frame of a statement on the records.
OnRecords == NoLinkChange /\ UNCHANGED <<hosts, vms, billed, wishes>>

\* The frame of a call on the inventory.
OnHosts == UNCHANGED <<rows, order, vms, linkVars, billed, wishes>>

-----------------------------------------------------------------------------
(* RemoteProvisioner over Hub.callRaw.                                     *)

\* No backing VM: nothing to do, except for a boot.
NothingToDo(op) == \/ op # "provision" /\ loc.vm = NoVM
                   \/ op \in {"evict", "deprovision"} /\ loc.host = NoHost

Unreachable == loc.host = NoHost \/ link[loc.host] = "down"

Send(op) ==
    /\ wire' = wire \cup {[op |-> op, host |-> loc.host, server |-> cur,
                           vm |-> loc.vm, awaited |-> TRUE]}
    /\ waiter' = loc.host
    /\ waiting' = TRUE
    /\ UNCHANGED <<hosts, rows, order, vms, link, joining, ending, reply, got, faults,
                   billed, wishes, pc, todo, snap, cur, loc, target>>

\* callRaw returns once its waiter has been handed a result.
Returned(res) == waiting /\ waiter # NoHost /\ link[waiter] = "up" /\ reply = res

Return(p) ==
    /\ pc' = p
    /\ waiting' = FALSE
    /\ waiter' = NoHost
    /\ reply' = "none"
    /\ UNCHANGED <<hosts, rows, order, vms, link, joining, ending, wire, got, faults,
                   billed, wishes, todo, snap, cur, loc, target>>

Call(op, ok, err) ==
    \/ ~waiting /\ NothingToDo(op) /\ Goto(ok) /\ Local
    \/ ~waiting /\ ~NothingToDo(op) /\ Unreachable /\ Goto(err) /\ Local
    \/ ~waiting /\ ~NothingToDo(op) /\ ~Unreachable /\ Send(op)
    \/ Returned("ok") /\ Return(ok)
    \/ Returned("err") /\ Return(err)

-----------------------------------------------------------------------------
(* checkLiveness.                                                          *)

\* A tick begins with ListRunning; if the query fails the pass is skipped.
ListRunningServers ==
    /\ pc = "idle"
    /\ Statement(UNCHANGED dbVars, List(ListRunning, "probe"), Goto("list"))
    /\ OnRecords

\* Mutant: an agent that does not know the VM counts as one that cannot be reached.
ProbeUnknownIsError(row) ==
    IF row.vm = NoVM THEN "missing"
    ELSE IF row.host = NoHost \/ link[row.host] # "up" THEN "error"
    ELSE IF StatusOf(row.host, row.vm) = "missing" THEN "error"
    ELSE StatusOf(row.host, row.vm)

\* What the probe of loc, taken now, finds: the agent's answer, or an error when
\* it cannot be reached within the probe's timeout.
ProbeResult(row) ==
    IF row.vm = NoVM THEN "missing"
    ELSE IF row.host = NoHost \/ link[row.host] # "up" THEN "error"
    ELSE StatusOf(row.host, row.vm)

\* hostDeadTooLong
PresumedDead(row) == row.host = NoHost \/ HostDeadTooLong(row.host)

\* checkServerLiveness: the server is fine, or within its host's grace ...
ProbeAlive(s) ==
    /\ pc = "probe"
    /\ s \in todo
    /\ \/ ProbeResult(snap[s]) = "running"
       \/ ProbeResult(snap[s]) = "error" /\ ~PresumedDead(snap[s])
    /\ todo' = todo \ {s}
    /\ snap' = [snap EXCEPT ![s] = Blank]
    /\ UNCHANGED <<pc, cur, loc, target, waiting>>
    /\ Local

\* ... or lost.
ProbeLost(s) ==
    /\ pc = "probe"
    /\ s \in todo
    /\ \/ ProbeResult(snap[s]) \in {"missing", "stopped"}
       \/ ProbeResult(snap[s]) = "error" /\ PresumedDead(snap[s])
    /\ Take(s, "lost")
    /\ Local

\* markLost: the record, then the billing clock.
DoMarkLost ==
    /\ pc = "lost"
    /\ Statement(MarkLost(cur), Goto("lostBilling"), Done("probe"))
    /\ OnRecords

\* Meter failures are logged, never fatal.
CloseInterval(p) ==
    /\ \/ billed' = billed \ {cur} /\ UNCHANGED faults
       \/ Fault("db") /\ UNCHANGED billed
    /\ Done(p)
    /\ NoLinkChange
    /\ UNCHANGED <<hosts, rows, order, vms, wishes>>

\* Mutant: a lost server keeps its billing interval.
LostUnbilled == pc = "lostBilling" /\ Done("probe") /\ Local

LostBilling == pc = "lostBilling" /\ CloseInterval("probe")

ProbesDone == pc = "probe" /\ todo = {} /\ Goto("list") /\ Local

-----------------------------------------------------------------------------
(* ReconcileOnce and reconcile.                                            *)

ListReconcilableServers ==
    /\ pc = "list"
    /\ Statement(UNCHANGED dbVars, List(ListReconcilable, "next"), Done("idle"))
    /\ OnRecords

\* The first step of start or stop; "next" when the row is as desired.
Converge(row) ==
    IF row.desired = "stopped"
      THEN IF row.status = "stopped" THEN "next" ELSE "markStopping"
    ELSE IF row.status = "running" THEN "next"
    ELSE IF row.vm # NoVM THEN "markProvisioning"
    ELSE IF row.host # NoHost THEN "dropStale"
    ELSE "schedule"

\* A delete supersedes everything else, a backup comes before converging.
FirstStep(row) ==
    IF row.desired = "deleted"
      THEN IF row.status = "deleting" THEN "deprovision" ELSE "markDeleting"
    ELSE IF row.backup THEN "backup"
    ELSE Converge(row)

ReconcileNext(s) ==
    /\ pc = "next"
    /\ s \in todo
    /\ Take(s, FirstStep(snap[s]))
    /\ Local

TickDone == pc = "next" /\ todo = {} /\ Goto("idle") /\ Local

\* Go on with start or stop after the backup.
AfterBackup == IF Converge(loc) = "next" THEN Done("next") ELSE Goto(Converge(loc))

\* An error returned by reconcile: MarkStatus(error), itself best effort.
Fail ==
    /\ pc = "fail"
    /\ Statement(MarkStatus(cur, "error"), Done("next"), Done("next"))
    /\ OnRecords

-----------------------------------------------------------------------------
(* backup.                                                                 *)

SkipBackup ==
    /\ pc = "backup"
    /\ ~waiting
    /\ loc.status # "running" \/ loc.vm = NoVM
    /\ Goto("markBackedUp")
    /\ Local

\* A failed snapshot leaves the flag set.
TakeBackup ==
    /\ pc = "backup"
    /\ loc.status = "running" /\ loc.vm # NoVM
    /\ Call("snapshot", "markBackedUp", "backupFailed")

BackupFailed == pc = "backupFailed" /\ AfterBackup /\ Local

DoMarkBackedUp ==
    /\ pc = "markBackedUp"
    /\ Statement(MarkBackedUp(cur), AfterBackup, AfterBackup)
    /\ OnRecords

-----------------------------------------------------------------------------
(* start, with dropStalePlacement, place and provisionOrStart.             *)

DropStale ==
    /\ pc = "dropStale"
    /\ Goto(IF Placeable(loc.host) THEN "markProvisioning" ELSE "dropRelease")
    /\ Local

DropRelease ==
    /\ pc = "dropRelease"
    /\ Release(loc.host, Demand[cur])
    /\ Goto("unassign")
    /\ OnHosts

DoUnassign ==
    /\ pc = "unassign"
    /\ Statement(UnassignHost(cur),
                 /\ pc' = "schedule"
                 /\ loc' = [loc EXCEPT !.host = NoHost]
                 /\ UNCHANGED <<todo, snap, cur, target, waiting>>,
                 Goto("fail"))
    /\ OnRecords

\* Schedule tries the fitting hosts most free first.  Nothing else reserves, so
\* only a host going down could make it fall through (module Scheduler).
MoreFree(g, h) ==
    \/ hosts[g].alloc["mem"] > hosts[h].alloc["mem"]
    \/ /\ hosts[g].alloc["mem"] = hosts[h].alloc["mem"]
       /\ hosts[g].alloc["cpu"] > hosts[h].alloc["cpu"]

Schedule(h) ==
    /\ pc = "schedule"
    /\ Reserve(h, Demand[cur])
    /\ \A g \in Host : CanReserve(g, Demand[cur]) => ~MoreFree(g, h)
    /\ pc' = "assign"
    /\ target' = h
    /\ UNCHANGED <<todo, snap, cur, loc, waiting>>
    /\ OnHosts

NoCapacity ==
    /\ pc = "schedule"
    /\ \A h \in Host : ~CanReserve(h, Demand[cur])
    /\ Goto("unschedulable")
    /\ Local

DoMarkUnschedulable ==
    /\ pc = "unschedulable"
    /\ Statement(MarkStatus(cur, "unschedulable"), Done("next"), Goto("fail"))
    /\ OnRecords

DoAssign ==
    /\ pc = "assign"
    /\ Statement(AssignHost(cur, target),
                 /\ pc' = "markProvisioning"
                 /\ loc' = [loc EXCEPT !.host = target]
                 /\ target' = NoHost
                 /\ UNCHANGED <<todo, snap, cur, waiting>>,
                 Goto("unreserve"))
    /\ OnRecords

\* A reservation that cannot be persisted is released.
Unreserve ==
    /\ pc = "unreserve"
    /\ Release(target, Demand[cur])
    /\ Goto("fail")
    /\ OnHosts

DoMarkProvisioning ==
    /\ pc = "markProvisioning"
    /\ Statement(MarkStatus(cur, "provisioning"), Goto("boot"), Goto("fail"))
    /\ OnRecords

ProvisionOrStart ==
    /\ pc = "boot"
    /\ Call(IF loc.vm # NoVM THEN "start" ELSE "provision", "markRunning", "fail")

DoMarkRunning ==
    /\ pc = "markRunning"
    /\ Statement(MarkRunning(cur, got), Goto("startBilling"), Goto("fail"))
    /\ got' = NoVM
    /\ UNCHANGED <<hosts, vms, link, joining, ending, wire, waiter, reply, billed, wishes>>

\* Mutant: no interval is opened once the user wants the server down.
StartBillingIfWanted ==
    /\ pc = "startBilling"
    /\ billed' = IF rows[cur].desired = "running" THEN billed \cup {cur} ELSE billed
    /\ Done("next")
    /\ NoLinkChange
    /\ UNCHANGED <<hosts, rows, order, vms, wishes, faults>>

StartBilling ==
    /\ pc = "startBilling"
    /\ \/ billed' = billed \cup {cur} /\ UNCHANGED faults
       \/ Fault("db") /\ UNCHANGED billed
    /\ Done("next")
    /\ NoLinkChange
    /\ UNCHANGED <<hosts, rows, order, vms, wishes>>

-----------------------------------------------------------------------------
(* stop.                                                                   *)

DoMarkStopping ==
    /\ pc = "markStopping"
    /\ Statement(MarkStatus(cur, "stopping"), Goto("stop"), Goto("fail"))
    /\ OnRecords

StopVM == pc = "stop" /\ Call("stop", "evict", "fail")

\* Mutant: a stopped server's VM stays on its agent.
EvictNothing == pc = "evict" /\ Goto("release") /\ Local

EvictVM == pc = "evict" /\ Call("evict", "release", "fail")

\* Mutant: delete forgets the reservation.
ReleaseIfStopping ==
    /\ pc = "release"
    /\ IF loc.host # NoHost /\ loc.desired # "deleted"
         THEN Release(loc.host, Demand[cur])
         ELSE UNCHANGED hosts
    /\ Goto(IF loc.desired = "deleted" THEN "softDelete" ELSE "markStopped")
    /\ OnHosts

\* stop and delete return the reservation before they write the record.
ReleaseHost ==
    /\ pc = "release"
    /\ IF loc.host # NoHost THEN Release(loc.host, Demand[cur]) ELSE UNCHANGED hosts
    /\ Goto(IF loc.desired = "deleted" THEN "softDelete" ELSE "markStopped")
    /\ OnHosts

DoMarkStopped ==
    /\ pc = "markStopped"
    /\ Statement(MarkStopped(cur), Goto("stopBilling"), Goto("fail"))
    /\ OnRecords

StopBilling == pc = "stopBilling" /\ CloseInterval("next")

-----------------------------------------------------------------------------
(* delete.                                                                 *)

DoMarkDeleting ==
    /\ pc = "markDeleting"
    /\ Statement(MarkStatus(cur, "deleting"), Goto("deprovision"), Goto("fail"))
    /\ OnRecords

DeprovisionVM == pc = "deprovision" /\ Call("deprovision", "release", "checkReachable")

\* hostReachable: a failure on a live host is retried, a host that is not a
\* ready placement target is given up on.
CheckReachable ==
    /\ pc = "checkReachable"
    /\ Goto(IF loc.host # NoHost /\ Placeable(loc.host) THEN "fail" ELSE "release")
    /\ Local

DoSoftDelete ==
    /\ pc = "softDelete"
    /\ Statement(SoftDelete(cur), Goto("stopBilling"), Goto("fail"))
    /\ OnRecords

-----------------------------------------------------------------------------
(* The API handlers (internal/handler/servers.go).                         *)

Handler(write) ==
    /\ wishes > 0
    /\ wishes' = wishes - 1
    /\ write
    /\ UNCHANGED <<hosts, vms, linkVars, recVars, billed>>

\* POST /servers, past the quota gate.
CreateServer(s) ==
    /\ ~rows[s].created
    /\ CanEverFit(Demand[s])
    /\ Handler(Create(s))

\* PATCH /servers/:id and DELETE /servers/:id
UpdateServer(s) ==
    /\ Live(s)
    /\ \/ Handler(UpdateSpec(s))
       \/ \E d \in Wishes : Handler(SetDesiredState(s, d))

\* POST /servers/:id/snapshot
BackupServer(s) == Live(s) /\ Handler(RequestBackup(s))

-----------------------------------------------------------------------------
(* The process crashes and is restarted: the inventory, the streams and    *)
(* the reconciler's variables are gone, the database and the agents are    *)
(* not.                                                                    *)

Crash ==
    /\ Fault("crash")
    /\ hosts' = [h \in Host |-> Unknown]
    /\ link' = [h \in Host |-> "down"]
    /\ joining' = [h \in Host |-> {}]
    /\ ending' = [h \in Host |-> FALSE]
    /\ \/ wire' = {}
       \/ wire' = {[c EXCEPT !.awaited = FALSE] : c \in wire}
    /\ waiter' = NoHost
    /\ reply' = "none"
    /\ got' = NoVM
    /\ pc' = "idle"
    /\ todo' = {}
    /\ snap' = Empty
    /\ cur' = NoServer
    /\ loc' = Blank
    /\ target' = NoHost
    /\ waiting' = FALSE
    /\ UNCHANGED <<rows, order, vms, billed, wishes>>

-----------------------------------------------------------------------------

\* Ids a new VM may take: no agent has a VM of that id and nothing refers to it.
UnusedVMs ==
    {v \in VM : /\ vms[v].host = NoHost
                /\ \A s \in Server : rows[s].vm # v /\ snap[s].vm # v
                /\ loc.vm # v
                /\ got # v
                /\ \A c \in wire : c.vm # v}

NewVM == IF UnusedVMs = {} THEN {} ELSE {CHOOSE v \in UnusedVMs : TRUE}

Environment == LinkNext(NewVM) /\ UNCHANGED <<recVars, billed, wishes>>

Users == \E s \in Server : CreateServer(s) \/ UpdateServer(s) \/ BackupServer(s)

Reconciler ==
    \/ ListRunningServers \/ ProbesDone \/ DoMarkLost \/ LostBilling
    \/ \E s \in Server : ProbeAlive(s) \/ ProbeLost(s) \/ ReconcileNext(s)
    \/ ListReconcilableServers \/ TickDone \/ Fail
    \/ SkipBackup \/ TakeBackup \/ BackupFailed \/ DoMarkBackedUp
    \/ DropStale \/ DropRelease \/ DoUnassign
    \/ \E h \in Host : Schedule(h)
    \/ NoCapacity \/ DoMarkUnschedulable \/ DoAssign \/ Unreserve
    \/ DoMarkProvisioning \/ ProvisionOrStart \/ DoMarkRunning \/ StartBilling
    \/ DoMarkStopping \/ StopVM \/ EvictVM \/ ReleaseHost \/ DoMarkStopped
    \/ StopBilling
    \/ DoMarkDeleting \/ DeprovisionVM \/ CheckReachable \/ DoSoftDelete

Next == Reconciler \/ Environment \/ Users \/ Crash

Spec == Init /\ [][Next]_vars

-----------------------------------------------------------------------------
(* Capacity.                                                               *)

\* The servers whose specs the inventory should count against h: the live rows
\* assigned to h, less one just released whose row is not written yet, plus one
\* just reserved whose assignment is not written yet.
Counted(h) ==
    {s \in Server :
        \/ /\ s \in AssignedTo(h)
           /\ ~(s = cur /\ pc \in {"unassign", "markStopped", "softDelete"})
        \/ s = cur /\ pc \in {"assign", "unreserve"} /\ target = h}

\* No host is promised twice: what the inventory would still hand out on a host
\* and what is committed there never exceed the host, across lost streams,
\* registrations that overlap the reconciler, and restarts of the control plane.
NoOvercommit ==
    \A h \in Host, r \in Resource :
        hosts[h].known =>
            hosts[h].alloc[r] + Committed(Counted(h), r) <= HostCapacity[h][r]

\* Nor is capacity lost: within one life of the process the inventory of a host
\* is exact.
NoCapacityLeak ==
    \A h \in Host, r \in Resource :
        hosts[h].known =>
            hosts[h].alloc[r] + Committed(Counted(h), r) >= HostCapacity[h][r]

\* The host the table places a server on.
PlacedOn(s) == IF Live(s) THEN rows[s].host ELSE NoHost

\* The specs of S fit the host together.
Holds(h, S) == \A r \in Resource : Committed(S, r) <= HostCapacity[h][r]

Book == INSTANCE Ledger WITH placed <- [s \in Server |-> PlacedOn(s)]

\* Inventory, table, agents and reconciler together implement the ledger: every
\* AssignHost puts a server that is nowhere on a host where it fits next to all
\* the live rows there, and no statement moves one from host to host.
KeepsLedger == Book!Spec

-----------------------------------------------------------------------------
(* VMs.                                                                    *)

\* The server in hand is being booted: its VM may exist before its row says so.
Booting(s) == cur = s /\ pc \in {"boot", "markRunning"}

\* Every VM on an agent is the one its server's row names, on the host the row
\* names, unless the reconciler is in the middle of booting it.  So a server
\* never has two VMs and a stopped one has none.
NoStrayVM ==
    \A v \in VM :
        vms[v].host # NoHost =>
            LET s == vms[v].server
            IN  \/ rows[s].vm = v /\ rows[s].host = vms[v].host
                \/ Booting(s)

\* A row never names a VM of another server, or a VM on another host than the
\* one it is assigned to, whatever fails.
RecordsMatchVMs ==
    \A s \in Server :
        LET v == rows[s].vm
        IN  v # NoVM /\ vms[v].host # NoHost =>
                vms[v].server = s /\ vms[v].host = rows[s].host

\* A server that has a VM keeps its host until it is stopped or deleted ("a
\* provisioned server keeps its host (its VM and world live there)").
PinnedWhileProvisioned ==
    [][\A s \in Server :
          rows[s].vm # NoVM /\ rows'[s].host # rows[s].host =>
              rows'[s].vm = NoVM /\ rows'[s].status \in {"stopped", "deleted"}]_vars

\* A server whose VM is running is given up only once its host has been out of
\* touch past the grace period, never for a shorter interruption ("the host may
\* just be restarting, so wait out hostDeadAfter before presuming the VM dead").
LostOnlyAfterGrace ==
    [][pc = "probe" /\ pc' = "lost" =>
          \/ StatusOf(loc'.host, loc'.vm) # "running"
          \/ hosts[loc'.host].age = Dead]_vars

\* No VM of a deleted server runs on a host the control plane can reach: a
\* failed teardown is retried "rather than leak a running VM behind a deleted
\* record".
DeletedLeavesNoVM ==
    \A v \in VM :
        vms[v].host # NoHost /\ rows[vms[v].server].deleted =>
            ~Placeable(vms[v].host)

-----------------------------------------------------------------------------
(* Billing.                                                                *)

\* A running server is being billed (its interval opens right after MarkRunning).
RunningIsBilled ==
    \A s \in Server :
        Live(s) /\ rows[s].status = "running" =>
            s \in billed \/ (cur = s /\ pc = "startBilling")

\* A server that was stopped, lost or deleted is not: its interval is closed
\* right after the row is written.
DownIsNotBilled ==
    \A s \in billed :
        \/ ~rows[s].deleted /\ rows[s].status \notin {"stopped", "pending", "unschedulable"}
        \/ cur = s /\ pc \in {"lostBilling", "stopBilling"}

-----------------------------------------------------------------------------
(* Progress.  The reconciler's goroutine keeps running, agents execute the *)
(* commands they received, redial every five seconds and send heartbeats.  *)

Fairness ==
    /\ WF_vars(Reconciler)
    /\ WF_vars(/\ \E c \in wire : Execute(c, NewVM)
               /\ UNCHANGED <<recVars, billed, wishes>>)
    /\ \A h \in Host :
        /\ WF_vars(ConnectRead(h) /\ UNCHANGED <<recVars, billed, wishes>>)
        /\ WF_vars(ConnectRegister(h) /\ UNCHANGED <<recVars, billed, wishes>>)
        /\ WF_vars(Beat(h) /\ UNCHANGED <<recVars, billed, wishes>>)

FairSpec == Spec /\ Fairness

\* A call to an agent returns: "provisioning is bounded by the agent-side image
\* pull timeout".
CallsReturn == waiting ~> ~waiting

\* No host has room for s next to the servers assigned to it.
NoRoom(s) ==
    \A h \in Host : \E r \in Resource :
        Committed(AssignedTo(h), r) + Demand[s][r] > HostCapacity[h][r]

\* The server is what its user wants it to be.
Settled(s) ==
    Live(s) =>
        \/ /\ rows[s].desired = "running"
           /\ \/ /\ rows[s].status = "running"
                 /\ UpOn(rows[s].host, rows[s].vm)
              \/ rows[s].status = "unschedulable" /\ NoRoom(s)
        \/ rows[s].desired = "stopped" /\ rows[s].status = "stopped"

\* The server is to be started, but its row names a VM its agent no longer has: every
\* Start fails and nothing clears vm_id.
Trapped(s) ==
    /\ Live(s)
    /\ rows[s].desired = "running" /\ rows[s].status # "running"
    /\ rows[s].vm # NoVM /\ ~ExistsOn(rows[s].host, rows[s].vm)

\* Unless a call hangs for good, a VM is left over from a deleted server or a server is
\* trapped for good, every server gets where its user wants it once users and faults
\* have come to rest, deleted ones included, and stays there: after lost streams,
\* agents that restart without their VMs, and agent operations that fail half done.
Converges ==
    /\ []<>~waiting
    /\ []<>DeletedLeavesNoVM
    /\ \A s \in Server : []<>~Trapped(s)
    => \A s \in Server : <>[]Settled(s)

\* The record says running, but the agent has no such VM, or its guest is not up.
BehindDeadPort(s) ==
    /\ Live(s)
    /\ rows[s].status = "running"
    /\ ~UpOn(rows[s].host, rows[s].vm)

\* As long as no call hangs for good, a running server whose VM is gone, since its agent
\* restarted, is noticed ("otherwise a server whose VM died under it would sit running
\* forever behind a dead port, never revisited").
DeadVMNoticed ==
    ([]<>~waiting) => \A s \in Server : BehindDeadPort(s) ~> ~BehindDeadPort(s)
=============================================================================
