---------------------------- MODULE AgentRuntime ----------------------------
(***************************************************************************)
(* The VM lifecycle of the host agents: the Runtime interface of           *)
(* internal/agent/runtime.go as FakeRuntime implements it, every method    *)
(* under one mutex, and a guest of the firecracker runtime that powers     *)
(* itself off.  vms is the agents' maps: vms[v].host tells on which host's *)
(* agent VM v exists.  A VM id is a uuid, so a new VM takes an id nobody   *)
(* uses.                                                                   *)
(*                                                                         *)
(* A VM is running, stopped, or exited: its Firecracker process ended by   *)
(* itself.  Nobody waits for such a process before a Stop or a teardown,   *)
(* so it stays in the process table and running(), which sends it signal   *)
(* 0, takes it for alive.                                                  *)
(***************************************************************************)
EXTENDS Fleet

CONSTANT HostCapacity       \* the cpu and memory each agent is configured with

VARIABLE vms

VMRecord == [host   : Host \cup {NoHost},
             server : Server \cup {NoServer},
             state  : {"running", "exited", "stopped"}]

\* An id under which no agent has a VM.
NoSuchVM == [host |-> NoHost, server |-> NoServer, state |-> "stopped"]

ASSUME RuntimeAssumption == HostCapacity \in [Host -> Amount]

RuntimeTypeOK == /\ vms \in [VM -> VMRecord]
                 /\ \A v \in VM : vms[v].host # NoHost <=> vms[v].server # NoServer

RuntimeInit == vms = [v \in VM |-> NoSuchVM]

\* What running() tells of a VM: its process has not been waited for.
SeemsRunning(v) == vms[v].state # "stopped"

\* The VMs holding cpu and memory on h: only those that seem to run count.
RunningOn(h) == {v \in VM : vms[v].host = h /\ SeemsRunning(v)}

\* The amount each VM holds, or would hold if it ran.
Footprint == [v \in VM |-> IF vms[v].server = NoServer THEN Zero
                                                      ELSE Demand[vms[v].server]]

\* fitsLocked; a zero total leaves that dimension unconstrained.
FitsLocked(h, demand) ==
    \A r \in Resource :
        HostCapacity[h][r] > 0 =>
            SumOver(RunningOn(h), Footprint, r) + demand[r] <= HostCapacity[h][r]

ExistsOn(h, v) == vms[v].host = h

Provision(h, s, v) ==
    /\ FitsLocked(h, Demand[s])
    /\ vms' = [vms EXCEPT ![v] = [host |-> h, server |-> s, state |-> "running"]]

\* Start answers ErrVMNotFound for an unknown VM and is a no-op for one that seems to
\* run.
CanStart(h, v) == /\ ExistsOn(h, v)
                  /\ SeemsRunning(v) \/ FitsLocked(h, Footprint[v])

Start(h, v) ==
    /\ CanStart(h, v)
    /\ vms' = [vms EXCEPT ![v] =
                  IF SeemsRunning(v) THEN vms[v] ELSE [vms[v] EXCEPT !.state = "running"]]

\* Stop keeps the VM; a missing VM is success.
Stop(h, v) ==
    vms' = [vms EXCEPT ![v] =
               IF ExistsOn(h, v) THEN [vms[v] EXCEPT !.state = "stopped"] ELSE vms[v]]

\* Evict and Deprovision (removeLocked); a missing VM is success.
Remove(h, v) ==
    vms' = [vms EXCEPT ![v] = IF ExistsOn(h, v) THEN NoSuchVM ELSE vms[v]]

\* Status: "missing" for an unknown id.
StatusOf(h, v) == IF ~ExistsOn(h, v) THEN "missing"
                  ELSE IF SeemsRunning(v) THEN "running" ELSE "stopped"

\* The guest of v is at work on h.
UpOn(h, v) == ExistsOn(h, v) /\ vms[v].state = "running"

\* The agent process restarts: its map of VMs lives in memory.  The Firecracker
\* processes and the disks stay, but no agent knows of them any more.
AgentForgets(h) ==
    vms' = [v \in VM |-> IF vms[v].host = h THEN NoSuchVM ELSE vms[v]]

\* The workload exits and the guest powers itself off, which ends the process.
GuestExits(v) ==
    /\ vms[v].state = "running"
    /\ vms' = [vms EXCEPT ![v] = [vms[v] EXCEPT !.state = "exited"]]
=============================================================================
