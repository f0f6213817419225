----------------------------- MODULE AgentLink -----------------------------
(***************************************************************************)
(* The streams between the control plane's hub (internal/agentlink/hub.go) *)
(* and the host agents (internal/agent/link.go), and the agents executing  *)
(* the commands they receive.                                              *)
(*                                                                         *)
(* A stream is up, down, or silent: half open, the hub still holds it but  *)
(* nothing gets through.  A Connect handler reads UsedCapacity first and   *)
(* registers the host in a later step.  Once its stream is gone it marks   *)
(* the host down, again in a later step, perhaps after the agent has       *)
(* registered anew; so does the handler of a silent stream that the agent  *)
(* has replaced.                                                           *)
(*                                                                         *)
(* The reconciler is the only caller whose commands change state and it    *)
(* makes one call at a time, so there is at most one outstanding call.     *)
(* callRaw registers a waiter on the connection it sends on; nothing fails *)
(* that waiter when the connection goes away.                              *)
(***************************************************************************)
EXTENDS HostInventory, ServerRecords, AgentRuntime

CONSTANTS FaultKinds,   \* which faults this instance has
          MaxFaults,    \* how many of them may happen
          MaxAge        \* how long a host may stay out of touch

VARIABLES link,         \* link[h]: state of the current stream of h
          joining,      \* joining[h]: {amount} once a handler read UsedCapacity
          ending,       \* ending[h]: a handler of h has yet to mark the host down
          wire,         \* commands sent and not yet executed
          waiter,       \* host whose stream holds the outstanding call's waiter
          reply,        \* what that waiter has been handed
          got,          \* the VM in the reply to provision or start
          faults        \* faults that may still happen

linkVars == <<link, joining, ending, wire, waiter, reply, got, faults>>

Op == {"provision", "start", "stop", "evict", "deprovision", "snapshot"}

Command == [op : Op, host : Host, server : Server, vm : VM \cup {NoVM},
            awaited : BOOLEAN]

LinkTypeOK == /\ link \in [Host -> {"down", "up", "silent"}]
              /\ joining \in [Host -> SUBSET Amount]
              /\ ending \in [Host -> BOOLEAN]
              /\ wire \in SUBSET Command
              /\ waiter \in Host \cup {NoHost}
              /\ reply \in {"none", "ok", "err"}
              /\ got \in VM \cup {NoVM}
              /\ faults \in Nat

ASSUME LinkAssumption == MaxFaults \in Nat

LinkInit == /\ link = [h \in Host |-> "down"]
            /\ joining = [h \in Host |-> {}]
            /\ ending = [h \in Host |-> FALSE]
            /\ wire = {}
            /\ waiter = NoHost
            /\ reply = "none"
            /\ got = NoVM
            /\ faults = MaxFaults

Fault(kind) == /\ kind \in FaultKinds
               /\ faults > 0
               /\ faults' = faults - 1

-----------------------------------------------------------------------------
(* Losing a stream.                                                        *)

\* A command on a lost stream was not received, or its goroutine runs on.
LoseCommands(h) ==
    \/ wire' = {c \in wire : c.host # h}
    \/ wire' = {IF c.host = h THEN [c EXCEPT !.awaited = FALSE] ELSE c : c \in wire}

\* Whoever waits for a reply on the stream will not get it.
LoseReply(h) ==
    /\ waiter' = IF waiter = h THEN NoHost ELSE waiter
    /\ reply' = IF waiter = h THEN "none" ELSE reply
    /\ got' = IF waiter = h THEN NoVM ELSE got

\* The stream is gone and h.remove has dropped it; its handler is still to end.
StreamLost(h) ==
    /\ link' = [link EXCEPT ![h] = "down"]
    /\ ending' = [ending EXCEPT ![h] = ending[h] \/ link[h] # "down"]
    /\ LoseReply(h)
    /\ UNCHANGED <<hosts, rows, order, joining>>

Disconnect(h) ==
    /\ \/ link[h] = "up" /\ Fault("drop")
       \/ link[h] = "silent" /\ UNCHANGED faults
    /\ StreamLost(h)
    /\ LoseCommands(h)
    /\ UNCHANGED vms

\* MarkDown is unconditional, also when a new stream has taken over.
HandlerEnds(h) ==
    /\ ending[h]
    /\ ending' = [ending EXCEPT ![h] = FALSE]
    /\ MarkDown(h)
    /\ UNCHANGED <<vms, rows, order, link, joining, wire, waiter, reply, got, faults>>

GoSilent(h) ==
    /\ link[h] = "up"
    /\ Fault("silence")
    /\ link' = [link EXCEPT ![h] = "silent"]
    /\ UNCHANGED <<hosts, vms, rows, order, joining, ending, wire, waiter, reply, got>>

\* Not once the agent has given the stream up and dialled a new one.
SpeakAgain(h) ==
    /\ link[h] = "silent"
    /\ joining[h] = {}
    /\ link' = [link EXCEPT ![h] = "up"]
    /\ UNCHANGED <<hosts, vms, rows, order, joining, ending, wire, waiter, reply, got, faults>>

\* A restarted agent has lost its map of VMs and whatever it was executing.
AgentRestarts(h) ==
    /\ Fault("restart")
    /\ AgentForgets(h)
    /\ StreamLost(h)
    /\ wire' = {c \in wire : c.host # h}

-----------------------------------------------------------------------------
(* Hub.Connect.                                                            *)

ConnectRead(h) ==
    /\ link[h] # "up"
    /\ joining[h] = {}
    /\ joining' = [joining EXCEPT ![h] = {UsedCapacity(h)}]
    /\ UNCHANGED <<hosts, vms, rows, order, link, ending, wire, waiter, reply, got, faults>>

\* h.add replaces the connection; the handler of a silent one is left behind.
ConnectRegister(h) ==
    /\ \E used \in joining[h] : RegisterReserved(h, HostCapacity[h], used)
    /\ joining' = [joining EXCEPT ![h] = {}]
    /\ link' = [link EXCEPT ![h] = "up"]
    /\ ending' = [ending EXCEPT ![h] = ending[h] \/ link[h] = "silent"]
    /\ IF link[h] = "silent"
         THEN LoseCommands(h) /\ LoseReply(h)
         ELSE UNCHANGED <<wire, waiter, reply, got>>
    /\ UNCHANGED <<vms, rows, order, faults>>

Beat(h) ==
    /\ link[h] = "up"
    /\ Heartbeat(h)
    /\ UNCHANGED <<vms, rows, order, linkVars>>

\* Time passes for a host that is out of touch, and the host reaper runs.
Quiet(h) ==
    /\ link[h] # "up"
    /\ hosts[h].age < MaxAge
    /\ HeartbeatAges(h)
    /\ UNCHANGED <<vms, rows, order, linkVars>>

ReapHosts == MarkStale /\ UNCHANGED <<vms, rows, order, linkVars>>

-----------------------------------------------------------------------------
(* execOp: an agent runs a command and answers on the stream it came from. *)

Answer(c, res, v) ==
    IF c.awaited THEN reply' = res /\ got' = v ELSE UNCHANGED <<reply, got>>

\* The runtime's outcomes; a new VM takes its id from Ids.
Outcome(c, Ids) ==
    \/ /\ c.op = "provision"
       /\ \E v \in Ids : Provision(c.host, c.server, v) /\ Answer(c, "ok", v)
    \/ /\ c.op = "provision"
       /\ ~FitsLocked(c.host, Demand[c.server])
       /\ UNCHANGED vms /\ Answer(c, "err", NoVM)
    \/ /\ c.op = "start"
       /\ Start(c.host, c.vm) /\ Answer(c, "ok", c.vm)
    \/ /\ c.op = "start"
       /\ ~CanStart(c.host, c.vm)
       /\ UNCHANGED vms /\ Answer(c, "err", NoVM)
    \/ /\ c.op = "stop"
       /\ Stop(c.host, c.vm) /\ Answer(c, "ok", NoVM)
    \/ /\ c.op \in {"evict", "deprovision"}
       /\ Remove(c.host, c.vm) /\ Answer(c, "ok", NoVM)
    \/ /\ c.op = "snapshot"
       /\ UNCHANGED vms
       /\ Answer(c, IF ExistsOn(c.host, c.vm) THEN "ok" ELSE "err", NoVM)

Execute(c, Ids) ==
    /\ c \in wire
    /\ wire' = wire \ {c}
    /\ Outcome(c, Ids)
    /\ UNCHANGED <<hosts, rows, order, link, joining, ending, waiter, faults>>

\* The firecracker runtime can fail: an image cannot be pulled, a boot or a live
\* snapshot fails; a VM is halted but its world cannot be stored; a VM is
\* removed but its directory cannot be.
ExecuteFails(c) ==
    /\ c \in wire
    /\ Fault("op")
    /\ wire' = wire \ {c}
    /\ \/ c.op \in {"provision", "start", "snapshot"} /\ UNCHANGED vms
       \/ c.op = "stop" /\ Stop(c.host, c.vm)
       \/ c.op \in {"evict", "deprovision"} /\ Remove(c.host, c.vm)
    /\ Answer(c, "err", NoVM)
    /\ UNCHANGED <<hosts, rows, order, link, joining, ending, waiter>>

GuestPowersOff(v) ==
    /\ Fault("exit")
    /\ GuestExits(v)
    /\ UNCHANGED <<hosts, rows, order, link, joining, ending, wire, waiter, reply, got>>

LinkNext(Ids) ==
    \/ \E h \in Host : \/ Disconnect(h)
                       \/ GoSilent(h)
                       \/ SpeakAgain(h)
                       \/ AgentRestarts(h)
                       \/ ConnectRead(h)
                       \/ ConnectRegister(h)
                       \/ HandlerEnds(h)
                       \/ Beat(h)
                       \/ Quiet(h)
    \/ ReapHosts
    \/ \E c \in wire : Execute(c, Ids) \/ ExecuteFails(c)
    \/ \E v \in VM : GuestPowersOff(v)
=============================================================================
