---------------------------- MODULE HostNetwork ----------------------------
(***************************************************************************)
(* One host's agent (internal/agent/firecracker): the life of its          *)
(* microVMs in runtime.go and machine.go as far as their network is        *)
(* concerned, the address and port pools of netalloc.go, and the eBPF maps *)
(* that publishVM and withdrawVM of nat_linux.go write.                    *)
(*                                                                         *)
(* Commands for different VMs run in goroutines of their own.  at[m] is    *)
(* how far the command at work on VM m has come; the commands of one VM    *)
(* are assumed not to overlap.                                             *)
(***************************************************************************)
EXTENDS Integers, FiniteSets

CONSTANTS VM,               \* VM ids, in the order Provision draws them
          FirstIP, LastIP,  \* the assignable addresses
          Gateway,          \* the one reserved for the gateway
          PortMin, PortMax, \* the public ports
          CPUsTotal         \* how many VMs the host may run; 0: any number

IP   == FirstIP .. LastIP
Port == PortMin .. PortMax
None == 0                   \* no address, no port, no VM

ASSUME NetAssumption ==
    /\ VM \subseteq Nat \ {None}
    /\ FirstIP \in Nat \ {None} /\ LastIP \in Nat /\ Gateway \in IP
    /\ PortMin \in Nat \ {None} /\ PortMax \in Nat /\ PortMin <= PortMax
    /\ CPUsTotal \in Nat

VARIABLES ipam,         \* the pools: used addresses and ports, and the cursors
          at, net, up,  \* per VM: command in progress, vmNet, running() holds
          vm_config,    \* eBPF map: address -> VM behind that TAP
          dnat_rules    \* eBPF map: public port -> VM and its address

hostVars == <<ipam, at, net, up, vm_config, dnat_rules>>

NoNet  == [ip |-> None, port |-> None]
NoRule == [vm |-> None, ip |-> None]

\* The stages of a VM.  From "ready" to "killed" it is in the runtime's map.
Stages == {"new", "checked", "allocated", "tapped", "published", "ready",
           "killed", "withdrawn", "gone"}

HostTypeOK ==
    /\ ipam \in [ips : SUBSET IP, ports : SUBSET Port, nextIP : IP, nextPort : Port]
    /\ at \in [VM -> Stages]
    /\ net \in [VM -> [ip : IP \cup {None}, port : Port \cup {None}]]
    /\ up \in SUBSET VM
    /\ vm_config \in [IP -> VM \cup {None}]
    /\ dnat_rules \in [Port -> [vm : VM \cup {None}, ip : IP \cup {None}]]

HostInit ==
    /\ ipam = [ips |-> {Gateway}, ports |-> {}, nextIP |-> FirstIP, nextPort |-> PortMin]
    /\ at = [m \in VM |-> "new"]
    /\ net = [m \in VM |-> NoNet]
    /\ up = {}
    /\ vm_config = [a \in IP |-> None]
    /\ dnat_rules = [p \in Port |-> NoRule]

-----------------------------------------------------------------------------
(* netalloc.go.                                                            *)

\* What the scan of takeIP and takePort finds: the first free value from the
\* cursor upwards, wrapping once.
NextFree(x, pool, used, cursor) ==
    LET turn(v) == IF v < cursor THEN v + Cardinality(pool) ELSE v
    IN  x \in pool \ used /\ \A y \in pool \ used : turn(x) <= turn(y)

\* Mutant: the cursor runs off the end of the pool.
PastNoWrap(x, first, last) == x + 1

\* The cursor after x was taken.
Past(x, first, last) == IF x = last THEN first ELSE x + 1

\* allocate
AllocateNet(m) ==
    \E a \in IP, p \in Port :
        /\ NextFree(a, IP, ipam.ips, ipam.nextIP)
        /\ NextFree(p, Port, ipam.ports, ipam.nextPort)
        /\ ipam' = [ips |-> ipam.ips \cup {a}, ports |-> ipam.ports \cup {p},
                    nextIP |-> Past(a, FirstIP, LastIP),
                    nextPort |-> Past(p, PortMin, PortMax)]
        /\ net' = [net EXCEPT ![m] = [ip |-> a, port |-> p]]

\* The error returns of allocate: no address, or an address but no port, which
\* gives the address back and leaves the cursor moved.
PoolEmpty ==
    IF IP \subseteq ipam.ips THEN UNCHANGED ipam
    ELSE /\ Port \subseteq ipam.ports
         /\ \E a \in IP : /\ NextFree(a, IP, ipam.ips, ipam.nextIP)
                          /\ ipam' = [ipam EXCEPT !.nextIP = Past(a, FirstIP, LastIP)]

\* release
ReleaseNet(m) ==
    /\ ipam' = [ipam EXCEPT !.ips = @ \ {net[m].ip}, !.ports = @ \ {net[m].port}]
    /\ net' = [net EXCEPT ![m] = NoNet]

-----------------------------------------------------------------------------
(* Provision.                                                              *)

Move(m, from, to) == at[m] = from /\ at' = [at EXCEPT ![m] = to]

Tracked == {m \in VM : at[m] = "ready"}

\* checkCapacity: only VMs that are in the map and running count.
HasCapacity == CPUsTotal = 0 \/ Cardinality(Tracked \cap up) < CPUsTotal

\* Ids are fresh: Provision takes the next one.  The image is built under no lock.
CheckCapacity(m) ==
    /\ Move(m, "new", "checked")
    /\ \A k \in VM : k < m => at[k] # "new"
    /\ HasCapacity
    /\ UNCHANGED <<ipam, net, up, vm_config, dnat_rules>>

TakeNet(m) ==
    /\ Move(m, "checked", "allocated")
    /\ AllocateNet(m)
    /\ UNCHANGED <<up, vm_config, dnat_rules>>

TakeNetFails(m) ==
    /\ Move(m, "checked", "gone")
    /\ PoolEmpty
    /\ UNCHANGED <<net, up, vm_config, dnat_rules>>

\* prepareWorldDisk, then boot: start Firecracker, wait for its socket, attach the
\* drives, create the TAP.
CreateTap(m) ==
    /\ Move(m, "allocated", "tapped")
    /\ UNCHANGED <<ipam, net, up, vm_config, dnat_rules>>

\* publishVM: attach nat_tap, then the two map entries.
Publish(m) ==
    /\ Move(m, "tapped", "published")
    /\ vm_config' = [vm_config EXCEPT ![net[m].ip] = m]
    /\ dnat_rules' = [dnat_rules EXCEPT ![net[m].port] = [vm |-> m, ip |-> net[m].ip]]
    /\ UNCHANGED <<ipam, net, up>>

\* MMDS, InstanceStart, and the insertion into the runtime's map.
BootDone(m) ==
    /\ Move(m, "published", "ready")
    /\ up' = up \cup {m}
    /\ UNCHANGED <<ipam, net, vm_config, dnat_rules>>

\* publishVM takes back what it wrote when the second entry cannot be written.
PublishFails(m) ==
    /\ Move(m, "tapped", "gone")
    /\ ReleaseNet(m)
    /\ vm_config' = [vm_config EXCEPT ![net[m].ip] = None]
    /\ UNCHANGED <<up, dnat_rules>>

\* Mutant: a boot that fails keeps its address and port.
BootFailsLeak(m) ==
    /\ at[m] \in {"allocated", "tapped", "published"}
    /\ at' = [at EXCEPT ![m] = "gone"]
    /\ net' = [net EXCEPT ![m] = NoNet]
    /\ UNCHANGED <<ipam, up, vm_config, dnat_rules>>

\* Any other failure kills the process and releases the network; map entries that
\* were written stay.
BootFails(m) ==
    /\ at[m] \in {"allocated", "tapped", "published"}
    /\ at' = [at EXCEPT ![m] = "gone"]
    /\ ReleaseNet(m)
    /\ UNCHANGED <<up, vm_config, dnat_rules>>

-----------------------------------------------------------------------------
(* Stop, Start, teardown.                                                  *)

\* Stop: the TAP and the entries stay.  A guest that powers itself off stays in up: its
\* process has ended but nobody has waited for it.
Halt(m) ==
    /\ at[m] = "ready" /\ m \in up
    /\ up' = up \ {m}
    /\ UNCHANGED <<ipam, at, net, vm_config, dnat_rules>>

\* Start boots again on the same TAP; publishVM finds its link and returns.
Start(m) ==
    /\ at[m] = "ready" /\ m \notin up
    /\ HasCapacity
    /\ up' = up \cup {m}
    /\ UNCHANGED <<ipam, at, net, vm_config, dnat_rules>>

\* Mutant: the pools get the address and port back before they are withdrawn.
TeardownFreesFirst(m) ==
    /\ Move(m, "ready", "killed")
    /\ up' = up \ {m}
    /\ ipam' = [ipam EXCEPT !.ips = @ \ {net[m].ip}, !.ports = @ \ {net[m].port}]
    /\ UNCHANGED <<net, vm_config, dnat_rules>>

\* teardown, for Evict and Deprovision: out of the map and killed ...
Teardown(m) ==
    /\ Move(m, "ready", "killed")
    /\ up' = up \ {m}
    /\ UNCHANGED <<ipam, net, vm_config, dnat_rules>>

\* ... withdrawVM ...
Withdraw(m) ==
    /\ Move(m, "killed", "withdrawn")
    /\ vm_config' = [vm_config EXCEPT ![net[m].ip] = None]
    /\ dnat_rules' = [dnat_rules EXCEPT ![net[m].port] = NoRule]
    /\ UNCHANGED <<ipam, net, up>>

\* ... releaseNet and deleteTAP.
Release(m) ==
    /\ Move(m, "withdrawn", "gone")
    /\ ReleaseNet(m)
    /\ UNCHANGED <<up, vm_config, dnat_rules>>

HostStep(m) ==
    \/ CheckCapacity(m) \/ TakeNet(m) \/ TakeNetFails(m) \/ CreateTap(m)
    \/ Publish(m) \/ BootDone(m) \/ PublishFails(m) \/ BootFails(m)
    \/ Halt(m) \/ Start(m)
    \/ Teardown(m) \/ Withdraw(m) \/ Release(m)

HostNext == \E m \in VM : HostStep(m)

HostSpec == HostInit /\ [][HostNext]_hostVars

-----------------------------------------------------------------------------

Holding == {m \in VM : at[m] \notin {"new", "checked", "gone"}}

\* The pools are exact: an address or port is in use if and only if one VM, and
\* no other, holds it, through failed allocations, failed boots and teardowns in
\* any order (netalloc.go: "hands out unique VM addresses and host ports").
PoolsExact ==
    /\ ipam.ips = {Gateway} \cup {net[m].ip : m \in Holding}
    /\ ipam.ports = {net[m].port : m \in Holding}
    /\ \A k, m \in Holding :
          k # m => net[k].ip # net[m].ip /\ net[k].port # net[m].port
    /\ \A m \in Holding : net[m].ip # Gateway

\* A VM that is in the runtime's map keeps the entries that make it reachable,
\* whatever happens meanwhile to VMs that had its address or port before it:
\* nobody else's withdrawal or failure removes or redirects them.
ReachableWhileReady ==
    \A m \in VM :
        at[m] \in {"published", "ready"} =>
            /\ vm_config[net[m].ip] = m
            /\ dnat_rules[net[m].port] = [vm |-> m, ip |-> net[m].ip]
=============================================================================
