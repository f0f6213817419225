---------------------------- MODULE NetworkProofs ----------------------------
(***************************************************************************)
(* The pools and maps of a host stay right for any number of VMs,          *)
(* addresses and ports, the packet path never disturbs them, and answers   *)
(* come back to the flows they belong to, from the ports clients dialled.  *)
(***************************************************************************)
EXTENDS Nat, TLAPS

\* Steps are first-order unless they say SMT.
USE Zenon

HInv == HostTypeOK /\ PoolsExact /\ ReachableWhileReady

\* The stages of a VM that holds an address and a port.
Held == {"allocated", "tapped", "published", "ready", "killed", "withdrawn"}

-----------------------------------------------------------------------------
(* Facts about one state.                                                  *)

\* A VM that holds a network holds an assignable address and port, alone.
LEMMA HolderFacts ==
    ASSUME HostTypeOK, PoolsExact, NEW m \in VM, at[m] \in Held
    PROVE  /\ m \in Holding
           /\ net[m].ip \in IP /\ net[m].port \in Port
           /\ net[m].ip # Gateway
           /\ \A k \in Holding : k # m => /\ net[k].ip # net[m].ip
                                          /\ net[k].port # net[m].port
  <1>1. m \in Holding
    BY DEF Holding, Held
  <1>2. net[m].ip \in ipam.ips /\ net[m].port \in ipam.ports
    BY <1>1 DEF PoolsExact
  <1>3. ipam.ips \subseteq IP /\ ipam.ports \subseteq Port
    BY DEF HostTypeOK
  <1> QED BY <1>1, <1>2, <1>3 DEF PoolsExact

\* The cursor stays in its pool.
LEMMA PastInPool ==
    ASSUME NEW first \in Nat, NEW last \in Nat, NEW x \in first .. last
    PROVE  Past(x, first, last) \in first .. last
  BY SMT DEF Past

-----------------------------------------------------------------------------
(* HostTypeOK.                                                             *)

\* Giving a network back keeps the pools typed.
LEMMA ReleaseType ==
    ASSUME HostTypeOK, NEW m \in VM, ReleaseNet(m)
    PROVE  /\ ipam' \in [ips : SUBSET IP, ports : SUBSET Port, nextIP : IP, nextPort : Port]
           /\ net' \in [VM -> [ip : IP \cup {None}, port : Port \cup {None}]]
  BY DEF HostTypeOK, ReleaseNet, NoNet

\* The steps that allocate or fail to.
LEMMA AllocateType ==
    ASSUME HostTypeOK, NEW m \in VM, TakeNet(m) \/ TakeNetFails(m)
    PROVE  HostTypeOK'
  <1>1. /\ \A a \in IP : Past(a, FirstIP, LastIP) \in IP
        /\ \A p \in Port : Past(p, PortMin, PortMax) \in Port
    BY PastInPool, NetAssumption DEF IP, Port
  <1>2. CASE TakeNet(m)
    <2>1. PICK a \in IP, p \in Port :
             /\ ipam' = [ips |-> ipam.ips \cup {a}, ports |-> ipam.ports \cup {p},
                         nextIP |-> Past(a, FirstIP, LastIP),
                         nextPort |-> Past(p, PortMin, PortMax)]
             /\ net' = [net EXCEPT ![m] = [ip |-> a, port |-> p]]
      BY <1>2 DEF TakeNet, AllocateNet
    <2>2. ipam' \in [ips : SUBSET IP, ports : SUBSET Port, nextIP : IP, nextPort : Port]
      BY <1>1, <2>1 DEF HostTypeOK
    <2>3. net' \in [VM -> [ip : IP \cup {None}, port : Port \cup {None}]]
      BY <2>1 DEF HostTypeOK
    <2>4. at' \in [VM -> Stages]
      BY <1>2 DEF TakeNet, Move, HostTypeOK, Stages
    <2> QED BY <1>2, <2>2, <2>3, <2>4 DEF TakeNet, HostTypeOK
  <1>3. CASE TakeNetFails(m)
    <2>1. ipam' \in [ips : SUBSET IP, ports : SUBSET Port, nextIP : IP, nextPort : Port]
      <3>1. CASE UNCHANGED ipam
        BY <3>1 DEF HostTypeOK
      <3>2. ASSUME NEW a \in IP, ipam' = [ipam EXCEPT !.nextIP = Past(a, FirstIP, LastIP)]
            PROVE  ipam' \in [ips : SUBSET IP, ports : SUBSET Port,
                              nextIP : IP, nextPort : Port]
        BY <1>1, <3>2 DEF HostTypeOK
      <3> QED BY <1>3, <3>1, <3>2 DEF TakeNetFails, PoolEmpty
    <2>2. at' \in [VM -> Stages]
      BY <1>3 DEF TakeNetFails, Move, HostTypeOK, Stages
    <2> QED BY <1>3, <2>1, <2>2 DEF TakeNetFails, HostTypeOK
  <1> QED BY <1>2, <1>3

\* Every step of the agent.
LEMMA HostTypeStep ==
    ASSUME HostTypeOK, PoolsExact, NEW m \in VM, HostStep(m)
    PROVE  HostTypeOK'
  <1>1. CASE TakeNet(m) \/ TakeNetFails(m)
    BY <1>1, AllocateType
  <1>2. CASE CheckCapacity(m) \/ CreateTap(m)
    BY <1>2 DEF CheckCapacity, CreateTap, Move, HostTypeOK, Stages
  <1>3. CASE Publish(m) \/ Withdraw(m)
    <2>1. at[m] \in Held
      BY <1>3 DEF Publish, Withdraw, Move, Held
    <2>2. net[m].ip \in IP /\ net[m].port \in Port
      BY <2>1, HolderFacts
    <2>3. at' \in [VM -> Stages]
      BY <1>3, SMT DEF Publish, Withdraw, Move, HostTypeOK, Stages
    <2>4. vm_config' \in [IP -> VM \cup {None}]
      BY <1>3, <2>2 DEF Publish, Withdraw, HostTypeOK
    <2>5. dnat_rules' \in [Port -> [vm : VM \cup {None}, ip : IP \cup {None}]]
      BY <1>3, <2>2, SMT DEF Publish, Withdraw, HostTypeOK, NoRule
    <2> QED BY <1>3, <2>3, <2>4, <2>5 DEF Publish, Withdraw, HostTypeOK
  <1>4. CASE BootDone(m) \/ Halt(m) \/ Start(m) \/ Teardown(m)
    <2>1. at' \in [VM -> Stages] /\ up' \in SUBSET VM
      BY <1>4 DEF BootDone, Halt, Start, Teardown, Move, HostTypeOK, Stages
    <2> QED BY <1>4, <2>1 DEF BootDone, Halt, Start, Teardown, HostTypeOK
  <1>5. CASE PublishFails(m) \/ BootFails(m) \/ Release(m)
    <2>1. ReleaseNet(m)
      BY <1>5 DEF PublishFails, BootFails, Release
    <2>2. at' \in [VM -> Stages]
      BY <1>5 DEF PublishFails, BootFails, Release, Move, HostTypeOK, Stages
    <2>3. vm_config' \in [IP -> VM \cup {None}]
      BY <1>5 DEF PublishFails, BootFails, Release, HostTypeOK
    <2> QED BY <1>5, <2>1, <2>2, <2>3, ReleaseType
            DEF PublishFails, BootFails, Release, HostTypeOK
  <1> QED BY <1>1, <1>2, <1>3, <1>4, <1>5 DEF HostStep

-----------------------------------------------------------------------------
(* PoolsExact.                                                             *)

\* Only the cursors and the stage of a VM change, not who holds what.
LEMMA PoolsKept ==
    ASSUME PoolsExact, UNCHANGED net, Holding' = Holding,
           ipam'.ips = ipam.ips, ipam'.ports = ipam.ports
    PROVE  PoolsExact'
  BY SMT DEF PoolsExact

\* What takeIP and takePort find is not in use.
LEMMA FreeIsFree ==
    ASSUME NEW x, NEW pool, NEW used, NEW cursor, NextFree(x, pool, used, cursor)
    PROVE  x \notin used
  BY DEF NextFree

\* An address and port that nobody uses are taken.
LEMMA PoolsTaken ==
    ASSUME HostTypeOK, PoolsExact, NEW m \in VM, TakeNet(m)
    PROVE  PoolsExact'
  <1>1. PICK a \in IP, p \in Port :
           /\ a \notin ipam.ips /\ p \notin ipam.ports
           /\ ipam'.ips = ipam.ips \cup {a} /\ ipam'.ports = ipam.ports \cup {p}
           /\ net' = [net EXCEPT ![m] = [ip |-> a, port |-> p]]
    <2>1. PICK a \in IP, p \in Port :
             /\ NextFree(a, IP, ipam.ips, ipam.nextIP)
             /\ NextFree(p, Port, ipam.ports, ipam.nextPort)
             /\ ipam' = [ips |-> ipam.ips \cup {a}, ports |-> ipam.ports \cup {p},
                         nextIP |-> Past(a, FirstIP, LastIP),
                         nextPort |-> Past(p, PortMin, PortMax)]
             /\ net' = [net EXCEPT ![m] = [ip |-> a, port |-> p]]
      BY DEF TakeNet, AllocateNet
    <2>2. a \notin ipam.ips /\ p \notin ipam.ports
      BY <2>1, FreeIsFree
    <2>3. ipam'.ips = ipam.ips \cup {a} /\ ipam'.ports = ipam.ports \cup {p}
      BY <2>1
    <2> QED BY <2>1, <2>2, <2>3
  <1>2. m \notin Holding /\ Holding' = Holding \cup {m}
    BY DEF TakeNet, Move, HostTypeOK, Holding
  <1>3. /\ net'[m].ip = a /\ net'[m].port = p
        /\ \A k \in Holding : net'[k] = net[k]
    BY <1>1, <1>2 DEF HostTypeOK, Holding
  <1>4. {net[k].ip : k \in Holding}' = {net[k].ip : k \in Holding} \cup {a}
    BY <1>2, <1>3
  <1>5. {net[k].port : k \in Holding}' = {net[k].port : k \in Holding} \cup {p}
    BY <1>2, <1>3
  <1>6. \A k \in Holding : /\ net[k].ip # a /\ net[k].port # p
    BY <1>1 DEF PoolsExact
  <1>7. a # Gateway
    BY <1>1 DEF PoolsExact
  <1>8. \A j, k \in Holding' : j # k => /\ net'[j].ip # net'[k].ip
                                        /\ net'[j].port # net'[k].port
    BY <1>2, <1>3, <1>6, SMT DEF PoolsExact
  <1> QED BY <1>1, <1>2, <1>3, <1>4, <1>5, <1>7, <1>8 DEF PoolsExact

\* A holder gives its address and port back.
LEMMA PoolsGiven ==
    ASSUME HostTypeOK, PoolsExact, NEW m \in VM, at[m] \in Held, ReleaseNet(m),
           at' = [at EXCEPT ![m] = "gone"]
    PROVE  PoolsExact'
  <1>1. /\ m \in Holding /\ net[m].ip # Gateway
        /\ \A k \in Holding : k # m => /\ net[k].ip # net[m].ip
                                       /\ net[k].port # net[m].port
    BY HolderFacts
  <1>2. Holding' = Holding \ {m}
    BY DEF HostTypeOK, Holding
  <1>3. /\ ipam'.ips = ipam.ips \ {net[m].ip}
        /\ ipam'.ports = ipam.ports \ {net[m].port}
    BY DEF ReleaseNet, HostTypeOK
  <1>4. \A k \in Holding \ {m} : net'[k] = net[k]
    BY DEF ReleaseNet, HostTypeOK, Holding
  <1>5. {net[k].ip : k \in Holding}' = {net[k].ip : k \in Holding} \ {net[m].ip}
    BY <1>1, <1>2, <1>4
  <1>6. {net[k].port : k \in Holding}' = {net[k].port : k \in Holding} \ {net[m].port}
    BY <1>1, <1>2, <1>4
  <1>7. /\ ipam'.ips = {Gateway} \cup {net[k].ip : k \in Holding}'
        /\ ipam'.ports = {net[k].port : k \in Holding}'
    BY <1>1, <1>3, <1>5, <1>6 DEF PoolsExact
  <1> QED BY <1>2, <1>4, <1>7, SMT DEF PoolsExact

\* Every step of the agent.
LEMMA PoolsStep ==
    ASSUME HostTypeOK, PoolsExact, NEW m \in VM, HostStep(m)
    PROVE  PoolsExact'
  <1>1. CASE TakeNet(m)
    BY <1>1, PoolsTaken
  <1>2. CASE TakeNetFails(m)
    <2>1. Holding' = Holding /\ UNCHANGED net
      BY <1>2 DEF TakeNetFails, Move, HostTypeOK, Holding
    <2>2. ipam'.ips = ipam.ips /\ ipam'.ports = ipam.ports
      BY <1>2 DEF TakeNetFails, PoolEmpty, HostTypeOK
    <2> QED BY <2>1, <2>2, PoolsKept
  <1>3. CASE CheckCapacity(m) \/ CreateTap(m) \/ Publish(m) \/ BootDone(m)
    <2>1. Holding' = Holding /\ UNCHANGED <<ipam, net>>
      BY <1>3 DEF CheckCapacity, CreateTap, Publish, BootDone, Move, HostTypeOK, Holding
    <2> QED BY <2>1, PoolsKept
  <1>4. CASE Halt(m) \/ Start(m) \/ Teardown(m) \/ Withdraw(m)
    <2>1. Holding' = Holding /\ UNCHANGED <<ipam, net>>
      BY <1>4 DEF Halt, Start, Teardown, Withdraw, Move, HostTypeOK, Holding
    <2> QED BY <2>1, PoolsKept
  <1>5. CASE PublishFails(m) \/ BootFails(m) \/ Release(m)
    <2>1. at[m] \in Held /\ ReleaseNet(m) /\ at' = [at EXCEPT ![m] = "gone"]
      BY <1>5 DEF PublishFails, BootFails, Release, Move, Held
    <2> QED BY <2>1, PoolsGiven
  <1> QED BY <1>1, <1>2, <1>3, <1>4, <1>5 DEF HostStep

-----------------------------------------------------------------------------
(* ReachableWhileReady.                                                    *)

\* The entries of k are those of the VM at k's address and port.
Reachable(k) == /\ vm_config[net[k].ip] = k
                /\ dnat_rules[net[k].port] = [vm |-> k, ip |-> net[k].ip]

\* A step of VM m touches no entry of another VM that holds a network.
LEMMA OthersReachable ==
    ASSUME HostTypeOK, PoolsExact, NEW m \in VM, HostStep(m),
           NEW k \in VM, k # m, at[k] \in Held, Reachable(k)
    PROVE  Reachable(k)'
  <1>1. k \in Holding /\ net[k].ip \in IP /\ net[k].port \in Port
    BY HolderFacts
  <1>2. net'[k] = net[k]
    BY DEF HostTypeOK, HostStep, CheckCapacity, TakeNet, AllocateNet, TakeNetFails,
           CreateTap, Publish, BootDone, PublishFails, BootFails, Halt, Start, Teardown,
           Withdraw, Release, ReleaseNet
  <1>3. CASE Publish(m) \/ PublishFails(m) \/ Withdraw(m)
    <2>1. at[m] \in Held
      BY <1>3 DEF Publish, PublishFails, Withdraw, Move, Held
    <2>2. net[m].ip # net[k].ip /\ net[m].port # net[k].port
      BY <1>1, <2>1, HolderFacts
    <2>3. /\ vm_config'[net[k].ip] = vm_config[net[k].ip]
          /\ dnat_rules'[net[k].port] = dnat_rules[net[k].port]
      BY <1>1, <1>3, <2>2 DEF Publish, PublishFails, Withdraw, HostTypeOK
    <2> QED BY <1>2, <2>3 DEF Reachable
  <1>4. CASE ~(Publish(m) \/ PublishFails(m) \/ Withdraw(m))
    <2>1. UNCHANGED <<vm_config, dnat_rules>>
      BY <1>4 DEF HostStep, CheckCapacity, TakeNet, TakeNetFails, CreateTap, BootDone,
                  BootFails, Halt, Start, Teardown, Release
    <2> QED BY <1>2, <2>1 DEF Reachable
  <1> QED BY <1>3, <1>4

\* Every step of the agent.
LEMMA ReachableStep ==
    ASSUME HInv, NEW m \in VM, HostStep(m)
    PROVE  ReachableWhileReady'
  <1>0. HostTypeOK /\ PoolsExact
    BY DEF HInv
  <1>1. SUFFICES ASSUME NEW k \in VM, at'[k] \in {"published", "ready"}
                 PROVE  Reachable(k)'
    BY DEF ReachableWhileReady, Reachable
  <1>2. CASE k # m
    <2>1. at'[k] = at[k]
      BY <1>0, <1>2 DEF HostTypeOK, HostStep, CheckCapacity, TakeNet, TakeNetFails,
             CreateTap, Publish, BootDone, PublishFails, BootFails, Halt, Start,
             Teardown, Withdraw, Release, Move
    <2>2. at[k] \in Held /\ Reachable(k)
      BY <1>1, <2>1 DEF HInv, ReachableWhileReady, Reachable, Held
    <2> QED BY <1>0, <1>2, <2>2, OthersReachable
  <1>3. CASE k = m /\ Publish(m)
    <2>1. net[m].ip \in IP /\ net[m].port \in Port
      BY <1>0, <1>3, HolderFacts DEF Publish, Move, Held
    <2>2. /\ vm_config'[net[m].ip] = m
          /\ dnat_rules'[net[m].port] = [vm |-> m, ip |-> net[m].ip]
          /\ UNCHANGED net
      BY <1>0, <1>3, <2>1 DEF Publish, HostTypeOK
    <2> QED BY <1>3, <2>2 DEF Reachable
  <1>4. CASE k = m /\ ~Publish(m)
    <2>1. BootDone(m) \/ Halt(m) \/ Start(m)
      BY <1>0, <1>1, <1>4 DEF HostTypeOK, HostStep, CheckCapacity, TakeNet, TakeNetFails,
             CreateTap, PublishFails, BootFails, Teardown, Withdraw, Release, Move
    <2>2. at[m] \in {"published", "ready"} /\ UNCHANGED <<net, vm_config, dnat_rules>>
      BY <2>1 DEF BootDone, Halt, Start, Move
    <2> QED BY <1>4, <2>2 DEF HInv, ReachableWhileReady, Reachable
  <1> QED BY <1>2, <1>3, <1>4

-----------------------------------------------------------------------------
(* The theorems.                                                           *)

\* HInv is inductive.
LEMMA StepHInv ==
    ASSUME HInv, [HostNext]_hostVars
    PROVE  HInv'
  <1>1. ASSUME NEW m \in VM, HostStep(m) PROVE HInv'
    BY <1>1, HostTypeStep, PoolsStep, ReachableStep DEF HInv
  <1>2. CASE UNCHANGED hostVars
    BY <1>2, SMT DEF hostVars, HInv, HostTypeOK, PoolsExact, Holding, ReachableWhileReady
  <1> QED BY <1>1, <1>2 DEF HostNext

\* It holds when the agent starts.
LEMMA InitHInv ==
    ASSUME HostInit
    PROVE  HInv
  <1>1. HostTypeOK
    <2>1. FirstIP \in IP /\ Gateway \in IP /\ PortMin \in Port
      BY NetAssumption, SMT DEF IP, Port
    <2>2. ipam \in [ips : SUBSET IP, ports : SUBSET Port, nextIP : IP, nextPort : Port]
      BY <2>1 DEF HostInit
    <2> QED BY <2>2 DEF HostInit, HostTypeOK, Stages, NoNet, NoRule
  <1>2. Holding = {}
    BY DEF HostInit, Holding
  <1>3. PoolsExact
    BY <1>2 DEF HostInit, PoolsExact
  <1>4. ReachableWhileReady
    BY DEF HostInit, ReachableWhileReady
  <1> QED BY <1>1, <1>3, <1>4 DEF HInv

\* For any number of VMs, addresses and ports, netalloc.go's pools hold exactly
\* what live VMs use, each address and port by one of them.
THEOREM PoolsAlwaysExact ==
    HostSpec => []PoolsExact
  <1>1. HInv => PoolsExact
    BY DEF HInv
  <1>2. HInv /\ [HostNext]_hostVars => HInv'
    BY StepHInv
  <1> QED BY <1>1, <1>2, InitHInv, PTL DEF HostSpec

\* And a VM in the runtime's map keeps its vm_config and dnat_rules entries,
\* whatever the commands of other VMs do meanwhile.
THEOREM AlwaysReachable ==
    HostSpec => []ReachableWhileReady
  <1>1. HInv => ReachableWhileReady
    BY DEF HInv
  <1>2. HInv /\ [HostNext]_hostVars => HInv'
    BY StepHInv
  <1> QED BY <1>1, <1>2, InitHInv, PTL DEF HostSpec

\* The packet programs and the connection table leave the agent's state alone.
LEMMA PathSteps ==
    [Next]_vars => [HostNext]_hostVars
  <1>1. ASSUME NEW m \in VM, Agent(m) PROVE HostNext
    BY <1>1 DEF Agent, HostNext
  <1>2. ASSUME NEW c \in Cpu, Program(c) PROVE UNCHANGED hostVars
    BY <1>2 DEF Program, NatTap, TapInsert, TapLost, NatUplink, Unsnat, FindRule,
                DnatInsert
  <1>3. ASSUME Kernel PROVE UNCHANGED hostVars
    BY <1>3 DEF Kernel, HostDial, Expire
  <1>4. UNCHANGED vars => UNCHANGED hostVars
    BY DEF vars
  <1> QED BY <1>1, <1>2, <1>3, <1>4 DEF Next

\* So host and packet path together implement the host, and inherit all it keeps.
THEOREM PathImplementsHost ==
    Spec => HostSpec /\ []HostTypeOK /\ []PoolsExact /\ []ReachableWhileReady
  <1>1. Init => HostInit
    BY DEF Init
  <1>2. HInv => HostTypeOK /\ PoolsExact /\ ReachableWhileReady
    BY DEF HInv
  <1>3. HInv /\ [HostNext]_hostVars => HInv'
    BY StepHInv
  <1> QED BY <1>1, <1>2, <1>3, PathSteps, InitHInv, PTL DEF Spec, HostSpec

-----------------------------------------------------------------------------
(* The packet path.  What a remote was shown is in the connection table,   *)
(* as an entry that leads back (SentInv).  That rests on which entries     *)
(* there can be, in the table and on their way into it (TableInv, CpuInv), *)
(* on the rules they were made by (RuleInv, CleanInv), and on a service    *)
(* that has heard from a client finding the client's entry (HeardInv).     *)

\* The three kinds of entry: of a flow a VM opened, of the host's own, and of one
\* that came in on a published port.
OutEntry(a, p, r, q) == [orig |-> <<<<a, p>>, r>>, reply |-> <<r, <<HostIP, q>>>>]
HostEntry(p, r)      == [orig |-> <<<<HostIP, p>>, r>>, reply |-> <<r, <<HostIP, p>>>>]
InEntry(r, q, a)     == [orig |-> <<r, <<HostIP, q>>>>, reply |-> <<<<a, ServicePort>>, r>>]

\* The remotes all of whose flows have their entry.
Steady(r) == \A g \in lapsed : g.peer # r

\* A VM dials servers; its service opens a flow only when it has lost its entry.
Opens(p, r) == IF p = ServicePort THEN ~Steady(r) ELSE r \in Server

IsOut(e)  == \E a \in IP, p \in VMPort, r \in Remote, q \in SnatPort :
                e = OutEntry(a, p, r, q) /\ Opens(p, r)
IsHost(e) == \E p \in HostPort, r \in Server : e = HostEntry(p, r)
IsIn(e)   == \E r \in Remote, q \in Port, a \in IP : e = InEntry(r, q, a)

TableInv ==
    /\ \A e \in ct : IsOut(e) \/ IsHost(e) \/ IsIn(e)
    /\ \A e, f \in ct : Tuples(e) \cap Tuples(f) # {} => e = f

\* A rule's VM has been published, and the rule is its own while it has its network.
RuleInv ==
    \A q \in Port :
        LET k == dnat_rules[q]
        IN  k.vm # None =>
              /\ k.ip \in IP
              /\ at[k.vm] \in {"published", "ready", "killed", "gone"}
              /\ at[k.vm] # "gone" => net[k.vm] = [ip |-> k.ip, port |-> q]

\* A VM that started clean: what leads in pairs its address with its port.
Clean(m) == at[m] \in {"published", "ready"} /\ m \notin reused

Paired(e) ==
    \A m \in VM, r \in Remote, q \in Port, a \in IP :
        Clean(m) /\ e = InEntry(r, q, a) => (a = net[m].ip <=> q = net[m].port)

CleanInv ==
    /\ \A e \in ct : Paired(e)
    /\ \A m \in VM, q \in Port :
          Clean(m) /\ dnat_rules[q].ip = net[m].ip => q = net[m].port

\* The programs at work: nat_tap on a new flow, nat_uplink on a packet, and
\* nat_uplink about to enter a flow.
Sending(p) ==
    /\ p.vm \in VM /\ at[p.vm] \in {"ready", "killed", "withdrawn", "gone"}
    /\ \E a \in IP, r \in Remote, q \in SnatPort :
          /\ p.port \in VMPort /\ p.tuple = <<<<a, p.port>>, r>>
          /\ p.entry = OutEntry(a, p.port, r, q) /\ Opens(p.port, r)
          /\ at[p.vm] = "ready" => a = net[p.vm].ip

Arriving(p) ==
    /\ p.port \in Port \cup SnatPort \cup HostPort
    /\ \E r \in Remote : p.tuple = <<r, <<HostIP, p.port>>>>
    /\ p.pc = "unsnat" => /\ IsOut(p.entry) \/ IsHost(p.entry)
                          /\ p.entry.reply = p.tuple

Entering(p) ==
    /\ p.vm \in VM /\ at[p.vm] \in {"published", "ready", "killed", "withdrawn", "gone"}
    /\ p.port = ServicePort
    /\ \E r \in Remote, q \in Port, a \in IP :
          /\ p.tuple = <<r, <<HostIP, q>>>> /\ p.entry = InEntry(r, q, a)
          /\ at[p.vm] \in {"published", "ready"} => net[p.vm] = [ip |-> a, port |-> q]

JobInv(p) ==
    /\ p = [pc |-> p.pc, vm |-> p.vm, port |-> p.port, tuple |-> p.tuple, entry |-> p.entry]
    /\ p.pc \in {"idle", "insert", "lost", "unsnat", "rule", "dnat"}
    /\ p.pc \in {"insert", "lost"} => Sending(p)
    /\ p.pc \in {"unsnat", "rule"} => Arriving(p)
    /\ p.pc = "dnat" => Entering(p)
    /\ p.entry = NoEntry <=> p.pc \in {"idle", "rule"}
    /\ Paired(p.entry)

CpuInv == cpu = [c \in Cpu |-> cpu[c]] /\ \A c \in Cpu : JobInv(cpu[c])

\* A service answers clients that it has heard from, by their entries.
HeardOK(f) ==
    /\ f \in Flow /\ f.vm # None /\ f.port = ServicePort /\ f.peer \in Client
    /\ at[f.vm] = "ready"
    /\ Steady(f.peer) => Hit(<<<<net[f.vm].ip, ServicePort>>, f.peer>>)

HeardInv == \A f \in heard : HeardOK(f)

\* The entry of flow f that port q was shown for.
InTable(f, q) ==
    IF f.vm = None THEN f.port = q /\ HostEntry(q, f.peer) \in ct
    ELSE IF f.port = ServicePort
      THEN q = net[f.vm].port /\ InEntry(f.peer, q, net[f.vm].ip) \in ct
    ELSE OutEntry(net[f.vm].ip, f.port, f.peer, q) \in ct

SentOK(s) ==
    /\ s.flow \in Flow
    /\ s.flow.vm # None => at[s.flow.vm] = "ready" /\ s.flow.port \in VMPort
    /\ Sound(s.flow) => InTable(s.flow, s.pub)

SentInv == \A s \in sent : SentOK(s)

MarksInv == filter \in {"off", "watch", "drop"} /\ lapsed \subseteq Flow /\ reused \subseteq VM

NInv == TableInv /\ RuleInv /\ CleanInv /\ CpuInv /\ HeardInv /\ SentInv /\ MarksInv

-----------------------------------------------------------------------------
(* Tuples and entries.                                                     *)

\* Remotes have addresses of their own.
LEMMA RemoteApart ==
    ASSUME NEW r \in Remote
    PROVE  /\ \A x : r # <<HostIP, x>>
           /\ \A x : \A a \in IP : r # <<a, x>>
  <1>1. r \in (Nat \ ({HostIP} \cup IP)) \X Nat
    BY NatAssumption
  <1>2. PICK a \in Nat \ ({HostIP} \cup IP), b \in Nat : r = <<a, b>>
    BY <1>1, SMT
  <1> QED BY <1>2

\* An entry that has a VM's packet: of a flow the VM opened, or of one to its service.
LEMMA VMTuple ==
    ASSUME NEW e, IsOut(e) \/ IsHost(e) \/ IsIn(e),
           NEW a \in IP, NEW p, NEW r \in Remote, <<<<a, p>>, r>> \in Tuples(e)
    PROVE  \/ /\ p \in VMPort /\ Opens(p, r)
              /\ \E q \in SnatPort : e = OutEntry(a, p, r, q)
           \/ p = ServicePort /\ \E q \in Port : e = InEntry(r, q, a)
  <1>1. a # HostIP
    BY NetAssumption, SMT DEF HostIP, IP, None
  <1>2. CASE IsOut(e)
    <2>1. PICK b \in IP, x \in VMPort, s \in Remote, q \in SnatPort :
             e = OutEntry(b, x, s, q) /\ Opens(x, s)
      BY <1>2 DEF IsOut
    <2>2. <<<<a, p>>, r>> # <<s, <<HostIP, q>>>>
      BY RemoteApart
    <2>3. <<<<a, p>>, r>> = <<<<b, x>>, s>>
      BY <2>1, <2>2 DEF Tuples, OutEntry
    <2>4. a = b /\ p = x /\ r = s
      BY <2>3
    <2> QED BY <2>1, <2>4
  <1>3. CASE IsHost(e)
    <2>1. PICK x \in HostPort, s \in Server : e = HostEntry(x, s)
      BY <1>3 DEF IsHost
    <2>2. <<<<a, p>>, r>> # <<s, <<HostIP, x>>>>
      BY RemoteApart
    <2>3. <<<<a, p>>, r>> # <<<<HostIP, x>>, s>>
      BY <1>1
    <2> QED BY <2>1, <2>2, <2>3 DEF Tuples, HostEntry
  <1>4. CASE IsIn(e)
    <2>1. PICK s \in Remote, q \in Port, b \in IP : e = InEntry(s, q, b)
      BY <1>4 DEF IsIn
    <2>2. <<<<a, p>>, r>> # <<s, <<HostIP, q>>>>
      BY RemoteApart
    <2>3. <<<<a, p>>, r>> = <<<<b, ServicePort>>, s>>
      BY <2>1, <2>2 DEF Tuples, InEntry
    <2>4. a = b /\ p = ServicePort /\ r = s
      BY <2>3
    <2> QED BY <2>1, <2>4
  <1> QED BY <1>2, <1>3, <1>4

\* An entry that has a remote's packet to the host.
LEMMA RemoteTuple ==
    ASSUME NEW e, IsOut(e) \/ IsHost(e) \/ IsIn(e),
           NEW r \in Remote, NEW q, <<r, <<HostIP, q>>>> \in Tuples(e)
    PROVE  \/ \E a \in IP, p \in VMPort : e = OutEntry(a, p, r, q) /\ Opens(p, r)
           \/ e = HostEntry(q, r) /\ r \in Server
           \/ q \in Port /\ \E a \in IP : e = InEntry(r, q, a)
  <1>1. CASE IsOut(e)
    <2>1. PICK a \in IP, p \in VMPort, s \in Remote, x \in SnatPort :
             e = OutEntry(a, p, s, x) /\ Opens(p, s)
      BY <1>1 DEF IsOut
    <2>2. <<r, <<HostIP, q>>>> # <<<<a, p>>, s>>
      BY RemoteApart
    <2>3. <<r, <<HostIP, q>>>> = <<s, <<HostIP, x>>>>
      BY <2>1, <2>2 DEF Tuples, OutEntry
    <2>4. r = s /\ q = x
      BY <2>3
    <2> QED BY <2>1, <2>4
  <1>2. CASE IsHost(e)
    <2>1. PICK x \in HostPort, s \in Server : e = HostEntry(x, s)
      BY <1>2 DEF IsHost
    <2>2. <<r, <<HostIP, q>>>> # <<<<HostIP, x>>, s>>
      BY RemoteApart
    <2>3. <<r, <<HostIP, q>>>> = <<s, <<HostIP, x>>>>
      BY <2>1, <2>2 DEF Tuples, HostEntry
    <2>4. r = s /\ q = x
      BY <2>3
    <2> QED BY <2>1, <2>4
  <1>3. CASE IsIn(e)
    <2>1. PICK s \in Remote, x \in Port, a \in IP : e = InEntry(s, x, a)
      BY <1>3 DEF IsIn
    <2>2. <<r, <<HostIP, q>>>> # <<<<a, ServicePort>>, s>>
      BY RemoteApart
    <2>3. <<r, <<HostIP, q>>>> = <<s, <<HostIP, x>>>>
      BY <2>1, <2>2 DEF Tuples, InEntry
    <2>4. r = s /\ q = x
      BY <2>3
    <2> QED BY <2>1, <2>4
  <1> QED BY <1>1, <1>2, <1>3

\* bpf_skb_ct_lookup finds an entry of the table, the only one with the tuple.
LEMMA LookupFacts ==
    ASSUME TableInv, NEW t
    PROVE  /\ Hit(t) => Lookup(t) \in ct /\ t \in Tuples(Lookup(t))
           /\ \A e \in ct : t \in Tuples(e) => Hit(t) /\ Lookup(t) = e
  <1>1. Hit(t) => Lookup(t) \in ct /\ t \in Tuples(Lookup(t))
    BY DEF Hit, Lookup
  <1> QED BY <1>1 DEF TableInv, Hit

\* The invariant says what the runs check.
LEMMA AnswersFollow ==
    ASSUME HInv, NInv
    PROVE  AnswersComeBack /\ AnswersFromPublishedPort
  <1> SUFFICES ASSUME NEW s \in sent, Sound(s.flow)
               PROVE  /\ Home(s.flow.peer, s.pub) = [vm |-> s.flow.vm, port |-> s.flow.port]
                      /\ s.flow.vm # None /\ s.flow.port = ServicePort =>
                            s.pub = net[s.flow.vm].port
    BY DEF AnswersComeBack, AnswersFromPublishedPort
  <1> DEFINE m == s.flow.vm
             p == s.flow.port
             r == s.flow.peer
             q == s.pub
             t == <<r, <<HostIP, q>>>>
  <1>1. /\ m \in VM \cup {None} /\ r \in Remote
        /\ m # None => at[m] = "ready"
        /\ InTable(s.flow, q)
    BY DEF NInv, SentInv, SentOK, Flow
  <1>2. HostIP \notin IP
    BY NetAssumption, SMT DEF HostIP, IP, None
  <1>3. \A e \in ct : t \in Tuples(e) => Hit(t) /\ Lookup(t) = e
    BY LookupFacts DEF NInv
  <1>4. m # None => /\ m \in VM /\ net[m].ip \in IP /\ net[m].port \in Port
                    /\ vm_config[net[m].ip] = m
                    /\ dnat_rules[net[m].port].vm = m
    <2> SUFFICES ASSUME m # None
                 PROVE  /\ m \in VM /\ net[m].ip \in IP /\ net[m].port \in Port
                        /\ vm_config[net[m].ip] = m
                        /\ dnat_rules[net[m].port].vm = m
      OBVIOUS
    <2>1. m \in VM /\ at[m] = "ready"
      BY <1>1
    <2> HIDE DEF m
    <2>2. net[m].ip \in IP /\ net[m].port \in Port
      BY <2>1, HolderFacts DEF HInv, Held
    <2>3. /\ vm_config[net[m].ip] = m
          /\ dnat_rules[net[m].port] = [vm |-> m, ip |-> net[m].ip]
      BY <2>1 DEF HInv, ReachableWhileReady
    <2> QED BY <2>1, <2>2, <2>3, SMT
  <1>5. CASE m = None
    <2> DEFINE e == HostEntry(q, r)
    <2>1. p = q /\ e \in ct
      BY <1>1, <1>5 DEF InTable
    <2>2. e.orig[1][1] = HostIP /\ e.reply = t
      BY DEF HostEntry
    <2>3. IsReply(t) /\ Lookup(t) = e
      BY <1>3, <2>1, <2>2 DEF IsReply, Tuples
    <2> HIDE DEF e
    <2>4. Behind(e, q) = [vm |-> None, port |-> q]
      BY <1>2, <2>2 DEF Behind
    <2> QED BY <1>5, <2>1, <2>3, <2>4 DEF Home
  <1>6. CASE m # None /\ p # ServicePort
    <2> DEFINE e == OutEntry(net[m].ip, p, r, q)
    <2>1. e \in ct
      BY <1>1, <1>6 DEF InTable
    <2>2. e.orig[1][1] = net[m].ip /\ e.orig[1][2] = p /\ e.reply = t
      BY DEF OutEntry
    <2>3. IsReply(t) /\ Lookup(t) = e
      BY <1>3, <2>1, <2>2 DEF IsReply, Tuples
    <2> HIDE DEF e
    <2>4. Behind(e, q) = [vm |-> m, port |-> p]
      BY <1>4, <1>6, <2>2 DEF Behind
    <2> QED BY <1>6, <2>3, <2>4 DEF Home
  <1>7. CASE m # None /\ p = ServicePort
    <2> DEFINE e == InEntry(r, q, net[m].ip)
    <2>1. e \in ct /\ q = net[m].port
      BY <1>1, <1>7 DEF InTable
    <2>2. e.orig = t /\ e.reply # t
      BY <1>1, <1>4, <1>7, RemoteApart DEF InEntry
    <2>3. ~IsReply(t)
      BY <1>3, <2>1, <2>2 DEF IsReply, Tuples
    <2> QED BY <1>4, <1>7, <2>1, <2>3 DEF Home
  <1> QED BY <1>5, <1>6, <1>7

\* It implies that the path is well typed.
LEMMA PathTyped ==
    ASSUME HInv, NInv
    PROVE  TypeOK
  <1>1. ASSUME NEW e \in ct
        PROVE  e \in [orig : Inside \X Remote, reply : Remote \X Public]
                     \cup [orig : Remote \X Public, reply : Inside \X Remote]
    <2>1. CASE IsOut(e)
      <3>1. PICK a \in IP, p \in VMPort, r \in Remote, q \in SnatPort :
               e = OutEntry(a, p, r, q)
        BY <2>1 DEF IsOut
      <3>2. <<a, p>> \in Inside /\ <<HostIP, q>> \in Public
        BY DEF Inside, Public
      <3> QED BY <3>1, <3>2 DEF OutEntry
    <2>2. CASE IsHost(e)
      <3>1. PICK p \in HostPort, r \in Server : e = HostEntry(p, r)
        BY <2>2 DEF IsHost
      <3>2. <<HostIP, p>> \in Inside /\ <<HostIP, p>> \in Public /\ r \in Remote
        BY DEF Inside, Public, Remote
      <3> QED BY <3>1, <3>2 DEF HostEntry
    <2>3. CASE IsIn(e)
      <3>1. PICK r \in Remote, q \in Port, a \in IP : e = InEntry(r, q, a)
        BY <2>3 DEF IsIn
      <3>2. <<a, ServicePort>> \in Inside /\ <<HostIP, q>> \in Public
        BY DEF Inside, Public, VMPort
      <3> QED BY <3>1, <3>2 DEF InEntry
    <2> QED BY <2>1, <2>2, <2>3 DEF NInv, TableInv
  <1>2. /\ \A c \in Cpu : cpu[c].pc \in {"idle", "insert", "lost", "unsnat", "rule", "dnat"}
        /\ \A s \in sent : s.flow \in Flow
        /\ heard \subseteq Flow
    BY DEF NInv, CpuInv, JobInv, SentInv, SentOK, HeardInv, HeardOK
  <1> QED BY <1>1, <1>2 DEF TypeOK, HInv, NInv, MarksInv

-----------------------------------------------------------------------------
(* The packet programs.                                                    *)

\* What does not change while a packet is handled.
Frame == /\ UNCHANGED <<hostVars, filter, reused>>
         /\ ct \subseteq ct' /\ lapsed \subseteq lapsed'

\* A remote that lost a flow stays so.
LEMMA OpensStays ==
    ASSUME lapsed \subseteq lapsed', NEW p, NEW r, NEW e
    PROVE  /\ Steady(r)' => Steady(r)
           /\ Opens(p, r) => Opens(p, r)'
           /\ IsOut(e) => IsOut(e)'
           /\ IsHost(e)' = IsHost(e) /\ IsIn(e)' = IsIn(e)
  <1>1. \A x : Steady(x)' => Steady(x)
    BY DEF Steady
  <1>2. \A x, y : Opens(x, y) => Opens(x, y)'
    BY <1>1 DEF Opens
  <1> QED BY <1>1, <1>2 DEF IsOut, IsHost, IsIn

\* What holds of a program, of a client heard and of a packet sent goes on to hold.
LEMMA FrameStays ==
    ASSUME Frame, NEW x
    PROVE  /\ Paired(x) => Paired(x)'
           /\ JobInv(x) => JobInv(x)'
           /\ HeardOK(x) => HeardOK(x)'
           /\ SentOK(x) => SentOK(x)'
  <1>1. UNCHANGED <<at, net, reused>>
    BY DEF Frame, hostVars
  <1>2. \A e : Paired(e) => Paired(e)'
    BY <1>1, SMT DEF Paired, Clean
  <1>3. ASSUME JobInv(x) PROVE JobInv(x)'
    <2>1. Sending(x) => Sending(x)'
      BY <1>1, OpensStays DEF Sending, Frame
    <2>2. Arriving(x) => Arriving(x)'
      BY OpensStays DEF Arriving, Frame
    <2>3. Entering(x) => Entering(x)'
      BY <1>1 DEF Entering
    <2>4. Paired(x.entry)'
      BY <1>2, <1>3 DEF JobInv
    <2> QED BY <1>3, <2>1, <2>2, <2>3, <2>4 DEF JobInv
  <1>4. HeardOK(x) => HeardOK(x)'
    BY <1>1, OpensStays DEF HeardOK, Hit, Frame
  <1>5. SentOK(x) => SentOK(x)'
    BY <1>1 DEF SentOK, Sound, InTable, Frame
  <1> QED BY <1>2, <1>3, <1>4, <1>5

\* So it is enough to look at what a program adds.
LEMMA FrameInv ==
    ASSUME HInv, NInv, Frame, TableInv', lapsed' \subseteq Flow,
           \A e \in ct' : e \in ct \/ Paired(e),
           cpu' = [c \in Cpu |-> cpu'[c]],
           \A c \in Cpu : cpu'[c] = cpu[c] \/ JobInv(cpu[c])',
           \A f \in heard' : f \in heard \/ HeardOK(f)',
           \A s \in sent' : s \in sent \/ SentOK(s)'
    PROVE  NInv'
  <1>1. UNCHANGED <<at, net, dnat_rules, reused, filter>>
    BY DEF Frame, hostVars
  <1>2. RuleInv' /\ MarksInv'
    BY <1>1 DEF NInv, RuleInv, MarksInv
  <1>3. CleanInv'
    <2>1. \A e \in ct' : Paired(e)'
      BY FrameStays DEF NInv, CleanInv
    <2> QED BY <1>1, <2>1 DEF NInv, CleanInv, Clean
  <1>4. CpuInv'
    <2> SUFFICES ASSUME NEW c \in Cpu PROVE JobInv(cpu[c])'
      BY DEF CpuInv
    <2>1. JobInv(cpu[c]) => JobInv(cpu[c])' \/ cpu'[c] # cpu[c]
      BY FrameStays
    <2> QED BY <2>1 DEF NInv, CpuInv
  <1>5. HeardInv' /\ SentInv'
    BY FrameStays DEF NInv, HeardInv, SentInv
  <1> QED BY <1>2, <1>3, <1>4, <1>5 DEF NInv

\* bpf_ct_insert_entry keeps tuples apart.
LEMMA InsertTable ==
    ASSUME TableInv, lapsed \subseteq lapsed', NEW e, ~Clash(e), ct' = ct \cup {e},
           IsOut(e) \/ IsHost(e) \/ IsIn(e)
    PROVE  TableInv'
  <1>1. \A f \in ct' : IsOut(f)' \/ IsHost(f)' \/ IsIn(f)'
    BY OpensStays DEF TableInv
  <1>2. ASSUME NEW f \in ct', NEW g \in ct', Tuples(f) \cap Tuples(g) # {} PROVE f = g
    BY <1>2 DEF TableInv, Clash
  <1> QED BY <1>1, <1>2 DEF TableInv, Tuples

\* A table that stays.
LEMMA SameTable ==
    ASSUME TableInv, lapsed \subseteq lapsed', ct' = ct
    PROVE  TableInv'
  <1>1. \A f \in ct : IsOut(f)' \/ IsHost(f)' \/ IsIn(f)'
    BY OpensStays DEF TableInv
  <1> QED BY <1>1 DEF TableInv, Tuples

\* An idle CPU.
LEMMA IdleJob ==
    JobInv(Idle) /\ JobInv(Idle)'
  <1>1. \A r, q, a : NoEntry # InEntry(r, q, a)
    BY DEF NoEntry, InEntry
  <1> QED BY <1>1 DEF JobInv, Idle, Paired

\* What a VM opens is no way in.
LEMMA OutPaired ==
    ASSUME NEW a \in IP, NEW p, NEW r, NEW q
    PROVE  /\ Paired(OutEntry(a, p, r, q)) /\ Paired(OutEntry(a, p, r, q))'
           /\ OutEntry(a, p, r, q) # NoEntry
  <1>1. \A s \in Remote, x \in Port, b \in IP : OutEntry(a, p, r, q) # InEntry(s, x, b)
    <2> SUFFICES ASSUME NEW s \in Remote, NEW x \in Port, NEW b \in IP
                 PROVE  OutEntry(a, p, r, q).orig # InEntry(s, x, b).orig
      OBVIOUS
    <2> QED BY RemoteApart DEF OutEntry, InEntry
  <1>2. OutEntry(a, p, r, q).orig # NoEntry.orig
    BY DEF OutEntry, NoEntry
  <1> QED BY <1>1, <1>2 DEF Paired

\* What a VM that is up has for its network.
LEMMA ReadyNet ==
    ASSUME HInv, NEW m \in VM, at[m] \in {"published", "ready"}
    PROVE  /\ net[m].ip \in IP /\ net[m].port \in Port
           /\ net[m] = [ip |-> net[m].ip, port |-> net[m].port]
           /\ vm_config[net[m].ip] = m
           /\ dnat_rules[net[m].port] = [vm |-> m, ip |-> net[m].ip]
  <1>1. net[m].ip \in IP /\ net[m].port \in Port
    BY HolderFacts DEF HInv, Held
  <1>2. net[m] = [ip |-> net[m].ip, port |-> net[m].port]
    BY DEF HInv, HostTypeOK
  <1> QED BY <1>1, <1>2 DEF HInv, ReachableWhileReady

\* nat_tap shows the remote a source that the table has for the flow.
LEMMA ShownInTable ==
    ASSUME HInv, NInv, NEW m \in VM, at[m] = "ready", NEW port \in VMPort, NEW r \in Remote,
           NEW t, t = <<<<net[m].ip, port>>, r>>, Hit(t)
    PROVE  SentOK([flow |-> [vm |-> m, port |-> port, peer |-> t[2]],
                   pub |-> NewSource(t, Lookup(t))[2]])
  <1> DEFINE a == net[m].ip
             e == Lookup(t)
             f == [vm |-> m, port |-> port, peer |-> r]
  <1>1. a \in IP /\ t[2] = r /\ m # None
    BY ReadyNet, NetAssumption
  <1>2. e \in ct /\ t \in Tuples(e)
    BY LookupFacts DEF NInv
  <1>3. f \in Flow /\ f.vm = m /\ f.port = port /\ f.peer = r
    BY DEF Flow
  <1>4. IsOut(e) \/ IsHost(e) \/ IsIn(e)
    BY <1>2 DEF NInv, TableInv
  <1> HIDE DEF e, f
  <1>5. ASSUME NEW q \in SnatPort, e = OutEntry(a, port, r, q), Opens(port, r)
        PROVE  SentOK([flow |-> f, pub |-> NewSource(t, e)[2]])
    <2>1. NewSource(t, e)[2] = q
      BY <1>5 DEF NewSource, OutEntry
    <2>2. Sound(f) => port # ServicePort
      BY <1>3, <1>5 DEF Sound, Opens, Steady
    <2> QED BY <1>1, <1>2, <1>3, <1>5, <2>1, <2>2 DEF SentOK, InTable
  <1>6. ASSUME NEW q \in Port, e = InEntry(r, q, a), port = ServicePort
        PROVE  SentOK([flow |-> f, pub |-> NewSource(t, e)[2]])
    <2>1. e.orig # t
      BY <1>1, <1>6, RemoteApart DEF InEntry
    <2>2. NewSource(t, e)[2] = q
      BY <1>6, <2>1 DEF NewSource, InEntry
    <2>3. Sound(f) => q = net[m].port
      BY <1>1, <1>2, <1>3, <1>6, SMT DEF Sound, NInv, CleanInv, Paired, Clean
    <2> QED BY <1>1, <1>2, <1>3, <1>6, <2>2, <2>3 DEF SentOK, InTable
  <1>7. SentOK([flow |-> f, pub |-> NewSource(t, e)[2]])
    BY <1>1, <1>2, <1>4, <1>5, <1>6, VMTuple, SMT
  <1> QED BY <1>1, <1>7 DEF e, f

\* One CPU gets on with its program.
LEMMA CpuStep ==
    ASSUME NInv, NEW c \in Cpu, NEW p, Enter(c, p), JobInv(p)'
    PROVE  /\ cpu' = [x \in Cpu |-> cpu'[x]]
           /\ \A x \in Cpu : cpu'[x] = cpu[x] \/ JobInv(cpu[x])'
  <1>1. cpu' = [cpu EXCEPT ![c] = p] /\ cpu = [x \in Cpu |-> cpu[x]]
    BY DEF Enter, NInv, CpuInv
  <1>2. cpu' = [x \in Cpu |-> cpu'[x]] /\ cpu'[c] = p
        /\ \A x \in Cpu : x # c => cpu'[x] = cpu[x]
    BY <1>1
  <1>3. JobInv(cpu[c])'
    BY <1>2
  <1> QED BY <1>2, <1>3

\* nat_tap: the flow is in the table, or an entry for it is on its way.
LEMMA NatTapInv ==
    ASSUME HInv, NInv, NEW c \in Cpu, NEW m \in VM, NEW port \in VMPort, NEW r \in Remote,
           NatTap(c, m, port, r)
    PROVE  NInv'
  <1> DEFINE t == <<<<net[m].ip, port>>, r>>
  <1>1. /\ at[m] = "ready" /\ Sends(m, port, r) /\ net[m].ip \in IP
        /\ UNCHANGED <<hostVars, ct, filter, heard, lapsed, reused>>
    BY ReadyNet DEF NatTap, Sends
  <1>2. Frame /\ TableInv' /\ lapsed' \subseteq Flow
    BY <1>1, SameTable DEF Frame, NInv, MarksInv
  <1>3. CASE Hit(t) /\ Out(m, port, t, Lookup(t)) /\ UNCHANGED cpu
    <2>1. PICK s : s = [flow |-> [vm |-> m, port |-> port, peer |-> t[2]],
                        pub |-> NewSource(t, Lookup(t))[2]]
      OBVIOUS
    <2>2. SentOK(s)
      BY <1>1, <1>3, <2>1, ShownInTable
    <2>3. sent' = sent \cup {s}
      BY <1>1, <1>3, <2>1 DEF Out
    <2>4. SentOK(s)'
      BY <1>2, <2>2, FrameStays
    <2> QED BY <1>1, <1>2, <1>3, <2>3, <2>4, FrameInv DEF NInv, CpuInv
  <1>4. ASSUME NEW q \in SnatPort, ~Hit(t), UNCHANGED sent,
               Enter(c, [pc |-> "insert", vm |-> m, port |-> port,
                         tuple |-> t, entry |-> SnatEntry(t, q)])
        PROVE  NInv'
    <2>1. PICK p : p = [pc |-> "insert", vm |-> m, port |-> port,
                        tuple |-> t, entry |-> SnatEntry(t, q)]
      OBVIOUS
    <2>2. p.entry = OutEntry(net[m].ip, port, r, q)
      BY <2>1 DEF SnatEntry, OutEntry
    <2>3. Opens(port, r)
      <3> DEFINE f == [vm |-> m, port |-> port, peer |-> r]
      <3>1. CASE port = ServicePort
        <4>1. f \in heard
          BY <1>1, <3>1 DEF Sends
        <4>2. HeardOK(f)
          BY <4>1 DEF NInv, HeardInv
        <4>3. ~Steady(r)
          BY <1>4, <3>1, <4>2 DEF HeardOK
        <4> QED BY <3>1, <4>3 DEF Opens
      <3>2. CASE port # ServicePort
        BY <1>1, <3>2 DEF Sends, Opens
      <3> QED BY <3>1, <3>2
    <2>4. Sending(p)
      BY <1>1, <2>1, <2>2, <2>3 DEF Sending
    <2>5. Paired(p.entry) /\ p.entry # NoEntry
      BY <1>1, <2>2, OutPaired
    <2>6. JobInv(p)
      BY <2>1, <2>4, <2>5 DEF JobInv
    <2>7. JobInv(p)' /\ Enter(c, p)
      BY <1>2, <1>4, <2>1, <2>6, FrameStays
    <2> QED BY <1>1, <1>2, <1>4, <2>7, CpuStep, FrameInv
  <1> QED BY <1>3, <1>4 DEF NatTap

\* The insertion of a VM's new flow, and the loser of the race for one.
LEMMA TapInsertInv ==
    ASSUME HInv, NInv, NEW c \in Cpu, TapInsert(c)
    PROVE  NInv'
  <1>1. PICK p : p = cpu[c]
    OBVIOUS
  <1>2. /\ p.pc = "insert" /\ JobInv(p) /\ Sending(p)
        /\ UNCHANGED <<hostVars, filter, heard, lapsed, reused>>
    BY <1>1 DEF TapInsert, NInv, CpuInv, JobInv
  <1>3. lapsed' \subseteq Flow /\ lapsed \subseteq lapsed'
    BY <1>2 DEF NInv, MarksInv
  <1>4. PICK a \in IP, r \in Remote, q \in SnatPort :
           /\ p.port \in VMPort /\ p.tuple = <<<<a, p.port>>, r>>
           /\ p.entry = OutEntry(a, p.port, r, q) /\ Opens(p.port, r)
           /\ at[p.vm] = "ready" => a = net[p.vm].ip
    BY <1>2 DEF Sending
  <1>5. IsOut(p.entry) /\ Paired(p.entry)
    BY <1>4, OutPaired DEF IsOut
  <1>6. CASE Goto(c, "lost") /\ UNCHANGED <<ct, sent>>
    <2>1. PICK x : x = [pc |-> "lost", vm |-> p.vm, port |-> p.port,
                        tuple |-> p.tuple, entry |-> p.entry]
      OBVIOUS
    <2>2. p = [pc |-> p.pc, vm |-> p.vm, port |-> p.port, tuple |-> p.tuple,
               entry |-> p.entry]
      BY <1>2 DEF JobInv
    <2>3. x = [p EXCEPT !.pc = "lost"]
      BY <2>1, <2>2, SMT
    <2>4. Enter(c, x)
      BY <1>1, <1>6, <2>3 DEF Goto, Enter
    <2>5. x.pc = "lost" /\ x.vm = p.vm /\ x.port = p.port /\ x.tuple = p.tuple
          /\ x.entry = p.entry
      BY <2>1
    <2>6. Sending(x) /\ p.entry # NoEntry
      BY <1>2, <2>5 DEF Sending, JobInv
    <2>7. JobInv(x)
      BY <1>5, <2>1, <2>5, <2>6 DEF JobInv
    <2>8. Frame /\ TableInv'
      BY <1>2, <1>3, <1>6, SameTable DEF Frame, NInv
    <2> QED BY <1>2, <1>3, <1>6, <2>4, <2>7, <2>8, FrameStays, CpuStep, FrameInv
  <1>7. CASE /\ ~Clash(p.entry) /\ ct' = ct \cup {p.entry}
             /\ Out(p.vm, p.port, p.tuple, p.entry) /\ Leave(c)
    <2>1. Frame /\ TableInv'
      BY <1>2, <1>3, <1>5, <1>7, InsertTable DEF Frame, NInv
    <2>2. Enter(c, Idle) /\ JobInv(Idle)'
      BY <1>7, IdleJob DEF Leave
    <2>3. PICK s : s = [flow |-> [vm |-> p.vm, port |-> p.port, peer |-> r], pub |-> q]
      OBVIOUS
    <2>4. sent' = sent \/ (at[p.vm] = "ready" /\ sent' = sent \cup {s})
      <3>1. NewSource(p.tuple, p.entry)[2] = q /\ p.tuple[2] = r
        BY <1>4, SMT DEF NewSource, OutEntry
      <3> QED BY <1>7, <2>3, <3>1 DEF Out
    <2>5. ASSUME at[p.vm] = "ready" PROVE SentOK(s)'
      <3>1. p.vm \in VM /\ p.vm # None /\ UNCHANGED <<at, net>>
        BY <1>2, NetAssumption DEF Sending, hostVars
      <3>2. s.flow \in Flow /\ s.flow.vm = p.vm /\ s.flow.port = p.port
            /\ s.flow.peer = r /\ s.pub = q
        BY <1>4, <2>3, <3>1 DEF Flow
      <3>3. Sound(s.flow)' => p.port # ServicePort
        BY <1>2, <1>4, <3>2 DEF Sound, Opens, Steady
      <3>4. OutEntry(net'[p.vm].ip, p.port, r, q) \in ct'
        BY <1>4, <1>7, <2>5, <3>1
      <3> QED BY <1>4, <2>5, <3>1, <3>2, <3>3, <3>4 DEF SentOK, InTable
    <2>6. \A e \in ct' : e \in ct \/ Paired(e)
      BY <1>5, <1>7
    <2>7. \A x \in sent' : x \in sent \/ SentOK(x)'
      BY <2>4, <2>5
    <2>8. /\ cpu' = [x \in Cpu |-> cpu'[x]]
          /\ \A x \in Cpu : cpu'[x] = cpu[x] \/ JobInv(cpu[x])'
      BY <2>2, CpuStep
    <2> QED BY <1>2, <1>3, <2>1, <2>6, <2>7, <2>8, FrameInv
  <1> QED BY <1>1, <1>6, <1>7 DEF TapInsert

\* nat_tap, having lost the race for its entry, uses the winner's.
LEMMA TapLostInv ==
    ASSUME HInv, NInv, NEW c \in Cpu, TapLost(c)
    PROVE  NInv'
  <1>1. PICK p : p = cpu[c]
    OBVIOUS
  <1>2. /\ Sending(p) /\ Leave(c)
        /\ UNCHANGED <<hostVars, ct, filter, heard, lapsed, reused>>
    BY <1>1 DEF TapLost, NInv, CpuInv, JobInv
  <1>3. Frame /\ TableInv' /\ lapsed' \subseteq Flow
    BY <1>2, SameTable DEF Frame, NInv, MarksInv
  <1>4. /\ cpu' = [x \in Cpu |-> cpu'[x]]
        /\ \A x \in Cpu : cpu'[x] = cpu[x] \/ JobInv(cpu[x])'
    BY <1>2, IdleJob, CpuStep DEF Leave
  <1>5. PICK s : s = [flow |-> [vm |-> p.vm, port |-> p.port, peer |-> p.tuple[2]],
                      pub |-> NewSource(p.tuple, Lookup(p.tuple))[2]]
    OBVIOUS
  <1>6. \/ sent' = sent
        \/ at[p.vm] = "ready" /\ Hit(p.tuple) /\ sent' = sent \cup {s}
    BY <1>1, <1>5 DEF TapLost, Out
  <1>7. ASSUME at[p.vm] = "ready", Hit(p.tuple) PROVE SentOK(s)'
    <2>1. PICK r \in Remote : p.tuple = <<<<net[p.vm].ip, p.port>>, r>>
      BY <1>2, <1>7 DEF Sending
    <2>2. p.vm \in VM /\ p.port \in VMPort
      BY <1>2 DEF Sending
    <2>3. SentOK(s)
      BY <1>5, <1>7, <2>1, <2>2, ShownInTable
    <2> QED BY <1>3, <2>3, FrameStays
  <1> QED BY <1>2, <1>3, <1>4, <1>6, <1>7, FrameInv

\* nat_uplink takes a packet.
LEMMA NatUplinkInv ==
    ASSUME HInv, NInv, NEW c \in Cpu, NEW r \in Remote,
           NEW q \in Port \cup SnatPort \cup HostPort, NatUplink(c, r, q)
    PROVE  NInv'
  <1> DEFINE t == <<r, <<HostIP, q>>>>
             run(pc, e) == [pc |-> pc, vm |-> None, port |-> q, tuple |-> t, entry |-> e]
  <1>1. UNCHANGED <<hostVars, ct, filter, sent, heard, lapsed, reused>>
    BY DEF NatUplink
  <1>2. Frame /\ TableInv' /\ lapsed' \subseteq Flow
    BY <1>1, SameTable DEF Frame, NInv, MarksInv
  <1>3. ASSUME NEW p, Enter(c, p), JobInv(p) PROVE NInv'
    <2>1. JobInv(p)'
      BY <1>2, <1>3, FrameStays
    <2> QED BY <1>1, <1>2, <1>3, <2>1, CpuStep, FrameInv
  <1>4. CASE IsReply(t) /\ Enter(c, run("unsnat", Lookup(t)))
    <2>1. PICK e : e = Lookup(t)
      OBVIOUS
    <2>2. e \in ct /\ e.reply = t
      BY <1>4, <2>1, LookupFacts DEF IsReply, NInv
    <2>3. Paired(e) /\ (IsOut(e) \/ IsHost(e) \/ IsIn(e))
      BY <2>2 DEF NInv, CleanInv, TableInv
    <2>4. ~IsIn(e)
      BY <2>2, RemoteApart, SMT DEF IsIn, InEntry
    <2>5. e # NoEntry
      BY <2>2, SMT DEF NoEntry
    <2>6. Arriving(run("unsnat", e))
      BY <2>2, <2>3, <2>4 DEF Arriving
    <2>7. JobInv(run("unsnat", e))
      BY <2>3, <2>5, <2>6 DEF JobInv
    <2> QED BY <1>3, <1>4, <2>1, <2>7
  <1>5. CASE Enter(c, run("rule", NoEntry))
    <2>1. Arriving(run("rule", NoEntry))
      BY DEF Arriving
    <2>2. Paired(NoEntry)
      BY DEF Paired, NoEntry, InEntry
    <2>3. JobInv(run("rule", NoEntry))
      BY <2>1, <2>2 DEF JobInv
    <2> QED BY <1>3, <1>5, <2>3
  <1> QED BY <1>4, <1>5 DEF NatUplink

\* A reply reaches a service only on a flow that the service had to open itself.
LEMMA UnsnatInv ==
    ASSUME HInv, NInv, NEW c \in Cpu, Unsnat(c)
    PROVE  NInv'
  <1>1. PICK p : p = cpu[c]
    OBVIOUS
  <1>2. PICK home : home = Behind(p.entry, p.port)
    OBVIOUS
  <1>3. /\ p.pc = "unsnat" /\ Arriving(p) /\ Leave(c)
        /\ Deliver(home.vm, home.port, p.tuple[1])
        /\ UNCHANGED <<hostVars, ct, filter, sent, lapsed, reused>>
    BY <1>1, <1>2 DEF Unsnat, NInv, CpuInv, JobInv
  <1>4. Frame /\ TableInv' /\ lapsed' \subseteq Flow
    BY <1>3, SameTable DEF Frame, NInv, MarksInv
  <1>5. /\ cpu' = [x \in Cpu |-> cpu'[x]]
        /\ \A x \in Cpu : cpu'[x] = cpu[x] \/ JobInv(cpu[x])'
    BY <1>3, IdleJob, CpuStep DEF Leave
  <1>6. PICK r \in Remote : p.tuple = <<r, <<HostIP, p.port>>>>
    BY <1>3 DEF Arriving
  <1>7. PICK f : f = [vm |-> home.vm, port |-> home.port, peer |-> r]
    OBVIOUS
  <1>8. \/ heard' = heard
        \/ /\ heard' = heard \cup {f}
           /\ home.vm \in VM /\ at[home.vm] = "ready" /\ home.port = ServicePort
           /\ r \in Client
    BY <1>3, <1>6, <1>7, SMT DEF Deliver
  <1>9. ASSUME home.vm \in VM, at[home.vm] = "ready", home.port = ServicePort, r \in Client
        PROVE  HeardOK(f)
    <2>1. home.vm # None
      BY <1>9, NetAssumption
    <2>2. p.entry.orig[1][1] \in IP /\ home.port = p.entry.orig[1][2]
      BY <1>2, <2>1 DEF Behind
    <2>3. ~IsHost(p.entry)
      <3>1. HostIP \notin IP
        BY NetAssumption, SMT DEF HostIP, IP, None
      <3>2. \A x, s : HostEntry(x, s).orig[1][1] = HostIP
        BY DEF HostEntry
      <3> QED BY <2>2, <3>1, <3>2 DEF IsHost
    <2>4. PICK a \in IP, port \in VMPort, s \in Remote, q \in SnatPort :
             p.entry = OutEntry(a, port, s, q) /\ Opens(port, s)
      BY <1>3, <2>3 DEF Arriving, IsOut
    <2>5. port = ServicePort /\ s = r
      <3>1. p.entry.orig[1][2] = port /\ p.entry.reply = <<s, <<HostIP, q>>>>
        BY <2>4, SMT DEF OutEntry
      <3>2. <<s, <<HostIP, q>>>> = <<r, <<HostIP, p.port>>>>
        BY <1>3, <1>6, <3>1 DEF Arriving
      <3> QED BY <1>9, <2>2, <3>1, <3>2
    <2>6. ~Steady(r)
      BY <2>4, <2>5 DEF Opens
    <2>7. f \in Flow /\ f.vm = home.vm /\ f.port = ServicePort /\ f.peer = r
      BY <1>7, <1>9 DEF Flow, VMPort
    <2> QED BY <1>9, <2>1, <2>6, <2>7 DEF HeardOK
  <1>10. \A x \in heard' : x \in heard \/ HeardOK(x)'
    BY <1>4, <1>8, <1>9, FrameStays
  <1> QED BY <1>3, <1>4, <1>5, <1>10, FrameInv

\* An entry made by a rule is its VM's, as long as the VM is there.
LEMMA FindRuleInv ==
    ASSUME HInv, NInv, NEW c \in Cpu, FindRule(c)
    PROVE  NInv'
  <1>1. PICK p : p = cpu[c]
    OBVIOUS
  <1>2. /\ Arriving(p)
        /\ UNCHANGED <<hostVars, ct, filter, sent, heard, lapsed, reused>>
    BY <1>1 DEF FindRule, NInv, CpuInv, JobInv
  <1>3. Frame /\ TableInv' /\ lapsed' \subseteq Flow
    BY <1>2, SameTable DEF Frame, NInv, MarksInv
  <1>4. CASE Leave(c)
    <2>1. /\ cpu' = [x \in Cpu |-> cpu'[x]]
          /\ \A x \in Cpu : cpu'[x] = cpu[x] \/ JobInv(cpu[x])'
      BY <1>4, IdleJob, CpuStep DEF Leave
    <2> QED BY <1>2, <1>3, <2>1, FrameInv
  <1>5. ASSUME p.port \in Port, dnat_rules[p.port].vm # None,
               Enter(c, [pc |-> "dnat", vm |-> dnat_rules[p.port].vm, port |-> ServicePort,
                         tuple |-> p.tuple,
                         entry |-> DnatEntry(p.tuple, dnat_rules[p.port].ip)])
        PROVE  NInv'
    <2>1. PICK m, a : m = dnat_rules[p.port].vm /\ a = dnat_rules[p.port].ip
      OBVIOUS
    <2>2. PICK r \in Remote : p.tuple = <<r, <<HostIP, p.port>>>>
      BY <1>2 DEF Arriving
    <2>3. PICK x : x = [pc |-> "dnat", vm |-> m, port |-> ServicePort, tuple |-> p.tuple,
                        entry |-> InEntry(r, p.port, a)]
      OBVIOUS
    <2>4. DnatEntry(p.tuple, a) = InEntry(r, p.port, a)
      BY <2>2, SMT DEF DnatEntry, InEntry
    <2>5. Enter(c, x)
      BY <1>5, <2>1, <2>3, <2>4
    <2>6. /\ m \in VM /\ a \in IP /\ at[m] \in {"published", "ready", "killed", "gone"}
          /\ at[m] # "gone" => net[m] = [ip |-> a, port |-> p.port]
      BY <1>5, <2>1, SMT DEF NInv, RuleInv, HInv, HostTypeOK
    <2>7. x.pc = "dnat" /\ x.vm = m /\ x.port = ServicePort /\ x.tuple = p.tuple
          /\ x.entry = InEntry(r, p.port, a)
      BY <2>3
    <2>8. Entering(x)
      BY <1>5, <2>2, <2>6, <2>7 DEF Entering
    <2>9. Paired(x.entry)
      <3> SUFFICES ASSUME NEW k \in VM, NEW s \in Remote, NEW q \in Port, NEW b \in IP,
                          Clean(k), x.entry = InEntry(s, q, b)
                   PROVE  b = net[k].ip <=> q = net[k].port
        BY SMT DEF Paired
      <3>1. q = p.port /\ b = a
        <4>1. InEntry(s, q, b).orig[2][2] = q /\ InEntry(r, p.port, a).orig[2][2] = p.port
          BY DEF InEntry
        <4>2. InEntry(s, q, b).reply[1][1] = b /\ InEntry(r, p.port, a).reply[1][1] = a
          BY DEF InEntry
        <4> QED BY <2>7, <4>1, <4>2
      <3>2. a = net[k].ip => p.port = net[k].port
        BY <1>5, <2>1 DEF NInv, CleanInv
      <3>3. p.port = net[k].port => a = net[k].ip
        <4>1. dnat_rules[net[k].port].ip = net[k].ip
          <5>1. at[k] \in {"published", "ready"}
            BY DEF Clean
          <5>2. dnat_rules[net[k].port] = [vm |-> k, ip |-> net[k].ip]
            BY <5>1, ReadyNet
          <5> QED BY <5>2, SMT
        <4> QED BY <2>1, <4>1
      <3> QED BY <3>1, <3>2, <3>3
    <2>10. x.entry # NoEntry
      <3>1. InEntry(r, p.port, a).orig # NoEntry.orig
        BY DEF InEntry, NoEntry
      <3> QED BY <2>7, <3>1
    <2>11. JobInv(x)
      BY <2>3, <2>7, <2>8, <2>9, <2>10 DEF JobInv
    <2>12. JobInv(x)'
      BY <1>3, <2>11, FrameStays
    <2> QED BY <1>2, <1>3, <2>5, <2>12, CpuStep, FrameInv
  <1> QED BY <1>1, <1>4, <1>5 DEF FindRule

\* A client's flow has its entry when the service hears of it, if not for an
\* earlier VM's.
LEMMA DnatInsertInv ==
    ASSUME HInv, NInv, NEW c \in Cpu, DnatInsert(c)
    PROVE  NInv'
  <1>1. PICK p : p = cpu[c]
    OBVIOUS
  <1>2. /\ JobInv(p) /\ Entering(p) /\ Leave(c)
        /\ ct' = IF Clash(p.entry) THEN ct ELSE ct \cup {p.entry}
        /\ lapsed' = IF (Clash(p.entry) /\ ~Hit(p.entry.reply)) /\ p.vm \in reused
                       THEN lapsed \cup {[vm |-> p.vm, port |-> p.port, peer |-> p.tuple[1]]}
                       ELSE lapsed
        /\ Deliver(p.vm, p.port, p.tuple[1])
        /\ UNCHANGED <<hostVars, filter, sent, reused>>
    BY <1>1 DEF DnatInsert, NInv, CpuInv, JobInv
  <1>3. PICK r \in Remote, q \in Port, a \in IP :
           /\ p.tuple = <<r, <<HostIP, q>>>> /\ p.entry = InEntry(r, q, a)
           /\ at[p.vm] \in {"published", "ready"} => net[p.vm] = [ip |-> a, port |-> q]
    BY <1>2 DEF Entering
  <1>4. PICK f : f = [vm |-> p.vm, port |-> ServicePort, peer |-> r]
    OBVIOUS
  <1>5. /\ f \in Flow /\ f.vm = p.vm /\ f.port = ServicePort /\ f.peer = r
        /\ p.vm \in VM /\ p.vm # None /\ p.port = ServicePort /\ p.tuple[1] = r
    <2>1. p.vm \in VM /\ p.vm # None /\ p.port = ServicePort
      BY <1>2, NetAssumption DEF Entering
    <2>2. p.tuple[1] = r
      BY <1>3, SMT
    <2> QED BY <1>4, <2>1, <2>2 DEF Flow, VMPort
  <1>6. lapsed \subseteq lapsed' /\ lapsed' \subseteq Flow
    BY <1>2, <1>4, <1>5 DEF NInv, MarksInv
  <1>7. IsIn(p.entry) /\ Paired(p.entry)
    BY <1>2, <1>3 DEF IsIn, JobInv
  <1>8. Frame /\ TableInv'
    BY <1>2, <1>6, <1>7, InsertTable, SameTable DEF Frame, NInv
  <1>9. /\ cpu' = [x \in Cpu |-> cpu'[x]]
        /\ \A x \in Cpu : cpu'[x] = cpu[x] \/ JobInv(cpu[x])'
    BY <1>2, IdleJob, CpuStep DEF Leave
  <1>10. \/ heard' = heard
         \/ heard' = heard \cup {f} /\ at[p.vm] = "ready" /\ r \in Client
    BY <1>2, <1>4, <1>5 DEF Deliver
  <1>11. ASSUME at[p.vm] = "ready", r \in Client PROVE HeardOK(f)'
    <2>1. net[p.vm].ip = a /\ net[p.vm].port = q /\ UNCHANGED <<at, net>>
      BY <1>2, <1>3, <1>11, SMT DEF hostVars
    <2>2. p.entry.orig = <<r, <<HostIP, q>>>> /\ p.entry.reply = <<<<a, ServicePort>>, r>>
      BY <1>3, SMT DEF InEntry
    <2>3. CASE ~Clash(p.entry)
      <3>1. p.entry \in ct' /\ p.entry.reply \in Tuples(p.entry)
        BY <1>2, <2>3 DEF Tuples
      <3>2. Hit(<<<<a, ServicePort>>, r>>)'
        BY <2>2, <3>1 DEF Hit, Tuples
      <3> QED BY <1>5, <1>11, <2>1, <3>2 DEF HeardOK
    <2>4. CASE Clash(p.entry) /\ Hit(p.entry.reply)
      <3>1. Hit(<<<<a, ServicePort>>, r>>)'
        BY <1>2, <2>2, <2>4 DEF Hit
      <3> QED BY <1>5, <1>11, <2>1, <3>1 DEF HeardOK
    <2>5. CASE Clash(p.entry) /\ ~Hit(p.entry.reply)
      <3>1. ~Steady(r)'
        <4>1. CASE p.vm \in reused
          BY <1>2, <1>4, <1>5, <2>5, <4>1 DEF Steady
        <4>2. CASE p.vm \notin reused
          <5>1. PICK g \in ct : <<r, <<HostIP, q>>>> \in Tuples(g)
            BY <2>2, <2>5 DEF Clash, Hit, Tuples
          <5>2. /\ IsOut(g) \/ IsHost(g) \/ IsIn(g)
                /\ Paired(g)
            BY DEF NInv, TableInv, CleanInv
          <5>3. r \notin Server
            BY <1>11, NatAssumption
          <5>4. \A b \in IP : g # InEntry(r, q, b)
            <6> SUFFICES ASSUME NEW b \in IP, g = InEntry(r, q, b) PROVE FALSE
              OBVIOUS
            <6>1. b = a
              BY <1>5, <1>11, <2>1, <4>2, <5>2, SMT DEF Paired, Clean
            <6>2. p.entry.reply \in Tuples(g)
              BY <1>3, <6>1 DEF Tuples
            <6> QED BY <2>5, <6>2 DEF Hit
          <5>5. PICK b \in IP, x \in VMPort : Opens(x, r)
            BY <5>1, <5>2, <5>3, <5>4, RemoteTuple, SMT
          <5>6. ~Steady(r)
            BY <5>3, <5>5 DEF Opens
          <5> QED BY <1>6, <5>6 DEF Steady
        <4> QED BY <4>1, <4>2
      <3> QED BY <1>5, <1>11, <2>1, <3>1 DEF HeardOK
    <2> QED BY <2>3, <2>4, <2>5
  <1>12. /\ \A e \in ct' : e \in ct \/ Paired(e)
         /\ \A x \in heard' : x \in heard \/ HeardOK(x)'
    BY <1>2, <1>7, <1>10, <1>11
  <1> QED BY <1>2, <1>6, <1>8, <1>9, <1>12, FrameInv

\* The host's own connections.
LEMMA HostDialInv ==
    ASSUME HInv, NInv, NEW p \in HostPort, NEW r \in Server, HostDial(p, r)
    PROVE  NInv'
  <1>1. PICK e : e = HostEntry(p, r)
    OBVIOUS
  <1>2. PICK s : s = [flow |-> [vm |-> None, port |-> p, peer |-> r], pub |-> p]
    OBVIOUS
  <1>3. /\ ~Clash(e) /\ ct' = ct \cup {e} /\ sent' = sent \cup {s}
        /\ UNCHANGED <<hostVars, cpu, filter, heard, lapsed, reused>>
    BY <1>1, <1>2 DEF HostDial, HostEntry
  <1>4. IsHost(e) /\ r \in Remote
    BY <1>1 DEF IsHost, Remote
  <1>5. Paired(e)
    <2>1. \A x \in Remote, q \in Port, a \in IP : e # InEntry(x, q, a)
      <3> SUFFICES ASSUME NEW x \in Remote, NEW q \in Port, NEW a \in IP
                   PROVE  HostEntry(p, r).orig # InEntry(x, q, a).orig
        BY <1>1
      <3> QED BY RemoteApart DEF HostEntry, InEntry
    <2> QED BY <2>1 DEF Paired
  <1>6. Frame /\ TableInv' /\ lapsed' \subseteq Flow
    BY <1>3, <1>4, InsertTable DEF Frame, NInv, MarksInv
  <1>7. SentOK(s)'
    <2>1. s.flow \in Flow /\ s.flow.vm = None /\ s.flow.port = p /\ s.flow.peer = r
          /\ s.pub = p
      BY <1>2, <1>4 DEF Flow
    <2> QED BY <1>1, <1>3, <2>1 DEF SentOK, InTable
  <1> QED BY <1>3, <1>5, <1>6, <1>7, FrameInv DEF NInv, CpuInv

\* What times out is missed: the remotes whose packets need it are not steady.
LEMMA ExpireInv ==
    ASSUME HInv, NInv, NEW e \in ct, Expire(e)
    PROVE  NInv'
  <1>1. /\ e.orig[1][1] # HostIP /\ ct' = ct \ {e} /\ lapsed' = lapsed \cup FlowsOf(e)
        /\ UNCHANGED <<hostVars, cpu, filter, sent, heard, reused>>
    BY DEF Expire
  <1>2. UNCHANGED <<at, net, dnat_rules>> /\ lapsed \subseteq lapsed' /\ lapsed' \subseteq Flow
    BY <1>1 DEF hostVars, FlowsOf, NInv, MarksInv
  <1>3. TableInv'
    <2>1. \A f \in ct : IsOut(f)' \/ IsHost(f)' \/ IsIn(f)'
      BY <1>2, OpensStays DEF NInv, TableInv
    <2> QED BY <1>1, <2>1 DEF NInv, TableInv, Tuples
  <1>4. RuleInv' /\ MarksInv' /\ CleanInv'
    BY <1>1, <1>2, SMT DEF NInv, RuleInv, MarksInv, CleanInv, Paired, Clean
  <1>5. CpuInv'
    <2> SUFFICES ASSUME NEW c \in Cpu PROVE JobInv(cpu[c])'
      BY <1>1 DEF CpuInv, NInv
    <2>1. PICK p : p = cpu[c]
      OBVIOUS
    <2>2. JobInv(p)
      BY <2>1 DEF NInv, CpuInv
    <2>3. Sending(p) => Sending(p)'
      BY <1>2, OpensStays DEF Sending
    <2>4. Arriving(p) => Arriving(p)'
      BY <1>2, OpensStays DEF Arriving
    <2>5. Entering(p) => Entering(p)'
      BY <1>2 DEF Entering
    <2>6. Paired(p.entry)'
      BY <1>1, <1>2, <2>2, SMT DEF JobInv, Paired, Clean
    <2>7. JobInv(p)'
      BY <2>2, <2>3, <2>4, <2>5, <2>6 DEF JobInv
    <2> QED BY <1>1, <2>1, <2>7
  <1>6. ASSUME NEW f \in Flow, f \in FlowsOf(e) PROVE ~Steady(f.peer)' /\ ~Sound(f)'
    BY <1>1, <1>6 DEF Steady, Sound
  <1>7. ASSUME NEW f \in heard PROVE HeardOK(f)'
    <2> DEFINE t == <<<<net[f.vm].ip, ServicePort>>, f.peer>>
    <2>1. HeardOK(f) /\ f \in Flow
      BY DEF NInv, HeardInv, HeardOK
    <2>2. CASE t \in Tuples(e)
      <3>1. f \in FlowsOf(e)
        BY <2>1, <2>2 DEF FlowsOf, Tuples, HeardOK
      <3> QED BY <1>2, <1>6, <2>1, <3>1 DEF HeardOK
    <2>3. CASE t \notin Tuples(e)
      <3>1. Hit(t) => Hit(t)'
        BY <1>1, <1>2, <2>3 DEF Hit, Tuples
      <3>2. Steady(f.peer)' => Steady(f.peer)
        BY <1>2 DEF Steady
      <3> QED BY <1>2, <2>1, <3>1, <3>2 DEF HeardOK
    <2> QED BY <2>2, <2>3
  <1>8. ASSUME NEW s \in sent PROVE SentOK(s)'
    <2> DEFINE f == s.flow
    <2>1. SentOK(s) /\ f \in Flow /\ f.peer \in Remote
      BY DEF NInv, SentInv, SentOK, Flow
    <2>2. Sound(f)' => Sound(f) /\ f \notin FlowsOf(e)
      BY <1>1, <1>2 DEF Sound
    <2>3. ASSUME InTable(f, s.pub), f \notin FlowsOf(e) PROVE InTable(f, s.pub)'
      <3>1. CASE f.vm = None
        <4>1. HostEntry(s.pub, f.peer).orig[1][1] = HostIP
          BY DEF HostEntry
        <4> QED BY <1>1, <2>3, <3>1, <4>1 DEF InTable
      <3>2. CASE f.vm # None /\ f.port = ServicePort
        <4>1. InEntry(f.peer, s.pub, net[f.vm].ip).reply = <<<<net[f.vm].ip, f.port>>, f.peer>>
          BY <3>2 DEF InEntry
        <4>2. InEntry(f.peer, s.pub, net[f.vm].ip) # e
          BY <2>1, <2>3, <3>2, <4>1 DEF FlowsOf
        <4> QED BY <1>1, <1>2, <2>3, <3>2, <4>2 DEF InTable
      <3>3. CASE f.vm # None /\ f.port # ServicePort
        <4>1. OutEntry(net[f.vm].ip, f.port, f.peer, s.pub).orig
                = <<<<net[f.vm].ip, f.port>>, f.peer>>
          BY DEF OutEntry
        <4>2. OutEntry(net[f.vm].ip, f.port, f.peer, s.pub) # e
          BY <2>1, <2>3, <3>3, <4>1 DEF FlowsOf
        <4> QED BY <1>1, <1>2, <2>3, <3>3, <4>2 DEF InTable
      <3> QED BY <3>1, <3>2, <3>3
    <2> QED BY <1>2, <2>1, <2>2, <2>3 DEF SentOK
  <1> QED BY <1>1, <1>3, <1>4, <1>5, <1>7, <1>8 DEF NInv, HeardInv, SentInv

-----------------------------------------------------------------------------
(* The agent.                                                              *)

\* How a step of one VM's command moves it and its network; the others stay.
LEMMA Moves ==
    ASSUME HostTypeOK, NEW m \in VM, HostStep(m), NEW k \in VM
    PROVE  \/ at'[k] = at[k] /\ net'[k] = net[k]
           \/ /\ k = m
              /\ \/ /\ at[k] \in {"new", "checked", "allocated"}
                    /\ at'[k] \in {"checked", "allocated", "tapped", "gone"}
                 \/ at[k] = "tapped" /\ at'[k] = "published" /\ net'[k] = net[k]
                 \/ at[k] = "published" /\ at'[k] = "ready" /\ net'[k] = net[k]
                 \/ at[k] = "ready" /\ at'[k] = "killed" /\ net'[k] = net[k]
                 \/ at[k] = "killed" /\ at'[k] = "withdrawn" /\ Withdraw(m)
                 \/ at[k] \in {"tapped", "published", "withdrawn"} /\ at'[k] = "gone"
  <1>1. CASE CheckCapacity(m) \/ CreateTap(m) \/ Publish(m) \/ BootDone(m) \/ Teardown(m)
    BY <1>1 DEF CheckCapacity, CreateTap, Publish, BootDone, Teardown, Move, HostTypeOK
  <1>2. CASE TakeNet(m) \/ TakeNetFails(m)
    BY <1>2 DEF TakeNet, TakeNetFails, AllocateNet, Move, HostTypeOK
  <1>3. CASE PublishFails(m) \/ BootFails(m) \/ Release(m)
    BY <1>3 DEF PublishFails, BootFails, Release, ReleaseNet, Move, HostTypeOK
  <1>4. CASE Halt(m) \/ Start(m) \/ Withdraw(m)
    BY <1>4 DEF Halt, Start, Withdraw, Move, HostTypeOK
  <1> QED BY <1>1, <1>2, <1>3, <1>4 DEF HostStep

\* The rules change only when one is published or withdrawn.
LEMMA RuleMoves ==
    ASSUME HInv, NEW m \in VM, HostStep(m), NEW q \in Port
    PROVE  \/ dnat_rules'[q] = dnat_rules[q] /\ (Withdraw(m) => q # net[m].port)
           \/ /\ Publish(m) /\ q = net[m].port
              /\ dnat_rules'[q] = [vm |-> m, ip |-> net[m].ip]
           \/ Withdraw(m) /\ q = net[m].port /\ dnat_rules'[q] = NoRule
  <1>1. CASE Publish(m) \/ Withdraw(m)
    <2>1. net[m].port \in Port /\ dnat_rules \in [Port -> [vm : VM \cup {None}, ip : IP \cup {None}]]
      BY <1>1, HolderFacts DEF Publish, Withdraw, Move, Held, HInv, HostTypeOK
    <2> QED BY <1>1, <2>1 DEF Publish, Withdraw, Move
  <1>2. CASE ~Publish(m) /\ ~Withdraw(m)
    BY <1>2 DEF HostStep, CheckCapacity, TakeNet, TakeNetFails, CreateTap, BootDone,
                PublishFails, BootFails, Halt, Start, Teardown, Release
  <1> QED BY <1>1, <1>2

\* Rules stay those of their VMs.
LEMMA AgentRules ==
    ASSUME HInv, RuleInv, NEW m \in VM, HostStep(m)
    PROVE  RuleInv'
  <1> SUFFICES ASSUME NEW q \in Port, dnat_rules'[q].vm # None
               PROVE  /\ dnat_rules'[q].ip \in IP
                      /\ at'[dnat_rules'[q].vm] \in {"published", "ready", "killed", "gone"}
                      /\ at'[dnat_rules'[q].vm] # "gone" =>
                            net'[dnat_rules'[q].vm] = [ip |-> dnat_rules'[q].ip, port |-> q]
    BY DEF RuleInv
  <1>1. CASE dnat_rules'[q] = dnat_rules[q] /\ (Withdraw(m) => q # net[m].port)
    <2>1. PICK k : k = dnat_rules[q].vm
      OBVIOUS
    <2>2. /\ k \in VM /\ dnat_rules[q].ip \in IP
          /\ at[k] \in {"published", "ready", "killed", "gone"}
          /\ at[k] # "gone" => net[k] = [ip |-> dnat_rules[q].ip, port |-> q]
      BY <1>1, <2>1, SMT DEF RuleInv, HInv, HostTypeOK
    <2>3. ~(at[k] = "killed" /\ k = m /\ Withdraw(m))
      BY <1>1, <2>2, SMT
    <2>4. /\ at'[k] \in {"published", "ready", "killed", "gone"}
          /\ at'[k] # "gone" => at[k] # "gone" /\ net'[k] = net[k]
      BY <2>2, <2>3, Moves DEF HInv
    <2> QED BY <1>1, <2>1, <2>2, <2>4
  <1>2. CASE Publish(m) /\ q = net[m].port /\ dnat_rules'[q] = [vm |-> m, ip |-> net[m].ip]
    <2>1. net[m].ip \in IP
      BY <1>2, HolderFacts DEF Publish, Move, Held, HInv
    <2>2. net[m] = [ip |-> net[m].ip, port |-> net[m].port] /\ net' = net
      BY <1>2 DEF HInv, HostTypeOK, Publish
    <2>3. at'[m] = "published"
      BY <1>2 DEF Publish, Move, HInv, HostTypeOK
    <2> QED BY <1>2, <2>1, <2>2, <2>3, SMT
  <1>3. CASE dnat_rules'[q] = NoRule
    BY <1>3, SMT DEF NoRule
  <1> QED BY <1>1, <1>2, <1>3, RuleMoves

\* A VM is clean because it was, or because it is published where nothing is left.
LEMMA AgentClean ==
    ASSUME HInv, NInv, NEW m \in VM, Agent(m), NEW k \in VM, Clean(k)'
    PROVE  /\ net'[k] = net[k]
           /\ \/ Clean(k)
              \/ k = m /\ Publish(m) /\ ~Leftovers(m)
  <1>1. HostStep(m) /\ k \notin reused /\ at'[k] \in {"published", "ready"}
    BY DEF Agent, Clean
  <1>2. CASE at'[k] = at[k] /\ net'[k] = net[k]
    BY <1>1, <1>2 DEF Clean
  <1>3. CASE k = m /\ at[k] = "published" /\ at'[k] = "ready" /\ net'[k] = net[k]
    BY <1>1, <1>3 DEF Clean
  <1>4. CASE k = m /\ at[k] = "tapped" /\ at'[k] = "published" /\ net'[k] = net[k]
    <2>1. Publish(m)
      BY <1>1, <1>4 DEF HInv, HostTypeOK, HostStep, CheckCapacity, TakeNet, TakeNetFails,
            CreateTap, BootDone, PublishFails, BootFails, Halt, Start, Teardown, Withdraw,
            Release, Move
    <2>2. ~Leftovers(m)
      BY <1>4 DEF Agent, Clean
    <2> QED BY <1>4, <2>1, <2>2
  <1> QED BY <1>1, <1>2, <1>3, <1>4, Moves DEF HInv

\* What leads in still pairs addresses with ports.
LEMMA AgentPaired ==
    ASSUME HInv, NInv, NEW m \in VM, Agent(m),
           NEW e, Paired(e), e \in ct \/ \E c \in Cpu : e = cpu[c].entry
    PROVE  Paired(e)'
  <1> SUFFICES ASSUME NEW k \in VM, NEW r \in Remote, NEW q \in Port, NEW a \in IP,
                      Clean(k)', e = InEntry(r, q, a)
               PROVE  a = net'[k].ip <=> q = net'[k].port
    BY DEF Paired
  <1>1. net'[k] = net[k]
    BY AgentClean
  <1>2. CASE Clean(k)
    BY <1>1, <1>2, SMT DEF Paired
  <1>3. CASE k = m /\ ~Leftovers(m)
    <2>1. e # NoEntry /\ e.reply[1][1] = a /\ e.orig[2] = <<HostIP, q>>
      BY DEF InEntry, NoEntry
    <2>2. e \in ct \cup ({cpu[c].entry : c \in Cpu} \ {NoEntry})
      BY <2>1
    <2>3. a # net[m].ip /\ <<HostIP, q>> # <<HostIP, net[m].port>>
      BY <1>3, <2>1, <2>2 DEF Leftovers
    <2> QED BY <1>1, <1>3, <2>3
  <1> QED BY <1>2, <1>3, AgentClean

\* Every step of the agent.
LEMMA AgentInv ==
    ASSUME HInv, NInv, NEW m \in VM, Agent(m)
    PROVE  NInv'
  <1>1. /\ HostStep(m) /\ HostTypeOK
        /\ UNCHANGED <<ct, cpu, filter, lapsed>> /\ reused \subseteq reused'
        /\ reused' \subseteq reused \cup {m}
    BY DEF Agent, HInv
  <1>2. TableInv' /\ RuleInv' /\ MarksInv'
    <2>1. TableInv'
      BY <1>1, SameTable DEF NInv
    <2>2. RuleInv'
      BY <1>1, AgentRules DEF NInv
    <2> QED BY <1>1, <2>1, <2>2 DEF NInv, MarksInv
  <1>3. CleanInv'
    <2>1. \A e \in ct' : Paired(e)'
      BY <1>1, AgentPaired DEF NInv, CleanInv
    <2>2. ASSUME NEW k \in VM, NEW q \in Port, Clean(k)', dnat_rules'[q].ip = net'[k].ip
          PROVE  q = net'[k].port
      <3>1. net'[k] = net[k] /\ net[k].ip \in IP /\ at[k] \in Held
        <4>1. net'[k] = net[k] /\ (Clean(k) \/ Publish(k))
          BY <2>2, AgentClean
        <4>2. at[k] \in Held
          BY <4>1 DEF Clean, Publish, Move, Held
        <4> QED BY <4>1, <4>2, HolderFacts DEF HInv
      <3>2. CASE dnat_rules'[q] = dnat_rules[q]
        <4>1. CASE Clean(k)
          BY <2>2, <3>1, <3>2, <4>1 DEF NInv, CleanInv
        <4>2. CASE k = m /\ ~Leftovers(m)
          BY <2>2, <3>1, <3>2, <4>2 DEF Leftovers
        <4> QED BY <2>2, <4>1, <4>2, AgentClean
      <3>3. CASE Publish(m) /\ q = net[m].port /\ dnat_rules'[q] = [vm |-> m, ip |-> net[m].ip]
        <4>1. at[m] \in Held
          BY <3>3 DEF Publish, Move, Held
        <4>2. k \in Holding /\ (k # m => net[k].ip # net[m].ip)
          BY <3>1, <4>1, HolderFacts DEF HInv
        <4>3. k = m
          BY <2>2, <3>1, <3>3, <4>2, SMT
        <4> QED BY <3>1, <3>3, <4>3
      <3>4. CASE dnat_rules'[q] = NoRule
        BY <2>2, <3>1, <3>4, NetAssumption, SMT DEF NoRule, IP, None
      <3> QED BY <1>1, <3>2, <3>3, <3>4, RuleMoves
    <2> QED BY <2>1, <2>2 DEF CleanInv
  <1>4. CpuInv'
    <2> SUFFICES ASSUME NEW c \in Cpu PROVE JobInv(cpu[c])'
      BY <1>1 DEF CpuInv, NInv
    <2>1. PICK p : p = cpu[c]
      OBVIOUS
    <2>2. JobInv(p)
      BY <2>1 DEF NInv, CpuInv
    <2>3. Sending(p) => Sending(p)'
      BY <1>1, Moves, SMT DEF Sending, Opens, Steady
    <2>4. Arriving(p) => Arriving(p)'
      BY <1>1 DEF Arriving, IsOut, IsHost, Opens, Steady
    <2>5. Entering(p) => Entering(p)'
      BY <1>1, Moves, SMT DEF Entering
    <2>6. Paired(p.entry)'
      <3>1. PICK e : e = p.entry
        OBVIOUS
      <3>2. Paired(e)'
        BY <2>1, <2>2, <3>1, AgentPaired DEF JobInv
      <3> QED BY <3>1, <3>2
    <2>7. JobInv(p)'
      BY <2>2, <2>3, <2>4, <2>5, <2>6 DEF JobInv
    <2> QED BY <1>1, <2>1, <2>7
  <1>5. ASSUME NEW k \in VM, at[k] = "ready", k # m \/ at'[m] # "killed"
        PROVE  at'[k] = "ready" /\ net'[k] = net[k]
    BY <1>1, <1>5, Moves
  <1>6. /\ heard' \subseteq heard /\ sent' \subseteq sent
        /\ at'[m] = "killed" => /\ \A f \in heard' : f.vm # m
                                /\ \A s \in sent' : s.flow.vm # m
    BY DEF Agent
  <1>7. ASSUME NEW f \in heard' PROVE HeardOK(f)'
    <2>1. HeardOK(f) /\ f.vm \in VM
      BY <1>6 DEF NInv, HeardInv, HeardOK, Flow
    <2>2. at'[f.vm] = "ready" /\ net'[f.vm] = net[f.vm]
      BY <1>5, <1>6, <2>1 DEF HeardOK
    <2> QED BY <1>1, <2>1, <2>2 DEF HeardOK, Steady, Hit, Tuples
  <1>8. ASSUME NEW s \in sent' PROVE SentOK(s)'
    <2>1. SentOK(s) /\ s.flow.vm \in VM \cup {None}
      BY <1>6 DEF NInv, SentInv, SentOK, Flow
    <2>2. s.flow.vm # None => at'[s.flow.vm] = "ready" /\ net'[s.flow.vm] = net[s.flow.vm]
      BY <1>5, <1>6, <2>1 DEF SentOK
    <2>3. Sound(s.flow)' => Sound(s.flow)
      BY <1>1 DEF Sound
    <2>4. InTable(s.flow, s.pub) => InTable(s.flow, s.pub)'
      BY <1>1, <2>2 DEF InTable
    <2> QED BY <2>1, <2>2, <2>3, <2>4 DEF SentOK
  <1> QED BY <1>2, <1>3, <1>4, <1>7, <1>8 DEF NInv, HeardInv, SentInv

-----------------------------------------------------------------------------
(* The theorems about the packet path.                                     *)

\* Every step of host, programs and kernel.
LEMMA StepNInv ==
    ASSUME HInv, NInv, [Next]_vars
    PROVE  NInv'
  <1>1. ASSUME NEW c \in Cpu, Program(c) PROVE NInv'
    BY <1>1, NatTapInv, TapInsertInv, TapLostInv, NatUplinkInv, UnsnatInv, FindRuleInv,
       DnatInsertInv DEF Program
  <1>2. CASE Kernel
    BY <1>2, HostDialInv, ExpireInv DEF Kernel
  <1>3. CASE UNCHANGED vars
    <2>1. Frame /\ UNCHANGED <<ct, cpu, sent, heard, lapsed>>
      BY <1>3 DEF vars, natVars, Frame
    <2>2. TableInv' /\ lapsed' \subseteq Flow
      BY <2>1, SameTable DEF NInv, MarksInv
    <2> QED BY <2>1, <2>2, FrameInv DEF NInv, CpuInv
  <1> QED BY <1>1, <1>2, <1>3, AgentInv DEF Next

PInv == HInv /\ NInv

\* The invariant of host and packet path together is inductive.
LEMMA PathInductive ==
    (Init => PInv) /\ (PInv /\ [Next]_vars => PInv')
  <1>1. ASSUME Init PROVE PInv
    <2>1. HInv
      BY <1>1, InitHInv DEF Init
    <2>2. TableInv /\ HeardInv /\ SentInv /\ MarksInv
      BY <1>1 DEF Init, TableInv, HeardInv, SentInv, MarksInv
    <2>3. RuleInv /\ CleanInv
      BY <1>1 DEF Init, HostInit, RuleInv, CleanInv, NoRule, Clean
    <2>4. CpuInv
      BY <1>1, IdleJob DEF Init, CpuInv
    <2> QED BY <2>1, <2>2, <2>3, <2>4 DEF PInv, NInv
  <1>2. ASSUME PInv, [Next]_vars PROVE PInv'
    <2>1. [HostNext]_hostVars
      BY <1>2, PathSteps
    <2> QED BY <1>2, <2>1, StepHInv, StepNInv DEF PInv
  <1> QED BY <1>1, <1>2

\* The packet path is well typed: whatever the programs insert, show and deliver
\* are tuples of the VMs', remotes' and host's addresses and ports.
THEOREM PathTypeCorrect ==
    Spec => []TypeOK
  <1>1. PInv => TypeOK
    BY PathTyped DEF PInv
  <1> QED BY <1>1, PathInductive, PTL DEF Spec

\* For any number of CPUs, VMs, remotes and ports, an answer to what nat_tap showed
\* a remote is delivered by nat_uplink to the flow it belongs to.
THEOREM AnswersAlwaysComeBack ==
    Spec => []AnswersComeBack
  <1>1. PInv => AnswersComeBack
    BY AnswersFollow DEF PInv
  <1> QED BY <1>1, PathInductive, PTL DEF Spec

\* And a service's answers leave from the port that its clients dialled, whichever
\* CPU won the race to enter the flow.
THEOREM PublishedPortAlwaysAnswers ==
    Spec => []AnswersFromPublishedPort
  <1>1. PInv => AnswersFromPublishedPort
    BY AnswersFollow DEF PInv
  <1> QED BY <1>1, PathInductive, PTL DEF Spec
=============================================================================
