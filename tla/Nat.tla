-------------------------------- MODULE Nat --------------------------------
(***************************************************************************)
(* The packet path of a host: the eBPF programs nat_tap and nat_uplink     *)
(* (bpf/nat.c) and tapfilter (bpf/tapfilter.c) over the maps of            *)
(* HostNetwork and the kernel's connection table.                          *)
(*                                                                         *)
(* A program runs on some CPU for each packet; cpu[c] is how far it has    *)
(* come, between two of its reads or writes of shared state anything may   *)
(* happen on the other CPUs and in the agent.  Addresses and ports are     *)
(* numbers, an endpoint is a pair of them, a packet is its tuple.  A       *)
(* packet that is dropped, or handed to the host's own stack, just ends.   *)
(***************************************************************************)
EXTENDS HostNetwork

CONSTANTS Cpu,
          Client, Server,   \* endpoints out there: players, and hosts VMs talk to
          HostPort,         \* local ports of the host's own connections
          SnatPort,         \* ports the kernel may pick for a source
          ServicePort, AppPort,  \* a VM's service, and a source port it dials from
          Blocked,          \* endpoints the egress and ingress policies deny
          WatchedPort,      \* what tapfilter watches when it is on
          MaxLapsed         \* bound: how many flows may lose their entry

HostIP == 0                 \* the uplink's address

Remote == Client \cup Server
VMPort == {ServicePort, AppPort}

ASSUME NatAssumption ==
    /\ ServicePort # AppPort
    /\ Client \cap Server = {}
    /\ Remote \subseteq (Nat \ ({HostIP} \cup IP)) \X Nat
    /\ HostPort \subseteq Nat /\ SnatPort \subseteq Nat /\ MaxLapsed \in Nat

VARIABLES ct,       \* nf_conntrack: entries with an original and a reply tuple
          cpu,      \* per CPU: the program at work
          filter,   \* how the agent was started: tapfilter off, watching, dropping
          sent,     \* translations a remote has seen and may answer
          heard,    \* clients a VM's service has got a packet from
          lapsed,   \* flows whose entry timed out, or was refused for a stale one
          reused    \* VMs whose address or port had entries of an earlier VM

natVars == <<ct, cpu, filter, sent, heard, lapsed, reused>>
vars    == <<hostVars, natVars>>

NoEntry == [orig |-> <<>>, reply |-> <<>>]
Idle    == [pc |-> "idle", vm |-> None, port |-> None, tuple |-> <<>>,
            entry |-> NoEntry]

\* A flow as the two ends know it: the VM (None: the host), its port, the remote.
Flow == [vm : VM \cup {None}, port : VMPort \cup HostPort, peer : Remote]

\* Endpoints as the flow's owner knows them, and as remotes do.
Inside == (IP \X VMPort) \cup ({HostIP} \X HostPort)
Public == {HostIP} \X (Port \cup SnatPort \cup HostPort)

TypeOK ==
    /\ HostTypeOK
    /\ ct \subseteq [orig : Inside \X Remote, reply : Remote \X Public]
                    \cup [orig : Remote \X Public, reply : Inside \X Remote]
    /\ \A c \in Cpu : cpu[c].pc \in {"idle", "insert", "lost", "unsnat", "rule",
                                     "dnat"}
    /\ filter \in {"off", "watch", "drop"}
    /\ \A s \in sent : s.flow \in Flow
    /\ heard \subseteq Flow /\ lapsed \subseteq Flow
    /\ reused \subseteq VM

Init == /\ HostInit
        /\ ct = {}
        /\ cpu = [c \in Cpu |-> Idle]
        /\ filter \in {"off", "watch", "drop"}
        /\ sent = {} /\ heard = {} /\ lapsed = {} /\ reused = {}

-----------------------------------------------------------------------------
(* nf_conntrack, as the bpf_ct_* calls use it.                             *)

Tuples(e) == {e.orig, e.reply}

\* bpf_skb_ct_lookup
Hit(t)    == \E e \in ct : t \in Tuples(e)
Lookup(t) == CHOOSE e \in ct : t \in Tuples(e)

\* bpf_ct_insert_entry fails when either tuple is taken.
Clash(e) == \E f \in ct : Tuples(e) \cap Tuples(f) # {}

\* Mutant: the reply tuple is not turned round.
SnatEntryNotTurned(t, q) == [orig |-> t, reply |-> <<<<HostIP, q>>, t[2]>>]

\* bpf_ct_set_nat_info with a source and no port: the kernel picks a port whose
\* reply tuple is free now, or keeps a taken one when there is none.
SnatEntry(t, q) == [orig |-> t, reply |-> <<t[2], <<HostIP, q>>>>]
MayPick(t, q)   == Hit(SnatEntry(t, q).reply) =>
                       \A p \in SnatPort : Hit(SnatEntry(t, p).reply)

\* With a destination and a port, replies come from there.
DnatEntry(t, a) == [orig |-> t, reply |-> <<<<a, ServicePort>>, t[1]>>]

\* policy_check
Allowed(r) == r \notin Blocked

\* tapfilter's handle.  A verdict ends the chain on the TAP, whichever it is: the
\* filter is attached before nat_tap and TC_ACT_OK is final.
Handle(sport, dport) ==
    IF filter = "off" THEN "next"
    ELSE IF filter = "drop" /\ WatchedPort \in {sport, dport} THEN "shot" ELSE "ok"

Enter(c, p) == cpu' = [cpu EXCEPT ![c] = p]
Goto(c, pc) == cpu' = [cpu EXCEPT ![c].pc = pc]
Leave(c)    == Enter(c, Idle)

-----------------------------------------------------------------------------
(* nat_tap.                                                                *)

\* A VM sends: its service to a client it has heard from, or a dial of its own.
Sends(m, port, r) ==
    /\ at[m] = "ready" /\ m \in up
    /\ IF port = ServicePort THEN [vm |-> m, port |-> port, peer |-> r] \in heard
                             ELSE r \in Server

\* Mutant: answers to inbound flows are translated like dials.
NewSourceAlwaysSnat(t, e) == e.reply[2]

\* The source a packet t of e's flow leaves with: where replies go to for the side
\* that opened the flow, what the remote dialled for the other side.
NewSource(t, e) == IF e.orig = t THEN e.reply[2] ELSE e.orig[2]

\* Rewrite the source and redirect to the uplink: the remote may answer to it.
Out(m, port, t, e) ==
    sent' = IF at[m] = "ready"
              THEN sent \cup {[flow |-> [vm |-> m, port |-> port, peer |-> t[2]],
                               pub |-> NewSource(t, e)[2]]}
              ELSE sent

\* The lookup, and for a new flow the allocation with its source port.
NatTap(c, m, port, r) ==
    LET t == <<<<net[m].ip, port>>, r>>
    IN  /\ cpu[c].pc = "idle"
        /\ Sends(m, port, r)
        /\ Handle(port, r[2]) = "next"
        /\ Allowed(r)
        /\ \/ Hit(t) /\ Out(m, port, t, Lookup(t)) /\ UNCHANGED cpu
           \/ /\ ~Hit(t)
              /\ \E q \in SnatPort :
                    /\ MayPick(t, q)
                    /\ Enter(c, [pc |-> "insert", vm |-> m, port |-> port,
                                 tuple |-> t, entry |-> SnatEntry(t, q)])
              /\ UNCHANGED sent
        /\ UNCHANGED <<hostVars, ct, filter, heard, lapsed, reused>>

TapInsert(c) ==
    LET p == cpu[c]
    IN  /\ p.pc = "insert"
        /\ \/ Clash(p.entry) /\ Goto(c, "lost") /\ UNCHANGED <<ct, sent>>
           \/ /\ ~Clash(p.entry)
              /\ ct' = ct \cup {p.entry}
              /\ Out(p.vm, p.port, p.tuple, p.entry)
              /\ Leave(c)
        /\ UNCHANGED <<hostVars, filter, heard, lapsed, reused>>

\* Mutant: the loser of an insert race sends with its own translation.
TapLostKeepsOwn(c) ==
    LET p == cpu[c]
    IN  /\ p.pc = "lost"
        /\ Out(p.vm, p.port, p.tuple, p.entry)
        /\ Leave(c)
        /\ UNCHANGED <<hostVars, ct, filter, heard, lapsed, reused>>

\* The loser of an insert race uses the winner's entry, if it is there; otherwise
\* the packet is dropped.
TapLost(c) ==
    LET p == cpu[c]
    IN  /\ p.pc = "lost"
        /\ IF Hit(p.tuple) THEN Out(p.vm, p.port, p.tuple, Lookup(p.tuple))
                           ELSE UNCHANGED sent
        /\ Leave(c)
        /\ UNCHANGED <<hostVars, ct, filter, heard, lapsed, reused>>

-----------------------------------------------------------------------------
(* nat_uplink.                                                             *)

\* Where a reply to the flow of entry e, sent to public port q, is delivered: the
\* VM that vm_config has for the flow's source, or the host's own stack.
Behind(e, q) ==
    IF e.orig[1][1] \in IP /\ vm_config[e.orig[1][1]] # None
      THEN [vm |-> vm_config[e.orig[1][1]], port |-> e.orig[1][2]]
      ELSE [vm |-> None, port |-> q]

IsReply(t) == Hit(t) /\ Lookup(t).reply = t

\* Out of VM m's TAP to its port, past tapfilter's egress hook.
Deliver(m, port, r) ==
    heard' = IF /\ Handle(r[2], port) # "shot"
                /\ m \in VM /\ at[m] = "ready" /\ m \in up
                /\ port = ServicePort /\ r \in Client
               THEN heard \cup {[vm |-> m, port |-> port, peer |-> r]}
               ELSE heard

\* A client sends to published ports, anyone answers what it was sent.
Arrives(r, q) == \/ r \in Client /\ q \in Port
                 \/ \E s \in sent : s.flow.peer = r /\ s.pub = q

\* A packet arrives from r for public port q.
NatUplink(c, r, q) ==
    LET t == <<r, <<HostIP, q>>>>
        run(pc, e) == [pc |-> pc, vm |-> None, port |-> q, tuple |-> t, entry |-> e]
    IN  /\ cpu[c].pc = "idle"
        /\ Arrives(r, q)
        /\ \/ IsReply(t) /\ Enter(c, run("unsnat", Lookup(t)))
           \/ ~IsReply(t) /\ Enter(c, run("rule", NoEntry))
        /\ UNCHANGED <<hostVars, ct, filter, sent, heard, lapsed, reused>>

\* Reply to a flow a VM opened, unless vm_config has no such VM.
Unsnat(c) ==
    LET home == Behind(cpu[c].entry, cpu[c].port)
    IN  /\ cpu[c].pc = "unsnat"
        /\ Deliver(home.vm, home.port, cpu[c].tuple[1])
        /\ Leave(c)
        /\ UNCHANGED <<hostVars, ct, filter, sent, lapsed, reused>>

\* Published port?  Then allocate an entry for the flow, new or not.
FindRule(c) ==
    LET q == cpu[c].port
        t == cpu[c].tuple
    IN  /\ cpu[c].pc = "rule"
        /\ IF q \in Port /\ dnat_rules[q].vm # None /\ Allowed(t[1])
             THEN Enter(c, [pc |-> "dnat", vm |-> dnat_rules[q].vm,
                            port |-> ServicePort, tuple |-> t,
                            entry |-> DnatEntry(t, dnat_rules[q].ip)])
             ELSE Leave(c)
        /\ UNCHANGED <<hostVars, ct, filter, sent, heard, lapsed, reused>>

\* A failed insertion is ignored: the packet is translated by the rule.  On the
\* port of an earlier VM, whose entry is in the way, the flow is left without one.
DnatInsert(c) ==
    LET p == cpu[c]
        refused == Clash(p.entry) /\ ~Hit(p.entry.reply)
    IN  /\ p.pc = "dnat"
        /\ ct' = IF Clash(p.entry) THEN ct ELSE ct \cup {p.entry}
        /\ lapsed' = IF refused /\ p.vm \in reused
                       THEN lapsed \cup {[vm |-> p.vm, port |-> p.port, peer |-> p.tuple[1]]}
                       ELSE lapsed
        /\ Deliver(p.vm, p.port, p.tuple[1])
        /\ Leave(c)
        /\ UNCHANGED <<hostVars, filter, sent, reused>>

-----------------------------------------------------------------------------
(* Around the programs.                                                    *)

\* The host opens a connection of its own; the kernel tracks it.
HostDial(p, r) ==
    LET e == [orig |-> <<<<HostIP, p>>, r>>, reply |-> <<r, <<HostIP, p>>>>]
    IN  /\ ~Clash(e)
        /\ ct' = ct \cup {e}
        /\ sent' = sent \cup {[flow |-> [vm |-> None, port |-> p, peer |-> r], pub |-> p]}
        /\ UNCHANGED <<hostVars, cpu, filter, heard, lapsed, reused>>

\* The flow of an entry, seen from the VM or host that takes part in it.
FlowsOf(e) ==
    {f \in Flow :
        LET self == IF f.vm = None THEN HostIP ELSE net[f.vm].ip
        IN  \/ e.orig = <<<<self, f.port>>, f.peer>>
            \/ f.vm # None /\ e.reply = <<<<self, f.port>>, f.peer>>}

\* CT_TIMEOUT after its insertion an entry of a VM's flow is gone, in use or not:
\* redirected packets bypass the stack, which extends it for the host's own flows.
Expire(e) ==
    /\ e.orig[1][1] # HostIP
    /\ Cardinality(lapsed) < MaxLapsed
    /\ ct' = ct \ {e}
    /\ lapsed' = lapsed \cup FlowsOf(e)
    /\ UNCHANGED <<hostVars, cpu, filter, sent, heard, reused>>

\* What an earlier VM left behind that mentions VM m's network: entries, in the
\* table or on their way into it, and the rule of a boot that failed.
Leftovers(m) ==
    LET entries == ct \cup ({cpu[c].entry : c \in Cpu} \ {NoEntry})
    IN  \/ \E e \in entries, x \in {1, 2} :
              \/ net[m].ip \in {e.orig[x][1], e.reply[x][1]}
              \/ e.orig[x] = <<HostIP, net[m].port>>
        \/ \E p \in Port \ {net[m].port} : dnat_rules[p].ip = net[m].ip

\* A step of the agent.  A VM that is killed expects no more answers.
Agent(m) ==
    /\ HostStep(m)
    /\ IF at'[m] = "killed"
         THEN /\ sent' = {s \in sent : s.flow.vm # m}
              /\ heard' = {f \in heard : f.vm # m}
         ELSE UNCHANGED <<sent, heard>>
    /\ reused' = IF at'[m] = "published" /\ Leftovers(m) THEN reused \cup {m}
                                                         ELSE reused
    /\ UNCHANGED <<ct, cpu, filter, lapsed>>

Program(c) ==
    \/ \E m \in VM, port \in VMPort, r \in Remote : NatTap(c, m, port, r)
    \/ TapInsert(c) \/ TapLost(c)
    \/ \E r \in Remote, q \in Port \cup SnatPort \cup HostPort : NatUplink(c, r, q)
    \/ Unsnat(c) \/ FindRule(c) \/ DnatInsert(c)

Kernel == \/ \E p \in HostPort, r \in Server : HostDial(p, r)
          \/ \E e \in ct : Expire(e)

Next == \/ \E m \in VM : Agent(m)
        \/ \E c \in Cpu : Program(c)
        \/ Kernel

Spec == Init /\ [][Next]_vars

-----------------------------------------------------------------------------

\* Flows of VMs that started clean, with remotes whose flows are all still in the
\* connection table: one that is not may come back on another flow's port.
Sound(f) == f.vm \notin reused /\ \A g \in lapsed : g.peer # f.peer

\* What nat_uplink would do now with a packet from r for public port q.
Home(r, q) ==
    LET t == <<r, <<HostIP, q>>>>
    IN  IF IsReply(t) THEN Behind(Lookup(t), q)
        ELSE IF q \in Port /\ dnat_rules[q].vm # None
          THEN [vm |-> dnat_rules[q].vm, port |-> ServicePort]
        ELSE [vm |-> None, port |-> q]

\* Answers come back.  Whatever source a remote was shown by nat_tap, or by the
\* host's own connection, an answer sent there now reaches the VM (or host) and
\* port that the flow belongs to: two CPUs translating packets of one new flow,
\* VMs sharing a remote, published ports and ports the host uses never make
\* nat_uplink pick another receiver.
AnswersComeBack ==
    \A s \in sent :
        Sound(s.flow) =>
            Home(s.flow.peer, s.pub) = [vm |-> s.flow.vm, port |-> s.flow.port]

\* A client that talks to a published port is answered from that port: nat_tap
\* finds the entry that nat_uplink made, or lost a race to make.
AnswersFromPublishedPort ==
    \A s \in sent :
        s.flow.vm # None /\ s.flow.port = ServicePort /\ Sound(s.flow) =>
            s.pub = net[s.flow.vm].port

\* The same of every flow, however long it has lasted.  nat.c:70 says that an
\* entry's first timeout is superseded as the connection advances.
AnswersFromPublishedPortAlways ==
    \A s \in sent :
        s.flow.vm # None /\ s.flow.port = ServicePort /\ s.flow.vm \notin reused =>
            s.pub = net[s.flow.vm].port
=============================================================================
