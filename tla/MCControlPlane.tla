--------------------------- MODULE MCControlPlane ---------------------------
(***************************************************************************)
(* Small fleets: servers of one unit, or one of two units, on hosts that   *)
(* cannot hold them all.                                                   *)
(***************************************************************************)
EXTENDS ControlPlane, TLC

CONSTANTS s1, s2, h1, h2

Amt(n) == [r \in Resource |-> n]

\* Every server asks for one unit of each resource, every host has one.
UnitDemand == [s \in Server |-> Amt(1)]
UnitHosts  == [h \in Host |-> Amt(1)]

\* Two units of cpu and memory on every host.
PairHosts == [h \in Host |-> Amt(2)]

\* Nothing tells two servers, or two hosts, of these fleets apart.
ServersAlike == Permutations(Server)
HostsAlike   == Permutations(Host)
=============================================================================
