-------------------------------- MODULE Fleet --------------------------------
(***************************************************************************)
(* What the components share: the ids of servers, hosts and VMs, amounts   *)
(* of cpu and memory, the spec (cpus, memory_mb) each game server asks     *)
(* for, and the sum of the specs of a set of servers.                      *)
(*                                                                         *)
(* A sum is written as the number of units in a set, one unit for each cpu *)
(* or megabyte a member asks for.  That makes it an ordinary cardinality,  *)
(* whose laws the proof modules can cite.                                  *)
(***************************************************************************)
EXTENDS Integers, FiniteSets

CONSTANTS Server, Host, VM,             \* ids
          NoServer, NoHost, NoVM,       \* the absence of one: nil, NULL, ""
          Demand                        \* Demand[s]: cpus and memory_mb of s

\* The two dimensions of capacity every host and every server spec has.
Resource == {"cpu", "mem"}

Amount == [Resource -> Nat]

Zero == [r \in Resource |-> 0]

ASSUME FleetAssumption == /\ IsFiniteSet(Server)
                          /\ IsFiniteSet(VM)
                          /\ NoServer \notin Server
                          /\ NoHost \notin Host
                          /\ NoVM \notin VM
                          /\ Demand \in [Server -> Amount]

\* The units of resource r that the members of S hold, D[x] being what x holds.
Units(S, D, r) == UNION {{x} \X (1 .. D[x][r]) : x \in S}

\* The sum of D[x][r] over the members of S.
SumOver(S, D, r) == Cardinality(Units(S, D, r))

\* SUM(cpus) or SUM(memory_mb) over the servers in S.
Committed(S, r) == SumOver(S, Demand, r)

Fits(demand, amount) == \A r \in Resource : demand[r] <= amount[r]

\* Go's min, and clampNonNeg of repository/host.go.
Least(a, b) == IF a < b THEN a ELSE b

ClampNonNeg(v) == IF v < 0 THEN 0 ELSE v
=============================================================================
