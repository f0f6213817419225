------------------------------- MODULE MCNat -------------------------------
(***************************************************************************)
(* Small hosts for Nat: one player, one web server that the VMs and the    *)
(* host dial from one and the same public port, which is also published.   *)
(***************************************************************************)
EXTENDS Nat, TLC

Players  == {<<101, 5>>}
Websites == {<<102, 6>>}

CpusAlike == Permutations(Cpu)
=============================================================================
