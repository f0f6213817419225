---------------------------- MODULE MCScheduler ----------------------------
(***************************************************************************)
(* Instances of Scheduler: three servers of different shapes that do not   *)
(* all fit, two hosts, one of them too small in memory for the largest.    *)
(***************************************************************************)
EXTENDS Scheduler

CONSTANTS s1, s2, s3, h1, h2

Amt(c, m) == [r \in Resource |-> IF r = "cpu" THEN c ELSE m]

MCDemand == [s \in Server |-> IF s = s1 THEN Amt(1, 2)
                              ELSE IF s = s2 THEN Amt(2, 1) ELSE Amt(1, 1)]

MCSizes == [h \in Host |-> IF h = h1 THEN {Amt(2, 3)} ELSE {Amt(3, 1)}]
=============================================================================
