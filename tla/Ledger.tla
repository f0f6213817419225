------------------------------- MODULE Ledger -------------------------------
(***************************************************************************)
(* What the control plane promises about placement, with none of its       *)
(* machinery: a book of which server sits on which host.  A server is      *)
(* booked on one host at a time, only where it fits next to everything     *)
(* booked there, and moves only by being taken off first.  ControlPlane    *)
(* implements this with an inventory in memory, a table, and agents that   *)
(* come and go.                                                            *)
(***************************************************************************)

CONSTANTS Server, Host, NoHost,
          Holds(_, _)           \* Holds(h, S): h has room for all of S

VARIABLE placed

On(h) == {s \in Server : placed[s] = h}

Init == placed = [s \in Server |-> NoHost]

Book(s, h) == /\ placed[s] = NoHost
              /\ Holds(h, On(h) \cup {s})
              /\ placed' = [placed EXCEPT ![s] = h]

Free(s) == placed' = [placed EXCEPT ![s] = NoHost]

Next == \E s \in Server : Free(s) \/ \E h \in Host : Book(s, h)

Spec == Init /\ [][Next]_placed
=============================================================================
