------------------------------ MODULE HpStream ------------------------------
(***************************************************************************)
(* What an ordered output queue over a stream socket promises: bytes reach *)
(* the wire in the order in which they were accepted, each of them once,   *)
(* none of them invented, until the queue is closed.                       *)
(*                                                                         *)
(* The k-th byte ever accepted is named by its position k - 1, so `wire`,  *)
(* the sequence of the bytes the kernel took, must count 0, 1, 2, ...      *)
(***************************************************************************)
EXTENDS Naturals, Sequences

VARIABLES
  total,    \* number of bytes accepted so far
  wire,     \* positions of the bytes taken by the kernel, oldest first
  closed    \* the queue was torn down: nothing moves any more

vars == <<total, wire, closed>>

Init == total = 0 /\ wire = <<>> /\ closed = FALSE

\* The user hands some more bytes over.
Accept ==
  /\ ~closed
  /\ total' \in Nat /\ total' > total
  /\ UNCHANGED <<wire, closed>>

\* The kernel takes the next bytes, none out of turn.
Deliver ==
  /\ ~closed
  /\ Len(wire') \in Len(wire) + 1 .. total
  /\ wire' = wire \o [i \in 1..Len(wire') - Len(wire) |-> Len(wire) + i - 1]
  /\ UNCHANGED <<total, closed>>

\* Teardown: what was not delivered is dropped.
Close ==
  /\ ~closed
  /\ closed' = TRUE
  /\ UNCHANGED <<total, wire>>

Next == Accept \/ Deliver \/ Close

Spec == Init /\ [][Next]_vars
=============================================================================
