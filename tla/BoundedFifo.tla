----------------------------- MODULE BoundedFifo -----------------------------
(***************************************************************************)
(* What a FIFO of the cache promises at its ports: items leave in the      *)
(* order in which they were accepted, each once, and at most Depth of them *)
(* are held.  With feedthrough an item may cross an empty buffer in its    *)
(* cycle, and a full buffer accepts one in the cycle in which it is read.  *)
(***************************************************************************)
EXTENDS Integers, Sequences, Fifo

CONSTANTS Depth, Feedthrough, Item

VARIABLES
  q,      \* the items held, oldest first
  out     \* the handshakes of the last cycle

\* w is the item offered by the producer, a set of at most one item.
Offers == {{}} \cup {{x} : x \in Item}

Accepted(w, r) == IF Len(q) < Depth \/ (Feedthrough /\ r) THEN w ELSE {}

Cycle(w, r) ==
  LET in == Accepted(w, r)
  IN  IF Feedthrough
        THEN /\ q'   = FifoPop(FifoPush(q, in), r)
             /\ out' = [accepted |-> in, taken |-> FifoOut(FifoPush(q, in), r)]
        ELSE /\ q'   = FifoNext(q, r, in)
             /\ out' = [accepted |-> in, taken |-> FifoOut(q, r)]

Init == q = <<>> /\ out = [accepted |-> {}, taken |-> {}]

Next == \E w \in Offers, r \in BOOLEAN : Cycle(w, r)

Spec == Init /\ [][Next]_<<q, out>>
=============================================================================
