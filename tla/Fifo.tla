-------------------------------- MODULE Fifo --------------------------------
(***************************************************************************)
(* What the FIFO buffer hpdcache_fifo_reg promises, as operators on the    *)
(* sequence it holds (oldest first).  Module FifoReg has the registers of  *)
(* the buffer and is shown to implement these operators.                   *)
(*                                                                         *)
(* w is the item offered to an accepting buffer, as a set with at most one *)
(* element; r says that the consumer takes the item it is offered.         *)
(***************************************************************************)
EXTENDS Integers, Sequences

FifoPop(q, r) == IF r /\ q # <<>> THEN Tail(q) ELSE q

FifoPush(q, w) == IF w = {} THEN q ELSE Append(q, CHOOSE x \in w : TRUE)

\* The item handed over in this cycle, if any.
FifoOut(q, r) == IF r /\ q # <<>> THEN {Head(q)} ELSE {}

\* One clock cycle of the buffer without feedthrough.
FifoNext(q, r, w) == FifoPush(FifoPop(q, r), w)
=============================================================================
