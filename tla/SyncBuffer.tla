----------------------------- MODULE SyncBuffer -----------------------------
(***************************************************************************)
(* The one-entry buffer hpdcache_sync_buffer, which hpdcache_fifo_reg also *)
(* uses for a depth of one.  One step is one clock cycle.                  *)
(***************************************************************************)
EXTENDS Integers, Sequences

CONSTANTS Feedthrough, Item

VARIABLES
  valid,   \* valid_q
  buf,     \* buf_q
  out      \* the handshakes of the last cycle

vars == <<valid, buf, out>>

Offers == {{}} \cup {{x} : x \in Item}

Rok(w) == valid \/ (Feedthrough /\ w # {})
Wok(r) == ~valid \/ (Feedthrough /\ r)

\* Mutant: an item offered to a buffer being read is not stored.
BufWe_NotWhenRead(w, r) == w # {} /\ ~valid /\ (Feedthrough => ~r)

BufWe(w, r) == w # {} /\ IF Feedthrough THEN valid = r ELSE ~valid

Rdata(w) == IF Feedthrough /\ ~valid THEN w ELSE {buf}

Cycle(w, r) ==
  /\ valid' = (BufWe(w, r) \/ (valid /\ ~r))
  /\ buf'   = IF BufWe(w, r) THEN CHOOSE x \in w : TRUE ELSE buf
  /\ out'   = [accepted |-> IF Wok(r) THEN w ELSE {},
               taken    |-> IF r /\ Rok(w) THEN Rdata(w) ELSE {}]

Init ==
  /\ valid = FALSE
  /\ buf \in Item                    \* not reset
  /\ out = [accepted |-> {}, taken |-> {}]

Next == \E w \in Offers, r \in BOOLEAN : Cycle(w, r)

Spec == Init /\ [][Next]_vars

Abs == INSTANCE BoundedFifo WITH Depth <- 1, q <- IF valid THEN <<buf>> ELSE <<>>

(* At its ports the buffer is a FIFO of depth one: an item is neither      *)
(* overwritten before it is read nor handed over twice.                    *)
ImplementsFifo == Abs!Spec
=============================================================================
