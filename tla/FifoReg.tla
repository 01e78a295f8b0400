------------------------------- MODULE FifoReg -------------------------------
(***************************************************************************)
(* The FIFO buffer hpdcache_fifo_reg with more than one entry: two         *)
(* pointers into a register file and a bit that tells a full buffer from   *)
(* an empty one when they are equal.  One step is one clock cycle.         *)
(***************************************************************************)
EXTENDS Integers, Sequences

CONSTANTS
  Depth,        \* FIFO_DEPTH
  Feedthrough,  \* FEEDTHROUGH
  Item          \* fifo_data_t

ASSUME DepthAssumption == Depth \in Nat /\ Depth > 1
ASSUME FeedthroughAssumption == Feedthrough \in BOOLEAN
ASSUME ItemAssumption == Item # {}

VARIABLES
  fifoMem,      \* fifo_mem_q
  rptr,         \* rptr_q
  wptr,         \* wptr_q
  crossover,    \* crossover_q: the write pointer has wrapped, the read one not
  out           \* the handshakes of the last cycle

vars == <<fifoMem, rptr, wptr, crossover, out>>

Addr == 0 .. Depth - 1

\* w is the item offered (w_i, wdata_i), a set of at most one item.
Offers == {{}} \cup {{x} : x \in Item}

Empty == wptr = rptr /\ ~crossover
Full  == wptr = rptr /\ crossover

Rok(w) == ~Empty \/ (Feedthrough /\ w # {})
Wok(r) == ~Full \/ (Feedthrough /\ r)

Rexec(r) == r /\ ~Empty

\* Mutant: an item that crosses an empty buffer is also stored.
Wexec_Stored(w, r) == w # {} /\ Wok(r)

Wexec(w, r) ==
  w # {} /\ IF Feedthrough
              THEN (Empty /\ ~r) \/ (Full /\ r) \/ (~Full /\ ~Empty)
              ELSE ~Full

Inc(p) == IF p = Depth - 1 THEN 0 ELSE p + 1

\* Mutant: the bit is not cleared when the read pointer wraps.
CrossoverNext_NoClear(w, r) ==
  IF Wexec(w, r) /\ wptr = Depth - 1 THEN TRUE ELSE crossover

CrossoverNext(w, r) ==
  IF Wexec(w, r) /\ wptr = Depth - 1 THEN TRUE
  ELSE IF Rexec(r) /\ rptr = Depth - 1 THEN FALSE
  ELSE crossover

\* rdata_o, as a set of at most one item
Rdata(w) == IF Feedthrough /\ Empty THEN w ELSE {fifoMem[rptr]}

Cycle(w, r) ==
  /\ rptr'      = IF Rexec(r) THEN Inc(rptr) ELSE rptr
  /\ wptr'      = IF Wexec(w, r) THEN Inc(wptr) ELSE wptr
  /\ crossover' = CrossoverNext(w, r)
  /\ fifoMem'   = IF Wexec(w, r)
                    THEN [fifoMem EXCEPT ![wptr] = CHOOSE x \in w : TRUE]
                    ELSE fifoMem
  /\ out'       = [accepted |-> IF Wok(r) THEN w ELSE {},
                   taken    |-> IF r /\ Rok(w) THEN Rdata(w) ELSE {}]

Init ==
  /\ fifoMem \in [Addr -> Item]      \* not reset
  /\ rptr = 0 /\ wptr = 0 /\ crossover = FALSE
  /\ out = [accepted |-> {}, taken |-> {}]

Next == \E w \in Offers, r \in BOOLEAN : Cycle(w, r)

Spec == Init /\ [][Next]_vars

----------------------------------------------------------------------------
(* Properties                                                              *)

(* The crossover bit orders the two pointers (rptr_ahead_wptr_assert), so  *)
(* the number of items held can be read off them.                          *)
PointersOrdered ==
  /\ fifoMem \in [Addr -> Item] /\ rptr \in Addr /\ wptr \in Addr
  /\ crossover \in BOOLEAN
  /\ IF crossover THEN wptr <= rptr ELSE rptr <= wptr

Count == IF crossover THEN Depth - rptr + wptr ELSE wptr - rptr

\* The register of the k-th item.
Slot(k) == IF rptr + k - 1 < Depth THEN rptr + k - 1 ELSE rptr + k - 1 - Depth

Held == [k \in 1 .. Count |-> fifoMem[Slot(k)]]

Abs == INSTANCE BoundedFifo WITH q <- Held

(* At its ports the buffer is a bounded FIFO: whatever mix of reads, of    *)
(* writes and of both in one cycle, at whatever position of the pointers,  *)
(* no item is lost, repeated or reordered.                                 *)
ImplementsFifo == Abs!Spec
=============================================================================
