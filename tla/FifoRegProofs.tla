---------------------------- MODULE FifoRegProofs ----------------------------
(***************************************************************************)
(* The pointer-based FIFO implements the bounded FIFO, for every depth     *)
(* greater than one, with and without feedthrough.                         *)
(***************************************************************************)
EXTENDS FifoReg, SequenceTheorems, TLAPS

----------------------------------------------------------------------------
(* The pointers                                                            *)

\* A pointer stays inside the register file.
LEMMA IncType ==
  ASSUME NEW p \in Addr
  PROVE  /\ Inc(p) \in Addr
         /\ p = Depth - 1 => Inc(p) = 0
         /\ p # Depth - 1 => Inc(p) = p + 1
  BY DepthAssumption DEF Inc, Addr

\* A cycle keeps the crossover bit and the order of the pointers consistent.
LEMMA CyclePointers ==
  ASSUME PointersOrdered, NEW w \in Offers, NEW r \in BOOLEAN, Cycle(w, r)
  PROVE  PointersOrdered'
<1>1. rptr' \in Addr /\ wptr' \in Addr
  BY IncType DEF PointersOrdered, Cycle
<1>2. crossover' \in BOOLEAN
  BY DEF PointersOrdered, Cycle, CrossoverNext
<1>3. fifoMem' \in [Addr -> Item]
  <2>1. Wexec(w, r) => (CHOOSE x \in w : TRUE) \in Item
    BY DEF Wexec, Offers
  <2> QED
    BY <2>1 DEF PointersOrdered, Cycle
<1>4. IF crossover' THEN wptr' <= rptr' ELSE rptr' <= wptr'
  <2> USE DepthAssumption, FeedthroughAssumption DEF Addr
  <2>1. CASE Wexec(w, r) /\ Rexec(r)
    BY <2>1 DEF PointersOrdered, Cycle, CrossoverNext, Inc, Wexec, Rexec, Empty, Full
  <2>2. CASE Wexec(w, r) /\ ~Rexec(r)
    BY <2>2 DEF PointersOrdered, Cycle, CrossoverNext, Inc, Wexec, Rexec, Empty, Full
  <2>3. CASE ~Wexec(w, r) /\ Rexec(r)
    BY <2>3 DEF PointersOrdered, Cycle, CrossoverNext, Inc, Rexec, Empty
  <2>4. CASE ~Wexec(w, r) /\ ~Rexec(r)
    BY <2>4 DEF PointersOrdered, Cycle, CrossoverNext
  <2> QED
    BY <2>1, <2>2, <2>3, <2>4
<1> QED
  BY <1>1, <1>2, <1>3, <1>4 DEF PointersOrdered

----------------------------------------------------------------------------
(* The items held                                                          *)

\* The items held are a sequence of at most Depth items.
LEMMA HeldFacts ==
  ASSUME PointersOrdered
  PROVE  /\ Count \in 0 .. Depth
         /\ \A k \in 1 .. Count : Slot(k) \in Addr
         /\ Held \in Seq(Item) /\ Len(Held) = Count /\ DOMAIN Held = 1 .. Count
         /\ Empty <=> Count = 0
         /\ Full <=> Count = Depth
<1>1. Count \in 0 .. Depth
  BY DepthAssumption DEF PointersOrdered, Count, Addr
<1>2. \A k \in 1 .. Count : Slot(k) \in Addr
  BY <1>1, DepthAssumption DEF PointersOrdered, Slot, Addr
<1>3. Held \in [1 .. Count -> Item]
  BY <1>2 DEF Held, PointersOrdered
<1>4. Held \in Seq(Item) /\ Len(Held) = Count /\ DOMAIN Held = 1 .. Count
  BY <1>1, <1>3, SeqDef, LenProperties
<1>5. (Empty <=> Count = 0) /\ (Full <=> Count = Depth)
  BY DepthAssumption DEF PointersOrdered, Count, Addr, Empty, Full
<1> QED
  BY <1>1, <1>2, <1>4, <1>5

HeldIsSeq == Held \in Seq(Item) /\ Len(Held) = Count /\ Count \in 0 .. Depth

\* The same facts after a step.
LEMMA HeldNext == PointersOrdered' => HeldIsSeq'
<1>1. PointersOrdered => HeldIsSeq
  BY HeldFacts DEF HeldIsSeq
<1> QED
  BY <1>1, PTL

\* How a cycle changes the items held.
LEMMA CycleHeld ==
  ASSUME PointersOrdered, PointersOrdered', NEW w \in Offers, NEW r \in BOOLEAN,
         Cycle(w, r),
         NEW re \in {0, 1}, re = 1 <=> Rexec(r),
         NEW we \in {0, 1}, we = 1 <=> Wexec(w, r)
  PROVE  /\ Count' = Count - re + we
         /\ \A k \in 1 .. Count - re : Held'[k] = Held[k + re]
         /\ we = 1 => Held'[Count'] = CHOOSE x \in w : TRUE
<1> USE DepthAssumption, FeedthroughAssumption
<1>1. Count' = Count - re + we
  <2>1. CASE Wexec(w, r)
    BY <2>1 DEF PointersOrdered, Cycle, CrossoverNext, Inc, Wexec, Rexec, Empty, Full, Count, Addr
  <2>2. CASE ~Wexec(w, r)
    BY <2>2 DEF PointersOrdered, Cycle, CrossoverNext, Inc, Rexec, Empty, Full, Count, Addr
  <2> QED
    BY <2>1, <2>2
<1>2. Count \in 0 .. Depth /\ Count' \in 0 .. Depth /\ (re = 1 => Count > 0)
  <2>1. Count \in 0 .. Depth /\ (Empty <=> Count = 0)
    BY HeldFacts
  <2>2. Count' \in 0 .. Depth
    BY HeldNext DEF HeldIsSeq
  <2> QED
    BY <2>1, <2>2 DEF Rexec
<1>3. ASSUME NEW k \in 1 .. Count - re
      PROVE  Held'[k] = Held[k + re]
  <2>1. k \in 1 .. Count' /\ k + re \in 1 .. Count
    BY <1>1, <1>2
  <2>2. Slot(k)' = Slot(k + re) /\ Slot(k + re) \in Addr
    BY <1>2 DEF PointersOrdered, Cycle, Inc, Slot, Addr, Count
  <2>3. Wexec(w, r) => Slot(k + re) # wptr
    BY <1>2, <2>1 DEF PointersOrdered, Slot, Addr, Count, Wexec, Rexec, Empty, Full
  <2>4. fifoMem'[Slot(k + re)] = fifoMem[Slot(k + re)]
    BY <2>2, <2>3 DEF Cycle, PointersOrdered
  <2>5. Held'[k] = fifoMem'[Slot(k)'] /\ Held[k + re] = fifoMem[Slot(k + re)]
    BY <2>1 DEF Held
  <2> QED
    BY <2>2, <2>4, <2>5
<1>4. ASSUME we = 1
      PROVE  Held'[Count'] = CHOOSE x \in w : TRUE
  <2>1. Count' \in 1 .. Count'
    BY <1>1, <1>2, <1>4
  <2>2. Slot(Count)' = wptr
    BY <1>1, <1>2, <1>4 DEF PointersOrdered, Cycle, CrossoverNext, Inc, Slot, Addr, Count, Wexec, Rexec, Empty, Full
  <2>3. fifoMem'[wptr] = CHOOSE x \in w : TRUE
    BY <1>4 DEF Cycle, PointersOrdered
  <2> QED
    BY <2>1, <2>2, <2>3 DEF Held
<1> QED
  BY <1>1, <1>3, <1>4

----------------------------------------------------------------------------
(* Refinement                                                              *)

\* The first cycle of a FIFO operator that both pops and pushes.
LEMMA PopPush ==
  ASSUME NEW S, NEW q \in Seq(S), q # <<>>, NEW x \in S
  PROVE  Tail(Append(q, x)) = Append(Tail(q), x) /\ Head(Append(q, x)) = Head(q)
<1>1. Len(q) \in Nat /\ Len(q) > 0
  BY LenProperties, EmptySeq
<1>2. /\ Append(q, x) \in Seq(S) /\ Len(Append(q, x)) = Len(q) + 1
      /\ \A i \in 1 .. Len(q) : Append(q, x)[i] = q[i]
      /\ Append(q, x)[Len(q) + 1] = x
  BY AppendProperties
<1>3. Append(q, x) # <<>>
  BY <1>1, <1>2, EmptySeq
<1>4. /\ Tail(Append(q, x)) \in Seq(S) /\ Len(Tail(Append(q, x))) = Len(q)
      /\ \A i \in 1 .. Len(q) : Tail(Append(q, x))[i] = Append(q, x)[i + 1]
  <2>1. /\ Tail(Append(q, x)) \in Seq(S) /\ Len(Tail(Append(q, x))) = Len(Append(q, x)) - 1
        /\ \A i \in 1 .. Len(Tail(Append(q, x))) : Tail(Append(q, x))[i] = Append(q, x)[i + 1]
    BY <1>2, <1>3, HeadTailProperties
  <2> QED
    BY <1>1, <1>2, <2>1
<1>5. /\ Tail(q) \in Seq(S) /\ Len(Tail(q)) = Len(q) - 1
      /\ \A i \in 1 .. Len(q) - 1 : Tail(q)[i] = q[i + 1]
  BY HeadTailProperties
<1>6. /\ Append(Tail(q), x) \in Seq(S) /\ Len(Append(Tail(q), x)) = Len(q)
      /\ \A i \in 1 .. Len(q) - 1 : Append(Tail(q), x)[i] = Tail(q)[i]
      /\ Append(Tail(q), x)[Len(q)] = x
  <2>1. /\ Append(Tail(q), x) \in Seq(S) /\ Len(Append(Tail(q), x)) = Len(Tail(q)) + 1
        /\ \A i \in 1 .. Len(Tail(q)) : Append(Tail(q), x)[i] = Tail(q)[i]
        /\ Append(Tail(q), x)[Len(Tail(q)) + 1] = x
    BY <1>5, AppendProperties
  <2> QED
    BY <1>1, <1>5, <2>1
<1>7. \A i \in 1 .. Len(q) : Tail(Append(q, x))[i] = Append(Tail(q), x)[i]
  <2> SUFFICES ASSUME NEW i \in 1 .. Len(q)
               PROVE  Tail(Append(q, x))[i] = Append(Tail(q), x)[i]
    OBVIOUS
  <2>1. CASE i = Len(q)
    BY <1>2, <1>4, <1>6, <2>1
  <2>2. CASE i # Len(q)
    <3>1. i \in 1 .. Len(q) - 1 /\ i + 1 \in 1 .. Len(q)
      BY <1>1, <2>2
    <3> QED
      BY <1>2, <1>4, <1>5, <1>6, <3>1
  <2> QED
    BY <2>1, <2>2
<1>8. Tail(Append(q, x)) = Append(Tail(q), x)
  BY <1>4, <1>6, <1>7, SeqEqual
<1>9. Head(Append(q, x)) = Head(q)
  <2>1. Head(Append(q, x)) = Append(q, x)[1] /\ Head(q) = q[1]
    BY <1>2, <1>3, HeadTailProperties
  <2> QED
    BY <1>1, <1>2, <2>1
<1> QED
  BY <1>8, <1>9

\* A cycle stores the offered item behind what was held, after the read.
LEMMA CycleQueue ==
  ASSUME PointersOrdered, PointersOrdered', NEW w \in Offers, NEW r \in BOOLEAN,
         Cycle(w, r)
  PROVE  LET popped == IF Rexec(r) THEN Tail(Held) ELSE Held
         IN  Held' = IF Wexec(w, r) THEN Append(popped, CHOOSE x \in w : TRUE) ELSE popped
<1> DEFINE re == IF Rexec(r) THEN 1 ELSE 0
           we == IF Wexec(w, r) THEN 1 ELSE 0
           popped == IF Rexec(r) THEN Tail(Held) ELSE Held
           item == CHOOSE x \in w : TRUE
<1>1. re \in {0, 1} /\ we \in {0, 1} /\ (re = 1 <=> Rexec(r)) /\ (we = 1 <=> Wexec(w, r))
  OBVIOUS
<1> HIDE DEF re, we
<1>2. /\ Count' = Count - re + we
      /\ \A k \in 1 .. Count - re : Held'[k] = Held[k + re]
      /\ we = 1 => Held'[Count'] = item
  BY <1>1, CycleHeld
<1>3. /\ Count \in 0 .. Depth /\ Held \in Seq(Item) /\ Len(Held) = Count
      /\ Empty <=> Count = 0
  BY HeldFacts
<1>4. Held' \in Seq(Item) /\ Len(Held') = Count'
  BY HeldNext DEF HeldIsSeq
<1>5. Wexec(w, r) => item \in Item
  BY DEF Wexec, Offers
<1>6. /\ popped \in Seq(Item) /\ Len(popped) = Count - re
      /\ \A k \in 1 .. Count - re : popped[k] = Held[k + re]
  <2>1. CASE Rexec(r)
    <3>1. re = 1 /\ Held # <<>>
      BY <1>1, <1>3, <2>1, EmptySeq DEF Rexec
    <3> QED
      BY <1>3, <2>1, <3>1, HeadTailProperties
  <2>2. CASE ~Rexec(r)
    <3>1. re = 0 /\ Count - re = Count
      BY <1>1, <1>3, <2>2, DepthAssumption
    <3> QED
      BY <1>3, <2>2, <3>1
  <2> QED
    BY <2>1, <2>2
<1> HIDE DEF popped, item
<1>7. CASE Wexec(w, r)
  <2>1. we = 1 /\ Count - re \in Nat /\ Count' = Count - re + 1
    BY <1>1, <1>2, <1>6, <1>7, LenProperties
  <2>2. /\ Append(popped, item) \in Seq(Item) /\ Len(Append(popped, item)) = Count - re + 1
        /\ \A k \in 1 .. Count - re : Append(popped, item)[k] = popped[k]
        /\ Append(popped, item)[Count - re + 1] = item
    BY <1>5, <1>6, <1>7, AppendProperties
  <2>3. \A k \in 1 .. Count - re + 1 : Held'[k] = Append(popped, item)[k]
    <3> SUFFICES ASSUME NEW k \in 1 .. Count - re + 1 PROVE Held'[k] = Append(popped, item)[k]
      OBVIOUS
    <3>1. CASE k = Count - re + 1
      BY <1>2, <2>1, <2>2, <3>1
    <3>2. CASE k # Count - re + 1
      <4>1. k \in 1 .. Count - re
        BY <2>1, <3>2
      <4> QED
        BY <1>2, <1>6, <2>2, <4>1
    <3> QED
      BY <3>1, <3>2
  <2>4. Held' = Append(popped, item)
    BY <1>4, <2>1, <2>2, <2>3, SeqEqual
  <2> QED
    BY <1>7, <2>4 DEF popped, item
<1>8. CASE ~Wexec(w, r)
  <2>1. we = 0 /\ Count' = Count - re
    BY <1>1, <1>2, <1>3, <1>8, DepthAssumption
  <2>2. \A k \in 1 .. Count - re : Held'[k] = popped[k]
    BY <1>2, <1>6
  <2>3. Held' = popped
    BY <1>4, <1>6, <2>1, <2>2, SeqEqual
  <2> QED
    BY <1>8, <2>3 DEF popped
<1> QED
  BY <1>7, <1>8

\* Every cycle of the registers is a cycle of the bounded FIFO.
LEMMA CycleRefines ==
  ASSUME PointersOrdered, PointersOrdered', NEW w \in Offers, NEW r \in BOOLEAN,
         Cycle(w, r)
  PROVE  Abs!Cycle(w, r)
<1> USE DEF Abs!Cycle, Abs!Accepted, Abs!FifoPop, Abs!FifoPush, Abs!FifoOut, Abs!FifoNext
<1>1. /\ Count \in 0 .. Depth /\ Held \in Seq(Item) /\ Len(Held) = Count
      /\ (Empty <=> Count = 0) /\ (Full <=> Count = Depth)
  BY HeldFacts
<1>2. (Held = <<>> <=> Empty) /\ (Len(Held) < Depth <=> ~Full) /\ (Full => ~Empty)
  BY <1>1, EmptySeq, DepthAssumption
<1>3. ~Empty => Head(Held) = fifoMem[rptr]
  <2> SUFFICES ASSUME ~Empty PROVE Head(Held) = fifoMem[rptr]
    OBVIOUS
  <2>1. Head(Held) = Held[1] /\ 1 \in 1 .. Count
    BY <1>1, <1>2, HeadTailProperties
  <2>2. Slot(1) = rptr
    BY DepthAssumption DEF PointersOrdered, Slot, Addr
  <2> QED
    BY <2>1, <2>2 DEF Held
<1>4. LET popped == IF Rexec(r) THEN Tail(Held) ELSE Held
      IN  Held' = IF Wexec(w, r) THEN Append(popped, CHOOSE x \in w : TRUE) ELSE popped
  BY CycleQueue
<1>5. out' = [accepted |-> IF Wok(r) THEN w ELSE {},
              taken    |-> IF r /\ Rok(w) THEN Rdata(w) ELSE {}]
  BY DEF Cycle
<1>6. w = {} \/ \E x \in Item : w = {x}
  BY DEF Offers
<1> HIDE DEF Held
<1>7. CASE ~Feedthrough
  <2>1. Abs!Accepted(w, r) = IF Wok(r) THEN w ELSE {}
    BY <1>2, <1>7 DEF Wok
  <2>2. Held' = Abs!FifoNext(Held, r, Abs!Accepted(w, r))
    <3>1. Abs!FifoPop(Held, r) = IF Rexec(r) THEN Tail(Held) ELSE Held
      BY <1>2 DEF Rexec
    <3>2. Wexec(w, r) <=> Abs!Accepted(w, r) # {}
      BY <1>7, <2>1 DEF Wexec, Wok
    <3>3. Wexec(w, r) => Abs!Accepted(w, r) = w
      BY <1>7, <2>1 DEF Wexec, Wok
    <3> DEFINE popped == IF Rexec(r) THEN Tail(Held) ELSE Held
    <3>4. Abs!FifoNext(Held, r, Abs!Accepted(w, r)) = Abs!FifoPush(popped, Abs!Accepted(w, r))
      BY <3>1
    <3>5. CASE Wexec(w, r)
      <4>1. Abs!Accepted(w, r) = w /\ w # {}
        BY <3>2, <3>3, <3>5
      <4>2. Abs!FifoPush(popped, w) = Append(popped, CHOOSE x \in w : TRUE)
        BY <4>1
      <4> QED
        BY <1>4, <3>4, <3>5, <4>1, <4>2
    <3>6. CASE ~Wexec(w, r)
      <4>1. Abs!Accepted(w, r) = {}
        BY <3>2, <3>6
      <4>2. Abs!FifoPush(popped, {}) = popped
        OBVIOUS
      <4> QED
        BY <1>4, <3>4, <3>6, <4>1, <4>2
    <3> QED
      BY <3>5, <3>6
  <2>3. (IF r /\ Rok(w) THEN Rdata(w) ELSE {}) = Abs!FifoOut(Held, r)
    BY <1>2, <1>3, <1>7 DEF Rok, Rdata
  <2> QED
    BY <1>5, <1>7, <2>1, <2>2, <2>3
<1>8. CASE Feedthrough
  <2>1. Abs!Accepted(w, r) = IF Wok(r) THEN w ELSE {}
    BY <1>2, <1>8 DEF Wok
  <2>2. CASE w = {} \/ ~Wok(r)
    <3>1. ~Wexec(w, r) /\ Abs!Accepted(w, r) = {}
      BY <1>2, <1>8, <2>1, <2>2 DEF Wexec, Wok
    <3>2. Held' = Abs!FifoPop(Held, r)
      BY <1>2, <1>4, <3>1 DEF Rexec
    <3>3. (IF r /\ Rok(w) THEN Rdata(w) ELSE {}) = Abs!FifoOut(Held, r)
      BY <1>2, <1>3, <1>8, <2>2 DEF Rok, Rdata, Wok
    <3> QED
      BY <1>5, <1>8, <2>1, <3>1, <3>2, <3>3
  <2>3. ASSUME NEW x \in Item, w = {x}, Wok(r)
        PROVE  Abs!Cycle(w, r)
    <3>1. Abs!Accepted(w, r) = {x} /\ (CHOOSE y \in w : TRUE) = x
      BY <2>1, <2>3
    <3>2. Abs!FifoPush(Held, Abs!Accepted(w, r)) = Append(Held, x)
      BY <3>1
    <3>3. Append(Held, x) # <<>>
      BY <1>1, AppendProperties, EmptySeq
    <3>4. CASE Empty
      <4>1. Held = <<>>
        BY <1>2, <3>4
      <4>2. Tail(Append(Held, x)) = <<>> /\ Head(Append(Held, x)) = x
        BY <4>1
      <4>3. CASE r
        <5>1. Held' = <<>>
          BY <1>2, <1>4, <1>8, <3>4, <4>1, <4>3 DEF Wexec, Rexec
        <5>2. (IF r /\ Rok(w) THEN Rdata(w) ELSE {}) = {x}
          BY <1>8, <2>3, <3>4, <4>3 DEF Rok, Rdata
        <5> QED
          BY <1>5, <1>8, <2>1, <3>1, <3>2, <3>3, <4>2, <4>3, <5>1, <5>2
      <4>4. CASE ~r
        <5>1. Held' = Append(Held, x)
          BY <1>4, <1>8, <2>3, <3>1, <3>4, <4>4 DEF Wexec, Rexec
        <5> QED
          BY <1>5, <1>8, <2>1, <3>2, <4>4, <5>1
      <4> QED
        BY <4>3, <4>4
    <3>5. CASE ~Empty
      <4>1. Held # <<>> /\ Wexec(w, r)
        BY <1>2, <1>8, <2>3, <3>5 DEF Wexec, Wok
      <4>2. CASE r
        <5>1. Held' = Append(Tail(Held), x)
          BY <1>4, <3>1, <3>5, <4>1, <4>2 DEF Rexec
        <5>2. Tail(Append(Held, x)) = Append(Tail(Held), x) /\ Head(Append(Held, x)) = Head(Held)
          BY <1>1, <4>1, PopPush
        <5>3. (IF r /\ Rok(w) THEN Rdata(w) ELSE {}) = {Head(Held)}
          BY <1>3, <3>5, <4>2 DEF Rok, Rdata
        <5>4. Abs!FifoPop(Append(Held, x), r) = Held' /\ Abs!FifoOut(Append(Held, x), r) = {Head(Held)}
          BY <3>3, <4>2, <5>1, <5>2
        <5>5. out' = [accepted |-> Abs!Accepted(w, r), taken |-> {Head(Held)}]
          BY <1>5, <2>1, <5>3
        <5> HIDE DEF Abs!FifoPop, Abs!FifoOut, Abs!FifoPush, Abs!Accepted
        <5> QED
          BY ONLY <1>8, <3>2, <5>4, <5>5 DEF Abs!Cycle
      <4>3. CASE ~r
        <5>1. Held' = Append(Held, x)
          BY <1>4, <3>1, <4>1, <4>3 DEF Rexec
        <5> QED
          BY <1>5, <1>8, <2>1, <3>2, <4>3, <5>1
      <4> QED
        BY <4>2, <4>3
    <3> QED
      BY <3>4, <3>5
  <2> QED
    BY <1>6, <2>2, <2>3
<1> QED
  BY <1>7, <1>8, FeedthroughAssumption

\* The reset state: ordered pointers, and no item.
LEMMA InitPointers ==
  ASSUME Init
  PROVE  PointersOrdered /\ Count = 0
<1>1. crossover \in BOOLEAN /\ ~crossover
  BY DEF Init
<1>2. fifoMem \in [Addr -> Item] /\ rptr = 0 /\ wptr = 0 /\ 0 \in Addr
  BY DepthAssumption DEF Init, Addr
<1> QED
  BY <1>1, <1>2 DEF PointersOrdered, Count

\* The crossover bit of hpdcache_fifo_reg always orders the pointers.
THEOREM Pointers == Spec => []PointersOrdered
<1>1. Init => PointersOrdered
  BY InitPointers
<1>2. PointersOrdered /\ [Next]_vars => PointersOrdered'
  <2> SUFFICES ASSUME PointersOrdered, [Next]_vars PROVE PointersOrdered'
    OBVIOUS
  <2>1. CASE Next
    BY <2>1, CyclePointers DEF Next
  <2>2. CASE UNCHANGED vars
    BY <2>2 DEF vars, PointersOrdered
  <2> QED
    BY <2>1, <2>2
<1> QED
  BY <1>1, <1>2, PTL DEF Spec

(* hpdcache_fifo_reg implements the bounded FIFO at its ports, for every   *)
(* depth greater than one and both settings of FEEDTHROUGH.                *)
THEOREM Refinement == Spec => ImplementsFifo
<1>1. Init => Abs!Init
  <2> SUFFICES ASSUME Init PROVE Abs!Init
    OBVIOUS
  <2>1. PointersOrdered /\ Count = 0
    BY InitPointers
  <2>2. Held = <<>>
    BY <2>1, HeldFacts, EmptySeq
  <2> QED
    BY <2>2 DEF Init, Abs!Init
<1>2. PointersOrdered /\ PointersOrdered' /\ [Next]_vars => [Abs!Next]_<<Held, out>>
  <2> SUFFICES ASSUME PointersOrdered, PointersOrdered', [Next]_vars
               PROVE  [Abs!Next]_<<Held, out>>
    OBVIOUS
  <2>1. CASE Next
    <3>1. PICK w \in Offers, r \in BOOLEAN : Cycle(w, r)
      BY <2>1 DEF Next
    <3>2. Abs!Cycle(w, r)
      BY <3>1, CycleRefines
    <3>3. w \in Abs!Offers
      BY DEF Offers, Abs!Offers
    <3> QED
      BY <3>2, <3>3 DEF Abs!Next
  <2>2. CASE UNCHANGED vars
    BY <2>2 DEF vars, Held, Count, Slot
  <2> QED
    BY <2>1, <2>2
<1> QED
  BY <1>1, <1>2, Pointers, PTL DEF Spec, ImplementsFifo, Abs!Spec
=============================================================================
