----------------------------- MODULE BlockProofs -----------------------------
(***************************************************************************)
(* Four building blocks: the one-entry buffer implements the bounded FIFO  *)
(* of depth one; the fault injection of the test bench flips the bits of   *)
(* the mask at their place in the RAM and no other bit, for every geometry *)
(* whose words have at least one chunk with their parity bits; the         *)
(* directory model of the test bench finds victims and invalidates lines,  *)
(* for any number of ways and sets and any lines; and the scoreboard and   *)
(* the memory compute the same atomics, for any width of the words.        *)
(***************************************************************************)
EXTENDS SyncBuffer, DataCases, CacheDirectory, ArbiterTheorems, SequenceTheorems, WellFoundedInduction

----------------------------------------------------------------------------
(* The one-entry buffer                                                    *)

\* The valid bit is a bit, and what is buffered is an item.
BufferType == valid \in BOOLEAN /\ buf \in Item

\* The item that is offered.
LEMMA OfferedItem ==
  ASSUME NEW w \in Offers, w # {}
  PROVE  \E x \in Item : w = {x} /\ (CHOOSE y \in w : TRUE) = x
  BY DEF Offers

\* A cycle keeps the types.
LEMMA CycleBuffer ==
  ASSUME BufferType, NEW w \in Offers, NEW r \in BOOLEAN, Cycle(w, r)
  PROVE  BufferType'
<1>1. valid' \in BOOLEAN
  BY DEF BufferType, Cycle, BufWe
<1>2. BufWe(w, r) => (CHOOSE x \in w : TRUE) \in Item
  BY OfferedItem DEF BufWe
<1>3. buf' \in Item
  BY <1>2 DEF BufferType, Cycle
<1> QED
  BY <1>1, <1>3 DEF BufferType

(* What is buffered is always an item, with the buffer not reset.          *)
THEOREM BufferTyped == Spec => []BufferType
<1>1. Init => BufferType
  BY DEF Init, BufferType
<1>2. BufferType /\ [Next]_vars => BufferType'
  <2>1. ASSUME BufferType, Next PROVE BufferType'
    BY <2>1, CycleBuffer DEF Next
  <2>2. ASSUME BufferType, UNCHANGED vars PROVE BufferType'
    BY <2>2 DEF vars, BufferType
  <2> QED
    BY <2>1, <2>2
<1> QED
  BY <1>1, <1>2, PTL DEF Spec

\* What the buffer holds, as the sequence of the abstract FIFO.
HeldItem == IF valid THEN <<buf>> ELSE <<>>

\* The sequences of at most two items that occur in a cycle.
LEMMA ShortSeqs ==
  ASSUME NEW S, NEW x \in S, NEW y \in S
  PROVE  /\ Len(<<>>) = 0
         /\ Append(<<>>, x) = <<x>> /\ <<x>> # <<>> /\ Len(<<x>>) = 1
         /\ Head(<<x>>) = x /\ Tail(<<x>>) = <<>>
         /\ Append(<<x>>, y) # <<>> /\ Head(Append(<<x>>, y)) = x /\ Tail(Append(<<x>>, y)) = <<y>>
<1>1. <<x>> \in Seq(S) /\ <<x>> # <<>> /\ Len(<<x>>) = 1 /\ <<x>>[1] = x
  OBVIOUS
<1>2. Len(<<>>) = 0 /\ Append(<<>>, x) = <<x>>
  OBVIOUS
<1>3. Head(<<x>>) = x
  OBVIOUS
<1>4. Tail(<<x>>) = <<>>
  BY <1>1, HeadTailProperties, EmptySeq
<1> DEFINE q == Append(<<x>>, y)
<1>5. q \in Seq(S) /\ q # <<>> /\ Len(q) = 2 /\ q[1] = x /\ q[2] = y
  BY <1>1, AppendProperties
<1> HIDE DEF q
<1>6. Head(q) = x
  BY <1>5
<1>7. Tail(q) = <<y>>
  <2>1. Tail(q) \in Seq(S) /\ Len(Tail(q)) = 1 /\ Tail(q)[1] = y
    BY <1>5, HeadTailProperties
  <2>2. <<y>> \in Seq(S) /\ Len(<<y>>) = 1 /\ <<y>>[1] = y
    OBVIOUS
  <2>3. \A i \in 1 .. 1 : Tail(q)[i] = <<y>>[i]
    BY <2>1, <2>2
  <2> QED
    BY <2>1, <2>2, <2>3, SeqEqual
<1> QED
  BY <1>1, <1>2, <1>3, <1>4, <1>5, <1>6, <1>7 DEF q

\* Each cycle of the buffer is a cycle of the abstract FIFO.
LEMMA CycleIsFifo ==
  ASSUME Feedthrough \in BOOLEAN, BufferType, NEW w \in Offers, NEW r \in BOOLEAN, Cycle(w, r)
  PROVE  Abs!Cycle(w, r)
<1> USE DEF Abs!Cycle, Abs!Accepted, Abs!FifoPop, Abs!FifoPush, Abs!FifoOut, Abs!FifoNext
<1>1. valid \in BOOLEAN /\ buf \in Item
  BY DEF BufferType
<1>2. CASE w = {}
  BY <1>1, <1>2, ShortSeqs DEF Cycle, BufWe, Wok, Rok, Rdata
<1>3. CASE w # {}
  <2>1. PICK x \in Item : w = {x} /\ (CHOOSE y \in w : TRUE) = x
    BY <1>3, OfferedItem
  <2>2. Len(<<>>) = 0 /\ Append(<<>>, x) = <<x>> /\ <<x>> # <<>> /\ Head(<<x>>) = x /\ Tail(<<x>>) = <<>>
    BY ShortSeqs
  <2>3. /\ Len(<<buf>>) = 1 /\ <<buf>> # <<>> /\ Head(<<buf>>) = buf /\ Tail(<<buf>>) = <<>>
        /\ Append(<<buf>>, x) # <<>> /\ Head(Append(<<buf>>, x)) = buf /\ Tail(Append(<<buf>>, x)) = <<x>>
    BY <1>1, ShortSeqs
  <2>4. CASE valid
    <3>1. CASE Feedthrough /\ r
      <4>1. valid' /\ buf' = x /\ out' = [accepted |-> {x}, taken |-> {buf}]
        BY <1>1, <2>1, <2>4, <3>1 DEF Cycle, BufWe, Wok, Rok, Rdata
      <4> QED
        BY <2>1, <2>3, <2>4, <3>1, <4>1
    <3>2. CASE ~Feedthrough /\ r
      <4>1. ~valid' /\ out' = [accepted |-> {}, taken |-> {buf}]
        BY <1>1, <2>1, <2>4, <3>2 DEF Cycle, BufWe, Wok, Rok, Rdata
      <4> QED
        BY <2>1, <2>3, <2>4, <3>2, <4>1
    <3>3. CASE ~r
      <4>1. valid' /\ buf' = buf /\ out' = [accepted |-> {}, taken |-> {}]
        BY <1>1, <2>1, <2>4, <3>3 DEF Cycle, BufWe, Wok, Rok, Rdata
      <4> QED
        BY <2>1, <2>3, <2>4, <3>3, <4>1
    <3> QED
      BY <3>1, <3>2, <3>3
  <2>5. CASE ~valid
    <3>1. CASE Feedthrough /\ r
      <4>1. ~valid' /\ out' = [accepted |-> {x}, taken |-> {x}]
        BY <1>1, <2>1, <2>5, <3>1 DEF Cycle, BufWe, Wok, Rok, Rdata
      <4> QED
        BY <2>1, <2>2, <2>5, <3>1, <4>1
    <3>2. CASE ~Feedthrough
      <4>1. valid' /\ buf' = x /\ out' = [accepted |-> {x}, taken |-> {}]
        BY <1>1, <2>1, <2>5, <3>2 DEF Cycle, BufWe, Wok, Rok, Rdata
      <4> QED
        BY <2>1, <2>2, <2>5, <3>2, <4>1
    <3>3. CASE Feedthrough /\ ~r
      <4>1. valid' /\ buf' = x /\ out' = [accepted |-> {x}, taken |-> {}]
        BY <1>1, <2>1, <2>5, <3>3 DEF Cycle, BufWe, Wok, Rok, Rdata
      <4> QED
        BY <2>1, <2>2, <2>5, <3>3, <4>1
    <3> QED
      BY <3>1, <3>2, <3>3
  <2> QED
    BY <2>4, <2>5
<1> QED
  BY <1>2, <1>3

(* The one-entry buffer, with and without feedthrough, implements the      *)
(* bounded FIFO of depth one: an item is neither overwritten before it is  *)
(* read nor handed over twice.                                             *)
THEOREM BufferIsFifo ==
  ASSUME Feedthrough \in BOOLEAN
  PROVE  Spec => ImplementsFifo
<1>1. Init => Abs!Init
  BY DEF Init, Abs!Init
<1>2. BufferType /\ [Next]_vars => [Abs!Next]_<<HeldItem, out>>
  <2> SUFFICES ASSUME BufferType, [Next]_vars
               PROVE  [Abs!Next]_<<HeldItem, out>>
    OBVIOUS
  <2>1. CASE Next
    <3>1. PICK w \in Offers, r \in BOOLEAN : Cycle(w, r)
      BY <2>1 DEF Next
    <3>2. Abs!Cycle(w, r)
      BY <3>1, CycleIsFifo
    <3>3. w \in Abs!Offers
      BY DEF Offers, Abs!Offers
    <3> QED
      BY <3>2, <3>3 DEF Abs!Next
  <2>2. CASE UNCHANGED vars
    BY <2>2 DEF vars, HeldItem
  <2> QED
    BY <2>1, <2>2
<1> QED
  BY <1>1, <1>2, BufferTyped, PTL DEF Spec, ImplementsFifo, Abs!Spec, HeldItem


----------------------------------------------------------------------------
(* The fault injection                                                     *)

\* Quotient and remainder of a division.
LEMMA DivMod ==
  ASSUME NEW a \in Nat, NEW n \in Nat \ {0}
  PROVE  /\ a \div n \in Nat /\ a % n \in 0 .. n - 1
         /\ a = n * (a \div n) + (a % n)
  OBVIOUS

\* They are the only ones.
LEMMA DivUnique ==
  ASSUME NEW n \in Nat \ {0}, NEW q \in Nat, NEW r \in 0 .. n - 1, NEW a \in Nat, a = n * q + r
  PROVE  a \div n = q /\ a % n = r
<1> DEFINE p == a \div n
           s == a % n
<1>1. p \in Nat /\ s \in 0 .. n - 1 /\ a = n * p + s
  BY DivMod
<1> HIDE DEF p, s
<1>2. ASSUME NEW u \in Nat, NEW v \in Nat, u < v
      PROVE  n * u + n <= n * v
  <2>1. PICK k \in Nat : v = u + 1 + k
    <3>1. v - u - 1 \in Nat /\ v = u + 1 + (v - u - 1)
      BY <1>2
    <3> QED
      BY <3>1
  <2>2. n * v = n * u + n + n * k /\ n * k \in Nat /\ n * u \in Nat
    BY <2>1
  <2> QED
    BY <2>2
<1>3. n * p \in Nat /\ n * q \in Nat
  BY <1>1
<1>4. ~(p < q)
  BY <1>1, <1>2, <1>3
<1>5. ~(q < p)
  BY <1>1, <1>2, <1>3
<1>6. p = q /\ s = r
  BY <1>1, <1>4, <1>5
<1> QED
  BY <1>6 DEF p, s

\* A geometry whose words, with their parity bits, fill a chunk at least: all
\* those with words of 32 bits or more.  A line is a whole number of accesses.
WideGeometry(g) ==
  /\ g.wordWidth \in Nat /\ WordBitsOf(g) >= ChunkBits
  /\ g.waysPerRamWord \in Nat \ {0} /\ g.accessWords \in Nat \ {0} /\ g.tagWidth \in Nat
  /\ \E k \in Nat : g.clWords = g.accessWords * k

\* A place and a mask.
Fault(f) == f.set \in Nat /\ f.way \in Nat /\ f.word \in Nat /\ f.mask \in SUBSET Nat

\* The bits of a mask that a chunk gets.
LEMMA ChunkGets ==
  ASSUME NEW mask \in SUBSET Nat, NEW lo \in Nat, NEW hi \in Nat, NEW to \in Nat,
         NEW i \in 0 .. 31
  PROVE  i \in Range32(mask, lo, hi, to) <=> i - to + lo \in mask /\ to <= i /\ i - to + lo < hi
<1>1. ASSUME i \in Range32(mask, lo, hi, to)
      PROVE  i - to + lo \in mask /\ to <= i /\ i - to + lo < hi
  <2>1. PICK j \in mask : lo <= j /\ j < hi /\ i = j - lo + to
    BY <1>1 DEF Range32
  <2>2. j \in Nat /\ i - to + lo = j
    BY <2>1
  <2> QED
    BY <2>1, <2>2
<1>2. ASSUME i - to + lo \in mask, to <= i, i - to + lo < hi
      PROVE  i \in Range32(mask, lo, hi, to)
  <2> DEFINE j == i - to + lo
  <2>1. j \in mask /\ lo <= j /\ j < hi /\ i = j - lo + to /\ i \in 0 .. ChunkBits - 1
    BY <1>2 DEF ChunkBits
  <2> HIDE DEF j
  <2> QED
    BY <2>1 DEF Range32
<1> QED
  BY <1>1, <1>2


\* The four cases of a chunk.
LEMMA ChunkCases ==
  ASSUME NEW c, NEW b \in Nat, NEW first \in Nat, NEW middle \in Nat, NEW x, NEW y, NEW z,
         c = CASE b = first -> x [] b > first /\ b <= first + middle -> y
               [] b = first + middle + 1 -> z [] OTHER -> {}
  PROVE  /\ b = first => c = x
         /\ b > first /\ b <= first + middle => c = y
         /\ b = first + middle + 1 => c = z
         /\ b < first \/ b > first + middle + 1 => c = {}
  OBVIOUS

\* Bit i of chunk b is set exactly if the bit of the mask that belongs there is.
LEMMA DatChunkBits ==
  ASSUME NEW g, WideGeometry(g), NEW way \in Nat, NEW mask \in SUBSET Nat,
         NEW base \in Nat, base = (way % g.waysPerRamWord) * WordBitsOf(g),
         NEW b \in DOMAIN DatChunks(g, way, mask), NEW i \in 0 .. 31,
         NEW j \in Int, j = 32 * b + i - base
  PROVE  i \in DatChunks(g, way, mask)[b] <=> j \in mask /\ j >= 0 /\ j < WordBitsOf(g)
<1> DEFINE w      == WordBitsOf(g)
           o      == base % 32
           first  == base \div 32
           head   == HeadBits(g, way)
           rem    == w - head
           middle == rem \div 32
           rest   == rem % 32
           lo     == head + 32 * (b - first - 1)
           c      == DatChunks(g, way, mask)[b]
<1>1. w \in Nat /\ w >= 32
  BY DEF WideGeometry, WordBitsOf, getParBits, ChunkBits
<1>2. \A x \in Nat : x \div 32 \in Nat /\ x % 32 \in 0 .. 31 /\ x = 32 * (x \div 32) + (x % 32)
  OBVIOUS
<1>3. first \in Nat /\ o \in 0 .. 31 /\ base = 32 * first + o
  BY <1>2, Zenon
<1>4. head = 32 - o
  BY <1>1 DEF HeadBits, ChunkBits
<1>5. b \in Nat
  BY DEF DatChunks
<1>6. c = CASE b = first -> Range32(mask, 0, head, o)
            [] b > first /\ b <= first + middle -> Range32(mask, lo, lo + 32, 0)
            [] b = first + middle + 1 -> Range32(mask, lo, w, 0)
            [] OTHER -> {}
  BY DEF DatChunks, ChunkBits
<1>7. /\ rem = w - head /\ lo = head + 32 * (b - first - 1)
      /\ i \in 0 .. 31 /\ j \in Int /\ j = 32 * b + i - base /\ base \in Nat
  OBVIOUS
<1> HIDE DEF w, o, first, head, c, rem, lo
<1>8. rem \in Nat /\ head \in Nat
  BY ONLY <1>1, <1>3, <1>4, <1>7
<1>9. middle \in Nat /\ rest \in 0 .. 31 /\ rem = 32 * middle + rest
  BY <1>2, <1>8, Zenon
<1> HIDE DEF middle, rest
<1>10. /\ b = first => j = i - o /\ (j < w) /\ (o <= i <=> j >= 0) /\ (j < head)
       /\ b > first => lo \in Nat /\ j = i + lo /\ j >= 0
       /\ b > first /\ b <= first + middle => lo + 32 <= w
       /\ b > first + middle + 1 => ~(j < w)
       /\ b < first => ~(j >= 0)
  BY ONLY <1>1, <1>3, <1>4, <1>5, <1>7, <1>8, <1>9
<1>11. /\ b = first => c = Range32(mask, 0, head, o)
       /\ b > first /\ b <= first + middle => c = Range32(mask, lo, lo + 32, 0)
       /\ b = first + middle + 1 => c = Range32(mask, lo, w, 0)
       /\ b < first \/ b > first + middle + 1 => c = {}
  BY ONLY <1>3, <1>5, <1>6, <1>9, ChunkCases
<1>12. \A l, h, t \in Nat :
         i \in Range32(mask, l, h, t) <=> i - t + l \in mask /\ t <= i /\ i - t + l < h
  BY ChunkGets
<1>13. CASE b = first
  <2>1. c = Range32(mask, 0, head, o) /\ j = i - o + 0 /\ (j < w) /\ (o <= i <=> j >= 0) /\ (j < head)
    BY ONLY <1>3, <1>7, <1>10, <1>11, <1>13
  <2>2. i \in Range32(mask, 0, head, o) <=> i - o + 0 \in mask /\ o <= i /\ i - o + 0 < head
    BY ONLY <1>3, <1>8, <1>12
  <2> QED
    BY ONLY <2>1, <2>2 DEF w, c
<1>14. CASE b > first /\ b <= first + middle
  <2>1. c = Range32(mask, lo, lo + 32, 0) /\ lo \in Nat /\ lo + 32 \in Nat /\ lo + 32 <= w /\ j = i + lo /\ j >= 0
    BY ONLY <1>10, <1>11, <1>14
  <2>2. i \in Range32(mask, lo, lo + 32, 0) <=> i - 0 + lo \in mask /\ 0 <= i /\ i - 0 + lo < lo + 32
    BY ONLY <1>12, <2>1
  <2>3. i - 0 + lo = j /\ i - 0 + lo < lo + 32 /\ 0 <= i /\ j < w
    BY ONLY <1>1, <1>7, <2>1
  <2> QED
    BY ONLY <2>1, <2>2, <2>3 DEF w, c
<1>15. CASE b = first + middle + 1
  <2>1. c = Range32(mask, lo, w, 0) /\ lo \in Nat /\ j = i + lo /\ j >= 0
    BY ONLY <1>3, <1>5, <1>9, <1>10, <1>11, <1>15
  <2>2. i \in Range32(mask, lo, w, 0) <=> i - 0 + lo \in mask /\ 0 <= i /\ i - 0 + lo < w
    BY ONLY <1>1, <1>12, <2>1
  <2>3. i - 0 + lo = j /\ 0 <= i
    BY ONLY <1>7, <2>1
  <2> QED
    BY ONLY <2>1, <2>2, <2>3 DEF w, c
<1>16. CASE b < first \/ b > first + middle + 1
  <2>1. c = {} /\ (~(j >= 0) \/ ~(j < w))
    BY ONLY <1>10, <1>11, <1>16
  <2> QED
    BY ONLY <2>1 DEF w, c
<1> QED
  BY ONLY <1>3, <1>5, <1>9, <1>13, <1>14, <1>15, <1>16


\* The bits that a row of chunks flips.
LEMMA FlippedAt ==
  ASSUME NEW chunks, NEW m \in Nat, DOMAIN chunks = 0 .. m, NEW x
  PROVE  x \in FlippedBits(chunks)
           <=> x \in Nat /\ x \div 32 <= m /\ (x % 32) \in chunks[x \div 32]
<1>1. \A y \in Nat : y \div 32 \in Nat /\ y % 32 \in 0 .. 31 /\ y = 32 * (y \div 32) + (y % 32)
  OBVIOUS
<1>2. ASSUME NEW b \in 0 .. m, NEW i \in 0 .. 31, x = 32 * b + i
      PROVE  x \in Nat /\ x \div 32 = b
  BY <1>2
<1>3. ASSUME x \in FlippedBits(chunks)
      PROVE  x \in Nat /\ x \div 32 <= m /\ (x % 32) \in chunks[x \div 32]
  <2>0. x \in RamBits(chunks)
    BY <1>3, Zenon DEF FlippedBits
  <2>1. PICK b \in 0 .. m, i \in 0 .. 31 : x = 32 * b + i
    BY <2>0 DEF RamBits, ChunkBits
  <2>2. (x % 32) \in chunks[x \div 32]
    BY <1>3 DEF FlippedBits, ChunkBits
  <2>3. x \in Nat /\ x \div 32 = b
    BY <1>2, <2>1
  <2> QED
    BY <2>1, <2>2, <2>3
<1>4. ASSUME x \in Nat, x \div 32 <= m, (x % 32) \in chunks[x \div 32]
      PROVE  x \in FlippedBits(chunks)
  <2> DEFINE b == x \div 32
             i == x % 32
  <2>1. b \in Nat /\ i \in 0 .. 31 /\ x = 32 * b + i
    BY <1>1, <1>4, Zenon
  <2>2. b <= m /\ i \in chunks[b]
    BY <1>4
  <2>3. b = x \div ChunkBits /\ i = x % ChunkBits
    BY DEF ChunkBits
  <2> HIDE DEF b, i
  <2>4. b \in DOMAIN chunks
    BY <2>1, <2>2
  <2>5. x \in RamBits(chunks)
    BY <2>1, <2>4 DEF RamBits, ChunkBits
  <2>6. (x % ChunkBits) \in chunks[x \div ChunkBits]
    BY <2>2, <2>3
  <2> QED
    BY <2>5, <2>6, Zenon DEF FlippedBits
<1> QED
  BY <1>3, <1>4

\* A word lies inside the RAM word.
LEMMA WordInside ==
  ASSUME NEW k \in Nat, NEW n \in Nat, k < n, NEW w \in Nat
  PROVE  k * w \in Nat /\ w * n \in Nat /\ k * w + w <= w * n
<1>1. PICK d \in Nat : n = k + 1 + d
  <2>1. n - k - 1 \in Nat /\ n = k + 1 + (n - k - 1)
    OBVIOUS
  <2> QED
    BY <2>1
<1>2. w * n = k * w + w + w * d
  BY <1>1
<1>3. k * w \in Nat /\ w * d \in Nat
  OBVIOUS
<1> QED
  BY <1>2, <1>3

\* A fault of a data word flips the bits of the mask, moved to the word's
\* place, and no other.
LEMMA DatBits ==
  ASSUME NEW g, WideGeometry(g), NEW way \in Nat, NEW mask \in SUBSET Nat,
         NEW base, base = (way % g.waysPerRamWord) * WordBitsOf(g)
  PROVE  FlippedBits(DatChunks(g, way, mask)) = {base + i : i \in {i \in mask : i < WordBitsOf(g)}}
<1> DEFINE w  == WordBitsOf(g)
           n  == g.waysPerRamWord
           k  == way % n
           cs == DatChunks(g, way, mask)
           sz == w * n - 1
           m  == sz \div 32
<1>1. w \in Nat /\ w >= 32 /\ n \in Nat \ {0}
  BY DEF WideGeometry, WordBitsOf, getParBits, ChunkBits
<1>2. DOMAIN cs = 0 .. m
  BY DEF DatChunks, ChunkBits
<1>3. base = k * w
  OBVIOUS
<1> HIDE DEF w, n, cs
<1>4. k \in Nat /\ k < n
  BY <1>1, DivMod
<1> HIDE DEF k
<1>5. k * w \in Nat /\ w * n \in Nat /\ k * w + w <= w * n
  BY <1>1, <1>4, WordInside
<1>6. sz \in Nat /\ base \in Nat /\ base + w <= sz + 1
  BY <1>1, <1>3, <1>5
<1> HIDE DEF sz
<1>7. \A y \in Nat : y \div 32 \in Nat /\ y % 32 \in 0 .. 31 /\ y = 32 * (y \div 32) + (y % 32)
  OBVIOUS
<1>8. m \in Nat
  BY <1>6, <1>7
<1>9. \A y \in Nat : y <= sz => y \div 32 <= m
  BY ONLY <1>6
<1> HIDE DEF m
<1>10. ASSUME NEW x \in Nat, x \div 32 <= m
       PROVE  (x % 32) \in cs[x \div 32] <=> x - base \in mask /\ x - base >= 0 /\ x - base < w
  <2> DEFINE b == x \div 32
             i == x % 32
             j == x - base
  <2>1. b \in Nat /\ i \in 0 .. 31 /\ x = 32 * b + i /\ b <= m
    BY <1>7, <1>10, Zenon
  <2> HIDE DEF b, i
  <2>2. j \in Int /\ j = 32 * b + i - base
    BY <1>6, <2>1
  <2> HIDE DEF j
  <2>3. b \in DOMAIN cs
    BY <1>2, <1>8, <2>1
  <2>4. i \in cs[b] <=> j \in mask /\ j >= 0 /\ j < w
    BY <1>6, <2>1, <2>2, <2>3, DatChunkBits DEF cs, w
  <2> QED
    BY <2>4 DEF b, i, j
<1>11. \A x : x \in FlippedBits(cs) <=> x \in Nat /\ x \div 32 <= m /\ (x % 32) \in cs[x \div 32]
  BY <1>2, <1>8, FlippedAt
<1>12. ASSUME NEW x \in FlippedBits(cs)
       PROVE  x \in {base + i : i \in {i \in mask : i < w}}
  <2>1. x \in Nat /\ x - base \in mask /\ x - base < w
    BY <1>10, <1>11
  <2>2. x = base + (x - base)
    BY <1>6, <2>1
  <2> QED
    BY <2>1, <2>2
<1>13. ASSUME NEW i \in mask, i < w
       PROVE  base + i \in FlippedBits(cs)
  <2> DEFINE x == base + i
  <2>1. x \in Nat /\ x <= sz /\ x - base = i /\ i >= 0
    BY <1>1, <1>6, <1>13
  <2> HIDE DEF x
  <2>2. x \div 32 <= m
    BY <1>9, <2>1
  <2>3. (x % 32) \in cs[x \div 32]
    BY <1>10, <1>13, <2>1, <2>2
  <2> QED
    BY <1>11, <2>1, <2>2, <2>3 DEF x
<1>14. FlippedBits(cs) = {base + i : i \in {i \in mask : i < w}}
  BY <1>12, <1>13
<1> QED
  BY <1>14 DEF cs, w


\* A fault of a directory entry flips the bits of the mask that the entry has.
LEMMA DirBits ==
  ASSUME NEW g, WideGeometry(g), NEW mask \in SUBSET Nat
  PROVE  FlippedBits(DirChunks(g, mask)) = {i \in mask : i < DirBitsOf(g)}
<1> DEFINE w  == DirBitsOf(g)
           cs == DirChunks(g, mask)
           sz == w - 1
           m  == sz \div 32
           hi(b) == IF 32 * (b + 1) > w THEN w ELSE 32 * (b + 1)
<1>1. w \in Nat /\ w >= 1
  BY DEF WideGeometry, DirBitsOf, getParBits
<1>2. cs = [b \in 0 .. m |-> Range32(mask, 32 * b, hi(b), 0)]
  BY DEF DirChunks, ChunkBits
<1> HIDE DEF w, cs
<1>3. sz \in Nat /\ w = sz + 1
  BY <1>1
<1> HIDE DEF sz
<1>4. m \in Nat
  BY <1>3
<1>5. \A y \in Nat : y <= sz <=> y < w
  BY <1>3
<1>6. \A y \in Nat : y <= sz => y \div 32 <= m
  BY ONLY <1>3
<1> HIDE DEF m
<1>7. DOMAIN cs = 0 .. m
  BY <1>2
<1>8. \A x : x \in FlippedBits(cs) <=> x \in Nat /\ x \div 32 <= m /\ (x % 32) \in cs[x \div 32]
  BY <1>4, <1>7, FlippedAt
<1>9. \A y \in Nat : y \div 32 \in Nat /\ y % 32 \in 0 .. 31 /\ y = 32 * (y \div 32) + (y % 32)
  OBVIOUS
<1>10. ASSUME NEW x \in Nat, x \div 32 <= m
       PROVE  (x % 32) \in cs[x \div 32] <=> x \in mask /\ x < w
  <2> DEFINE b == x \div 32
             i == x % 32
             h == hi(b)
  <2>1. b \in Nat /\ i \in 0 .. 31 /\ x = 32 * b + i /\ b <= m
    BY <1>9, <1>10, Zenon
  <2> HIDE DEF b, i
  <2>2. b \in 0 .. m
    BY <1>4, <2>1
  <2>3. cs[b] = Range32(mask, 32 * b, h, 0)
    BY <1>2, <2>2
  <2>4. h \in Nat /\ (x < h <=> x < w) /\ 32 * b \in Nat /\ i - 0 + 32 * b = x
    BY ONLY <1>1, <2>1 DEF hi
  <2> HIDE DEF h
  <2>5. \A l, u, t \in Nat :
          i \in Range32(mask, l, u, t) <=> i - t + l \in mask /\ t <= i /\ i - t + l < u
    BY <2>1, ChunkGets
  <2>6. i \in Range32(mask, 32 * b, h, 0) <=> i - 0 + 32 * b \in mask /\ 0 <= i /\ i - 0 + 32 * b < h
    BY ONLY <2>4, <2>5
  <2>7. i \in cs[b] <=> x \in mask /\ x < w
    BY ONLY <2>1, <2>3, <2>4, <2>6
  <2> QED
    BY <2>7 DEF b, i
<1>11. \A x : x \in FlippedBits(cs) <=> x \in mask /\ x < w
  <2>1. ASSUME NEW x, x \in FlippedBits(cs) PROVE x \in mask /\ x < w
    BY <1>8, <1>10, <2>1
  <2>2. ASSUME NEW x, x \in mask, x < w PROVE x \in FlippedBits(cs)
    <3>1. x \in Nat /\ x \div 32 <= m
      BY <1>5, <1>6, <2>2
    <3> QED
      BY <1>8, <1>10, <2>2, <3>1
  <2> QED
    BY <2>1, <2>2
<1>12. FlippedBits(cs) = {i \in mask : i < w}
  BY <1>11
<1> QED
  BY <1>12 DEF cs, w

(* The faults that the test bench injects, for every mask: in the data     *)
(* they flip the bits of the mask at the place of the way in the RAM word, *)
(* however the word straddles the chunks of the simulator's interface, in  *)
(* the RAM and at the index of the word; in the directory the bits that an *)
(* entry has; and no other bit.                                            *)
THEOREM FaultsPlaced ==
  ASSUME NEW g, WideGeometry(g), NEW f, Fault(f)
  PROVE  Placed(g, f)
<1> DEFINE n == g.waysPerRamWord
           a == g.accessWords
           base == (f.way % n) * WordBitsOf(g)
<1>1. /\ f.set \in Nat /\ f.way \in Nat /\ f.word \in Nat /\ f.mask \in SUBSET Nat
      /\ n \in Nat \ {0} /\ a \in Nat \ {0}
  BY DEF Fault, WideGeometry
<1>2. FlippedBits(DatChunks(g, f.way, f.mask)) = {base + i : i \in {i \in f.mask : i < WordBitsOf(g)}}
  BY <1>1, DatBits
<1>3. FlippedBits(DirChunks(g, f.mask)) = {i \in f.mask : i < DirBitsOf(g)}
  BY <1>1, DirBits
<1> HIDE DEF n, a
<1>4. (f.way \div n) * n <= f.way /\ f.way < (f.way \div n + 1) * n
  <2> DEFINE q == f.way \div n
             r == f.way % n
  <2>1. q \in Nat /\ r \in 0 .. n - 1 /\ f.way = n * q + r
    BY <1>1, DivMod
  <2> HIDE DEF q, r
  <2>2. q * n = n * q /\ (q + 1) * n = n * q + n /\ n * q \in Nat
    BY <1>1, <2>1
  <2>3. q * n <= f.way /\ f.way < (q + 1) * n
    BY <1>1, <2>1, <2>2
  <2> QED
    BY <2>3 DEF q
<1>5. ((f.set * g.clWords + f.word) \div a) * a + (f.word % a) = f.set * g.clWords + f.word
  <2> DEFINE s == f.set
             d == f.word
             c == g.clWords
             q == d \div a
             r == d % a
             x == s * c + d
  <2>1. PICK k \in Nat : c = a * k
    BY DEF WideGeometry, a
  <2>2. s \in Nat /\ d \in Nat
    BY <1>1
  <2> HIDE DEF s, d, c
  <2>3. q \in Nat /\ r \in 0 .. a - 1 /\ d = a * q + r
    BY <1>1, <2>2, DivMod
  <2> HIDE DEF q, r
  <2>4. s * c = a * (s * k) /\ s * k \in Nat
    BY <1>1, <2>1, <2>2
  <2>5. a * (s * k + q) = a * (s * k) + a * q /\ s * k + q \in Nat
    BY <1>1, <2>3, <2>4
  <2>6. x \in Nat /\ x = a * (s * k + q) + r
    BY <1>1, <2>3, <2>4, <2>5
  <2> HIDE DEF x
  <2>7. x \div a = s * k + q
    BY <1>1, <2>3, <2>5, <2>6, DivUnique
  <2>8. (x \div a) * a + r = x
    BY <1>1, <2>3, <2>5, <2>6, <2>7
  <2> QED
    BY <2>8 DEF x, r, s, d, c
<1> QED
  BY <1>2, <1>3, <1>4, <1>5
  DEF Placed, injectDatFault, injectDirFault, getScope, getDatRow, getDatCol, n, a

----------------------------------------------------------------------------
(* The directory model of the test bench: repl() always finds a way, and   *)
(* an invalidation by address clears the way that holds the line.          *)
(*                                                                         *)
(* DirInvalTakes alone is not inductive for a line whose tag is also in an *)
(* invalid way.  What is inductive is TagsOrdered: a valid way has no way  *)
(* before it, valid or not, with the same tag.  It rests on the order of   *)
(* the scan of repl(), which takes the first invalid way, so that the ways *)
(* before the victim are valid and do not hit.                             *)

TagsOrdered ==
  \A s \in Set : \A w, v \in Way : val[s][w] /\ v < w => tag[s][v] # tag[s][w]

NotAllUsed == \A s \in Set : \E w \in Way : ~plru[s][w]

DirInv == DirTypeOK /\ TagsOrdered /\ NotAllUsed

\* The set index and the tag of a line are in range.
LEMMA LineFacts ==
  ASSUME NEW n \in Lines
  PROVE  getAddrSet(n) \in Set /\ getAddrTag(n) \in Nat
<1>1. n \in Nat /\ Sets \in Nat /\ Sets > 0
  BY LinesAssumption, SetsAssumption
<1>2. n % Sets \in 0 .. Sets - 1
  BY <1>1
<1>3. n \div Sets \in Nat
  BY <1>1
<1> QED
  BY <1>2, <1>3 DEF getAddrSet, getAddrTag, Set

\* A scan returns a way of the set, and no way of the set comes before it.
LEMMA FirstFacts ==
  ASSUME NEW W \in SUBSET Way, W # {}
  PROVE  First(W) \in W /\ \A v \in W : First(W) <= v
<1>1. W \in SUBSET Nat
  BY WaysAssumption DEF Way
<1>2. \E w \in W : \A v \in W : w <= v
  BY <1>1, LeastExists
<1> QED
  BY <1>2 DEF First

\* After a use of a way its set still has a way that is not recently used.
LEMMA ReplUpdateFacts ==
  ASSUME NEW bits \in [Way -> BOOLEAN], NEW way \in Way
  PROVE  /\ ReplUpdate(bits, way) \in [Way -> BOOLEAN]
         /\ \E w \in Way : ~ReplUpdate(bits, way)[w]
<1> DEFINE set == [bits EXCEPT ![way] = TRUE]
<1>1. set \in [Way -> BOOLEAN]
  OBVIOUS
<1>2. CASE \A w \in Way : set[w]
  <2>1. ReplUpdate(bits, way) = [w \in Way |-> w = way]
    BY <1>2 DEF ReplUpdate
  <2>2. PICK w \in Way : w # way
    <3>1. 0 \in Way /\ 1 \in Way /\ 0 # 1
      BY WaysAssumption DEF Way
    <3> QED BY <3>1
  <2>3. ~[x \in Way |-> x = way][w]
    BY <2>2
  <2> QED
    BY <2>1, <2>2, <2>3
<1>3. CASE ~\A w \in Way : set[w]
  BY <1>1, <1>3 DEF ReplUpdate
<1> QED
  BY <1>2, <1>3

\* Every set has a way that is not recently used, so repl() finds a victim.
LEMMA VictimFacts ==
  ASSUME DirTypeOK, NotAllUsed, NEW s \in Set
  PROVE  /\ Victim(s) \in Way
         /\ \A v \in Way : v < Victim(s) => val[s][v] \/ InvalidWays(s) = {}
<1>1. UnusedWays(s) # {} /\ UnusedWays(s) \in SUBSET Way
  BY DEF NotAllUsed, UnusedWays
<1>2. CASE InvalidWays(s) = {}
  <2>1. Victim(s) = First(UnusedWays(s))
    BY <1>2 DEF Victim
  <2> QED
    BY <1>1, <1>2, <2>1, FirstFacts
<1>3. CASE InvalidWays(s) # {}
  <2>1. Victim(s) = First(InvalidWays(s))
    BY <1>3 DEF Victim
  <2>2. InvalidWays(s) \in SUBSET Way
    BY DEF InvalidWays
  <2>3. Victim(s) \in InvalidWays(s) /\ \A v \in InvalidWays(s) : Victim(s) <= v
    BY <1>3, <2>1, <2>2, FirstFacts
  <2>4. ASSUME NEW v \in Way, v < Victim(s) PROVE val[s][v]
    <3>1. v \notin InvalidWays(s)
      <4>1. SUFFICES ASSUME v \in InvalidWays(s) PROVE FALSE
        OBVIOUS
      <4>2. Victim(s) <= v
        BY <2>3, <4>1
      <4>3. Victim(s) \in Int /\ v \in Int
        BY <2>2, <2>3 DEF Way
      <4> QED BY <2>4, <4>2, <4>3
    <3> QED BY <3>1 DEF InvalidWays
  <2> QED
    BY <2>2, <2>3, <2>4
<1> QED
  BY <1>2, <1>3

\* The directory model after reset satisfies the invariant.
LEMMA InitDirInv == DirReset => DirInv
<1> SUFFICES ASSUME DirReset PROVE DirInv
  OBVIOUS
<1>1. DirTypeOK
  BY DEF DirReset, DirTypeOK
<1>2. TagsOrdered
  BY DEF DirReset, TagsOrdered
<1>3. NotAllUsed
  <2>1. 0 \in Way
    BY WaysAssumption DEF Way
  <2> QED BY <2>1 DEF DirReset, NotAllUsed
<1> QED
  BY <1>1, <1>2, <1>3 DEF DirInv

\* A step that only clears valid bits preserves the invariant.
LEMMA ClearedDirInv ==
  ASSUME DirInv, val' \in [Set -> [Way -> BOOLEAN]], UNCHANGED <<tag, plru>>,
         \A s \in Set : \A w \in Way : val'[s][w] => val[s][w]
  PROVE  DirInv'
  BY DEF DirInv, DirTypeOK, TagsOrdered, NotAllUsed

\* access() only touches the recently-used bits of a set.
LEMMA AccessDirInv ==
  ASSUME DirInv, NEW n \in Lines, DirAccess(n)
  PROVE  DirInv'
<1> DEFINE s == getAddrSet(n)
           w == First(HitWays(n))
<1>1. s \in Set
  BY LineFacts
<1>2. HitWays(n) # {} /\ HitWays(n) \in SUBSET Way
  BY DEF DirAccess, Hit, HitWays
<1>3. w \in Way
  BY <1>2, FirstFacts
<1>4. plru' = [plru EXCEPT ![s] = ReplUpdate(plru[s], w)] /\ val' = val /\ tag' = tag
  BY DEF DirAccess
<1>5. plru[s] \in [Way -> BOOLEAN]
  BY <1>1 DEF DirInv, DirTypeOK
<1> HIDE DEF s, w
<1>6. ReplUpdate(plru[s], w) \in [Way -> BOOLEAN] /\ \E v \in Way : ~ReplUpdate(plru[s], w)[v]
  BY <1>3, <1>5, ReplUpdateFacts
<1> QED
  BY <1>1, <1>4, <1>6 DEF DirInv, DirTypeOK, TagsOrdered, NotAllUsed

\* repl() puts the tag where no way before it, and no valid way, has it.
LEMMA ReplDirInv ==
  ASSUME DirInv, NEW n \in Lines, DirRepl(n)
  PROVE  DirInv'
<1> DEFINE s == getAddrSet(n)
           w == Victim(s)
           t == getAddrTag(n)
<1>1. s \in Set /\ t \in Nat
  BY LineFacts
<1>2. w \in Way /\ \A v \in Way : v < w => val[s][v] \/ InvalidWays(s) = {}
  BY <1>1, VictimFacts DEF DirInv
<1>3. \A v \in Way : val[s][v] => tag[s][v] # t
  BY DEF DirRepl, Hit, HitWays
<1>4. /\ val' = [val EXCEPT ![s][w] = TRUE]
      /\ tag' = [tag EXCEPT ![s][w] = t]
      /\ plru' = [plru EXCEPT ![s] = ReplUpdate(plru[s], w)]
  BY DEF DirRepl
<1>5. \A v \in Way : v < w => tag[s][v] # t
  BY <1>2, <1>3 DEF InvalidWays
<1>6. plru[s] \in [Way -> BOOLEAN]
  BY <1>1 DEF DirInv, DirTypeOK
<1> HIDE DEF s, w, t
<1>7. ReplUpdate(plru[s], w) \in [Way -> BOOLEAN] /\ \E v \in Way : ~ReplUpdate(plru[s], w)[v]
  BY <1>2, <1>6, ReplUpdateFacts
<1>8. DirTypeOK'
  BY <1>1, <1>2, <1>4, <1>7 DEF DirInv, DirTypeOK
<1>9. NotAllUsed'
  BY <1>1, <1>4, <1>7 DEF DirInv, DirTypeOK, NotAllUsed
<1>10. TagsOrdered'
  <2> SUFFICES ASSUME NEW s1 \in Set, NEW w1 \in Way, NEW v1 \in Way, val'[s1][w1], v1 < w1
               PROVE  tag'[s1][v1] # tag'[s1][w1]
    BY DEF TagsOrdered
  <2>1. CASE s1 # s
    BY <1>1, <1>4, <2>1 DEF DirInv, DirTypeOK, TagsOrdered
  <2>2. CASE s1 = s /\ w1 = w
    <3>1. v1 # w /\ tag[s][v1] # t
      BY <1>5, <2>2 DEF Way
    <3> QED
      BY <1>1, <1>4, <2>2, <3>1 DEF DirInv, DirTypeOK
  <2>3. CASE s1 = s /\ w1 # w /\ v1 = w
    <3>1. val[s][w1]
      BY <1>1, <1>4, <2>3 DEF DirInv, DirTypeOK
    <3> QED
      BY <1>1, <1>2, <1>3, <1>4, <2>3, <3>1 DEF DirInv, DirTypeOK
  <2>4. CASE s1 = s /\ w1 # w /\ v1 # w
    BY <1>1, <1>4, <2>4 DEF DirInv, DirTypeOK, TagsOrdered
  <2> QED
    BY <2>1, <2>2, <2>3, <2>4
<1> QED
  BY <1>8, <1>9, <1>10 DEF DirInv

\* Every operation of the directory model keeps it.
LEMMA NextDirInv == DirInv /\ [DirNext]_dirVars => DirInv'
<1> SUFFICES ASSUME DirInv, [DirNext]_dirVars PROVE DirInv'
  OBVIOUS
<1>1. ASSUME NEW n \in Lines, DirAccess(n) PROVE DirInv'
  BY <1>1, AccessDirInv
<1>2. ASSUME NEW n \in Lines, DirInvalLine(n) PROVE DirInv'
  <2>1. getAddrSet(n) \in Set
    BY LineFacts
  <2>2. UNCHANGED <<tag, plru>> /\ val' = [val EXCEPT ![getAddrSet(n)][First(TagWays(n))] = FALSE]
    BY <1>2 DEF DirInvalLine
  <2>3. First(TagWays(n)) \in Way
    <3>1. TagWays(n) # {} /\ TagWays(n) \in SUBSET Way
      BY <1>2 DEF DirInvalLine, TagWays
    <3> QED BY <3>1, FirstFacts
  <2>4. /\ val' \in [Set -> [Way -> BOOLEAN]]
        /\ \A s \in Set : \A w \in Way : val'[s][w] => val[s][w]
    BY <2>1, <2>2, <2>3 DEF DirInv, DirTypeOK
  <2> QED
    BY <2>2, <2>4, ClearedDirInv
<1>3. ASSUME NEW n \in Lines, DirRepl(n) PROVE DirInv'
  BY <1>3, ReplDirInv
<1>4. ASSUME NEW n \in Lines, NEW W \in SUBSET Way, DirInvalSetWay(n, W) PROVE DirInv'
  <2>1. getAddrSet(n) \in Set
    BY LineFacts
  <2>2. /\ UNCHANGED <<tag, plru>>
        /\ val' = [val EXCEPT ![getAddrSet(n)] = [w \in Way |-> val[getAddrSet(n)][w] /\ w \notin W]]
    BY <1>4 DEF DirInvalSetWay
  <2>3. [w \in Way |-> val[getAddrSet(n)][w] /\ w \notin W] \in [Way -> BOOLEAN]
    OBVIOUS
  <2>4. /\ val' \in [Set -> [Way -> BOOLEAN]]
        /\ \A s \in Set : \A w \in Way : val'[s][w] => val[s][w]
    BY <2>1, <2>2, <2>3 DEF DirInv, DirTypeOK
  <2> QED
    BY <2>2, <2>4, ClearedDirInv
<1>5. ASSUME DirInvalAll PROVE DirInv'
  <2>1. UNCHANGED <<tag, plru>> /\ val' = [s \in Set |-> [w \in Way |-> FALSE]]
    BY <1>5 DEF DirInvalAll
  <2> QED
    BY <2>1, ClearedDirInv
<1>6. ASSUME UNCHANGED dirVars PROVE DirInv'
  BY <1>6 DEF dirVars, DirInv, DirTypeOK, TagsOrdered, NotAllUsed
<1> QED
  BY <1>1, <1>2, <1>3, <1>4, <1>5, <1>6 DEF DirNext

-----------------------------------------------------------------------------
(* The invariant of the directory: types, the order of the tags of a set,  *)
(* and a way of each set that is not recently used.                        *)
THEOREM DirInvariant == DirSpec => []DirInv
<1> QED
  BY InitDirInv, NextDirInv, PTL DEF DirSpec

(* The entries of the directory keep their types.                          *)
THEOREM DirTypes == DirSpec => []DirTypeOK
<1>1. DirInv => DirTypeOK
  BY DEF DirInv
<1> QED
  BY <1>1, DirInvariant, PTL

(* repl() never meets a full set whose recently-used bits are all set, for *)
(* any number of ways above one: its assertion holds.                      *)
THEOREM ReplFindsVictim == DirSpec => []VictimExists
<1>1. DirInv => VictimExists
  BY DEF DirInv, NotAllUsed, VictimExists, UnusedWays
<1> QED
  BY <1>1, DirInvariant, PTL

(* inval(addr), which compares tags and ignores valid bits, clears the way *)
(* that holds the line whenever one does.                                  *)
THEOREM InvalidationTakes == DirSpec => []DirInvalTakes
<1>1. DirInv => DirInvalTakes
  <2> SUFFICES ASSUME DirInv, NEW n \in Lines, NEW w \in HitWays(n)
               PROVE  w = First(TagWays(n))
    BY DEF DirInvalTakes
  <2> DEFINE s == getAddrSet(n)
             f == First(TagWays(n))
  <2>1. s \in Set
    BY LineFacts
  <2>2. w \in Way /\ val[s][w] /\ tag[s][w] = getAddrTag(n) /\ w \in TagWays(n)
    BY DEF HitWays, TagWays
  <2>3. TagWays(n) \in SUBSET Way /\ TagWays(n) # {}
    BY <2>2 DEF TagWays
  <2>4. f \in TagWays(n) /\ f <= w
    BY <2>2, <2>3, FirstFacts
  <2>5. f \in Way /\ tag[s][f] = getAddrTag(n)
    BY <2>4 DEF TagWays
  <2>6. ~(f < w)
    BY <2>1, <2>2, <2>5 DEF DirInv, TagsOrdered
  <2> HIDE DEF s, f
  <2>7. f = w
    BY <2>2, <2>4, <2>5, <2>6 DEF Way
  <2> QED BY <2>7 DEF f
<1> QED
  BY <1>1, DirInvariant, PTL


(* The faults of the test bench's configurations are placed.               *)
THEOREM FaultsOfCases == CasesSpec => []FaultPlaced
<1>1. ASSUME NEW c \in FaultCases PROVE Placed(c.g, c.f)
  <2>1. PICK g \in Geometries, s \in {0, 3}, w \in 0 .. 3, d \in {0, 1, 3}, m \in FaultMasks :
           c = [g |-> g, f |-> [set |-> s, way |-> w, word |-> d, mask |-> m]]
    BY DEF FaultCases
  <2>2. Fault(c.f)
    BY <2>1 DEF Fault, FaultMasks
  <2>3. WideGeometry(c.g)
    <3>1. c.g = g
      BY <2>1
    <3>2. \E k \in Nat : g.clWords = g.accessWords * k
      <4>1. 4 = 4 * 1 /\ 4 = 1 * 4 /\ 8 = 4 * 2
        OBVIOUS
      <4> QED
        BY <4>1 DEF Geometries, Geometry
    <3>3. /\ g.wordWidth \in {32, 64} /\ g.tagWidth \in Nat
          /\ g.waysPerRamWord \in Nat \ {0} /\ g.accessWords \in Nat \ {0}
      BY DEF Geometries, Geometry
    <3> QED
      BY <3>1, <3>2, <3>3 DEF WideGeometry, WordBitsOf, getParBits, ChunkBits
  <2> QED
    BY <2>2, <2>3, FaultsPlaced
<1>2. CasesInit => FaultPlaced
  BY <1>1 DEF CasesInit, FaultPlaced
<1>3. FaultPlaced /\ UNCHANGED <<block, input>> => FaultPlaced'
  BY DEF FaultPlaced
<1> QED
  BY <1>2, <1>3, PTL DEF CasesSpec

----------------------------------------------------------------------------
(* The two computations of an atomic                                       *)

\* A set of numbers has a least one.
LEMMA LeastOf ==
  ASSUME NEW S \in SUBSET Nat, S # {}
  PROVE  \E w \in S : \A v \in S : w <= v
<1> DEFINE Less == {ss \in Nat \X Nat : ss[1] < ss[2]}
<1>1. OpToRel(<, Nat) = Less
  BY DEF OpToRel
<1> HIDE DEF Less
<1>2. IsWellFoundedOn(Less, Nat)
  BY ONLY NatLessThanWellFounded, <1>1, Zenon
<1>3. PICK w \in S : \A v \in S : ~(<<v, w>> \in Less)
  BY <1>2, WFMin
<1> USE DEF Less
<1>4. ASSUME NEW v \in S PROVE w <= v
  <2>1. v \in Nat /\ w \in Nat /\ ~(v < w)
    BY <1>3
  <2> QED
    BY <2>1
<1> QED
  BY <1>4

\* A power of two is a positive number.
LEMMA PowerPositive ==
  \A i \in 0 .. WordBits : 2^i \in Nat \ {0}
<1> DEFINE Bad == {i \in 0 .. WordBits : ~(2^i \in Nat \ {0})}
<1>1. ASSUME Bad # {} PROVE FALSE
  <2>1. PICK i \in Bad : \A j \in Bad : i <= j
    <3>1. Bad \in SUBSET Nat
      BY WordBitsAssumption
    <3> QED
      BY <1>1, <3>1, LeastOf
  <2>2. i # 0
    <3>1. ~(2^i \in Nat \ {0})
      BY <2>1
    <3>2. i = 0 => 2^i = 1
      BY PowersOfTwo
    <3>3. 1 \in Nat \ {0}
      OBVIOUS
    <3> HIDE DEF Bad
    <3> QED
      BY <3>1, <3>2, <3>3, Zenon
  <2>3. PICK j \in 0 .. WordBits - 1 : i = j + 1
    <3>1. i - 1 \in 0 .. WordBits - 1 /\ i = (i - 1) + 1
      BY <2>2, WordBitsAssumption
    <3> QED
      BY <3>1
  <2>4. ~(j \in Bad)
    BY <2>1, <2>3
  <2>5. 2^j \in Nat \ {0}
    BY <2>4, WordBitsAssumption
  <2>6. 2^i = 2 * 2^j
    BY <2>3, PowersOfTwo
  <2> QED
    BY <2>5, <2>6
<1> QED
  BY <1>1

\* Exponents add up.
LEMMA PowerSum ==
  ASSUME NEW i \in Nat, NEW j \in Nat, i + j <= WordBits
  PROVE  2^(i + j) = 2^i * 2^j
<1> DEFINE Bad == {k \in Nat : i + k <= WordBits /\ ~(2^(i + k) = 2^i * 2^k)}
<1>1. ASSUME Bad # {} PROVE FALSE
  <2>1. PICK k \in Bad : \A l \in Bad : k <= l
    BY <1>1, LeastOf
  <2>2. k # 0
    <3>1. i \in 0 .. WordBits /\ i + 0 = i
      BY WordBitsAssumption
    <3>2. 2^i \in Nat /\ 2^0 = 1
      BY <3>1, PowerPositive, PowersOfTwo
    <3>3. 2^(i + 0) = 2^i * 2^0
      BY <3>1, <3>2
    <3> QED
      BY <3>3
  <2>3. PICK l \in Nat : k = l + 1
    <3>1. k - 1 \in Nat /\ k = (k - 1) + 1
      BY <2>2
    <3> QED
      BY <3>1
  <2>4. ~(l \in Bad)
    BY <2>1, <2>3
  <2>5. i + l \in 0 .. WordBits - 1 /\ i + k = (i + l) + 1 /\ l \in 0 .. WordBits - 1 /\ i \in 0 .. WordBits
    BY <2>3, WordBitsAssumption
  <2>6. 2^(i + l) = 2^i * 2^l
    <3>1. i + l <= WordBits /\ l \in Nat
      BY <2>5, WordBitsAssumption
    <3> QED
      BY <2>4, <3>1, Zenon
  <2>7. 2^(i + k) = 2 * 2^(i + l) /\ 2^k = 2 * 2^l
    BY <2>3, <2>5, PowersOfTwo
  <2>8. 2^i \in Nat /\ 2^l \in Nat
    BY <2>5, PowerPositive, WordBitsAssumption
  <2>9. 2^(i + k) = 2^i * 2^k
    BY <2>6, <2>7, <2>8
  <2> QED
    BY <2>9
<1> QED
  BY <1>1


\* Two divisions are one by the product.
LEMMA DivTwice ==
  ASSUME NEW v \in Nat, NEW a \in Nat \ {0}, NEW b \in Nat \ {0}
  PROVE  (v \div a) \div b = v \div (a * b)
<1> DEFINE q == v \div a
           r == v % a
           p == q \div b
           s == q % b
<1>1. q \in Nat /\ r \in 0 .. a - 1 /\ v = a * q + r
  BY DivMod
<1>2. p \in Nat /\ s \in 0 .. b - 1 /\ q = b * p + s
  BY <1>1, DivMod
<1> HIDE DEF p, s
<1> HIDE DEF q, r
<1>3. PICK k \in Nat : b = s + 1 + k
  <2>1. b - s - 1 \in Nat /\ b = s + 1 + (b - s - 1)
    BY <1>2
  <2> QED
    BY <2>1
<1>4. a * b = a * s + a + a * k /\ a * s \in Nat /\ a * k \in Nat /\ a * b \in Nat
  BY <1>2, <1>3
<1>5. a * q = a * (b * p) + a * s
  BY <1>2
<1>6. a * (b * p) = (a * b) * p /\ (a * b) * p \in Nat
  BY <1>2
<1>7. a * s + r \in 0 .. a * b - 1 /\ v = (a * b) * p + (a * s + r) /\ a * b \in Nat \ {0}
  BY <1>1, <1>4, <1>5, <1>6
<1>8. v \div (a * b) = p
  <2> DEFINE m == a * b
             c == a * s + r
  <2>1. m \in Nat \ {0} /\ c \in 0 .. m - 1 /\ v = m * p + c
    BY <1>7
  <2> HIDE DEF m, c
  <2>2. v \div m = p
    BY <1>2, <2>1, DivUnique
  <2> QED
    BY <2>2 DEF m
<1> QED
  BY <1>8 DEF p, q

\* A product of positive numbers is positive.
LEMMA Positive ==
  ASSUME NEW a \in Nat \ {0}, NEW b \in Nat \ {0}
  PROVE  a * b \in Nat \ {0}
<1>1. a * b \in Nat
  OBVIOUS
<1>2. PICK k \in Nat : b = k + 1
  <2>1. b - 1 \in Nat /\ b = (b - 1) + 1
    OBVIOUS
  <2> QED
    BY <2>1
<1>3. a * b = a * k + a /\ a * k \in Nat
  BY <1>2
<1> QED
  BY <1>1, <1>3

\* A bit below those that are cut off stays.
LEMMA BitOfRest ==
  ASSUME NEW u \in Nat, NEW p \in Nat \ {0}, NEW k \in Nat \ {0}
  PROVE  ((u % (p * (2 * k))) \div p) % 2 = (u \div p) % 2
<1> DEFINE n == p * (2 * k)
           q == u \div n
           r == u % n
           s == r \div p
           t == r % p
           a == s \div 2
           b == s % 2
<1>1. n \in Nat \ {0}
  <2>1. 2 * k \in Nat \ {0}
    OBVIOUS
  <2> QED
    BY <2>1, Positive
<1> HIDE DEF n
<1>2. q \in Nat /\ r \in Nat /\ u = n * q + r
  BY <1>1, DivMod
<1> HIDE DEF q, r
<1>3. s \in Nat /\ t \in 0 .. p - 1 /\ r = p * s + t
  BY <1>2, DivMod
<1> HIDE DEF s, t
<1>4. a \in Nat /\ b \in 0 .. 1 /\ s = 2 * a + b
  BY <1>3, DivMod
<1> HIDE DEF a, b
<1>5. n * q = p * (2 * (k * q)) /\ k * q \in Nat
  BY <1>2 DEF n
<1>6. u = p * (2 * (k * q) + s) + t /\ 2 * (k * q) + s \in Nat
  <2>1. p * (2 * (k * q) + s) = p * (2 * (k * q)) + p * s
    BY <1>3, <1>5
  <2> QED
    BY <1>2, <1>3, <1>5, <2>1
<1>7. u \div p = 2 * (k * q) + s
  <2> DEFINE c == 2 * (k * q) + s
  <2>1. c \in Nat /\ u = p * c + t
    BY <1>6
  <2> HIDE DEF c
  <2>2. u \div p = c
    BY <1>3, <2>1, DivUnique
  <2> QED
    BY <2>2 DEF c
<1>8. 2 * (k * q) + s = 2 * (k * q + a) + b /\ k * q + a \in Nat
  BY <1>4, <1>5
<1>9. (2 * (k * q) + s) % 2 = b
  <2> DEFINE c == 2 * (k * q) + s
             d == k * q + a
  <2>1. c \in Nat /\ d \in Nat /\ c = 2 * d + b /\ b \in 0 .. 2 - 1 /\ 2 \in Nat \ {0}
    BY <1>4, <1>6, <1>8
  <2> HIDE DEF c, d
  <2>2. c % 2 = b
    BY <2>1, DivUnique
  <2> QED
    BY <2>2 DEF c
<1> QED
  BY <1>7, <1>9 DEF b, s, r, n

\* A bit of the complement is the complement of the bit.
LEMMA BitOfComplement ==
  ASSUME NEW p \in Nat \ {0}, NEW k \in Nat \ {0}, NEW n, n = p * (2 * k), NEW v \in 0 .. n - 1
  PROVE  n - 1 - v \in 0 .. n - 1 /\ ((n - 1 - v) \div p) % 2 = 1 - ((v \div p) % 2)
<1> DEFINE q == v \div p
           r == v % p
           a == q \div 2
           b == q % 2
<1>1. n \in Nat /\ v \in Nat
  <2>1. 2 * k \in Nat \ {0}
    OBVIOUS
  <2>2. n \in Nat
    BY <2>1, Positive
  <2> QED
    BY <2>2
<1>2. q \in Nat /\ r \in 0 .. p - 1 /\ v = p * q + r
  BY <1>1, DivMod
<1> HIDE DEF q, r
<1>3. a \in Nat /\ b \in 0 .. 1 /\ q = 2 * a + b
  BY <1>2, DivMod
<1> HIDE DEF a, b
<1>4. ASSUME q >= 2 * k PROVE FALSE
  <2>1. PICK d \in Nat : q = 2 * k + d
    <3>1. q - 2 * k \in Nat /\ q = 2 * k + (q - 2 * k)
      BY <1>2, <1>4
    <3> QED
      BY <3>1
  <2>2. p * q = n + p * d /\ p * d \in Nat
    BY <2>1
  <2> QED
    BY <1>1, <1>2, <2>2
<1>5. PICK d \in Nat : k = a + 1 + d
  <2>1. k - a - 1 \in Nat /\ k = a + 1 + (k - a - 1)
    BY <1>2, <1>3, <1>4
  <2> QED
    BY <2>1
<1>6. 2 * k = q + 1 + (2 * d + (1 - b)) /\ 2 * d + (1 - b) \in Nat
  BY <1>3, <1>5
<1>7. n - 1 - v = p * (2 * d + (1 - b)) + (p - 1 - r) /\ p - 1 - r \in 0 .. p - 1
  <2> DEFINE e == 2 * d + (1 - b)
  <2>1. e \in Nat /\ 2 * k = q + 1 + e
    BY <1>6
  <2> HIDE DEF e
  <2>2. n = p * q + p + p * e
    <3>1. p * (q + 1 + e) = p * q + p + p * e
      BY <1>2, <2>1
    <3> QED
      BY <2>1, <3>1
  <2>3. p * q \in Nat /\ p * e \in Nat
    BY <1>2, <2>1
  <2>4. n - 1 - v = p * e + (p - 1 - r)
    BY <1>2, <2>2, <2>3
  <2> QED
    BY <1>2, <2>4 DEF e
<1>8. n - 1 - v \in 0 .. n - 1
  BY <1>1
<1>9. (n - 1 - v) \div p = 2 * d + (1 - b)
  BY <1>6, <1>7, <1>8, DivUnique
<1>10. (2 * d + (1 - b)) % 2 = 1 - b
  <2>1. 1 - b \in 0 .. 1
    BY <1>3
  <2> QED
    BY <1>6, <2>1, DivUnique
<1> QED
  BY <1>8, <1>9, <1>10 DEF b, q


\* Bit i of a value.
BitAt(v, i) == (v \div 2^i) % 2

\* An even factor is left between two powers of two.
LEMMA PowerSplit ==
  ASSUME NEW i \in Nat, NEW n \in Nat, i < n, n <= WordBits
  PROVE  /\ 2^i \in Nat \ {0}
         /\ \E k \in Nat \ {0} : 2^n = 2^i * (2 * k)
<1> DEFINE d == n - i - 1
<1>1. d \in Nat /\ d \in 0 .. WordBits - 1 /\ d + 1 \in Nat /\ i + (d + 1) = n /\ i \in 0 .. WordBits
  BY WordBitsAssumption
<1> HIDE DEF d
<1>2. 2^n = 2^i * 2^(d + 1)
  <2>1. 2^(i + (d + 1)) = 2^i * 2^(d + 1)
    BY <1>1, PowerSum
  <2> QED
    BY <1>1, <2>1
<1>3. 2^(d + 1) = 2 * 2^d
  BY <1>1, PowersOfTwo
<1>4. 2^d \in Nat \ {0} /\ 2^i \in Nat \ {0}
  BY <1>1, PowerPositive, WordBitsAssumption
<1> QED
  BY <1>2, <1>3, <1>4

\* A value of n bits has none above.
LEMMA NoBitsAbove ==
  ASSUME NEW n \in Nat, NEW i \in Nat, n <= i, i <= WordBits, NEW v \in Nat, v < 2^n
  PROVE  BitAt(v, i) = 0
<1>1. n \in 0 .. WordBits /\ i \in 0 .. WordBits /\ i - n \in 0 .. WordBits /\ n + (i - n) = i
  BY WordBitsAssumption
<1>2. 2^i = 2^n * 2^(i - n)
  <2>1. 2^(n + (i - n)) = 2^n * 2^(i - n)
    BY <1>1, PowerSum, WordBitsAssumption
  <2> QED
    BY <1>1, <2>1
<1>3. 2^n \in Nat \ {0} /\ 2^i \in Nat \ {0} /\ 2^(i - n) \in Nat \ {0}
  BY <1>1, PowerPositive
<1>4. 2^i >= 2^n
  <2> DEFINE a == 2^n
             b == 2^(i - n)
  <2>1. a \in Nat \ {0} /\ b \in Nat \ {0}
    BY <1>3
  <2> HIDE DEF a, b
  <2>2. PICK k \in Nat : b = k + 1
    <3>1. b - 1 \in Nat /\ b = (b - 1) + 1
      BY <2>1
    <3> QED
      BY <3>1
  <2>3. a * b = a * k + a /\ a * k \in Nat
    BY <2>1, <2>2
  <2>4. a * b >= a
    BY <2>1, <2>3
  <2> QED
    BY <1>2, <2>4 DEF a, b
<1>5. v \div 2^i = 0
  <2> DEFINE a == 2^i
  <2>1. a \in Nat \ {0} /\ v \in 0 .. a - 1 /\ v = a * 0 + v /\ 0 \in Nat
    BY <1>3, <1>4
  <2> HIDE DEF a
  <2>2. v \div a = 0
    BY <2>1, DivUnique
  <2> QED
    BY <2>2 DEF a
<1>6. 0 % 2 = 0
  OBVIOUS
<1> QED
  BY <1>5, <1>6 DEF BitAt

\* The part of a word that is accessed has the bits from its offset on.
LEMMA OperandBits ==
  ASSUME NEW v \in Value, NEW a \in Accesses
  PROVE  /\ a.n \in 0 .. WordBits
         /\ Operand(v, a) \in Nat /\ Operand(v, a) < 2^(a.n)
         /\ \A i \in 0 .. a.n - 1 : /\ a.offset + i \in 0 .. WordBits - 1
                                    /\ BitAt(Operand(v, a), i) = BitAt(v, a.offset + i)
<1> DEFINE h == WordBits \div 2
<1>1. h \in Nat \ {0} /\ WordBits = h + h
  <2>1. h \in Nat /\ WordBits = 2 * h + (WordBits % 2)
    BY WordBitsAssumption, DivMod
  <2> HIDE DEF h
  <2> QED
    BY <2>1, WordBitsAssumption
<1> HIDE DEF h
<1>2. 2^WordBits \in Nat \ {0} /\ v \in Nat /\ v < 2^WordBits
  <2>1. WordBits \in 0 .. WordBits
    BY WordBitsAssumption
  <2>2. 2^WordBits \in Nat \ {0}
    BY <2>1, PowerPositive
  <2> QED
    BY <2>2 DEF Value
<1>3. CASE a.n = WordBits
  <2>1. a.offset = 0 /\ Operand(v, a) = v
    <3>1. (a.n = WordBits /\ a.offset = 0) \/ a.n = h
      BY DEF Accesses, h
    <3>2. h # WordBits
      BY <1>1, WordBitsAssumption
    <3> QED
      BY <1>3, <3>1, <3>2 DEF Operand
  <2>2. \A i \in 0 .. WordBits - 1 : 0 + i = i
    BY WordBitsAssumption
  <2> QED
    BY <1>2, <1>3, <2>1, <2>2, WordBitsAssumption
<1>4. CASE a.n = h /\ a.offset \in {0, h} /\ a.n # WordBits
  <2> DEFINE o == a.offset
             n == a.n
             u == v \div 2^o
  <2>1. o \in Nat /\ n \in Nat /\ o + n <= WordBits /\ n \in 0 .. WordBits /\ o \in 0 .. WordBits /\ n = h
    BY <1>1, <1>4
  <2>2. Operand(v, a) = u % 2^n
    BY <1>4 DEF Operand
  <2>3. 2^o \in Nat \ {0} /\ 2^n \in Nat \ {0}
    BY <2>1, PowerPositive
  <2>4. u \in Nat
    <3> DEFINE b == 2^o
    <3>1. b \in Nat \ {0}
      BY <2>3
    <3> HIDE DEF b
    <3>2. v \div b \in Nat
      BY <1>2, <3>1, DivMod
    <3> QED
      BY <3>2 DEF b
  <2> HIDE DEF u
  <2>5. u % 2^n \in Nat /\ u % 2^n < 2^n
    <3> DEFINE b == 2^n
    <3>1. b \in Nat \ {0}
      BY <2>3
    <3> HIDE DEF b
    <3>2. u % b \in 0 .. b - 1
      BY <2>4, <3>1, DivMod
    <3>3. u % b \in Nat /\ u % b < b
      BY <3>1, <3>2
    <3> QED
      BY <3>3 DEF b
  <2>6. ASSUME NEW i \in 0 .. n - 1
        PROVE  o + i \in 0 .. WordBits - 1 /\ BitAt(u % 2^n, i) = BitAt(v, o + i)
    <3>1. i \in Nat /\ i < n /\ n <= WordBits /\ o + i \in 0 .. WordBits - 1 /\ o + i <= WordBits
      BY <2>1, <2>6, WordBitsAssumption
    <3>2. 2^i \in Nat \ {0} /\ \E k \in Nat \ {0} : 2^n = 2^i * (2 * k)
      BY <2>1, <3>1, PowerSplit
    <3> DEFINE p == 2^i
               b == 2^o
    <3>3. PICK k \in Nat \ {0} : 2^n = p * (2 * k)
      BY <3>2
    <3>4. p \in Nat \ {0} /\ b \in Nat \ {0}
      BY <2>3, <3>2
    <3>5. 2^(o + i) = b * p
      BY <2>1, <3>1, PowerSum
    <3>6. u = v \div b
      BY DEF u
    <3> HIDE DEF p, b
    <3>7. ((u % (p * (2 * k))) \div p) % 2 = (u \div p) % 2
      BY <2>4, <3>4, BitOfRest
    <3>8. (v \div b) \div p = v \div (b * p)
      BY <1>2, <3>4, DivTwice
    <3>9. ((u % 2^n) \div p) % 2 = (v \div 2^(o + i)) % 2
      BY <3>3, <3>5, <3>6, <3>7, <3>8
    <3> QED
      BY <3>1, <3>9 DEF BitAt, p
  <2> QED
    BY <2>1, <2>2, <2>5, <2>6
<1> QED
  BY <1>3, <1>4 DEF Accesses, h


\* The complement of an operand that the cache sends has the other bits.
LEMMA ComplementBits ==
  ASSUME NEW v \in Value
  PROVE  /\ 2^WordBits - 1 - v \in Value
         /\ \A i \in 0 .. WordBits - 1 : BitAt(2^WordBits - 1 - v, i) = 1 - BitAt(v, i)
<1> DEFINE n == 2^WordBits
<1>1. v \in 0 .. n - 1
  BY DEF Value
<1>2. ASSUME NEW i \in 0 .. WordBits - 1
      PROVE  n - 1 - v \in 0 .. n - 1 /\ BitAt(n - 1 - v, i) = 1 - BitAt(v, i)
  <2>1. i \in Nat /\ i < WordBits /\ WordBits \in Nat /\ WordBits <= WordBits
    BY WordBitsAssumption
  <2> DEFINE p == 2^i
  <2>2. p \in Nat \ {0} /\ \E k \in Nat \ {0} : n = p * (2 * k)
    BY <2>1, PowerSplit
  <2>3. PICK k \in Nat \ {0} : n = p * (2 * k)
    BY <2>2
  <2> HIDE DEF n, p
  <2>4. n - 1 - v \in 0 .. n - 1 /\ ((n - 1 - v) \div p) % 2 = 1 - ((v \div p) % 2)
    BY <1>1, <2>2, <2>3, BitOfComplement
  <2> QED
    BY <2>4 DEF BitAt, p
<1>3. n - 1 - v \in 0 .. n - 1
  BY <1>2, WordBitsAssumption
<1> QED
  BY <1>2, <1>3 DEF Value

\* What is cleared for the complement is what is kept for the operand.
LEMMA ClearedIsKept ==
  ASSUME NEW old \in Value, NEW st \in Value, NEW a \in Accesses
  PROVE  BitsOf(Operand(old, a)) \cap BitsOf(Operand(st, a))
           = BitsOf(Operand(old, a)) \ BitsOf(Operand(2^WordBits - 1 - st, a))
<1> DEFINE ld == Operand(old, a)
           x  == Operand(st, a)
           nt == 2^WordBits - 1 - st
           y  == Operand(nt, a)
<1>1. \A u : BitsOf(u) = {i \in 0 .. WordBits - 1 : BitAt(u, i) = 1}
  BY DEF BitsOf, BitAt
<1>2. nt \in Value /\ \A i \in 0 .. WordBits - 1 : BitAt(nt, i) = 1 - BitAt(st, i)
  BY ComplementBits
<1> HIDE DEF nt
<1>3. a.n \in 0 .. WordBits /\ ld \in Nat /\ ld < 2^(a.n)
  BY OperandBits
<1>4. ASSUME NEW i \in 0 .. WordBits - 1, BitAt(ld, i) = 1
      PROVE  i \in 0 .. a.n - 1
  <2>1. ASSUME a.n <= i PROVE FALSE
    <3>1. a.n \in Nat /\ i \in Nat /\ i <= WordBits
      BY <1>3, WordBitsAssumption
    <3> HIDE DEF ld
    <3>2. BitAt(ld, i) = 0
      BY <1>3, <2>1, <3>1, NoBitsAbove
    <3> QED
      BY <1>4, <3>2
  <2> QED
    BY <1>3, <2>1, WordBitsAssumption
<1>5. ASSUME NEW i \in 0 .. a.n - 1
      PROVE  BitAt(x, i) = 1 <=> BitAt(y, i) # 1
  <2>1. a.offset + i \in 0 .. WordBits - 1 /\ BitAt(x, i) = BitAt(st, a.offset + i)
    BY OperandBits
  <2>2. BitAt(y, i) = BitAt(nt, a.offset + i)
    BY <1>2, OperandBits
  <2> DEFINE b == BitAt(st, a.offset + i)
  <2>3. BitAt(nt, a.offset + i) = 1 - b
    BY <1>2, <2>1
  <2>4. b \in 0 .. 1
    <3>1. \A z \in Nat : z % 2 \in 0 .. 1
      OBVIOUS
    <3>2. st \div 2^(a.offset + i) \in Nat
      <4> DEFINE p == 2^(a.offset + i)
      <4>1. a.offset + i \in 0 .. WordBits
        BY <2>1, WordBitsAssumption
      <4>2. p \in Nat \ {0}
        BY <4>1, PowerPositive
      <4>3. st \in Nat
        BY DEF Value
      <4> HIDE DEF p
      <4>4. st \div p \in Nat
        BY <4>2, <4>3, DivMod
      <4> QED
        BY <4>4 DEF p
    <3> QED
      BY <3>1, <3>2 DEF BitAt
  <2> HIDE DEF b, x, y
  <2>5. b = 1 <=> 1 - b # 1
    BY <2>4
  <2> QED
    BY <2>1, <2>2, <2>3, <2>5 DEF b
<1> HIDE DEF ld, x, y
<1>6. \A i \in 0 .. WordBits - 1 :
        BitAt(ld, i) = 1 => (BitAt(x, i) = 1 <=> BitAt(y, i) # 1)
  BY <1>4, <1>5
<1>7. BitsOf(ld) \cap BitsOf(x) = BitsOf(ld) \ BitsOf(y)
  BY <1>1, <1>6, Zenon
<1> QED
  BY <1>7 DEF ld, x, y, nt

(* For every width of the words, every operation, and the whole or half of *)
(* a word, the memory computes what the scoreboard expects: the bits that  *)
(* a CLR of the complement leaves are those that an AND keeps.             *)
THEOREM AmosAgree == CasesSpec => []AmoAgree
<1>1. ASSUME NEW op \in AmoOps, NEW old \in Value, NEW st \in Value, NEW a \in Accesses
      PROVE  sb_amo_word(op, old, st, a) = mem_amo_word(mem_atomic(op), old, mem_operand(op, st), a)
  <2> DEFINE ld == Operand(old, a)
             x  == Operand(st, a)
             m  == Operand(mem_operand(op, st), a)
  <2>1. compute_amo(op, ld, x, a.n) = mem_compute_amo(mem_atomic(op), ld, m, a.n)
    <3>1. CASE op = "AND"
      <4>1. m = Operand(2^WordBits - 1 - st, a) /\ mem_atomic(op) = "CLR"
        BY <3>1 DEF mem_operand, mem_atomic
      <4>2. BitsOf(ld) \cap BitsOf(x) = BitsOf(ld) \ BitsOf(m)
        BY <4>1, ClearedIsKept
      <4> HIDE DEF ld, x, m
      <4>3. compute_amo(op, ld, x, a.n) = ValueOf(BitsOf(ld) \cap BitsOf(x))
        BY <3>1 DEF compute_amo
      <4>4. mem_compute_amo("CLR", ld, m, a.n) = ValueOf(BitsOf(ld) \ BitsOf(m))
        BY DEF mem_compute_amo
      <4> QED
        BY <4>1, <4>2, <4>3, <4>4
    <3>2. CASE op # "AND"
      <4>1. m = x
        BY <3>2 DEF mem_operand
      <4> HIDE DEF ld, x, m
      <4>2. CASE op = "XOR"
        <5>1. (BitsOf(ld) \cup BitsOf(x)) \ (BitsOf(ld) \cap BitsOf(x))
                = (BitsOf(ld) \ BitsOf(x)) \cup (BitsOf(x) \ BitsOf(ld))
          OBVIOUS
        <5>2. compute_amo(op, ld, x, a.n) = ValueOf((BitsOf(ld) \cup BitsOf(x)) \ (BitsOf(ld) \cap BitsOf(x)))
          BY <4>2 DEF compute_amo
        <5>3. mem_compute_amo("EOR", ld, m, a.n) = ValueOf((BitsOf(ld) \ BitsOf(x)) \cup (BitsOf(x) \ BitsOf(ld)))
          BY <4>1 DEF mem_compute_amo
        <5>4. mem_atomic(op) = "EOR"
          BY <4>2 DEF mem_atomic
        <5> QED
          BY <5>1, <5>2, <5>3, <5>4
      <4>3. CASE op # "XOR"
        BY <3>2, <4>1, <4>3 DEF AmoOps, compute_amo, mem_compute_amo, mem_atomic
      <4> QED
        BY <4>2, <4>3
    <3> QED
      BY <3>1, <3>2
  <2> QED
    BY <2>1 DEF sb_amo_word, mem_amo_word
<1>2. CasesInit => AmoAgree
  BY <1>1 DEF CasesInit, AmoAgree, AmoCases
<1>3. AmoAgree /\ UNCHANGED <<block, input>> => AmoAgree'
  BY DEF AmoAgree
<1> QED
  BY <1>2, <1>3, PTL DEF CasesSpec
=============================================================================
