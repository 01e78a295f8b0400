--------------------------- MODULE FaultInjection ---------------------------
(***************************************************************************)
(* Where the test bench injects a fault: the RAM instance, the index in it *)
(* and the bits that are flipped for a set, a way, a word and a mask.  A   *)
(* RAM word holds the words, with their parity bits, of several ways one   *)
(* after the other; its bits are handed over in chunks.  A mask is the set *)
(* of its bits.  A geometry g has the fields wordWidth, waysPerRamWord,    *)
(* accessWords, clWords and tagWidth.                                      *)
(***************************************************************************)
EXTENDS Integers

\* Bits of a chunk, svLogicVecVal.
ChunkBits == 32

getParBits(width) == IF width < 64 THEN 7 ELSE 8

WordBitsOf(g) == g.wordWidth + getParBits(g.wordWidth)

getDatRow(g, way) == way \div g.waysPerRamWord
getDatCol(g, word) == word % g.accessWords

\* The RAM that holds a word of a way.
getScope(g, way, word) == [row |-> getDatRow(g, way), col |-> getDatCol(g, word)]

\* The bits lo .. hi-1 of a mask, moved so that lo becomes to, within a chunk.
Range32(mask, lo, hi, to) ==
  {i - lo + to : i \in {i \in mask : lo <= i /\ i < hi}} \cap (0 .. ChunkBits - 1)

\* Mutant: the head chunk is filled as if the word started a chunk.
HeadBits_Whole(g, way) == IF WordBitsOf(g) >= ChunkBits THEN ChunkBits ELSE WordBitsOf(g)

\* Bits of the mask that go to the first chunk.
HeadBits(g, way) ==
  IF WordBitsOf(g) >= ChunkBits
  THEN ChunkBits - (((way % g.waysPerRamWord) * WordBitsOf(g)) % ChunkBits)
  ELSE WordBitsOf(g)

\* The chunks of a RAM word for a fault in the data: the head, the middle and
\* the tail of the mask.
DatChunks(g, way, mask) ==
  LET ramOffset == (way % g.waysPerRamWord) * WordBitsOf(g)
      head      == HeadBits(g, way)
      middle    == (WordBitsOf(g) - head) \div ChunkBits
      first     == ramOffset \div ChunkBits
      lo(b)     == head + ChunkBits * (b - first - 1)
  IN  [b \in 0 .. ((WordBitsOf(g) * g.waysPerRamWord - 1) \div ChunkBits) |->
         CASE b = first -> Range32(mask, 0, head, ramOffset % ChunkBits)
           [] b > first /\ b <= first + middle -> Range32(mask, lo(b), lo(b) + ChunkBits, 0)
           [] b = first + middle + 1 -> Range32(mask, lo(b), WordBitsOf(g), 0)
           [] OTHER -> {}]

RamBits(chunks) == UNION {{ChunkBits * b + i : i \in 0 .. ChunkBits - 1} : b \in DOMAIN chunks}
FlippedBits(chunks) == {x \in RamBits(chunks) : (x % ChunkBits) \in chunks[x \div ChunkBits]}

injectDatFault(g, set, way, word, mask) ==
  [scope |-> getScope(g, way, word),
   index |-> (set * g.clWords + word) \div g.accessWords,
   bits |-> FlippedBits(DatChunks(g, way, mask))]

\* The directory has a RAM for each way.
DirBitsOf(g) == g.tagWidth + 4 + getParBits(g.tagWidth + 4)
DirChunks(g, mask) ==
  [b \in 0 .. ((DirBitsOf(g) - 1) \div ChunkBits) |->
     Range32(mask, ChunkBits * b,
             IF ChunkBits * (b + 1) > DirBitsOf(g) THEN DirBitsOf(g) ELSE ChunkBits * (b + 1), 0)]

injectDirFault(g, set, way, mask) ==
  [way |-> way, index |-> set, bits |-> FlippedBits(DirChunks(g, mask))]

\* A fault flips the bits of the mask in the place of its way and word, and no
\* other bit, so faults of two ways or words are apart.
Placed(g, f) ==
  LET base == (f.way % g.waysPerRamWord) * WordBitsOf(g)
      dat  == injectDatFault(g, f.set, f.way, f.word, f.mask)
  IN  /\ dat.bits = {base + i : i \in {i \in f.mask : i < WordBitsOf(g)}}
      /\ dat.scope.row * g.waysPerRamWord <= f.way /\ f.way < (dat.scope.row + 1) * g.waysPerRamWord
      /\ dat.index * g.accessWords + dat.scope.col = f.set * g.clWords + f.word
      /\ injectDirFault(g, f.set, f.way, f.mask).bits = {i \in f.mask : i < DirBitsOf(g)}
=============================================================================
