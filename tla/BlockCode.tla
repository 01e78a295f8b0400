----------------------------- MODULE BlockCode -----------------------------
(***************************************************************************)
(* A coded block of the compressed stream: the literals and matches of a   *)
(* block as the symbols that tdefl_compress_block writes, after the        *)
(* lengths of the codes of the symbols, and as tinfl_decompress reads      *)
(* them.  It is what the units of a block in Deflate and Inflate stand     *)
(* for.  A number that is sent with n bits is [val, bits], a symbol the    *)
(* number of its code, which Huffman turns into bits and back.  A literal  *)
(* is one of LitSyms, fewer than 256.                                      *)
(***************************************************************************)
EXTENDS Huffman

CONSTANT LitSyms   \* number of literals, 256; the next symbol ends a block

ASSUME LitSymsAssumption == LitSyms \in Nat \ {0}

LitLimit == 15   \* code_size_limit of the literals, lengths and distances
LenLimit == 7    \* code_size_limit of the code lengths

\* A table, counted from 0, from runs of equal entries <<entry, how many>>.
Table(runs) ==
    LET s == FoldLeft(LAMBDA t, run : t \o [k \in 1 .. run[2] |-> run[1]], <<>>, runs)
    IN  [i \in 0 .. (Len(s) - 1) |-> s[i + 1]]
\* Runs of n consecutive numbers from v, each k times.
Steps(v, n, k) == [i \in 1 .. n |-> <<v + i - 1, k>>]

s_tdefl_len_sym ==
    Table(Steps(LitSyms + 1, 8, 1) \o Steps(LitSyms + 9, 4, 2) \o Steps(LitSyms + 13, 4, 4)
            \o Steps(LitSyms + 17, 4, 8) \o Steps(LitSyms + 21, 4, 16) \o Steps(LitSyms + 25, 3, 32)
            \o <<<<LitSyms + 28, 31>>, <<LitSyms + 29, 1>>>>)
s_tdefl_len_extra == Table(<<<<0, 8>>, <<1, 8>>, <<2, 16>>, <<3, 32>>, <<4, 64>>, <<5, 127>>, <<0, 1>>>>)
s_tdefl_small_dist_sym ==
    Table(Steps(0, 4, 1) \o Steps(4, 2, 2) \o Steps(6, 2, 4) \o Steps(8, 2, 8) \o Steps(10, 2, 16)
            \o Steps(12, 2, 32) \o Steps(14, 2, 64) \o Steps(16, 2, 128))
s_tdefl_small_dist_extra ==
    Table(<<<<0, 4>>, <<1, 4>>, <<2, 8>>, <<3, 16>>, <<4, 32>>, <<5, 64>>, <<6, 128>>, <<7, 256>>>>)
s_tdefl_large_dist_sym ==
    Table(<<<<0, 2>>>> \o Steps(18, 2, 1) \o Steps(20, 2, 2) \o Steps(22, 2, 4) \o Steps(24, 2, 8)
            \o Steps(26, 2, 16) \o Steps(28, 2, 32))
s_tdefl_large_dist_extra ==
    Table(<<<<0, 2>>, <<8, 2>>, <<9, 4>>, <<10, 8>>, <<11, 16>>, <<12, 32>>, <<13, 64>>>>)

s_length_base == <<3, 4, 5, 6, 7, 8, 9, 10, 11, 13, 15, 17, 19, 23, 27, 31, 35, 43, 51, 59, 67, 83, 99,
                   115, 131, 163, 195, 227, 258>>
s_length_extra == Table(<<<<0, 8>>, <<1, 4>>, <<2, 4>>, <<3, 4>>, <<4, 4>>, <<5, 4>>, <<0, 3>>>>)
s_dist_base == <<1, 2, 3, 4, 5, 7, 9, 13, 17, 25, 33, 49, 65, 97, 129, 193, 257, 385, 513, 769, 1025, 1537,
                 2049, 3073, 4097, 6145, 8193, 12289, 16385, 24577>>
s_dist_extra == Table(<<<<0, 4>>>> \o Steps(1, 13, 2))

\* The order in which the lengths of the code of the lengths are sent.
s_tdefl_packed_code_size_syms_swizzle ==
    <<16, 17, 18, 0, 8, 7, 9, 6, 10, 5, 11, 4, 12, 3, 13, 2, 14, 1, 15>>
s_length_dezigzag == <<16, 17, 18, 0, 8, 7, 9, 6, 10, 5, 11, 4, 12, 3, 13, 2, 14, 1, 15>>

\* Bits that follow a code 16, 17 or 18.
RepeatBits(code) == <<2, 3, 7>>[code - 15]

-----------------------------------------------------------------------------
(* The compressor                                                          *)

\* TDEFL_PUT_BITS of the lowest n bits of v
Bits(v, n) == [val |-> v % 2^n, bits |-> n]

\* The symbol of a distance less one, and how many bits follow it.
DistSym(dist) ==
    IF dist < 512 THEN [sym |-> s_tdefl_small_dist_sym[dist], extra |-> s_tdefl_small_dist_extra[dist]]
                  ELSE [sym |-> s_tdefl_large_dist_sym[dist \div 256], extra |-> s_tdefl_large_dist_extra[dist \div 256]]

\* How often the units of a block use each symbol.
LitSym(u) == IF u.t = "lit" THEN u.byte ELSE s_tdefl_len_sym[u.len - 3]
LitCounts(lz) ==
    [i \in 1 .. (LitSyms + 30) |-> IF i - 1 = LitSyms THEN 1 ELSE Cardinality({k \in DOMAIN lz : LitSym(lz[k]) = i - 1})]
DistCounts(lz) ==
    [i \in 1 .. 30 |-> Cardinality({k \in DOMAIN lz : lz[k].t = "match" /\ DistSym(lz[k].dist - 1).sym = i - 1})]

\* A sequence cut after its last entry that is not 0, but not shorter than n.
Trimmed(s, n) == SubSeq(s, 1, Max({n} \cup {i \in DOMAIN s : s[i] # 0}))

\* tdefl_start_dynamic_block: the lengths of the two codes, packed, with the
\* code lengths of the code that they are sent in.
\*
\* How often each of the 19 codes of lengths is used, their lengths in the order
\* in which they are sent, and the head of a block from its parts.
PackedCounts(packed) == [i \in 1 .. 19 |-> Cardinality({k \in DOMAIN packed : packed[k].code = i - 1})]
Swizzled(lens) == [i \in 1 .. 19 |-> lens[s_tdefl_packed_code_size_syms_swizzle[i] + 1]]
BlockHead(num_lit_codes, num_dist_codes, packed, sent) ==
    [lits  |-> Bits(num_lit_codes - (LitSyms + 1), 5), dists |-> Bits(num_dist_codes - 1, 5),
     lens  |-> Bits(Len(sent) - 4, 4), sizes |-> [i \in DOMAIN sent |-> Bits(sent[i], 3)],
     codes |-> [k \in DOMAIN packed |->
                  [sym |-> packed[k].code,
                   extra |-> Bits(packed[k].extra, IF packed[k].code < 16 THEN 0 ELSE RepeatBits(packed[k].code))]]]

HeadOf(lits, dists, packed) ==
    BlockHead(Len(lits), Len(dists), packed, Trimmed(Swizzled(huff_code_sizes(PackedCounts(packed), LenLimit)), 4))
TrimmedHead(lits, dists) == HeadOf(lits, dists, packed_code_sizes(lits \o dists))
start_dynamic_block(lits, dists) == TrimmedHead(Trimmed(lits, LitSyms + 1), Trimmed(dists, 1))

\* tdefl_start_static_block: the lengths of the two fixed codes.
start_static_block ==
    [lits  |-> [i \in 1 .. 288 |-> CASE i - 1 \in 0 .. 143 -> 8 [] i - 1 \in 144 .. 255 -> 9
                                     [] i - 1 \in 256 .. 279 -> 7 [] OTHER -> 8],
     dists |-> [i \in 1 .. 32 |-> 5]]

\* tdefl_compress_lz_codes: the fields of a unit.
UnitSyms(u) ==
    IF u.t = "lit" THEN <<u.byte>>
    ELSE LET d == DistSym(u.dist - 1)
         IN  <<LitSym(u), Bits(u.len - 3, s_tdefl_len_extra[u.len - 3]), d.sym, Bits(u.dist - 1, d.extra)>>

compress_lz_codes(lz) == FlattenSeq([k \in DOMAIN lz |-> UnitSyms(lz[k])]) \o <<LitSyms>>

\* The lengths of the two codes of a block.
BlockSizes(lz) ==
    [lits |-> huff_code_sizes(LitCounts(lz), LitLimit), dists |-> huff_code_sizes(DistCounts(lz), LitLimit)]

compress_block(lz, sizes) ==
    [head |-> start_dynamic_block(sizes.lits, sizes.dists), syms |-> compress_lz_codes(lz)]

-----------------------------------------------------------------------------
(* The decompressor                                                        *)

\* The head of a block: the code of the lengths,
LenSizes(head) ==
    [i \in 1 .. 19 |-> LET k == CHOOSE k \in 1 .. 19 : s_length_dezigzag[k] = i - 1
                       IN  IF k <= 4 + head.lens.val THEN head.sizes[k].val ELSE 0]

\* and the lengths, which are those of the literals followed by those of the
\* distances.
ReadSizes(head) ==
    LET nlits == LitSyms + 1 + head.lits.val
        read  == Unpacked([k \in DOMAIN head.codes |-> Code(head.codes[k].sym, head.codes[k].extra.val)])
    IN  [ok |-> Len(read) = nlits + 1 + head.dists.val,
         lits |-> SubSeq(read, 1, nlits), dists |-> SubSeq(read, nlits + 1, Len(read))]

\* The decompressor knows the lengths of the fixed codes.
StaticSizes ==
    [lits  |-> [k \in 1 .. 144 |-> 8] \o [k \in 1 .. 112 |-> 9] \o [k \in 1 .. 24 |-> 7] \o [k \in 1 .. 8 |-> 8],
     dists |-> [k \in 1 .. 32 |-> 5]]

\* The units of the block from field p on, up to its end.
RECURSIVE ReadUnits(_, _, _)
ReadUnits(syms, p, units) ==
    IF syms[p] < LitSyms THEN ReadUnits(syms, p + 1, Append(units, [t |-> "lit", byte |-> syms[p]]))
    ELSE IF syms[p] = LitSyms THEN units
    ELSE ReadUnits(syms, p + 4,
           Append(units, [t |-> "match", len |-> s_length_base[syms[p] - LitSyms] + syms[p + 1].val,
                          dist |-> s_dist_base[syms[p + 2] + 1] + syms[p + 3].val]))

-----------------------------------------------------------------------------
\* A match is read back from its symbols, and both sides take the same number
\* of bits for what follows them.
MatchRoundTrip(u) ==
    LET f == UnitSyms(u)
    IN  /\ ReadUnits(compress_lz_codes(<<u>>), 1, <<>>) = <<u>>
        /\ f[2].bits = s_length_extra[f[1] - LitSyms - 1] /\ f[4].bits = s_dist_extra[f[3]]

\* Both sides take the same lengths for the fixed codes, which leave no bits
\* undecoded.
StaticAgree ==
    /\ start_static_block = StaticSizes
    /\ Accepted(StaticSizes.lits, LitLimit) /\ Accepted(StaticSizes.dists, LitLimit)

\* A block b of the units lz is read back: the lengths of its codes, which are
\* accepted, and its literals and matches, all of whose symbols have codes.
ReadBack(lz, sizes, b, read, lens) ==
    /\ read.ok /\ Trimmed(sizes.lits, LitSyms + 1) = read.lits /\ Trimmed(sizes.dists, 1) = read.dists
    /\ Accepted(read.lits, LitLimit) /\ Accepted(read.dists, LitLimit) /\ Accepted(lens, LenLimit)
    /\ \A k \in DOMAIN b.head.codes : lens[b.head.codes[k].sym + 1] > 0
    /\ \A k \in DOMAIN lz : /\ read.lits[LitSym(lz[k]) + 1] > 0
                            /\ lz[k].t = "match" => read.dists[DistSym(lz[k].dist - 1).sym + 1] > 0
    /\ read.lits[LitSyms + 1] > 0
    /\ ReadUnits(b.syms, 1, <<>>) = lz

BlockReadBack(lz, sizes, b) == ReadBack(lz, sizes, b, ReadSizes(b.head), LenSizes(b.head))
CodedWith(lz, sizes) == BlockReadBack(lz, sizes, compress_block(lz, sizes))
BlockRoundTrip(lz) == CodedWith(lz, BlockSizes(lz))
=============================================================================
