------------------------------ MODULE Huffman ------------------------------
(***************************************************************************)
(* The prefix codes of a compressed block, as the compressor assigns them  *)
(* and the decompressor reads them.  The compressor computes the lengths   *)
(* of the codes from the frequencies, cuts them to a limit, sends them in  *)
(* packed form and numbers the codes; the decompressor unpacks the lengths *)
(* and builds a table that is indexed by the first bits of a code, with a  *)
(* tree for the codes that are longer.                                     *)
(***************************************************************************)
EXTENDS Integers, SequencesExt, FiniteSetsExt

CONSTANTS LongestCode,     \* TDEFL_MAX_SUPPORTED_HUFF_CODESIZE
          FastBits,        \* TINFL_FAST_LOOKUP_BITS
          MaxZeroRun       \* longest run of zeros sent at once, 138

ASSUME HuffmanAssumption ==
    /\ {LongestCode, FastBits, MaxZeroRun} \subseteq Nat
    /\ FastBits > 0 /\ MaxZeroRun > 10

Sizes(limit) == 1 .. limit

\* How many symbols have codes of each length; sizes is a sequence, 0 for a
\* symbol that is not used.
NumCodes(sizes, limit) == [n \in Sizes(limit) |-> Cardinality({i \in DOMAIN sizes : sizes[i] = n})]

-----------------------------------------------------------------------------
(* The compressor: lengths from the number of times each symbol is used    *)

\* The symbols in use, the rarest first; the radix sort is stable.
radix_sort_syms(counts) ==
    SetToSortSeq({i \in DOMAIN counts : counts[i] > 0},
                 LAMBDA i, j : counts[i] < counts[j] \/ (counts[i] = counts[j] /\ i < j))

\* The minimum redundancy algorithm works in place in an array a of the n
\* weights.  First it pairs the two lightest of the inner nodes made so far
\* (from root on) and the leaves left (from leaf on): the sum goes to node
\* next, and the place of an inner node that was taken names its parent.
PairOne(s, next, n) ==
    IF s.leaf >= n \/ (s.root < next /\ s.a[s.root] < s.a[s.leaf])
    THEN [s EXCEPT !.a[next] = @ + s.a[s.root], !.a[s.root] = next, !.root = @ + 1]
    ELSE [s EXCEPT !.a[next] = @ + s.a[s.leaf], !.leaf = @ + 1]

Parents(a, n) ==
    FoldLeft(LAMBDA s, next : PairOne(PairOne([s EXCEPT !.a[next] = 0], next, n), next, n),
             [a |-> [a EXCEPT ![0] = @ + a[1]], root |-> 0, leaf |-> 2],
             [k \in 1 .. (n - 2) |-> k]).a

\* Then it turns the parents into depths, from the last inner node down,
Depths(a, n) ==
    FoldLeft(LAMBDA d, next : [d EXCEPT ![next] = d[d[next]] + 1],
             [a EXCEPT ![n - 2] = 0], [k \in 1 .. (n - 2) |-> n - 2 - k])

\* and at each depth gives the places that inner nodes do not use to leaves,
\* which overwrite the array from its end.
RECURSIVE LeafDepths(_, _, _, _, _)
LeafDepths(a, root, next, avbl, dpth) ==
    LET used == Max({u \in 0 .. (root + 1) : \A k \in 0 .. (u - 1) : a[root - k] = dpth})
        left == next - (avbl - used)
    IN  IF avbl = 0 THEN a
        ELSE LeafDepths([i \in DOMAIN a |-> IF i \in (left + 1) .. next THEN dpth ELSE a[i]],
                        root - used, left, 2 * used, dpth + 1)

\* The lengths for a sequence of weights in increasing order.
calculate_minimum_redundancy(keys) ==
    LET n == Len(keys)
        a == [i \in 0 .. (n - 1) |-> keys[i + 1]]
        d == LeafDepths(Depths(Parents(a, n), n), n - 2, n - 1, 1, 0)
    IN  IF n <= 1 THEN [k \in 1 .. n |-> 1] ELSE [k \in 1 .. n |-> d[k - 1]]

\* Mutant: the code that makes place for two longer ones is kept.
Shorten_SplitKept(num, limit) ==
    LET shorter == {n \in 1 .. (limit - 1) : num[n] > 0}
        less    == [num EXCEPT ![limit] = @ - 1]
    IN  IF shorter = {} THEN less ELSE [less EXCEPT ![Max(shorter) + 1] = @ + 2]

\* One turn of the loop that shortens the code space in use to what there is:
\* a longest code goes, and the next longest of the others makes place for two.
Shorten(num, limit) ==
    LET shorter == {n \in 1 .. (limit - 1) : num[n] > 0}
        less    == [num EXCEPT ![limit] = @ - 1]
    IN  IF shorter = {} THEN less
        ELSE [less EXCEPT ![Max(shorter)] = @ - 1, ![Max(shorter) + 1] = @ + 2]

CodeSpace(num, limit) == MapThenSumSet(LAMBDA n : num[n] * 2^(limit - n), Sizes(limit))

\* tdefl_huffman_enforce_max_code_size
enforce_max_code_size(num, limit) ==
    LET cut == [n \in Sizes(limit) |->
                  IF n < limit THEN num[n] ELSE MapThenSumSet(LAMBDA i : num[i], limit .. LongestCode)]
        excess == CodeSpace(cut, limit) - 2^limit
    IN  IF MapThenSumSet(LAMBDA i : num[i], Sizes(LongestCode)) <= 1 THEN cut
        ELSE FoldLeft(LAMBDA c, turn : Shorten(c, limit), cut, [turn \in 1 .. excess |-> turn])

\* The lengths of all symbols: the symbols used most get the shortest codes.
huff_code_sizes(counts, limit) ==
    LET syms == radix_sort_syms(counts)
        num  == enforce_max_code_size(
                  NumCodes(calculate_minimum_redundancy([k \in DOMAIN syms |-> counts[syms[k]]]), LongestCode), limit)
        lens == FoldLeft(LAMBDA s, n : s \o [k \in 1 .. num[n] |-> n], <<>>, [n \in Sizes(limit) |-> n])
    IN  [i \in DOMAIN counts |->
           IF counts[i] = 0 THEN 0 ELSE lens[Len(syms) + 1 - CHOOSE k \in DOMAIN syms : syms[k] = i]]

\* The first code of each length, as both sides number them.
next_code(num, limit) ==
    FoldLeft(LAMBDA c, n : [c EXCEPT ![n] = (c[n - 1] + num[n - 1]) * 2],
             [n \in Sizes(limit) |-> 0], [n \in 1 .. (limit - 1) |-> n + 1])

\* The first n bits of a number in the opposite order.
Reversed(code, n) == MapThenSumSet(LAMBDA b : ((code \div 2^b) % 2) * 2^(n - 1 - b), 0 .. (n - 1))

\* The bits sent for symbol i, the first one lowest.
huff_code(sizes, i, limit) ==
    Reversed(next_code(NumCodes(sizes, limit), limit)[sizes[i]]
               + Cardinality({j \in 1 .. (i - 1) : sizes[j] = sizes[i]}), sizes[i])

-----------------------------------------------------------------------------
(* The code lengths in packed form                                         *)

\* A length, or a code 16, 17 or 18 that repeats the last length or zeros, with
\* the count that follows it.
Code(c, n) == [code |-> c, extra |-> n]

RleRepeat(p) ==
    [p EXCEPT !.repeat = 0,
              !.out = @ \o IF p.repeat < 3 THEN [k \in 1 .. p.repeat |-> Code(p.prev, 0)]
                                           ELSE <<Code(16, p.repeat - 3)>>]
RleZeros(p) ==
    [p EXCEPT !.zeros = 0,
              !.out = @ \o CASE p.zeros < 3 -> [k \in 1 .. p.zeros |-> Code(0, 0)]
                             [] p.zeros \in 3 .. 10 -> <<Code(17, p.zeros - 3)>>
                             [] OTHER -> <<Code(18, p.zeros - 11)>>]

PackOne(p, size) ==
    LET q == IF size = 0
             THEN LET r == [RleRepeat(p) EXCEPT !.zeros = @ + 1] IN IF r.zeros = MaxZeroRun THEN RleZeros(r) ELSE r
             ELSE LET z == RleZeros(p)
                  IN  IF size # p.prev
                      THEN [RleRepeat(z) EXCEPT !.out = Append(@, Code(size, 0))]
                      ELSE LET r == [z EXCEPT !.repeat = @ + 1] IN IF r.repeat = 6 THEN RleRepeat(r) ELSE r
    IN  [q EXCEPT !.prev = size]

packed_code_sizes(sizes) ==
    LET p == FoldLeft(PackOne, [out |-> <<>>, prev |-> 255, repeat |-> 0, zeros |-> 0], sizes)
    IN  IF p.repeat > 0 THEN RleRepeat(p).out ELSE RleZeros(p).out

\* The decompressor appends a length, or repeats the last one or zeros.
Repeated(len_codes, c) ==
    IF c.code < 16 THEN Append(len_codes, c.code)
    ELSE len_codes \o [k \in 1 .. (c.extra + IF c.code = 18 THEN 11 ELSE 3) |-> IF c.code = 16 THEN Last(len_codes) ELSE 0]

Unpacked(packed) == FoldLeft(Repeated, <<>>, packed)

-----------------------------------------------------------------------------
(* The decompressor                                                        *)

\* A code within FastBits fills every index of the table that it begins.  The
\* others share, by their first bits, a pair of nodes of the tree, and descend
\* in it; t is the table under construction, a node is a negative number.
EnterShort(t, rev, size, sym) ==
    [t EXCEPT !.look = [i \in DOMAIN @ |-> IF i % 2^size = rev THEN size * 512 + sym ELSE @[i]]]

NewNode(t) == [t EXCEPT !.tree_next = @ - 2]

\* One bit further down; the node is made when it does not exist.
Descend(t, bit) ==
    LET at == t.cur - bit
    IN  IF t.tree[-at - 1] = 0
        THEN [NewNode(t) EXCEPT !.tree[-at - 1] = t.tree_next, !.cur = t.tree_next]
        ELSE [t EXCEPT !.cur = t.tree[-at - 1]]

EnterLong(t, rev, size, sym) ==
    LET root  == rev % 2^FastBits
        first == IF t.look[root] = 0
                 THEN [NewNode(t) EXCEPT !.look[root] = t.tree_next, !.cur = t.tree_next]
                 ELSE [t EXCEPT !.cur = t.look[root]]
        down  == FoldLeft(LAMBDA u, b : Descend(u, (rev \div 2^b) % 2), first,
                          [k \in 1 .. (size - FastBits - 1) |-> FastBits + k - 1])
    IN  [down EXCEPT !.tree[-(down.cur - ((rev \div 2^(size - 1)) % 2)) - 1] = sym]

\* The tables for a sequence of lengths; symbols are numbered from 0.
tinfl_tables(sizes, limit) ==
    LET Enter(t, i) ==
          IF sizes[i] = 0 THEN t
          ELSE LET rev == Reversed(t.next[sizes[i]], sizes[i])
                   u   == [t EXCEPT !.next[sizes[i]] = @ + 1]
               IN  IF sizes[i] <= FastBits THEN EnterShort(u, rev, sizes[i], i - 1)
                                           ELSE EnterLong(u, rev, sizes[i], i - 1)
    IN  FoldLeft(Enter,
                 [look |-> [i \in 0 .. (2^FastBits - 1) |-> 0], tree |-> [n \in 0 .. (2 * Len(sizes) - 1) |-> 0],
                  tree_next |-> -1, cur |-> 0, next |-> next_code(NumCodes(sizes, limit), limit)],
                 [i \in 1 .. Len(sizes) |-> i])

\* The decompressor refuses lengths that leave bits undecoded.
Accepted(sizes, limit) ==
    \/ CodeSpace(NumCodes(sizes, limit), limit) = 2^limit
    \/ Cardinality({i \in DOMAIN sizes : sizes[i] > 0}) <= 1

RECURSIVE Walk(_, _, _, _)
Walk(t, node, bits, len) ==
    LET next == t.tree[(-node - 1) + ((bits \div 2^len) % 2)]
    IN  IF next < 0 THEN Walk(t, next, bits, len + 1) ELSE [sym |-> next, len |-> len + 1]

\* TINFL_HUFF_DECODE
huff_decode(t, bits) ==
    LET entry == t.look[bits % 2^FastBits]
    IN  IF entry >= 0 THEN [sym |-> entry % 512, len |-> entry \div 512]
                      ELSE Walk(t, entry, bits, FastBits)

-----------------------------------------------------------------------------
\* The least sum of weights times lengths over all codes: the two lightest
\* weights are joined, again and again.
RECURSIVE LeastCost(_)
LeastCost(weights) ==
    IF Len(weights) < 2 THEN 0
    ELSE weights[1] + weights[2]
           + LeastCost(SortSeq(Append(SubSeq(weights, 3, Len(weights)), weights[1] + weights[2]), LAMBDA x, y : x < y))

\* The in-place algorithm returns lengths of that cost.
MinimumRedundancy(counts) ==
    LET syms == radix_sort_syms(counts)
        keys == [k \in DOMAIN syms |-> counts[syms[k]]]
        lens == calculate_minimum_redundancy(keys)
    IN  Len(keys) > 1 => MapThenSumSet(LAMBDA k : keys[k] * lens[k], DOMAIN keys) = LeastCost(keys)

\* Every symbol is decoded from its code, whatever follows it in the bit
\* buffer, by a decompressor that got the lengths in packed form.
HuffmanRoundTrip(counts, limit) ==
    LET sizes == huff_code_sizes(counts, limit)
        got   == Unpacked(packed_code_sizes(sizes))
        t     == tinfl_tables(got, limit)
    IN  /\ got = sizes /\ Accepted(got, limit)
        /\ \A i \in DOMAIN sizes : \A following \in {0, 2^limit - 1} :
             sizes[i] > 0 => huff_decode(t, huff_code(sizes, i, limit) + following * 2^sizes[i])
                               = [sym |-> i - 1, len |-> sizes[i]]
=============================================================================
