------------------------------ MODULE Deflate ------------------------------
(***************************************************************************)
(* The compressor of the vendored miniz, as the trace plugin uses it: a    *)
(* ring of the last bytes, a lookahead inside it, a parser that turns the  *)
(* lookahead into literals and matches, and blocks that are handed over    *)
(* through an output buffer of any size.                                   *)
(*                                                                         *)
(* The compressed stream is a sequence of units: the zlib header, block    *)
(* headers, literals, matches, ends of block, stored bytes, the trailer.   *)
(* A unit stands for the bits that code it, and room in an output buffer   *)
(* is counted in units.  The running checksum is kept as the sequence of   *)
(* the bytes summed so far; the trailer carries its value.                 *)
(***************************************************************************)
EXTENDS Adler32

CONSTANTS DictSize,    \* TDEFL_LZ_DICT_SIZE
          MaxMatch,    \* TDEFL_MAX_MATCH_LEN
          MinMatch,    \* TDEFL_MIN_MATCH_LEN
          FarDist,     \* a match of minimal length from so far is not worth it
          LongMatch,   \* a match so long is taken at once
          CodeBufMax,  \* fill of the code buffer that ends a block
          BlockMax     \* bytes after which a block that does not shrink ends

ASSUME DeflateAssumption ==
    /\ {DictSize, MaxMatch, MinMatch, FarDist, LongMatch, CodeBufMax, BlockMax} \subseteq Nat
    /\ 1 < MinMatch /\ MinMatch <= MaxMatch /\ MaxMatch < DictSize

VARIABLES comp,   \* tdefl_compressor
          call    \* the call of mz_deflate in progress, and its mz_stream

deflateVars == <<comp, call>>

Least(a, b) == IF a <= b THEN a ELSE b

\* The ring, followed by a copy of its first bytes so that a comparison of
\* MaxMatch bytes need not wrap.
DictIndex == 0 .. (DictSize + MaxMatch - 2)
Ring(p) == p % DictSize

NoMatch == [dist |-> 0, len |-> MinMatch - 1]

tdefl_init(greedy) ==
    [greedy |-> greedy, dict |-> [i \in DictIndex |-> 0],
     lookahead_pos |-> 0, lookahead_size |-> 0, dict_size |-> 0,
     saved |-> [lit |-> 0, dist |-> 0, len |-> 0],
     lz |-> <<>>, total_lz_bytes |-> 0, lz_code_buf_dict_pos |-> 0,
     block_index |-> 0, flush_remaining |-> <<>>,
     wants_to_finish |-> FALSE, finished |-> FALSE, adler32 |-> <<>>, status |-> "okay"]

mz_deflateInit ==
    /\ \E greedy \in BOOLEAN : comp = tdefl_init(greedy)
    /\ call = [pc |-> "idle", in |-> <<>>, used |-> <<>>, room |-> 0, out |-> <<>>, finish |-> FALSE]

-----------------------------------------------------------------------------
\* The ring, and the copy of its beginning, with bytes put behind the lookahead.
PutBytes(c, bytes) ==
    LET place(i) == Ring(i - (c.lookahead_pos + c.lookahead_size))
    IN  [i \in DictIndex |-> IF place(i) < Len(bytes) THEN bytes[place(i) + 1] ELSE c.dict[i]]

\* Mutant: the window is not shortened when the lookahead overwrites it.
Fill_KeepWindow(c, bytes) ==
    [c EXCEPT !.dict = PutBytes(c, bytes), !.lookahead_size = @ + Len(bytes)]

\* Fill the lookahead; what it overwrites is no longer in the window.
Fill(c, bytes) ==
    [c EXCEPT !.dict = PutBytes(c, bytes), !.lookahead_size = @ + Len(bytes),
              !.dict_size = Least(DictSize - (c.lookahead_size + Len(bytes)), @)]

\* How many bytes at the lookahead equal those dist before it.
MatchLength(c, dist) ==
    LET s == Ring(c.lookahead_pos)
        p == Ring(c.lookahead_pos - dist)
        L == {k \in 0 .. c.lookahead_size : \A i \in 0 .. k - 1 : c.dict[s + i] = c.dict[p + i]}
    IN  CHOOSE k \in L : \A j \in L : j <= k

\* The matches the search may return: which of the positions of the window it
\* looks at depends on the hash chains and on the number of probes.
find_match(c, longer) ==
    {NoMatch} \cup {[dist |-> d, len |-> MatchLength(c, d)] :
                      d \in {d \in 1 .. c.dict_size : MatchLength(c, d) > longer}}

\* Matches that are dropped after the search.
Dropped(c, m) ==
    \/ m.len = MinMatch /\ m.dist >= FarDist
    \/ Ring(c.lookahead_pos) = m.dist

record_literal(c, b) == [c EXCEPT !.lz = Append(@, [t |-> "lit", byte |-> b]),
                                  !.total_lz_bytes = @ + 1]

record_match(c, m) == [c EXCEPT !.lz = Append(@, [t |-> "match", len |-> m.len, dist |-> m.dist]),
                                !.total_lz_bytes = @ + m.len]

\* Move the lookahead forward.
Move(c, n) == [c EXCEPT !.lookahead_pos = @ + n, !.lookahead_size = @ - n,
                        !.dict_size = Least(@ + n, DictSize)]

Save(c, m) == [c EXCEPT !.saved = [lit |-> c.dict[Ring(c.lookahead_pos)],
                                   dist |-> m.dist, len |-> m.len]]
NoSave(c) == [c EXCEPT !.saved.len = 0]

\* One decision of the parser.  A lazy parser defers a match by one byte, to
\* see whether a longer one starts there.
Parse(c, found) ==
    LET m    == IF found = NoMatch \/ Dropped(c, found) THEN [dist |-> 0, len |-> 0] ELSE found
        byte == c.dict[Ring(c.lookahead_pos)]
    IN  CASE c.saved.len > 0 /\ m.len > c.saved.len /\ m.len >= LongMatch ->
               Move(NoSave(record_match(record_literal(c, c.saved.lit), m)), m.len)
          [] c.saved.len > 0 /\ m.len > c.saved.len /\ m.len < LongMatch ->
               Move(Save(record_literal(c, c.saved.lit), m), 1)
          [] c.saved.len > 0 /\ m.len <= c.saved.len ->
               Move(NoSave(record_match(c, c.saved)), c.saved.len - 1)
          [] c.saved.len = 0 /\ m.dist = 0 -> Move(record_literal(c, byte), 1)
          [] c.saved.len = 0 /\ m.dist > 0 /\ (c.greedy \/ m.len >= LongMatch) ->
               Move(record_match(c, m), m.len)
          [] OTHER -> Move(Save(c, m), 1)

-----------------------------------------------------------------------------
\* Bytes the codes take in the code buffer: a literal one, a match three, and
\* a byte of flags for each eight of them.
CodeBytes(c) ==
    FoldLeft(LAMBDA n, u : n + IF u.t = "lit" THEN 1 ELSE 3, 1 + Len(c.lz) \div 8, c.lz)

BlockFull(c) ==
    \/ CodeBytes(c) > CodeBufMax
    \/ c.total_lz_bytes > BlockMax /\ (CodeBytes(c) * 115) \div 128 >= c.total_lz_bytes

\* The bytes of the block, as they are in the ring.
StoredBytes(c) ==
    [i \in 1 .. c.total_lz_bytes |-> c.dict[Ring(c.lz_code_buf_dict_pos + i - 1)]]

\* A block may be stored when the ring still holds all of it.
MayStore(c) == c.total_lz_bytes > 0 /\ c.lookahead_pos - c.lz_code_buf_dict_pos <= c.dict_size

\* How a block is sent: stored when coding would expand it, which depends on
\* the lengths of the codes.
Kinds(c) == IF MayStore(c) THEN {"coded", "stored"} ELSE {"coded"}

BlockUnits(c, finish, kind) ==
    (IF c.block_index = 0 THEN <<[t |-> "header"]>> ELSE <<>>)
    \o <<[t |-> "block", final |-> finish, kind |-> kind, len |-> c.total_lz_bytes]>>
    \o (IF kind = "stored" THEN [i \in 1 .. c.total_lz_bytes |-> [t |-> "byte", byte |-> StoredBytes(c)[i]]]
                           ELSE c.lz \o <<[t |-> "end"]>>)
    \o (IF finish THEN <<[t |-> "trailer", sum |-> mz_adler32(c.adler32)]>> ELSE <<>>)

flush_block(c, finish, kind) ==
    [c EXCEPT !.flush_remaining = @ \o BlockUnits(c, finish, kind),
              !.lz = <<>>, !.total_lz_bytes = 0,
              !.lz_code_buf_dict_pos = @ + c.total_lz_bytes,
              !.block_index = 1]     \* only told apart from 0

\* Copy as much of the output as there is room for.
Take(c, k) == Least(Len(c.flush_remaining), k.room)
Drained(c, k) == [c EXCEPT !.flush_remaining = SubSeq(@, Take(c, k) + 1, Len(@))]
Filled(c, k) == [k EXCEPT !.out = @ \o SubSeq(c.flush_remaining, 1, Take(c, k)),
                          !.room = @ - Take(c, k)]

\* tdefl_flush_output_buffer, at the end of tdefl_compress
Return(c, k) ==
    LET d == Drained(c, k)
    IN  /\ comp' = [d EXCEPT !.status = IF d.finished /\ d.flush_remaining = <<>> THEN "done" ELSE "okay"]
        /\ call' = [Filled(c, k) EXCEPT !.pc = "back"]

-----------------------------------------------------------------------------
\* Entry of mz_deflate with an input, an output buffer and a flush mode.
mz_deflate(in, room, finish) ==
    /\ call.pc \in {"idle", "return"}
    /\ call' = [pc     |-> IF room = 0 \/ comp.status = "done" THEN "return" ELSE "entry",
                in     |-> in, used |-> <<>>, room |-> room, out |-> <<>>, finish |-> finish]
    /\ UNCHANGED comp

tdefl_compress ==
    LET c == [comp EXCEPT !.wants_to_finish = @ \/ call.finish]
    IN  /\ call.pc = "entry"
        /\ IF comp.status # "okay" \/ (comp.wants_to_finish /\ ~call.finish)
           THEN comp' = [comp EXCEPT !.status = "bad_param"] /\ call' = [call EXCEPT !.pc = "back"]
           ELSE IF c.flush_remaining # <<>> \/ c.finished
           THEN Return(c, call)
           ELSE comp' = c /\ call' = [call EXCEPT !.pc = "loop"]

\* A turn of the loop of tdefl_compress_normal: fill the lookahead,
tdefl_compress_normal ==
    LET n == Least(Len(call.in), MaxMatch - comp.lookahead_size)
        wait == ~call.finish /\ comp.lookahead_size + n < MaxMatch
    IN  /\ call.pc = "loop"
        /\ call.in # <<>> \/ (call.finish /\ comp.lookahead_size > 0)
        /\ comp' = Fill(comp, SubSeq(call.in, 1, n))
        /\ call' = [call EXCEPT !.in = SubSeq(@, n + 1, Len(@)), !.used = @ \o SubSeq(call.in, 1, n),
                                !.pc = IF wait THEN "end" ELSE "parse"]

\* parse,
tdefl_parse ==
    /\ call.pc = "parse"
    /\ \E m \in find_match(comp, IF comp.saved.len > 0 THEN comp.saved.len ELSE MinMatch - 1) :
         comp' = Parse(comp, m)
    /\ call' = [call EXCEPT !.pc = "codes"]

\* and flush the codes when it is time to: without room for all of the output
\* the loop ends.
tdefl_flush_codes ==
    /\ call.pc = "codes"
    /\ IF BlockFull(comp)
       THEN \E f \in {flush_block(comp, FALSE, kind) : kind \in Kinds(comp)} :
              /\ comp' = Drained(f, call)
              /\ call' = [Filled(f, call) EXCEPT
                            !.pc = IF Len(f.flush_remaining) <= call.room THEN "loop" ELSE "end"]
       ELSE call' = [call EXCEPT !.pc = "loop"] /\ UNCHANGED comp

tdefl_compress_normal_done ==
    /\ call.pc = "loop"
    /\ call.in = <<>> /\ ~(call.finish /\ comp.lookahead_size > 0)
    /\ call' = [call EXCEPT !.pc = "end"]
    /\ UNCHANGED comp

\* The rest of tdefl_compress: the checksum of the input consumed, and the
\* final block once everything else is out.
tdefl_compress_end ==
    LET c == [comp EXCEPT !.adler32 = @ \o call.used]
        k == [call EXCEPT !.used = <<>>]
    IN  /\ call.pc = "end"
        /\ IF call.finish /\ c.lookahead_size = 0 /\ call.in = <<>> /\ c.flush_remaining = <<>>
           THEN \E kind \in Kinds(c) :
                  Return([flush_block(c, TRUE, kind) EXCEPT !.finished = TRUE], k)
           ELSE Return(c, k)

\* Mutant: a finishing call returns when its input is consumed.
MoreToDo_Never == FALSE

\* mz_deflate calls the compressor again.
MoreToDo == comp.status = "okay" /\ call.room > 0 /\ (call.in # <<>> \/ call.finish)

mz_deflate_loop ==
    /\ call.pc = "back"
    /\ call' = [call EXCEPT !.pc = IF MoreToDo THEN "entry" ELSE "return"]
    /\ UNCHANGED comp

DeflateStep ==
    \/ tdefl_compress \/ tdefl_compress_normal \/ tdefl_parse \/ tdefl_flush_codes
    \/ tdefl_compress_normal_done
    \/ tdefl_compress_end \/ mz_deflate_loop
=============================================================================
