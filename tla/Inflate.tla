------------------------------ MODULE Inflate ------------------------------
(***************************************************************************)
(* The decompressor of the vendored miniz, as the trace reader uses it:    *)
(* mz_inflate decodes into a ring, from the place where the last delivery  *)
(* ended to the end of the ring, and delivers from there as much as the    *)
(* caller has room for.  The decoder is a coroutine: it stops in the       *)
(* middle of a symbol when its input or its place in the ring runs out.    *)
(* The compressed units are those of Deflate.                              *)
(***************************************************************************)
EXTENDS Adler32

CONSTANT InflDictSize   \* TINFL_LZ_DICT_SIZE

ASSUME InflateAssumption == InflDictSize \in Nat \ {0}

VARIABLES decomp,   \* tinfl_decompressor: where the coroutine stopped
          istate,   \* inflate_state: ring, delivery, last status
          icall     \* the call of mz_inflate in progress, and its mz_stream

inflateVars == <<decomp, istate, icall>>

mz_inflateInit ==
    /\ decomp = [at |-> "header", final |-> FALSE, counter |-> 0, dist |-> 0, from |-> 0,
                 z_adler32 |-> mz_adler32(<<>>), check_adler32 |-> <<>>]
    /\ istate = [dict |-> [i \in 0 .. (InflDictSize - 1) |-> 0], dict_ofs |-> 0, dict_avail |-> 0,
                 last_status |-> "needs_more_input"]
    /\ icall = [pc |-> "idle", in |-> <<>>, had_input |-> FALSE, room |-> 0, out |-> <<>>, cur |-> 0, result |-> "ok"]

-----------------------------------------------------------------------------
\* Deliver what the ring holds, as far as there is room; s is the inflate
\* state with dict_avail bytes at dict_ofs.
Deliver(s, status) ==
    LET n == IF s.dict_avail <= icall.room THEN s.dict_avail ELSE icall.room
        left == s.dict_avail - n
    IN  /\ istate' = [s EXCEPT !.dict_avail = left,
                               !.dict_ofs = (@ + n) % InflDictSize,
                               !.last_status = status]
        /\ icall' = [icall EXCEPT
             !.out = @ \o [i \in 1 .. n |-> s.dict[s.dict_ofs + i - 1]],
             !.room = @ - n,
             !.result = CASE status = "failed" -> "data_error"
                          [] status = "needs_more_input" /\ ~icall.had_input -> "buf_error"
                          [] status = "done" /\ left = 0 -> "stream_end"
                          [] OTHER -> "ok",
             !.pc = IF status = "has_more_output" /\ icall.in # <<>> /\ icall.room > n /\ left = 0
                    THEN "call" ELSE "return"]

\* Entry of mz_inflate (MZ_SYNC_FLUSH): what is left of an earlier call comes
\* first, and alone.
mz_inflate(in, room) ==
    /\ icall.pc \in {"idle", "return"}
    /\ icall' = [pc |-> IF istate.last_status = "failed" THEN "return"
                        ELSE IF istate.dict_avail > 0 THEN "left" ELSE "call",
                 in |-> in, had_input |-> in # <<>>, room |-> room, out |-> <<>>, cur |-> 0,
                 result |-> IF istate.last_status = "failed" THEN "data_error" ELSE "ok"]
    /\ UNCHANGED <<decomp, istate>>

mz_inflate_left ==
    LET n == IF istate.dict_avail <= icall.room THEN istate.dict_avail ELSE icall.room
    IN  /\ icall.pc = "left"
        /\ istate' = [istate EXCEPT !.dict_avail = @ - n, !.dict_ofs = (@ + n) % InflDictSize]
        /\ icall' = [icall EXCEPT !.out = [i \in 1 .. n |-> istate.dict[istate.dict_ofs + i - 1]],
                                  !.room = @ - n,
                                  !.result = IF istate.last_status = "done" /\ istate.dict_avail = n
                                             THEN "stream_end" ELSE "ok",
                                  !.pc = "return"]
        /\ UNCHANGED decomp

mz_inflate_call ==
    /\ icall.pc = "call"
    /\ icall' = [icall EXCEPT !.pc = "decode", !.cur = istate.dict_ofs]
    /\ UNCHANGED <<decomp, istate>>

-----------------------------------------------------------------------------
RingEnd == icall.cur >= InflDictSize
Unit == Head(icall.in)

\* common_exit of tinfl_decompress, and the delivery by mz_inflate: the bytes
\* produced enter the checksum, which is compared at the end of the stream.
Stop(status) ==
    LET n     == icall.cur - istate.dict_ofs
        check == decomp.check_adler32 \o [i \in 1 .. n |-> istate.dict[istate.dict_ofs + i - 1]]
    IN  /\ decomp' = [decomp EXCEPT !.check_adler32 = IF status = "failed" THEN @ ELSE check]
        /\ Deliver([istate EXCEPT !.dict_avail = n],
                   IF status = "done" /\ mz_adler32(check) # decomp.z_adler32 THEN "failed" ELSE status)

\* Consume a unit; the coroutine goes on at a place.
Goto(d) ==
    /\ decomp' = d
    /\ icall' = [icall EXCEPT !.in = Tail(@)]
    /\ UNCHANGED istate

\* Write a byte to the ring.
Put(b, d, in) ==
    /\ decomp' = d
    /\ istate' = [istate EXCEPT !.dict[icall.cur] = b]
    /\ icall' = [icall EXCEPT !.cur = @ + 1, !.in = in]

\* After the last symbol of a block.
AfterBlock(d) == [d EXCEPT !.at = IF d.final THEN "trailer" ELSE "block"]

TinflHeader ==
    /\ decomp.at = "header"
    /\ IF Unit.t = "header" THEN Goto([decomp EXCEPT !.at = "block"]) ELSE Stop("failed")

TinflBlock ==
    /\ decomp.at = "block"
    /\ IF Unit.t = "block"
       THEN Goto([decomp EXCEPT !.final = Unit.final, !.counter = Unit.len,
                                !.at = IF Unit.kind = "stored" THEN "stored" ELSE "symbol"])
       ELSE Stop("failed")

\* A literal, a match or the end of a block.  A literal that finds no place in
\* the ring is kept in counter.
TinflSymbol ==
    /\ decomp.at = "symbol"
    /\ CASE Unit.t = "lit" /\ ~RingEnd -> Put(Unit.byte, decomp, Tail(icall.in))
         [] Unit.t = "lit" /\ RingEnd  -> Goto([decomp EXCEPT !.at = "literal", !.counter = Unit.byte])
         [] Unit.t = "match"  -> Goto([decomp EXCEPT !.at = "copy", !.counter = Unit.len,
                                                    !.dist = Unit.dist, !.from = icall.cur])
         [] Unit.t = "end"    -> Goto(AfterBlock(decomp))
         [] OTHER             -> Stop("failed")

TinflLiteral ==
    /\ decomp.at = "literal"
    /\ IF RingEnd THEN Stop("has_more_output")
                ELSE Put(decomp.counter, [decomp EXCEPT !.at = "symbol"], icall.in)

\* The byte a match copies next, counted from where the match started.
CopySource == (decomp.from - decomp.dist) % InflDictSize

\* One byte of a match: it may be one that the same match has just written.
TinflCopy ==
    /\ decomp.at = "copy"
    /\ IF RingEnd THEN Stop("has_more_output")
       ELSE Put(istate.dict[CopySource],
                [decomp EXCEPT !.from = @ + 1, !.counter = @ - 1,
                               !.at = IF decomp.counter = 1 THEN "symbol" ELSE "copy"], icall.in)

\* A stored block: room for output is asked for before input.
TinflStored ==
    /\ decomp.at = "stored"
    /\ IF decomp.counter = 0
       THEN decomp' = AfterBlock(decomp) /\ UNCHANGED <<istate, icall>>
       ELSE IF RingEnd THEN Stop("has_more_output")
       ELSE IF icall.in = <<>> THEN Stop("needs_more_input")
       ELSE Put(Unit.byte, [decomp EXCEPT !.counter = @ - 1], Tail(icall.in))

TinflTrailer ==
    /\ decomp.at = "trailer"
    /\ Goto([decomp EXCEPT !.at = "done", !.z_adler32 = Unit.sum])

tinfl_decompress ==
    /\ icall.pc = "decode"
    /\ \/ icall.in # <<>> /\ (TinflHeader \/ TinflBlock \/ TinflSymbol \/ TinflTrailer)
       \/ TinflLiteral \/ TinflCopy \/ TinflStored
       \/ decomp.at \in {"header", "block", "symbol", "trailer"} /\ icall.in = <<>> /\ Stop("needs_more_input")
       \/ decomp.at = "done" /\ Stop("done")

InflateStep == mz_inflate_left \/ mz_inflate_call \/ tinfl_decompress
=============================================================================
