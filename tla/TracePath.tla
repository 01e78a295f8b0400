----------------------------- MODULE TracePath -----------------------------
(***************************************************************************)
(* The way of a trace of memory accesses: the QEMU plugin encodes every    *)
(* access as a record of bytes, collects them in a buffer, compresses the  *)
(* buffer to a file whenever it is full and when QEMU exits; the test      *)
(* bench reads the file by chunks, decompresses them and decodes the       *)
(* records into the transactions it replays.                               *)
(***************************************************************************)
EXTENDS Deflate, Inflate

CONSTANTS SizeBuffer,     \* SIZE_BUFFER of the plugin
          AddrBytes,      \* bytes of an address, 8 for riscv64
          AccessKinds,    \* the accesses the traced program makes
          DelayMod,       \* a delay has one byte
          MaxSizeBuffer,  \* MAX_SIZE_BUFFER of the reader
          MaxAccesses,    \* bound: accesses of the traced program
          MaxInsns        \* bound: instructions that are no accesses

ASSUME TraceAssumption ==
    /\ {SizeBuffer, AddrBytes, DelayMod, MaxSizeBuffer, MaxAccesses, MaxInsns} \subseteq Nat
    /\ SizeBuffer > 1 /\ DelayMod > 0 /\ MaxSizeBuffer > 3
    /\ InflDictSize = DictSize

VARIABLES plugin,      \* the state of the plugin
          file,        \* the units in the trace file
          reader,      \* the state of the trace reader
          recorded,    \* ghost: the accesses the plugin was told of, as transactions
          delivered    \* ghost: the transactions read back

traceVars == <<deflateVars, inflateVars, plugin, file, reader, recorded, delivered>>

\* The transaction that stands for an access.
Transaction(a, insns) ==
    [op |-> IF a.store THEN 1 ELSE 0, addr |-> a.addr, size |-> a.size, need_rsp |-> ~a.store,
     uncacheable |-> a.uncacheable, wdata |-> IF a.store THEN a.value ELSE <<>>,
     delay |-> insns % DelayMod]

\* Mutant: a store asks for a response.
RecordBytes_StoreNeedsRsp(a, insns) ==
    <<insns % DelayMod>> \o a.addr \o <<a.size + 16 * a.code>>
    \o <<2 + (IF a.store THEN 4 ELSE 0) + (IF a.uncacheable THEN 1 ELSE 0)>>
    \o (IF a.store THEN a.value ELSE <<>>)

\* The record of an access: delay, address, the two sizes, flags and, for a
\* store, the value.
RecordBytes(a, insns) ==
    <<insns % DelayMod>> \o a.addr \o <<a.size + 16 * a.code>>
    \o <<(IF a.store THEN 4 ELSE 2) + (IF a.uncacheable THEN 1 ELSE 0)>>
    \o (IF a.store THEN a.value ELSE <<>>)

\* The modes of the plugin that write no text.
set_mode == {"binary", "no_write"}

TraceInit ==
    /\ mz_deflateInit /\ mz_inflateInit
    /\ \E mode \in set_mode :
         plugin = [mode |-> mode, pc |-> "run", exiting |-> FALSE, buffer |-> <<>>, todo |-> <<>>, insns |-> 0,
                   left |-> MaxInsns]
    /\ file = <<>>
    /\ reader = [pc |-> "next", pos |-> 0, buf |-> <<>>, end |-> 0, read |-> 0,
                 finish |-> FALSE, part |-> <<>>, stale |-> FALSE]
    /\ recorded = <<>> /\ delivered = <<>>

-----------------------------------------------------------------------------
(* The plugin                                                              *)

Running == plugin.pc = "run" /\ plugin.todo = <<>>

counter_inst ==
    /\ Running /\ plugin.left > 0
    /\ plugin' = [plugin EXCEPT !.insns = @ + 1, !.left = @ - 1]
    /\ UNCHANGED <<deflateVars, inflateVars, file, reader, recorded, delivered>>

mem_cb(a) ==
    /\ Running /\ Len(recorded) < MaxAccesses /\ ~plugin.exiting
    /\ IF plugin.mode = "binary"
       THEN /\ plugin' = [plugin EXCEPT !.todo = RecordBytes(a, plugin.insns), !.insns = 0]
            /\ recorded' = Append(recorded, Transaction(a, plugin.insns))
       ELSE plugin' = [plugin EXCEPT !.insns = 0] /\ UNCHANGED recorded
    /\ UNCHANGED <<deflateVars, inflateVars, file, reader, delivered>>

\* compress_data_to_file: the loop over the buffer runs while its offset is less
\* than the number of bytes less one, so a single byte is not compressed.  No
\* byte at all makes that number wrap: the loop is entered with no output buffer.
compress_data_to_file(buffer, p, finish) ==
    IF Len(buffer) = 1
    THEN plugin' = [p EXCEPT !.pc = IF finish THEN "closed" ELSE "run", !.buffer = <<>>] /\ UNCHANGED deflateVars
    ELSE plugin' = [p EXCEPT !.pc = "deflate", !.buffer = buffer] /\ mz_deflate(buffer, Len(buffer), finish)

\* The bytes of a record enter the buffer; a full buffer is compressed.
write_buffer ==
    LET n == Least(SizeBuffer - Len(plugin.buffer), Len(plugin.todo))
        b == plugin.buffer \o SubSeq(plugin.todo, 1, n)
        p == [plugin EXCEPT !.todo = SubSeq(@, n + 1, Len(@))]
    IN  /\ plugin.pc = "run" /\ plugin.todo # <<>>
        /\ IF Len(b) = SizeBuffer
           THEN compress_data_to_file(b, p, FALSE)
           ELSE plugin' = [p EXCEPT !.buffer = b] /\ UNCHANGED deflateVars
        /\ UNCHANGED <<inflateVars, file, reader, recorded, delivered>>

\* What a call of the compressor produced is written; a call that used up its
\* output buffer, of the size of the data, is followed by another.
write_output ==
    /\ plugin.pc = "deflate" /\ call.pc = "return"
    /\ file' = file \o call.out
    /\ IF call.room = 0
       THEN mz_deflate(call.in, Len(plugin.buffer), call.finish) /\ UNCHANGED plugin
       ELSE /\ call' = [call EXCEPT !.pc = "idle", !.in = <<>>, !.room = 0, !.out = <<>>]
            /\ plugin' = [plugin EXCEPT !.pc = IF plugin.exiting THEN "closed" ELSE "run", !.buffer = <<>>]
            /\ UNCHANGED comp
    /\ UNCHANGED <<inflateVars, reader, recorded, delivered>>

plugin_exit ==
    /\ Running
    /\ compress_data_to_file(plugin.buffer, [plugin EXCEPT !.exiting = TRUE], TRUE)
    /\ UNCHANGED <<inflateVars, file, reader, recorded, delivered>>

-----------------------------------------------------------------------------
(* The reader, once QEMU has ended                                         *)

is_finish == reader.end <= reader.read /\ reader.finish

\* Bytes of the transaction being read; its length is known from its flags.
ValueBytes(code) == CASE code = 0 -> 1 [] code = 1 -> 2 [] code = 2 -> 4 [] code \in {3, 4} -> 8 [] OTHER -> 0
Needed(part) ==
    AddrBytes + 3 + IF Len(part) >= AddrBytes + 3 /\ part[AddrBytes + 3] \div 4 = 1
                    THEN ValueBytes(part[AddrBytes + 2] \div 16) ELSE 0

Decoded(part) ==
    LET sizes == part[AddrBytes + 2]
        flags == part[AddrBytes + 3]
    IN  [op |-> flags \div 4, addr |-> SubSeq(part, 2, AddrBytes + 1), size |-> sizes % 16,
         need_rsp |-> (flags \div 2) % 2 = 1, uncacheable |-> flags % 2 = 1,
         wdata |-> SubSeq(part, AddrBytes + 4, Len(part)), delay |-> part[1]]

\* from_trace reads transactions until the trace is finished; a reader that went
\* past the end of a file without an end never is, and is stopped by a bound.
MaxDelivered == MaxAccesses + 1
next_transaction ==
    /\ plugin.pc = "closed" /\ reader.pc = "next"
    /\ is_finish \/ Len(delivered) < MaxDelivered
    /\ reader' = [reader EXCEPT !.pc = IF is_finish THEN "finished" ELSE "bytes", !.part = <<>>]
    /\ UNCHANGED <<deflateVars, inflateVars, plugin, file, recorded, delivered>>

\* The next byte of the buffer; nothing keeps the reader from going past its end.
ByteAt(buf, i) == IF i < Len(buf) THEN buf[i + 1] ELSE 0
TakeByte(r) ==
    LET part == Append(r.part, ByteAt(r.buf, r.read))
        whole == Len(part) = Needed(part)
    IN  /\ reader' = [r EXCEPT !.read = @ + 1, !.stale = @ \/ r.read >= r.end, !.part = part,
                               !.pc = IF whole THEN "next" ELSE "bytes"]
        /\ delivered' = IF whole THEN Append(delivered, Decoded(part)) ELSE delivered

get_content_of_trace ==
    /\ reader.pc = "bytes" /\ reader.read # reader.end
    /\ TakeByte(reader)
    /\ UNCHANGED <<deflateVars, inflateVars, plugin, file, recorded>>

decompress_data_from_trace ==
    LET chunk == SubSeq(file, reader.pos + 1, Least(reader.pos + MaxSizeBuffer, Len(file)))
    IN  /\ reader.pc = "bytes" /\ reader.read = reader.end
        /\ reader' = [reader EXCEPT !.pc = "inflate", !.end = 0, !.read = 0, !.pos = @ + Len(chunk)]
        /\ mz_inflate(chunk, MaxSizeBuffer)
        /\ UNCHANGED <<deflateVars, plugin, file, recorded, delivered>>

\* The output of a call of the decompressor is appended to the buffer; while
\* there is input left it is called again.  Then the byte asked for is read.
append_output ==
    LET n == reader.end + Len(icall.out)
        r == [reader EXCEPT !.buf = SubSeq(@, 1, reader.end) \o icall.out \o SubSeq(@, n + 1, Len(@)),
                            !.end = n]
    IN  /\ reader.pc = "inflate" /\ icall.pc = "return"
        /\ IF icall.in # <<>>
           THEN mz_inflate(icall.in, MaxSizeBuffer) /\ reader' = r /\ UNCHANGED delivered
           ELSE /\ TakeByte([r EXCEPT !.finish = icall.result = "stream_end"])
                /\ icall' = [icall EXCEPT !.pc = "idle", !.out = <<>>]
                /\ UNCHANGED <<decomp, istate>>
        /\ UNCHANGED <<deflateVars, plugin, file, recorded>>

\* What goes on by itself, and what the traced program decides.
TraceWork ==
    \/ write_buffer \/ write_output
    \/ next_transaction \/ get_content_of_trace \/ decompress_data_from_trace \/ append_output
    \/ DeflateStep /\ UNCHANGED <<inflateVars, plugin, file, reader, recorded, delivered>>
    \/ InflateStep /\ UNCHANGED <<deflateVars, plugin, file, reader, recorded, delivered>>

TraceNext == TraceWork \/ counter_inst \/ (\E a \in AccessKinds : mem_cb(a)) \/ plugin_exit

TraceSpec == TraceInit /\ [][TraceNext]_traceVars /\ WF_traceVars(TraceWork)

-----------------------------------------------------------------------------
(* Properties                                                              *)

\* The bytes decoded so far, those of the call in progress too.
Inflated ==
    decomp.check_adler32
    \o IF icall.pc = "decode"
       THEN [i \in 1 .. (icall.cur - istate.dict_ofs) |-> istate.dict[istate.dict_ofs + i - 1]]
       ELSE <<>>

(* Compression loses nothing and makes nothing up: whatever the matches    *)
(* the compressor finds in its ring, wherever blocks, output buffers,      *)
(* chunks of the file and turns of the decompressor's ring end, the bytes  *)
(* decoded are the first ones of the bytes compressed, and the checksum is *)
(* never found wrong.                                                      *)
RoundTrip == IsPrefix(Inflated, comp.adler32) /\ istate.last_status # "failed"

(* Unless the reader has gone past the end of what it decompressed, the    *)
(* transactions it delivers are the first ones of the accesses recorded:   *)
(* records that straddle the buffer of the plugin or a chunk of the reader *)
(* are put together again, and the delays are those of the right access.   *)
TraceFaithful == ~reader.stale => IsPrefix(delivered, recorded)

(* A trace that QEMU ends with more than one byte in the buffer of the     *)
(* plugin is read back: all of its accesses are delivered and the reader   *)
(* stops.                                                                  *)
TraceRecovered ==
    (plugin.exiting /\ Len(plugin.buffer) > 1)
      ~> (reader.pc = "finished" /\ IsPrefix(recorded, delivered))
=============================================================================
