------------------------------ MODULE MCBlocks ------------------------------
(***************************************************************************)
(* Small building blocks side by side, for TLC.  A behaviour is one of one *)
(* block, the others stay in their initial state: the FIFO and the         *)
(* one-entry buffer in a clock domain, the directory model, the way of a   *)
(* trace, or the evaluation of one case of a pure algorithm.  The block is *)
(* the variable block of DataCases, the case its variable input.           *)
(***************************************************************************)
EXTENDS FifoReg, CacheDirectory, DataCases, BlockCode, TracePath

CONSTANTS Blocks   \* the blocks of the run

VARIABLES bufValid, bufData, bufOut   \* the one-entry buffer

bufVars == <<bufValid, bufData, bufOut>>
blockVars == <<vars, bufVars, dirVars, traceVars, block, input>>

Buf == INSTANCE SyncBuffer WITH valid <- bufValid, buf <- bufData, out <- bufOut

-----------------------------------------------------------------------------
(* Cases of the pure algorithms, besides those of DataCases                *)

\* How often each of six symbols is used.  Some of them, such as 1, 1, 2, 3, 5
\* and 8, give codes longer than the limit.
CodeLimit == 4
CodeCases == {f \in [1 .. 6 -> {0, 1, 2, 3, 5, 8}] : f[6] \in {0, 8} /\ \A i \in 1 .. 5 : f[i] # 8}

\* Code lengths with runs around the limits of the packed form.
LengthCases ==
  {FoldLeft(LAMBDA s, run : s \o [k \in 1 .. run[2] |-> run[1]], <<>>, <<p, q, r>>) :
     p, q, r \in {<<0, 1>>, <<0, 3>>, <<0, 10>>, <<0, 11>>, <<0, MaxZeroRun>>, <<4, 1>>, <<4, 3>>, <<4, 7>>, <<5, 2>>}}

\* Blocks of up to three literals and matches, far enough apart in the tables for
\* all the codes of runs; and every length and every distance of a match.
BlockUnitCases ==
  {[t |-> "lit", byte |-> b] : b \in {0, LitSyms - 1}}
    \cup {[t |-> "match", len |-> m[1], dist |-> m[2]] :
            m \in {<<3, 1>>, <<10, 5>>, <<11, 24>>, <<35, 33>>}}
MatchCases == [t : {"match"}, len : 3 .. 258, dist : {1}] \cup [t : {"match"}, len : {3}, dist : 1 .. 32768]
BlockCases == UNION {[1 .. n -> BlockUnitCases] : n \in 0 .. 3}

Cases(b) ==
  CASE b = "amo" -> AmoCases [] b = "fault" -> FaultCases [] b = "codes" -> CodeCases
    [] b = "lengths" -> LengthCases [] b = "block" -> BlockCases [] b = "match" -> MatchCases [] OTHER -> {"none"}

-----------------------------------------------------------------------------
BlocksInit ==
  /\ block \in Blocks
  /\ input \in Cases(block)
  /\ Init /\ Buf!Init /\ DirReset /\ TraceInit
  /\ block # "fifo" => \A i \in Addr : fifoMem[i] = fifoMem[0] /\ fifoMem[0] = bufData
  /\ block # "fifo" => bufData = CHOOSE x \in Item : TRUE
  /\ block # "trace" => comp.greedy /\ plugin.mode = "binary"

FifoBlock == block = "fifo" /\ Next /\ Buf!Next /\ UNCHANGED <<dirVars, traceVars, block, input>>
DirBlock == block = "dir" /\ DirNext /\ UNCHANGED <<vars, bufVars, traceVars, block, input>>
TraceBlockWork == block = "trace" /\ TraceWork /\ UNCHANGED <<vars, bufVars, dirVars, block, input>>
TraceBlock == block = "trace" /\ TraceNext /\ UNCHANGED <<vars, bufVars, dirVars, block, input>>

\* A pure algorithm has no steps, and a trace that is read back is at its end.
AtRest ==
  /\ \/ block \in {"amo", "fault", "codes", "lengths", "block", "match", "static"}
     \/ block = "trace" /\ plugin.pc = "closed" /\ reader.pc \in {"next", "finished"}
  /\ UNCHANGED blockVars

BlocksNext == FifoBlock \/ DirBlock \/ TraceBlock \/ AtRest

BlocksSpec == BlocksInit /\ [][BlocksNext]_blockVars /\ WF_blockVars(TraceBlockWork)

-----------------------------------------------------------------------------
(* Properties                                                              *)

(* At its ports the one-entry buffer hpdcache_sync_buffer is a FIFO of     *)
(* depth one: an item is neither overwritten before it is read nor handed  *)
(* over twice.                                                             *)
BufferImplementsFifo == Buf!ImplementsFifo

(* The decompressor inverts the codes: for every code the compressor makes *)
(* from the frequencies of the symbols, also one that was cut to the limit *)
(* of the code length, the lengths are unpacked as they were packed, the   *)
(* tables are accepted, and each symbol is decoded from its bits, through  *)
(* the table or the tree.  Before the cut the in-place algorithm finds     *)
(* lengths of least cost.  A block is read back from its symbols after the *)
(* lengths of its codes, and so is a match of any length and distance.     *)
(* Both sides have the same fixed codes for a short block.                 *)
HuffmanInverse ==
  /\ block = "codes" => HuffmanRoundTrip(input, CodeLimit) /\ MinimumRedundancy(input)
  /\ block = "block" => BlockRoundTrip(input)
  /\ block = "match" => MatchRoundTrip(input)
  /\ block = "static" => StaticAgree
  /\ block = "lengths" => Unpacked(packed_code_sizes(input)) = input

-----------------------------------------------------------------------------
(* The accesses of the traced program                                      *)

Load == [store |-> FALSE, addr |-> <<2, 2>>, size |-> 0, code |-> 0, value |-> <<0>>, uncacheable |-> FALSE]
Store == [store |-> TRUE, addr |-> <<2, 2>>, size |-> 0, code |-> 1, value |-> <<2, 2>>, uncacheable |-> TRUE]
LoadAndStore == {Load, Store}
=============================================================================
