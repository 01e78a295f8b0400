# TLA+ models of the HPDcache

The HPDcache (`src/rtl/src`) is a pipelined, non-blocking L1 data cache in
SystemVerilog: write-through or write-back per line, several outstanding misses,
a coalescing write buffer, a replay table for the requests it cannot serve yet,
and handlers for uncached, atomic and cache-management requests. `src/rtl/tb` is
its SystemC test bench: random and recorded request sequences, a driver, a memory
model, a scoreboard with a golden memory, fault injection, and the path of a
recorded trace from a QEMU plugin through a vendored compressor. This directory
holds TLA+ models of the control logic of both, the TLC runs that check them on
small instances, and TLAPS proofs for instances of any size.

In the models of the RTL a step is one clock cycle of the unit (plus, where a unit
talks to the memory, steps of the memory); in those of the test bench it is a turn
of one thread between two waits. Bit vectors are sets of indexes, one-hot
vectors are singletons, registers are variables, combinational signals are
operators with the names of the source where TLA+ allows it. Lines, tags, bytes
and values are model values.

## Inventory

| component | state | operations | interacts with |
|---|---|---|---|
| write buffer (`hpdcache_wbuf`) | directory FREE/OPEN/PEND/SENT, data buffers, two send FIFOs, arbiters | write (allocate or coalesce), read hit check, flush, send, acknowledge | controller, replay table, memory write channels |
| replay table (`hpdcache_rtab`) | entries with valid/head/tail/error bits, dependencies, next pointers; replay machine; six arbiters | allocate, allocate and link, pop, commit, roll back, wake up | controller stages 0 and 1, write buffer, miss handler, flush controller |
| controller (`hpdcache_ctrl`, `_pe`) | stage 1 and 2 registers, ECC and scrubbing machines | arbitrate stage 0; serve, hold or fail in stage 1; update in stage 2 | everything |
| miss handler, MSHR, refill buffers | MSHR sets, miss machine, refill machine, response FIFOs | allocate a miss, send it, refill, invalidate | memory read channel, directory, replay table |
| flush controller | flush directory, data read machine | allocate, read, send, acknowledge | memory write channel, directory, replay table |
| uncached and atomic handler | one request machine, LR/SC reservation | load, store, atomic, LR, SC | memory, controller |
| cache management handler | one machine | fence, invalidate, flush by line, set and way, or all | controller, directory, flush controller |
| directory and data arrays | tags and state bits of each way, data | lookup, update, victim selection | controller, miss handler, CMO handler |
| victim selection | pseudo-LRU bits or an LFSR | select, update | directory |
| core arbiter | locked requester | grant, lock until the tag | cores, controller |
| stride prefetcher | engines: base, parameters, counters | arm, snoop, submit, wait | core arbiter |
| memory arbiters, response demultiplexers, adapters | locked grants, FIFOs | forward | memory |
| width converters, FIFOs, buffers, arbiters | words, pointers, held grants | write, read, grant | used everywhere |

The test bench:

| component | state | operations | interacts with |
|---|---|---|---|
| sequences | kind, transactions left, the pending LR, allocated ids | draw a request, LR .. SC pairs, replay a trace | driver, scoreboard (ids) |
| driver and top level | request shown, reset phase, end of the run | drive a request, monitor responses, finish | sequence, cache, scoreboard |
| memory response model | memory, exclusive buffers, six threads, request and response fifos | read bursts, pair and perform writes, atomics, LDEX/STEX, error segments | cache, scoreboard |
| scoreboard | requests in flight on three interfaces, forwarded atomics, reservation, golden memory | check a request or a response of the core or of the memory, report | all of the above |
| directory model | tag, valid and recently-used bit of each way | access, invalidate, replace | scoreboard |
| fault injection | none | place a fault mask in the RAM of a way and word | sequences, RAMs |
| trace plugin and trace reader | buffers, compressed file, instructions since the last access | record an access, compress, decompress, decode a transaction | QEMU, compressor, from_trace sequence |
| compressor (`miniz.c`) | ring, lookahead, code buffer, pending output, decoder position | deflate, inflate, build and read Huffman codes and block headers | plugin, reader |

What is hard here: every unit runs in the same clock and sees the others with
one or two cycles of delay; decisions of stage 1 take effect in stage 2; grants
are held over cycles in which the requests change; the memory answers late, out
of order and sometimes with errors; replays are pipelined and may be rolled back
after their successors were offered; tables fill up and wait for each other.
`PROJECT.json` lists these hazards with their lines and the properties about them.

What makes each component correct:

- write buffer: no accepted byte is lost, mixed or reordered; ids and buffers are
  not reused early; a miss of the cache never reads memory too early; it drains;
- FIFOs and buffers: they are FIFOs of their depth;
- replay table: same-line requests in order, nothing forgotten, fences alone,
  errors to the right request, no starvation, no deadlock when full;
- controller: loads see the latest store of their line; a held request is woken;
- miss handler: one refill per line, to the right way, errors reported;
- flush controller: a line is written back once, and its data is not overwritten;
- uncached handler: SC succeeds only with a reservation; one answer per request;
- CMO handler: after it ends, the lines concerned are clean or gone;
- victim selection: never a way that is being fetched;
- memory arbiters: the address and the data of a write stay together;
- test bench: a correct cache is never accused, ids are neither leaked nor freed
  early, the golden memory is what loads return, no write is lost on the way to
  memory, the run ends and ends cleanly;
- directory model: an invalidation takes, a replacement finds a victim;
- traces: what was recorded is what is replayed; compression loses nothing.

`src/rtl/fv/lnt` holds an independent process-algebra (LNT) model of a
write-through configuration; the models here are translated from the RTL.

## Modules

| module | models | role |
|---|---|---|
| `Arbiter` | `hpdcache_fxarb`, `hpdcache_rrarb`, priority encoder | operators: grant and next state |
| `BoundedFifo` | what a FIFO promises at its ports | abstract specification |
| `Fifo` | a FIFO as a sequence | operators used by other models |
| `FifoReg` | `hpdcache_fifo_reg` | pointer implementation, refines `BoundedFifo` |
| `SyncBuffer` | `hpdcache_sync_buffer` | one-entry buffer, refines `BoundedFifo` |
| `Wbuf` | `hpdcache_wbuf` with the memory write channels | component |
| `Rtab` | `hpdcache_rtab` | one cycle under its input signals |
| `RtabCtrl` | `hpdcache_ctrl_pe` stages 0 and 1 as seen by the table | composition |
| `TestTransaction` | `hpdcache_test_transaction.h`, `_mem_resp_model_base.h` | requests, address segments, operations |
| `Amo` | `hpdcache_test_amo.h`, the atomics of the memory model | operators |
| `Scoreboard` | `hpdcache_test_scoreboard.h`, `ram_model.h` | component: one operator per thread |
| `MemRespModel` | `hpdcache_test_mem_resp_model.h`, `mem_model.h` | component |
| `CacheContract` | the cache at its interfaces, from the rules of `hpdcache_ctrl_pe`, `_uncached`, `_miss_handler`, `_flush`, `_cmo` | abstract component |
| `TestSequences` | `sequence_lib` | what a sequence may draw |
| `TestBench` | `hpdcache_tb.cpp`, driver, sequence base class | composition of the five above |
| `PowerUp` | | `TestBench` with the history of what the scoreboard makes of its uninitialised reservation buffer |
| `CacheDirectory` | `generic_cache_directory_{base,plru}.h` | component |
| `FaultInjection` | `hpdcache_fault_injection.h` | operators |
| `Adler32`, `Deflate`, `Inflate` | streaming API of `miniz.c` | components |
| `Huffman`, `BlockCode` | codes and block format of `miniz.c` | operators, with reference definitions |
| `TracePath` | `qemu_plugin.c`, `hpdcache_test_trace_manager.h` | composition with `Deflate` and `Inflate` |
| `DataCases` | | cases of `Amo` and `FaultInjection`, and what is claimed of them |
| `MCWbuf`, `MCRtab`, `MCTestBench`, `MCBlocks` | | instances for TLC |
| `ArbiterTheorems`, `FifoRegProofs`, `WbufProofs`, `RtabProofs`, `TestBenchProofs`, `CoherenceProofs`, `ScoreboardProofs`, `BlockProofs` | | lemmas, theorems, proofs |

### Write buffer

`Clock` is a whole cycle of `wbuf_update_comb`, `wbuf_data_write_comb`,
`wbuf_data_valid_comb` and the send control: a write request (or none) with its
flush inputs, the arbiters, the state of every entry (`FreeNext`, `OpenNext`,
`PendNext`, `SentNext`), the data buffers and the two FIFOs. The memory
(external) takes addresses and data independently, performs a write once it has
both, and acknowledges it by its id, in any order when `InOrder` is FALSE.
`SetCfg` is software writing the `cfig_wbuf` fields at any time; the runs about
coherence keep the write-after-write mode fixed, because order is promised for a mode.
`golden` is the history variable: the value each byte had after the last
accepted write. The life-time counter wraps at `CntMod`; the threshold is
compared in 32 bits as in the code.

### Replay table

`Rtab!Cycle(in)` is one cycle under the input signals `in`: the lists
(`ListCycle`: valid, head, tail, next, request and the replay machine `PopFsm`),
the dependencies and error flags (`DepsCycle`), and the six arbiters
(`ArbCycle`).

The single-entry mode (`singleEntry`, `cfg_single_entry_i`) is a register that is set
before the cache runs and stays. `RtabCtrl` says which inputs occur. Each of its five actions is a cycle: stage 0
takes a replay (`Replay`), a core request (`Accept`) or nothing (`Bubble`), or
the miss handler owns the pipeline (`RefillStart`, `RefillStep`). In the same
cycle stage 1 has one of `Outcomes`: aborted, failed, linked behind requests of
its line, held for a reason, served, or, with error correction and write-back,
answered as unrecoverable. Why a request hits or misses, conflicts or finds a
unit busy is nondeterministic within what the units can be: nothing is in the
way when they are idle, their ready signals are those of the cycle, and they only
get work from the pipeline (`UnitsMove`). Atomics and uncacheable accesses are
one class, "fence"; cache-management requests never enter the table and look like
an aborted request to it. The way of a held request is kept only where it is read
(dependency `dir_fetch`). `older` is a history variable: the held requests of the
same line that came earlier. Stalls of stage 0 by busy handlers are `Bubble`.

### FIFOs

`FifoReg!Cycle` is the pointer implementation with its crossover bit, in both
feedthrough modes; `SyncBuffer!Cycle` the one-entry buffer. Both are shown to
implement `BoundedFifo`, where a cycle may write, read, or let an item cross an
empty buffer.

### Test bench

An action of `TestBench` is a step of one thread together with what the scoreboard
does with it: writing to a scoreboard fifo wakes the scoreboard thread in the same
time stamp. Random delays are interleavings. Addresses are word numbers, data are
words of two bits, byte enables cover whole words (`AmoAgree` treats the parts of a
word). `CacheContract` accepts, executes and answers requests under the rules that
the RTL keeps: requests of a line in order, fences alone on a quiet cache, no miss of
a line while a write of it is outstanding. It is much freer than the RTL otherwise
(evictions, order of answers, store policy), so what the scoreboard accepts from it,
it accepts from any cache within it.

The memory model raises ready, latches the request that is shown, and forwards it.
`AddrReady`/`AddrEdge` and `DataReady`/`DataEdge` keep the clock edges of that
handshake apart, which is where a request can be lost. Memory starts at 0 in the
model and at random values in the code; the golden memory knows neither. The
reservation of the memory model (`excl_buf_m`) is left uninitialised and set before it
is read. That of the scoreboard (`lrsc_buf_m`) is not: a store-conditional that comes
before any load-reserved is compared with whatever the storage held. `LrscPowerUp` is
the set of what it may have held, and `PowerUp` adds two history variables: `lrTaken`,
a load-reserved has been taken, and `misled`, a store-conditional matched the buffer
before that. Run `tb_garbage` shows what goes wrong then; the theorems of
`ScoreboardProofs` say that it is all that does.

`ReadPush` reads the memory in the step in which the thread pushes the word; the code
reads it just before it waits for a place in its fifo
(`hpdcache_test_mem_resp_model.h:172`, `:191`). No write of a line is under way while a
read of it is, so the value is the same.

In a fill the scoreboard shifts a byte mask by `_byte - i*8`, a negative amount for
every word but the first: undefined, so `FillSets` lets any subset of those words in.

Not in the model: sizes below a word, performance counters and the miss counters of
the final report, `max_cycles` and the error limit, the drawing of faults.

### Directory model

One variable per array of `generic_cache_directory_plru`. `DirRepl` is `repl()` for a
response in one piece; with one way the second refill of a set fails the assertion
`all plru bits are set`, hence `Ways > 1`. The scoreboard only uses it when
`ENABLE_CACHE_DIR_VERIF` is set, which it is not by default.

### Traces and compression

`TracePath` goes from a memory access under QEMU to a transaction of the test bench:
`mem_cb` makes a record, `write_buffer` and `write_output` compress a full buffer
through output buffers of the same size, the reader decompresses chunk by chunk and
decodes. `Deflate` and `Inflate` are the two machines of the library at the level of
units (header, block header, literal, match, end of block, stored byte, trailer);
which of the matches of the window the search finds is nondeterministic, whether a
block is stored or coded too. `BlockCode` says how the units of a block become
symbols after the lengths of their codes, `Huffman` how the codes are made and read:
the in-place minimum-redundancy algorithm against the textbook one (`LeastCost`), the
cut to the limit, run lengths, lookup table and tree.

At exit the plugin compresses what is left in its buffer with a loop that compares
with the number of bytes less one (`qemu_plugin.c:83`). A single byte is dropped and
the stream is left unfinished; the reader then never sees the end and goes on with
stale bytes. With no byte the bound wraps: the compressor is called for ever without an
output buffer, although the comment at line 397 expects the file to be closed.
`TraceRecovered` is therefore stated for more than one byte, `TraceFaithful` until
the reader is past its data (`stale`). Also outside the model: a 32-bit target writes
addresses of 4 bytes where the reader takes 8; a 128-bit store writes no value where
the reader takes 8 bytes; `compress=false` files cannot be read.

## Runs

| run | checks | result |
|---|---|---|
| `wbuf_sequential` | coherent writes, one active entry per block, safe read misses, frozen announced writes; two blocks of two bytes, unordered memory, sequential WAW | holds |
| `wbuf_full` | buffer ownership, ids, pairing of the channels, held grants; three entries over two data buffers, WAW mode switched at any time | holds |
| `wbuf_liveness` | every entry drains; coherence with several entries of a block in flight, relaxed WAW, ordered memory | holds |
| `wbuf_zero_threshold` | an OPEN entry closes also with threshold 0 | violated |
| `blocks` | one behaviour per block: FIFO pointers and the refinement of `BoundedFifo` at depth 3, the one-entry buffer; the directory model (3 ways, 2 sets, 5 lines); atomics computed twice; fault masks in four configurations; Huffman codes, block headers, all match lengths and distances; traces of up to three accesses written and read back | holds |
| `rtab_order` | order, no orphan, fences, link targets, errors of failed refills, every replay resolved; the single-entry mode, with other dependencies | holds |
| `rtab_grants` | held grants of the wake-up arbiters | holds |
| `rtab_live` | ready requests are replayed | holds |
| `rtab_ecc` | every replay resolved, with error correction and write-back | violated |
| `tb` | no false error, ids, golden memory, no write lost, reservations, clean end, termination; random, read, write and trace sequences of two requests, or one between LR and SC; 64-bit write-through and line-wide write-back configurations | holds |
| `tb_garbage` | no false error when the buffer powers up as a reservation in an error segment | violated |
| `tb_fifo_full` | no write lost when the request fifo of the memory model fills | violated |

Four runs show disagreements between the code and its documents or assertions:

- an entry that is OPEN when software sets the threshold to 0 never times out;
- a replay that meets an uncorrectable error in a write-back cache is answered
  but neither committed nor rolled back, against the assertion
  `rtab: a pop try shall be followed by a commit or rollback`: its entry leaks;
- a thread of the memory model that waits for a place in its fifo keeps ready raised
  and so takes requests that it never forwards;
- the reservation buffer of the scoreboard is not initialised
  (`hpdcache_test_scoreboard.h:349`), and a store-conditional with no load-reserved
  before it, which the random sequence draws (`hpdcache_test_random_seq.h:124`), may be
  taken to match it. The comment at line 583 wants a failure without error then; with
  garbage in an error segment the scoreboard reports the correct answer as an error and
  its identifier is never given back; elsewhere it waits for an atomic write that the
  cache does not send.

One more disagreement was met and has no run: `architecture.rst` (line 1341) describes
SENT as the state after the data was transferred, while the entry is SENT once its
address is taken and its data may still be in the FIFO (`hpdcache_wbuf.sv:531`).

### Bounds

Write buffer: two or three directory entries, one or two data buffers (so that
either runs out first), two blocks in one or two lines, one or two bytes, one or two
values, counters modulo 2 or 4 with thresholds 0 to 2. A block gathered over several
writes, two writes of a block in flight with a third gathering, and a full pair of
FIFOs all occur. Replay table: three entries and two lines give lists of three, two
lists at once, and a full table; two sets separate the waiters of the wake-up
arbiters; each run raises the dependencies its property is about, for each mode of the
table that it starts in (`Raised`), the
others cannot matter to it. FIFO depth 3 is the smallest where the pointers wrap at
a size that is not a power of two.

Test bench: four words (a line of two, one in an error segment, one uncached), two
identifiers, one read and two write identifiers on the memory side, a write request
fifo of three places (the smallest that never fills here; `tb_fifo_full` uses one).
The sequences draw loads, stores, LR with its SC, one atomic (ADD) and one management
operation (FLUSH_INVAL_NLINE): the other atomics differ in their arithmetic only,
which `AmoAgree` covers, and the other flushes and the fence in their scope. The
unique_set sequence draws like the random one, over other segments, and is left out
of the run. Two requests suffice for every pair of these operations, of a line or of
two, to overlap, and for an access between LR and SC. A store-conditional is also
drawn on its own. In `tb` the reservation of the scoreboard powers up empty
(`MCLrscZero`), in `tb_garbage` as one in the error segment; the proofs are about any.

Compression: a ring of 16 bytes and
matches of 3 to 5, so that the window wraps, matches overlap their copy, and blocks,
output buffers, ring and chunks end at different places; a fast table of one bit, so
that most codes go through the tree; zero runs of up to 14; match tables at full size,
with 3 literals.

The proofs remove the bounds for the properties they cover.

`VIEW Observable` hides registers that nobody reads before they are written again
(fields of free entries, bytes of free buffers, the next pointer of a tail, the
pointer of an idle replay machine): states that differ only there have the same
behaviours. The symmetric runs of the write buffer permute the byte values, which no
action compares, the bytes, and the blocks of a single line; liveness runs use no symmetry.

### Fairness

Write buffer (`Fairness`): the clock runs, and the memory some day takes an
offered address and data item, performs what it received and acknowledges it:
the AXI-like protocol of the interface (`docs/source/interface.rst`) requires it.
Replay table (`FairSpec`): the clock runs (weak fairness of `Next`), and a replay
that is offered again and again is taken (strong fairness of `Replay`): in
`ctrl_pe` only a nop, a refill or a busy handler holds it back, each of which
ends, and new core requests do not compete with replays. Nothing is assumed about
the choice among replays, about dependencies being resolved, or about roll-backs.
Test bench (`Spec`): the simulation goes on as long as some thread can take a step
(weak fairness of `Next`): it is a clocked simulator. Nothing is assumed about which
step it is: delays are bounded because every run has finitely many requests.
Trace (`TraceWork`): the plugin and the reader go on with work they have begun; the
program under QEMU may stop at any time.

## Proofs

All theorems hold for every value of the constants under the named assumptions.

- `ArbiterTheorems`: grants are one-hot and among the requests; a grant is held.
- `FifoRegProofs`: `Pointers` (the inductive invariant of pointers and crossover
  bit) and `Refinement` (every cycle of the pointers is a cycle of `BoundedFifo`).
  The refinement needs the invariant: without it the content of the buffer, read
  from the pointers, is not a function of the history.
- `WbufProofs`: the inductive invariant `IInv` is the conjunction of `TypeOK`,
  `HeldGrantsValid`, `OneActiveEntryPerTag` and `BufferOwnership`. They need each
  other: a buffer granted to a new entry is free only if the held grant is, and
  the hit that coalesces is unique only with one active entry. `Frozen` follows as
  an action property.
- `WbufProofs`, with the memory: on top of it, first `IdsOutstanding` and `PairedChannels`, for any
  memory. Their inductive invariant `ChanInv` adds `AnnouncedTags`, an announced write
  carries the block of its entry. Then `Coherent` and `MissesSafe`. `WritesCoherent`
  speaks of the last write of a byte in a chain of places (buffer, FIFOs, memory
  queues, memory); `Drained` says the same by quantifiers, so that a step can be
  followed byte by byte, and `CohInv` is `ChanInv` with `Drained` for every byte and
  `OneEntryPerTag`. The step that matters is the memory performing a write: it must be
  the oldest announced one of its block (`PerformsOldest`). That is the assumption
  `KeepsOrder`: the memory is in order, or every setting of `cfig_wbuf` has sequential
  WAW, in which case a block has one entry in use and so one write in flight. It is
  what `architecture.rst` (line 1329) asks of a system that relaxes the order of writes.
- `RtabProofs`: the inductive invariant `IInv` relates the lists to the history
  `older`: heads and the replay in stage 1 have nothing older, a link leads to the
  next younger request, a tail is younger than everything of its line (`OrderInv`);
  the pipeline and the replay machine are in step (`PipeInv`); only heads wait
  (`DepInv`); there is one held fence at most, released alone (`FenceInv`); error
  flags belong to resolved write misses (`ErrorInv`); `SingleInv`. None of the
  properties is inductive alone: the order of replays rests on the links, those on
  the tails, and those on which entry the machine will offer next. The proof has
  two layers: every cycle is one of four steps on the lists (hold, link, roll back,
  advance; `MoveSteps`), and every step keeps each part of the invariant. The
  theorems assume `~(EccEn /\ WbEn)`: with both, `ReplayResolved` is false (run
  `rtab_ecc`) and with it the invariant. `GrantsHeld` needs its own invariant
  (`GrantInv`): the wake-up arbiters of the refill hold entries that still wait; those
  that ask the write buffer may hold an entry after its dependency is gone, but then
  the choice between the two is held as well, and no entry waits for both.
- `BlockProofs`, the directory model: `ReplFindsVictim` and `InvalidationTakes`, for any
  number of ways above one, sets and lines. The inductive part is `TagsOrdered`, a valid way has
  no way before it with its tag, valid or not. It is kept by `repl()` because the ways
  before the first empty one are valid and do not hit. With it, the first way with the
  tag is the one that holds the line.
- `TestBenchProofs` has three parts.
  `IdsNotLeaked` and `FinishesClean` hold as long as the scoreboard has printed nothing,
  whatever the cache answers: after a printed error the scoreboard skips its
  bookkeeping, and the statements are false. `Books` is the inductive part: allocated
  identifiers, table and counters agree, the identifier shown by the driver is not in
  the table yet, and once the driver has seen an empty table it stays empty. Only
  three messages break them, an answer that the table does not expect, one with another
  error than it expects, and a full queue of atomics (`BookMessages`); `ScoreboardProofs`
  shows that none is printed.
  `NoWriteLost` follows a write through the memory model: `Track` is the sequence of
  identifiers from the channel through the request fifo, the performing thread and the
  response fifo, and `PathInv` says that it has each busy identifier once. The
  assumption `FifoHolds` gives the request fifo (16 places, the default of SystemC) a
  place for every write identifier: true of `default_config.mk` (8 entries of the write
  buffer, 4 of the flush controller, one uncached identifier), `embedded_config.mk` and
  `directmap_config.mk`, not of `hpc_config.mk` (16, 8 and 1). Without it the thread
  that takes addresses waits with ready raised, and run `tb_fifo_full` loses a write.
  `WriteTable` adds the scoreboard: its table of writes is the part of the track that
  was performed and not yet answered (`TableInv`), so that `mem_write_id` and
  `mem_write_resp_id`, two of the messages in `NoFalseError`, are never printed.
- `CoherenceProofs` follows requests, reads and writes through cache, channels and memory
  model. The inductive invariant is a conjunction of six parts on top of `PathInv`.
  `PairInv`: the address and the data of the writes on their two channels are those of
  the same writes in the same order, and their words are those the cache counts as being
  written (`wrBusy`), up to the thread that joins them. `LegalInv`: a request in the cache
  is one that the sequences draw (an uncached segment is only accessed uncached, for one).
  `OrderInv`: a fence comes last, an uncached access that waits is alone, and of the
  requests that wait for a line none is of the line of an older one. `BusyInv`: a busy
  identifier is about a request that waits, and no two reads are about one line. `ReadInv`:
  every busy read is in one place, asked for, being answered, answered or owed by an
  atomic, and the answers of a burst are in one piece; so a last answer ends its read.
  `ReserveInv`: no write of the reserved word is on its way and the word is not dirty, and
  so it is while a load-reserved is out. The theorems are `WritesPaired`, `ReadsInOnePlace`
  and `ReservationKept`, which is `ReservationHolds`: a write that the memory performs is
  the oldest of the channels, so its words are among those of `wrBusy`, and the reserved
  word is not. They assume `FifoHolds`, and `NoneHasNoId`: the value that stands for "no
  response" is not itself a record with an identifier.
- `ScoreboardProofs`: what the scoreboard says of a cache that keeps its contract.
  `ErrorsInPlace` follows the errors: a request is in an error segment exactly when the
  access it is made for is (`RightReads`, `RightWrites`), a response has the error of its
  access, and no word that the cache holds or has reserved is in such a segment
  (`RightCache`). It assumes `ErrorsByLine`, error segments begin and end with a line:
  the random sequence takes multiples of `0x200` (`hpdcache_test_random_seq.h:347-356`)
  and a line has at most 64 bytes. `ScoreboardFollows` compares each table with the
  cache: every request in the cache that wants an answer is in the table with its error
  and, for a store-conditional, with what will become of it (`TableOk`); the reservation
  is that of the cache after the requests it holds (`LrscFollows`); the queue of atomics has
  one entry at most, that of the youngest request, until the memory sees it
  (`AmoFifoInv`); the table of reads has those taken and not answered to the end
  (`ReadsSeen`). They need each other, and all of `CoherenceProofs` and `WriteTable`: a
  response is expected because its read is in one place, an error is right because the
  request is. So of all messages only `wrong_data` is left. Nothing is assumed of
  the reservation buffer at power-up. Until the first load-reserved the reservation is
  as `LrscFollows` says, or nothing is reserved whatever the buffer holds
  (`Unreserved`): a request that does not match the buffer leaves either as it is, a
  load-reserved makes the first true, and from then on it stays. So the invariant is
  `misled \/ (BoardInv /\ Synced)`, where `Synced` is `lrTaken => LrscFollows`, and
  `ScoreboardFollows`, `IdsMatch` and `StopsClean` are about `PowerUpSpec` and say what
  holds as long as `misled` does not. Run `tb_garbage` shows that this proviso is needed.
- `BlockProofs`, the others: `BufferIsFifo`, each cycle of the one-entry buffer is a cycle of
  `BoundedFifo` with depth one, in both feedthrough modes. `FaultsPlaced`, the statement
  `Placed` that `FaultPlaced` checks in four configurations, for every geometry with
  words of at least a chunk (`hpdcache.sv:1291` asserts 32 or 64 bits) and lines of
  whole accesses (line 1297, both are powers of two): the argument is that the cuts of
  `set_data_error` at multiples of 32 put bit `i` of the mask at bit
  `way * width + i` of the RAM word; `FaultsOfCases` is its instance for the run.
  `AmosAgree` is `AmoAgree` for every even width of the words: bit `i` of the part of a
  word that is accessed is bit `offset + i` of the word, a value of `n` bits has none
  above, and the bits of the complement `2^n - 1 - v` are the others, so the bits that a
  CLR of the complement leaves are those that an AND keeps.

Assumptions on constants are those the modules name; four are for the proofs: depths and
sizes are positive, `None` is not a response (`TestBenchAssumption`), and the uncached
segment has no address of another one (`SegmentsAssumption`; the sequences set their
bases apart, `hpdcache_test_random_seq.h:32-54`). `PowersOfTwo` in `Amo` is not about the
code: it says how `2^i` doubles, arithmetic that the provers do not know and TLC
evaluates.

Only model-checked, and why:

- liveness (`EntryDrains`, `ReadyReplayed`, `Terminates`, `TraceRecovered`): fairness is
  out of the prover's reach;
- `HuffmanInverse`, `RoundTrip`, `TraceFaithful`: the modules they are about use recursive
  operators, which the provers cannot expand;
- of the test bench `TypeOK`, the message `wrong_data` of `NoFalseError`, and `RamIsGolden`:
  they need an invariant of all data between cache, channels, memory and golden memory,
  the next step of the plan.

## Not modelled, and the plan

The cache behind `CacheContract` in more detail, in this order:

1. `MissHandler`: MSHR, miss and refill machines, refill buffers; one refill per
   line, errors of any chunk, no allocation lost.
2. `Flush`, and the composition of the pipeline with directory, MSHR, write buffer,
   flush controller and replay table, where dependencies have their real causes; it
   should implement `CacheContract`.
3. `Uncached` with its intermediate states; the set walk of `Cmo`; ECC correction
   and scrubbing.
4. `CoreArbiter`, `VictimPlru`, `WriteArbiter`, `DataResize`, `HwpfStride`.
5. Proofs: the data of the test bench, that is `RamIsGolden` and the message `wrong_data`:
   where the last write of a word is, among the requests of the cache, its lines, the
   channels and the memory, and that the golden memory is ahead of it by these.

Not planned: RAM geometry and primitives, SECDED code words (generated),
performance counters, AXI signal renaming, the processor glue; of the test bench
logging, command line and wave dumps; of `miniz.c` the ZIP archive reader and writer,
CRC-32, PNG writer, the memory-to-memory and callback variants of the API, and the
parser that is only compiled for unaligned loads: neither the plugin nor the test
bench calls them. `src/rtl/fv/lnt` is a model already.
