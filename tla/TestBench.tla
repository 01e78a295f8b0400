------------------------------ MODULE TestBench ------------------------------
(***************************************************************************)
(* The test bench as a whole: a sequence feeds the driver, the driver the  *)
(* cache, the cache the memory model, and the scoreboard observes all four *)
(* channels.  The cache is the contract of module CacheContract.           *)
(*                                                                         *)
(* The threads run on clock edges; a delay of any number of cycles is an   *)
(* interleaving.  Writing to a scoreboard fifo wakes the scoreboard thread *)
(* in the same time stamp, so a step and what the scoreboard does with it  *)
(* are one action.                                                         *)
(***************************************************************************)
EXTENDS Scoreboard, MemRespModel, CacheContract, TestSequences

CONSTANT MaxTransId   \* HPDCACHE_REQ_MAX_TRANS_ID

VARIABLES phase,      \* simulate(): "pre" and "reset" cycles, "init" of the directory, "run"
          drv,        \* drive_request: [pc, t]
          sampled     \* the driver has passed a falling edge since it began to drain

tbVars == <<conf, phase, drv, sampled>>
vars == <<sbVars, memVars, cacheVars, seqVars, tbVars>>

\* The identifiers the memory model and the cache use agree.
ASSUME TestBenchAssumption ==
    /\ MemIds = ReadIds \cup WriteIds \cup {UcId}
    /\ UcId \notin ReadIds \cup WriteIds
    /\ MaxTransId \in Nat \ {0}
    /\ None \notin [id : MemIds, is_atomic : BOOLEAN, error : BOOLEAN]

Init ==
    /\ conf \in Configs
    /\ ScoreboardInit /\ MemInit /\ CacheInit /\ SequenceInit
    /\ phase = "pre"
    /\ drv = [pc |-> "idle", t |-> None]
    /\ sampled = FALSE

\* rst_ni is 1 for five cycles, 0 for five cycles, 1 from then on; the cache
\* takes requests once its directory is initialised.
Simulate ==
    /\ phase # "run"
    /\ phase' = CASE phase = "pre" -> "reset" [] phase = "reset" -> "init" [] phase = "init" -> "run"
    /\ UNCHANGED <<sbVars, memVars, cacheVars, seqVars, conf, drv, sampled>>

-----------------------------------------------------------------------------
\* The sequence takes an identifier and sends the transaction; the driver shows
\* it to the cache.  Sequences other than from_trace look at the reset once,
\* before their first transaction.
Started == sq.n > 0 \/ sq.lr # None
MaySend == drv.pc = "idle" /\ (kind = "from_trace" \/ Started \/ phase # "reset")
Send(req) ==
    /\ \E id \in allocate_id(MaxTransId) :
           /\ ids' = ids \cup {id}
           /\ drv' = [pc |-> "valid", t |-> Put(req, "tid", id)]
    /\ UNCHANGED <<sbTables, nbNeed, nbResp, noInflight, errors, memVars, cacheVars,
                   kind, len, conf, phase, sampled>>

SequenceMain == MaySend /\ \E req \in Draws[kind] : DrawMain(req) /\ Send(req)
SequenceBetween == MaySend /\ sq.left > 0 /\ \E req \in Draws[kind] : DrawBetween(req) /\ Send(req)
SequenceSc == MaySend /\ sq.lr # None /\ \E req \in ScReqs(sq.lr) : DrawSc(req) /\ Send(req)

\* The driver is asked to stop: it waits for the end of what is in flight.
SequenceStop ==
    /\ drv.pc = "idle" /\ SequenceOver
    /\ drv' = [pc |-> "drain", t |-> None]
    /\ sampled' = FALSE
    /\ UNCHANGED <<sbVars, memVars, cacheVars, seqVars, conf, phase>>

\* The cache takes the request; the driver tells the sequence and the scoreboard.
DriveRequest ==
    /\ phase = "run" /\ drv.pc = "valid"
    /\ Accept(drv.t)
    /\ core_req_process(errorsegs, drv.t)
    /\ drv' = [pc |-> "idle", t |-> None]
    /\ UNCHANGED <<memVars, seqVars, conf, phase, sampled>>

\* A falling edge: the scoreboard publishes whether anything is in flight.  Only
\* the driver looks, and only while it drains: the other edges are left out.
CheckInflight ==
    /\ drv.pc = "drain"
    /\ check_inflight_requests
    /\ sampled' = TRUE
    /\ UNCHANGED <<memVars, cacheVars, seqVars, conf, phase, drv>>

\* Mutant: the driver stops without waiting.
DriverFinish_AtOnce ==
    /\ drv.pc = "drain"
    /\ drv' = [drv EXCEPT !.pc = "finish"]
    /\ UNCHANGED <<sbVars, memVars, cacheVars, seqVars, conf, phase, sampled>>

\* A rising edge while the driver drains: the simulation stops when nothing was
\* in flight at the edge before.
DriverFinish ==
    /\ drv.pc = "drain" /\ sampled /\ noInflight
    /\ drv' = [drv EXCEPT !.pc = "finish"]
    /\ UNCHANGED <<sbVars, memVars, cacheVars, seqVars, conf, phase, sampled>>

-----------------------------------------------------------------------------
\* Steps of the cache that end with a response to the core, which the driver
\* passes to the scoreboard (monitor_response).
Answer(a) == IF a = None THEN UNCHANGED sbVars ELSE core_resp_process(a)
CacheHit == \E i \in 1 .. Len(cq) : LoadHit(i) /\ Answer(LoadHitAnswer(i))
CacheStore == \E i \in 1 .. Len(cq) : Store(i) /\ Answer(Response(cq[i].t, FALSE, 0))
CacheCmo == \E i \in 1 .. Len(cq) : CmoDone(i) /\ Answer(Response(cq[i].t, FALSE, 0))
CacheScFail == \E i \in 1 .. Len(cq) : ScFail(i) /\ Answer(Response(cq[i].t, FALSE, 1))
\* Steps of the cache that the test bench does not see.
CacheMiss == (\E i \in 1 .. Len(cq) : Miss(i)) /\ UNCHANGED sbVars
CacheUncached == (\E i \in 1 .. Len(cq) : Uncached(i)) /\ UNCHANGED sbVars
CacheFlush == (\E w \in Words : FlushLine(w)) /\ UNCHANGED sbVars
CacheEvict == (\E w \in Words : Evict(w)) /\ UNCHANGED sbVars

CacheStep == (CacheHit \/ CacheStore \/ CacheCmo \/ CacheScFail \/ CacheMiss \/ CacheUncached)
                 /\ UNCHANGED <<memVars, seqVars, tbVars>>
CacheMove == (CacheFlush \/ CacheEvict) /\ UNCHANGED <<memVars, seqVars, tbVars>>

-----------------------------------------------------------------------------
\* The read channel.
MemReadSee == /\ rdReq # <<>>
              /\ ReadSee(Head(rdReq)) /\ mem_read_req_process(Head(rdReq))
              /\ UNCHANGED cacheVars
MemReadTake == /\ ReadTake(errorsegs)
               /\ rdReq' = Tail(rdReq)
               /\ UNCHANGED <<sbVars, cq, cached, dirty, rsrv, wrAddr, wrData, rdBusy, wrBusy>>
MemReadPush == ReadPush(errorsegs) /\ UNCHANGED <<sbVars, cacheVars>>
MemReadShow == ReadRespShow /\ mem_read_resp_process(Head(readRespFifo)) /\ UNCHANGED cacheVars
CacheTakesRead == /\ ReadRespTaken
                  /\ \/ ReadBeat(rdOut) /\ UNCHANGED sbVars
                     \/ Refill(rdOut) /\ Answer(RefillAnswer(rdOut))
                     \/ UncachedRead(rdOut) /\ Answer(UncachedReadAnswer(rdOut))

\* The write channels: while a ready is raised, every rising edge takes the
\* flit that the cache shows, if it shows one.
Rest(s) == IF s = <<>> THEN s ELSE Tail(s)
MemAddrReady == wrAddr # <<>> /\ AddrReady(Head(wrAddr)) /\ UNCHANGED <<sbVars, cacheVars>>
MemAddrEdge == /\ AddrEdge /\ wrAddr' = Rest(wrAddr)
               /\ UNCHANGED <<sbVars, cq, cached, dirty, rsrv, rdReq, wrData, rdBusy, wrBusy>>
MemDataReady == wrData # <<>> /\ DataReady(Head(wrData)) /\ UNCHANGED <<sbVars, cacheVars>>
MemDataEdge == /\ DataEdge /\ wrData' = Rest(wrData)
               /\ UNCHANGED <<sbVars, cq, cached, dirty, rsrv, rdReq, wrAddr, rdBusy, wrBusy>>
MemWriteTake == (WriteMeta \/ WriteData \/ WritePushRead \/ WritePush) /\ UNCHANGED <<sbVars, cacheVars>>
MemWriteRun == WriteRun(errorsegs) /\ mem_write_req_process(wp.req) /\ UNCHANGED cacheVars
MemWriteShow == WriteRespShow /\ mem_write_resp_process(Head(writeRespFifo)) /\ UNCHANGED cacheVars
CacheTakesWrite == /\ WriteRespTaken
                   /\ \/ WriteAck(wrOut) /\ UNCHANGED sbVars
                      \/ UncachedWrite(wrOut) /\ Answer(UncachedWriteAnswer(wrOut))

MemStep ==
    /\ \/ MemReadSee \/ MemReadTake \/ MemReadPush \/ MemReadShow \/ CacheTakesRead
       \/ MemAddrReady \/ MemAddrEdge \/ MemDataReady \/ MemDataEdge
       \/ MemWriteTake \/ MemWriteRun \/ MemWriteShow \/ CacheTakesWrite
    /\ UNCHANGED <<seqVars, tbVars>>

-----------------------------------------------------------------------------
SequenceStep == SequenceMain \/ SequenceBetween \/ SequenceSc \/ SequenceStop

\* The simulation is over; the destructor of the scoreboard then reports.
Finished == drv.pc = "finish"
Over == Finished /\ UNCHANGED vars

Next ==
    \/ ~Finished /\ (Simulate \/ SequenceStep \/ DriveRequest \/ CheckInflight \/ DriverFinish
                       \/ CacheStep \/ CacheMove \/ MemStep)
    \/ Over

\* The clock runs: as long as a thread, the cache or the memory model can make a
\* step, one of them does.
Spec == Init /\ [][Next]_vars /\ WF_vars(Next)

-----------------------------------------------------------------------------
MemReq == [id : MemIds, addr : Words, size : 1 .. LineWords, command : MemCommands]

TypeOK ==
    /\ ids \subseteq 0 .. (MaxTransId - 1) /\ DOMAIN inflight \subseteq ids
    /\ DOMAIN memRead \subseteq MemIds /\ DOMAIN memWrite \subseteq MemIds
    /\ \A w \in Words : ram[w] \in Value \cup {None} /\ cached[w] \in Value \cup {None}
    /\ mem \in [Words -> Value] /\ dirty \subseteq Words
    /\ \A i \in 1 .. Len(wrAddr) : wrAddr[i] \in MemReq
    /\ Len(readRespFifo) =< RespDepth /\ Len(writeRespFifo) =< RespDepth
    /\ Len(writeReqFifo) =< WriteReqDepth /\ Len(writeDataFifo) =< WriteReqDepth
    /\ phase \in {"pre", "reset", "init", "run"}
    /\ drv.pc \in {"idle", "valid", "drain", "finish"}

\* A cache that keeps its contract is never accused: no thread of the
\* scoreboard and no sequence prints an error.
NoFalseError == errors = {}

\* An identifier is allocated as long as its request is with the driver or in
\* the table of the scoreboard: ids are neither leaked nor freed early.
IdsMatchInflight ==
    ids = DOMAIN inflight \cup IF drv.pc = "valid" THEN {drv.t.tid} ELSE {}

\* When the cache is at rest, the golden memory agrees with what a load would
\* return, word by word, wherever it is set.  A load of the uncached segment
\* looks in the memory, even if a prefetch has brought the word into the cache.
View(w) == IF cached[w] = None \/ (kind = "random" /\ w \in SegWords[3]) THEN mem[w] ELSE cached[w]
AtRest == cq = <<>> /\ Quiet
RamIsGolden ==
    AtRest => \A w \in Words :
        ram[w] = None \/ within_error_region(errorsegs, w, w + 1) \/ ram[w] = View(w)

\* A write the cache sent is never lost: until its response is taken it is shown
\* on the channel, or in one of the threads and fifos of the memory model.
WriteSomewhere(id) ==
    \/ \E i \in 1 .. Len(wrAddr) : wrAddr[i].id = id
    \/ wa.pc = "full" /\ wa.r.id = id
    \/ \E i \in 1 .. Len(writeReqFifo) : writeReqFifo[i].id = id
    \/ wp.pc # "meta" /\ wp.req.id = id
    \/ \E i \in 1 .. Len(writeRespFifo) : writeRespFifo[i].id = id
    \/ wrOut # None /\ wrOut.id = id
WritesForwarded == \A id \in DOMAIN wrBusy : WriteSomewhere(id)

\* When the simulation stops, the checks of the scoreboard's destructor find
\* every response received and every identifier released.
FinishClean == Finished => FinalErrors = {} /\ inflight = <<>>

\* Memory is not written under a reservation that the cache still believes in:
\* the memory model itself would let the store-conditional succeed.
ReservationHolds ==
    [][wp.pc = "run" /\ wp.req.command # "STEX" /\ mem' # mem
           => ~(rsrv.valid /\ mem'[rsrv.addr] # mem[rsrv.addr])]_vars

\* Every run comes to its end: the sequence gets its identifiers back, the cache
\* every answer it waits for, and the driver sees that nothing is in flight.
Terminates == <>Finished
=============================================================================
