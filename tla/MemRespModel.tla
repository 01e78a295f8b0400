---------------------------- MODULE MemRespModel ----------------------------
(***************************************************************************)
(* The memory behind the cache in the test bench.  Six threads: one takes  *)
(* read requests, two take the address and the data of writes, one pairs   *)
(* and performs the writes, two send responses.  Random delays are the     *)
(* interleaving of their steps.  What a step also shows to the scoreboard  *)
(* or to the cache is added by the composition.                            *)
(*                                                                         *)
(* A request on a channel is given by the cache as the head of a sequence  *)
(* and stays there until the ready of the thread takes it.                 *)
(***************************************************************************)
EXTENDS TestTransaction, TLC

CONSTANTS MemIds,          \* identifiers on the memory interface
          WriteReqDepth,   \* depth of the write request fifos (16, the sc_fifo default)
          RespDepth        \* depth of the response fifos (2)

ASSUME MemAssumption == WriteReqDepth \in Nat \ {0} /\ RespDepth \in Nat \ {0}

VARIABLES mem,             \* contents of the memory
          excl,            \* exclusive reservation of each identifier
          rd,              \* read_process: [pc, req, beat]
          readRespFifo,
          rdOut,           \* read response shown to the cache, or None
          wa, wd,          \* write_address_process, write_data_process: [pc, r]
          writeReqFifo, writeDataFifo,
          wp,              \* write_process: [pc, req, rresp, resp]
          writeRespFifo,
          wrOut            \* write response shown to the cache, or None

rdVars == <<rd, excl>>
wpVars == <<wp, writeReqFifo, writeDataFifo>>
waVars == <<wa, wd>>
respVars == <<readRespFifo, rdOut, writeRespFifo, wrOut>>
memVars == <<mem, rdVars, wpVars, waVars, respVars>>

\* The memory starts with random contents, of which one is tried: the golden
\* memory knows none of them.  The exclusive buffers are not initialised; a store-exclusive is only sent
\* after a load-exclusive with the same identifier, which sets its buffer.
MemInit ==
    /\ mem = [w \in Words |-> 0]
    /\ excl = [i \in MemIds |-> [valid |-> FALSE, addr |-> CHOOSE w \in Words : TRUE]]
    /\ rd = [pc |-> "idle", req |-> None, beat |-> 0]
    /\ readRespFifo = <<>> /\ rdOut = None
    /\ wa = [pc |-> "idle", r |-> None] /\ wd = [pc |-> "idle", r |-> None]
    /\ writeReqFifo = <<>> /\ writeDataFifo = <<>>
    /\ wp = [pc |-> "meta", req |-> None, rresp |-> None, resp |-> None]
    /\ writeRespFifo = <<>> /\ wrOut = None

-----------------------------------------------------------------------------
readMemory(w) == mem[w]

\* The memory after the enabled words data are written.
writeMemory(data) == Written(mem, data)

-----------------------------------------------------------------------------
\* readOperation: the request is shown to the scoreboard before it is taken.
ReadSee(req) ==
    /\ rd.pc = "idle"
    /\ rd' = [pc |-> "ready", req |-> req, beat |-> 0]
    /\ UNCHANGED <<mem, excl, wpVars, waVars, respVars>>

\* The ready handshake, and the reservation of a load-exclusive.
ReadTake(segs) ==
    /\ rd.pc = "ready"
    /\ rd' = [rd EXCEPT !.pc = "push"]
    /\ excl' = IF rd.req.command = "LDEX" /\ ~within_error_region(segs, rd.req.addr, rd.req.addr + rd.req.size)
               THEN [excl EXCEPT ![rd.req.id] = [valid |-> TRUE, addr |-> rd.req.addr]] ELSE excl
    /\ UNCHANGED <<mem, wpVars, waVars, respVars>>

\* One response per beat, waiting while the response fifo is full.
ReadPush(segs) ==
    LET error == within_error_region(segs, rd.req.addr, rd.req.addr + rd.req.size)
        first == rd.req.addr + rd.beat * rd.req.size
        last  == rd.beat = rd.req.len
    IN  /\ rd.pc = "push"
        /\ Len(readRespFifo) < RespDepth
        /\ readRespFifo' = Append(readRespFifo,
               [id |-> rd.req.id, error |-> error, last |-> last,
                data |-> [k \in 1 .. rd.req.size |-> IF error THEN 0 ELSE readMemory(first + k - 1)]])
        /\ rd' = IF last THEN [pc |-> "idle", req |-> None, beat |-> 0]
                         ELSE [rd EXCEPT !.beat = @ + 1]
        /\ UNCHANGED <<mem, excl, wpVars, waVars, rdOut, writeRespFifo, wrOut>>

-----------------------------------------------------------------------------
\* Ready is raised and the shown flit is latched; it is forwarded at once when
\* the fifo has a place.  Ready stays raised for one more rising edge ("last"),
\* and for all the edges of the wait when the fifo was full ("full").
Ready(fifo, flit) == [pc |-> IF Len(fifo) < WriteReqDepth THEN "last" ELSE "full", r |-> flit]
\* Mutant: a flit is forwarded only to an empty fifo.
Forward_Single(fifo, flit) == IF fifo = <<>> THEN <<flit>> ELSE fifo
Forward(fifo, flit) == IF Len(fifo) < WriteReqDepth THEN Append(fifo, flit) ELSE fifo

\* write_address_process
AddrReady(flit) ==
    /\ wa.pc = "idle"
    /\ wa' = Ready(writeReqFifo, flit)
    /\ writeReqFifo' = Forward(writeReqFifo, flit)
    /\ UNCHANGED <<mem, rdVars, wp, writeDataFifo, wd, respVars>>

\* A rising edge with ready raised; the composition lets the cache drop the
\* flit it shows.  After the edge the thread goes back to wait, or retries.
AddrEdge ==
    /\ wa.pc \in {"last", "full"}
    /\ LET room == wa.pc = "full" /\ Len(writeReqFifo) < WriteReqDepth
       IN  /\ wa' = CASE wa.pc = "last" -> [pc |-> "idle", r |-> None]
                      [] room           -> [wa EXCEPT !.pc = "last"]
                      [] OTHER          -> wa
           /\ writeReqFifo' = IF room THEN Append(writeReqFifo, wa.r) ELSE writeReqFifo
    /\ UNCHANGED <<mem, rdVars, wp, writeDataFifo, wd, respVars>>

\* write_data_process
DataReady(flit) ==
    /\ wd.pc = "idle"
    /\ wd' = Ready(writeDataFifo, flit)
    /\ writeDataFifo' = Forward(writeDataFifo, flit)
    /\ UNCHANGED <<mem, rdVars, wp, writeReqFifo, wa, respVars>>

DataEdge ==
    /\ wd.pc \in {"last", "full"}
    /\ LET room == wd.pc = "full" /\ Len(writeDataFifo) < WriteReqDepth
       IN  /\ wd' = CASE wd.pc = "last" -> [pc |-> "idle", r |-> None]
                      [] room           -> [wd EXCEPT !.pc = "last"]
                      [] OTHER          -> wd
           /\ writeDataFifo' = IF room THEN Append(writeDataFifo, wd.r) ELSE writeDataFifo
    /\ UNCHANGED <<mem, rdVars, wp, writeReqFifo, wa, respVars>>

-----------------------------------------------------------------------------
\* A flit can be read from the rising edge on at which it is taken.
Readable(fifo, th) == Len(fifo) > IF th.pc = "last" THEN 1 ELSE 0

\* write_process: take the address, then the data of a write.
WriteMeta ==
    /\ wp.pc = "meta" /\ Readable(writeReqFifo, wa)
    /\ wp' = [wp EXCEPT !.pc = "data", !.req = Head(writeReqFifo)]
    /\ writeReqFifo' = Tail(writeReqFifo)
    /\ UNCHANGED <<mem, rdVars, writeDataFifo, waVars, respVars>>

WriteData ==
    /\ wp.pc = "data" /\ Readable(writeDataFifo, wd)
    /\ wp' = [wp EXCEPT !.pc = "run", !.req = Put(wp.req, "data", Head(writeDataFifo).data)]
    /\ writeDataFifo' = Tail(writeDataFifo)
    /\ UNCHANGED <<mem, rdVars, writeReqFifo, waVars, respVars>>

\* writeOperation, up to the first response.
WriteRun(segs) ==
    LET req   == wp.req
        error == within_error_region(segs, req.addr, req.addr + req.size)
        amo   == mem_is_amo(req.command)
        stex  == ~error /\ req.command = "STEX"
        ok    == stex /\ excl[req.id].valid /\ excl[req.id].addr = req.addr
        old   == readMemory(req.addr)
    IN  /\ wp.pc = "run"
        /\ excl' = IF stex THEN [excl EXCEPT ![req.id].valid = FALSE] ELSE excl
        /\ mem' = CASE error \/ (stex /\ ~ok) -> mem
                    [] amo   -> writeMemory(OneWord(req.addr,
                                    mem_compute_amo(req.command, old, req.data[req.addr], WordBits)))
                    [] OTHER -> writeMemory(req.data)
        /\ wp' = [wp EXCEPT !.pc = IF amo THEN "read_resp" ELSE "resp",
                            !.rresp = IF amo THEN [id |-> req.id, error |-> FALSE, last |-> TRUE,
                                                   data |-> <<IF error THEN 0 ELSE old>>]
                                             ELSE None,
                            !.resp = [id |-> req.id, is_atomic |-> ok, error |-> error]]
        /\ UNCHANGED <<rd, writeReqFifo, writeDataFifo, waVars, respVars>>

\* The old data of an atomic goes first, on the read response channel.
WritePushRead ==
    /\ wp.pc = "read_resp" /\ Len(readRespFifo) < RespDepth
    /\ readRespFifo' = Append(readRespFifo, wp.rresp)
    /\ wp' = [wp EXCEPT !.pc = "resp", !.rresp = None]
    /\ UNCHANGED <<mem, rdVars, writeReqFifo, writeDataFifo, waVars, rdOut, writeRespFifo, wrOut>>

WritePush ==
    /\ wp.pc = "resp" /\ Len(writeRespFifo) < RespDepth
    /\ writeRespFifo' = Append(writeRespFifo, wp.resp)
    /\ wp' = [pc |-> "meta", req |-> None, rresp |-> None, resp |-> None]
    /\ UNCHANGED <<mem, rdVars, writeReqFifo, writeDataFifo, waVars, readRespFifo, rdOut, wrOut>>

-----------------------------------------------------------------------------
\* read_response_process and write_response_process: show the oldest response
\* (to the scoreboard and to the cache), then wait until the cache takes it.
ReadRespShow ==
    /\ rdOut = None /\ readRespFifo # <<>>
    /\ rdOut' = Head(readRespFifo)
    /\ readRespFifo' = Tail(readRespFifo)
    /\ UNCHANGED <<mem, rdVars, wpVars, waVars, writeRespFifo, wrOut>>
ReadRespTaken ==
    /\ rdOut # None
    /\ rdOut' = None
    /\ UNCHANGED <<mem, rdVars, wpVars, waVars, readRespFifo, writeRespFifo, wrOut>>

WriteRespShow ==
    /\ wrOut = None /\ writeRespFifo # <<>>
    /\ wrOut' = Head(writeRespFifo)
    /\ writeRespFifo' = Tail(writeRespFifo)
    /\ UNCHANGED <<mem, rdVars, wpVars, waVars, readRespFifo, rdOut>>
WriteRespTaken ==
    /\ wrOut # None
    /\ wrOut' = None
    /\ UNCHANGED <<mem, rdVars, wpVars, waVars, readRespFifo, rdOut, writeRespFifo>>
=============================================================================
