----------------------------- MODULE Scoreboard -----------------------------
(***************************************************************************)
(* The scoreboard of the test bench: it observes every request and every   *)
(* response on the core and on the memory interface of the cache, keeps    *)
(* the tables of what is in flight and a golden copy of the memory, and    *)
(* reports an error when an observation disagrees with them.  Each         *)
(* operator is one turn of the loop of one of its six threads; the         *)
(* composition conjoins it with the step that produces the observation.    *)
(*                                                                         *)
(* An early "continue" of the code leaves the variables of the rest of the *)
(* turn as they are; errors is the set of messages printed.                *)
(***************************************************************************)
EXTENDS TestTransaction, TLC, Functions

CONSTANTS AmoFifoDepth,   \* default depth of an sc_fifo, 16 in SystemC
          LrscPowerUp     \* values the uninitialised reservation buffer may hold

ASSUME ScoreboardAssumption ==
    /\ AmoFifoDepth \in Nat \ {0}
    /\ LrscPowerUp \subseteq [valid : BOOLEAN, addr : Nat]

VARIABLES inflight,      \* core requests waiting for their response, by id
          memRead,       \* memory reads waiting for their last response, by id
          memWrite,      \* memory writes waiting for their response, by id
          amoFifo,       \* atomics that shall be forwarded to memory, oldest first
          lrsc,          \* the reservation made by the last LR
          ram,           \* golden value of each word, None while it is unset
          scIsAtomic,    \* what the last write response said of exclusivity
          nbNeed, nbResp,\* requests that need a response, responses received
          noInflight,    \* the output no_inflight_requests_o
          ids,           \* ids the running sequence has allocated
          errors         \* messages printed by the scoreboard or the sequence

sbTables == <<inflight, memRead, memWrite, amoFifo, lrsc, ram, scIsAtomic>>
sbVars == <<sbTables, nbNeed, nbResp, noInflight, ids, errors>>

ScoreboardInit ==
    /\ inflight = <<>> /\ memRead = <<>> /\ memWrite = <<>>
    /\ amoFifo = <<>>
    /\ lrsc \in LrscPowerUp
    /\ ram = [w \in Words |-> None]
    /\ scIsAtomic = FALSE
    /\ nbNeed = 0 /\ nbResp = 0
    /\ noInflight = FALSE
    /\ ids = {}
    /\ errors = {}

\* Mutant: the largest id is one too large.
allocate_id_Beyond(maxId) == (0 .. maxId) \ ids

\* The ids a sequence may allocate: the code starts at a random one and probes
\* the next until it finds a free one.
allocate_id(maxId) == (0 .. (maxId - 1)) \ ids

\* Mutant: the id is not given back.
deallocate_id_Kept(free, id) == ids

\* The allocated ids after one is given back, if it is.
deallocate_id(free, id) == IF free THEN ids \ {id} ELSE ids

\* Messages whose condition holds.
Report(conditions) == {m \in DOMAIN conditions : conditions[m]}

-----------------------------------------------------------------------------
\* The golden memory: a word that nothing has written is not valid, and a read
\* of it gives None.
getBmap(w) == ram[w] # None
ram_read(w) == ram[w]

\* The golden memory after the enabled words data are written.
ram_write(data) == Written(ram, data)

-----------------------------------------------------------------------------
\* The access covers the reserved word of the reserved line.
LrscMatch(addr) == lrsc.valid /\ lrsc.addr = addr

\* What the scoreboard remembers of a core request.
Entry(segs, req) ==
    LET inError == (~is_cmo(req.op) \/ req.op = "PREFETCH")
                       /\ within_error_region(segs, req.addr, req.addr + 1)
    IN  [addr      |-> req.addr,
         op        |-> req.op,
         wdata     |-> req.data,
         is_error  |-> inError /\ (req.op = "SC" => LrscMatch(req.addr)),
         is_atomic |-> req.op = "SC" /\ LrscMatch(req.addr),
         rdata     |-> IF ~inError /\ ReadsData(req.op) THEN ram_read(req.addr) ELSE None]

\* The reservation after a core request.
LrscAfter(req, e) ==
    CASE req.op = "LR" /\ ~e.is_error -> [valid |-> TRUE, addr |-> req.addr]
      [] req.op = "LR" /\ e.is_error  -> [lrsc EXCEPT !.valid = FALSE]
      [] req.op = "SC"                -> [lrsc EXCEPT !.valid = FALSE]
      [] is_amo(req.op) \/ is_store(req.op) ->
             [lrsc EXCEPT !.valid = @ /\ ~LrscMatch(req.addr)]
      [] OTHER -> lrsc

\* The atomic operation shall be forwarded to memory.
Forwarded(req, e) == is_amo(req.op) \/ req.op = "LR" \/ (req.op = "SC" /\ e.is_atomic)

\* The golden memory after a core request: a store is tracked when it is sent.
RamAfterRequest(req, e) ==
    IF is_store(req.op) /\ ~e.is_error /\ req.be THEN ram_write(OneWord(req.addr, req.data)) ELSE ram

core_req_process(segs, req) ==
    LET e     == Entry(segs, req)
        dup   == req.tid \in DOMAIN inflight
        quiet == ~dup /\ is_cmo(req.op) /\ ~req.need_rsp
        full  == ~dup /\ Forwarded(req, e) /\ Len(amoFifo) = AmoFifoDepth
        goOn  == ~dup /\ ~quiet
        done  == goOn /\ ~full
        free  == quiet \/ (done /\ ~req.need_rsp)
    IN  /\ nbNeed' = nbNeed + IF req.need_rsp THEN 1 ELSE 0
        /\ lrsc' = IF goOn THEN LrscAfter(req, e) ELSE lrsc
        /\ amoFifo' = IF done /\ Forwarded(req, e) THEN Append(amoFifo, e) ELSE amoFifo
        /\ ram' = IF done THEN RamAfterRequest(req, e) ELSE ram
        /\ inflight' = IF done /\ req.need_rsp THEN Put(inflight, req.tid, e) ELSE inflight
        /\ ids' = deallocate_id(free, req.tid)
        /\ errors' = errors \cup Report([core_req_id |-> dup, amo_fifo_full |-> full,
                                         seq_id |-> free /\ req.tid \notin ids])
        /\ UNCHANGED <<memRead, memWrite, scIsAtomic, nbResp, noInflight>>

core_resp_process(resp) ==
    LET known == resp.tid \in DOMAIN inflight
        e     == inflight[resp.tid]
        flag  == known /\ (is_store(e.op) \/ resp.error = e.is_error)
        check == flag /\ ~e.is_error
        sc_ok == check /\ e.op = "SC" /\ e.is_atomic /\ scIsAtomic
    IN  /\ nbResp' = nbResp + 1
        /\ ram' = CASE sc_ok -> ram_write(OneWord(e.addr, e.wdata))
                    [] check /\ is_amo(e.op) ->
                           ram_write(OneWord(e.addr, compute_amo(e.op, resp.data, e.wdata, WordBits)))
                    [] OTHER -> ram
        /\ inflight' = IF flag THEN Restrict(inflight, DOMAIN inflight \ {resp.tid}) ELSE inflight
        /\ ids' = deallocate_id(flag, resp.tid)
        /\ errors' = errors \cup
               Report([core_resp_id |-> ~known,
                       error_flag   |-> known /\ ~flag,
                       sc_status    |-> check /\ e.op = "SC" /\ resp.data # (IF sc_ok THEN 0 ELSE 1),
                       wrong_data   |-> check /\ ReadsData(e.op)
                                            /\ e.rdata # None /\ resp.data # e.rdata,
                       seq_id       |-> flag /\ resp.tid \notin ids])
        /\ UNCHANGED <<memRead, memWrite, amoFifo, lrsc, scIsAtomic, nbNeed, noInflight>>

-----------------------------------------------------------------------------
\* A core request of the same line is in flight.
HasCoreReq(addr) == \E i \in DOMAIN inflight : get_nline(inflight[i].addr) = get_nline(addr)

\* An atomic reaches memory: there is one forwarded atomic, and it leaves the fifo.
AmoErrors == [several_amo |-> Len(amoFifo) > 1, unexpected_amo |-> amoFifo = <<>>]
\* Mutant: the atomic is looked at and stays in the fifo.
AmoPop_Peek == amoFifo
AmoPop == IF amoFifo = <<>> THEN <<>> ELSE Tail(amoFifo)

mem_read_req_process(req) ==
    LET dup  == req.id \in DOMAIN memRead
        ldex == ~dup /\ req.command = "LDEX"
    IN  /\ memRead' = IF dup THEN memRead ELSE Put(memRead, req.id, [addr |-> req.addr])
        /\ amoFifo' = IF ldex THEN AmoPop ELSE amoFifo
        /\ errors' = errors \cup Report([mem_read_id |-> dup])
                            \cup IF ldex THEN Report(AmoErrors) ELSE {}
        /\ UNCHANGED <<inflight, memWrite, lrsc, ram, scIsAtomic, nbNeed, nbResp, noInflight, ids>>

\* The words of a beat whose byte enables are set in a fill: with one word per
\* beat, that word.  With wider beats the code shifts by a negative number of
\* bits for every other word: any of them may be left out.
FillSets(words) == IF conf.memWords = 1 THEN {words} ELSE SUBSET words

\* Mutant: a fill overwrites what is set.
Unset_Any(words) == words

\* The words of the golden memory that no store and no read has set so far.
Unset(words) == {w \in words : ~getBmap(w)}

\* Every response of a burst fills the words of the first beat that are still
\* unset.
mem_read_resp_process(resp) ==
    LET known == resp.id \in DOMAIN memRead
        addr  == memRead[resp.id].addr
        words == addr .. (addr + Len(resp.data) - 1)
    IN  /\ IF known /\ ~resp.error
           THEN \E fill \in FillSets(Unset(words)) :
                    ram' = ram_write([w \in fill |-> resp.data[w - addr + 1]])
           ELSE ram' = ram
        /\ memRead' = IF known /\ resp.last
                      THEN Restrict(memRead, DOMAIN memRead \ {resp.id}) ELSE memRead
        /\ errors' = errors \cup Report([mem_read_resp_id |-> ~known])
        /\ UNCHANGED <<inflight, memWrite, amoFifo, lrsc, scIsAtomic, nbNeed, nbResp, noInflight, ids>>

mem_write_req_process(req) ==
    LET dup  == req.id \in DOMAIN memWrite
        amo  == ~dup /\ mem_is_amo(req.command)
        stex == ~dup /\ req.command = "STEX"
        got  == amoFifo # <<>>
    IN  /\ memWrite' = IF dup THEN memWrite ELSE Put(memWrite, req.id, [addr |-> req.addr])
        /\ memRead' = IF amo /\ got /\ req.id \notin DOMAIN memRead
                       THEN Put(memRead, req.id, [addr |-> req.addr]) ELSE memRead
        /\ amoFifo' = IF amo \/ stex THEN AmoPop ELSE amoFifo
        /\ errors' = errors
               \cup Report([mem_write_id  |-> dup,
                            no_core_amo   |-> amo /\ got /\ ~HasCoreReq(req.addr),
                            no_reserve    |-> stex /\ got /\ ~amoFifo[1].is_atomic,
                            no_core_sc    |-> stex /\ got /\ amoFifo[1].is_atomic /\ ~HasCoreReq(req.addr)])
               \cup IF amo \/ stex THEN Report(AmoErrors) ELSE {}
        /\ UNCHANGED <<inflight, lrsc, ram, scIsAtomic, nbNeed, nbResp, noInflight, ids>>

mem_write_resp_process(resp) ==
    LET known == resp.id \in DOMAIN memWrite
    IN  /\ scIsAtomic' = IF known THEN resp.is_atomic ELSE scIsAtomic
        /\ memWrite' = IF known THEN Restrict(memWrite, DOMAIN memWrite \ {resp.id}) ELSE memWrite
        /\ errors' = errors \cup Report([mem_write_resp_id |-> ~known])
        /\ UNCHANGED <<inflight, memRead, amoFifo, lrsc, ram, nbNeed, nbResp, noInflight, ids>>

\* Mutant: the flag has the opposite meaning.
check_inflight_requests_Inverted ==
    /\ noInflight' = ~(memWrite = <<>> /\ memRead = <<>> /\ inflight = <<>>)
    /\ UNCHANGED <<sbTables, nbNeed, nbResp, ids, errors>>

\* On every falling edge of the clock.
check_inflight_requests ==
    /\ noInflight' = (memWrite = <<>> /\ memRead = <<>> /\ inflight = <<>>)
    /\ UNCHANGED <<sbTables, nbNeed, nbResp, ids, errors>>

\* What the destructor reports at the end of the simulation.
FinalErrors == Report([missing_responses |-> nbResp # nbNeed, unresponded_ids |-> ids # {}])
=============================================================================
