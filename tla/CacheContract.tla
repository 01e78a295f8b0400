---------------------------- MODULE CacheContract ----------------------------
(***************************************************************************)
(* The cache as the test bench sees it: a contract on its two interfaces,  *)
(* taken from the controller's rules and far coarser than the RTL.         *)
(*                                                                         *)
(*  - requests of one line execute in the order they were accepted;        *)
(*  - a "fence" (atomic, uncacheable access, CMO fence or flush) executes  *)
(*    alone, when everything accepted before is finished and every write   *)
(*    is acknowledged, and no request is accepted while one is pending;    *)
(*  - a line is read from memory only when no write of it is outstanding;  *)
(*  - lines may leave the cache at any time, dirty ones after a flush.     *)
(***************************************************************************)
EXTENDS TestTransaction, TLC, SequencesExt

CONSTANTS ReadIds,    \* memory identifiers of misses
          WriteIds,   \* memory identifiers of the write buffer and the flush controller
          UcId,       \* memory identifier of uncached accesses and atomics
          Pending     \* bound on the requests the cache holds

VARIABLES cq,         \* accepted requests that are not finished, oldest first: [t, pc, old, err]
          cached,     \* value of each word in the cache, None when its line is absent
          dirty,      \* words newer than the memory
          rsrv,       \* the reservation kept by the uncached handler
          rdReq,      \* read requests on the memory interface, oldest first
          wrAddr,     \* write requests on the memory interface
          wrData,     \* their data flits, on a channel of their own
          rdBusy,     \* what each busy read identifier has asked for and got: [addr, values]
          wrBusy      \* words written by each busy write identifier

chVars == <<rdReq, wrAddr, wrData>>
cacheVars == <<cq, cached, dirty, rsrv, chVars, rdBusy, wrBusy>>

CacheInit ==
    /\ cq = <<>>
    /\ cached = [w \in Words |-> None]
    /\ dirty = {}
    /\ rsrv = [valid |-> FALSE, addr |-> CHOOSE w \in Words : TRUE]
    /\ rdReq = <<>> /\ wrAddr = <<>> /\ wrData = <<>>
    /\ rdBusy = <<>> /\ wrBusy = <<>>

Line(addr) == {w \in Words : get_nline(w) = get_nline(addr)}
Base(addr) == CHOOSE w \in Line(addr) : \A v \in Line(addr) : w =< v
Flush(op) == op \in {"FLUSH_NLINE", "FLUSH_ALL", "FLUSH_INVAL_NLINE", "FLUSH_INVAL_ALL"}
Inval(op) == op \in {"INVAL_NLINE", "INVAL_ALL", "FLUSH_INVAL_NLINE", "FLUSH_INVAL_ALL"}
Atomic(op) == is_amo(op) \/ op \in {"LR", "SC"}

\* st1_fence
Fence(t) == Atomic(t.op) \/ t.uncacheable \/ t.op = "FENCE" \/ Inval(t.op) \/ Flush(t.op)

\* A core request is accepted.
CanAccept == Len(cq) < Pending /\ \A i \in 1 .. Len(cq) : ~Fence(cq[i].t)
Accept(t) ==
    /\ CanAccept
    /\ cq' = Append(cq, [t |-> t, pc |-> "new", old |-> None, err |-> FALSE])
    /\ UNCHANGED <<cached, dirty, rsrv, chVars, rdBusy, wrBusy>>

-----------------------------------------------------------------------------
FirstOfLine(i) == \A j \in 1 .. (i - 1) : get_nline(cq[j].t.addr) # get_nline(cq[i].t.addr)
NoWrite(addr) == \A k \in DOMAIN wrBusy : wrBusy[k] \cap Line(addr) = {}
\* st1_no_pend_trans: no miss, write or flush is pending.
Quiet == rdBusy = <<>> /\ wrBusy = <<>>

\* The request may execute now.
Executable(i) == cq[i].pc # "wait" /\ IF Fence(cq[i].t) THEN i = 1 /\ Quiet ELSE FirstOfLine(i)

\* The request leaves the cache, with a response if it asked for one.
Finish(i) == cq' = RemoveAt(cq, i)
Response(t, error, data) == IF t.need_rsp THEN [tid |-> t.tid, error |-> error, data |-> data] ELSE None

\* Requests on the memory interface; which free identifier is taken does not matter.
FreeId(all, busy) == all \ DOMAIN busy # {}
NextId(all, busy) == CHOOSE id \in all \ DOMAIN busy : TRUE
SendRead(id, addr, size, len, command) ==
    /\ rdReq' = Append(rdReq, [id |-> id, addr |-> addr, size |-> size, len |-> len,
                            command |-> command])
    /\ rdBusy' = Put(rdBusy, id, [addr |-> addr, values |-> <<>>])
SendWrite(id, addr, size, command, data) ==
    /\ wrAddr' = Append(wrAddr, [id |-> id, addr |-> addr, size |-> size, command |-> command])
    /\ wrData' = Append(wrData, [data |-> data])
    /\ wrBusy' = Put(wrBusy, id, DOMAIN data)

\* The enabled words of a store.
StoreData(t) == IF t.be THEN OneWord(t.addr, t.data) ELSE <<>>

\* A load, or a prefetch, hits.
LoadHit(i) ==
    LET t == cq[i].t
    IN  /\ Executable(i) /\ t.op \in {"LOAD", "PREFETCH"} /\ ~t.uncacheable
        /\ cached[t.addr] # None
        /\ Finish(i)
        /\ UNCHANGED <<cached, dirty, rsrv, chVars, rdBusy, wrBusy>>
LoadHitAnswer(i) == Response(cq[i].t, FALSE, cached[cq[i].t.addr])

\* Words in a beat of a line; a line has whole beats.
BeatWords(addr) == IF conf.memWords < Cardinality(Line(addr)) THEN conf.memWords ELSE Cardinality(Line(addr))

\* The cache treats a store as write-back or as write-through; without a hint it
\* decides itself.
MayWb(t) == conf.wb /\ t.policy \in {"WB", "AUTO"}
MayWt(t) == ~conf.wb \/ t.policy \in {"WT", "AUTO"}

\* A load, a prefetch or a write-back store misses and asks for its line.
Miss(i) ==
    LET t == cq[i].t
    IN  /\ Executable(i) /\ ~t.uncacheable
        /\ t.op \in {"LOAD", "PREFETCH"} \/ (is_store(t.op) /\ MayWb(t))
        /\ cached[t.addr] = None /\ NoWrite(t.addr)
        /\ FreeId(ReadIds, rdBusy)
        /\ SendRead(NextId(ReadIds, rdBusy), Base(t.addr), BeatWords(t.addr),
                    Cardinality(Line(t.addr)) \div BeatWords(t.addr) - 1, "READ")
        /\ cq' = [cq EXCEPT ![i].pc = "wait"]
        /\ UNCHANGED <<cached, dirty, rsrv, wrAddr, wrData, wrBusy>>

\* Mutant: stores do not look at the reservation.
Snooped_Never(t) == rsrv

\* A store to the reserved word ends the reservation.
Snooped(t) == [rsrv EXCEPT !.valid = @ /\ rsrv.addr # t.addr]

\* A cacheable store: kept in a present line when its policy is write-back,
\* else sent to memory through the write buffer.
Store(i) ==
    LET t == cq[i].t
    IN  /\ Executable(i) /\ is_store(t.op) /\ ~t.uncacheable
        /\ rsrv' = Snooped(t)
        /\ cached' = IF cached[t.addr] = None \/ ~t.be THEN cached ELSE [cached EXCEPT ![t.addr] = t.data]
        /\ \/ /\ MayWb(t) /\ cached[t.addr] # None
              /\ dirty' = dirty \cup {t.addr}
              /\ UNCHANGED <<wrAddr, wrData, wrBusy>>
           \/ /\ MayWt(t) /\ cq[i].pc = "new"
              /\ FreeId(WriteIds, wrBusy)
              /\ SendWrite(NextId(WriteIds, wrBusy), t.addr, 1, "WRITE", StoreData(t))
              /\ UNCHANGED dirty
        /\ Finish(i)
        /\ UNCHANGED <<rdReq, rdBusy>>

\* The dirty words of a line are written to memory, in one flit.
FlushLine(addr) ==
    LET ws == dirty \cap Line(addr)
    IN  /\ ws # {} /\ addr = Base(addr)
        /\ FreeId(WriteIds, wrBusy)
        /\ SendWrite(NextId(WriteIds, wrBusy), addr, Cardinality(Line(addr)), "WRITE",
                     [w \in ws |-> cached[w]])
        /\ dirty' = dirty \ ws
        /\ UNCHANGED <<cq, cached, rsrv, rdReq, rdBusy>>

\* A clean line leaves the cache, but not between its refill and the store that
\* asked for it.
Evict(addr) ==
    /\ \A i \in 1 .. Len(cq) : cq[i].pc = "retry" => cq[i].t.addr \notin Line(addr)
    /\ cached[addr] # None /\ addr = Base(addr) /\ dirty \cap Line(addr) = {}
    /\ cached' = [w \in Words |-> IF w \in Line(addr) THEN None ELSE cached[w]]
    /\ UNCHANGED <<cq, dirty, rsrv, chVars, rdBusy, wrBusy>>

-----------------------------------------------------------------------------
\* The words a cache management operation is about.
Scope(t) == IF t.op \in {"FLUSH_NLINE", "FLUSH_INVAL_NLINE", "INVAL_NLINE"} THEN Line(t.addr) ELSE Words

\* A cache management operation ends once its dirty lines are in memory; an
\* invalidation drops its lines, dirty or not.
CmoDone(i) ==
    LET t == cq[i].t
    IN  /\ Executable(i) /\ is_cmo(t.op) /\ t.op # "PREFETCH"
        /\ Flush(t.op) => dirty \cap Scope(t) = {}
        /\ cached' = IF Inval(t.op) THEN [w \in Words |-> IF w \in Scope(t) THEN None ELSE cached[w]]
                                    ELSE cached
        /\ dirty' = IF Inval(t.op) THEN dirty \ Scope(t) ELSE dirty
        /\ Finish(i)
        /\ UNCHANGED <<rsrv, chVars, rdBusy, wrBusy>>

Reserved(t) == rsrv.valid /\ rsrv.addr = t.addr

\* An uncacheable access or an atomic goes to memory, after a dirty copy.
Uncached(i) ==
    LET t == cq[i].t
    IN  /\ Executable(i) /\ (t.uncacheable \/ Atomic(t.op)) /\ (t.op = "SC" => Reserved(t))
        /\ dirty \cap Line(t.addr) = {}
        /\ cq' = [cq EXCEPT ![i].pc = "wait"]
        /\ CASE t.op \in {"LOAD", "LR"} ->
                  /\ SendRead(UcId, t.addr, 1, 0, IF t.op = "LR" THEN "LDEX" ELSE "READ")
                  /\ UNCHANGED <<wrAddr, wrData, wrBusy>>
             [] t.op \in {"STORE", "SC"} ->
                  /\ SendWrite(UcId, t.addr, 1, IF t.op = "SC" THEN "STEX" ELSE "WRITE", StoreData(t))
                  /\ UNCHANGED <<rdReq, rdBusy>>
             [] OTHER ->
                  /\ SendWrite(UcId, t.addr, 1, mem_atomic(t.op), OneWord(t.addr, mem_operand(t.op, t.data)))
                  /\ rdBusy' = Put(rdBusy, UcId, [addr |-> t.addr, values |-> <<>>])
                  /\ UNCHANGED rdReq
        /\ rsrv' = [rsrv EXCEPT !.valid = @ /\ (t.op = "LOAD" \/ t.op = "LR" \/ ~Reserved(t))]
        /\ UNCHANGED <<cached, dirty>>

\* A store-conditional with no reservation fails without asking the memory.
ScFail(i) ==
    /\ Executable(i) /\ cq[i].t.op = "SC" /\ ~Reserved(cq[i].t)
    /\ rsrv' = [rsrv EXCEPT !.valid = FALSE]
    /\ Finish(i)
    /\ UNCHANGED <<cached, dirty, chVars, rdBusy, wrBusy>>

-----------------------------------------------------------------------------
\* The request that waits for a response with the given identifier.
Waiting(id) == CHOOSE i \in 1 .. Len(cq) :
    cq[i].pc = "wait" /\ (id = UcId \/ get_nline(cq[i].t.addr) = get_nline(rdBusy[id].addr))

\* An atomic is over when both of its responses are in; a cached copy follows
\* the memory.
AmoOver(i, old, err) ==
    LET t == cq[i].t
    IN  /\ cached' = IF err \/ t.uncacheable \/ cached[t.addr] = None THEN cached
                     ELSE [cached EXCEPT ![t.addr] = compute_amo(t.op, old, t.data, WordBits)]
        /\ Finish(i)
AmoLater(i, old, err) ==
    /\ cq' = [cq EXCEPT ![i].old = old, ![i].err = err]
    /\ UNCHANGED cached

\* A beat of a read response.
ReadBeat(resp) ==
    /\ ~resp.last
    /\ rdBusy' = [rdBusy EXCEPT ![resp.id].values = @ \o resp.data]
    /\ UNCHANGED <<cq, cached, dirty, rsrv, chVars, wrBusy>>

\* The last beat of a line: it enters the cache unless it came with an error;
\* a write-back store starts again, other requests are over.
Refill(resp) ==
    LET b == rdBusy[resp.id]
        i == Waiting(resp.id)
        v == b.values \o resp.data
    IN  /\ resp.last /\ resp.id # UcId
        /\ cached' = IF resp.error THEN cached
                     ELSE [w \in Words |-> IF w \in Line(b.addr) THEN v[w - b.addr + 1] ELSE cached[w]]
        /\ rdBusy' = Restrict(rdBusy, DOMAIN rdBusy \ {resp.id})
        /\ IF is_store(cq[i].t.op) /\ ~resp.error THEN cq' = [cq EXCEPT ![i].pc = "retry"] ELSE Finish(i)
        /\ UNCHANGED <<dirty, rsrv, chVars, wrBusy>>
RefillAnswer(resp) ==
    LET i == Waiting(resp.id)
        b == rdBusy[resp.id]
    IN  IF is_store(cq[i].t.op) /\ ~resp.error THEN None
        ELSE Response(cq[i].t, resp.error, (b.values \o resp.data)[cq[i].t.addr - b.addr + 1])

\* The response to an uncached load, a load-reserved or an atomic.
UncachedRead(resp) ==
    LET t == cq[1].t
    IN  /\ resp.last /\ resp.id = UcId
        /\ rdBusy' = Restrict(rdBusy, DOMAIN rdBusy \ {UcId})
        /\ rsrv' = IF t.op = "LR" THEN [valid |-> ~resp.error, addr |-> t.addr] ELSE rsrv
        /\ IF ~is_amo(t.op)
           THEN Finish(1) /\ UNCHANGED cached
           ELSE IF UcId \in DOMAIN wrBusy THEN AmoLater(1, resp.data[1], resp.error)
                                          ELSE AmoOver(1, resp.data[1], resp.error \/ cq[1].err)
        /\ UNCHANGED <<dirty, chVars, wrBusy>>
UncachedReadAnswer(resp) ==
    IF UcId \in DOMAIN wrBusy THEN None ELSE Response(cq[1].t, resp.error \/ cq[1].err, resp.data[1])

\* The response to a write of the write buffer or the flush controller.
WriteAck(resp) ==
    /\ resp.id # UcId
    /\ wrBusy' = Restrict(wrBusy, DOMAIN wrBusy \ {resp.id})
    /\ UNCHANGED <<cq, cached, dirty, rsrv, chVars, rdBusy>>

\* The response to an uncached store, a store-conditional or an atomic.
UncachedWrite(resp) ==
    LET t  == cq[1].t
        ok == t.op = "SC" /\ ~t.uncacheable /\ resp.is_atomic /\ ~resp.error
    IN  /\ resp.id = UcId
        /\ wrBusy' = Restrict(wrBusy, DOMAIN wrBusy \ {UcId})
        /\ IF ~is_amo(t.op)
           THEN /\ cached' = IF ok /\ cached[t.addr] # None THEN [cached EXCEPT ![t.addr] = t.data] ELSE cached
                /\ Finish(1)
           ELSE IF UcId \in DOMAIN rdBusy THEN AmoLater(1, None, resp.error)
                                          ELSE AmoOver(1, cq[1].old, resp.error \/ cq[1].err)
        /\ UNCHANGED <<dirty, rsrv, chVars, rdBusy>>
UncachedWriteAnswer(resp) ==
    LET t == cq[1].t
    IN  IF is_amo(t.op)
        THEN IF UcId \in DOMAIN rdBusy THEN None ELSE Response(t, resp.error \/ cq[1].err, cq[1].old)
        ELSE Response(t, resp.error, IF t.op = "SC" /\ ~resp.is_atomic THEN 1 ELSE 0)
=============================================================================
