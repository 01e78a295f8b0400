-------------------------- MODULE ScoreboardProofs --------------------------
(***************************************************************************)
(* What the scoreboard has to say of a cache that keeps its contract.      *)
(***************************************************************************)
EXTENDS CoherenceProofs, PowerUp

----------------------------------------------------------------------------
(* The error of an access                                                  *)

\* The segments that the sequence k tells the memory to answer with an error.
Segs(k) == IF k = "random" THEN ErrorSegments ELSE <<>>

\* An access to a word is answered with an error, and so is a request to memory.
Wrong(k, w) == within_error_region(Segs(k), w, w + 1)
WrongAccess(k, r) == within_error_region(Segs(k), r.addr, r.addr + r.size)

\* Segments begin and end with a line: the random sequence takes multiples of
\* 0x200, and a line has at most 64 bytes.
ErrorsByLine ==
  \A i \in 1 .. Len(ErrorSegments) : \E b, e \in Nat :
    ErrorSegments[i].base = b * LineWords /\ ErrorSegments[i].end = e * LineWords

\* A request on the read channel, for the address a, when the oldest operation of
\* the cache is op.
AskedFor(k, a, op, r) ==
  /\ r.addr = a
  /\ WrongAccess(k, r) = Wrong(k, a)
  /\ r.command = IF r.id = UcId /\ op = "LR" THEN "LDEX" ELSE "READ"
  /\ r.id = UcId => ~is_amo(op)
Asked(r) == AskedFor(kind, rdBusy[r.id].addr, cq[1].t.op, r)

\* A response on it: the old data of an atomic come without an error.
AnsweredFor(k, a, op, x) == x.error = IF x.id = UcId /\ is_amo(op) THEN FALSE ELSE Wrong(k, a)
Answered(x) == AnsweredFor(kind, rdBusy[x.id].addr, cq[1].t.op, x)

RightReads ==
  /\ \A k \in 1 .. Len(rdReq) : Asked(rdReq[k])
  /\ rd.pc = "push" => Asked(rd.req)
  /\ \A k \in 1 .. Len(readRespFifo) : Answered(readRespFifo[k])
  /\ rdOut # None => Answered(rdOut)

\* A request on the write channels, and a response.
UcCommand(op) == CASE op = "STORE" -> "WRITE" [] op = "SC" -> "STEX" [] OTHER -> mem_atomic(op)
SentFor(k, t, r) ==
  IF r.id = UcId THEN /\ r.addr = t.addr
                      /\ WrongAccess(k, r) = Wrong(k, t.addr)
                      /\ r.command = UcCommand(t.op)
                 ELSE r.command = "WRITE"
AckedFor(k, t, x) == x.id = UcId => x.error = Wrong(k, t.addr)
Sent(r) == SentFor(kind, cq[1].t, r)
Acked(x) == AckedFor(kind, cq[1].t, x)

RightWrites ==
  /\ \A k \in 1 .. Len(AddrQ) : Sent(AddrQ[k])
  /\ wp.pc # "meta" => Sent(wp.req)
  /\ wp.pc = "read_resp" => mem_is_amo(wp.req.command) /\ wp.rresp.error = FALSE
  /\ wp.pc \in {"read_resp", "resp"} => Acked(wp.resp)
  /\ \A k \in 1 .. Len(writeRespFifo) : Acked(writeRespFifo[k])
  /\ wrOut # None => Acked(wrOut)

\* A word that is cached or reserved is not in an error segment, and an atomic
\* remembers the error of its write.
Halfway(e) == e.pc = "wait" /\ is_amo(e.t.op) /\ UcId \notin DOMAIN wrBusy
RightErr == \A i \in 1 .. Len(cq) : cq[i].err = IF Halfway(cq[i]) THEN Wrong(kind, cq[i].t.addr) ELSE FALSE
RightCached == DOMAIN cached = Words /\ \A w \in Words : cached[w] # None => ~Wrong(kind, w)
RightReserved ==
  /\ rsrv.valid \in BOOLEAN
  /\ rsrv.valid => ~Wrong(kind, rsrv.addr)
  /\ UcWait /\ cq[1].t.op = "SC" => ~Wrong(kind, cq[1].t.addr)
RightCache == RightErr /\ RightCached /\ RightReserved

RightInv == RightReads /\ RightWrites /\ RightCache

----------------------------------------------------------------------------
(* The tables of the scoreboard                                            *)

\* A request that ends the reservation when it executes.
KillsWord(t, w) == t.op = "SC" \/ ((is_amo(t.op) \/ is_store(t.op)) /\ t.addr = w)
Kills(t) == KillsWord(t, rsrv.addr)

\* The reservation of the scoreboard is that of the cache after the requests
\* that it holds.
LrscFollows ==
  /\ DOMAIN lrsc = {"valid", "addr"} /\ lrsc.valid \in BOOLEAN
  /\ \A i \in 1 .. Len(cq) : cq[i].t.op = "LR" =>
       lrsc.valid = ~Wrong(kind, cq[i].t.addr) /\ (lrsc.valid => lrsc.addr = cq[i].t.addr)
  /\ (\A i \in 1 .. Len(cq) : cq[i].t.op # "LR") =>
       /\ lrsc.valid = (rsrv.valid /\ \A i \in 1 .. Len(cq) : ~Kills(cq[i].t))
       /\ lrsc.valid => lrsc.addr = rsrv.addr
  /\ UcWait /\ Kills(cq[1].t) => ~rsrv.valid

\* Nothing is reserved, whatever lrsc_buf_m held when the simulation began.
Unreserved ==
  /\ DOMAIN lrsc = {"valid", "addr"} /\ lrsc.valid \in BOOLEAN
  /\ ~rsrv.valid /\ \A i \in 1 .. Len(cq) : cq[i].t.op # "LR"
LrscInv == LrscFollows \/ Unreserved

\* A step keeps the one or the other, and the first for good.
LrscKept == (LrscFollows => LrscFollows') /\ (Unreserved => LrscFollows' \/ Unreserved')

\* A store-conditional that the cache takes is not taken to be atomic without a
\* reservation.
Trusted == drv.t.op = "SC" /\ LrscMatch(drv.t.addr) => LrscFollows

\* The reservation is there for the request i when its turn comes.
Reserves(i) == rsrv.valid /\ rsrv.addr = cq[i].t.addr /\ \A j \in 1 .. i - 1 : ~Kills(cq[j].t)

\* The table knows a request.
Remembers(e, k, t, reserved) ==
  /\ e.addr = t.addr /\ e.op = t.op /\ e.wdata = t.data
  /\ e.is_error = (t.op # "SC" /\ (~is_cmo(t.op) \/ t.op = "PREFETCH") /\ Wrong(k, t.addr))
  /\ t.op = "SC" => e.is_atomic = reserved
Known(i) ==
  LET t == cq[i].t
  IN  t.tid \in DOMAIN inflight /\ Remembers(inflight[t.tid], kind, t, Waits(i) \/ Reserves(i))

TableOk ==
  /\ \A i \in 1 .. Len(cq) : cq[i].t.need_rsp => Known(i)
  /\ \A i, j \in 1 .. Len(cq) :
       i # j /\ cq[i].t.need_rsp /\ cq[j].t.need_rsp => cq[i].t.tid # cq[j].t.tid

\* The uncached access that is out has not reached the memory.
UcAsked == \E k \in 1 .. Len(rdReq) : rdReq[k].id = UcId /\ ~(k = 1 /\ rd.pc = "ready")
UcSent == (\E k \in 1 .. Len(AddrQ) : AddrQ[k].id = UcId) \/ (wp.pc = "run" /\ wp.req.id = UcId)

\* The memory shall see this request, with what the table says of it.
DueOp(t, e) == is_amo(t.op) \/ t.op = "LR" \/ (t.op = "SC" /\ e.is_atomic)
Due(e) == DueOp(e.t, inflight[e.t.tid]) /\ (e.pc = "wait" => UcAsked \/ UcSent)

LastDue == cq # <<>> /\ Due(cq[Len(cq)])
AmoFifoInv == amoFifo = IF LastDue THEN <<inflight[cq[Len(cq)].t.tid]>> ELSE <<>>

\* The reads that the memory has seen and that were not answered to the end.
ReadsSeen ==
  DOMAIN memRead = (IF rd.pc = "idle" THEN {} ELSE {rd.req.id})
                     \cup (IF wp.pc = "read_resp" THEN {UcId} ELSE {})
                     \cup {readRespFifo[k].id : k \in 1 .. Len(readRespFifo)}

AtomicShown == wrOut # None => scIsAtomic = wrOut.is_atomic

BoardInv ==
  /\ Books /\ TableOk /\ LrscInv /\ AmoFifoInv /\ ReadsSeen /\ AtomicShown
  /\ errors \subseteq {"wrong_data"}

----------------------------------------------------------------------------
(* Steps that leave an access as it is                                     *)

\* A step of the cache with one of its requests.
Acts(i) == LoadHit(i) \/ CmoDone(i) \/ ScFail(i) \/ Store(i) \/ Miss(i) \/ Uncached(i)

\* The steps that change what the cache holds.
LEMMA CqNext ==
  ASSUME [Next]_vars
  PROVE  /\ kind' = kind
         /\ \/ UNCHANGED cq
            \/ DriveRequest
            \/ \E i \in 1 .. Len(cq) : Acts(i)
            \/ rdOut # None /\ (Refill(rdOut) \/ UncachedRead(rdOut))
            \/ wrOut # None /\ UncachedWrite(wrOut)
<1>1. CASE SequenceStep \/ Simulate \/ CheckInflight \/ DriverFinish
  BY <1>1 DEF SequenceStep, SequenceMain, SequenceBetween, SequenceSc, SequenceStop, Send, Simulate,
              CheckInflight, DriverFinish, seqVars, cacheVars
<1>2. CASE DriveRequest
  BY <1>2 DEF DriveRequest, seqVars
<1>3. CASE Over \/ UNCHANGED vars
  BY <1>3 DEF Over, vars, cacheVars, seqVars
<1>4. CASE CacheStep
  <2>1. \E i \in 1 .. Len(cq) : Acts(i)
    BY <1>4 DEF CacheStep, CacheHit, CacheCmo, CacheScFail, CacheStore, CacheMiss, CacheUncached, Acts
  <2> QED
    BY <1>4, <2>1 DEF CacheStep, seqVars
<1>5. CASE CacheMove
  BY <1>5 DEF CacheMove, CacheFlush, CacheEvict, FlushLine, Evict, seqVars
<1>6. CASE MemStep
  <2>1. kind' = kind
    BY <1>6 DEF MemStep, seqVars
  <2>2. CASE MemReadSee \/ MemReadTake \/ MemReadPush \/ MemReadShow
    BY <2>1, <2>2 DEF MemReadSee, MemReadTake, MemReadPush, MemReadShow, cacheVars
  <2>3. CASE MemAddrReady \/ MemAddrEdge \/ MemDataReady \/ MemDataEdge
    BY <2>1, <2>3 DEF MemAddrReady, MemAddrEdge, MemDataReady, MemDataEdge, cacheVars
  <2>4. CASE MemWriteTake \/ MemWriteRun \/ MemWriteShow
    BY <2>1, <2>4 DEF MemWriteTake, MemWriteRun, MemWriteShow, cacheVars
  <2>5. CASE CacheTakesRead
    BY <2>1, <2>5 DEF CacheTakesRead, ReadRespTaken, ReadBeat
  <2>6. CASE CacheTakesWrite
    BY <2>1, <2>6 DEF CacheTakesWrite, WriteRespTaken, WriteAck
  <2> QED
    BY <1>6, <2>2, <2>3, <2>4, <2>5, <2>6 DEF MemStep
<1> QED
  BY <1>1, <1>2, <1>3, <1>4, <1>5, <1>6 DEF Next

\* An uncached access that stays out is of the same request.
LEMMA UcKept ==
  ASSUME PathInv, CoreInv, ReadInv, [Next]_vars, UcWait, UcWait'
  PROVE  cq'[1].t = cq[1].t
<1>1. LegalInv /\ OrderInv /\ BusyInv
  BY DEF CoreInv
<1>2. /\ DOMAIN rdBusy \subseteq {UcId} /\ Len(cq) = 1 /\ Fence(cq[1].t)
      /\ \A i \in 1 .. Len(cq) : ~Executable(i)
  BY <1>1, AloneOut
<1>3. ~CanAccept /\ 1 \in 1 .. Len(cq)
  BY <1>2 DEF CanAccept
<1>4. ~DriveRequest
  BY <1>3 DEF DriveRequest, Accept
<1>5. \A i \in 1 .. Len(cq) : ~Acts(i)
  BY <1>2 DEF Acts, LoadHit, CmoDone, ScFail, Store, Miss, Uncached
<1>6. ~(rdOut # None /\ Refill(rdOut))
  BY <1>2, ShownBusy DEF Refill
<1>7. ~Finish(1)
  <2>1. ASSUME Finish(1) PROVE FALSE
    <3>1. cq' = RemoveAt(cq, 1)
      BY <2>1 DEF Finish
    <3> QED
      BY ONLY <1>1, <1>3, <3>1, UcWait', RemoveKeeps
  <2> QED
    BY <2>1
<1>8. ASSUME NEW old, NEW err, AmoLater(1, old, err) PROVE cq'[1].t = cq[1].t
  <2>1. IsEntry(kind, cq[1]) /\ cq \in [1 .. Len(cq) -> {cq[k] : k \in 1 .. Len(cq)}]
    BY <1>1, <1>3, SeqIsFun DEF LegalInv
  <2>2. cq' = [cq EXCEPT ![1].old = old, ![1].err = err]
    BY <1>8 DEF AmoLater
  <2> QED
    BY <1>3, <2>1, <2>2 DEF IsEntry
<1>9. CASE UncachedRead(rdOut)
  BY <1>7, <1>8, <1>9 DEF UncachedRead, AmoOver
<1>10. CASE UncachedWrite(wrOut)
  BY <1>7, <1>8, <1>10 DEF UncachedWrite, AmoOver
<1> QED
  BY <1>4, <1>5, <1>6, <1>9, <1>10, CqNext

\* A read that stays out is of the same address.
LEMMA AddrKept ==
  ASSUME CoreInv, [Next]_vars, NEW id \in DOMAIN rdBusy, id \in DOMAIN rdBusy'
  PROVE  rdBusy'[id].addr = rdBusy[id].addr
<1>1. "addr" \in DOMAIN rdBusy[id]
  BY DEF CoreInv, BusyInv
<1>2. CASE UNCHANGED rdBusy
  BY <1>2
<1>3. ASSUME NEW k, NEW e, k \notin DOMAIN rdBusy, rdBusy' = Put(rdBusy, k, e)
      PROVE  rdBusy'[id].addr = rdBusy[id].addr
  BY <1>3 DEF Put
<1>4. ASSUME NEW S, rdBusy' = Restrict(rdBusy, S)
      PROVE  rdBusy'[id].addr = rdBusy[id].addr
  BY <1>4 DEF Restrict
<1>5. CASE SequenceStep \/ Simulate \/ CheckInflight \/ DriverFinish \/ DriveRequest \/ Over \/ UNCHANGED vars
  BY <1>2, <1>5 DEF SequenceStep, SequenceMain, SequenceBetween, SequenceSc, SequenceStop, Send, Simulate,
              CheckInflight, DriverFinish, DriveRequest, Accept, Over, vars, cacheVars
<1>6. CASE CacheStep
  <2>1. PICK i \in 1 .. Len(cq) : Acts(i)
    BY <1>6 DEF CacheStep, CacheHit, CacheCmo, CacheScFail, CacheStore, CacheMiss, CacheUncached, Acts
  <2>2. CASE LoadHit(i) \/ CmoDone(i) \/ ScFail(i) \/ Store(i)
    BY <1>2, <2>2 DEF LoadHit, CmoDone, ScFail, Store
  <2>3. CASE Miss(i)
    <3>1. NextId(ReadIds, rdBusy) \notin DOMAIN rdBusy
      BY <2>3 DEF Miss, FreeId, NextId
    <3> QED
      BY <1>3, <2>3, <3>1 DEF Miss, SendRead
  <2>4. CASE Uncached(i)
    BY <2>4 DEF Uncached, Executable, Fence, Quiet
  <2> QED
    BY <2>1, <2>2, <2>3, <2>4 DEF Acts
<1>7. CASE CacheMove
  BY <1>2, <1>7 DEF CacheMove, CacheFlush, CacheEvict, FlushLine, Evict
<1>8. CASE MemStep
  <2>1. CASE MemReadSee \/ MemReadTake \/ MemReadPush \/ MemReadShow
    BY <1>2, <2>1 DEF MemReadSee, MemReadTake, MemReadPush, MemReadShow, cacheVars
  <2>2. CASE MemAddrReady \/ MemAddrEdge \/ MemDataReady \/ MemDataEdge
    BY <1>2, <2>2 DEF MemAddrReady, MemAddrEdge, MemDataReady, MemDataEdge, cacheVars
  <2>3. CASE MemWriteTake \/ MemWriteRun \/ MemWriteShow
    BY <1>2, <2>3 DEF MemWriteTake, MemWriteRun, MemWriteShow, cacheVars
  <2>4. CASE CacheTakesRead
    <3>1. CASE ReadBeat(rdOut)
      <4>1. rdBusy' = [rdBusy EXCEPT ![rdOut.id].values = @ \o rdOut.data]
        BY <3>1 DEF ReadBeat
      <4>2. "addr" # "values"
        OBVIOUS
      <4> QED
        BY <1>1, <4>1, <4>2
    <3>2. CASE Refill(rdOut) \/ UncachedRead(rdOut)
      <4>1. \E S : rdBusy' = Restrict(rdBusy, S)
        BY <3>2 DEF Refill, UncachedRead
      <4> QED
        BY <1>4, <4>1
    <3> QED
      BY <2>4, <3>1, <3>2 DEF CacheTakesRead
  <2>5. CASE CacheTakesWrite
    BY <1>2, <2>5 DEF CacheTakesWrite, WriteAck, UncachedWrite
  <2> QED
    BY <1>8, <2>1, <2>2, <2>3, <2>4, <2>5 DEF MemStep
<1> QED
  BY <1>5, <1>6, <1>7, <1>8 DEF Next

----------------------------------------------------------------------------
(* Error segments and lines                                                *)

\* Products keep the order.
LEMMA Multiples ==
  ASSUME NEW x \in Nat, NEW y \in Nat, NEW w \in Nat \ {0}
  PROVE  /\ x * w \in Nat /\ (x <= y <=> x * w <= y * w)
         /\ (x + 1) * w = x * w + w
<1>1. x * w \in Nat /\ (x + 1) * w = x * w + w
  OBVIOUS
<1>2. ASSUME NEW p \in Nat, NEW q \in Nat, p <= q PROVE p * w <= q * w
  <2>1. PICK d \in Nat : q = p + d
    <3>1. q - p \in Nat /\ q = p + (q - p)
      BY <1>2
    <3> QED
      BY <3>1
  <2>2. (p + d) * w = p * w + d * w /\ d * w \in Nat /\ p * w \in Nat
    OBVIOUS
  <2> QED
    BY <2>1, <2>2
<1>3. ASSUME ~(x <= y) PROVE ~(x * w <= y * w)
  <2>1. y + 1 \in Nat /\ y + 1 <= x
    BY <1>3
  <2>2. (y + 1) * w <= x * w /\ (y + 1) * w = y * w + w /\ y * w \in Nat /\ x * w \in Nat
    BY <1>2, <2>1
  <2> QED
    BY <2>2
<1> QED
  BY <1>1, <1>2, <1>3

\* The place of a line.
LEMMA LinePlace ==
  ASSUME NEW a \in Nat
  PROVE  /\ get_nline(a) \in Nat /\ get_nline(a) * LineWords \in Nat
         /\ get_nline(a) * LineWords <= a /\ a < (get_nline(a) + 1) * LineWords
<1> DEFINE w == LineWords  l == a \div w
<1>1. w \in Nat \ {0}
  BY WordsAssumption
<1> HIDE DEF w
<1>2. l \in Nat /\ a = (l * w) + (a % w) /\ a % w \in 0 .. w - 1
  BY <1>1
<1>3. l * w \in Nat
  BY <1>1, <1>2
<1>4. (l + 1) * w = l * w + w
  BY <1>1, <1>2, Multiples
<1> HIDE DEF l
<1>5. l * w <= a /\ a < l * w + w
  BY <1>1, <1>2, <1>3
<1> QED
  BY <1>2, <1>3, <1>4, <1>5 DEF get_nline, l, w

\* What overlaps an access within a line overlaps its first word.
LEMMA OverlapLine ==
  ASSUME NEW b \in Nat, NEW e \in Nat, NEW a \in Nat, NEW n \in Nat \ {0},
         a + n <= (get_nline(a) + 1) * LineWords
  PROVE  Overlap(b * LineWords, e * LineWords, a, a + n)
           = Overlap(b * LineWords, e * LineWords, get_nline(a) * LineWords, get_nline(a) * LineWords + 1)
<1> DEFINE w == LineWords  l == get_nline(a)
           bw == b * w  ew == e * w  lw == l * w  nw == (l + 1) * w
<1>1. w \in Nat \ {0} /\ l \in Nat /\ lw <= a /\ a < nw /\ lw \in Nat
  BY LinePlace, WordsAssumption
<1> HIDE DEF l, w
<1>2. l + 1 \in Nat /\ bw \in Nat /\ ew \in Nat /\ nw \in Nat /\ nw = lw + w
  BY <1>1, Multiples
<1>3. (e <= l <=> ew <= lw) /\ (l + 1 <= e <=> nw <= ew)
  BY <1>1, <1>2, Multiples
<1>4. (b <= l <=> bw <= lw) /\ (l + 1 <= b <=> nw <= bw)
  BY <1>1, <1>2, Multiples
<1>5. a + n <= nw
  BY DEF nw, l, w
<1> HIDE DEF bw, ew, lw, nw
<1>6. ew > a <=> ew > lw
  <2>1. CASE e <= l
    BY <1>1, <1>2, <1>3, <2>1
  <2>2. CASE ~(e <= l)
    <3>1. l + 1 <= e
      BY <1>1, <2>2
    <3> QED
      BY <1>1, <1>2, <1>3, <3>1
  <2> QED
    BY <2>1, <2>2
<1>7. bw < a + n <=> bw < lw + 1
  <2>1. CASE b <= l
    BY <1>1, <1>2, <1>4, <2>1
  <2>2. CASE ~(b <= l)
    <3>1. l + 1 <= b
      BY <1>1, <2>2
    <3> QED
      BY <1>1, <1>2, <1>4, <1>5, <3>1
  <2> QED
    BY <2>1, <2>2
<1>8. Overlap(bw, ew, a, a + n) = Overlap(bw, ew, lw, lw + 1)
  BY <1>6, <1>7 DEF Overlap
<1> QED
  BY <1>8 DEF bw, ew, lw, l, w

\* The error of an access within a line is that of the line.
LineWrong(k, l) == within_error_region(Segs(k), l * LineWords, l * LineWords + 1)
LEMMA RegionLine ==
  ASSUME ErrorsByLine, NEW k, NEW a \in Nat, NEW n \in Nat \ {0},
         a + n <= (get_nline(a) + 1) * LineWords
  PROVE  within_error_region(Segs(k), a, a + n) = LineWrong(k, get_nline(a))
<1> DEFINE s == Segs(k)  lw == get_nline(a) * LineWords
           h == {i \in 1 .. Len(s) : Overlap(s[i].base, s[i].end, a, a + n)}
           g == {i \in 1 .. Len(s) : Overlap(s[i].base, s[i].end, lw, lw + 1)}
<1>1. ASSUME NEW i \in 1 .. Len(s)
      PROVE  Overlap(s[i].base, s[i].end, a, a + n) = Overlap(s[i].base, s[i].end, lw, lw + 1)
  <2>1. s = ErrorSegments
    BY <1>1 DEF Segs
  <2>2. PICK b \in Nat, e \in Nat : s[i].base = b * LineWords /\ s[i].end = e * LineWords
    BY <1>1, <2>1 DEF ErrorsByLine
  <2>3. Overlap(b * LineWords, e * LineWords, a, a + n) = Overlap(b * LineWords, e * LineWords, lw, lw + 1)
    BY OverlapLine, Zenon
  <2> HIDE DEF s, lw
  <2> QED
    BY <2>2, <2>3
<1>2. h = g
  <2> HIDE DEF s, lw
  <2> QED
    BY <1>1
<1>3. /\ within_error_region(s, a, a + n) = (h # {} /\ s[CHOOSE i \in h : \A j \in h : i =< j].error)
      /\ within_error_region(s, lw, lw + 1) = (g # {} /\ s[CHOOSE i \in g : \A j \in g : i =< j].error)
  BY DEF within_error_region
<1> HIDE DEF h, g, s, lw
<1>4. within_error_region(s, a, a + n) = within_error_region(s, lw, lw + 1)
  BY <1>2, <1>3
<1> QED
  BY <1>4 DEF LineWrong, s, lw

\* So it is of a word, and of all the words of its line.
LEMMA WordWrong ==
  ASSUME ErrorsByLine, NEW k, NEW a \in Words
  PROVE  Wrong(k, a) = LineWrong(k, get_nline(a))
<1>1. a \in Nat /\ a + 1 <= (get_nline(a) + 1) * LineWords
  <2> DEFINE nw == (get_nline(a) + 1) * LineWords
  <2>1. a \in Nat /\ a < nw /\ get_nline(a) \in Nat /\ LineWords \in Nat
    BY LinePlace, WordsAssumption
  <2>2. nw \in Nat
    BY <2>1
  <2> HIDE DEF nw
  <2>3. a + 1 <= nw
    BY <2>1, <2>2
  <2> QED
    BY <2>1, <2>3 DEF nw
<1> QED
  BY <1>1, RegionLine DEF Wrong

\* A line is finite and has not more words than there is room for behind its base.
LEMMA LineSize ==
  ASSUME NEW addr \in Words
  PROVE  /\ Cardinality(Line(addr)) \in Nat \ {0} /\ Cardinality(Line(addr)) <= LineWords
         /\ Base(addr) + Cardinality(Line(addr)) <= (get_nline(Base(addr)) + 1) * LineWords
         /\ IsFiniteSet(Line(addr))
<1> DEFINE l == get_nline(addr)  b == Base(addr)  nw == (l + 1) * LineWords  lw == l * LineWords
           c == Cardinality(Line(addr))
<1>1. /\ addr \in Nat /\ b \in Nat /\ get_nline(b) = l /\ addr \in Line(addr)
      /\ \A w \in Line(addr) : w \in Nat /\ b <= w /\ get_nline(w) = l
  BY BaseOfLine, WordsAssumption DEF Line
<1>2. \A w \in Line(addr) : w < nw
  BY <1>1, LinePlace
<1>3. /\ l \in Nat /\ LineWords \in Nat \ {0} /\ lw \in Nat /\ lw <= b
  BY <1>1, LinePlace, WordsAssumption
<1>4. nw \in Nat /\ nw = lw + LineWords
  BY <1>3, Multiples
<1> HIDE DEF nw, lw, l, b
<1>5. Line(addr) \subseteq b .. nw - 1
  BY <1>1, <1>2, <1>4
<1>6. b <= nw - 1
  BY <1>1, <1>4, <1>5
<1>7. IsFiniteSet(b .. nw - 1) /\ Cardinality(b .. nw - 1) = nw - b
  <2> DEFINE m == nw - 1
  <2>1. b \in Int /\ m \in Int /\ b <= m /\ m - b + 1 = nw - b
    BY <1>1, <1>4, <1>6
  <2> HIDE DEF m
  <2>2. IsFiniteSet(b .. m) /\ Cardinality(b .. m) = m - b + 1
    BY <2>1, FS_Interval
  <2> QED
    BY <2>1, <2>2 DEF m
<1>8. IsFiniteSet(Line(addr)) /\ c \in Nat /\ c <= nw - b
  <2>1. IsFiniteSet(Line(addr))
    BY <1>5, <1>7, FS_Subset
  <2>2. c <= Cardinality(b .. nw - 1)
    BY <1>5, <1>7, FS_Subset
  <2> QED
    BY <1>7, <2>1, <2>2, FS_CardinalityType
<1>9. c # 0
  BY <1>1, <1>8, FS_EmptySet
<1> HIDE DEF c
<1>10. b + c <= nw /\ c <= LineWords
  BY <1>1, <1>3, <1>4, <1>8
<1> QED
  BY <1>1, <1>8, <1>9, <1>10 DEF c, b, nw, l

\* A request for a beat of a line, or for one word, has the error of the line.
LEMMA AccessWrong ==
  ASSUME ErrorsByLine, NEW k, NEW addr \in Words, NEW v \in Words, get_nline(v) = get_nline(addr)
  PROVE  /\ Wrong(k, v) = Wrong(k, addr)
         /\ \A r : r.addr = v /\ r.size = 1 => WrongAccess(k, r) = Wrong(k, addr)
         /\ \A r : r.addr = Base(addr) /\ r.size \in 1 .. Cardinality(Line(addr)) =>
              WrongAccess(k, r) = Wrong(k, addr)
<1>1. Wrong(k, v) = Wrong(k, addr)
  BY WordWrong
<1>2. ASSUME NEW r, r.addr = Base(addr), r.size \in 1 .. Cardinality(Line(addr))
      PROVE  WrongAccess(k, r) = Wrong(k, addr)
  <2> DEFINE b == Base(addr)  n == r.size  c == Cardinality(Line(addr))  nw == (get_nline(b) + 1) * LineWords
  <2>1. b \in Nat /\ get_nline(b) = get_nline(addr) /\ get_nline(b) \in Nat /\ LineWords \in Nat
    BY BaseOfLine, LinePlace, WordsAssumption
  <2>2. nw \in Nat
    BY <2>1
  <2>3. c \in Nat /\ b + c <= nw /\ n \in 1 .. c
    BY <1>2, LineSize
  <2> HIDE DEF b, n, c, nw
  <2>4. n \in Nat \ {0} /\ b + n <= nw
    BY <2>1, <2>2, <2>3
  <2>5. within_error_region(Segs(k), b, b + n) = LineWrong(k, get_nline(b))
    BY <2>1, <2>4, RegionLine DEF nw
  <2> QED
    BY <1>2, <2>1, <2>5, WordWrong DEF WrongAccess, b, n
<1> QED
  BY <1>1, <1>2 DEF WrongAccess, Wrong

----------------------------------------------------------------------------
(* The errors on the read channel                                          *)

\* Every read on its way is out.
ReadsAreOut ==
  /\ \A k \in 1 .. Len(rdReq) : rdReq[k].id \in DOMAIN rdBusy
  /\ rd.pc = "push" => rd.req.id \in DOMAIN rdBusy
  /\ \A k \in 1 .. Len(readRespFifo) : readRespFifo[k].id \in DOMAIN rdBusy
  /\ rdOut # None => rdOut.id \in DOMAIN rdBusy
LEMMA ReadsOut == ReadInv => ReadsAreOut
<1> SUFFICES ASSUME ReadInv PROVE ReadsAreOut
  OBVIOUS
<1>1. /\ \A k \in 1 .. Len(rdReq) : rdReq[k].id \in DOMAIN rdBusy
      /\ \A k \in 1 .. Len(Stream) : Stream[k].id \in DOMAIN rdBusy
      /\ rd.pc = "push" => rd.req.id \in DOMAIN rdBusy
  BY DEF ReadInv, Once, Pushed
<1>2. ASSUME NEW k \in 1 .. Len(readRespFifo) PROVE readRespFifo[k].id \in DOMAIN rdBusy
  <2> DEFINE p == RdShown  q == readRespFifo
  <2>1. IsSeq(p) /\ IsSeq(q)
    BY StreamSeq DEF ReadInv
  <2>2. /\ Len(Cat(p, q)) = Len(p) + Len(q) /\ Len(p) \in Nat /\ Len(q) \in Nat
        /\ \A i \in 1 .. Len(p) + Len(q) : Cat(p, q)[i] = IF i <= Len(p) THEN p[i] ELSE q[i - Len(p)]
    BY <2>1, SeqCat
  <2> DEFINE j == Len(p) + k
  <2>3. k \in 1 .. Len(q)
    OBVIOUS
  <2> HIDE DEF p, q
  <2>4. j \in 1 .. Len(p) + Len(q) /\ ~(j <= Len(p)) /\ j - Len(p) = k
    BY <2>2, <2>3
  <2>5. Cat(p, q)[j] = q[k] /\ j \in 1 .. Len(Cat(p, q))
    BY <2>2, <2>4
  <2> QED
    BY <1>1, <2>5 DEF Stream, p, q
<1>3. rdOut # None => rdOut.id \in DOMAIN rdBusy
  BY ShownBusy
<1> QED
  BY <1>1, <1>2, <1>3 DEF ReadsAreOut

\* What was said of a read that is out remains true.
LEMMA ReadTransfer ==
  ASSUME PathInv, CoreInv, CoreInv', ReadInv, [Next]_vars, NEW id \in DOMAIN rdBusy, id \in DOMAIN rdBusy'
  PROVE  \A r : r.id = id =>
           /\ AskedFor(kind, rdBusy[id].addr, cq[1].t.op, r) =>
                AskedFor(kind', rdBusy'[id].addr, cq'[1].t.op, r)
           /\ AnsweredFor(kind, rdBusy[id].addr, cq[1].t.op, r) =>
                AnsweredFor(kind', rdBusy'[id].addr, cq'[1].t.op, r)
<1>1. kind' = kind /\ rdBusy'[id].addr = rdBusy[id].addr
  BY CqNext, AddrKept
<1>2. CASE id = UcId
  <2>1. UcWait /\ UcWait'
    BY <1>2 DEF CoreInv, BusyInv
  <2>2. cq'[1].t = cq[1].t
    BY <2>1, UcKept
  <2> QED
    BY <1>1, <2>2
<1>3. CASE id # UcId
  BY <1>1, <1>3 DEF AskedFor, AnsweredFor
<1> QED
  BY <1>2, <1>3

\* A step keeps the read channel right when all that is new on it is.
LEMMA NewReads ==
  ASSUME PathInv, CoreInv, CoreInv', ReadInv, ReadInv', RightReads, [Next]_vars,
         \A k \in 1 .. Len(rdReq') :
           \/ AskedFor(kind', rdBusy'[rdReq'[k].id].addr, cq'[1].t.op, rdReq'[k])
           \/ \E j \in 1 .. Len(rdReq) : rdReq'[k] = rdReq[j],
         rd'.pc = "push" => \/ rd.pc = "push" /\ rd'.req = rd.req
                            \/ \E j \in 1 .. Len(rdReq) : rd'.req = rdReq[j],
         \A k \in 1 .. Len(readRespFifo') :
           \/ AnsweredFor(kind', rdBusy'[readRespFifo'[k].id].addr, cq'[1].t.op, readRespFifo'[k])
           \/ \E j \in 1 .. Len(readRespFifo) : readRespFifo'[k] = readRespFifo[j],
         rdOut' # None => rdOut' = rdOut \/ \E j \in 1 .. Len(readRespFifo) : rdOut' = readRespFifo[j]
  PROVE  RightReads'
<1> DEFINE Out(id) == id \in DOMAIN rdBusy /\ id \in DOMAIN rdBusy'
           Ask(r) == AskedFor(kind, rdBusy[r.id].addr, cq[1].t.op, r)
           Ask1(r) == AskedFor(kind', rdBusy'[r.id].addr, cq'[1].t.op, r)
           Ans(r) == AnsweredFor(kind, rdBusy[r.id].addr, cq[1].t.op, r)
           Ans1(r) == AnsweredFor(kind', rdBusy'[r.id].addr, cq'[1].t.op, r)
<1>1. /\ \A k \in 1 .. Len(rdReq) : rdReq[k].id \in DOMAIN rdBusy
      /\ rd.pc = "push" => rd.req.id \in DOMAIN rdBusy
      /\ \A k \in 1 .. Len(readRespFifo) : readRespFifo[k].id \in DOMAIN rdBusy
      /\ rdOut # None => rdOut.id \in DOMAIN rdBusy
  BY ReadsOut DEF ReadsAreOut
<1>2. /\ \A k \in 1 .. Len(rdReq') : rdReq'[k].id \in DOMAIN rdBusy'
      /\ rd'.pc = "push" => rd'.req.id \in DOMAIN rdBusy'
      /\ \A k \in 1 .. Len(readRespFifo') : readRespFifo'[k].id \in DOMAIN rdBusy'
      /\ rdOut' # None => rdOut'.id \in DOMAIN rdBusy'
  <2>1. ReadsAreOut'
    BY ReadsOut, PTL
  <2> QED
    BY <2>1 DEF ReadsAreOut
<1>3. \A r : Out(r.id) => (Ask(r) => Ask1(r)) /\ (Ans(r) => Ans1(r))
  BY ReadTransfer
<1>4. /\ \A k \in 1 .. Len(rdReq) : Ask(rdReq[k])
      /\ rd.pc = "push" => Ask(rd.req)
      /\ \A k \in 1 .. Len(readRespFifo) : Ans(readRespFifo[k])
      /\ rdOut # None => Ans(rdOut)
  BY DEF RightReads, Asked, Answered
<1> HIDE DEF Ask, Ans, Ask1, Ans1
<1>5. \A k \in 1 .. Len(rdReq') : Ask1(rdReq'[k])
  BY <1>1, <1>2, <1>3, <1>4 DEF Ask1
<1>6. rd'.pc = "push" => Ask1(rd'.req)
  BY <1>1, <1>2, <1>3, <1>4
<1>7. \A k \in 1 .. Len(readRespFifo') : Ans1(readRespFifo'[k])
  BY <1>1, <1>2, <1>3, <1>4 DEF Ans1
<1>8. rdOut' # None => Ans1(rdOut')
  BY <1>1, <1>2, <1>3, <1>4
<1> QED
  BY <1>5, <1>6, <1>7, <1>8 DEF RightReads, Asked, Answered, Ask1, Ans1

\* The steps that change something on the way of a read.
LEMMA ReadKinds ==
  ASSUME [Next]_vars
  PROVE  \/ UNCHANGED <<rdReq, rd, rdOut, readRespFifo>>
         \/ UNCHANGED memVars /\ \E i \in 1 .. Len(cq) : Miss(i) \/ Uncached(i)
         \/ MemReadSee \/ MemReadTake \/ MemReadPush \/ MemReadShow \/ CacheTakesRead
         \/ WritePushRead /\ UNCHANGED cacheVars
<1>1. CASE SequenceStep \/ Simulate \/ CheckInflight \/ DriverFinish \/ DriveRequest \/ Over \/ UNCHANGED vars
  BY <1>1 DEF Simulate, SequenceStep, SequenceMain, SequenceBetween, SequenceSc, SequenceStop,
              Send, CheckInflight, DriverFinish, DriveRequest, Accept, Over, vars, cacheVars, chVars,
              memVars, rdVars, respVars
<1>2. CASE CacheStep
  <2>1. UNCHANGED memVars
    BY <1>2 DEF CacheStep
  <2>2. CASE CacheHit \/ CacheCmo \/ CacheScFail \/ CacheStore
    BY <2>1, <2>2 DEF CacheHit, CacheCmo, CacheScFail, CacheStore, LoadHit, CmoDone, ScFail, Store,
                      memVars, rdVars, respVars, chVars
  <2> QED
    BY <1>2, <2>1, <2>2 DEF CacheStep, CacheMiss, CacheUncached
<1>3. CASE CacheMove
  BY <1>3 DEF CacheMove, CacheFlush, CacheEvict, FlushLine, Evict, chVars, memVars, rdVars, respVars
<1>4. CASE MemStep
  <2>1. CASE MemAddrReady \/ MemAddrEdge \/ MemDataReady \/ MemDataEdge
    BY <2>1 DEF MemAddrReady, AddrReady, MemAddrEdge, AddrEdge, MemDataReady, DataReady, MemDataEdge,
                DataEdge, rdVars, respVars, cacheVars, chVars
  <2>2. CASE MemWriteTake /\ ~WritePushRead
    BY <2>2 DEF MemWriteTake, WriteMeta, WriteData, WritePush, rdVars, respVars, cacheVars, chVars
  <2>3. CASE MemWriteTake /\ WritePushRead
    BY <2>3 DEF MemWriteTake
  <2>4. CASE MemWriteRun \/ MemWriteShow
    BY <2>4 DEF MemWriteRun, WriteRun, MemWriteShow, WriteRespShow, rdVars, respVars, cacheVars, chVars
  <2>5. CASE CacheTakesWrite
    BY <2>5 DEF CacheTakesWrite, WriteRespTaken, WriteAck, UncachedWrite, rdVars, respVars, chVars
  <2> QED
    BY <1>4, <2>1, <2>2, <2>3, <2>4, <2>5 DEF MemStep
<1> QED
  BY <1>1, <1>2, <1>3, <1>4 DEF Next

\* The size of a beat.
LEMMA BeatSize ==
  ASSUME NEW addr \in Words, conf \in Configs
  PROVE  BeatWords(addr) \in 1 .. Cardinality(Line(addr))
BY LineSize, ConfigsAssumption DEF BeatWords

\* The cache asks for a line, or for an uncached word.
LEMMA RightAsk ==
  ASSUME ErrorsByLine, CoreInv, conf \in Configs, kind' = kind, NEW i \in 1 .. Len(cq), Miss(i) \/ Uncached(i),
         IsSeq(rdReq)
  PROVE  \A k \in 1 .. Len(rdReq') :
           \/ AskedFor(kind', rdBusy'[rdReq'[k].id].addr, cq'[1].t.op, rdReq'[k])
           \/ \E j \in 1 .. Len(rdReq) : rdReq'[k] = rdReq[j]
<1> DEFINE t == cq[i].t
<1>1. ASSUME UNCHANGED rdReq
      PROVE  \A k \in 1 .. Len(rdReq') : \E j \in 1 .. Len(rdReq) : rdReq'[k] = rdReq[j]
  BY <1>1
<1>2. ASSUME NEW id, NEW addr, NEW size, NEW n, NEW command, SendRead(id, addr, size, n, command),
             AskedFor(kind, addr, cq'[1].t.op,
                      [id |-> id, addr |-> addr, size |-> size, len |-> n, command |-> command])
      PROVE  \A k \in 1 .. Len(rdReq') :
           \/ AskedFor(kind', rdBusy'[rdReq'[k].id].addr, cq'[1].t.op, rdReq'[k])
           \/ \E j \in 1 .. Len(rdReq) : rdReq'[k] = rdReq[j]
  <2> DEFINE x == [id |-> id, addr |-> addr, size |-> size, len |-> n, command |-> command]
             y == [addr |-> addr, values |-> <<>>]
  <2>1. rdReq' = Append(rdReq, x) /\ rdBusy' = Put(rdBusy, id, y)
    BY <1>2 DEF SendRead
  <2>2. x.id = id /\ y.addr = addr
    OBVIOUS
  <2>3. AskedFor(kind, addr, cq'[1].t.op, x)
    BY <1>2
  <2> HIDE DEF x, y
  <2>4. rdBusy'[id] = y
    BY <2>1 DEF Put
  <2>5. AskedFor(kind', rdBusy'[x.id].addr, cq'[1].t.op, x)
    BY <2>2, <2>3, <2>4
  <2>6. /\ Len(rdReq') = Len(rdReq) + 1 /\ Len(rdReq) \in Nat
        /\ \A k \in 1 .. Len(rdReq) : rdReq'[k] = rdReq[k]
        /\ rdReq'[Len(rdReq) + 1] = x
    BY <2>1, SeqAppend
  <2>7. \A k \in 1 .. Len(rdReq') : k \in 1 .. Len(rdReq) \/ k = Len(rdReq) + 1
    BY <2>6
  <2> QED
    BY <2>5, <2>6, <2>7
<1>3. CASE Miss(i)
  <2> DEFINE id == NextId(ReadIds, rdBusy)  n == Cardinality(Line(t.addr)) \div BeatWords(t.addr) - 1
             b == Base(t.addr)  z == BeatWords(t.addr)
             x == [id |-> id, addr |-> b, size |-> z, len |-> n, command |-> "READ"]
  <2>1. SendRead(id, b, z, n, "READ") /\ FreeId(ReadIds, rdBusy) /\ Executable(i)
    BY <1>3 DEF Miss
  <2>2. t.addr \in Words
    BY <2>1, ExecutableFacts DEF Legal
  <2>3. id # UcId
    <3>1. id \in ReadIds
      BY <2>1 DEF FreeId, NextId
    <3> QED
      BY <3>1, TestBenchAssumption
  <2>4. z \in 1 .. Cardinality(Line(t.addr)) /\ b \in Words /\ get_nline(b) = get_nline(t.addr)
    BY <2>2, BeatSize, BaseOfLine
  <2>5. x.addr = b /\ x.size = z /\ x.id = id /\ x.command = "READ"
    OBVIOUS
  <2> HIDE DEF id, n, z, x
  <2>6. WrongAccess(kind, x) = Wrong(kind, t.addr) /\ Wrong(kind, b) = Wrong(kind, t.addr)
    BY <2>2, <2>4, <2>5, AccessWrong
  <2>7. AskedFor(kind, b, cq'[1].t.op, x)
    BY <2>3, <2>5, <2>6 DEF AskedFor
  <2> QED
    BY <1>2, <2>1, <2>7 DEF x
<1>4. CASE Uncached(i)
  <2>1. Executable(i) /\ (t.uncacheable \/ Atomic(t.op)) /\ cq' = [cq EXCEPT ![i].pc = "wait"]
    BY <1>4 DEF Uncached
  <2>2. /\ i = 1 /\ Len(cq) = 1 /\ IsEntry(kind, cq[i])
    BY <2>1, ExecutableFacts DEF Fence
  <2>3. cq'[1].t = t
    <3>1. cq \in [1 .. Len(cq) -> {cq[k] : k \in 1 .. Len(cq)}]
      BY SeqIsFun DEF CoreInv, LegalInv
    <3> QED
      BY <2>1, <2>2, <3>1 DEF IsEntry
  <2>4. CASE t.op \in {"LOAD", "LR"}
    <3> DEFINE com == IF t.op = "LR" THEN "LDEX" ELSE "READ"
               x == [id |-> UcId, addr |-> t.addr, size |-> 1, len |-> 0, command |-> com]
    <3>1. SendRead(UcId, t.addr, 1, 0, com)
      BY <1>4, <2>4 DEF Uncached
    <3>2. x.addr = t.addr /\ x.size = 1 /\ x.id = UcId /\ x.command = com
      OBVIOUS
    <3>3. ~is_amo(t.op)
      BY <2>4, ApartOps DEF is_amo
    <3> HIDE DEF x
    <3>4. WrongAccess(kind, x) = Wrong(kind, t.addr)
      BY <3>2 DEF WrongAccess, Wrong
    <3>5. AskedFor(kind, t.addr, cq'[1].t.op, x)
      BY <2>3, <3>2, <3>3, <3>4 DEF AskedFor
    <3> QED
      BY <1>2, <3>1, <3>5 DEF x
  <2>5. CASE t.op \notin {"LOAD", "LR"}
    <3>1. UNCHANGED rdReq
      BY <1>4, <2>5 DEF Uncached
    <3> QED
      BY <1>1, <3>1
  <2> QED
    BY <2>4, <2>5
<1> QED
  BY <1>3, <1>4


\* The memory model answers with the error of the access.
LEMMA RightPush ==
  ASSUME RightReads, ReadInv, rd.pc = "push", kind' = kind, UNCHANGED <<rdBusy, cq>>, MemReadPush
  PROVE  \A k \in 1 .. Len(readRespFifo') :
           \/ AnsweredFor(kind', rdBusy'[readRespFifo'[k].id].addr, cq'[1].t.op, readRespFifo'[k])
           \/ \E j \in 1 .. Len(readRespFifo) : readRespFifo'[k] = readRespFifo[j]
<1> DEFINE r == rd.req
           e == within_error_region(errorsegs, rd.req.addr, rd.req.addr + rd.req.size)
           f == rd.req.addr + rd.beat * rd.req.size
           x == [id |-> rd.req.id, error |-> e, last |-> rd.beat = rd.req.len,
                 data |-> [k \in 1 .. rd.req.size |-> IF e THEN 0 ELSE readMemory(f + k - 1)]]
<1>1. readRespFifo' = Append(readRespFifo, x)
  BY DEF MemReadPush, ReadPush
<1>2. x.id = r.id /\ x.error = e
  OBVIOUS
<1>3. e = WrongAccess(kind, r)
  BY DEF WrongAccess, Segs, errorsegs
<1>4. Asked(r)
  BY DEF RightReads
<1> HIDE DEF x, e, r
<1>5. AnsweredFor(kind', rdBusy'[x.id].addr, cq'[1].t.op, x)
  BY <1>2, <1>3, <1>4 DEF Asked, AskedFor, AnsweredFor
<1>6. /\ Len(readRespFifo') = Len(readRespFifo) + 1 /\ Len(readRespFifo) \in Nat
      /\ \A k \in 1 .. Len(readRespFifo) : readRespFifo'[k] = readRespFifo[k]
      /\ readRespFifo'[Len(readRespFifo) + 1] = x
  BY <1>1, SeqAppend DEF ReadInv, QueueType
<1>7. \A k \in 1 .. Len(readRespFifo') : k \in 1 .. Len(readRespFifo) \/ k = Len(readRespFifo) + 1
  BY <1>6
<1> QED
  BY <1>5, <1>6, <1>7

\* The old data of an atomic come without an error.
LEMMA RightOld ==
  ASSUME RightWrites, PathInv, CoreInv, ReadInv, WritePushRead, UNCHANGED <<rdBusy, cq>>
  PROVE  \A k \in 1 .. Len(readRespFifo') :
           \/ AnsweredFor(kind', rdBusy'[readRespFifo'[k].id].addr, cq'[1].t.op, readRespFifo'[k])
           \/ \E j \in 1 .. Len(readRespFifo) : readRespFifo'[k] = readRespFifo[j]
<1> DEFINE x == wp.rresp
<1>1. readRespFifo' = Append(readRespFifo, x) /\ wp.pc = "read_resp"
  BY DEF WritePushRead
<1>2. x.id = UcId /\ wp.req.id = UcId /\ x.error = FALSE /\ mem_is_amo(wp.req.command) /\ Sent(wp.req)
  BY <1>1 DEF ReadInv, AnswerType, RightWrites
<1>3. UcId \in DOMAIN wrBusy
  BY <1>1, <1>2, QueueApart
<1>4. cq[1].t.op \in {"STORE", "SC"} \cup AmoOps /\ wp.req.command = UcCommand(cq[1].t.op)
  BY <1>2, <1>3 DEF CoreInv, BusyInv, Sent, SentFor
<1>5. is_amo(cq[1].t.op)
  BY <1>2, <1>4, Commands DEF UcCommand, is_amo
<1> HIDE DEF x
<1>6. AnsweredFor(kind', rdBusy'[x.id].addr, cq'[1].t.op, x)
  BY <1>2, <1>5 DEF AnsweredFor
<1>7. /\ Len(readRespFifo') = Len(readRespFifo) + 1 /\ Len(readRespFifo) \in Nat
      /\ \A k \in 1 .. Len(readRespFifo) : readRespFifo'[k] = readRespFifo[k]
      /\ readRespFifo'[Len(readRespFifo) + 1] = x
  BY <1>1, SeqAppend DEF ReadInv, QueueType
<1>8. \A k \in 1 .. Len(readRespFifo') : k \in 1 .. Len(readRespFifo) \/ k = Len(readRespFifo) + 1
  BY <1>7
<1> QED
  BY <1>6, <1>7, <1>8

\* A step of the read channel that adds no request and no response.
ReadsGoOn ==
  /\ \A k \in 1 .. Len(rdReq') : \E j \in 1 .. Len(rdReq) : rdReq'[k] = rdReq[j]
  /\ rd'.pc = "push" => \/ rd.pc = "push" /\ rd'.req = rd.req
                        \/ \E j \in 1 .. Len(rdReq) : rd'.req = rdReq[j]
  /\ \A k \in 1 .. Len(readRespFifo') : \E j \in 1 .. Len(readRespFifo) : readRespFifo'[k] = readRespFifo[j]
  /\ rdOut' # None => rdOut' = rdOut \/ \E j \in 1 .. Len(readRespFifo) : rdOut' = readRespFifo[j]
LEMMA GoOn ==
  ASSUME ReadInv, \/ MemReadSee \/ MemReadTake \/ MemReadShow \/ CacheTakesRead
                  \/ UNCHANGED <<rdReq, rd, rdOut, readRespFifo>>
  PROVE  ReadsGoOn
<1> USE DEF ReadsGoOn
<1>1. IsSeq(rdReq) /\ IsSeq(readRespFifo) /\ DOMAIN rd = {"pc", "req", "beat"}
      /\ (rd.pc = "ready" => rdReq # <<>> /\ rd.req = rdReq[1])
  BY DEF ReadInv, QueueType
<1>2. CASE UNCHANGED <<rdReq, rd, rdOut, readRespFifo>>
  BY <1>2
<1>3. CASE MemReadSee
  BY <1>3 DEF MemReadSee, ReadSee, respVars, cacheVars, chVars, mem_read_req_process
<1>4. CASE MemReadTake
  <2>1. rd.pc = "ready" /\ rd' = [rd EXCEPT !.pc = "push"] /\ rdReq' = Tail(rdReq)
        /\ UNCHANGED <<readRespFifo, rdOut>>
    BY <1>4 DEF MemReadTake, ReadTake, respVars
  <2>2. rd'.req = rdReq[1] /\ rdReq # <<>>
    BY <1>1, <2>1
  <2>3. /\ Len(rdReq) \in Nat \ {0} /\ Len(rdReq') = Len(rdReq) - 1
        /\ \A k \in 1 .. Len(rdReq) - 1 : rdReq'[k] = rdReq[k + 1]
    BY <1>1, <2>1, <2>2, SeqTail
  <2>4. \A k \in 1 .. Len(rdReq') : k + 1 \in 1 .. Len(rdReq) /\ rdReq'[k] = rdReq[k + 1]
    BY <2>3
  <2>5. 1 \in 1 .. Len(rdReq)
    BY <2>3
  <2> QED
    BY <2>1, <2>2, <2>4, <2>5
<1>5. CASE MemReadShow
  <2>1. /\ readRespFifo # <<>> /\ rdOut' = Head(readRespFifo) /\ readRespFifo' = Tail(readRespFifo)
        /\ UNCHANGED <<rd, rdReq>>
    BY <1>5 DEF MemReadShow, ReadRespShow, cacheVars, chVars, rdVars
  <2>2. /\ Len(readRespFifo) \in Nat \ {0} /\ Len(readRespFifo') = Len(readRespFifo) - 1
        /\ \A k \in 1 .. Len(readRespFifo) - 1 : readRespFifo'[k] = readRespFifo[k + 1]
        /\ rdOut' = readRespFifo[1]
    BY <1>1, <2>1, SeqTail
  <2>3. \A k \in 1 .. Len(readRespFifo') : k + 1 \in 1 .. Len(readRespFifo) /\ readRespFifo'[k] = readRespFifo[k + 1]
    BY <2>2
  <2>4. 1 \in 1 .. Len(readRespFifo)
    BY <2>2
  <2> QED
    BY <2>1, <2>2, <2>3, <2>4
<1>6. CASE CacheTakesRead
  BY <1>6 DEF CacheTakesRead, ReadRespTaken, ReadBeat, Refill, UncachedRead, chVars, rdVars
<1> QED
  BY <1>2, <1>3, <1>4, <1>5, <1>6

\* Every step keeps the errors of the read channel right.
LEMMA NextReads ==
  ASSUME ErrorsByLine, conf \in Configs, PathInv, CoreInv, CoreInv', ReadInv, ReadInv', RightReads, RightWrites,
         [Next]_vars
  PROVE  RightReads'
<1>1. kind' = kind
  BY CqNext
<1>2. CASE ReadsGoOn
  BY <1>2, NewReads DEF ReadsGoOn
<1>3. CASE UNCHANGED memVars /\ \E i \in 1 .. Len(cq) : Miss(i) \/ Uncached(i)
  <2>1. UNCHANGED <<rd, rdOut, readRespFifo>> /\ IsSeq(rdReq)
    BY <1>3 DEF memVars, rdVars, respVars, ReadInv, QueueType
  <2>2. \A k \in 1 .. Len(rdReq') :
           \/ AskedFor(kind', rdBusy'[rdReq'[k].id].addr, cq'[1].t.op, rdReq'[k])
           \/ \E j \in 1 .. Len(rdReq) : rdReq'[k] = rdReq[j]
    BY <1>1, <1>3, <2>1, RightAsk
  <2> QED
    BY <2>1, <2>2, NewReads
<1>4. CASE MemReadPush
  <2>1. UNCHANGED <<rdReq, rdOut, rdBusy, cq>> /\ rd.pc = "push"
    BY <1>4 DEF MemReadPush, ReadPush, cacheVars, chVars
  <2>2. rd'.pc = "push" => rd'.req = rd.req
    <3>1. DOMAIN rd = {"pc", "req", "beat"}
      BY DEF ReadInv, QueueType
    <3>2. rd' = [pc |-> "idle", req |-> None, beat |-> 0] \/ rd' = [rd EXCEPT !.beat = @ + 1]
      BY <1>4 DEF MemReadPush, ReadPush
    <3> QED
      BY <3>1, <3>2
  <2>3. \A k \in 1 .. Len(readRespFifo') :
           \/ AnsweredFor(kind', rdBusy'[readRespFifo'[k].id].addr, cq'[1].t.op, readRespFifo'[k])
           \/ \E j \in 1 .. Len(readRespFifo) : readRespFifo'[k] = readRespFifo[j]
    BY <1>1, <1>4, <2>1, RightPush
  <2> QED
    BY <2>1, <2>2, <2>3, NewReads
<1>5. CASE WritePushRead /\ UNCHANGED cacheVars
  <2>1. UNCHANGED <<rdReq, rdOut, rdBusy, cq, rd>>
    BY <1>5 DEF WritePushRead, cacheVars, chVars, rdVars
  <2>2. \A k \in 1 .. Len(readRespFifo') :
           \/ AnsweredFor(kind', rdBusy'[readRespFifo'[k].id].addr, cq'[1].t.op, readRespFifo'[k])
           \/ \E j \in 1 .. Len(readRespFifo) : readRespFifo'[k] = readRespFifo[j]
    BY <1>5, <2>1, RightOld
  <2> QED
    BY <2>1, <2>2, NewReads
<1> QED
  BY <1>2, <1>3, <1>4, <1>5, ReadKinds, GoOn


----------------------------------------------------------------------------
(* The errors on the write channels                                        *)

\* What was said of an access that is out remains true.
LEMMA WriteTransfer ==
  ASSUME PathInv, CoreInv, CoreInv', ReadInv, [Next]_vars, NEW id \in DOMAIN wrBusy, id \in DOMAIN wrBusy'
  PROVE  \A r : r.id = id =>
           /\ SentFor(kind, cq[1].t, r) => SentFor(kind', cq'[1].t, r)
           /\ AckedFor(kind, cq[1].t, r) => AckedFor(kind', cq'[1].t, r)
<1>1. kind' = kind
  BY CqNext
<1>2. CASE id = UcId
  <2>1. UcWait /\ UcWait'
    BY <1>2 DEF CoreInv, BusyInv
  <2>2. cq'[1].t = cq[1].t
    BY <2>1, UcKept
  <2> QED
    BY <1>1, <2>2
<1>3. CASE id # UcId
  BY <1>1, <1>3 DEF SentFor, AckedFor
<1> QED
  BY <1>2, <1>3

\* Every write on its way is out.
WritesAreOut ==
  /\ \A k \in 1 .. Len(AddrQ) : AddrQ[k].id \in DOMAIN wrBusy
  /\ wp.pc # "meta" => wp.req.id \in DOMAIN wrBusy
  /\ wp.pc \in {"read_resp", "resp"} => wp.resp.id = wp.req.id
  /\ \A k \in 1 .. Len(writeRespFifo) : writeRespFifo[k].id \in DOMAIN wrBusy
  /\ wrOut # None => wrOut.id \in DOMAIN wrBusy
LEMMA WritesOut == PathInv => WritesAreOut
<1> SUFFICES ASSUME PathInv PROVE WritesAreOut
  OBVIOUS
<1>1. ASSUME NEW k \in 1 .. Len(writeRespFifo) PROVE writeRespFifo[k].id \in DOMAIN wrBusy
  <2>1. FlitSeq(writeRespFifo)
    BY PathFacts DEF PathInv
  <2> DEFINE a == OutIds  b == FlitIds(writeRespFifo)  c == RunIds
             d == FlitIds(writeReqFifo)  e == FlitIds(Shown)
  <2>2. a \in Seq(WId) /\ b \in Seq(WId) /\ c \in Seq(WId) /\ d \in Seq(WId) /\ e \in Seq(WId)
    BY PathFacts DEF PathInv
  <2>3. b[k] = writeRespFifo[k].id /\ k \in 1 .. Len(b)
    BY <2>1, FlitType
  <2>4. Elements(Chain(a, b, c, d, e)) = DOMAIN wrBusy
    BY DEF PathInv, Track
  <2> HIDE DEF a, b, c, d, e
  <2>5. b[k] \in Elements(b)
    BY <2>3 DEF Elements
  <2>6. \A p, q \in Seq(WId) : Cat(p, q) \in Seq(WId) /\ Elements(Cat(p, q)) = Elements(p) \cup Elements(q)
    BY CatLaws
  <2>7. Cat(a, b) \in Seq(WId) /\ Elements(b) \subseteq Elements(Cat(a, b))
    BY <2>2, <2>6
  <2>8. Cat(Cat(a, b), c) \in Seq(WId) /\ Elements(b) \subseteq Elements(Cat(Cat(a, b), c))
    BY <2>2, <2>6, <2>7
  <2>9. Cat(Cat(Cat(a, b), c), d) \in Seq(WId) /\ Elements(b) \subseteq Elements(Cat(Cat(Cat(a, b), c), d))
    BY <2>2, <2>6, <2>8
  <2>10. Elements(b) \subseteq Elements(Chain(a, b, c, d, e))
    BY <2>2, <2>6, <2>9 DEF Chain
  <2> QED
    BY <2>3, <2>4, <2>5, <2>10
<1>2. wp.pc \in {"read_resp", "resp"} => wp.resp.id = wp.req.id
  BY DEF PathInv, PathType
<1> QED
  BY <1>1, <1>2, QueueApart DEF WritesAreOut

\* A step keeps the write channels right when all that is new on them is.
LEMMA NewWrites ==
  ASSUME PathInv, PathInv', CoreInv, CoreInv', ReadInv, RightWrites, [Next]_vars,
         \A k \in 1 .. Len(AddrQ') : SentFor(kind', cq'[1].t, AddrQ'[k]) \/ OldFlit(AddrQ'[k]),
         wp'.pc # "meta" => \/ SentFor(kind', cq'[1].t, wp'.req) \/ OldFlit(wp'.req)
                            \/ wp.pc # "meta" /\ wp'.req = wp.req,
         wp'.pc = "read_resp" => mem_is_amo(wp'.req.command) /\ wp'.rresp.error = FALSE,
         wp'.pc \in {"read_resp", "resp"} =>
           \/ AckedFor(kind', cq'[1].t, wp'.resp)
           \/ wp.pc \in {"read_resp", "resp"} /\ wp'.resp = wp.resp,
         \A k \in 1 .. Len(writeRespFifo') :
           \/ wp.pc = "resp" /\ writeRespFifo'[k] = wp.resp
           \/ \E j \in 1 .. Len(writeRespFifo) : writeRespFifo'[k] = writeRespFifo[j],
         wrOut' # None => wrOut' = wrOut \/ \E j \in 1 .. Len(writeRespFifo) : wrOut' = writeRespFifo[j]
  PROVE  RightWrites'
<1> DEFINE Out(id) == id \in DOMAIN wrBusy /\ id \in DOMAIN wrBusy'
           S(r) == SentFor(kind, cq[1].t, r)
           S1(r) == SentFor(kind', cq'[1].t, r)
           A(r) == AckedFor(kind, cq[1].t, r)
           A1(r) == AckedFor(kind', cq'[1].t, r)
<1>1. /\ \A k \in 1 .. Len(AddrQ) : AddrQ[k].id \in DOMAIN wrBusy
      /\ wp.pc # "meta" => wp.req.id \in DOMAIN wrBusy
      /\ wp.pc \in {"read_resp", "resp"} => wp.resp.id \in DOMAIN wrBusy
      /\ \A k \in 1 .. Len(writeRespFifo) : writeRespFifo[k].id \in DOMAIN wrBusy
      /\ wrOut # None => wrOut.id \in DOMAIN wrBusy
  BY WritesOut DEF WritesAreOut
<1>2. /\ \A k \in 1 .. Len(AddrQ') : AddrQ'[k].id \in DOMAIN wrBusy'
      /\ wp'.pc # "meta" => wp'.req.id \in DOMAIN wrBusy'
      /\ wp'.pc \in {"read_resp", "resp"} => wp'.resp.id \in DOMAIN wrBusy'
      /\ \A k \in 1 .. Len(writeRespFifo') : writeRespFifo'[k].id \in DOMAIN wrBusy'
      /\ wrOut' # None => wrOut'.id \in DOMAIN wrBusy'
  <2>1. WritesAreOut'
    BY WritesOut, PTL
  <2> QED
    BY <2>1 DEF WritesAreOut
<1>3. \A r : Out(r.id) => (S(r) => S1(r)) /\ (A(r) => A1(r))
  BY WriteTransfer
<1>4. /\ \A k \in 1 .. Len(AddrQ) : S(AddrQ[k])
      /\ wp.pc # "meta" => S(wp.req)
      /\ wp.pc \in {"read_resp", "resp"} => A(wp.resp)
      /\ \A k \in 1 .. Len(writeRespFifo) : A(writeRespFifo[k])
      /\ wrOut # None => A(wrOut)
  BY DEF RightWrites, Sent, Acked
<1> HIDE DEF S, A, S1, A1
<1>5. \A k \in 1 .. Len(AddrQ') : S1(AddrQ'[k])
  BY <1>1, <1>2, <1>3, <1>4 DEF S1, OldFlit
<1>6. wp'.pc # "meta" => S1(wp'.req)
  BY <1>1, <1>2, <1>3, <1>4 DEF S1, OldFlit
<1>7. wp'.pc \in {"read_resp", "resp"} => A1(wp'.resp)
  BY <1>1, <1>2, <1>3, <1>4 DEF A1
<1>8. \A k \in 1 .. Len(writeRespFifo') : A1(writeRespFifo'[k])
  BY <1>1, <1>2, <1>3, <1>4
<1>9. wrOut' # None => A1(wrOut')
  BY <1>1, <1>2, <1>3, <1>4
<1> QED
  BY <1>5, <1>6, <1>7, <1>8, <1>9 DEF RightWrites, Sent, Acked, S1, A1

\* The steps that change something on the way of a write.
LEMMA WriteKinds ==
  ASSUME [Next]_vars
  PROVE  \/ UNCHANGED <<wp, writeReqFifo, wa, wrAddr, writeRespFifo, wrOut>>
         \/ /\ UNCHANGED memVars
            /\ (\E i \in 1 .. Len(cq) : Store(i) \/ Uncached(i)) \/ \E w \in Words : FlushLine(w)
         \/ MemAddrReady \/ MemAddrEdge \/ MemDataReady \/ MemDataEdge
         \/ WriteMeta /\ UNCHANGED cacheVars
         \/ WriteData /\ UNCHANGED cacheVars
         \/ WriteRun(errorsegs) /\ UNCHANGED cacheVars
         \/ WritePushRead /\ UNCHANGED cacheVars
         \/ WritePush /\ UNCHANGED cacheVars
         \/ WriteRespShow /\ UNCHANGED cacheVars
         \/ CacheTakesWrite
<1>1. CASE SequenceStep \/ Simulate \/ CheckInflight \/ DriverFinish \/ DriveRequest \/ Over \/ UNCHANGED vars
  BY <1>1 DEF Simulate, SequenceStep, SequenceMain, SequenceBetween, SequenceSc, SequenceStop,
              Send, CheckInflight, DriverFinish, DriveRequest, Accept, Over, vars, cacheVars, chVars,
              memVars, wpVars, waVars, respVars
<1>2. CASE CacheStep
  <2>1. UNCHANGED memVars
    BY <1>2 DEF CacheStep
  <2>2. CASE CacheHit \/ CacheCmo \/ CacheScFail \/ CacheMiss
    BY <2>1, <2>2 DEF CacheHit, CacheCmo, CacheScFail, CacheMiss, LoadHit, CmoDone, ScFail, Miss,
                      memVars, wpVars, waVars, respVars, chVars
  <2> QED
    BY <1>2, <2>1, <2>2 DEF CacheStep, CacheStore, CacheUncached
<1>3. CASE CacheMove
  <2>1. CASE CacheEvict
    BY <1>3, <2>1 DEF CacheMove, CacheEvict, Evict, chVars, memVars, wpVars, waVars, respVars
  <2> QED
    BY <1>3, <2>1 DEF CacheMove, CacheFlush
<1>4. CASE MemStep
  <2>1. CASE MemReadSee \/ MemReadTake \/ MemReadPush \/ MemReadShow
    BY <2>1 DEF MemReadSee, ReadSee, MemReadTake, ReadTake, MemReadPush, ReadPush, MemReadShow,
                ReadRespShow, wpVars, waVars, respVars, cacheVars, chVars
  <2>2. CASE CacheTakesRead
    BY <2>2 DEF CacheTakesRead, ReadRespTaken, ReadBeat, Refill, UncachedRead, wpVars, waVars, respVars, chVars
  <2> QED
    BY <1>4, <2>1, <2>2 DEF MemStep, MemWriteTake, MemWriteRun, MemWriteShow
<1> QED
  BY <1>1, <1>2, <1>3, <1>4 DEF Next

\* The write that the cache sends has the error of its word.
LEMMA RightSend ==
  ASSUME PathInv, PairInv, NEW id \in WId \ DOMAIN wrBusy, NEW addr, NEW size, NEW command, NEW data,
         SendWrite(id, addr, size, command, data), UNCHANGED memVars,
         mem_is_amo(command) => id = UcId /\ addr \in DOMAIN data,
         SentFor(kind', cq'[1].t, [id |-> id, addr |-> addr, size |-> size, command |-> command])
  PROVE  \A k \in 1 .. Len(AddrQ') : SentFor(kind', cq'[1].t, AddrQ'[k]) \/ OldFlit(AddrQ'[k])
<1> DEFINE x == [id |-> id, addr |-> addr, size |-> size, command |-> command]
<1>1. PairSend
  BY SendIsPair
<1>2. wrAddr' = Append(wrAddr, x)
  BY DEF SendWrite
<1>3. SentFor(kind', cq'[1].t, x)
  OBVIOUS
<1> HIDE DEF x
<1>4. IsSeq(wrAddr)
  BY ShownSeq
<1>5. wrAddr'[Len(wrAddr')] = x
  BY <1>2, <1>4, SeqAppend
<1>6. \A k \in 1 .. Len(AddrQ') : AddrQ'[k] = wrAddr'[Len(wrAddr')] \/ OldFlit(AddrQ'[k])
  BY <1>1, SendPair
<1> QED
  BY <1>3, <1>5, <1>6

\* Nothing is sent.
LEMMA SameFlits ==
  ASSUME AddrQ' = AddrQ
  PROVE  \A k \in 1 .. Len(AddrQ') : OldFlit(AddrQ'[k])
BY DEF OldFlit

\* The steps of the cache that send writes.
LEMMA RightSends ==
  ASSUME PathInv, PairInv, CoreInv, kind' = kind, UNCHANGED memVars,
         (\E i \in 1 .. Len(cq) : Store(i) \/ Uncached(i)) \/ \E w \in Words : FlushLine(w)
  PROVE  \A k \in 1 .. Len(AddrQ') : SentFor(kind', cq'[1].t, AddrQ'[k]) \/ OldFlit(AddrQ'[k])
<1>1. ASSUME UNCHANGED wrAddr PROVE \A k \in 1 .. Len(AddrQ') : OldFlit(AddrQ'[k])
  <2>1. AddrQ' = AddrQ
    BY <1>1 DEF AddrQ, RunFlits, Shown, memVars, wpVars, waVars
  <2> QED
    BY <2>1, SameFlits
<1>2. ASSUME NEW addr, NEW size, NEW data, FreeId(WriteIds, wrBusy),
             SendWrite(NextId(WriteIds, wrBusy), addr, size, "WRITE", data)
      PROVE  \A k \in 1 .. Len(AddrQ') : SentFor(kind', cq'[1].t, AddrQ'[k]) \/ OldFlit(AddrQ'[k])
  <2> DEFINE id == NextId(WriteIds, wrBusy)
  <2>1. id \in WriteIds /\ id # UcId
    <3>1. id \in WriteIds
      BY <1>2 DEF FreeId, NextId
    <3> QED
      BY <3>1, TestBenchAssumption
  <2>2. id \in WId \ DOMAIN wrBusy
    BY <1>2, FreeWriteId
  <2>3. SendWrite(id, addr, size, "WRITE", data)
    BY <1>2
  <2> HIDE DEF id
  <2>4. SentFor(kind', cq'[1].t, [id |-> id, addr |-> addr, size |-> size, command |-> "WRITE"])
    BY <2>1 DEF SentFor
  <2> QED
    BY <2>2, <2>3, <2>4, Commands, RightSend
<1>3. ASSUME NEW i \in 1 .. Len(cq), Store(i)
      PROVE  \A k \in 1 .. Len(AddrQ') : SentFor(kind', cq'[1].t, AddrQ'[k]) \/ OldFlit(AddrQ'[k])
  <2>1. \/ UNCHANGED wrAddr
        \/ /\ FreeId(WriteIds, wrBusy)
           /\ SendWrite(NextId(WriteIds, wrBusy), cq[i].t.addr, 1, "WRITE", StoreData(cq[i].t))
    BY <1>3 DEF Store
  <2> QED
    BY <1>1, <1>2, <2>1
<1>4. ASSUME NEW w \in Words, FlushLine(w)
      PROVE  \A k \in 1 .. Len(AddrQ') : SentFor(kind', cq'[1].t, AddrQ'[k]) \/ OldFlit(AddrQ'[k])
  <2> DEFINE ws == dirty \cap Line(w)
             data == [v \in ws |-> cached[v]]
  <2>2. /\ FreeId(WriteIds, wrBusy)
        /\ SendWrite(NextId(WriteIds, wrBusy), w, Cardinality(Line(w)), "WRITE", data)
    BY <1>4 DEF FlushLine
  <2> HIDE DEF data
  <2> QED
    BY <1>2, <2>2
<1>5. ASSUME NEW i \in 1 .. Len(cq), Uncached(i)
      PROVE  \A k \in 1 .. Len(AddrQ') : SentFor(kind', cq'[1].t, AddrQ'[k]) \/ OldFlit(AddrQ'[k])
  <2> DEFINE t == cq[i].t
  <2>1. Executable(i) /\ (t.uncacheable \/ Atomic(t.op)) /\ cq' = [cq EXCEPT ![i].pc = "wait"]
    BY <1>5 DEF Uncached
  <2>2. /\ i = 1 /\ IsEntry(kind, cq[i]) /\ UcId \notin DOMAIN wrBusy
    BY <2>1, ExecutableFacts DEF Fence
  <2>3. cq'[1].t = t
    <3>1. cq \in [1 .. Len(cq) -> {cq[k] : k \in 1 .. Len(cq)}]
      BY SeqIsFun DEF CoreInv, LegalInv
    <3> QED
      BY <2>1, <2>2, <3>1 DEF IsEntry
  <2>4. UcId \in WId \ DOMAIN wrBusy
    BY <2>2 DEF WId
  <2>5. ASSUME NEW command, NEW data, SendWrite(UcId, t.addr, 1, command, data),
               mem_is_amo(command) => t.addr \in DOMAIN data, command = UcCommand(t.op)
        PROVE  \A k \in 1 .. Len(AddrQ') : SentFor(kind', cq'[1].t, AddrQ'[k]) \/ OldFlit(AddrQ'[k])
    <3> DEFINE x == [id |-> UcId, addr |-> t.addr, size |-> 1, command |-> command]
    <3>1. x.addr = t.addr /\ x.size = 1 /\ x.id = UcId /\ x.command = command
      OBVIOUS
    <3> HIDE DEF x
    <3>2. SentFor(kind', cq'[1].t, x)
      BY <2>3, <2>5, <3>1 DEF SentFor, WrongAccess, Wrong
    <3> QED
      BY <2>4, <2>5, <3>2, RightSend DEF x
  <2>6. CASE t.op \in {"LOAD", "LR"}
    BY <1>1, <1>5, <2>6 DEF Uncached
  <2>7. CASE t.op \in {"STORE", "SC"}
    <3>1. SendWrite(UcId, t.addr, 1, IF t.op = "SC" THEN "STEX" ELSE "WRITE", StoreData(t))
      BY <1>5, <2>7 DEF Uncached
    <3>2. (IF t.op = "SC" THEN "STEX" ELSE "WRITE") = UcCommand(t.op)
      BY <2>7 DEF UcCommand
    <3> QED
      BY <2>5, <2>7, <3>1, <3>2, Commands
  <2>8. CASE t.op \notin {"LOAD", "LR"} /\ t.op \notin {"STORE", "SC"}
    <3>1. SendWrite(UcId, t.addr, 1, mem_atomic(t.op), OneWord(t.addr, mem_operand(t.op, t.data)))
      BY <1>5, <2>8 DEF Uncached
    <3>2. t.addr \in DOMAIN OneWord(t.addr, mem_operand(t.op, t.data))
      BY DEF OneWord
    <3>3. mem_atomic(t.op) = UcCommand(t.op)
      BY <2>8 DEF UcCommand
    <3> QED
      BY <2>5, <3>1, <3>2, <3>3
  <2> QED
    BY <2>6, <2>7, <2>8
<1> QED
  BY <1>3, <1>4, <1>5


\* A write is performed with the error of its word.
LEMMA RightRun ==
  ASSUME PathInv, CoreInv, RightWrites, kind' = kind, WriteRun(errorsegs), UNCHANGED cq
  PROVE  /\ wp'.req = wp.req /\ wp'.pc \in {"read_resp", "resp"} /\ AckedFor(kind', cq'[1].t, wp'.resp)
         /\ wp'.pc = "read_resp" => mem_is_amo(wp'.req.command) /\ wp'.rresp.error = FALSE
<1> DEFINE r == wp.req
           e == within_error_region(errorsegs, r.addr, r.addr + r.size)
           ok == (~e /\ r.command = "STEX") /\ excl[r.id].valid /\ excl[r.id].addr = r.addr
           x == [id |-> r.id, error |-> FALSE, last |-> TRUE,
                 data |-> <<IF e THEN 0 ELSE readMemory(r.addr)>>]
           y == [id |-> r.id, is_atomic |-> ok, error |-> e]
           n == IF mem_is_amo(r.command) THEN "read_resp" ELSE "resp"
           z == IF mem_is_amo(r.command) THEN x ELSE None
<1>1. wp' = [wp EXCEPT !.pc = n, !.rresp = z, !.resp = y] /\ wp.pc = "run"
  BY DEF WriteRun
<1>2. DOMAIN wp = {"pc", "req", "rresp", "resp"}
  BY DEF PathInv, PathType
<1>3. x.error = FALSE /\ y.id = r.id /\ y.error = e
  OBVIOUS
<1>4. n = (IF mem_is_amo(r.command) THEN "read_resp" ELSE "resp") /\ (mem_is_amo(r.command) => z = x)
  OBVIOUS
<1>5. e = WrongAccess(kind, r)
  BY DEF WrongAccess, Segs, errorsegs
<1>6. Sent(r)
  BY <1>1 DEF RightWrites
<1> HIDE DEF x, y, z, n, e, r
<1>7. wp'.pc = n /\ wp'.rresp = z /\ wp'.resp = y /\ wp'.req = r
  BY <1>1, <1>2 DEF r
<1>8. AckedFor(kind', cq'[1].t, y)
  BY <1>3, <1>5, <1>6 DEF Sent, SentFor, AckedFor
<1> QED
  BY <1>3, <1>4, <1>7, <1>8 DEF r

\* The requests that were taken and those that are shown are sequences.
FlitSeqs == IsSeq(writeReqFifo) /\ IsSeq(Shown)
LEMMA FlitsAreSeqs == PathInv => FlitSeqs
BY QueueApart DEF FlitSeqs

\* The thread that performs writes takes a request, then its data.
LEMMA RightMeta ==
  ASSUME PathInv, PairInv, WriteMeta, UNCHANGED cacheVars
  PROVE  wp'.pc = "data" /\ OldFlit(wp'.req)
<1> DEFINE h == Head(writeReqFifo)
<1>1. AddrQ' = AddrQ /\ PathInv'
  <2>1. PairSame
    BY MetaPair
  <2>2. PathInv'
    BY MetaPath
  <2> QED
    BY <2>1, <2>2 DEF PairSame
<1>2. wp' = [wp EXCEPT !.pc = "data", !.req = h]
  BY DEF WriteMeta
<1>3. wp'.pc = "data" /\ wp'.req = h
  BY <1>2 DEF PathInv, PathType
<1> HIDE DEF h
<1> DEFINE o == <<h>>  f == writeReqFifo'  sh == Shown'
<1>4. IsSeq(o) /\ Len(o) = 1 /\ o[1] = h
  BY ShortSeq
<1>5. IsSeq(f) /\ IsSeq(sh)
  <2>1. FlitSeqs'
    BY <1>1, FlitsAreSeqs, PTL
  <2> QED
    BY <2>1 DEF FlitSeqs
<1>6. AddrQ' = Cat(Cat(o, f), sh)
  BY <1>3 DEF AddrQ, RunFlits
<1> HIDE DEF o, f, sh
<1>7. /\ IsSeq(Cat(o, f)) /\ Len(Cat(o, f)) = 1 + Len(f) /\ Len(f) \in Nat /\ Cat(o, f)[1] = h
  <2>1. /\ IsSeq(Cat(o, f)) /\ Len(o) \in Nat /\ Len(f) \in Nat /\ Len(Cat(o, f)) = Len(o) + Len(f)
        /\ \A i \in 1 .. Len(o) + Len(f) : Cat(o, f)[i] = IF i <= Len(o) THEN o[i] ELSE f[i - Len(o)]
    BY <1>4, <1>5, SeqCat
  <2>2. 1 \in 1 .. Len(o) + Len(f) /\ 1 <= Len(o)
    BY <1>4, <2>1
  <2> QED
    BY <1>4, <2>1, <2>2
<1> DEFINE c == Cat(o, f)
<1> HIDE DEF c
<1>8. Cat(c, sh)[1] = h /\ 1 \in 1 .. Len(Cat(c, sh))
  <2>1. IsSeq(c) /\ Len(c) \in Nat \ {0} /\ c[1] = h
    BY <1>7 DEF c
  <2>2. /\ Len(sh) \in Nat /\ Len(Cat(c, sh)) = Len(c) + Len(sh)
        /\ \A i \in 1 .. Len(c) + Len(sh) : Cat(c, sh)[i] = IF i <= Len(c) THEN c[i] ELSE sh[i - Len(c)]
    BY <1>5, <2>1, SeqCat
  <2>3. 1 \in 1 .. Len(c) + Len(sh) /\ 1 <= Len(c)
    BY <2>1, <2>2
  <2> QED
    BY <2>1, <2>2, <2>3
<1> QED
  BY <1>1, <1>3, <1>6, <1>8 DEF OldFlit, c

LEMMA RightData ==
  ASSUME PathInv, PairInv, RightWrites, WriteData, UNCHANGED cacheVars, kind' = kind
  PROVE  wp'.pc = "run" /\ SentFor(kind', cq'[1].t, wp'.req)
<1> DEFINE r == wp.req  d == Head(writeDataFifo).data  x == Put(r, "data", d)
<1>1. wp.pc = "data" /\ wp' = [wp EXCEPT !.pc = "run", !.req = x] /\ cq' = cq
  BY DEF WriteData, cacheVars
<1>2. wp'.pc = "run" /\ wp'.req = x
  BY <1>1 DEF PathInv, PathType
<1>3. {"addr", "size", "command", "id"} \subseteq DOMAIN r
  <2>1. r = AddrQ[1] /\ 1 \in 1 .. Len(AddrQ)
    <3> DEFINE o == <<r>>  f == writeReqFifo  sh == Shown  c == Cat(o, f)
    <3>1. AddrQ = Cat(c, sh)
      BY <1>1 DEF AddrQ, RunFlits
    <3>2. IsSeq(o) /\ Len(o) = 1 /\ o[1] = r /\ o # <<>>
      BY ShortSeq
    <3>3. IsSeq(f) /\ IsSeq(sh)
      BY ShownSeq
    <3> HIDE DEF o, f, sh
    <3>4. IsSeq(c) /\ c # <<>> /\ Head(c) = Head(o)
      BY <3>2, <3>3, CatHead, SeqCat
    <3> HIDE DEF c
    <3>5. Head(AddrQ) = Head(c) /\ AddrQ # <<>> /\ IsSeq(AddrQ)
      BY <3>1, <3>3, <3>4, CatHead, SeqCat
    <3>6. Head(o) = o[1] /\ Head(AddrQ) = AddrQ[1] /\ Len(AddrQ) \in Nat \ {0}
      BY <3>2, <3>5, SeqTail
    <3> QED
      BY <3>2, <3>4, <3>5, <3>6
  <2>2. "id" \in DOMAIN AddrQ[1]
    BY <2>1, QueueApart
  <2> QED
    BY <2>1, <2>2 DEF PairInv, Paired, Match
<1>4. x.addr = r.addr /\ x.size = r.size /\ x.command = r.command /\ x.id = r.id
  BY <1>3 DEF Put
<1>5. SentFor(kind, cq[1].t, r)
  BY <1>1 DEF RightWrites, Sent
<1> HIDE DEF x, r, d
<1> QED
  BY <1>1, <1>2, <1>4, <1>5 DEF SentFor, WrongAccess

\* Every step keeps the errors of the write channels right.
LEMMA NextWrites ==
  ASSUME FifoHolds, PathInv, PathInv', PairInv, CoreInv, CoreInv', ReadInv, RightWrites, [Next]_vars
  PROVE  RightWrites'
<1>1. kind' = kind
  BY CqNext
<1>2. ASSUME AddrQ' = AddrQ, UNCHANGED <<wp, writeRespFifo, wrOut>> PROVE RightWrites'
  BY <1>2, SameFlits, NewWrites DEF RightWrites
<1>3. CASE UNCHANGED <<wp, writeReqFifo, wa, wrAddr, writeRespFifo, wrOut>>
  <2>1. AddrQ' = AddrQ
    BY <1>3 DEF AddrQ, RunFlits, Shown
  <2> QED
    BY <1>2, <1>3, <2>1
<1>4. CASE /\ UNCHANGED memVars
           /\ (\E i \in 1 .. Len(cq) : Store(i) \/ Uncached(i)) \/ \E w \in Words : FlushLine(w)
  <2>1. UNCHANGED <<wp, writeRespFifo, wrOut>>
    BY <1>4 DEF memVars, wpVars, respVars
  <2>2. \A k \in 1 .. Len(AddrQ') : SentFor(kind', cq'[1].t, AddrQ'[k]) \/ OldFlit(AddrQ'[k])
    BY <1>1, <1>4, RightSends
  <2> QED
    BY <2>1, <2>2, NewWrites DEF RightWrites
<1>5. CASE MemAddrReady \/ MemAddrEdge \/ MemDataReady \/ MemDataEdge
  <2>1. AddrQ' = AddrQ
    BY <1>5, AddrPair, DataPair DEF PairSame
  <2>2. UNCHANGED <<wp, writeRespFifo, wrOut>>
    BY <1>5 DEF MemAddrReady, AddrReady, MemAddrEdge, AddrEdge, MemDataReady, DataReady, MemDataEdge, DataEdge,
                respVars
  <2> QED
    BY <1>2, <2>1, <2>2
<1>6. CASE WriteMeta /\ UNCHANGED cacheVars
  <2>1. AddrQ' = AddrQ
    BY <1>6, MetaPair DEF PairSame
  <2>2. UNCHANGED <<writeRespFifo, wrOut>>
    BY <1>6 DEF WriteMeta, respVars
  <2>3. wp'.pc = "data" /\ OldFlit(wp'.req)
    BY <1>6, RightMeta
  <2> QED
    BY <2>1, <2>2, <2>3, SameFlits, NewWrites
<1>7. CASE WriteData /\ UNCHANGED cacheVars
  <2>1. \A k \in 1 .. Len(AddrQ') : OldFlit(AddrQ'[k])
    BY <1>7, TakePair
  <2>2. UNCHANGED <<writeRespFifo, wrOut>>
    BY <1>7 DEF WriteData, respVars
  <2>3. wp'.pc = "run" /\ SentFor(kind', cq'[1].t, wp'.req)
    BY <1>1, <1>7, RightData
  <2> QED
    BY <2>1, <2>2, <2>3, NewWrites
<1>8. CASE (WriteRun(errorsegs) \/ WritePushRead \/ WritePush \/ WriteRespShow) /\ UNCHANGED cacheVars
  <2>1. AddrQ' = AddrQ /\ UNCHANGED cq
    BY <1>8, RunPair DEF PairSame, cacheVars
  <2>2. CASE WriteRun(errorsegs)
    <3>1. /\ wp'.req = wp.req /\ wp'.pc \in {"read_resp", "resp"} /\ AckedFor(kind', cq'[1].t, wp'.resp)
          /\ wp'.pc = "read_resp" => mem_is_amo(wp'.req.command) /\ wp'.rresp.error = FALSE
      BY <1>1, <2>1, <2>2, RightRun
    <3>2. UNCHANGED <<writeRespFifo, wrOut>> /\ wp.pc # "meta"
      BY <2>2 DEF WriteRun, respVars
    <3> QED
      BY <2>1, <3>1, <3>2, SameFlits, NewWrites
  <2>3. CASE WritePushRead
    <3>1. UNCHANGED <<writeRespFifo, wrOut>> /\ wp.pc = "read_resp"
          /\ wp' = [wp EXCEPT !.pc = "resp", !.rresp = None]
      BY <2>3 DEF WritePushRead
    <3>2. wp'.pc = "resp" /\ wp'.req = wp.req /\ wp'.resp = wp.resp
      BY <3>1 DEF PathInv, PathType
    <3> QED
      BY <2>1, <3>1, <3>2, SameFlits, NewWrites
  <2>4. CASE WritePush
    <3>1. wrOut' = wrOut /\ wp.pc = "resp" /\ writeRespFifo' = Append(writeRespFifo, wp.resp)
          /\ wp' = [pc |-> "meta", req |-> None, rresp |-> None, resp |-> None]
      BY <2>4 DEF WritePush
    <3>2. wp'.pc = "meta"
      BY <3>1
    <3>3. IsSeq(writeRespFifo)
      BY SeqIsSeq DEF PathInv, PathType
    <3>4. /\ Len(writeRespFifo') = Len(writeRespFifo) + 1 /\ Len(writeRespFifo) \in Nat
          /\ \A k \in 1 .. Len(writeRespFifo) : writeRespFifo'[k] = writeRespFifo[k]
          /\ writeRespFifo'[Len(writeRespFifo) + 1] = wp.resp
      BY <3>1, <3>3, SeqAppend
    <3>5. \A k \in 1 .. Len(writeRespFifo') : k \in 1 .. Len(writeRespFifo) \/ k = Len(writeRespFifo) + 1
      BY <3>4
    <3>6. \A k \in 1 .. Len(writeRespFifo') :
            \/ wp.pc = "resp" /\ writeRespFifo'[k] = wp.resp
            \/ \E j \in 1 .. Len(writeRespFifo) : writeRespFifo'[k] = writeRespFifo[j]
      BY <3>1, <3>4, <3>5
    <3> QED
      BY <2>1, <3>1, <3>2, <3>6, SameFlits, NewWrites
  <2>5. CASE WriteRespShow
    <3>1. wp' = wp /\ writeRespFifo # <<>> /\ wrOut' = Head(writeRespFifo) /\ writeRespFifo' = Tail(writeRespFifo)
      BY <2>5 DEF WriteRespShow, wpVars
    <3>2. IsSeq(writeRespFifo)
      BY SeqIsSeq DEF PathInv, PathType
    <3>3. /\ Len(writeRespFifo) \in Nat \ {0} /\ Len(writeRespFifo') = Len(writeRespFifo) - 1
          /\ \A k \in 1 .. Len(writeRespFifo) - 1 : writeRespFifo'[k] = writeRespFifo[k + 1]
          /\ wrOut' = writeRespFifo[1]
      BY <3>1, <3>2, SeqTail
    <3>4. \A k \in 1 .. Len(writeRespFifo') : k + 1 \in 1 .. Len(writeRespFifo) /\ writeRespFifo'[k] = writeRespFifo[k + 1]
      BY <3>3
    <3>5. 1 \in 1 .. Len(writeRespFifo)
      BY <3>3
    <3> QED
      BY <2>1, <3>1, <3>3, <3>4, <3>5, SameFlits, NewWrites DEF RightWrites
  <2> QED
    BY <1>8, <2>2, <2>3, <2>4, <2>5
<1>9. CASE CacheTakesWrite
  <2>1. UNCHANGED <<wp, writeReqFifo, wa, wrAddr, writeRespFifo>> /\ wrOut' = None
    BY <1>9 DEF CacheTakesWrite, WriteRespTaken, WriteAck, UncachedWrite, chVars, wpVars, waVars
  <2>2. AddrQ' = AddrQ
    BY <2>1 DEF AddrQ, RunFlits, Shown
  <2> QED
    BY <2>1, <2>2, SameFlits, NewWrites DEF RightWrites
<1> QED
  BY <1>3, <1>4, <1>5, <1>6, <1>7, <1>8, <1>9, WriteKinds


----------------------------------------------------------------------------
(* The steps of a request                                                  *)

\* A request leaves the cache, or goes on.
Leaves(i) ==
  /\ Len(cq) \in Nat \ {0} /\ Len(cq') = Len(cq) - 1
  /\ \A k \in 1 .. Len(cq) - 1 : cq'[k] = IF k < i THEN cq[k] ELSE cq[k + 1]
Goes(i) ==
  /\ Len(cq) \in Nat /\ Len(cq') = Len(cq)
  /\ \A k \in 1 .. Len(cq) : k # i => cq'[k] = cq[k]
  /\ cq'[i].t = cq[i].t

LEMMA LeavesFacts ==
  ASSUME CoreInv, NEW i \in 1 .. Len(cq), cq' = RemoveAt(cq, i)
  PROVE  Leaves(i)
BY SeqRemove DEF Leaves, CoreInv, LegalInv

LEMMA GoesFacts ==
  ASSUME CoreInv, NEW i \in 1 .. Len(cq), NEW e, e.t = cq[i].t, cq' = [cq EXCEPT ![i] = e]
  PROVE  Goes(i) /\ cq'[i] = e
<1>1. Len(cq) \in Nat /\ cq \in [1 .. Len(cq) -> {cq[k] : k \in 1 .. Len(cq)}]
  BY SeqIsFun DEF CoreInv, LegalInv
<1>2. cq' \in [1 .. Len(cq) -> {cq[k] : k \in 1 .. Len(cq)} \cup {e}]
  BY <1>1
<1>3. Len(cq') = Len(cq)
  BY <1>1, <1>2, FunIsSeq
<1> QED
  BY <1>1, <1>3 DEF Goes

\* What a step of a request does to it.
ActsShape(i) ==
  /\ Executable(i)
  /\ LoadHit(i) \/ CmoDone(i) \/ ScFail(i) \/ Store(i) => Leaves(i)
  /\ Miss(i) \/ Uncached(i) => /\ Goes(i) /\ cq'[i].pc = "wait" /\ cq'[i].err = cq[i].err
                               /\ cq'[i].old = cq[i].old
  /\ Miss(i) => ~Fence(cq[i].t) /\ ~UcOp(cq[i].t)
  /\ Uncached(i) => Fence(cq[i].t) /\ UcOp(cq[i].t)
LEMMA ActsAre ==
  ASSUME CoreInv, NEW i \in 1 .. Len(cq), Acts(i)
  PROVE  ActsShape(i)
<1>1. Executable(i)
  BY DEF Acts, LoadHit, CmoDone, ScFail, Store, Miss, Uncached
<1>2. ASSUME LoadHit(i) \/ CmoDone(i) \/ ScFail(i) \/ Store(i) PROVE Leaves(i)
  BY <1>2, LeavesFacts DEF LoadHit, CmoDone, ScFail, Store, Finish
<1>3. ASSUME Miss(i) \/ Uncached(i)
      PROVE  Goes(i) /\ cq'[i].pc = "wait" /\ cq'[i].err = cq[i].err /\ cq'[i].old = cq[i].old
  <2> DEFINE e == [cq[i] EXCEPT !.pc = "wait"]
  <2>1. cq' = [cq EXCEPT ![i] = e]
    BY <1>3 DEF Miss, Uncached
  <2>2. DOMAIN cq[i] = {"t", "pc", "old", "err"}
    BY DEF CoreInv, LegalInv, IsEntry
  <2>3. e.t = cq[i].t /\ e.pc = "wait" /\ e.err = cq[i].err /\ e.old = cq[i].old
    BY <2>2
  <2> HIDE DEF e
  <2> QED
    BY <2>1, <2>3, GoesFacts
<1>4. Miss(i) => ~Fence(cq[i].t) /\ ~UcOp(cq[i].t)
  BY DEF Miss, is_store, Fence, UcOp, Atomic, is_amo, AmoOps, Inval, Flush
<1>5. Uncached(i) => Fence(cq[i].t) /\ UcOp(cq[i].t)
  BY DEF Uncached, Fence, UcOp
<1> QED
  BY <1>1, <1>2, <1>3, <1>4, <1>5 DEF ActsShape

\* A request whose line arrives.
RefillShape(i) ==
  /\ i \in 1 .. Len(cq) /\ IsFor(i, rdOut.id) /\ rdOut.last /\ rdOut.id # UcId
  /\ ~UcWait /\ UcId \notin DOMAIN wrBusy /\ rdOut.id \in DOMAIN rdBusy
  /\ cq[i].t.op \in {"LOAD", "PREFETCH", "STORE"} /\ ~UcOp(cq[i].t)
  /\ get_nline(cq[i].t.addr) = get_nline(rdBusy[rdOut.id].addr)
  /\ rdBusy[rdOut.id].addr = Base(cq[i].t.addr) /\ cq[i].t.addr \in Words
  /\ IF is_store(cq[i].t.op) /\ ~rdOut.error
     THEN Goes(i) /\ cq'[i].pc = "retry" /\ cq'[i].err = cq[i].err
     ELSE Leaves(i)
LEMMA RefillIs ==
  ASSUME CoreInv, ReadInv, rdOut # None, Refill(rdOut)
  PROVE  RefillShape(Waiting(rdOut.id))
<1> DEFINE id == rdOut.id  i == Waiting(id)  e == [cq[i] EXCEPT !.pc = "retry"]
<1>1. /\ id # UcId /\ rdOut.last
      /\ IF is_store(cq[i].t.op) /\ ~rdOut.error THEN cq' = [cq EXCEPT ![i] = e] ELSE cq' = RemoveAt(cq, i)
  BY DEF Refill, Finish
<1>2. LegalInv /\ OrderInv /\ BusyInv /\ id \in DOMAIN rdBusy
  BY ShownBusy DEF CoreInv
<1>3. /\ ~UcWait /\ UcId \notin DOMAIN wrBusy
      /\ i \in 1 .. Len(cq) /\ IsFor(i, id)
      /\ cq[i].t.op \in {"LOAD", "PREFETCH", "STORE"} /\ ~cq[i].t.uncacheable
      /\ get_nline(cq[i].t.addr) = get_nline(rdBusy[id].addr)
      /\ rdBusy[id].addr = Base(cq[i].t.addr)
  BY <1>1, <1>2, ForOne
<1>4. IsEntry(kind, cq[i])
  BY <1>3 DEF CoreInv, LegalInv
<1>5. e.t = cq[i].t /\ e.pc = "retry" /\ e.err = cq[i].err /\ cq[i].t.addr \in Words
  BY <1>4 DEF IsEntry, Legal
<1>6. ~UcOp(cq[i].t)
  BY <1>3 DEF UcOp, Atomic, is_amo, AmoOps
<1> HIDE DEF i, e, id
<1>7. IF is_store(cq[i].t.op) /\ ~rdOut.error
      THEN Goes(i) /\ cq'[i].pc = "retry" /\ cq'[i].err = cq[i].err
      ELSE Leaves(i)
  BY <1>1, <1>3, <1>5, LeavesFacts, GoesFacts
<1> QED
  BY <1>1, <1>2, <1>3, <1>5, <1>6, <1>7 DEF RefillShape, id, i

\* The first of the two responses to an atomic, and the last response.
LaterShape(old, err) ==
  Goes(1) /\ cq'[1].pc = "wait" /\ cq'[1].err = err /\ cq'[1].old = old
LEMMA LaterIs ==
  ASSUME CoreInv, UcWait, NEW old, NEW err, AmoLater(1, old, err)
  PROVE  LaterShape(old, err)
<1> DEFINE e == [cq[1] EXCEPT !.old = old, !.err = err]
<1>1. Len(cq) = 1 /\ IsEntry(kind, cq[1]) /\ cq[1].pc = "wait" /\ 1 \in 1 .. Len(cq)
  BY AloneOut DEF UcWait, CoreInv
<1>2. cq' = [[cq EXCEPT ![1].old = old] EXCEPT ![1].err = err]
  BY DEF AmoLater
<1>3. 1 \in DOMAIN cq
  BY <1>1, SeqIsFun DEF CoreInv, LegalInv
<1>4. cq' = [cq EXCEPT ![1] = e]
  BY <1>2, <1>3
<1>5. e.t = cq[1].t /\ e.pc = "wait" /\ e.err = err /\ e.old = old
  BY <1>1 DEF IsEntry
<1> HIDE DEF e
<1> QED
  BY <1>1, <1>4, <1>5, GoesFacts DEF LaterShape

\* A response on the read channel to an uncached access.
UcReadShape ==
  /\ UcWait /\ 1 \in 1 .. Len(cq) /\ UcId \in DOMAIN rdBusy /\ rdOut.id = UcId /\ rdOut.last
  /\ rdBusy[UcId].addr = cq[1].t.addr
  /\ cq[1].t.op \in {"LOAD", "LR"} \cup AmoOps
  /\ cq[1].t.addr \in Words
  /\ UcId \in DOMAIN wrBusy => is_amo(cq[1].t.op)
  /\ IF UcId \in DOMAIN wrBusy THEN LaterShape(rdOut.data[1], rdOut.error) ELSE Leaves(1)
LEMMA UcReadIs ==
  ASSUME CoreInv, ReadInv, rdOut # None, UncachedRead(rdOut)
  PROVE  UcReadShape
<1>1. rdOut.id = UcId /\ rdOut.last /\ UcId \in DOMAIN rdBusy
  BY ShownBusy DEF UncachedRead
<1>2. UcWait /\ rdBusy[UcId].addr = cq[1].t.addr /\ cq[1].t.op \in {"LOAD", "LR"} \cup AmoOps
  BY <1>1 DEF CoreInv, BusyInv
<1>3. 1 \in 1 .. Len(cq) /\ cq[1].t.addr \in Words
  BY <1>2 DEF UcWait, CoreInv, LegalInv, IsEntry, Legal
<1>4. UcId \in DOMAIN wrBusy => is_amo(cq[1].t.op)
  <2>1. UcId \in DOMAIN wrBusy => cq[1].t.op \in {"STORE", "SC"} \cup AmoOps
    BY DEF CoreInv, BusyInv
  <2> QED
    BY <1>2, <2>1, ApartOps DEF is_amo
<1>5. CASE UcId \in DOMAIN wrBusy
  <2>1. AmoLater(1, rdOut.data[1], rdOut.error)
    BY <1>4, <1>5 DEF UncachedRead
  <2> QED
    BY <1>1, <1>2, <1>3, <1>4, <1>5, <2>1, LaterIs DEF UcReadShape
<1>6. CASE UcId \notin DOMAIN wrBusy
  <2>1. cq' = RemoveAt(cq, 1)
    BY <1>6 DEF UncachedRead, AmoOver, Finish
  <2>2. Leaves(1)
    BY <1>3, <2>1, LeavesFacts
  <2> QED
    BY <1>1, <1>2, <1>3, <1>4, <1>6, <2>2 DEF UcReadShape
<1> QED
  BY <1>5, <1>6

\* A response on the write channel to an uncached access.
UcWriteShape ==
  /\ UcWait /\ 1 \in 1 .. Len(cq) /\ UcId \in DOMAIN wrBusy /\ wrOut.id = UcId
  /\ cq[1].t.op \in {"STORE", "SC"} \cup AmoOps
  /\ cq[1].t.addr \in Words
  /\ UcId \in DOMAIN rdBusy => is_amo(cq[1].t.op)
  /\ UcId \notin DOMAIN wrBusy'
  /\ IF UcId \in DOMAIN rdBusy THEN LaterShape(None, wrOut.error) ELSE Leaves(1)
LEMMA UcWriteIs ==
  ASSUME PathInv, CoreInv, wrOut # None, UncachedWrite(wrOut)
  PROVE  UcWriteShape
<1>1. wrOut.id = UcId /\ UcId \in DOMAIN wrBusy
  BY ShownBusy DEF UncachedWrite
<1>2. UcWait /\ cq[1].t.op \in {"STORE", "SC"} \cup AmoOps
  BY <1>1 DEF CoreInv, BusyInv
<1>3. 1 \in 1 .. Len(cq) /\ cq[1].t.addr \in Words
  BY <1>2 DEF UcWait, CoreInv, LegalInv, IsEntry, Legal
<1>4. UcId \in DOMAIN rdBusy => is_amo(cq[1].t.op)
  <2>1. UcId \in DOMAIN rdBusy => cq[1].t.op \in {"LOAD", "LR"} \cup AmoOps
    BY DEF CoreInv, BusyInv
  <2> QED
    BY <1>2, <2>1, ApartOps DEF is_amo
<1>5. UcId \notin DOMAIN wrBusy'
  BY DEF UncachedWrite, Restrict
<1>6. CASE UcId \in DOMAIN rdBusy
  <2>1. AmoLater(1, None, wrOut.error)
    BY <1>4, <1>6 DEF UncachedWrite
  <2> QED
    BY <1>1, <1>2, <1>3, <1>4, <1>5, <1>6, <2>1, LaterIs DEF UcWriteShape
<1>7. CASE UcId \notin DOMAIN rdBusy
  <2>1. cq' = RemoveAt(cq, 1)
    BY <1>7 DEF UncachedWrite, AmoOver, Finish
  <2>2. Leaves(1)
    BY <1>3, <2>1, LeavesFacts
  <2> QED
    BY <1>1, <1>2, <1>3, <1>4, <1>5, <1>7, <2>2 DEF UcWriteShape
<1> QED
  BY <1>6, <1>7


\* The steps that change what the cache holds, and of the others what they leave.
UcSame == UcId \in DOMAIN wrBusy' <=> UcId \in DOMAIN wrBusy
LEMMA CacheNext ==
  ASSUME [Next]_vars
  PROVE  \/ UNCHANGED <<cq, cached, rsrv>> /\ UcSame
         \/ DriveRequest
         \/ \E i \in 1 .. Len(cq) : Acts(i)
         \/ \E w \in Words : Evict(w)
         \/ rdOut # None /\ (Refill(rdOut) \/ UncachedRead(rdOut))
         \/ wrOut # None /\ UncachedWrite(wrOut)
<1> USE DEF UcSame
<1>1. CASE SequenceStep \/ Simulate \/ CheckInflight \/ DriverFinish \/ Over \/ UNCHANGED vars
  BY <1>1 DEF SequenceStep, SequenceMain, SequenceBetween, SequenceSc, SequenceStop, Send, Simulate,
              CheckInflight, DriverFinish, cacheVars, Over, vars
<1>2. CASE CacheStep
  BY <1>2 DEF CacheStep, CacheHit, CacheCmo, CacheScFail, CacheStore, CacheMiss, CacheUncached, Acts
<1>3. CASE CacheMove
  <2>1. CASE CacheFlush
    <3>1. PICK w \in Words : FlushLine(w)
      BY <2>1 DEF CacheFlush
    <3>2. UNCHANGED <<cq, cached, rsrv>> /\ FreeId(WriteIds, wrBusy)
          /\ DOMAIN wrBusy' = DOMAIN wrBusy \cup {NextId(WriteIds, wrBusy)}
      BY <3>1, PutDomain DEF FlushLine, SendWrite
    <3>3. NextId(WriteIds, wrBusy) \in WriteIds
      BY <3>2 DEF FreeId, NextId
    <3> QED
      BY <3>2, <3>3, TestBenchAssumption
  <2> QED
    BY <1>3, <2>1 DEF CacheMove, CacheEvict
<1>4. CASE MemStep
  <2>1. CASE MemReadSee \/ MemReadTake \/ MemReadPush \/ MemReadShow
    BY <2>1 DEF MemReadSee, MemReadTake, MemReadPush, MemReadShow, cacheVars
  <2>2. CASE MemAddrReady \/ MemAddrEdge \/ MemDataReady \/ MemDataEdge
    BY <2>2 DEF MemAddrReady, MemAddrEdge, MemDataReady, MemDataEdge, cacheVars
  <2>3. CASE MemWriteTake \/ MemWriteRun \/ MemWriteShow
    BY <2>3 DEF MemWriteTake, MemWriteRun, MemWriteShow, cacheVars
  <2>4. CASE CacheTakesRead
    BY <2>4 DEF CacheTakesRead, ReadRespTaken, ReadBeat
  <2>5. CASE CacheTakesWrite
    <3>1. CASE WriteAck(wrOut)
      <4>1. UNCHANGED <<cq, cached, rsrv>> /\ wrOut.id # UcId
            /\ DOMAIN wrBusy' = DOMAIN wrBusy \ {wrOut.id}
        BY <3>1, DropDomain DEF WriteAck
      <4> QED
        BY <4>1
    <3> QED
      BY <2>5, <3>1 DEF CacheTakesWrite, WriteRespTaken
  <2> QED
    BY <1>4, <2>1, <2>2, <2>3, <2>4, <2>5 DEF MemStep
<1> QED
  BY <1>1, <1>2, <1>3, <1>4 DEF Next

----------------------------------------------------------------------------
(* The errors that the cache remembers                                     *)

\* An entry that remembers none and is not halfway.
Clean(e) == e.err = FALSE /\ ~(e.pc = "wait" /\ is_amo(e.t.op))

\* The entries stay what they are, or are clean.
LEMMA ErrKept ==
  ASSUME RightErr, kind' = kind, UcSame,
         \A k \in 1 .. Len(cq') : Clean(cq'[k]) \/ \E j \in 1 .. Len(cq) : cq'[k] = cq[j]
  PROVE  RightErr'
<1> SUFFICES ASSUME NEW k \in 1 .. Len(cq')
             PROVE  cq'[k].err = IF cq'[k].pc = "wait" /\ is_amo(cq'[k].t.op) /\ UcId \notin DOMAIN wrBusy'
                                 THEN Wrong(kind', cq'[k].t.addr) ELSE FALSE
  BY DEF RightErr, Halfway
<1>1. CASE Clean(cq'[k])
  BY <1>1 DEF Clean
<1>2. CASE \E j \in 1 .. Len(cq) : cq'[k] = cq[j]
  <2>1. PICK j \in 1 .. Len(cq) : cq'[k] = cq[j]
    BY <1>2
  <2>2. cq[j].err = IF cq[j].pc = "wait" /\ is_amo(cq[j].t.op) /\ UcId \notin DOMAIN wrBusy
                    THEN Wrong(kind, cq[j].t.addr) ELSE FALSE
    BY DEF RightErr, Halfway
  <2> QED
    BY <2>1, <2>2 DEF UcSame
<1> QED
  BY <1>1, <1>2

\* The entries after one has left.
LEMMA LeavesErr ==
  ASSUME NEW i \in 1 .. Len(cq), Leaves(i)
  PROVE  \A k \in 1 .. Len(cq') : \E j \in 1 .. Len(cq) : cq'[k] = cq[j]
<1> SUFFICES ASSUME NEW k \in 1 .. Len(cq') PROVE \E j \in 1 .. Len(cq) : cq'[k] = cq[j]
  OBVIOUS
<1>1. Len(cq) \in Nat \ {0} /\ Len(cq') = Len(cq) - 1
      /\ \A m \in 1 .. Len(cq) - 1 : cq'[m] = IF m < i THEN cq[m] ELSE cq[m + 1]
  BY DEF Leaves
<1>2. k \in 1 .. Len(cq) - 1 /\ k \in 1 .. Len(cq) /\ k + 1 \in 1 .. Len(cq)
  BY <1>1
<1> QED
  BY <1>1, <1>2

\* The entries after one has gone on.
LEMMA GoesErr ==
  ASSUME RightErr, kind' = kind, UcSame, NEW i \in 1 .. Len(cq), Goes(i), Clean(cq'[i])
  PROVE  RightErr'
<1>1. \A k \in 1 .. Len(cq') : Clean(cq'[k]) \/ \E j \in 1 .. Len(cq) : cq'[k] = cq[j]
  BY DEF Goes
<1> QED
  BY <1>1, ErrKept

\* The one entry, after it has gone on.
LEMMA OneErr ==
  ASSUME Len(cq) = 1, Goes(1),
         cq'[1].err = IF cq'[1].pc = "wait" /\ is_amo(cq[1].t.op) /\ UcId \notin DOMAIN wrBusy'
                      THEN Wrong(kind', cq[1].t.addr) ELSE FALSE
  PROVE  RightErr'
<1> SUFFICES ASSUME NEW k \in 1 .. Len(cq')
             PROVE  cq'[k].err = IF cq'[k].pc = "wait" /\ is_amo(cq'[k].t.op) /\ UcId \notin DOMAIN wrBusy'
                                 THEN Wrong(kind', cq'[k].t.addr) ELSE FALSE
  BY DEF RightErr, Halfway
<1>1. k = 1 /\ cq'[1].t = cq[1].t
  BY DEF Goes
<1> QED
  BY <1>1

LEMMA ActsErr ==
  ASSUME RightErr, CoreInv, kind' = kind, NEW i \in 1 .. Len(cq), Acts(i)
  PROVE  RightErr'
<1>1. ActsShape(i)
  BY ActsAre
<1>2. cq[i].err = FALSE /\ UcId \notin DOMAIN wrBusy
  <2>1. cq[i].pc # "wait"
    BY <1>1 DEF ActsShape, Executable
  <2> QED
    BY <1>1, <2>1, ExecutableFacts DEF RightErr, Halfway, ActsShape
<1>3. CASE LoadHit(i) \/ CmoDone(i) \/ ScFail(i)
  <2>1. UcSame
    BY <1>3 DEF UcSame, LoadHit, CmoDone, ScFail
  <2> QED
    BY <1>1, <1>3, <2>1, LeavesErr, ErrKept DEF ActsShape
<1>4. CASE Store(i)
  <2>1. UcSame
    <3>1. \/ wrBusy' = wrBusy
          \/ FreeId(WriteIds, wrBusy) /\ DOMAIN wrBusy' = DOMAIN wrBusy \cup {NextId(WriteIds, wrBusy)}
      BY <1>4, PutDomain DEF Store, SendWrite
    <3>2. FreeId(WriteIds, wrBusy) => NextId(WriteIds, wrBusy) \in WriteIds
      BY DEF FreeId, NextId
    <3> QED
      BY <3>1, <3>2, TestBenchAssumption DEF UcSame
  <2> QED
    BY <1>1, <1>4, <2>1, LeavesErr, ErrKept DEF ActsShape
<1>5. CASE Miss(i)
  <2>1. UcSame
    BY <1>5 DEF UcSame, Miss
  <2>2. Clean(cq'[i])
    BY <1>1, <1>2, <1>5 DEF ActsShape, Clean, Goes, UcOp, Atomic
  <2> QED
    BY <1>1, <1>5, <2>1, <2>2, GoesErr DEF ActsShape
<1>6. CASE Uncached(i)
  <2>1. Len(cq) = 1 /\ i = 1
    BY <1>1, <1>6, ExecutableFacts DEF ActsShape
  <2>2. Goes(1) /\ cq'[1].err = FALSE
    BY <1>1, <1>2, <1>6, <2>1 DEF ActsShape
  <2>3. ASSUME is_amo(cq[1].t.op) PROVE UcId \in DOMAIN wrBusy'
    <3>1. cq[1].t.op \notin {"LOAD", "LR"} /\ cq[1].t.op \notin {"STORE", "SC"}
      BY <2>3, ApartOps DEF is_amo
    <3>2. SendWrite(UcId, cq[1].t.addr, 1, mem_atomic(cq[1].t.op),
                    OneWord(cq[1].t.addr, mem_operand(cq[1].t.op, cq[1].t.data)))
      BY <1>6, <2>1, <3>1 DEF Uncached
    <3>3. wrBusy' = Put(wrBusy, UcId, DOMAIN OneWord(cq[1].t.addr, mem_operand(cq[1].t.op, cq[1].t.data)))
      BY <3>2 DEF SendWrite
    <3> DEFINE d == DOMAIN OneWord(cq[1].t.addr, mem_operand(cq[1].t.op, cq[1].t.data))
    <3>4. wrBusy' = Put(wrBusy, UcId, d)
      BY ONLY <3>3
    <3> HIDE DEF d
    <3>5. DOMAIN Put(wrBusy, UcId, d) = DOMAIN wrBusy \cup {UcId}
      BY PutDomain
    <3> QED
      BY ONLY <3>4, <3>5
  <2> QED
    BY <2>1, <2>2, <2>3, OneErr
<1> QED
  BY <1>3, <1>4, <1>5, <1>6 DEF Acts

\* Every step keeps what the entries remember right.
LEMMA NextErr ==
  ASSUME PathInv, CoreInv, ReadInv, RightReads, RightWrites, RightErr, [Next]_vars
  PROVE  RightErr'
<1>0. kind' = kind
  BY CqNext
<1>1. CASE UNCHANGED <<cq, cached, rsrv>> /\ UcSame
  BY <1>0, <1>1, ErrKept
<1>2. CASE DriveRequest
  <2> DEFINE e == [t |-> drv.t, pc |-> "new", old |-> None, err |-> FALSE]
  <2>1. cq' = Append(cq, e) /\ UcSame
    BY <1>2 DEF DriveRequest, Accept, UcSame
  <2>2. Clean(e)
    BY DEF Clean
  <2> HIDE DEF e
  <2>3. /\ Len(cq') = Len(cq) + 1 /\ Len(cq) \in Nat /\ cq'[Len(cq) + 1] = e
        /\ \A k \in 1 .. Len(cq) : cq'[k] = cq[k]
    BY <2>1, SeqAppend DEF CoreInv, LegalInv
  <2>4. \A k \in 1 .. Len(cq') : k \in 1 .. Len(cq) \/ k = Len(cq) + 1
    BY <2>3
  <2>5. \A k \in 1 .. Len(cq') : Clean(cq'[k]) \/ \E j \in 1 .. Len(cq) : cq'[k] = cq[j]
    BY <2>2, <2>3, <2>4
  <2> QED
    BY <1>0, <2>1, <2>5, ErrKept
<1>3. CASE \E i \in 1 .. Len(cq) : Acts(i)
  BY <1>0, <1>3, ActsErr
<1>4. CASE \E w \in Words : Evict(w)
  BY <1>0, <1>4, ErrKept DEF Evict, UcSame
<1>5. CASE rdOut # None /\ Refill(rdOut)
  <2> DEFINE i == Waiting(rdOut.id)
  <2>1. RefillShape(i)
    BY <1>5, RefillIs
  <2> HIDE DEF i
  <2>2. UcSame
    BY <1>5 DEF Refill, UcSame
  <2>3. CASE Leaves(i)
    BY <1>0, <2>1, <2>2, <2>3, LeavesErr, ErrKept DEF RefillShape
  <2>4. CASE Goes(i) /\ cq'[i].pc = "retry" /\ cq'[i].err = cq[i].err
    <3>1. cq[i].err = FALSE
      BY <2>1 DEF RefillShape, RightErr, Halfway, UcOp, Atomic
    <3> QED
      BY <1>0, <2>1, <2>2, <2>4, <3>1, GoesErr DEF RefillShape, Clean
  <2> QED
    BY <2>1, <2>3, <2>4 DEF RefillShape
<1>6. CASE rdOut # None /\ UncachedRead(rdOut)
  <2>1. UcReadShape
    BY <1>6, UcReadIs
  <2>2. UcSame
    BY <1>6 DEF UncachedRead, UcSame
  <2>3. CASE UcId \notin DOMAIN wrBusy
    BY <1>0, <2>1, <2>2, <2>3, LeavesErr, ErrKept DEF UcReadShape
  <2>4. CASE UcId \in DOMAIN wrBusy
    <3>1. Goes(1) /\ cq'[1].err = rdOut.error /\ Len(cq) = 1 /\ is_amo(cq[1].t.op)
      BY <2>1, <2>4 DEF UcReadShape, LaterShape, UcWait
    <3>2. rdOut.error = FALSE
      BY <1>6, <2>1, <3>1 DEF RightReads, Answered, AnsweredFor, UcReadShape
    <3> QED
      BY <2>2, <2>4, <3>1, <3>2, OneErr DEF UcSame
  <2> QED
    BY <2>3, <2>4
<1>7. CASE wrOut # None /\ UncachedWrite(wrOut)
  <2>1. UcWriteShape
    BY <1>7, UcWriteIs
  <2>2. Len(cq) = 1
    BY <2>1 DEF UcWriteShape, UcWait
  <2>3. CASE UcId \notin DOMAIN rdBusy
    <3>1. Len(cq') = 0
      BY <2>1, <2>2, <2>3 DEF UcWriteShape, Leaves
    <3> QED
      BY <3>1 DEF RightErr
  <2>4. CASE UcId \in DOMAIN rdBusy
    <3>1. /\ Goes(1) /\ cq'[1].err = wrOut.error /\ cq'[1].pc = "wait" /\ is_amo(cq[1].t.op)
          /\ UcId \notin DOMAIN wrBusy'
      BY <2>1, <2>4 DEF UcWriteShape, LaterShape
    <3>2. wrOut.error = Wrong(kind, cq[1].t.addr)
      BY <1>7, <2>1 DEF RightWrites, Acked, AckedFor, UcWriteShape
    <3> QED
      BY <1>0, <2>2, <3>1, <3>2, OneErr
  <2> QED
    BY <2>3, <2>4
<1> QED
  BY <1>1, <1>2, <1>3, <1>4, <1>5, <1>6, <1>7, CacheNext

----------------------------------------------------------------------------
(* The errors and what the cache keeps                                     *)

\* No word enters the cache but without an error.
LEMMA CachedKept ==
  ASSUME RightCached, kind' = kind, DOMAIN cached' = Words,
         \A w \in Words : cached'[w] # None => cached[w] # None \/ ~Wrong(kind, w)
  PROVE  RightCached'
<1> SUFFICES ASSUME NEW w \in Words, cached'[w] # None PROVE ~Wrong(kind', w)
  BY DEF RightCached
<1> QED
  BY DEF RightCached

\* A word that is there may change.
LEMMA CachedChanges ==
  ASSUME RightCached, kind' = kind, NEW a, cached[a] # None, NEW v, cached' = [cached EXCEPT ![a] = v]
  PROVE  RightCached'
<1>1. DOMAIN cached' = Words /\ \A w \in Words : cached'[w] # None => cached[w] # None
  BY DEF RightCached
<1> QED
  BY <1>1, CachedKept

\* Words may leave.
LEMMA CachedLeaves ==
  ASSUME RightCached, kind' = kind, NEW S, cached' = [w \in Words |-> IF w \in S THEN None ELSE cached[w]]
  PROVE  RightCached'
<1>1. DOMAIN cached' = Words /\ \A w \in Words : cached'[w] # None => cached[w] # None
  OBVIOUS
<1> QED
  BY <1>1, CachedKept

LEMMA NextCached ==
  ASSUME ErrorsByLine, PathInv, CoreInv, ReadInv, RightReads, RightCached, [Next]_vars
  PROVE  RightCached'
<1>0. kind' = kind
  BY CqNext
<1>1. CASE cached' = cached
  BY <1>0, <1>1, CachedKept DEF RightCached
<1>2. CASE \E i \in 1 .. Len(cq) : Acts(i)
  <2>1. PICK i \in 1 .. Len(cq) : Acts(i)
    BY <1>2
  <2>2. CASE LoadHit(i) \/ ScFail(i) \/ Miss(i) \/ Uncached(i)
    <3>1. cached' = cached
      BY <2>2 DEF LoadHit, ScFail, Miss, Uncached
    <3> QED
      BY <1>1, <3>1
  <2>3. CASE Store(i)
    <3>1. \/ cached' = cached
          \/ cached[cq[i].t.addr] # None /\ cached' = [cached EXCEPT ![cq[i].t.addr] = cq[i].t.data]
      BY <2>3 DEF Store
    <3> QED
      BY <1>0, <1>1, <3>1, CachedChanges
  <2>4. CASE CmoDone(i)
    <3>1. cached' = cached \/ cached' = [w \in Words |-> IF w \in Scope(cq[i].t) THEN None ELSE cached[w]]
      BY <2>4 DEF CmoDone
    <3> QED
      BY <1>0, <1>1, <3>1, CachedLeaves
  <2> QED
    BY <2>1, <2>2, <2>3, <2>4 DEF Acts
<1>3. CASE \E w \in Words : Evict(w)
  <2>1. PICK a \in Words : Evict(a)
    BY <1>3
  <2>2. cached' = [w \in Words |-> IF w \in Line(a) THEN None ELSE cached[w]]
    BY <2>1 DEF Evict
  <2> QED
    BY <1>0, <2>2, CachedLeaves
<1>4. CASE rdOut # None /\ Refill(rdOut)
  <2> DEFINE id == rdOut.id  a == rdBusy[id].addr  i == Waiting(id)
             v == rdBusy[id].values \o rdOut.data
  <2>1. CASE rdOut.error
    BY <1>1, <1>4, <2>1 DEF Refill
  <2>2. CASE ~rdOut.error
    <3>1. RefillShape(i)
      BY <1>4, RefillIs
    <3>2. cached' = [w \in Words |-> IF w \in Line(a) THEN v[w - a + 1] ELSE cached[w]]
      BY <1>4, <2>2 DEF Refill
    <3>3. a \in Words /\ get_nline(a) = get_nline(cq[i].t.addr)
      BY <3>1, BaseOfLine DEF RefillShape
    <3>4. ~Wrong(kind, a)
      BY <1>4, <2>2, <3>1 DEF RightReads, Answered, AnsweredFor, RefillShape
    <3>5. ASSUME NEW w \in Line(a) PROVE ~Wrong(kind, w)
      <4>1. w \in Words /\ get_nline(w) = get_nline(a)
        BY <3>5 DEF Line
      <4> QED
        BY <3>3, <3>4, <4>1, WordWrong
    <3> HIDE DEF a, v
    <3>6. DOMAIN cached' = Words /\ \A w \in Words : cached'[w] # None => cached[w] # None \/ ~Wrong(kind, w)
      BY <3>2, <3>5
    <3> QED
      BY <1>0, <3>6, CachedKept
  <2> QED
    BY <2>1, <2>2
<1>5. ASSUME NEW old, NEW err, AmoOver(1, old, err) PROVE RightCached'
  <2>1. \/ cached' = cached
        \/ /\ cached[cq[1].t.addr] # None
           /\ cached' = [cached EXCEPT ![cq[1].t.addr] = compute_amo(cq[1].t.op, old, cq[1].t.data, WordBits)]
    BY <1>5 DEF AmoOver
  <2>2. ASSUME NEW v, cached[cq[1].t.addr] # None, cached' = [cached EXCEPT ![cq[1].t.addr] = v]
        PROVE  RightCached'
    BY <1>0, <2>2, CachedChanges
  <2> QED
    BY <1>1, <2>1, <2>2
<1>6. CASE rdOut # None /\ UncachedRead(rdOut)
  BY <1>1, <1>5, <1>6 DEF UncachedRead, AmoLater
<1>7. CASE wrOut # None /\ UncachedWrite(wrOut)
  <2>1. \/ cached' = cached
        \/ cached[cq[1].t.addr] # None /\ cached' = [cached EXCEPT ![cq[1].t.addr] = cq[1].t.data]
        \/ AmoOver(1, cq[1].old, wrOut.error \/ cq[1].err)
    BY <1>7 DEF UncachedWrite, AmoLater
  <2> QED
    BY <1>0, <1>1, <1>5, <2>1, CachedChanges
<1>8. CASE DriveRequest
  BY <1>1, <1>8 DEF DriveRequest, Accept
<1> QED
  BY <1>1, <1>2, <1>3, <1>4, <1>6, <1>7, <1>8, CacheNext

\* An uncached access that goes out.
LEMMA UcGoes ==
  ASSUME CoreInv, ReadInv, [Next]_vars, ~UcWait, UcWait', PathInv
  PROVE  Uncached(1) /\ Len(cq) = 1 /\ cq'[1].t = cq[1].t
<1>0. LegalInv /\ OrderInv /\ BusyInv
  BY DEF CoreInv
<1>1. /\ Len(cq') = 1 /\ cq'[1].pc = "wait" /\ UcOp(cq'[1].t)
  BY DEF UcWait, Waits, UcOp
<1>2. cq' # cq
  BY DEF UcWait, Waits, UcOp
<1>3. ASSUME NEW i \in 1 .. Len(cq), Leaves(i) PROVE FALSE
  <2>1. PICK j \in 1 .. Len(cq) : cq'[1] = cq[j]
    BY <1>1, <1>3, LeavesErr
  <2>2. Waits(j) /\ UcOp(cq[j].t) /\ Fence(cq[j].t)
    BY <1>1, <2>1, UcIsFence DEF Waits
  <2> QED
    BY <1>0, <2>2 DEF OrderInv
<1>4. CASE DriveRequest
  <2> DEFINE e == [t |-> drv.t, pc |-> "new", old |-> None, err |-> FALSE]
  <2>1. cq' = Append(cq, e)
    BY <1>4 DEF DriveRequest, Accept
  <2>2. e.pc = "new"
    OBVIOUS
  <2> HIDE DEF e
  <2>3. Len(cq') = Len(cq) + 1 /\ Len(cq) \in Nat /\ cq'[Len(cq) + 1] = e
    BY <1>0, <2>1, SeqAppend DEF LegalInv
  <2>4. Len(cq) = 0 /\ cq'[1] = e
    BY <1>1, <2>3
  <2> QED
    BY <1>1, <2>2, <2>4
<1>5. CASE \E i \in 1 .. Len(cq) : Acts(i)
  <2>1. PICK i \in 1 .. Len(cq) : Acts(i)
    BY <1>5
  <2>2. ActsShape(i)
    BY <2>1, ActsAre
  <2>3. ~(LoadHit(i) \/ CmoDone(i) \/ ScFail(i) \/ Store(i))
    BY <1>3, <2>2 DEF ActsShape
  <2>4. Goes(i)
    BY <2>1, <2>2, <2>3 DEF ActsShape, Acts
  <2>45. Len(cq) = 1
    BY <1>1, <2>4 DEF Goes
  <2>5. Len(cq) = 1 /\ i = 1 /\ cq'[1].t = cq[1].t
    BY <2>1, <2>4, <2>45 DEF Goes
  <2>6. ~Miss(i)
    BY <1>1, <2>2, <2>5 DEF ActsShape
  <2> QED
    BY <2>1, <2>3, <2>5, <2>6 DEF Acts
<1>6. ~(\E w \in Words : Evict(w))
  BY <1>2 DEF Evict
<1>7. ~(rdOut # None /\ Refill(rdOut))
  <2>1. ASSUME rdOut # None, Refill(rdOut) PROVE FALSE
    <3> DEFINE i == Waiting(rdOut.id)
    <3>1. RefillShape(i)
      BY <2>1, RefillIs
    <3> HIDE DEF i
    <3>2. i \in 1 .. Len(cq)
      BY <3>1 DEF RefillShape
    <3>3. Goes(i) /\ cq'[i].pc = "retry"
      BY <1>3, <3>1, <3>2 DEF RefillShape
    <3>4. Len(cq) = 1
      BY <1>1, <3>3 DEF Goes
    <3>5. i = 1
      BY <3>2, <3>4
    <3> QED
      BY <1>1, <3>3, <3>5
  <2> QED
    BY <2>1
<1>8. ~(rdOut # None /\ UncachedRead(rdOut)) /\ ~(wrOut # None /\ UncachedWrite(wrOut))
  BY UcReadIs, UcWriteIs DEF UcReadShape, UcWriteShape
<1> QED
  BY <1>2, <1>4, <1>5, <1>6, <1>7, <1>8, CacheNext

\* What a step does to the reservation.
LEMMA RsrvNext ==
  ASSUME CoreInv, ReadInv, rsrv.valid \in BOOLEAN, [Next]_vars
  PROVE  /\ rsrv'.valid \in BOOLEAN
         /\ \/ /\ rsrv'.addr = rsrv.addr /\ (rsrv'.valid => rsrv.valid)
            \/ /\ rdOut # None /\ UncachedRead(rdOut) /\ cq[1].t.op = "LR"
               /\ rsrv'.valid = ~rdOut.error /\ rsrv'.addr = cq[1].t.addr
<1>1. DOMAIN rsrv = {"valid", "addr"}
  BY DEF CoreInv, ReserveInv
<1>2. ASSUME NEW b \in BOOLEAN, rsrv' = [rsrv EXCEPT !.valid = b], b => rsrv.valid
      PROVE  rsrv'.valid \in BOOLEAN /\ rsrv'.addr = rsrv.addr /\ (rsrv'.valid => rsrv.valid)
  BY <1>1, <1>2
<1>3. CASE rsrv' = rsrv
  BY <1>3
<1>4. CASE \E i \in 1 .. Len(cq) : Acts(i)
  <2>1. PICK i \in 1 .. Len(cq) : Acts(i)
    BY <1>4
  <2>2. CASE LoadHit(i) \/ CmoDone(i) \/ Miss(i)
    BY <1>3, <2>2 DEF LoadHit, CmoDone, Miss
  <2>3. CASE ScFail(i)
    BY <1>2, <2>3 DEF ScFail
  <2>4. CASE Store(i)
    <3> DEFINE b == rsrv.valid /\ rsrv.addr # cq[i].t.addr
    <3>1. rsrv' = [rsrv EXCEPT !.valid = b]
      BY <2>4 DEF Store, Snooped
    <3>2. b \in BOOLEAN /\ (b => rsrv.valid)
      OBVIOUS
    <3> HIDE DEF b
    <3> QED
      BY <1>2, <3>1, <3>2
  <2>5. CASE Uncached(i)
    <3> DEFINE t == cq[i].t  b == rsrv.valid /\ (t.op = "LOAD" \/ t.op = "LR" \/ ~Reserved(t))
    <3>1. rsrv' = [rsrv EXCEPT !.valid = b]
      BY <2>5 DEF Uncached
    <3>2. b \in BOOLEAN /\ (b => rsrv.valid)
      OBVIOUS
    <3> HIDE DEF b
    <3> QED
      BY <1>2, <3>1, <3>2
  <2> QED
    BY <2>1, <2>2, <2>3, <2>4, <2>5 DEF Acts
<1>5. CASE rdOut # None /\ UncachedRead(rdOut)
  <2>1. CASE cq[1].t.op = "LR"
    <3>1. rsrv' = [valid |-> ~rdOut.error, addr |-> cq[1].t.addr]
      BY <1>5, <2>1 DEF UncachedRead
    <3> QED
      BY <1>5, <2>1, <3>1
  <2>2. CASE cq[1].t.op # "LR"
    BY <1>3, <1>5, <2>2 DEF UncachedRead
  <2> QED
    BY <2>1, <2>2
<1>6. CASE rdOut # None /\ Refill(rdOut)
  BY <1>3, <1>6 DEF Refill
<1>7. CASE wrOut # None /\ UncachedWrite(wrOut)
  BY <1>3, <1>7 DEF UncachedWrite
<1>8. CASE DriveRequest \/ \E w \in Words : Evict(w)
  BY <1>3, <1>8 DEF DriveRequest, Accept, Evict
<1> QED
  BY <1>3, <1>4, <1>5, <1>6, <1>7, <1>8, CacheNext

LEMMA NextReserved ==
  ASSUME PathInv, CoreInv, ReadInv, RightReads, RightReserved, [Next]_vars
  PROVE  RightReserved'
<1>0. kind' = kind
  BY CqNext
<1>1. rsrv'.valid \in BOOLEAN
  BY RsrvNext DEF RightReserved
<1>2. ASSUME rsrv'.valid PROVE ~Wrong(kind, rsrv'.addr)
  <2>1. CASE rsrv'.addr = rsrv.addr /\ (rsrv'.valid => rsrv.valid)
    BY <1>2, <2>1 DEF RightReserved
  <2>2. CASE /\ rdOut # None /\ UncachedRead(rdOut) /\ cq[1].t.op = "LR"
             /\ rsrv'.valid = ~rdOut.error /\ rsrv'.addr = cq[1].t.addr
    <3>1. UcReadShape /\ ~is_amo(cq[1].t.op)
      BY <2>2, UcReadIs DEF is_amo, AmoOps
    <3>2. rdOut.error = Wrong(kind, cq[1].t.addr)
      BY <2>2, <3>1 DEF RightReads, Answered, AnsweredFor, UcReadShape
    <3> QED
      BY <1>2, <2>2, <3>2
  <2> QED
    BY <2>1, <2>2, RsrvNext DEF RightReserved
<1>3. ASSUME UcWait', cq'[1].t.op = "SC" PROVE ~Wrong(kind, cq'[1].t.addr)
  <2>1. CASE UcWait
    <3>1. cq'[1].t = cq[1].t
      BY <1>3, <2>1, UcKept
    <3> QED
      BY <1>3, <2>1, <3>1 DEF RightReserved
  <2>2. CASE ~UcWait
    <3>1. Uncached(1) /\ cq'[1].t = cq[1].t
      BY <1>3, <2>2, UcGoes
    <3>2. Reserved(cq[1].t)
      BY <1>3, <3>1 DEF Uncached
    <3> QED
      BY <3>1, <3>2 DEF RightReserved, Reserved
  <2> QED
    BY <2>1, <2>2
<1> QED
  BY <1>0, <1>1, <1>2, <1>3 DEF RightReserved

\* Every step keeps the errors right.
LEMMA NextRight ==
  ASSUME FifoHolds, ErrorsByLine, conf \in Configs, PathInv, PathInv', PairInv, CoreInv, CoreInv',
         ReadInv, ReadInv', RightInv, [Next]_vars
  PROVE  RightInv' /\ (conf \in Configs)'
<1>1. RightReads'
  BY NextReads DEF RightInv
<1>2. RightWrites'
  BY NextWrites DEF RightInv
<1>3. RightErr' /\ RightCached' /\ RightReserved'
  BY NextErr, NextCached, NextReserved DEF RightInv, RightCache
<1>4. conf' = conf
  BY DEF Next, Simulate, SequenceStep, SequenceMain, SequenceBetween, SequenceSc, SequenceStop, Send,
         DriveRequest, CheckInflight, DriverFinish, CacheStep, CacheMove, MemStep, Over, tbVars, vars
<1> QED
  BY <1>1, <1>2, <1>3, <1>4 DEF RightInv, RightCache

LEMMA InitRight == Init => RightInv
<1> SUFFICES ASSUME Init PROVE RightInv
  OBVIOUS
<1>1. /\ cq = <<>> /\ rdReq = <<>> /\ wrAddr = <<>> /\ cached = [w \in Words |-> None]
      /\ rsrv.valid = FALSE
  BY DEF Init, CacheInit
<1>2. /\ rd = [pc |-> "idle", req |-> None, beat |-> 0] /\ readRespFifo = <<>> /\ rdOut = None
      /\ writeReqFifo = <<>> /\ wa = [pc |-> "idle", r |-> None]
      /\ wp = [pc |-> "meta", req |-> None, rresp |-> None, resp |-> None]
      /\ writeRespFifo = <<>> /\ wrOut = None
  BY DEF Init, MemInit
<1>3. Len(cq) = 0 /\ Len(rdReq) = 0 /\ Len(readRespFifo) = 0 /\ Len(writeRespFifo) = 0 /\ 1 .. 0 = {}
  BY <1>1, <1>2
<1>4. Len(AddrQ) = 0
  <2> DEFINE n == <<>>
  <2>1. IsSeq(n) /\ Len(n) = 0 /\ Cat(n, n) = n
    BY ShortSeq, CatEmpty
  <2> HIDE DEF n
  <2>2. writeReqFifo = n /\ wrAddr = n /\ wp.pc = "meta" /\ wa.pc = "idle"
    BY <1>1, <1>2 DEF n
  <2>3. AddrQ = n
    BY <2>1, <2>2 DEF AddrQ, RunFlits, Shown, n
  <2> QED
    BY <2>1, <2>3
<1>5. RightReads
  BY <1>2, <1>3 DEF RightReads
<1>6. RightWrites
  <2>1. wp.pc = "meta" /\ wrOut = None
    BY <1>2
  <2> QED
    BY <1>3, <1>4, <2>1 DEF RightWrites
<1>7. RightCache
  <2>1. RightErr
    BY <1>3 DEF RightErr
  <2>2. RightCached
    <3>1. DOMAIN cached = Words /\ \A w \in Words : cached[w] = None
      BY <1>1
    <3> QED
      BY <3>1 DEF RightCached
  <2>3. RightReserved
    <3>1. ~UcWait /\ rsrv.valid = FALSE
      BY <1>1, <1>3 DEF UcWait
    <3> QED
      BY <3>1 DEF RightReserved
  <2> QED
    BY <2>1, <2>2, <2>3 DEF RightCache
<1> QED
  BY <1>5, <1>6, <1>7 DEF RightInv

(* The errors of the memory go where they belong: every response on the    *)
(* two channels has the error of the access it answers, whatever came      *)
(* between, and no word of an error segment is ever kept in the cache or   *)
(* reserved.  An atomic has the error of its write also when its old data  *)
(* come back first.                                                        *)
THEOREM ErrorsInPlace ==
  ASSUME FifoHolds, NoneHasNoId, ErrorsByLine
  PROVE  Spec => []RightInv
<1> DEFINE Inv == PathInv /\ PairInv /\ CoreInv /\ ReadInv /\ conf \in Configs /\ RightInv
<1>1. Init => Inv
  <2>1. Init => conf \in Configs
    BY DEF Init
  <2> QED
    BY <2>1, InitPath, InitPair, InitCore, InitRight
<1>2. Inv /\ [Next]_vars => Inv'
  <2> SUFFICES ASSUME Inv, [Next]_vars PROVE Inv'
    OBVIOUS
  <2>1. PathInv' /\ PairInv' /\ CoreInv' /\ ReadInv'
    BY NextPath, StepPath, NextPair, NextCore, NextRead
  <2>2. RightInv' /\ (conf \in Configs)'
    BY <2>1, NextRight
  <2> QED
    BY <2>1, <2>2
<1>3. Inv => RightInv
  OBVIOUS
<1> QED
  BY <1>1, <1>2, <1>3, PTL DEF Spec

----------------------------------------------------------------------------
(* What the scoreboard does with a response                                *)

\* Conditions of which none holds but the last are reported as such.
LEMMA ReportOnly ==
  ASSUME NEW c, NEW m, \A x \in DOMAIN c : x # m => ~c[x]
  PROVE  Report(c) \subseteq {m}
BY DEF Report

\* The request t has its answer: it leaves the table, and nothing is wrong but its data.
Gone(t) == IF t.need_rsp THEN {t.tid} ELSE {}
Serves(t) ==
  /\ DOMAIN inflight' = DOMAIN inflight \ Gone(t)
  /\ \A x \in DOMAIN inflight' : inflight'[x] = inflight[x]
  /\ errors' \subseteq errors \cup {"wrong_data"}
  /\ UNCHANGED <<memRead, amoFifo, lrsc, scIsAtomic>>

\* The answer that the scoreboard expects.
Expected(e, err, d) ==
  /\ is_store(e.op) \/ err = e.is_error
  /\ e.op = "SC" /\ ~e.is_error => d = IF e.is_atomic /\ scIsAtomic THEN 0 ELSE 1

LEMMA ResponseServes ==
  ASSUME NEW a, core_resp_process(a), a.tid \in DOMAIN inflight, a.tid \in ids,
         Expected(inflight[a.tid], a.error, a.data)
  PROVE  /\ DOMAIN inflight' = DOMAIN inflight \ {a.tid}
         /\ \A x \in DOMAIN inflight' : inflight'[x] = inflight[x]
         /\ errors' \subseteq errors \cup {"wrong_data"}
         /\ UNCHANGED <<memRead, amoFifo, lrsc, scIsAtomic>>
<1> DEFINE e == inflight[a.tid]
           flag  == a.tid \in DOMAIN inflight /\ (is_store(e.op) \/ a.error = e.is_error)
           check == flag /\ ~e.is_error
           sc_ok == check /\ e.op = "SC" /\ e.is_atomic /\ scIsAtomic
           unknown == ~(a.tid \in DOMAIN inflight)
           unflagged == a.tid \in DOMAIN inflight /\ ~flag
           sc    == check /\ e.op = "SC" /\ a.data # (IF sc_ok THEN 0 ELSE 1)
           wrong == check /\ ReadsData(e.op) /\ e.rdata # None /\ a.data # e.rdata
           freed == flag /\ a.tid \notin ids
           c == [core_resp_id |-> unknown, error_flag |-> unflagged,
                 sc_status |-> sc, wrong_data |-> wrong, seq_id |-> freed]
<1>1. /\ errors' = errors \cup Report(c)
      /\ inflight' = IF flag THEN Restrict(inflight, DOMAIN inflight \ {a.tid}) ELSE inflight
      /\ UNCHANGED <<memRead, amoFifo, lrsc, scIsAtomic>>
  BY DEF core_resp_process
<1>2. flag /\ ~unknown /\ ~unflagged /\ ~freed
  BY DEF Expected
<1>3. ~sc
  <2>1. CASE e.op = "SC" /\ ~e.is_error
    <3>1. a.data = IF e.is_atomic /\ scIsAtomic THEN 0 ELSE 1
      BY <2>1 DEF Expected
    <3>2. sc_ok <=> e.is_atomic /\ scIsAtomic
      BY <1>2, <2>1
    <3> HIDE DEF e, sc_ok
    <3> QED
      BY <3>1, <3>2
  <2> QED
    BY <2>1
<1>4. \A x \in DOMAIN c : x # "wrong_data" => ~c[x]
  <2> HIDE DEF unknown, unflagged, sc, wrong, freed
  <2>1. DOMAIN c = {"core_resp_id", "error_flag", "sc_status", "wrong_data", "seq_id"}
    OBVIOUS
  <2>2. ~c["core_resp_id"] /\ ~c["error_flag"] /\ ~c["sc_status"] /\ ~c["seq_id"]
    BY <1>2, <1>3
  <2> QED
    BY <2>1, <2>2
<1> HIDE DEF c
<1>5. Report(c) \subseteq {"wrong_data"}
  BY <1>4, ReportOnly
<1>6. inflight' = Restrict(inflight, DOMAIN inflight \ {a.tid})
  BY <1>1, <1>2
<1> QED
  BY <1>1, <1>5, <1>6, DropDomain DEF Restrict

\* An answer of the cache to the request i.
LEMMA AnswerServes ==
  ASSUME NoneHasNoId, Books, TableOk, CoreInv, NEW i \in 1 .. Len(cq), NEW err, NEW d,
         Answer(Response(cq[i].t, err, d)),
         cq[i].t.need_rsp => Expected(inflight[cq[i].t.tid], err, d)
  PROVE  Serves(cq[i].t)
<1> DEFINE t == cq[i].t  a == [tid |-> t.tid, error |-> err, data |-> d]
<1>1. CASE ~t.need_rsp
  <2>1. UNCHANGED sbVars
    BY <1>1 DEF Response, Answer
  <2> QED
    BY <1>1, <2>1 DEF Serves, Gone, sbVars, sbTables
<1>2. CASE t.need_rsp
  <2>1. a.tid = t.tid /\ a.error = err /\ a.data = d /\ "tid" \in DOMAIN a
    OBVIOUS
  <2>2. Response(t, err, d) = a
    BY <1>2 DEF Response
  <2> HIDE DEF a
  <2>3. a # None
    BY <2>1 DEF NoneHasNoId
  <2>4. core_resp_process(a)
    BY <2>2, <2>3 DEF Answer
  <2>5. a.tid \in DOMAIN inflight /\ a.tid \in ids
    BY <1>2, <2>1 DEF TableOk, Known, Remembers, Books, IdsMatchInflight
  <2> QED
    BY <1>2, <2>1, <2>4, <2>5, ResponseServes DEF Serves, Gone
<1> QED
  BY <1>1, <1>2

\* All that a step may take for granted.
AllInv ==
  /\ PathInv /\ PairInv /\ CoreInv /\ ReadInv /\ RightInv
  /\ BoardInv /\ TableInv

\* A request has left the cache with its answer, and the reservation is what
\* the scoreboard takes it to be.
Departs(i) ==
  /\ Leaves(i) /\ Serves(cq[i].t)
  /\ IF cq[i].t.op = "LR" THEN rsrv'.valid = ~Wrong(kind, cq[i].t.addr) /\ rsrv'.addr = cq[i].t.addr
     ELSE rsrv'.addr = rsrv.addr /\ rsrv'.valid = (rsrv.valid /\ ~Kills(cq[i].t))
  /\ Fence(cq[i].t) => Len(cq) = 1

\* A request that hits or that is for the cache alone.
LEMMA HitDeparts ==
  ASSUME NoneHasNoId, AllInv, NEW i \in 1 .. Len(cq), LoadHit(i), Answer(LoadHitAnswer(i))
  PROVE  Departs(i)
<1> DEFINE t == cq[i].t
<1>1. ActsShape(i) /\ Leaves(i)
  BY ActsAre DEF AllInv, Acts, ActsShape
<1>2. t.op \in {"LOAD", "PREFETCH"} /\ t.addr \in Words /\ cached[t.addr] # None /\ rsrv' = rsrv
  BY DEF LoadHit, AllInv, CoreInv, LegalInv, IsEntry, Legal
<1>3. ~Wrong(kind, t.addr)
  BY <1>2 DEF AllInv, RightInv, RightCache, RightCached
<1>4. ASSUME t.need_rsp PROVE Expected(inflight[t.tid], FALSE, cached[t.addr])
  BY <1>2, <1>3, <1>4 DEF Expected, AllInv, BoardInv, TableOk, Known, Remembers
<1>5. Serves(t)
  BY <1>4, AnswerServes DEF LoadHitAnswer, AllInv, BoardInv
<1>6. ~Kills(t) /\ t.op # "LR"
  BY <1>2 DEF Kills, KillsWord, is_amo, AmoOps, is_store
<1>7. Fence(t) => Len(cq) = 1
  BY <1>1, ExecutableFacts DEF AllInv, ActsShape
<1>8. rsrv'.valid = (rsrv.valid /\ ~Kills(t))
  BY <1>2, <1>6 DEF AllInv, RightInv, RightCache, RightReserved
<1> QED
  BY <1>1, <1>2, <1>5, <1>6, <1>7, <1>8 DEF Departs

LEMMA CmoDeparts ==
  ASSUME NoneHasNoId, AllInv, NEW i \in 1 .. Len(cq), CmoDone(i), Answer(Response(cq[i].t, FALSE, 0))
  PROVE  Departs(i)
<1> DEFINE t == cq[i].t
<1>1. ActsShape(i) /\ Leaves(i)
  BY ActsAre DEF AllInv, Acts, ActsShape
<1>2. is_cmo(t.op) /\ t.op # "PREFETCH" /\ rsrv' = rsrv
  BY DEF CmoDone
<1>3. t.op # "SC" /\ t.op # "LR" /\ ~Kills(t)
  BY <1>2 DEF is_cmo, CmoOps, Kills, KillsWord, is_amo, AmoOps, is_store
<1>4. ASSUME t.need_rsp PROVE Expected(inflight[t.tid], FALSE, 0)
  BY <1>2, <1>3, <1>4 DEF Expected, AllInv, BoardInv, TableOk, Known, Remembers
<1>5. Serves(t)
  BY <1>4, AnswerServes DEF AllInv, BoardInv
<1>6. Fence(t) => Len(cq) = 1
  BY <1>1, ExecutableFacts DEF AllInv, ActsShape
<1>7. rsrv'.valid = (rsrv.valid /\ ~Kills(t))
  BY <1>2, <1>3 DEF AllInv, RightInv, RightCache, RightReserved
<1> QED
  BY <1>1, <1>2, <1>3, <1>5, <1>6, <1>7 DEF Departs

\* A store-conditional that finds no reservation.
LEMMA ScDeparts ==
  ASSUME NoneHasNoId, AllInv, NEW i \in 1 .. Len(cq), ScFail(i), Answer(Response(cq[i].t, FALSE, 1))
  PROVE  Departs(i)
<1> DEFINE t == cq[i].t
<1>1. ActsShape(i) /\ Leaves(i)
  BY ActsAre DEF AllInv, Acts, ActsShape
<1>2. t.op = "SC" /\ ~Reserved(t) /\ rsrv' = [rsrv EXCEPT !.valid = FALSE]
  BY DEF ScFail
<1>3. ~Waits(i) /\ (Fence(t) => Len(cq) = 1)
  BY <1>1, ExecutableFacts DEF AllInv, ActsShape
<1>4. ~Reserves(i)
  BY <1>2 DEF Reserves, Reserved
<1>5. ASSUME t.need_rsp PROVE Expected(inflight[t.tid], FALSE, 1)
  <2>1. inflight[t.tid].op = "SC" /\ inflight[t.tid].is_error = FALSE /\ ~inflight[t.tid].is_atomic
    BY <1>2, <1>3, <1>4, <1>5 DEF AllInv, BoardInv, TableOk, Known, Remembers
  <2> QED
    BY <2>1 DEF Expected
<1>6. Serves(t)
  BY <1>5, AnswerServes DEF AllInv, BoardInv
<1>7. Kills(t) /\ t.op # "LR"
  BY <1>2 DEF Kills, KillsWord
<1>8. rsrv'.valid = FALSE /\ rsrv'.addr = rsrv.addr
  BY <1>2 DEF AllInv, CoreInv, ReserveInv
<1> QED
  BY <1>1, <1>3, <1>6, <1>7, <1>8 DEF Departs

\* A store that needs no line.
LEMMA StoreDeparts ==
  ASSUME NoneHasNoId, AllInv, NEW i \in 1 .. Len(cq), Store(i), Answer(Response(cq[i].t, FALSE, 0))
  PROVE  Departs(i)
<1> DEFINE t == cq[i].t  b == rsrv.valid /\ rsrv.addr # t.addr
<1>1. ActsShape(i) /\ Leaves(i)
  BY ActsAre DEF AllInv, Acts, ActsShape
<1>2. t.op = "STORE" /\ rsrv' = [rsrv EXCEPT !.valid = b]
  BY DEF Store, Snooped, is_store
<1>3. t.op # "LR" /\ (Kills(t) <=> t.addr = rsrv.addr)
  BY <1>2 DEF Kills, KillsWord, is_store
<1>4. ASSUME t.need_rsp PROVE Expected(inflight[t.tid], FALSE, 0)
  BY <1>2, <1>4 DEF Expected, is_store, AllInv, BoardInv, TableOk, Known, Remembers
<1>5. Serves(t)
  BY <1>4, AnswerServes DEF AllInv, BoardInv
<1>6. Fence(t) => Len(cq) = 1
  BY <1>1, ExecutableFacts DEF AllInv, ActsShape
<1>7. rsrv'.valid = b /\ rsrv'.addr = rsrv.addr
  <2> HIDE DEF b
  <2> QED
    BY <1>2 DEF AllInv, CoreInv, ReserveInv
<1>8. rsrv'.valid = (rsrv.valid /\ ~Kills(t))
  BY <1>3, <1>7
<1> QED
  BY <1>1, <1>3, <1>5, <1>6, <1>7, <1>8 DEF Departs

\* A request whose line arrives.
LEMMA RefillDeparts ==
  ASSUME NoneHasNoId, ErrorsByLine, AllInv, rdOut # None, Refill(rdOut), Answer(RefillAnswer(rdOut)),
         is_store(cq[Waiting(rdOut.id)].t.op) => rdOut.error
  PROVE  Departs(Waiting(rdOut.id))
<1> DEFINE i == Waiting(rdOut.id)  t == cq[i].t  b == rdBusy[rdOut.id]
           d == (b.values \o rdOut.data)[t.addr - b.addr + 1]
<1>1. RefillShape(i)
  BY RefillIs DEF AllInv
<1>2. Answer(Response(t, rdOut.error, d))
  BY DEF RefillAnswer
<1>3. rsrv' = rsrv
  BY DEF Refill
<1> HIDE DEF i, d
<1>4. /\ i \in 1 .. Len(cq) /\ Leaves(i) /\ t.op \in {"LOAD", "PREFETCH", "STORE"} /\ t.addr \in Words
      /\ rdBusy[rdOut.id].addr = Base(t.addr) /\ rdOut.id # UcId /\ ~UcOp(t)
  BY <1>1 DEF RefillShape, i
<1>5. rdOut.error = Wrong(kind, t.addr)
  <2>1. rdOut.error = Wrong(kind, Base(t.addr))
    BY <1>4 DEF AllInv, RightInv, RightReads, Answered, AnsweredFor
  <2>2. Base(t.addr) \in Words /\ get_nline(Base(t.addr)) = get_nline(t.addr)
    BY <1>4, BaseOfLine
  <2> QED
    BY <1>4, <2>1, <2>2, WordWrong
<1>6. ASSUME t.need_rsp PROVE Expected(inflight[t.tid], rdOut.error, d)
  <2>1. Known(i)
    BY <1>4, <1>6 DEF AllInv, BoardInv, TableOk
  <2>2. inflight[t.tid].op = t.op /\ (~is_store(t.op) => inflight[t.tid].is_error = Wrong(kind, t.addr))
    <3>1. /\ inflight[t.tid].op = t.op
          /\ inflight[t.tid].is_error = (t.op # "SC" /\ (~is_cmo(t.op) \/ t.op = "PREFETCH") /\ Wrong(kind, t.addr))
      BY <2>1 DEF Known, Remembers
    <3>2. Wrong(kind, t.addr) \in BOOLEAN
      BY DEF Wrong, within_error_region
    <3>3. ~is_store(t.op) => t.op # "SC" /\ (~is_cmo(t.op) \/ t.op = "PREFETCH")
      BY <1>4 DEF is_store, is_cmo, CmoOps
    <3> QED
      BY <3>1, <3>2, <3>3
  <2> QED
    BY <1>4, <1>5, <2>2 DEF Expected, is_store
<1>7. Serves(t)
  BY <1>2, <1>4, <1>6, AnswerServes DEF AllInv, BoardInv
<1>8. t.op # "LR" /\ ~Fence(t)
  BY <1>4 DEF Fence, UcOp, Inval, Flush
<1>9. rsrv'.valid = (rsrv.valid /\ ~Kills(t)) /\ rsrv'.addr = rsrv.addr
  <2>1. rsrv.valid \in BOOLEAN /\ (rsrv.valid => ~Wrong(kind, rsrv.addr))
    BY DEF AllInv, RightInv, RightCache, RightReserved
  <2>2. Kills(t) => is_store(t.op) /\ t.addr = rsrv.addr
    BY <1>4 DEF Kills, KillsWord, is_amo, AmoOps
  <2>3. rsrv.valid => ~Kills(t)
    <3>1. ASSUME rsrv.valid, Kills(t) PROVE FALSE
      <4>1. rdOut.error
        BY <2>2, <3>1 DEF i
      <4> QED
        BY <1>5, <2>1, <2>2, <3>1, <4>1
    <3> QED
      BY <3>1
  <2> QED
    BY <1>3, <2>1, <2>3
<1>10. Departs(i)
  BY <1>4, <1>7, <1>8, <1>9 DEF Departs
<1> QED
  BY <1>10 DEF i

\* The last response to an uncached access.
LEMMA UcReadDeparts ==
  ASSUME NoneHasNoId, AllInv, rdOut # None, UncachedRead(rdOut), UcId \notin DOMAIN wrBusy,
         Answer(UncachedReadAnswer(rdOut))
  PROVE  Departs(1)
<1> DEFINE t == cq[1].t  err == rdOut.error \/ cq[1].err
<1>1. UcReadShape
  BY UcReadIs DEF AllInv
<1>2. Answer(Response(t, err, rdOut.data[1]))
  BY DEF UncachedReadAnswer
<1>3. /\ 1 \in 1 .. Len(cq) /\ Leaves(1) /\ t.op \in {"LOAD", "LR"} \cup AmoOps /\ t.addr \in Words
      /\ rdBusy[UcId].addr = t.addr /\ rdOut.id = UcId /\ UcWait
  BY <1>1 DEF UcReadShape
<1>4. Len(cq) = 1 /\ cq[1].pc = "wait" /\ t.op # "SC" /\ ~is_cmo(t.op) /\ ~is_store(t.op)
  BY <1>3 DEF UcWait, Waits, is_cmo, CmoOps, AmoOps, is_store
<1>5. err = Wrong(kind, t.addr)
  <2>1. rdOut.error = IF is_amo(t.op) THEN FALSE ELSE Wrong(kind, t.addr)
    BY <1>3 DEF AllInv, RightInv, RightReads, Answered, AnsweredFor
  <2>2. cq[1].err = IF is_amo(t.op) THEN Wrong(kind, t.addr) ELSE FALSE
    BY <1>3, <1>4 DEF AllInv, RightInv, RightCache, RightErr, Halfway
  <2>3. Wrong(kind, t.addr) \in BOOLEAN
    BY DEF Wrong, within_error_region
  <2>4. CASE is_amo(t.op)
    BY <2>1, <2>2, <2>3, <2>4
  <2>5. CASE ~is_amo(t.op)
    BY <2>1, <2>2, <2>3, <2>5
  <2> QED
    BY <2>4, <2>5
<1> HIDE DEF err
<1>6. ASSUME t.need_rsp PROVE Expected(inflight[t.tid], err, rdOut.data[1])
  <2>1. Known(1)
    BY <1>3, <1>6 DEF AllInv, BoardInv, TableOk
  <2>2. inflight[t.tid].op = t.op /\ inflight[t.tid].is_error = Wrong(kind, t.addr)
    <3>1. inflight[t.tid].is_error = (t.op # "SC" /\ (~is_cmo(t.op) \/ t.op = "PREFETCH") /\ Wrong(kind, t.addr))
      BY <2>1 DEF Known, Remembers
    <3>2. Wrong(kind, t.addr) \in BOOLEAN
      BY DEF Wrong, within_error_region
    <3> QED
      BY <1>4, <2>1, <3>1, <3>2 DEF Known, Remembers
  <2> QED
    BY <1>4, <1>5, <2>2 DEF Expected
<1>7. Serves(t)
  BY <1>2, <1>3, <1>6, AnswerServes DEF AllInv, BoardInv
<1>8. CASE t.op = "LR"
  <2>1. rsrv' = [valid |-> ~rdOut.error, addr |-> t.addr]
    BY <1>8 DEF UncachedRead
  <2>2. rdOut.error = Wrong(kind, t.addr)
    BY <1>3, <1>8 DEF AllInv, RightInv, RightReads, Answered, AnsweredFor, is_amo, AmoOps
  <2>3. rsrv'.valid = ~Wrong(kind, t.addr) /\ rsrv'.addr = t.addr
    BY <2>1, <2>2
  <2> QED
    BY <1>3, <1>4, <1>7, <1>8, <2>3 DEF Departs
<1>9. CASE t.op # "LR"
  <2>1. rsrv' = rsrv /\ rsrv.valid \in BOOLEAN
    BY <1>9 DEF UncachedRead, AllInv, RightInv, RightCache, RightReserved
  <2>2. rsrv.valid => ~Kills(t)
    BY <1>3 DEF AllInv, BoardInv, LrscInv, LrscFollows, Unreserved
  <2>3. rsrv'.valid = (rsrv.valid /\ ~Kills(t))
    BY <2>1, <2>2
  <2> QED
    BY <1>3, <1>4, <1>7, <1>9, <2>1, <2>3 DEF Departs
<1> QED
  BY <1>8, <1>9

LEMMA UcWriteDeparts ==
  ASSUME NoneHasNoId, AllInv, wrOut # None, UncachedWrite(wrOut), UcId \notin DOMAIN rdBusy,
         Answer(UncachedWriteAnswer(wrOut))
  PROVE  Departs(1)
<1> DEFINE t == cq[1].t  err == wrOut.error \/ (is_amo(t.op) /\ cq[1].err)
           d == IF is_amo(t.op) THEN cq[1].old ELSE IF t.op = "SC" /\ ~wrOut.is_atomic THEN 1 ELSE 0
<1>1. UcWriteShape
  BY UcWriteIs DEF AllInv
<1>3. /\ 1 \in 1 .. Len(cq) /\ Leaves(1) /\ t.op \in {"STORE", "SC"} \cup AmoOps /\ t.addr \in Words
      /\ UcId \in DOMAIN wrBusy /\ wrOut.id = UcId /\ UcWait
  BY <1>1 DEF UcWriteShape
<1>4. Len(cq) = 1 /\ cq[1].pc = "wait" /\ t.op # "LR" /\ ~is_cmo(t.op)
  BY <1>3 DEF UcWait, Waits, is_cmo, CmoOps, AmoOps
<1>5. wrOut.error = Wrong(kind, t.addr) /\ cq[1].err = FALSE /\ Wrong(kind, t.addr) \in BOOLEAN
  BY <1>3 DEF AllInv, RightInv, RightWrites, Acked, AckedFor, RightCache, RightErr, Halfway, Wrong,
              within_error_region
<1>2. Answer(Response(t, err, d)) /\ err = Wrong(kind, t.addr)
  <2>1. err = Wrong(kind, t.addr)
    BY <1>5
  <2>2. (wrOut.error \/ cq[1].err) = Wrong(kind, t.addr) /\ wrOut.error = Wrong(kind, t.addr)
    BY <1>5
  <2>3. UncachedWriteAnswer(wrOut) = Response(t, Wrong(kind, t.addr), d)
    <3>1. UncachedWriteAnswer(wrOut)
            = IF is_amo(t.op) THEN Response(t, wrOut.error \/ cq[1].err, cq[1].old)
              ELSE Response(t, wrOut.error, IF t.op = "SC" /\ ~wrOut.is_atomic THEN 1 ELSE 0)
      BY DEF UncachedWriteAnswer
    <3>2. CASE is_amo(t.op)
      BY <2>2, <3>1, <3>2
    <3>3. CASE ~is_amo(t.op)
      BY <2>2, <3>1, <3>3
    <3> QED
      BY <3>2, <3>3
  <2> QED
    BY <2>1, <2>3
<1> HIDE DEF err
<1>6. ASSUME t.need_rsp PROVE Expected(inflight[t.tid], err, d)
  <2>1. Known(1)
    BY <1>3, <1>6 DEF AllInv, BoardInv, TableOk
  <2>2. CASE t.op = "SC"
    <3>1. /\ inflight[t.tid].op = "SC" /\ inflight[t.tid].is_error = FALSE
          /\ inflight[t.tid].is_atomic
      BY <1>4, <2>1, <2>2 DEF Known, Remembers, Waits
    <3>2. ~Wrong(kind, t.addr)
      BY <1>3, <2>2 DEF AllInv, RightInv, RightCache, RightReserved
    <3>3. scIsAtomic = wrOut.is_atomic
      BY DEF AllInv, BoardInv, AtomicShown
    <3>4. d = IF wrOut.is_atomic THEN 0 ELSE 1
      BY <2>2 DEF is_amo, AmoOps
    <3> QED
      BY <1>2, <1>5, <3>1, <3>2, <3>3, <3>4 DEF Expected
  <2>3. CASE t.op # "SC"
    <3>1. inflight[t.tid].is_error = (t.op # "SC" /\ (~is_cmo(t.op) \/ t.op = "PREFETCH") /\ Wrong(kind, t.addr))
          /\ inflight[t.tid].op = t.op
      BY <2>1 DEF Known, Remembers
    <3>2. inflight[t.tid].is_error = Wrong(kind, t.addr)
      BY <1>4, <1>5, <2>3, <3>1
    <3> QED
      BY <1>2, <2>3, <3>1, <3>2 DEF Expected
  <2> QED
    BY <2>2, <2>3
<1> HIDE DEF d
<1>7. Serves(t)
  BY <1>2, <1>3, <1>6, AnswerServes DEF AllInv, BoardInv
<1>8. rsrv' = rsrv /\ rsrv.valid \in BOOLEAN
  BY DEF UncachedWrite, AllInv, RightInv, RightCache, RightReserved
<1>9. rsrv.valid => ~Kills(t)
  BY <1>3 DEF AllInv, BoardInv, LrscInv, LrscFollows, Unreserved
<1>10. rsrv'.valid = (rsrv.valid /\ ~Kills(t))
  BY <1>8, <1>9
<1> QED
  BY <1>3, <1>4, <1>7, <1>8, <1>10 DEF Departs

----------------------------------------------------------------------------
(* What the scoreboard does with a request                                 *)

\* The request of the driver is the last of the cache, and the table knows it.
Takes(e) ==
  LET t == drv.t
      n == Len(cq) + 1
  IN  /\ Len(cq) \in Nat /\ Len(cq') = n /\ cq'[n].t = t /\ cq'[n].pc = "new"
      /\ \A k \in 1 .. Len(cq) : cq'[k] = cq[k] /\ ~Fence(cq[k].t)
      /\ Legal(kind, t) /\ rsrv' = rsrv /\ kind' = kind
      /\ t.tid \notin DOMAIN inflight
      /\ DOMAIN inflight' = DOMAIN inflight \cup Gone(t)
      /\ \A x \in DOMAIN inflight : inflight'[x] = inflight[x]
      /\ t.need_rsp => inflight'[t.tid] = e
      /\ amoFifo = <<>> /\ amoFifo' = IF Forwarded(t, e) THEN <<e>> ELSE <<>>
      /\ lrsc' = IF is_cmo(t.op) /\ ~t.need_rsp THEN lrsc ELSE LrscAfter(t, e)
      /\ errors' = errors /\ UNCHANGED <<memRead, scIsAtomic>>

\* No atomic waits for its turn while the cache takes requests.
LEMMA FifoEmpty ==
  ASSUME AllInv, \A k \in 1 .. Len(cq) : ~Fence(cq[k].t)
  PROVE  amoFifo = <<>>
<1>1. Len(cq) \in Nat /\ (Len(cq) = 0 <=> cq = <<>>)
  BY DEF AllInv, CoreInv, LegalInv, IsSeq
<1>2. cq # <<>> => ~Due(cq[Len(cq)])
  <2>1. ASSUME cq # <<>> PROVE ~Due(cq[Len(cq)])
    <3>1. Len(cq) \in 1 .. Len(cq)
      BY <1>1, <2>1
    <3>2. ~Fence(cq[Len(cq)].t)
      BY <3>1
    <3> QED
      BY <3>2 DEF Due, DueOp, Fence, Atomic
  <2> QED
    BY <2>1
<1> QED
  BY <1>2 DEF AllInv, BoardInv, AmoFifoInv, LastDue

LEMMA RequestTakes ==
  ASSUME AllInv, DriveRequest
  PROVE  Takes(Entry(errorsegs, drv.t))
<1> DEFINE t == drv.t  e == Entry(errorsegs, t)
           dup   == t.tid \in DOMAIN inflight
           quiet == ~dup /\ is_cmo(t.op) /\ ~t.need_rsp
           full  == ~dup /\ Forwarded(t, e) /\ Len(amoFifo) = AmoFifoDepth
           done  == ~dup /\ ~quiet /\ ~full
           free  == quiet \/ (done /\ ~t.need_rsp)
           lost  == free /\ t.tid \notin ids
           c == [core_req_id |-> dup, amo_fifo_full |-> full, seq_id |-> lost]
           x == [t |-> t, pc |-> "new", old |-> None, err |-> FALSE]
<1>1. /\ drv.pc = "valid" /\ CanAccept /\ cq' = Append(cq, x) /\ rsrv' = rsrv /\ kind' = kind
      /\ inflight' = IF done /\ t.need_rsp THEN Put(inflight, t.tid, e) ELSE inflight
      /\ lrsc' = IF ~dup /\ ~quiet THEN LrscAfter(t, e) ELSE lrsc
      /\ amoFifo' = IF done /\ Forwarded(t, e) THEN Append(amoFifo, e) ELSE amoFifo
      /\ errors' = errors \cup Report(c)
      /\ UNCHANGED <<memRead, scIsAtomic>>
  BY DEF DriveRequest, Accept, core_req_process, seqVars
<1>2. ~dup /\ ~lost /\ Legal(kind, t)
  BY <1>1 DEF AllInv, BoardInv, Books, FreshId, IdsMatchInflight, CoreInv, LegalInv
<1>3. /\ Len(cq) \in Nat /\ Len(cq') = Len(cq) + 1 /\ cq'[Len(cq) + 1] = x
      /\ \A k \in 1 .. Len(cq) : cq'[k] = cq[k]
  <2> HIDE DEF x
  <2> QED
    BY <1>1, SeqAppend DEF AllInv, CoreInv, LegalInv
<1>4. \A k \in 1 .. Len(cq) : ~Fence(cq[k].t)
  BY <1>1 DEF CanAccept
<1>5. amoFifo = <<>>
  BY <1>4, FifoEmpty
<1>6. ~full
  BY <1>5, ScoreboardAssumption
<1>7. x.t = t /\ x.pc = "new"
  OBVIOUS
<1> HIDE DEF e, x, t, full
<1>8. errors' = errors
  <2> HIDE DEF dup, lost
  <2>1. DOMAIN c = {"core_req_id", "amo_fifo_full", "seq_id"}
    OBVIOUS
  <2>2. ~c["core_req_id"] /\ ~c["amo_fifo_full"] /\ ~c["seq_id"]
    BY <1>2, <1>6
  <2>3. \A m \in DOMAIN c : ~c[m]
    BY <2>1, <2>2
  <2> HIDE DEF c
  <2>4. Report(c) = {}
    BY <2>3 DEF Report
  <2> QED
    BY <1>1, <2>4
<1>9. quiet <=> is_cmo(t.op) /\ ~t.need_rsp
  BY <1>2
<1>10. Forwarded(t, e) => done /\ t.need_rsp
  <2>1. Forwarded(t, e) => Atomic(t.op) /\ ~is_cmo(t.op)
    BY DEF Forwarded, Atomic, is_amo, AmoOps, is_cmo, CmoOps
  <2> QED
    BY <1>2, <1>6, <1>9, <2>1 DEF Legal
<1>11. amoFifo' = IF Forwarded(t, e) THEN <<e>> ELSE <<>>
  BY <1>1, <1>5, <1>10
<1>12. t.need_rsp => done
  BY <1>2, <1>6, <1>9
<1>13. /\ DOMAIN inflight' = DOMAIN inflight \cup Gone(t)
       /\ \A y \in DOMAIN inflight : inflight'[y] = inflight[y]
       /\ t.need_rsp => inflight'[t.tid] = e
  <2> HIDE DEF done
  <2>1. CASE t.need_rsp
    <3>1. inflight' = Put(inflight, t.tid, e)
      BY <1>1, <1>12, <2>1
    <3> QED
      BY <1>2, <2>1, <3>1 DEF Put, Gone
  <2>2. CASE ~t.need_rsp
    BY <1>1, <2>2 DEF Gone
  <2> QED
    BY <2>1, <2>2
<1>14. lrsc' = IF is_cmo(t.op) /\ ~t.need_rsp THEN lrsc ELSE LrscAfter(t, e)
  BY <1>1, <1>2, <1>9
<1>15. t.tid \notin DOMAIN inflight
  BY <1>2
<1> HIDE DEF dup, quiet, done, free, lost, c
<1> QED
  BY <1>1, <1>2, <1>3, <1>4, <1>5, <1>7, <1>8, <1>11, <1>13, <1>14, <1>15 DEF Takes, t, e

----------------------------------------------------------------------------
(* The table and the reservation                                           *)

\* A request of the cache that goes on is known as it was.
LEMMA StillKnown ==
  ASSUME NEW j, Known(j), kind' = kind, NEW r, cq[j].t.op = "SC" => r = (Waits(j) \/ Reserves(j)),
         cq[j].t.tid \in DOMAIN inflight', inflight'[cq[j].t.tid] = inflight[cq[j].t.tid]
  PROVE  Remembers(inflight'[cq[j].t.tid], kind', cq[j].t, r)
BY DEF Known, Remembers

\* The table after a step.
LEMMA TableNext ==
  ASSUME \A k \in 1 .. Len(cq') : cq'[k].t.need_rsp =>
           /\ cq'[k].t.tid \in DOMAIN inflight'
           /\ Remembers(inflight'[cq'[k].t.tid], kind', cq'[k].t,
                        cq'[k].pc = "wait"
                          \/ (/\ rsrv'.valid /\ rsrv'.addr = cq'[k].t.addr
                              /\ \A j \in 1 .. k - 1 : ~KillsWord(cq'[j].t, rsrv'.addr))),
         \A i, j \in 1 .. Len(cq') :
           i # j /\ cq'[i].t.need_rsp /\ cq'[j].t.need_rsp => cq'[i].t.tid # cq'[j].t.tid
  PROVE  TableOk'
BY DEF TableOk, Known, Waits, Reserves, Kills

\* The reservation of the scoreboard when the cache takes a request.
LEMMA NoLr ==
  ASSUME LrscFollows, \A k \in 1 .. Len(cq) : ~Fence(cq[k].t)
  PROVE  /\ lrsc.valid = (rsrv.valid /\ \A i \in 1 .. Len(cq) : ~KillsWord(cq[i].t, rsrv.addr))
         /\ lrsc.valid => lrsc.addr = rsrv.addr
<1>1. \A i \in 1 .. Len(cq) : cq[i].t.op # "LR"
  BY DEF Fence, Atomic
<1> QED
  BY <1>1 DEF LrscFollows, Kills

\* What the scoreboard remembers of a request.
LEMMA EntryIs ==
  ASSUME AllInv, Trusted, Takes(Entry(errorsegs, drv.t))
  PROVE  Remembers(Entry(errorsegs, drv.t), kind, drv.t,
                   /\ rsrv.valid /\ rsrv.addr = drv.t.addr
                   /\ \A i \in 1 .. Len(cq) : ~KillsWord(cq[i].t, rsrv.addr))
<1> DEFINE t == drv.t  e == Entry(errorsegs, t)
           inError == (~is_cmo(t.op) \/ t.op = "PREFETCH") /\ Wrong(kind, t.addr)
           free == \A i \in 1 .. Len(cq) : ~KillsWord(cq[i].t, rsrv.addr)
<1>1. /\ e.addr = t.addr /\ e.op = t.op /\ e.wdata = t.data
      /\ e.is_error = (inError /\ (t.op = "SC" => LrscMatch(t.addr)))
      /\ e.is_atomic = (t.op = "SC" /\ LrscMatch(t.addr))
  BY DEF Entry, Wrong, Segs, errorsegs
<1> HIDE DEF e
<1>2. \A k \in 1 .. Len(cq) : ~Fence(cq[k].t)
  BY DEF Takes
<1>3. LrscFollows => lrsc.valid = (rsrv.valid /\ free) /\ (lrsc.valid => lrsc.addr = rsrv.addr)
  BY <1>2, NoLr
<1> HIDE DEF free
<1>4. t.op = "SC" => (LrscMatch(t.addr) <=> rsrv.valid /\ rsrv.addr = t.addr /\ free)
  <2>1. CASE LrscFollows
    BY <1>3, <2>1 DEF LrscMatch
  <2>2. CASE ~LrscFollows
    <3>1. ~rsrv.valid
      BY <2>2 DEF AllInv, BoardInv, LrscInv, Unreserved
    <3> QED
      BY <2>2, <3>1 DEF Trusted
  <2> QED
    BY <2>1, <2>2
<1>5. t.op = "SC" /\ LrscMatch(t.addr) => ~Wrong(kind, t.addr)
  BY <1>4 DEF AllInv, RightInv, RightCache, RightReserved
<1>6. e.is_error = (t.op # "SC" /\ inError)
  BY <1>1, <1>5
<1>7. t.op = "SC" => e.is_atomic = (rsrv.valid /\ rsrv.addr = t.addr /\ free)
  BY <1>1, <1>4
<1>8. Remembers(e, kind, t, rsrv.valid /\ rsrv.addr = t.addr /\ free)
  BY <1>1, <1>6, <1>7 DEF Remembers
<1> QED
  BY <1>8 DEF e, t, free

LEMMA TakesTable ==
  ASSUME AllInv, Trusted, Takes(Entry(errorsegs, drv.t))
  PROVE  TableOk'
<1> DEFINE t == drv.t  e == Entry(errorsegs, t)  n == Len(cq) + 1
<1> HIDE DEF e
<1>1. /\ Len(cq) \in Nat /\ Len(cq') = n /\ cq'[n].t = t /\ cq'[n].pc = "new"
      /\ \A k \in 1 .. Len(cq) : cq'[k] = cq[k]
      /\ rsrv' = rsrv /\ kind' = kind /\ t.tid \notin DOMAIN inflight
      /\ DOMAIN inflight' = DOMAIN inflight \cup Gone(t)
      /\ \A x \in DOMAIN inflight : inflight'[x] = inflight[x]
      /\ t.need_rsp => inflight'[t.tid] = e
  BY DEF Takes, e
<1>2. \A k \in 1 .. Len(cq') : k \in 1 .. Len(cq) \/ k = n
  BY <1>1
<1>3. \A k \in 1 .. Len(cq) : cq[k].t.need_rsp => Known(k) /\ cq[k].t.tid \in DOMAIN inflight
  BY DEF AllInv, BoardInv, TableOk, Known
<1>4. ASSUME NEW k \in 1 .. Len(cq'), cq'[k].t.need_rsp
      PROVE  /\ cq'[k].t.tid \in DOMAIN inflight'
             /\ Remembers(inflight'[cq'[k].t.tid], kind', cq'[k].t,
                          cq'[k].pc = "wait"
                            \/ (/\ rsrv'.valid /\ rsrv'.addr = cq'[k].t.addr
                                /\ \A j \in 1 .. k - 1 : ~KillsWord(cq'[j].t, rsrv'.addr)))
  <2> DEFINE free == \A j \in 1 .. k - 1 : ~KillsWord(cq'[j].t, rsrv'.addr)
             r == cq'[k].pc = "wait" \/ (rsrv'.valid /\ rsrv'.addr = cq'[k].t.addr /\ free)
  <2>1. CASE k \in 1 .. Len(cq)
    <3>1. cq'[k] = cq[k] /\ Known(k) /\ cq[k].t.tid \in DOMAIN inflight
      BY <1>1, <1>3, <1>4, <2>1
    <3>2. \A j \in 1 .. k - 1 : cq'[j] = cq[j]
      BY <1>1, <2>1
    <3>3. r = (Waits(k) \/ Reserves(k))
      BY <1>1, <3>1, <3>2 DEF Waits, Reserves, Kills
    <3> HIDE DEF r
    <3>4. Remembers(inflight'[cq[k].t.tid], kind', cq[k].t, r)
      BY <1>1, <3>1, <3>3, StillKnown
    <3> QED
      BY <1>1, <3>1, <3>4 DEF r
  <2>2. CASE k = n
    <3>1. cq'[k].t = t /\ t.need_rsp /\ inflight'[t.tid] = e /\ t.tid \in DOMAIN inflight' /\ cq'[k].pc # "wait"
      BY <1>1, <1>4, <2>2 DEF Gone
    <3>2. k - 1 = Len(cq)
      BY <1>1, <2>2
    <3>3. Remembers(e, kind, t, /\ rsrv.valid /\ rsrv.addr = t.addr
                                /\ \A i \in 1 .. Len(cq) : ~KillsWord(cq[i].t, rsrv.addr))
      BY EntryIs DEF e
    <3>4. r = (/\ rsrv.valid /\ rsrv.addr = t.addr
               /\ \A i \in 1 .. Len(cq) : ~KillsWord(cq[i].t, rsrv.addr))
      BY <1>1, <3>1, <3>2
    <3> HIDE DEF r
    <3>5. Remembers(e, kind, t, r)
      BY <3>3, <3>4
    <3> QED
      BY <1>1, <3>1, <3>5 DEF r
  <2> QED
    BY <1>2, <2>1, <2>2
<1>5. ASSUME NEW i \in 1 .. Len(cq'), NEW j \in 1 .. Len(cq'), i # j, cq'[i].t.need_rsp, cq'[j].t.need_rsp
      PROVE  cq'[i].t.tid # cq'[j].t.tid
  <2>1. CASE i \in 1 .. Len(cq) /\ j \in 1 .. Len(cq)
    BY <1>1, <1>5, <2>1 DEF AllInv, BoardInv, TableOk
  <2>2. CASE i = n \/ j = n
    BY <1>1, <1>2, <1>3, <1>5, <2>2
  <2> QED
    BY <1>2, <2>1, <2>2
<1> QED
  BY <1>4, <1>5, TableNext

\* A request that leaves is none of those that stay, and these keep their order.
LEMMA DepartsAre ==
  ASSUME AllInv, NEW i \in 1 .. Len(cq), Departs(i)
  PROVE  /\ Len(cq) \in Nat \ {0} /\ Len(cq') = Len(cq) - 1 /\ Len(cq') \in Nat
         /\ \A k \in 1 .. Len(cq') :
              /\ k < i => cq'[k] = cq[k] /\ k \in 1 .. Len(cq)
              /\ k >= i => cq'[k] = cq[k + 1] /\ k + 1 \in 1 .. Len(cq)
         /\ \A j \in 1 .. Len(cq) : cq[j].t.need_rsp /\ j # i =>
              /\ Known(j) /\ cq[j].t.tid \in DOMAIN inflight'
              /\ inflight'[cq[j].t.tid] = inflight[cq[j].t.tid]
<1>1. Len(cq) \in Nat \ {0} /\ Len(cq') = Len(cq) - 1
  BY DEF Departs, Leaves
<1>2. \A k \in 1 .. Len(cq) - 1 : cq'[k] = IF k < i THEN cq[k] ELSE cq[k + 1]
  BY DEF Departs, Leaves
<1>3. Len(cq') \in Nat
  BY <1>1
<1>4. ASSUME NEW k \in 1 .. Len(cq')
      PROVE  /\ k < i => cq'[k] = cq[k] /\ k \in 1 .. Len(cq)
             /\ k >= i => cq'[k] = cq[k + 1] /\ k + 1 \in 1 .. Len(cq)
  <2>1. k \in Nat /\ k \in 1 .. Len(cq) - 1 /\ i \in Nat /\ k \in 1 .. Len(cq) /\ k + 1 \in 1 .. Len(cq)
    BY <1>1
  <2>2. k >= i => ~(k < i)
    BY <2>1
  <2> QED
    BY <1>2, <2>1, <2>2
<1>5. ASSUME NEW j \in 1 .. Len(cq), cq[j].t.need_rsp, j # i
      PROVE  /\ Known(j) /\ cq[j].t.tid \in DOMAIN inflight'
             /\ inflight'[cq[j].t.tid] = inflight[cq[j].t.tid]
  <2>1. Known(j) /\ cq[j].t.tid \in DOMAIN inflight
    BY <1>5 DEF AllInv, BoardInv, TableOk, Known
  <2>2. cq[j].t.tid \notin Gone(cq[i].t)
    BY <1>5 DEF AllInv, BoardInv, TableOk, Gone
  <2>3. /\ DOMAIN inflight' = DOMAIN inflight \ Gone(cq[i].t)
        /\ \A x \in DOMAIN inflight' : inflight'[x] = inflight[x]
    BY DEF Departs, Serves
  <2> QED
    BY <2>1, <2>2, <2>3
<1> QED
  BY <1>1, <1>3, <1>4, <1>5

\* The reservation seen by a request that stays.
LEMMA DepartsReserve ==
  ASSUME AllInv, NEW i \in 1 .. Len(cq), Departs(i), NEW k \in 1 .. Len(cq'), cq'[k].t.op = "SC"
  PROVE  /\ k >= i /\ ~Fence(cq[i].t) /\ cq'[k].pc # "wait" /\ ~Waits(k + 1)
         /\ (/\ rsrv'.valid /\ rsrv'.addr = cq'[k].t.addr
             /\ \A j \in 1 .. k - 1 : ~KillsWord(cq'[j].t, rsrv'.addr)) = Reserves(k + 1)
<1> DEFINE keeps == \A j \in 1 .. k - 1 : ~KillsWord(cq'[j].t, rsrv'.addr)
           kept == \A j \in 1 .. k : ~KillsWord(cq[j].t, rsrv.addr)
<1>1. /\ Len(cq) \in Nat \ {0} /\ Len(cq') = Len(cq) - 1 /\ Len(cq') \in Nat
      /\ \A m \in 1 .. Len(cq') :
           /\ m < i => cq'[m] = cq[m] /\ m \in 1 .. Len(cq)
           /\ m >= i => cq'[m] = cq[m + 1] /\ m + 1 \in 1 .. Len(cq)
  BY DepartsAre
<1>2. k \in Nat /\ i \in Nat /\ k < Len(cq)
  BY <1>1
<1>3. \A j \in 1 .. Len(cq) : Fence(cq[j].t) => j = Len(cq)
  BY DEF AllInv, CoreInv, OrderInv
<1>4. k >= i
  <2>1. ASSUME k < i PROVE FALSE
    <3>1. cq'[k] = cq[k] /\ k \in 1 .. Len(cq)
      BY <1>1, <2>1
    <3>2. Fence(cq[k].t)
      BY <3>1 DEF Fence, Atomic
    <3> QED
      BY <1>2, <1>3, <3>1, <3>2
  <2> QED
    BY <1>2, <2>1
<1>5. cq'[k] = cq[k + 1] /\ k + 1 \in 1 .. Len(cq)
  BY <1>1, <1>4
<1>6. Len(cq) # 1
  BY <1>1, <1>2
<1>7. ~Fence(cq[i].t)
  BY <1>6 DEF Departs
<1>8. Fence(cq[k + 1].t)
  BY <1>5 DEF Fence, Atomic
<1>9. ~Waits(k + 1)
  BY <1>5, <1>6, <1>8 DEF AllInv, CoreInv, OrderInv, UcWait
<1>10. rsrv'.addr = rsrv.addr /\ rsrv'.valid = (rsrv.valid /\ ~KillsWord(cq[i].t, rsrv.addr))
  BY <1>7 DEF Departs, Fence, Atomic, Kills
<1>11. kept <=> keeps /\ ~KillsWord(cq[i].t, rsrv.addr)
  <2>1. ASSUME kept PROVE keeps /\ ~KillsWord(cq[i].t, rsrv.addr)
    <3>1. i \in 1 .. k
      BY <1>2, <1>4
    <3>2. ASSUME NEW j \in 1 .. k - 1 PROVE ~KillsWord(cq'[j].t, rsrv'.addr)
      <4>1. j \in 1 .. Len(cq') /\ j \in 1 .. k /\ j + 1 \in 1 .. k /\ (j < i \/ j >= i)
        BY <1>1, <1>2
      <4>2. cq'[j] = cq[j] \/ cq'[j] = cq[j + 1]
        BY <1>1, <4>1
      <4> QED
        BY <1>10, <2>1, <4>1, <4>2
    <3> QED
      BY <2>1, <3>1, <3>2
  <2>2. ASSUME keeps, ~KillsWord(cq[i].t, rsrv.addr) PROVE kept
    <3>1. ASSUME NEW j \in 1 .. k PROVE ~KillsWord(cq[j].t, rsrv.addr)
      <4>1. CASE j = i
        BY <2>2, <4>1
      <4>2. CASE j < i
        <5>1. j \in 1 .. Len(cq') /\ j \in 1 .. k - 1
          BY <1>1, <1>2, <1>4, <4>2
        <5>2. cq'[j] = cq[j]
          BY <1>1, <4>2, <5>1
        <5> QED
          BY <1>10, <2>2, <5>1, <5>2
      <4>3. CASE j > i
        <5>1. j - 1 \in 1 .. Len(cq') /\ j - 1 \in 1 .. k - 1 /\ j - 1 >= i /\ (j - 1) + 1 = j
          BY <1>1, <1>2, <1>4, <4>3
        <5>2. cq'[j - 1] = cq[j]
          BY <1>1, <5>1
        <5> QED
          BY <1>10, <2>2, <5>1, <5>2
      <4> QED
        BY <1>2, <4>1, <4>2, <4>3
    <3> QED
      BY <3>1
  <2> QED
    BY <2>1, <2>2
<1>12. Reserves(k + 1) = (rsrv.valid /\ rsrv.addr = cq[k + 1].t.addr /\ kept)
  <2>1. (k + 1) - 1 = k
    BY <1>2
  <2> QED
    BY <2>1 DEF Reserves, Kills
<1> HIDE DEF keeps, kept
<1>13. (rsrv'.valid /\ rsrv'.addr = cq'[k].t.addr /\ keeps) = Reserves(k + 1)
  BY <1>5, <1>10, <1>11, <1>12
<1>14. cq'[k].pc # "wait"
  BY <1>5, <1>9 DEF Waits
<1> QED
  BY <1>4, <1>7, <1>9, <1>13, <1>14 DEF keeps

LEMMA DepartsTable ==
  ASSUME AllInv, NEW i \in 1 .. Len(cq), Departs(i), kind' = kind
  PROVE  TableOk'
<1>1. /\ Len(cq) \in Nat \ {0} /\ Len(cq') = Len(cq) - 1 /\ Len(cq') \in Nat
      /\ \A k \in 1 .. Len(cq') :
           /\ k < i => cq'[k] = cq[k] /\ k \in 1 .. Len(cq)
           /\ k >= i => cq'[k] = cq[k + 1] /\ k + 1 \in 1 .. Len(cq)
      /\ \A j \in 1 .. Len(cq) : cq[j].t.need_rsp /\ j # i =>
           /\ Known(j) /\ cq[j].t.tid \in DOMAIN inflight'
           /\ inflight'[cq[j].t.tid] = inflight[cq[j].t.tid]
  BY DepartsAre
<1> DEFINE old(k) == IF k < i THEN k ELSE k + 1
<1>2. \A k \in 1 .. Len(cq') : old(k) \in 1 .. Len(cq) /\ old(k) # i /\ cq'[k] = cq[old(k)]
  <2>1. ASSUME NEW k \in 1 .. Len(cq') PROVE old(k) \in 1 .. Len(cq) /\ old(k) # i /\ cq'[k] = cq[old(k)]
    <3>1. k \in Nat /\ i \in Nat
      BY <1>1
    <3>2. CASE k < i
      BY <1>1, <3>1, <3>2
    <3>3. CASE k >= i
      <4>1. ~(k < i) /\ k + 1 # i
        BY <3>1, <3>3
      <4> QED
        BY <1>1, <3>3, <4>1
    <3> QED
      BY <3>1, <3>2, <3>3
  <2> QED
    BY <2>1
<1>3. ASSUME NEW k \in 1 .. Len(cq'), cq'[k].t.need_rsp
      PROVE  /\ cq'[k].t.tid \in DOMAIN inflight'
             /\ Remembers(inflight'[cq'[k].t.tid], kind', cq'[k].t,
                          cq'[k].pc = "wait"
                            \/ (/\ rsrv'.valid /\ rsrv'.addr = cq'[k].t.addr
                                /\ \A j \in 1 .. k - 1 : ~KillsWord(cq'[j].t, rsrv'.addr)))
  <2> DEFINE r == cq'[k].pc = "wait" \/ (/\ rsrv'.valid /\ rsrv'.addr = cq'[k].t.addr
                                        /\ \A j \in 1 .. k - 1 : ~KillsWord(cq'[j].t, rsrv'.addr))
             j == old(k)
  <2>1. j \in 1 .. Len(cq) /\ j # i /\ cq'[k] = cq[j]
    BY <1>2
  <2>2. Known(j) /\ cq[j].t.tid \in DOMAIN inflight' /\ inflight'[cq[j].t.tid] = inflight[cq[j].t.tid]
    BY <1>1, <1>3, <2>1
  <2>3. ASSUME cq[j].t.op = "SC" PROVE r = (Waits(j) \/ Reserves(j))
    <3>1. /\ k >= i /\ cq'[k].pc # "wait" /\ ~Waits(k + 1)
          /\ (/\ rsrv'.valid /\ rsrv'.addr = cq'[k].t.addr
              /\ \A m \in 1 .. k - 1 : ~KillsWord(cq'[m].t, rsrv'.addr)) = Reserves(k + 1)
      BY <2>1, <2>3, DepartsReserve
    <3>2. j = k + 1
      BY <1>1, <3>1
    <3> HIDE DEF j
    <3>3. r = Reserves(j)
      BY <3>1, <3>2
    <3> HIDE DEF r
    <3> QED
      BY <3>1, <3>2, <3>3
  <2> HIDE DEF r, j
  <2>4. Remembers(inflight'[cq[j].t.tid], kind', cq[j].t, r)
    BY <2>2, <2>3, StillKnown
  <2> QED
    BY <2>1, <2>2, <2>4 DEF r
<1>4. ASSUME NEW k \in 1 .. Len(cq'), NEW m \in 1 .. Len(cq'), k # m, cq'[k].t.need_rsp, cq'[m].t.need_rsp
      PROVE  cq'[k].t.tid # cq'[m].t.tid
  <2>1. old(k) # old(m)
    <3>1. k \in Nat /\ m \in Nat /\ i \in Nat
      BY <1>1
    <3> QED
      BY <1>4, <3>1
  <2>2. /\ old(k) \in 1 .. Len(cq) /\ cq'[k] = cq[old(k)]
        /\ old(m) \in 1 .. Len(cq) /\ cq'[m] = cq[old(m)]
    BY <1>2
  <2> HIDE DEF old
  <2> QED
    BY <1>4, <2>1, <2>2 DEF AllInv, BoardInv, TableOk
<1> QED
  BY <1>3, <1>4, TableNext

\* No uncached access is out when one has left that was not alone, and none when
\* the request that left was alone.
LEMMA DepartsQuiet ==
  ASSUME AllInv, NEW i \in 1 .. Len(cq), Departs(i)
  PROVE  ~UcWait'
<1>1. /\ Len(cq) \in Nat \ {0} /\ Len(cq') = Len(cq) - 1 /\ Len(cq') \in Nat
      /\ \A k \in 1 .. Len(cq') :
           /\ k < i => cq'[k] = cq[k] /\ k \in 1 .. Len(cq)
           /\ k >= i => cq'[k] = cq[k + 1] /\ k + 1 \in 1 .. Len(cq)
  BY DepartsAre
<1>2. ASSUME UcWait' PROVE FALSE
  <2>1. Len(cq') = 1 /\ cq'[1].pc = "wait" /\ UcOp(cq'[1].t)
    BY <1>2 DEF UcWait, Waits, UcOp
  <2>2. Len(cq) = 2 /\ 1 \in 1 .. Len(cq')
    <3>1. \A n \in Nat : 1 = n - 1 => n = 2
      OBVIOUS
    <3>2. Len(cq) \in Nat /\ 1 = Len(cq) - 1 /\ Len(cq') = 1
      BY <1>1, <2>1
    <3> QED
      BY <3>1, <3>2
  <2>3. PICK j \in 1 .. Len(cq) : cq'[1] = cq[j]
    <3>1. 1 < i \/ 1 >= i
      OBVIOUS
    <3>2. CASE 1 < i
      <4>1. cq'[1] = cq[1] /\ 1 \in 1 .. Len(cq)
        BY <1>1, <2>2, <3>2
      <4> QED
        BY <4>1
    <3>3. CASE 1 >= i
      <4>1. cq'[1] = cq[1 + 1] /\ 1 + 1 \in 1 .. Len(cq)
        BY <1>1, <2>2, <3>3
      <4> QED
        BY <4>1
    <3> QED
      BY <3>1, <3>2, <3>3
  <2>4. Waits(j) /\ Fence(cq[j].t)
    BY <2>1, <2>3, UcIsFence DEF Waits
  <2> QED
    BY <2>2, <2>4 DEF AllInv, CoreInv, OrderInv, UcWait
<1> QED
  BY <1>2

LEMMA DepartsFollows ==
  ASSUME AllInv, LrscFollows, NEW i \in 1 .. Len(cq), Departs(i), kind' = kind
  PROVE  LrscFollows'
<1> DEFINE t == cq[i].t
           none == \A k \in 1 .. Len(cq) : ~KillsWord(cq[k].t, rsrv.addr)
           none1 == \A k \in 1 .. Len(cq') : ~KillsWord(cq'[k].t, rsrv'.addr)
           nolr == \A k \in 1 .. Len(cq) : cq[k].t.op # "LR"
           nolr1 == \A k \in 1 .. Len(cq') : cq'[k].t.op # "LR"
<1>1. /\ Len(cq) \in Nat \ {0} /\ Len(cq') = Len(cq) - 1 /\ Len(cq') \in Nat
      /\ \A k \in 1 .. Len(cq') :
           /\ k < i => cq'[k] = cq[k] /\ k \in 1 .. Len(cq)
           /\ k >= i => cq'[k] = cq[k + 1] /\ k + 1 \in 1 .. Len(cq)
  BY DepartsAre
<1>2. \A k \in 1 .. Len(cq') : \E j \in 1 .. Len(cq) : cq'[k] = cq[j]
  BY <1>1
<1>3. \A j \in 1 .. Len(cq) : j # i => \E k \in 1 .. Len(cq') : cq'[k] = cq[j]
  <2>1. ASSUME NEW j \in 1 .. Len(cq), j # i PROVE \E k \in 1 .. Len(cq') : cq'[k] = cq[j]
    <3>1. CASE j < i
      <4>1. j \in 1 .. Len(cq')
        BY <1>1, <3>1
      <4> QED
        BY <1>1, <3>1, <4>1
    <3>2. CASE j > i
      <4>1. j - 1 \in 1 .. Len(cq') /\ j - 1 >= i /\ (j - 1) + 1 = j
        BY <1>1, <3>2
      <4> QED
        BY <1>1, <4>1
    <3> QED
      BY <1>1, <2>1, <3>1, <3>2
  <2> QED
    BY <2>1
<1>4. /\ DOMAIN lrsc = {"valid", "addr"} /\ lrsc.valid \in BOOLEAN /\ lrsc' = lrsc
      /\ \A k \in 1 .. Len(cq) : cq[k].t.op = "LR" =>
           lrsc.valid = ~Wrong(kind, cq[k].t.addr) /\ (lrsc.valid => lrsc.addr = cq[k].t.addr)
      /\ nolr => lrsc.valid = (rsrv.valid /\ none) /\ (lrsc.valid => lrsc.addr = rsrv.addr)
  BY DEF LrscFollows, Kills, Departs, Serves
<1>5. \A k \in 1 .. Len(cq') : cq'[k].t.op = "LR" =>
        lrsc'.valid = ~Wrong(kind', cq'[k].t.addr) /\ (lrsc'.valid => lrsc'.addr = cq'[k].t.addr)
  BY <1>2, <1>4
<1>6. ASSUME nolr1
      PROVE  lrsc'.valid = (rsrv'.valid /\ none1) /\ (lrsc'.valid => lrsc'.addr = rsrv'.addr)
  <2>1. CASE t.op = "LR"
    <3>1. Fence(t)
      BY <2>1 DEF Fence, Atomic
    <3>2. Len(cq) = 1
      BY <3>1 DEF Departs
    <3>3. none1
      BY <1>1, <3>2
    <3>4. rsrv'.valid = ~Wrong(kind, t.addr) /\ rsrv'.addr = t.addr
      BY <2>1 DEF Departs
    <3> HIDE DEF none1
    <3> QED
      BY <1>4, <2>1, <3>3, <3>4
  <2>2. CASE t.op # "LR"
    <3>1. nolr
      BY <1>3, <1>6, <2>2
    <3>2. rsrv'.addr = rsrv.addr /\ rsrv'.valid = (rsrv.valid /\ ~KillsWord(t, rsrv.addr))
      BY <2>2 DEF Departs, Kills
    <3>3. none <=> none1 /\ ~KillsWord(t, rsrv.addr)
      BY <1>2, <1>3, <3>2
    <3> HIDE DEF none, none1, nolr, t
    <3> QED
      BY <1>4, <3>1, <3>2, <3>3
  <2> QED
    BY <2>1, <2>2
<1>7. ~UcWait'
  BY DepartsQuiet
<1> HIDE DEF t, nolr, none
<1> QED
  BY <1>4, <1>5, <1>6, <1>7 DEF LrscFollows, Kills
LEMMA DepartsLrsc ==
  ASSUME AllInv, NEW i \in 1 .. Len(cq), Departs(i), kind' = kind
  PROVE  LrscKept
<1>1. LrscFollows => LrscFollows'
  BY DepartsFollows
<1>2. ASSUME Unreserved PROVE Unreserved'
  <2>1. \A k \in 1 .. Len(cq') : \E j \in 1 .. Len(cq) : cq'[k] = cq[j]
    BY DepartsAre
  <2>2. cq[i].t.op # "LR" /\ ~rsrv.valid
    BY <1>2 DEF Unreserved
  <2>3. ~rsrv'.valid /\ lrsc' = lrsc
    BY <2>2 DEF Departs, Serves
  <2> QED
    BY <1>2, <2>1, <2>3 DEF Unreserved
<1> QED
  BY <1>1, <1>2 DEF LrscKept

\* The requests stay what they are, and so does the reservation.
SameRequests == Len(cq') = Len(cq) /\ kind' = kind /\ \A k \in 1 .. Len(cq) : cq'[k].t = cq[k].t
LEMMA SameFollows ==
  ASSUME LrscFollows, SameRequests, UNCHANGED <<rsrv, lrsc>>, UcWait' => UcWait
  PROVE  LrscFollows'
<1>1. /\ DOMAIN lrsc' = {"valid", "addr"} /\ lrsc'.valid \in BOOLEAN
      /\ \A i \in 1 .. Len(cq') : cq'[i].t.op = "LR" =>
           lrsc'.valid = ~Wrong(kind', cq'[i].t.addr) /\ (lrsc'.valid => lrsc'.addr = cq'[i].t.addr)
  BY DEF LrscFollows, SameRequests
<1>2. (\A i \in 1 .. Len(cq') : cq'[i].t.op # "LR") =>
        /\ lrsc'.valid = (rsrv'.valid /\ \A i \in 1 .. Len(cq') : ~KillsWord(cq'[i].t, rsrv'.addr))
        /\ lrsc'.valid => lrsc'.addr = rsrv'.addr
  BY DEF LrscFollows, SameRequests, Kills
<1>3. UcWait' /\ KillsWord(cq'[1].t, rsrv'.addr) => ~rsrv'.valid
  <2>1. UcWait => 1 \in 1 .. Len(cq)
    BY DEF UcWait
  <2> QED
    BY <2>1 DEF LrscFollows, SameRequests, Kills
<1> QED
  BY <1>1, <1>2, <1>3 DEF LrscFollows, Kills
LEMMA SameLrsc ==
  ASSUME SameRequests, UNCHANGED <<rsrv, lrsc>>, UcWait' => UcWait
  PROVE  LrscKept
<1>1. LrscFollows => LrscFollows'
  BY SameFollows
<1>2. Unreserved => Unreserved'
  BY DEF Unreserved, SameRequests
<1> QED
  BY <1>1, <1>2 DEF LrscKept

\* So does the table, if a store-conditional stays what it was.
LEMMA SameTable ==
  ASSUME TableOk, SameRequests, UNCHANGED inflight,
         \A k \in 1 .. Len(cq) : cq[k].t.op = "SC" =>
           (cq'[k].pc = "wait"
              \/ (/\ rsrv'.valid /\ rsrv'.addr = cq[k].t.addr
                  /\ \A j \in 1 .. k - 1 : ~KillsWord(cq[j].t, rsrv'.addr))) = (Waits(k) \/ Reserves(k))
  PROVE  TableOk'
<1>1. ASSUME NEW k \in 1 .. Len(cq'), cq'[k].t.need_rsp
      PROVE  /\ cq'[k].t.tid \in DOMAIN inflight'
             /\ Remembers(inflight'[cq'[k].t.tid], kind', cq'[k].t,
                          cq'[k].pc = "wait"
                            \/ (/\ rsrv'.valid /\ rsrv'.addr = cq'[k].t.addr
                                /\ \A j \in 1 .. k - 1 : ~KillsWord(cq'[j].t, rsrv'.addr)))
  <2> DEFINE r == cq'[k].pc = "wait" \/ (/\ rsrv'.valid /\ rsrv'.addr = cq'[k].t.addr
                                        /\ \A j \in 1 .. k - 1 : ~KillsWord(cq'[j].t, rsrv'.addr))
  <2>1. k \in 1 .. Len(cq) /\ cq'[k].t = cq[k].t /\ kind' = kind
    BY DEF SameRequests
  <2>2. Known(k) /\ cq[k].t.tid \in DOMAIN inflight
    BY <1>1, <2>1 DEF TableOk, Known
  <2>3. \A j \in 1 .. k - 1 : cq'[j].t = cq[j].t
    <3>1. \A j \in 1 .. k - 1 : j \in 1 .. Len(cq)
      <4>1. ASSUME NEW j \in 1 .. k - 1 PROVE j \in 1 .. Len(cq)
        <5>1. k \in Int /\ k <= Len(cq) /\ j \in Int /\ 1 <= j /\ j <= k - 1
          BY <2>1
        <5> QED
          BY <5>1
      <4> QED
        BY <4>1
    <3> QED
      BY <3>1 DEF SameRequests
  <2>4. cq[k].t.op = "SC" => r = (Waits(k) \/ Reserves(k))
    BY <2>1, <2>3
  <2> HIDE DEF r
  <2>5. Remembers(inflight'[cq[k].t.tid], kind', cq[k].t, r)
    BY <2>1, <2>2, <2>4, StillKnown
  <2> QED
    BY <2>1, <2>2, <2>5 DEF r
<1>2. \A i, j \in 1 .. Len(cq') :
        i # j /\ cq'[i].t.need_rsp /\ cq'[j].t.need_rsp => cq'[i].t.tid # cq'[j].t.tid
  BY DEF TableOk, SameRequests
<1> QED
  BY <1>1, <1>2, TableNext

\* An uncached access goes out: the reservation that it ends is over at once.
UncachedShape(i) ==
  LET t == cq[i].t
  IN  /\ i = 1 /\ Len(cq) = 1 /\ UcOp(t) /\ ~is_cmo(t.op) /\ t.addr \in Words
      /\ Goes(1) /\ cq'[1].pc = "wait" /\ ~Waits(1) /\ UcWait'
      /\ t.op = "SC" => rsrv.valid /\ rsrv.addr = t.addr
      /\ rsrv'.addr = rsrv.addr
      /\ rsrv'.valid = (rsrv.valid /\ (t.op \in {"LOAD", "LR"} \/ rsrv.addr # t.addr))
LEMMA UncachedIs ==
  ASSUME AllInv, NEW i \in 1 .. Len(cq), Uncached(i)
  PROVE  UncachedShape(i)
<1> DEFINE t == cq[i].t  b == rsrv.valid /\ (t.op = "LOAD" \/ t.op = "LR" \/ ~Reserved(t))
<1>1. ActsShape(i)
  BY ActsAre DEF AllInv, Acts
<1>2. /\ Executable(i) /\ Goes(i) /\ cq'[i].pc = "wait" /\ Fence(t) /\ UcOp(t)
  BY <1>1 DEF ActsShape
<1>3. i = 1 /\ Len(cq) = 1 /\ ~Waits(i) /\ Legal(kind, t)
  BY <1>2, ExecutableFacts DEF AllInv
<1>4. /\ t.uncacheable \/ Atomic(t.op)
      /\ t.op = "SC" => Reserved(t)
      /\ rsrv' = [rsrv EXCEPT !.valid = b]
  BY DEF Uncached
<1>5. ~is_cmo(t.op) /\ t.addr \in Words
  BY <1>3, <1>4 DEF Legal, is_cmo, CmoOps, Atomic, is_amo, AmoOps
<1>6. rsrv'.addr = rsrv.addr /\ rsrv'.valid = b
  <2> HIDE DEF b
  <2> QED
    BY <1>4 DEF AllInv, CoreInv, ReserveInv
<1>7. b = (rsrv.valid /\ (t.op \in {"LOAD", "LR"} \/ rsrv.addr # t.addr))
  BY DEF Reserved
<1>8. UcWait'
  BY <1>2, <1>3 DEF Goes, UcWait, Waits, UcOp
<1> HIDE DEF b
<1> QED
  BY <1>2, <1>3, <1>4, <1>5, <1>6, <1>7, <1>8 DEF UncachedShape, Reserved

\* The table and the reservation, when an uncached access goes out.
LEMMA UncachedTable ==
  ASSUME AllInv, NEW i \in 1 .. Len(cq), Uncached(i), kind' = kind, UNCHANGED <<inflight, lrsc>>
  PROVE  TableOk' /\ LrscKept /\ SameRequests
<1> DEFINE t == cq[1].t
<1>1. /\ i = 1 /\ Len(cq) = 1 /\ UcOp(t) /\ ~is_cmo(t.op)
      /\ Goes(1) /\ cq'[1].pc = "wait" /\ ~Waits(1) /\ UcWait'
      /\ t.op = "SC" => rsrv.valid /\ rsrv.addr = t.addr
      /\ rsrv'.addr = rsrv.addr
      /\ rsrv'.valid = (rsrv.valid /\ (t.op \in {"LOAD", "LR"} \/ rsrv.addr # t.addr))
  BY UncachedIs DEF UncachedShape
<1>2. /\ Len(cq') = 1 /\ cq'[1].t = t /\ \A k \in 1 .. Len(cq) : k = 1
      /\ \A k \in 1 .. Len(cq') : k = 1
  BY <1>1 DEF Goes
<1>3. SameRequests
  BY <1>1, <1>2 DEF SameRequests
<1>4. ASSUME NEW k \in 1 .. Len(cq), cq[k].t.op = "SC"
      PROVE  (cq'[k].pc = "wait"
                \/ (/\ rsrv'.valid /\ rsrv'.addr = cq[k].t.addr
                    /\ \A j \in 1 .. k - 1 : ~KillsWord(cq[j].t, rsrv'.addr))) = (Waits(k) \/ Reserves(k))
  <2>1. k = 1
    BY <1>2
  <2>2. Reserves(1)
    BY <1>1, <1>4, <2>1 DEF Reserves
  <2> QED
    BY <1>1, <2>1, <2>2
<1>5. TableOk'
  BY <1>3, <1>4, SameTable DEF AllInv, BoardInv
<1>6. KillsWord(t, rsrv.addr) => ~rsrv'.valid
  <2>1. CASE t.op = "SC"
    BY <1>1, <2>1
  <2>2. CASE t.op # "SC"
    <3>1. KillsWord(t, rsrv.addr) => t.addr = rsrv.addr /\ t.op \notin {"LOAD", "LR"}
      BY <2>2 DEF KillsWord, is_amo, AmoOps, is_store
    <3> QED
      BY <1>1, <3>1
  <2> QED
    BY <2>1, <2>2
<1>7. ~KillsWord(t, rsrv.addr) => (rsrv'.valid <=> rsrv.valid)
  <2>1. ~KillsWord(t, rsrv.addr) => t.op \in {"LOAD", "LR"} \/ rsrv.addr # t.addr
    <3>1. t.op \in {"LOAD", "LR", "STORE", "SC"} \/ is_amo(t.op)
      <4>1. IsEntry(kind, cq[1])
        BY <1>1 DEF AllInv, CoreInv, LegalInv
      <4> QED
        BY <1>1, <4>1 DEF IsEntry, Legal, ReqOps, UcOp, Atomic, is_amo, AmoOps, is_cmo, CmoOps
    <3> QED
      BY <3>1 DEF KillsWord, is_store
  <2> QED
    BY <1>1, <2>1
<1>8. rsrv.valid \in BOOLEAN /\ rsrv'.valid \in BOOLEAN
  BY <1>1 DEF AllInv, RightInv, RightCache, RightReserved
<1>9. ASSUME LrscFollows PROVE LrscFollows'
  <2>1. /\ DOMAIN lrsc = {"valid", "addr"} /\ lrsc.valid \in BOOLEAN
        /\ t.op = "LR" => lrsc.valid = ~Wrong(kind, t.addr) /\ (lrsc.valid => lrsc.addr = t.addr)
        /\ t.op # "LR" => /\ lrsc.valid = (rsrv.valid /\ ~KillsWord(t, rsrv.addr))
                          /\ lrsc.valid => lrsc.addr = rsrv.addr
    <3>1. 1 \in 1 .. Len(cq)
      BY <1>1
    <3> QED
      BY <1>2, <1>9, <3>1 DEF LrscFollows, Kills
  <2>2. t.op # "LR" => /\ lrsc.valid = (rsrv'.valid /\ ~KillsWord(t, rsrv'.addr))
                       /\ lrsc.valid => lrsc.addr = rsrv'.addr
    BY <1>1, <1>6, <1>7, <1>8, <2>1
  <2> HIDE DEF t
  <2>3. \A k \in 1 .. Len(cq') : cq'[k].t = t
    BY <1>2
  <2>4. 1 \in 1 .. Len(cq')
    BY <1>2
  <2>5. /\ \A k \in 1 .. Len(cq') : cq'[k].t.op = "LR" =>
             lrsc'.valid = ~Wrong(kind', cq'[k].t.addr) /\ (lrsc'.valid => lrsc'.addr = cq'[k].t.addr)
        /\ (\A k \in 1 .. Len(cq') : cq'[k].t.op # "LR") =>
             /\ lrsc'.valid = (rsrv'.valid /\ \A k \in 1 .. Len(cq') : ~KillsWord(cq'[k].t, rsrv'.addr))
             /\ lrsc'.valid => lrsc'.addr = rsrv'.addr
    BY <2>1, <2>2, <2>3, <2>4
  <2>6. KillsWord(cq'[1].t, rsrv'.addr) => ~rsrv'.valid
    BY <1>1, <1>2, <1>6
  <2> QED
    BY <2>1, <2>5, <2>6 DEF LrscFollows, Kills
<1>10. Unreserved => Unreserved'
  <2>1. ~rsrv.valid => ~rsrv'.valid
    BY <1>1
  <2>2. (\A k \in 1 .. Len(cq) : cq[k].t.op # "LR") => \A k \in 1 .. Len(cq') : cq'[k].t.op # "LR"
    BY <1>3 DEF SameRequests
  <2> QED
    BY <2>1, <2>2 DEF Unreserved
<1> QED
  BY <1>3, <1>5, <1>9, <1>10 DEF LrscKept

\* The reservation of the scoreboard after a request.
LEMMA TakesLrsc ==
  ASSUME AllInv, Trusted, Takes(Entry(errorsegs, drv.t))
  PROVE  LrscKept
<1> DEFINE t == drv.t  e == Entry(errorsegs, t)  n == Len(cq) + 1
           none == \A k \in 1 .. Len(cq) : ~KillsWord(cq[k].t, rsrv.addr)
           none1 == \A k \in 1 .. Len(cq') : ~KillsWord(cq'[k].t, rsrv'.addr)
<1>1. /\ Remembers(e, kind, t, rsrv.valid /\ rsrv.addr = t.addr /\ none)
  BY EntryIs
<1> HIDE DEF e
<1>2. /\ Len(cq) \in Nat /\ Len(cq') = n /\ cq'[n].t = t /\ cq'[n].pc = "new"
      /\ \A k \in 1 .. Len(cq) : cq'[k] = cq[k] /\ ~Fence(cq[k].t)
      /\ rsrv' = rsrv /\ kind' = kind /\ Legal(kind, t)
      /\ lrsc' = IF is_cmo(t.op) /\ ~t.need_rsp THEN lrsc ELSE LrscAfter(t, e)
  BY DEF Takes, e
<1>3. \A k \in 1 .. Len(cq') : k \in 1 .. Len(cq) \/ k = n
  BY <1>2
<1>4. n \in 1 .. Len(cq') /\ \A k \in 1 .. Len(cq) : k \in 1 .. Len(cq')
  BY <1>2
<1>5. \A k \in 1 .. Len(cq) : cq'[k].t.op # "LR"
  BY <1>2 DEF Fence, Atomic
<1>6. LrscFollows => lrsc.valid = (rsrv.valid /\ none) /\ (lrsc.valid => lrsc.addr = rsrv.addr)
  BY <1>2, NoLr
<1>7. DOMAIN lrsc = {"valid", "addr"} /\ lrsc.valid \in BOOLEAN
  BY DEF AllInv, BoardInv, LrscInv, LrscFollows, Unreserved
<1>8. none1 <=> none /\ ~KillsWord(t, rsrv.addr)
  BY <1>2, <1>3, <1>4
<1>9. ~UcWait'
  BY <1>2 DEF UcWait, Waits
<1>10. CASE t.op = "LR"
  <2>1. e.is_error = Wrong(kind, t.addr) /\ ~is_cmo(t.op) /\ Wrong(kind, t.addr) \in BOOLEAN
    BY <1>1, <1>10 DEF Remembers, is_cmo, CmoOps, Wrong, within_error_region
  <2>2. lrsc' = IF e.is_error THEN [lrsc EXCEPT !.valid = FALSE] ELSE [valid |-> TRUE, addr |-> t.addr]
    <3>1. lrsc' = LrscAfter(t, e)
      BY <1>2, <2>1
    <3>2. ~is_amo("LR") /\ ~is_store("LR")
      BY DEF is_amo, AmoOps, is_store
    <3>3. CASE e.is_error
      BY ONLY <1>10, <3>1, <3>2, <3>3 DEF LrscAfter
    <3>4. CASE ~e.is_error
      BY ONLY <1>10, <3>1, <3>2, <3>4 DEF LrscAfter
    <3> QED
      BY <3>3, <3>4
  <2>3. /\ DOMAIN lrsc' = {"valid", "addr"} /\ lrsc'.valid = ~Wrong(kind, t.addr)
        /\ lrsc'.valid => lrsc'.addr = t.addr
    BY <1>7, <2>1, <2>2
  <2>4. \A k \in 1 .. Len(cq') : cq'[k].t.op = "LR" =>
          lrsc'.valid = ~Wrong(kind', cq'[k].t.addr) /\ (lrsc'.valid => lrsc'.addr = cq'[k].t.addr)
    BY <1>2, <1>3, <1>5, <2>3
  <2>5. ~\A k \in 1 .. Len(cq') : cq'[k].t.op # "LR"
    BY <1>2, <1>4, <1>10
  <2> QED
    BY <1>9, <2>1, <2>3, <2>4, <2>5 DEF LrscFollows, LrscKept
<1>11. ASSUME t.op # "LR", LrscFollows PROVE LrscFollows'
  <2>1. \A k \in 1 .. Len(cq') : cq'[k].t.op # "LR"
    BY <1>2, <1>3, <1>5, <1>11
  <2>2. /\ DOMAIN lrsc' = {"valid", "addr"} /\ lrsc'.valid \in BOOLEAN
        /\ lrsc'.valid = (lrsc.valid /\ ~KillsWord(t, rsrv.addr)) /\ lrsc'.addr = lrsc.addr
    <3>1. CASE t.op = "SC"
      <4>1. lrsc' = [lrsc EXCEPT !.valid = FALSE]
        <5>1. lrsc' = LrscAfter(t, e)
          BY <1>2, <3>1 DEF is_cmo, CmoOps
        <5> QED
          BY ONLY <3>1, <5>1 DEF LrscAfter, is_amo, AmoOps, is_store
      <4> QED
        BY <1>7, <3>1, <4>1 DEF KillsWord
    <3>2. CASE is_amo(t.op) \/ is_store(t.op)
      <4> DEFINE b == lrsc.valid /\ ~LrscMatch(t.addr)
      <4>1. t.op # "SC" /\ ~is_cmo(t.op)
        BY <3>2 DEF is_amo, AmoOps, is_store, is_cmo, CmoOps
      <4>2. lrsc' = [lrsc EXCEPT !.valid = b]
        BY <1>2, <1>11, <3>2, <4>1 DEF LrscAfter
      <4>3. b = (lrsc.valid /\ ~KillsWord(t, rsrv.addr))
        BY <1>6, <1>7, <1>11, <3>2, <4>1 DEF LrscMatch, KillsWord
      <4>4. b \in BOOLEAN
        OBVIOUS
      <4> HIDE DEF b
      <4> QED
        BY <1>7, <4>2, <4>3, <4>4
    <3>3. CASE t.op # "SC" /\ ~(is_amo(t.op) \/ is_store(t.op))
      <4>1. lrsc' = lrsc
        BY <1>2, <1>11, <3>3 DEF LrscAfter
      <4>2. ~KillsWord(t, rsrv.addr)
        BY <3>3 DEF KillsWord
      <4> QED
        BY <1>7, <4>1, <4>2
    <3> QED
      BY <3>1, <3>2, <3>3
  <2>3. lrsc'.valid = (rsrv'.valid /\ none1) /\ (lrsc'.valid => lrsc'.addr = rsrv'.addr)
    <3> HIDE DEF none, none1
    <3> QED
      BY <1>2, <1>6, <1>8, <1>11, <2>2
  <2> QED
    BY <1>9, <2>1, <2>2, <2>3 DEF LrscFollows, Kills
<1>12. ASSUME t.op # "LR", Unreserved PROVE Unreserved'
  <2>1. DOMAIN lrsc' = {"valid", "addr"} /\ lrsc'.valid \in BOOLEAN
    <3> DEFINE b == lrsc.valid /\ ~LrscMatch(t.addr)
    <3>1. b \in BOOLEAN
      OBVIOUS
    <3>2. lrsc' = lrsc \/ lrsc' = [lrsc EXCEPT !.valid = FALSE] \/ lrsc' = [lrsc EXCEPT !.valid = b]
      BY <1>2, <1>12 DEF LrscAfter
    <3> HIDE DEF b
    <3> QED
      BY <1>7, <3>1, <3>2
  <2>2. \A k \in 1 .. Len(cq') : cq'[k].t.op # "LR"
    BY <1>2, <1>3, <1>5, <1>12
  <2> QED
    BY <1>2, <1>12, <2>1, <2>2 DEF Unreserved
<1> QED
  BY <1>10, <1>11, <1>12 DEF LrscKept

----------------------------------------------------------------------------
(* The queue of atomics                                                    *)

\* The last request of the cache, when it is due.
LEMMA DueFacts ==
  ASSUME AllInv, cq # <<>>, NEW e, DueOp(cq[Len(cq)].t, e)
  PROVE  /\ Len(cq) \in 1 .. Len(cq) /\ Fence(cq[Len(cq)].t) /\ UcOp(cq[Len(cq)].t)
         /\ cq[Len(cq)].t.need_rsp /\ Known(Len(cq)) /\ (Waits(Len(cq)) => UcWait)
         /\ ~is_cmo(cq[Len(cq)].t.op)
<1>1. Len(cq) \in 1 .. Len(cq)
  BY DEF AllInv, CoreInv, LegalInv, IsSeq
<1>2. Atomic(cq[Len(cq)].t.op) /\ ~is_cmo(cq[Len(cq)].t.op)
  BY DEF DueOp, Atomic, is_amo, AmoOps, is_cmo, CmoOps
<1>3. Fence(cq[Len(cq)].t) /\ UcOp(cq[Len(cq)].t)
  BY <1>2 DEF Fence, UcOp
<1>4. IsEntry(kind, cq[Len(cq)])
  BY <1>1 DEF AllInv, CoreInv, LegalInv
<1>5. cq[Len(cq)].t.need_rsp
  BY <1>2, <1>4 DEF IsEntry, Legal
<1>6. Known(Len(cq))
  BY <1>1, <1>5 DEF AllInv, BoardInv, TableOk
<1>7. Waits(Len(cq)) => UcWait
  BY <1>1, <1>3 DEF AllInv, CoreInv, OrderInv
<1> QED
  BY <1>1, <1>2, <1>3, <1>5, <1>6, <1>7

\* The queue stays as it is.
LEMMA KeepFifo ==
  ASSUME AmoFifoInv, amoFifo' = amoFifo, LastDue' <=> LastDue,
         LastDue => inflight'[cq'[Len(cq')].t.tid] = inflight[cq[Len(cq)].t.tid]
  PROVE  AmoFifoInv'
BY DEF AmoFifoInv

\* The cache takes a request, which may be one for the memory to see.
LEMMA TakesFifo ==
  ASSUME AllInv, CoreInv', Takes(Entry(errorsegs, drv.t))
  PROVE  AmoFifoInv'
<1> DEFINE t == drv.t  e == Entry(errorsegs, t)  n == Len(cq) + 1
<1> HIDE DEF e
<1>1. /\ Len(cq) \in Nat /\ Len(cq') = n /\ cq'[n].t = t /\ cq'[n].pc = "new" /\ Legal(kind, t)
      /\ t.need_rsp => inflight'[t.tid] = e
      /\ amoFifo' = IF Forwarded(t, e) THEN <<e>> ELSE <<>>
  BY DEF Takes, e
<1>2. cq' # <<>>
  BY <1>1, ShortSeq
<1>3. Forwarded(t, e) <=> DueOp(t, e)
  BY DEF Forwarded, DueOp
<1>4. Atomic(t.op) => t.need_rsp
  BY <1>1 DEF Legal
<1>5. LastDue' <=> DueOp(t, e)
  <2>1. LastDue' <=> DueOp(t, inflight'[t.tid])
    BY <1>1, <1>2 DEF LastDue, Due
  <2>2. CASE Atomic(t.op)
    BY <1>1, <1>4, <2>1, <2>2
  <2>3. CASE ~Atomic(t.op)
    BY <2>1, <2>3 DEF DueOp, Atomic
  <2> QED
    BY <2>2, <2>3
<1>6. DueOp(t, e) => inflight'[t.tid] = e
  BY <1>1, <1>4 DEF DueOp, Atomic
<1> QED
  BY <1>1, <1>3, <1>5, <1>6 DEF AmoFifoInv

\* A request leaves that the memory has seen, or need not see.
LEMMA DepartsFifo ==
  ASSUME AllInv, CoreInv', NEW i \in 1 .. Len(cq), Departs(i), Fence(cq[i].t) => ~Due(cq[i])
  PROVE  AmoFifoInv'
<1> DEFINE n == Len(cq)  last == cq[n]
<1>1. /\ n \in Nat \ {0} /\ Len(cq') = n - 1 /\ Len(cq') \in Nat
      /\ \A k \in 1 .. Len(cq') :
           /\ k < i => cq'[k] = cq[k] /\ k \in 1 .. n
           /\ k >= i => cq'[k] = cq[k + 1] /\ k + 1 \in 1 .. n
      /\ \A j \in 1 .. n : cq[j].t.need_rsp /\ j # i =>
           /\ Known(j) /\ cq[j].t.tid \in DOMAIN inflight'
           /\ inflight'[cq[j].t.tid] = inflight[cq[j].t.tid]
  BY DepartsAre
<1>2. amoFifo' = amoFifo
  BY DEF Departs, Serves
<1>3. cq # <<>> /\ (cq' = <<>> <=> Len(cq') = 0)
  BY <1>1, ShortSeq DEF CoreInv, LegalInv, IsSeq
<1>4. CASE Fence(cq[i].t)
  <2>1. n = 1 /\ i = n
    <3>1. Len(cq) = 1
      BY <1>4 DEF Departs
    <3>2. i = 1
      BY <3>1
    <3> QED
      BY <3>1, <3>2
  <2>2. Len(cq') = 0
    <3>1. 1 - 1 = 0
      OBVIOUS
    <3> QED
      BY <1>1, <2>1, <3>1
  <2>3. ~LastDue /\ ~LastDue'
    BY <1>3, <1>4, <2>1, <2>2 DEF LastDue
  <2> QED
    BY <1>2, <2>3, KeepFifo DEF AllInv, BoardInv
<1>5. CASE ~Fence(cq[i].t)
  <2>1. n \in 1 .. n /\ i \in Nat /\ i <= n
    BY <1>1
  <2>2. ASSUME i # n
        PROVE  cq' # <<>> /\ cq'[Len(cq')] = last
    <3>1. n - 1 \in 1 .. Len(cq') /\ n - 1 >= i /\ (n - 1) + 1 = n
      BY <1>1, <2>1, <2>2
    <3>2. cq'[n - 1] = cq[n]
      BY <1>1, <3>1
    <3> QED
      BY <1>1, <1>3, <3>1, <3>2
  <2>3. ASSUME cq' # <<>>, Fence(cq'[Len(cq')].t) PROVE i # n
    <3>1. ASSUME i = n PROVE FALSE
      <4>1. n - 1 \in 1 .. Len(cq') /\ n - 1 < i
        BY <1>1, <1>3, <2>1, <2>3, <3>1
      <4>2. cq'[n - 1] = cq[n - 1] /\ n - 1 \in 1 .. n
        BY <1>1, <4>1
      <4>3. Fence(cq[n - 1].t)
        BY <1>1, <2>3, <4>2
      <4> QED
        BY <1>1, <4>2, <4>3 DEF AllInv, CoreInv, OrderInv
    <3> QED
      BY <3>1
  <2>4. ASSUME i # n, NEW e, DueOp(last.t, e)
        PROVE  last.pc # "wait" /\ inflight'[last.t.tid] = inflight[last.t.tid]
    <3>1. last.t.need_rsp /\ (Waits(n) => UcWait)
      BY <1>3, <2>4, DueFacts
    <3>2. ~UcWait
      BY <2>1, <2>4 DEF UcWait
    <3> QED
      BY <1>1, <2>1, <2>4, <3>1, <3>2 DEF Waits
  <2>5. LastDue => i # n
    <3>1. LastDue => DueOp(last.t, inflight[last.t.tid])
      BY DEF LastDue, Due
    <3>2. LastDue => Fence(last.t)
      BY <1>3, <3>1, DueFacts
    <3> QED
      BY <1>5, <3>2
  <2>6. ASSUME LastDue
        PROVE  LastDue' /\ inflight'[cq'[Len(cq')].t.tid] = inflight[cq[Len(cq)].t.tid]
    <3>1. DueOp(last.t, inflight[last.t.tid])
      BY <2>6 DEF LastDue, Due
    <3>2. last.pc # "wait" /\ inflight'[last.t.tid] = inflight[last.t.tid]
      BY <2>4, <2>5, <2>6, <3>1
    <3>3. cq' # <<>> /\ cq'[Len(cq')] = last
      BY <2>2, <2>5, <2>6
    <3> QED
      BY <3>1, <3>2, <3>3 DEF LastDue, Due
  <2>7. ASSUME LastDue' PROVE LastDue
    <3>1. cq' # <<>> /\ DueOp(cq'[Len(cq')].t, inflight'[cq'[Len(cq')].t.tid])
      BY <2>7 DEF LastDue, Due
    <3>2. Fence(cq'[Len(cq')].t)
      BY <3>1 DEF DueOp, Fence, Atomic
    <3>3. i # n
      BY <2>3, <3>1, <3>2
    <3>4. cq'[Len(cq')] = last
      BY <2>2, <3>3
    <3>5. DueOp(last.t, inflight'[last.t.tid])
      BY <3>1, <3>4
    <3>6. last.pc # "wait" /\ inflight'[last.t.tid] = inflight[last.t.tid]
      BY <2>4, <3>3, <3>5
    <3> QED
      BY <1>3, <3>5, <3>6 DEF LastDue, Due
  <2> HIDE DEF n, last
  <2> QED
    BY <1>2, <2>6, <2>7, KeepFifo DEF AllInv, BoardInv
<1> QED
  BY <1>4, <1>5

\* The uncached access has not reached the memory.
UcAway == UcAsked \/ UcSent

\* The requests stay what they are, and so does what is due.
LEMMA SameFifo ==
  ASSUME AllInv, CoreInv', SameRequests, UNCHANGED <<inflight, amoFifo>>,
         cq # <<>> /\ DueOp(cq[Len(cq)].t, inflight[cq[Len(cq)].t.tid]) =>
           ((cq'[Len(cq)].pc = "wait" => UcAway') <=> (cq[Len(cq)].pc = "wait" => UcAway))
  PROVE  AmoFifoInv'
<1> DEFINE n == Len(cq)
<1>1. IsSeq(cq) /\ IsSeq(cq') /\ n \in Nat /\ Len(cq') = n
  BY DEF AllInv, CoreInv, LegalInv, SameRequests, IsSeq
<1>2. (cq = <<>> <=> n = 0) /\ (cq' = <<>> <=> n = 0)
  BY <1>1 DEF IsSeq
<1>3. cq # <<>> => n \in 1 .. n
  BY <1>1, <1>2
<1>4. cq # <<>> => cq'[n].t = cq[n].t
  BY <1>3 DEF SameRequests
<1>5. LastDue <=> /\ cq # <<>> /\ DueOp(cq[n].t, inflight[cq[n].t.tid])
                  /\ cq[n].pc = "wait" => UcAway
  BY DEF LastDue, Due, UcAway
<1>6. LastDue' <=> /\ cq' # <<>> /\ DueOp(cq'[n].t, inflight'[cq'[n].t.tid])
                   /\ cq'[n].pc = "wait" => UcAway'
  BY <1>1 DEF LastDue, Due, UcAway
<1> HIDE DEF n
<1>7. LastDue' <=> LastDue
  BY <1>2, <1>4, <1>5, <1>6 DEF n
<1>8. LastDue => inflight'[cq'[Len(cq')].t.tid] = inflight[cq[Len(cq)].t.tid]
  BY <1>1, <1>4, <1>5 DEF n
<1> QED
  BY <1>7, <1>8, KeepFifo DEF AllInv, BoardInv

\* The cache does nothing, and the uncached access that is out stays where it is.
LEMMA StillFifo ==
  ASSUME AllInv, CoreInv', UNCHANGED <<cq, kind, inflight, amoFifo>>, UcWait => (UcAway' <=> UcAway)
  PROVE  AmoFifoInv'
<1>1. SameRequests
  BY DEF SameRequests
<1>2. ASSUME cq # <<>>, DueOp(cq[Len(cq)].t, inflight[cq[Len(cq)].t.tid])
      PROVE  (cq'[Len(cq)].pc = "wait" => UcAway') <=> (cq[Len(cq)].pc = "wait" => UcAway)
  <2>1. Waits(Len(cq)) => UcWait
    BY <1>2, DueFacts
  <2> QED
    BY <2>1 DEF Waits
<1> QED
  BY <1>1, <1>2, SameFifo

\* A request goes on that is none of those.
LEMMA GoesFifo ==
  ASSUME AllInv, CoreInv', NEW i \in 1 .. Len(cq), Goes(i), ~Fence(cq[i].t),
         UNCHANGED <<kind, inflight, amoFifo>>
  PROVE  AmoFifoInv'
<1>1. SameRequests
  BY DEF SameRequests, Goes
<1>2. ASSUME cq # <<>>, DueOp(cq[Len(cq)].t, inflight[cq[Len(cq)].t.tid])
      PROVE  (cq'[Len(cq)].pc = "wait" => UcAway') <=> (cq[Len(cq)].pc = "wait" => UcAway)
  <2>1. Len(cq) \in 1 .. Len(cq) /\ Fence(cq[Len(cq)].t) /\ (Waits(Len(cq)) => UcWait)
    BY <1>2, DueFacts
  <2>2. i # Len(cq)
    BY <2>1
  <2>3. cq'[Len(cq)] = cq[Len(cq)]
    BY <2>1, <2>2 DEF Goes
  <2>4. ~UcWait
    BY <2>1, <2>2 DEF UcWait
  <2> QED
    BY <2>1, <2>3, <2>4 DEF Waits
<1> QED
  BY <1>1, <1>2, SameFifo

\* The first response to an atomic is kept.
LEMMA LaterFifo ==
  ASSUME AllInv, CoreInv', NEW old, NEW err, LaterShape(old, err), UcWait,
         UNCHANGED <<kind, inflight, amoFifo>>, UcAway' <=> UcAway
  PROVE  AmoFifoInv'
<1>1. Len(cq) = 1 /\ cq[1].pc = "wait" /\ cq'[1].pc = "wait"
  BY DEF UcWait, Waits, LaterShape
<1>2. SameRequests
  BY DEF SameRequests, Goes, LaterShape
<1>3. (cq'[Len(cq)].pc = "wait" => UcAway') <=> (cq[Len(cq)].pc = "wait" => UcAway)
  BY <1>1
<1> QED
  BY <1>2, <1>3, SameFifo

\* The cache sends a write.
LEMMA SentFlit ==
  ASSUME PathInv, NEW x, wrAddr' = Append(wrAddr, x), UNCHANGED <<wp, writeReqFifo, wa>>
  PROVE  IsSeq(AddrQ) /\ AddrQ' = Append(AddrQ, x)
<1> DEFINE p == Cat(RunFlits, writeReqFifo)  sh == Shown
<1>1. IsSeq(RunFlits) /\ IsSeq(writeReqFifo) /\ IsSeq(Shown)
  BY QueueApart
<1>2. IsSeq(wrAddr) /\ (wa.pc = "last" => wrAddr # <<>>)
  <2>1. FlitSeq(wrAddr)
    BY DEF PathInv, PathType
  <2> QED
    BY <2>1, SeqIsSeq DEF FlitSeq, PathInv, PathType
<1>3. Shown' = Append(sh, x) /\ RunFlits' = RunFlits
  BY <1>2, SeqAppend DEF Shown, RunFlits
<1>4. IsSeq(p) /\ IsSeq(sh)
  BY <1>1, SeqCat
<1> HIDE DEF p, sh
<1>5. AddrQ' = Cat(p, Append(sh, x))
  BY <1>3 DEF AddrQ, p
<1>6. \A y : Cat(p, Append(sh, y)) = Append(Cat(p, sh), y)
  BY <1>4, CatAppend
<1>7. IsSeq(Cat(p, sh))
  BY <1>4, SeqCat
<1> QED
  BY <1>5, <1>6, <1>7 DEF AddrQ, p, sh

\* An uncached access goes out.
LEMMA UncachedAway ==
  ASSUME AllInv, NEW i \in 1 .. Len(cq), Uncached(i), UNCHANGED memVars
  PROVE  UcAway'
<1> DEFINE t == cq[i].t
<1>1. CASE t.op \in {"LOAD", "LR"}
  <2> DEFINE x == [id |-> UcId, addr |-> t.addr, size |-> 1, len |-> 0,
                   command |-> IF t.op = "LR" THEN "LDEX" ELSE "READ"]
             n == Len(rdReq) + 1
  <2>1. rdReq' = Append(rdReq, x) /\ x.id = UcId /\ rd' = rd
    BY <1>1 DEF Uncached, SendRead, memVars, rdVars
  <2>2. IsSeq(rdReq) /\ (rd.pc = "ready" => rdReq # <<>>)
    BY DEF AllInv, ReadInv, QueueType
  <2> HIDE DEF x
  <2>3. Len(rdReq) \in Nat /\ Len(rdReq') = n /\ rdReq'[n] = x
    BY <2>1, <2>2, SeqAppend
  <2>4. ~(n = 1 /\ rd.pc = "ready")
    <3>1. rd.pc = "ready" => Len(rdReq) # 0
      BY <2>2, SeqTail
    <3> QED
      BY <2>3, <3>1
  <2>5. n \in 1 .. Len(rdReq')
    BY <2>3
  <2> HIDE DEF n
  <2> QED
    BY <2>1, <2>3, <2>4, <2>5 DEF UcAway, UcAsked
<1>2. CASE t.op \notin {"LOAD", "LR"}
  <2>1. \E size, command, data : SendWrite(UcId, t.addr, size, command, data)
    <3>1. CASE t.op \in {"STORE", "SC"}
      <4>1. SendWrite(UcId, t.addr, 1, IF t.op = "SC" THEN "STEX" ELSE "WRITE", StoreData(t))
        BY <1>2, <3>1 DEF Uncached
      <4> QED
        BY <4>1
    <3>2. CASE t.op \notin {"STORE", "SC"}
      <4>1. SendWrite(UcId, t.addr, 1, mem_atomic(t.op), OneWord(t.addr, mem_operand(t.op, t.data)))
        BY <1>2, <3>2 DEF Uncached
      <4> QED
        BY <4>1
    <3> QED
      BY <3>1, <3>2
  <2>2. PICK size, command, data : SendWrite(UcId, t.addr, size, command, data)
    BY <2>1
  <2> DEFINE x == [id |-> UcId, addr |-> t.addr, size |-> size, command |-> command]
  <2>3. wrAddr' = Append(wrAddr, x) /\ x.id = UcId /\ UNCHANGED <<wp, writeReqFifo, wa>>
    BY <2>2 DEF SendWrite, memVars, wpVars, waVars
  <2> HIDE DEF x
  <2>4. IsSeq(AddrQ) /\ AddrQ' = Append(AddrQ, x)
    BY <2>3, SentFlit DEF AllInv
  <2>5. Len(AddrQ) + 1 \in 1 .. Len(AddrQ') /\ AddrQ'[Len(AddrQ) + 1] = x
    BY <2>4, SeqAppend
  <2> QED
    BY <2>3, <2>5 DEF UcAway, UcSent
<1> QED
  BY <1>1, <1>2

LEMMA UncachedFifo ==
  ASSUME AllInv, CoreInv', NEW i \in 1 .. Len(cq), Uncached(i), UNCHANGED memVars,
         UNCHANGED <<kind, inflight, amoFifo>>
  PROVE  AmoFifoInv'
<1>1. Len(cq) = 1 /\ Goes(1) /\ cq'[1].pc = "wait" /\ ~Waits(1)
  BY UncachedIs DEF UncachedShape
<1>2. SameRequests
  BY <1>1 DEF SameRequests, Goes
<1>3. UcAway'
  BY UncachedAway
<1>4. (cq'[Len(cq)].pc = "wait" => UcAway') <=> (cq[Len(cq)].pc = "wait" => UcAway)
  BY <1>1, <1>3 DEF Waits
<1> QED
  BY <1>2, <1>4, SameFifo

----------------------------------------------------------------------------
(* Where the uncached access is                                            *)

\* The thread of writes takes the data of its request.
LEMMA TakeFlit ==
  ASSUME PathInv, PairInv, WriteData, UNCHANGED cacheVars
  PROVE  /\ wp.pc = "data" /\ wp'.pc = "run" /\ wp'.req.id = wp.req.id
         /\ Len(AddrQ') \in Nat /\ Len(AddrQ) = 1 + Len(AddrQ') /\ AddrQ[1] = wp.req
         /\ \A k \in 1 .. Len(AddrQ') : AddrQ[k + 1] = AddrQ'[k]
<1> DEFINE r == wp.req  o == <<r>>  n == <<>>  sh == Shown  f == writeReqFifo  c == Cat(f, sh)
           d == Head(writeDataFifo).data
<1>1. /\ wp.pc = "data" /\ wp' = [wp EXCEPT !.pc = "run", !.req = Put(wp.req, "data", d)]
      /\ UNCHANGED <<writeReqFifo, wa, wrAddr>>
  BY DEF WriteData, waVars, cacheVars, chVars
<1>2. IsSeq(f) /\ IsSeq(sh) /\ IsSeq(n) /\ IsSeq(o) /\ o[1] = r /\ Len(o) = 1
  BY ShownSeq, ShortSeq
<1> HIDE DEF d
<1>3. wp'.pc = "run" /\ wp'.req = Put(r, "data", d)
  BY <1>1 DEF PathInv, PathType
<1>4. "id" \in DOMAIN r
  BY <1>1 DEF PathInv, PathType
<1>5. wp'.req.id = r.id
  BY <1>3, <1>4 DEF Put
<1>6. AddrQ = Cat(Cat(o, f), sh)
  BY <1>1 DEF AddrQ, RunFlits
<1>7. AddrQ' = Cat(Cat(n, f), sh)
  BY <1>1, <1>3 DEF AddrQ, RunFlits, Shown
<1> HIDE DEF n, o, sh, f
<1>8. Cat(n, f) = f /\ IsSeq(c) /\ Cat(Cat(o, f), sh) = Cat(o, c)
  BY <1>2, CatEmpty, SeqCat, CatAssoc DEF n
<1>9. AddrQ = Cat(o, c) /\ AddrQ' = c
  BY <1>6, <1>7, <1>8
<1> HIDE DEF c, r
<1>10. /\ Len(Cat(o, c)) = Len(o) + Len(c) /\ Len(c) \in Nat
       /\ \A k \in 1 .. Len(o) + Len(c) : Cat(o, c)[k] = IF k <= Len(o) THEN o[k] ELSE c[k - Len(o)]
  BY <1>2, <1>8, SeqCat
<1>11. Len(Cat(o, c)) = 1 + Len(c) /\ Cat(o, c)[1] = r
  BY <1>2, <1>10
<1>12. ASSUME NEW k \in 1 .. Len(c) PROVE Cat(o, c)[k + 1] = c[k]
  <2>1. k + 1 \in 1 .. 1 + Len(c) /\ ~(k + 1 <= 1) /\ (k + 1) - 1 = k
    BY <1>10
  <2> QED
    BY <1>2, <1>10, <2>1
<1> QED
  BY <1>1, <1>3, <1>5, <1>9, <1>10, <1>11, <1>12 DEF r

\* Its write has neither gone nor come.
UcRuns == wp.pc = "run" /\ wp.req.id = UcId
LEMMA FlitsSame ==
  ASSUME UNCHANGED <<rdReq, rd>>, AddrQ' = AddrQ, UcRuns' <=> UcRuns
  PROVE  UcAway' <=> UcAway
BY DEF UcAway, UcAsked, UcSent, UcRuns

\* The steps of the memory model that the scoreboard does not see.
LEMMA TakeAway ==
  ASSUME FifoHolds, AllInv, MemReadTake \/ MemReadPush \/ MemAddrReady \/ MemAddrEdge \/ MemDataReady
                            \/ MemDataEdge \/ MemWriteTake
  PROVE  UcAway' <=> UcAway
<1>1. CASE MemReadTake
  <2> DEFINE s == rdReq  n == Len(rdReq)
  <2>1. /\ rd.pc = "ready" /\ rd' = [rd EXCEPT !.pc = "push"] /\ rdReq' = Tail(rdReq)
        /\ UNCHANGED <<wp, writeReqFifo, wa, wrAddr>>
    BY <1>1 DEF MemReadTake, ReadTake, wpVars, waVars
  <2>2. IsSeq(s) /\ s # <<>> /\ rd'.pc # "ready"
    BY <2>1 DEF AllInv, ReadInv, QueueType
  <2>3. /\ n \in Nat \ {0} /\ Len(rdReq') = n - 1 /\ \A i \in 1 .. n - 1 : rdReq'[i] = s[i + 1]
    BY <2>1, <2>2, SeqTail
  <2> HIDE DEF s
  <2>4. ASSUME UcAsked PROVE UcAsked'
    <3>1. PICK k \in 1 .. n : s[k].id = UcId /\ k # 1
      BY <2>1, <2>4 DEF UcAsked, s
    <3>2. k - 1 \in 1 .. n - 1 /\ (k - 1) + 1 = k
      BY <2>3, <3>1
    <3>3. rdReq'[k - 1].id = UcId
      BY <2>3, <3>1, <3>2
    <3> HIDE DEF n
    <3> QED
      BY <2>2, <2>3, <3>2, <3>3 DEF UcAsked
  <2>5. ASSUME UcAsked' PROVE UcAsked
    <3>1. PICK k \in 1 .. n - 1 : rdReq'[k].id = UcId
      BY <2>3, <2>5 DEF UcAsked
    <3>2. k + 1 \in 1 .. n /\ k + 1 # 1
      BY <2>3
    <3>3. s[k + 1].id = UcId
      BY <2>3, <3>1
    <3> HIDE DEF n
    <3> QED
      BY <3>2, <3>3 DEF UcAsked, n, s
  <2>6. UcSent' <=> UcSent
    BY <2>1 DEF UcSent, AddrQ, RunFlits, Shown
  <2> QED
    BY <2>4, <2>5, <2>6 DEF UcAway
<1>2. CASE MemReadPush
  <2>1. /\ rd.pc = "push" /\ (rd'.pc = "idle" \/ rd'.pc = "push") /\ rdReq' = rdReq
        /\ UNCHANGED <<wp, writeReqFifo, wa, wrAddr>>
    BY <1>2 DEF MemReadPush, ReadPush, wpVars, waVars, cacheVars, chVars, AllInv, ReadInv, QueueType
  <2>2. UcSent' <=> UcSent
    BY <2>1 DEF UcSent, AddrQ, RunFlits, Shown
  <2>3. UcAsked' <=> UcAsked
    BY <2>1 DEF UcAsked
  <2> QED
    BY <2>2, <2>3 DEF UcAway
<1>3. CASE MemAddrReady \/ MemAddrEdge \/ MemDataReady \/ MemDataEdge
  <2>1. AddrQ' = AddrQ
    BY <1>3, AddrPair, DataPair DEF AllInv, PairSame
  <2>2. UNCHANGED <<rdReq, rd, wp>>
    BY <1>3 DEF MemAddrReady, AddrReady, MemAddrEdge, AddrEdge, MemDataReady, DataReady, MemDataEdge, DataEdge,
                rdVars, cacheVars, chVars
  <2> QED
    BY <2>1, <2>2, FlitsSame DEF UcRuns
<1>4. CASE MemWriteTake
  <2>1. UNCHANGED <<rdReq, rd>> /\ UNCHANGED cacheVars
    BY <1>4 DEF MemWriteTake, WriteMeta, WriteData, WritePushRead, WritePush, rdVars, cacheVars, chVars
  <2>2. CASE WriteMeta
    <3>1. AddrQ' = AddrQ
      BY <2>1, <2>2, MetaPair DEF AllInv, PairSame
    <3>2. wp.pc = "meta" /\ wp'.pc = "data"
      BY <2>2 DEF WriteMeta, AllInv, PathInv, PathType
    <3> QED
      BY <2>1, <3>1, <3>2, FlitsSame DEF UcRuns
  <2>3. CASE WriteData
    <3> DEFINE n == Len(AddrQ')
    <3>1. /\ wp.pc = "data" /\ wp'.pc = "run" /\ wp'.req.id = wp.req.id
          /\ n \in Nat /\ Len(AddrQ) = 1 + n /\ AddrQ[1] = wp.req
          /\ \A k \in 1 .. n : AddrQ[k + 1] = AddrQ'[k]
      BY <2>1, <2>3, TakeFlit DEF AllInv
    <3>2. ASSUME UcSent PROVE UcSent'
      <4>1. PICK k \in 1 .. 1 + n : AddrQ[k].id = UcId
        BY <3>1, <3>2 DEF UcSent
      <4>2. CASE k = 1
        BY <3>1, <4>1, <4>2 DEF UcSent
      <4>3. CASE k # 1
        <5>1. k - 1 \in 1 .. n /\ (k - 1) + 1 = k
          BY <3>1, <4>3
        <5>2. AddrQ'[k - 1].id = UcId
          BY <3>1, <4>1, <5>1
        <5> QED
          BY <5>1, <5>2 DEF UcSent
      <4> QED
        BY <4>2, <4>3
    <3>3. ASSUME UcSent' PROVE UcSent
      <4>1. CASE wp'.req.id = UcId
        <5>1. 1 \in 1 .. Len(AddrQ)
          BY <3>1
        <5> QED
          BY <3>1, <4>1, <5>1 DEF UcSent
      <4>2. CASE \E k \in 1 .. n : AddrQ'[k].id = UcId
        <5>1. PICK k \in 1 .. n : AddrQ'[k].id = UcId
          BY <4>2
        <5>2. k + 1 \in 1 .. Len(AddrQ)
          BY <3>1
        <5> QED
          BY <3>1, <5>1, <5>2 DEF UcSent
      <4> QED
        BY <3>3, <4>1, <4>2 DEF UcSent
    <3> HIDE DEF n
    <3>4. UcAsked' <=> UcAsked
      BY <2>1 DEF UcAsked
    <3> QED
      BY <3>2, <3>3, <3>4 DEF UcAway
  <2>4. CASE WritePushRead \/ WritePush
    <3>1. AddrQ' = AddrQ
      BY <2>1, <2>4, RunPair DEF AllInv, PairSame
    <3>2. wp.pc # "run" /\ wp'.pc # "run"
      <4>1. DOMAIN wp = {"pc", "req", "rresp", "resp"}
        BY DEF AllInv, PathInv, PathType
      <4>2. CASE WritePushRead
        BY <4>1, <4>2 DEF WritePushRead
      <4>3. CASE WritePush
        BY <4>3 DEF WritePush
      <4> QED
        BY <2>4, <4>2, <4>3
    <3> QED
      BY <2>1, <3>1, <3>2, FlitsSame DEF UcRuns
  <2> QED
    BY <1>4, <2>2, <2>3, <2>4 DEF MemWriteTake
<1> QED
  BY <1>1, <1>2, <1>3, <1>4

\* A flush is not an uncached access.
LEMMA FlushAway ==
  ASSUME AllInv, NEW w \in Words, FlushLine(w), UNCHANGED memVars
  PROVE  UcAway' <=> UcAway
<1>1. PICK size, data : SendWrite(NextId(WriteIds, wrBusy), w, size, "WRITE", data)
  BY DEF FlushLine
<1> DEFINE id == NextId(WriteIds, wrBusy)
           x == [id |-> id, addr |-> w, size |-> size, command |-> "WRITE"]
<1>2. id \in WriteIds /\ id # UcId
  <2>1. id \in WriteIds
    BY DEF FlushLine, FreeId, NextId
  <2> QED
    BY <2>1, TestBenchAssumption
<1> HIDE DEF id
<1>3. wrAddr' = Append(wrAddr, x) /\ x.id = id /\ UNCHANGED <<wp, writeReqFifo, wa>>
  BY <1>1 DEF SendWrite, memVars, wpVars, waVars, id
<1> HIDE DEF x
<1>4. IsSeq(AddrQ) /\ AddrQ' = Append(AddrQ, x)
  BY <1>3, SentFlit DEF AllInv
<1>5. /\ Len(AddrQ) \in Nat /\ Len(AddrQ') = Len(AddrQ) + 1 /\ AddrQ'[Len(AddrQ) + 1] = x
      /\ \A k \in 1 .. Len(AddrQ) : AddrQ'[k] = AddrQ[k]
  BY <1>4, SeqAppend
<1>6. /\ \A k \in 1 .. Len(AddrQ) : k \in 1 .. Len(AddrQ')
      /\ \A k \in 1 .. Len(AddrQ') : k \in 1 .. Len(AddrQ) \/ k = Len(AddrQ) + 1
  BY <1>5
<1>7. UcSent' <=> UcSent
  BY <1>2, <1>3, <1>5, <1>6 DEF UcSent
<1>8. UNCHANGED <<rdReq, rd>>
  BY DEF FlushLine, memVars, rdVars
<1> QED
  BY <1>7, <1>8 DEF UcAway, UcAsked

----------------------------------------------------------------------------
(* What the scoreboard does with the memory                                *)

\* A response in the fifo is on its way.
LEMMA InStream ==
  ASSUME QueueType
  PROVE  \A k \in 1 .. Len(readRespFifo) : \E j \in 1 .. Len(Stream) : Stream[j] = readRespFifo[k]
<1> DEFINE p == RdShown  q == readRespFifo
<1>1. IsSeq(p) /\ IsSeq(q)
  BY StreamSeq
<1> HIDE DEF p, q
<1>2. /\ Len(p) \in Nat /\ Len(q) \in Nat /\ Len(Cat(p, q)) = Len(p) + Len(q)
      /\ \A i \in 1 .. Len(p) + Len(q) : Cat(p, q)[i] = IF i <= Len(p) THEN p[i] ELSE q[i - Len(p)]
  BY <1>1, SeqCat
<1>3. ASSUME NEW k \in 1 .. Len(q) PROVE \E j \in 1 .. Len(Cat(p, q)) : Cat(p, q)[j] = q[k]
  <2>1. k + Len(p) \in 1 .. Len(p) + Len(q) /\ ~(k + Len(p) <= Len(p)) /\ (k + Len(p)) - Len(p) = k
    BY <1>2
  <2> QED
    BY <1>2, <2>1
<1> QED
  BY <1>3 DEF Stream, p, q

\* A read that the memory model has not seen is not in the table.
LEMMA SeenFresh ==
  ASSUME ReadInv, ReadsSeen, rd.pc = "idle", NEW k \in 1 .. Len(rdReq)
  PROVE  rdReq[k].id \notin DOMAIN memRead
<1> DEFINE id == rdReq[k].id
<1>1. Once(rdReq, Stream, Pushed, Owed, DOMAIN rdBusy)
  BY DEF ReadInv
<1>2. id \notin Owed /\ \A j \in 1 .. Len(Stream) : Stream[j].id # id
  BY <1>1 DEF Once
<1>3. \A j \in 1 .. Len(readRespFifo) : readRespFifo[j].id # id
  BY <1>2, InStream DEF ReadInv
<1>4. wp.pc = "read_resp" => id # UcId
  BY <1>2 DEF Owed, AmoPend
<1> QED
  BY <1>3, <1>4 DEF ReadsSeen

\* A condition that does not hold is not reported.
LEMMA NoReport ==
  ASSUME NEW c, \A m \in DOMAIN c : ~c[m]
  PROVE  Report(c) = {}
BY DEF Report

\* An atomic that is due leaves the queue without a complaint.
LEMMA PopDue ==
  ASSUME AmoFifoInv, LastDue
  PROVE  /\ amoFifo = <<inflight[cq[Len(cq)].t.tid]>> /\ AmoPop = <<>> /\ Report(AmoErrors) = {}
         /\ amoFifo # <<>> /\ amoFifo[1] = inflight[cq[Len(cq)].t.tid]
<1> DEFINE e == inflight[cq[Len(cq)].t.tid]
<1>1. amoFifo = <<e>>
  BY DEF AmoFifoInv
<1> HIDE DEF e
<1>2. Len(<<e>>) = 1 /\ <<e>> # <<>> /\ Tail(<<e>>) = <<>> /\ <<e>>[1] = e
  OBVIOUS
<1>3. Len(amoFifo) = 1 /\ amoFifo # <<>> /\ Tail(amoFifo) = <<>> /\ amoFifo[1] = e
  BY <1>1, <1>2
<1>4. AmoPop = <<>>
  BY <1>3 DEF AmoPop
<1>5. Report(AmoErrors) = {}
  <2> DEFINE s == Len(amoFifo) > 1  u == amoFifo = <<>>
  <2>1. ~s /\ ~u
    BY <1>3
  <2> HIDE DEF s, u
  <2> DEFINE c == [several_amo |-> s, unexpected_amo |-> u]
  <2>2. \A m \in DOMAIN c : ~c[m]
    BY <2>1
  <2> HIDE DEF c
  <2>3. Report(c) = {}
    BY <2>2, NoReport
  <2> QED
    BY <2>3 DEF AmoErrors, c, s, u
<1> QED
  BY <1>1, <1>3, <1>4, <1>5 DEF e

\* No uncached write is out.
LEMMA NotSent ==
  ASSUME PathInv, UcId \notin DOMAIN wrBusy
  PROVE  ~UcSent
BY WritesOut DEF WritesAreOut, UcSent

\* The scoreboard sees a read request.
LEMMA SeeStep ==
  ASSUME AllInv, CoreInv', MemReadSee, kind' = kind
  PROVE  AmoFifoInv' /\ ReadsSeen' /\ errors' = errors
<1> DEFINE x == Head(rdReq)
<1>1. /\ rd.pc = "idle" /\ rdReq # <<>> /\ rd' = [pc |-> "ready", req |-> x, beat |-> 0]
      /\ UNCHANGED cacheVars /\ UNCHANGED <<wp, writeReqFifo, wa, readRespFifo>>
      /\ mem_read_req_process(x)
  BY DEF MemReadSee, ReadSee, wpVars, waVars, respVars
<1>2. 1 \in 1 .. Len(rdReq) /\ x = rdReq[1]
  <2>1. IsSeq(rdReq)
    BY DEF AllInv, ReadInv, QueueType
  <2> QED
    BY <1>1, <2>1, SeqTail
<1>3. x.id \notin DOMAIN memRead
  BY <1>1, <1>2, SeenFresh DEF AllInv, BoardInv
<1>4. /\ memRead' = Put(memRead, x.id, [addr |-> x.addr])
      /\ amoFifo' = IF x.command = "LDEX" THEN AmoPop ELSE amoFifo
      /\ errors' = errors \cup Report([mem_read_id |-> x.id \in DOMAIN memRead])
                          \cup IF x.command = "LDEX" THEN Report(AmoErrors) ELSE {}
      /\ UNCHANGED inflight
  BY <1>1, <1>3 DEF mem_read_req_process
<1>5. Report([mem_read_id |-> x.id \in DOMAIN memRead]) = {}
  <2> DEFINE b == x.id \in DOMAIN memRead
  <2>1. ~b
    BY <1>3
  <2> HIDE DEF b
  <2>2. \A m \in DOMAIN [mem_read_id |-> b] : ~[mem_read_id |-> b][m]
    BY <2>1
  <2>3. Report([mem_read_id |-> b]) = {}
    BY <2>2, NoReport
  <2> QED
    BY <2>3 DEF b
<1>6. ReadsSeen'
  <2> DEFINE d == [addr |-> x.addr]
  <2> HIDE DEF d
  <2>1. DOMAIN memRead' = DOMAIN memRead \cup {x.id}
    BY <1>4, PutDomain DEF d
  <2>2. DOMAIN memRead = (IF wp.pc = "read_resp" THEN {UcId} ELSE {})
                           \cup {readRespFifo[k].id : k \in 1 .. Len(readRespFifo)}
    BY <1>1 DEF AllInv, BoardInv, ReadsSeen
  <2>3. rd'.pc # "idle" /\ rd'.req.id = x.id
    BY <1>1
  <2>4. wp' = wp /\ readRespFifo' = readRespFifo
    BY <1>1
  <2> HIDE DEF x
  <2> QED
    BY <2>1, <2>2, <2>3, <2>4 DEF ReadsSeen
<1>7. /\ x.command = IF x.id = UcId /\ cq[1].t.op = "LR" THEN "LDEX" ELSE "READ"
      /\ x.id = UcId => ~is_amo(cq[1].t.op)
  BY <1>2 DEF AllInv, RightInv, RightReads, Asked, AskedFor
<1>8. SameRequests /\ UNCHANGED <<cq, rdReq, wrBusy>>
  BY <1>1 DEF SameRequests, cacheVars, chVars
<1> HIDE DEF x
<1>9. UcSent' <=> UcSent
  BY <1>1 DEF UcSent, AddrQ, RunFlits, Shown, cacheVars, chVars
<1>10. CASE x.id # UcId
  <2>1. UcAsked' <=> UcAsked
    BY <1>1, <1>2, <1>8, <1>10 DEF UcAsked
  <2>2. amoFifo' = amoFifo /\ errors' = errors
    BY <1>4, <1>5, <1>7, <1>10
  <2> QED
    BY <1>4, <1>6, <1>8, <1>9, <2>1, <2>2, StillFifo DEF UcAway
<1>11. CASE x.id = UcId
  <2>1. UcId \in DOMAIN rdBusy
    BY <1>2, <1>11, ReadsOut DEF ReadsAreOut, AllInv
  <2>2. UcWait /\ cq[1].t.op \in {"LOAD", "LR"}
    BY <1>7, <1>11, <2>1 DEF AllInv, CoreInv, BusyInv, is_amo
  <2>3. Len(cq) = 1 /\ cq[1].pc = "wait" /\ cq # <<>>
    <3>1. Len(cq) = 1 /\ cq[1].pc = "wait"
      BY <2>2 DEF UcWait, Waits
    <3>2. Len(<<>>) = 0
      BY ShortSeq
    <3> QED
      BY <3>1, <3>2
  <2>4. CASE cq[1].t.op = "LR"
    <3>1. UcAsked
      BY <1>1, <1>2, <1>11 DEF UcAsked
    <3>2. LastDue
      BY <2>3, <2>4, <3>1 DEF LastDue, Due, DueOp
    <3>3. amoFifo' = <<>> /\ errors' = errors
      BY <1>4, <1>5, <1>7, <1>11, <2>4, <3>2, PopDue DEF AllInv, BoardInv
    <3>4. ~UcAsked'
      <4>1. \A k \in 1 .. Len(rdReq) : rdReq[k].id = UcId => k = 1
        BY <1>2, <1>11 DEF AllInv, ReadInv, Once
      <4> QED
        BY <1>1, <1>8, <4>1 DEF UcAsked
    <3>5. UcId \notin DOMAIN wrBusy
      BY <2>4 DEF AllInv, CoreInv, BusyInv, AmoOps
    <3>6. ~UcSent'
      BY <1>9, <3>5, NotSent DEF AllInv
    <3>7. ~LastDue'
      BY <1>8, <2>3, <3>4, <3>6 DEF LastDue, Due
    <3> QED
      BY <1>6, <3>3, <3>7 DEF AmoFifoInv
  <2>5. CASE cq[1].t.op = "LOAD"
    <3>1. amoFifo' = amoFifo /\ errors' = errors
      BY <1>4, <1>5, <1>7, <1>11, <2>5
    <3>2. \A e : ~DueOp(cq[Len(cq)].t, e)
      BY <2>3, <2>5 DEF DueOp, is_amo, AmoOps
    <3> QED
      BY <1>4, <1>6, <1>8, <3>1, <3>2, SameFifo
  <2> QED
    BY <2>2, <2>4, <2>5
<1> QED
  BY <1>10, <1>11

\* The command of an atomic is one.
LEMMA AmoCommand ==
  ASSUME NEW op \in AmoOps
  PROVE  mem_is_amo(mem_atomic(op)) /\ mem_atomic(op) # "STEX" /\ op # "SC" /\ op # "STORE"
BY DEF mem_is_amo, mem_atomic, AmoOps

\* An uncached write is performed: it is of the request that waits.
LEMMA RunsFor ==
  ASSUME AllInv, wp.pc = "run", wp.req.id = UcId
  PROVE  /\ UcWait /\ Len(cq) = 1 /\ cq # <<>> /\ cq[1].pc = "wait" /\ IsEntry(kind, cq[1])
         /\ cq[1].t.op \in {"STORE", "SC"} \cup AmoOps
         /\ wp.req.addr = cq[1].t.addr /\ wp.req.command = UcCommand(cq[1].t.op)
<1>1. UcId \in DOMAIN wrBusy
  BY WritesOut DEF WritesAreOut, AllInv
<1>2. UcWait /\ cq[1].t.op \in {"STORE", "SC"} \cup AmoOps
  BY <1>1 DEF AllInv, CoreInv, BusyInv
<1>3. Len(cq) = 1 /\ cq[1].pc = "wait"
  BY <1>2 DEF UcWait, Waits
<1>4. cq # <<>>
  <2>1. Len(<<>>) # Len(cq)
    <3>1. Len(<<>>) = 0
      BY ShortSeq
    <3>2. 0 # 1
      OBVIOUS
    <3> QED
      BY <1>3, <3>1, <3>2, Zenon
  <2> QED
    BY <2>1, Zenon
<1>5. IsEntry(kind, cq[1])
  BY <1>3 DEF AllInv, CoreInv, LegalInv
<1>6. wp.req.addr = cq[1].t.addr /\ wp.req.command = UcCommand(cq[1].t.op)
  BY DEF AllInv, RightInv, RightWrites, Sent, SentFor
<1> QED
  BY <1>2, <1>3, <1>4, <1>5, <1>6

\* It is what the scoreboard waits for, unless it is a store.
LEMMA RunIsDue ==
  ASSUME AllInv, wp.pc = "run", wp.req.id = UcId, cq[1].t.op \in {"SC"} \cup AmoOps
  PROVE  /\ LastDue /\ HasCoreReq(wp.req.addr)
         /\ cq[1].t.op = "SC" => inflight[cq[Len(cq)].t.tid].is_atomic
         /\ ~UcAsked /\ \A k \in 1 .. Len(AddrQ) : AddrQ[k].id # UcId
<1> DEFINE t == cq[1].t
<1>1. /\ UcWait /\ Len(cq) = 1 /\ cq # <<>> /\ cq[1].pc = "wait" /\ IsEntry(kind, cq[1])
      /\ wp.req.addr = t.addr
  BY RunsFor
<1>2. 1 \in 1 .. Len(cq)
  BY <1>1
<1>3. t.need_rsp
  BY <1>1 DEF IsEntry, Legal, Atomic, is_amo
<1>4. Known(1)
  BY <1>2, <1>3 DEF AllInv, BoardInv, TableOk
<1>5. t.tid \in DOMAIN inflight /\ inflight[t.tid].addr = t.addr
  BY <1>4 DEF Known, Remembers
<1>6. t.op = "SC" => inflight[t.tid].is_atomic
  <2>1. t.op = "SC" => inflight[t.tid].is_atomic = (Waits(1) \/ Reserves(1))
    BY <1>4 DEF Known, Remembers
  <2> QED
    BY <1>1, <2>1 DEF Waits
<1>7. UcSent
  BY DEF UcSent
<1>8. LastDue
  BY <1>1, <1>6, <1>7 DEF LastDue, Due, DueOp, is_amo
<1>9. HasCoreReq(wp.req.addr)
  BY <1>1, <1>5 DEF HasCoreReq
<1>10. ~UcAsked
  <2>1. t.op = "SC" => UcId \notin DOMAIN rdBusy
    BY ApartOps DEF AllInv, CoreInv, BusyInv
  <2>2. \A k \in 1 .. Len(rdReq) : rdReq[k].id \in DOMAIN rdBusy
    BY ReadsOut DEF ReadsAreOut, AllInv
  <2>3. \A k \in 1 .. Len(rdReq) : rdReq[k].id = UcId => ~is_amo(t.op)
    BY DEF AllInv, RightInv, RightReads, Asked, AskedFor
  <2> QED
    BY <2>1, <2>2, <2>3 DEF UcAsked, is_amo
<1>11. \A k \in 1 .. Len(AddrQ) : AddrQ[k].id # UcId
  BY QueueApart DEF AllInv
<1> QED
  BY <1>1, <1>6, <1>8, <1>9, <1>10, <1>11

\* A write is performed, and the scoreboard sees its request.
LEMMA RunIs ==
  ASSUME AllInv, MemWriteRun
  PROVE  /\ wp.pc = "run" /\ AddrQ' = AddrQ /\ wp'.req = wp.req
         /\ wp'.pc = IF mem_is_amo(wp.req.command) THEN "read_resp" ELSE "resp"
         /\ UNCHANGED cacheVars /\ UNCHANGED <<rd, readRespFifo, rdOut, inflight>>
         /\ wp.req.id \notin DOMAIN memWrite
<1>1. /\ WriteRun(errorsegs) /\ mem_write_req_process(wp.req) /\ UNCHANGED cacheVars
      /\ wp.pc = "run" /\ UNCHANGED <<rd, readRespFifo, rdOut, inflight>>
  BY DEF MemWriteRun, WriteRun, respVars, mem_write_req_process
<1>2. AddrQ' = AddrQ
  BY <1>1, RunPair DEF PairSame, AllInv
<1>3. DOMAIN wp = {"pc", "req", "rresp", "resp"}
  BY DEF AllInv, PathInv, PathType
<1>4. wp'.req = wp.req /\ wp'.pc = IF mem_is_amo(wp.req.command) THEN "read_resp" ELSE "resp"
  BY <1>1, <1>3 DEF WriteRun
<1>5. wp.req.id \notin DOMAIN memWrite
  <2>1. wp.req.id \in Elements(RunIds)
    BY <1>1, OneElement DEF RunIds
  <2>2. Elements(FlitIds(writeRespFifo)) \cap Elements(RunIds) = {}
    BY PlacesApart DEF AllInv
  <2>3. DOMAIN memWrite = Elements(FlitIds(writeRespFifo))
    BY <1>1 DEF AllInv, TableInv, Performed
  <2> QED
    BY <2>1, <2>2, <2>3
<1> QED
  BY <1>1, <1>2, <1>4, <1>5

\* What the scoreboard does with it.
LEMMA RunTables ==
  ASSUME AllInv, MemWriteRun, NEW amo \in BOOLEAN, NEW stex \in BOOLEAN,
         amo = mem_is_amo(wp.req.command), stex = (wp.req.command = "STEX"),
         amo \/ stex => LastDue /\ HasCoreReq(wp.req.addr),
         stex => inflight[cq[Len(cq)].t.tid].is_atomic
  PROVE  /\ amoFifo' = IF amo \/ stex THEN <<>> ELSE amoFifo
         /\ errors' = errors
         /\ DOMAIN memRead' = IF amo THEN DOMAIN memRead \cup {wp.req.id} ELSE DOMAIN memRead
<1> DEFINE b1 == amo /\ amoFifo # <<>> /\ ~HasCoreReq(wp.req.addr)
           b2 == stex /\ amoFifo # <<>> /\ ~amoFifo[1].is_atomic
           b3 == stex /\ amoFifo # <<>> /\ amoFifo[1].is_atomic /\ ~HasCoreReq(wp.req.addr)
           d  == [addr |-> wp.req.addr]
           c  == [mem_write_id |-> wp.req.id \in DOMAIN memWrite, no_core_amo |-> b1,
                  no_reserve |-> b2, no_core_sc |-> b3]
<1>1. wp.req.id \notin DOMAIN memWrite
  BY RunIs
<1>2. /\ memRead' = IF amo /\ amoFifo # <<>> /\ wp.req.id \notin DOMAIN memRead
                    THEN Put(memRead, wp.req.id, d) ELSE memRead
      /\ amoFifo' = IF amo \/ stex THEN AmoPop ELSE amoFifo
      /\ errors' = errors \cup Report(c) \cup IF amo \/ stex THEN Report(AmoErrors) ELSE {}
  BY <1>1 DEF MemWriteRun, mem_write_req_process
<1>3. AmoFifoInv
  BY DEF AllInv, BoardInv
<1>4. amo \/ stex => /\ AmoPop = <<>> /\ Report(AmoErrors) = {} /\ amoFifo # <<>>
                     /\ amoFifo[1] = inflight[cq[Len(cq)].t.tid]
  BY <1>3, PopDue
<1>5. ~b1 /\ ~b2 /\ ~b3
  BY <1>4
<1> HIDE DEF b1, b2, b3, d
<1>6. Report(c) = {}
  <2> DEFINE b0 == wp.req.id \in DOMAIN memWrite
  <2>1. ~b0
    BY <1>1
  <2> HIDE DEF b0
  <2> DEFINE e == [mem_write_id |-> b0, no_core_amo |-> b1, no_reserve |-> b2, no_core_sc |-> b3]
  <2>2. \A m \in DOMAIN e : ~e[m]
    BY <1>5, <2>1
  <2> HIDE DEF e
  <2>3. Report(e) = {}
    BY <2>2, NoReport
  <2> QED
    BY <2>3 DEF e, b0
<1> HIDE DEF c
<1>7. amoFifo' = (IF amo \/ stex THEN <<>> ELSE amoFifo) /\ errors' = errors
  BY <1>2, <1>4, <1>6
<1>8. DOMAIN Put(memRead, wp.req.id, d) = DOMAIN memRead \cup {wp.req.id}
  BY PutDomain
<1>9. DOMAIN memRead' = IF amo THEN DOMAIN memRead \cup {wp.req.id} ELSE DOMAIN memRead
  BY <1>2, <1>4, <1>8
<1> QED
  BY <1>7, <1>9

LEMMA RunStep ==
  ASSUME AllInv, CoreInv', MemWriteRun, kind' = kind
  PROVE  AmoFifoInv' /\ ReadsSeen' /\ errors' = errors
<1> DEFINE amo == mem_is_amo(wp.req.command)
           stex == wp.req.command = "STEX"
<1>1. /\ wp.pc = "run" /\ AddrQ' = AddrQ /\ wp'.req = wp.req /\ wp'.pc = IF amo THEN "read_resp" ELSE "resp"
      /\ UNCHANGED cacheVars /\ UNCHANGED <<rd, readRespFifo, rdOut, inflight>>
  BY RunIs
<1>2. /\ wp.req.id # UcId => ~amo /\ ~stex
      /\ wp.req.id = UcId /\ cq[1].t.op = "STORE" => ~amo /\ ~stex
      /\ wp.req.id = UcId /\ cq[1].t.op \in {"SC"} \cup AmoOps => amo \/ stex
      /\ wp.req.id = UcId => cq[1].t.op \in {"STORE", "SC"} \cup AmoOps
      /\ wp.req.id = UcId /\ stex => cq[1].t.op = "SC"
      /\ amo => wp.req.id = UcId
  <2>1. wp.req.id # UcId => wp.req.command = "WRITE"
    BY <1>1 DEF AllInv, RightInv, RightWrites, Sent, SentFor
  <2>2. wp.req.id = UcId => /\ cq[1].t.op \in {"STORE", "SC"} \cup AmoOps
                            /\ wp.req.command = UcCommand(cq[1].t.op)
    BY <1>1, RunsFor
  <2>3. wp.req.command = "WRITE" => ~amo /\ ~stex
    BY Commands
  <2>4. CASE cq[1].t.op \in AmoOps
    <3>1. UcCommand(cq[1].t.op) = mem_atomic(cq[1].t.op)
      BY <2>4, AmoCommand DEF UcCommand
    <3> QED
      BY <2>1, <2>2, <2>3, <2>4, <3>1, AmoCommand
  <2>5. CASE cq[1].t.op \notin AmoOps
    BY <2>1, <2>2, <2>3, <2>5 DEF UcCommand, mem_is_amo
  <2> QED
    BY <2>4, <2>5
<1>3. (amo \/ stex => LastDue /\ HasCoreReq(wp.req.addr)) /\ (stex => inflight[cq[Len(cq)].t.tid].is_atomic)
  BY <1>1, <1>2, RunIsDue
<1>4. amo \in BOOLEAN /\ stex \in BOOLEAN
  BY DEF mem_is_amo
<1>5. /\ amoFifo' = IF amo \/ stex THEN <<>> ELSE amoFifo
      /\ errors' = errors
      /\ DOMAIN memRead' = IF amo THEN DOMAIN memRead \cup {wp.req.id} ELSE DOMAIN memRead
  BY <1>3, <1>4, RunTables
<1> HIDE DEF amo, stex
<1>6. ReadsSeen'
  BY <1>1, <1>2, <1>5 DEF AllInv, BoardInv, ReadsSeen
<1>7. SameRequests /\ UNCHANGED <<cq, rdReq>>
  BY <1>1 DEF SameRequests, cacheVars, chVars
<1>8. CASE ~amo /\ ~stex
  <2>1. amoFifo' = amoFifo
    BY <1>5, <1>8
  <2>2. CASE wp.req.id = UcId
    <3>1. Len(cq) = 1 /\ cq[1].t.op = "STORE"
      BY <1>1, <1>2, <1>8, <2>2, RunsFor
    <3>2. ~DueOp(cq[Len(cq)].t, inflight[cq[Len(cq)].t.tid])
      BY <3>1, ApartOps DEF DueOp, is_amo
    <3> QED
      BY <1>1, <1>5, <1>6, <1>7, <2>1, <3>2, SameFifo
  <2>3. CASE wp.req.id # UcId
    <3>1. UcRuns' <=> UcRuns
      BY <1>1, <2>3 DEF UcRuns
    <3>2. UcAway' <=> UcAway
      BY <1>1, <1>7, <3>1, FlitsSame
    <3> QED
      BY <1>1, <1>5, <1>6, <1>7, <2>1, <3>2, StillFifo
  <2> QED
    BY <2>2, <2>3
<1>9. CASE amo \/ stex
  <2>1. wp.req.id = UcId /\ cq[1].t.op \in {"SC"} \cup AmoOps
    BY <1>2, <1>9
  <2>2. Len(cq) = 1 /\ cq # <<>> /\ cq[1].pc = "wait"
    BY <1>1, <2>1, RunsFor
  <2>3. ~UcAsked /\ \A k \in 1 .. Len(AddrQ) : AddrQ[k].id # UcId
    BY <1>1, <2>1, RunIsDue
  <2>4. ~UcAsked'
    BY <1>1, <1>7, <2>3 DEF UcAsked
  <2>5. ~UcSent'
    BY <1>1, <2>3 DEF UcSent
  <2>6. ~LastDue'
    BY <1>7, <2>2, <2>4, <2>5 DEF LastDue, Due
  <2> QED
    BY <1>5, <1>6, <1>9, <2>6 DEF AmoFifoInv
<1> QED
  BY <1>8, <1>9

\* The oldest response in the fifo, when none is shown.
LEMMA OldestAnswer ==
  ASSUME ReadInv, rdOut = None, readRespFifo # <<>>
  PROVE  /\ IsSeq(readRespFifo) /\ 1 \in 1 .. Len(readRespFifo) /\ Head(readRespFifo) = readRespFifo[1]
         /\ readRespFifo[1].last =>
              /\ rd.pc # "idle" => rd.req.id # readRespFifo[1].id
              /\ wp.pc = "read_resp" => readRespFifo[1].id # UcId
              /\ \A j \in 1 .. Len(readRespFifo) : readRespFifo[j].id = readRespFifo[1].id => j = 1
         /\ ~readRespFifo[1].last =>
              \/ Len(readRespFifo) > 1 /\ readRespFifo[2].id = readRespFifo[1].id
              \/ rd.pc = "push" /\ rd.req.id = readRespFifo[1].id
<1> DEFINE s == readRespFifo
<1>1. IsSeq(s) /\ Len(s) \in Nat \ {0} /\ Head(s) = s[1]
  <2>1. IsSeq(s)
    BY DEF ReadInv, QueueType
  <2> QED
    BY <2>1, SeqTail
<1>2. Stream = s
  <2> DEFINE n == <<>>
  <2>1. RdShown = n
    BY DEF RdShown
  <2> HIDE DEF n
  <2>2. Cat(<<>>, s) = s
    BY <1>1, CatEmpty
  <2> QED
    BY <2>1, <2>2 DEF Stream, n
<1>3. 1 \in 1 .. Len(s)
  BY <1>1
<1>4. Once(rdReq, s, Pushed, Owed, DOMAIN rdBusy)
  BY <1>2 DEF ReadInv
<1>5. /\ s[1].id \notin Owed
      /\ IF s[1].last THEN s[1].id \notin Pushed /\ \A j \in 1 .. Len(s) : s[j].id = s[1].id => j <= 1
         ELSE IF 1 < Len(s) THEN s[1 + 1].id = s[1].id ELSE s[1].id \in Pushed
  BY <1>3, <1>4 DEF Once
<1>6. ASSUME s[1].last
      PROVE  /\ rd.pc # "idle" => rd.req.id # s[1].id
             /\ wp.pc = "read_resp" => s[1].id # UcId
             /\ \A j \in 1 .. Len(s) : s[j].id = s[1].id => j = 1
  <2>1. rd.pc = "push" => rd.req.id # s[1].id
    BY <1>5, <1>6 DEF Pushed
  <2>2. rd.pc = "ready" => rd.req.id # s[1].id
    <3>1. rd.pc = "ready" => rdReq # <<>> /\ rd.req = rdReq[1] /\ IsSeq(rdReq)
      BY DEF ReadInv, QueueType
    <3>2. rd.pc = "ready" => 1 \in 1 .. Len(rdReq)
      BY <3>1, SeqTail
    <3>3. rd.pc = "ready" => \A j \in 1 .. Len(s) : s[j].id # rdReq[1].id
      BY <1>4, <3>2 DEF Once
    <3> QED
      BY <1>3, <3>1, <3>3
  <2>3. rd.pc \in {"idle", "ready", "push"}
    BY DEF ReadInv, QueueType
  <2>4. wp.pc = "read_resp" => s[1].id # UcId
    BY <1>5 DEF Owed, AmoPend
  <2>5. \A j \in 1 .. Len(s) : s[j].id = s[1].id => j = 1
    BY <1>1, <1>5, <1>6
  <2> QED
    BY <2>1, <2>2, <2>3, <2>4, <2>5
<1>7. ASSUME ~s[1].last
      PROVE  \/ Len(s) > 1 /\ s[2].id = s[1].id
             \/ rd.pc = "push" /\ rd.req.id = s[1].id
  BY <1>1, <1>5, <1>7 DEF Pushed
<1> QED
  BY <1>1, <1>3, <1>6, <1>7

\* A response is shown to the cache: the scoreboard knows of the read.
LEMMA ShowStep ==
  ASSUME AllInv, MemReadShow
  PROVE  ReadsSeen' /\ errors' = errors
<1> DEFINE s == readRespFifo
           x == readRespFifo[1]
<1>1. /\ rdOut = None /\ s # <<>> /\ readRespFifo' = Tail(s) /\ UNCHANGED <<rd, wp>>
      /\ mem_read_resp_process(Head(s))
  BY DEF MemReadShow, ReadRespShow, rdVars, wpVars
<1>2. /\ IsSeq(s) /\ 1 \in 1 .. Len(s) /\ Head(s) = x
      /\ x.last => /\ rd.pc # "idle" => rd.req.id # x.id
                   /\ wp.pc = "read_resp" => x.id # UcId
                   /\ \A j \in 1 .. Len(s) : s[j].id = x.id => j = 1
      /\ ~x.last => \/ Len(s) > 1 /\ s[2].id = x.id
                    \/ rd.pc = "push" /\ rd.req.id = x.id
  BY <1>1, OldestAnswer DEF AllInv
<1>3. /\ Len(s) \in Nat \ {0} /\ Len(Tail(s)) = Len(s) - 1
      /\ \A i \in 1 .. Len(s) - 1 : Tail(s)[i] = s[i + 1]
  BY <1>1, <1>2, SeqTail
<1>4. DOMAIN memRead = (IF rd.pc = "idle" THEN {} ELSE {rd.req.id})
                         \cup (IF wp.pc = "read_resp" THEN {UcId} ELSE {})
                         \cup {s[k].id : k \in 1 .. Len(s)}
  BY DEF AllInv, BoardInv, ReadsSeen
<1>5. x.id \in DOMAIN memRead
  BY <1>2, <1>4
<1>6. /\ memRead' = IF x.last THEN Restrict(memRead, DOMAIN memRead \ {x.id}) ELSE memRead
      /\ errors' = errors \cup Report([mem_read_resp_id |-> x.id \notin DOMAIN memRead])
  BY <1>1, <1>2, <1>5 DEF mem_read_resp_process
<1>7. Report([mem_read_resp_id |-> x.id \notin DOMAIN memRead]) = {}
  <2> DEFINE b == x.id \notin DOMAIN memRead
  <2>1. ~b
    BY <1>5
  <2> HIDE DEF b
  <2>2. \A m \in DOMAIN [mem_read_resp_id |-> b] : ~[mem_read_resp_id |-> b][m]
    BY <2>1
  <2>3. Report([mem_read_resp_id |-> b]) = {}
    BY <2>2, NoReport
  <2> QED
    BY <2>3 DEF b
<1>8. DOMAIN memRead' = IF x.last THEN DOMAIN memRead \ {x.id} ELSE DOMAIN memRead
  BY <1>6, DropDomain
<1> DEFINE R == (IF rd.pc = "idle" THEN {} ELSE {rd.req.id}) \cup (IF wp.pc = "read_resp" THEN {UcId} ELSE {})
           T == {Tail(s)[k].id : k \in 1 .. Len(Tail(s))}
<1>9. {s[k].id : k \in 1 .. Len(s)} = {x.id} \cup T
  <2>1. \A k \in 1 .. Len(Tail(s)) : Tail(s)[k] = s[k + 1] /\ k + 1 \in 1 .. Len(s)
    BY <1>3
  <2>2. \A k \in 1 .. Len(s) : k = 1 \/ (k - 1 \in 1 .. Len(Tail(s)) /\ s[k] = Tail(s)[k - 1])
    BY <1>3
  <2> QED
    BY <1>2, <2>1, <2>2
<1>10. x.last => x.id \notin R /\ x.id \notin T
  <2>1. x.last => x.id \notin R
    BY <1>2
  <2>2. x.last => \A k \in 1 .. Len(Tail(s)) : Tail(s)[k].id # x.id
    <3>1. \A k \in 1 .. Len(Tail(s)) : Tail(s)[k] = s[k + 1] /\ k + 1 \in 1 .. Len(s) /\ k + 1 # 1
      BY <1>3
    <3> QED
      BY <1>2, <3>1
  <2> QED
    BY <2>1, <2>2
<1>11. ~x.last => x.id \in R \cup T
  <2>1. Len(s) > 1 => 1 \in 1 .. Len(Tail(s)) /\ Tail(s)[1] = s[2]
    BY <1>3
  <2> QED
    BY <1>2, <2>1
<1>12. DOMAIN memRead = R \cup {x.id} \cup T
  BY <1>4, <1>9
<1>13. DOMAIN memRead' = R \cup T
  <2> HIDE DEF R, T
  <2> QED
    BY <1>8, <1>10, <1>11, <1>12
<1>14. ReadsSeen'
  BY <1>1, <1>13 DEF ReadsSeen
<1> QED
  BY <1>6, <1>7, <1>14

\* The reads that the memory has seen, after the other steps of the memory model.
LEMMA PushSeen ==
  ASSUME ReadInv, ReadsSeen, UNCHANGED memRead, NEW x, readRespFifo' = Append(readRespFifo, x),
         \/ /\ rd.pc = "push" /\ x.id = rd.req.id /\ wp' = wp
            /\ rd'.pc = "idle" \/ (rd'.pc = "push" /\ rd'.req = rd.req)
         \/ wp.pc = "read_resp" /\ x.id = UcId /\ rd' = rd /\ wp'.pc = "resp"
  PROVE  ReadsSeen'
<1> DEFINE s == readRespFifo
<1>1. IsSeq(s)
  BY DEF ReadInv, QueueType
<1>2. /\ Len(s) \in Nat /\ Len(Append(s, x)) = Len(s) + 1
      /\ \A i \in 1 .. Len(s) : Append(s, x)[i] = s[i]
      /\ Append(s, x)[Len(s) + 1] = x
  BY <1>1, SeqAppend
<1>3. {Append(s, x)[k].id : k \in 1 .. Len(Append(s, x))} = {s[k].id : k \in 1 .. Len(s)} \cup {x.id}
  <2>1. \A k \in 1 .. Len(Append(s, x)) : k \in 1 .. Len(s) \/ k = Len(s) + 1
    BY <1>2
  <2>2. Len(s) + 1 \in 1 .. Len(Append(s, x)) /\ \A k \in 1 .. Len(s) : k \in 1 .. Len(Append(s, x))
    BY <1>2
  <2> QED
    BY <1>2, <2>1, <2>2
<1>4. DOMAIN memRead = (IF rd.pc = "idle" THEN {} ELSE {rd.req.id})
                         \cup (IF wp.pc = "read_resp" THEN {UcId} ELSE {})
                         \cup {s[k].id : k \in 1 .. Len(s)}
  BY DEF ReadsSeen
<1>5. {readRespFifo'[k].id : k \in 1 .. Len(readRespFifo')} = {s[k].id : k \in 1 .. Len(s)} \cup {x.id}
  BY <1>3
<1> HIDE DEF s
<1> QED
  BY <1>4, <1>5 DEF ReadsSeen

LEMMA QuietSeen ==
  ASSUME AllInv, MemReadTake \/ MemReadPush \/ MemWriteTake
  PROVE  ReadsSeen'
<1>1. ReadsSeen /\ ReadInv /\ UNCHANGED memRead
  BY DEF AllInv, BoardInv, MemReadTake, MemReadPush, MemWriteTake, sbVars, sbTables
<1>2. DOMAIN rd = {"pc", "req", "beat"}
  BY <1>1 DEF ReadInv, QueueType
<1>3. CASE MemReadTake
  <2>1. rd.pc = "ready" /\ rd'.pc = "push" /\ rd'.req = rd.req /\ UNCHANGED <<wp, readRespFifo>>
    BY <1>2, <1>3 DEF MemReadTake, ReadTake, wpVars, respVars
  <2> QED
    BY <1>1, <2>1 DEF ReadsSeen
<1>4. CASE MemReadPush
  <2> DEFINE first == rd.req.addr + rd.beat * rd.req.size
             err == within_error_region(errorsegs, rd.req.addr, rd.req.addr + rd.req.size)
             x == [id |-> rd.req.id, error |-> err, last |-> rd.beat = rd.req.len,
                   data |-> [k \in 1 .. rd.req.size |-> IF err THEN 0 ELSE readMemory(first + k - 1)]]
  <2>1. /\ rd.pc = "push" /\ readRespFifo' = Append(readRespFifo, x) /\ wp' = wp
        /\ rd' = IF rd.beat = rd.req.len THEN [pc |-> "idle", req |-> None, beat |-> 0]
                                         ELSE [rd EXCEPT !.beat = @ + 1]
    BY <1>4 DEF MemReadPush, ReadPush, wpVars
  <2>2. x.id = rd.req.id
    OBVIOUS
  <2> HIDE DEF x
  <2>3. rd'.pc = "idle" \/ (rd'.pc = "push" /\ rd'.req = rd.req)
    BY <1>2, <2>1
  <2> QED
    BY <1>1, <2>1, <2>2, <2>3, PushSeen
<1>5. CASE MemWriteTake
  <2>1. DOMAIN wp = {"pc", "req", "rresp", "resp"}
    BY DEF AllInv, PathInv, PathType
  <2>2. CASE WriteMeta \/ WriteData \/ WritePush
    <3>1. wp.pc # "read_resp" /\ wp'.pc # "read_resp" /\ UNCHANGED <<rd, readRespFifo>>
      <4>1. CASE WriteMeta
        BY <2>1, <4>1 DEF WriteMeta, rdVars, respVars
      <4>2. CASE WriteData
        <5> DEFINE r == Put(wp.req, "data", Head(writeDataFifo).data)
        <5>1. wp.pc = "data" /\ wp' = [wp EXCEPT !.pc = "run", !.req = r] /\ UNCHANGED <<rd, readRespFifo>>
          BY <4>2 DEF WriteData, rdVars, respVars
        <5> HIDE DEF r
        <5> QED
          BY <2>1, <5>1
      <4>3. CASE WritePush
        BY <4>3 DEF WritePush, rdVars
      <4> QED
        BY <2>2, <4>1, <4>2, <4>3
    <3> QED
      BY <1>1, <3>1 DEF ReadsSeen
  <2>3. CASE WritePushRead
    <3>1. /\ wp.pc = "read_resp" /\ readRespFifo' = Append(readRespFifo, wp.rresp)
          /\ rd' = rd /\ wp'.pc = "resp"
      BY <2>1, <2>3 DEF WritePushRead, rdVars
    <3>2. wp.rresp.id = UcId
      BY <1>1, <3>1 DEF ReadInv, AnswerType
    <3> QED
      BY <1>1, <3>1, <3>2, PushSeen
  <2> QED
    BY <1>5, <2>2, <2>3 DEF MemWriteTake
<1> QED
  BY <1>3, <1>4, <1>5

\* The response of a write is shown.
LEMMA WriteShown ==
  ASSUME AllInv, MemWriteShow
  PROVE  AtomicShown' /\ errors' = errors
<1> DEFINE x == Head(writeRespFifo)
<1>1. /\ wrOut' = x /\ writeRespFifo # <<>> /\ mem_write_resp_process(x)
  BY DEF MemWriteShow, WriteRespShow
<1>2. x.id \in DOMAIN memWrite
  <2>1. FlitSeq(writeRespFifo)
    BY PathFacts DEF AllInv, PathInv
  <2>2. IsSeq(writeRespFifo)
    BY <2>1, SeqIsSeq DEF FlitSeq
  <2>3. 1 \in 1 .. Len(writeRespFifo) /\ x = writeRespFifo[1]
    BY <1>1, <2>2, SeqTail
  <2>4. Len(FlitIds(writeRespFifo)) = Len(writeRespFifo) /\ FlitIds(writeRespFifo)[1] = x.id
    BY <2>1, <2>3, FlitType
  <2>5. x.id \in Elements(FlitIds(writeRespFifo))
    BY <2>3, <2>4 DEF Elements
  <2> QED
    BY <2>5 DEF AllInv, TableInv, Performed
<1> HIDE DEF x
<1>3. scIsAtomic' = x.is_atomic /\ errors' = errors \cup Report([mem_write_resp_id |-> x.id \notin DOMAIN memWrite])
  BY <1>1, <1>2 DEF mem_write_resp_process
<1>4. Report([mem_write_resp_id |-> x.id \notin DOMAIN memWrite]) = {}
  <2> DEFINE b == x.id \notin DOMAIN memWrite
  <2>1. ~b
    BY <1>2
  <2> HIDE DEF b
  <2>2. \A m \in DOMAIN [mem_write_resp_id |-> b] : ~[mem_write_resp_id |-> b][m]
    BY <2>1
  <2>3. Report([mem_write_resp_id |-> b]) = {}
    BY <2>2, NoReport
  <2> QED
    BY <2>3 DEF b
<1> QED
  BY <1>1, <1>3, <1>4 DEF AtomicShown

----------------------------------------------------------------------------
(* All the steps                                                           *)

\* What the scoreboard keeps, its books apart.
BoardRest == TableOk /\ AmoFifoInv /\ ReadsSeen /\ AtomicShown /\ errors \subseteq {"wrong_data"}
BoardKept == BoardRest' /\ LrscKept

\* A request leaves the cache.
LEMMA DepartsBoard ==
  ASSUME AllInv, CoreInv', kind' = kind, NEW i \in 1 .. Len(cq), Departs(i), Fence(cq[i].t) => ~Due(cq[i]),
         UNCHANGED <<rd, wp, readRespFifo>>, wrOut' = wrOut \/ wrOut' = None
  PROVE  BoardKept
<1>1. TableOk' /\ LrscKept /\ AmoFifoInv'
  BY DepartsTable, DepartsLrsc, DepartsFifo
<1>2. errors' \subseteq errors \cup {"wrong_data"} /\ UNCHANGED <<memRead, scIsAtomic>>
  BY DEF Departs, Serves
<1>3. ReadsSeen /\ AtomicShown /\ errors \subseteq {"wrong_data"}
  BY DEF AllInv, BoardInv
<1>4. ReadsSeen' /\ AtomicShown' /\ errors' \subseteq {"wrong_data"}
  BY <1>2, <1>3 DEF ReadsSeen, AtomicShown
<1> QED
  BY <1>1, <1>4 DEF BoardRest, BoardKept

\* The steps of the cache with a request that leaves at once.
LEMMA LeaveBoard ==
  ASSUME NoneHasNoId, AllInv, CoreInv', kind' = kind, CacheHit \/ CacheStore \/ CacheCmo \/ CacheScFail,
         UNCHANGED memVars
  PROVE  BoardKept
<1>1. UNCHANGED <<rd, wp, readRespFifo, wrOut>>
  BY DEF memVars, rdVars, wpVars, respVars
<1>2. \A i \in 1 .. Len(cq) : ~is_amo(cq[i].t.op) /\ cq[i].t.op \notin {"LR", "SC"} => ~Due(cq[i])
  BY DEF Due, DueOp
<1>3. CASE CacheHit
  <2>1. PICK i \in 1 .. Len(cq) : LoadHit(i) /\ Answer(LoadHitAnswer(i))
    BY <1>3 DEF CacheHit
  <2>2. ~Due(cq[i])
    BY <1>2, <2>1 DEF LoadHit, is_amo, AmoOps
  <2> QED
    BY <1>1, <2>1, <2>2, HitDeparts, DepartsBoard
<1>4. CASE CacheStore
  <2>1. PICK i \in 1 .. Len(cq) : Store(i) /\ Answer(Response(cq[i].t, FALSE, 0))
    BY <1>4 DEF CacheStore
  <2>2. is_store(cq[i].t.op)
    BY <2>1 DEF Store
  <2>3. ~Due(cq[i])
    BY <1>2, <2>2 DEF is_store, is_amo, AmoOps
  <2> QED
    BY <1>1, <2>1, <2>3, StoreDeparts, DepartsBoard
<1>5. CASE CacheCmo
  <2>1. PICK i \in 1 .. Len(cq) : CmoDone(i) /\ Answer(Response(cq[i].t, FALSE, 0))
    BY <1>5 DEF CacheCmo
  <2>2. is_cmo(cq[i].t.op)
    BY <2>1 DEF CmoDone
  <2>3. ~Due(cq[i])
    BY <1>2, <2>2 DEF is_cmo, CmoOps, is_amo, AmoOps
  <2> QED
    BY <1>1, <2>1, <2>3, CmoDeparts, DepartsBoard
<1>6. CASE CacheScFail
  <2>1. PICK i \in 1 .. Len(cq) : ScFail(i) /\ Answer(Response(cq[i].t, FALSE, 1))
    BY <1>6 DEF CacheScFail
  <2>2. cq[i].t.op = "SC" /\ ~Reserved(cq[i].t) /\ cq[i].pc # "wait"
    BY <2>1 DEF ScFail, Executable
  <2>3. IsEntry(kind, cq[i])
    BY DEF AllInv, CoreInv, LegalInv
  <2>4. cq[i].t.need_rsp
    BY <2>2, <2>3 DEF IsEntry, Legal, Atomic
  <2>5. Known(i)
    BY <2>4 DEF AllInv, BoardInv, TableOk
  <2>6. ~Waits(i) /\ ~Reserves(i)
    BY <2>2 DEF Waits, Reserves, Reserved
  <2>7. ~inflight[cq[i].t.tid].is_atomic
    <3>1. inflight[cq[i].t.tid].is_atomic = (Waits(i) \/ Reserves(i))
      BY <2>2, <2>5 DEF Known, Remembers
    <3> QED
      BY <2>6, <3>1
  <2>8. ~Due(cq[i])
    BY <2>2, <2>7 DEF Due, DueOp, is_amo, AmoOps
  <2> QED
    BY <1>1, <2>1, <2>8, ScDeparts, DepartsBoard
<1> QED
  BY <1>3, <1>4, <1>5, <1>6

\* Nothing that the scoreboard looks at changes.
BoardSame == UNCHANGED <<inflight, amoFifo, lrsc, memRead, scIsAtomic, errors>>

\* The channels of the memory that it looks at stay what they are.
LEMMA SameBoard ==
  ASSUME AllInv, TableOk', LrscKept, AmoFifoInv', UNCHANGED <<memRead, scIsAtomic, errors>>,
         UNCHANGED <<rd, wp, readRespFifo>>, wrOut' = wrOut \/ wrOut' = None
  PROVE  BoardKept
<1>1. ReadsSeen /\ AtomicShown /\ errors \subseteq {"wrong_data"}
  BY DEF AllInv, BoardInv
<1>2. ReadsSeen' /\ AtomicShown' /\ errors' \subseteq {"wrong_data"}
  BY <1>1 DEF ReadsSeen, AtomicShown
<1> QED
  BY <1>2 DEF BoardRest, BoardKept

\* The requests and the reservation stay what they are.
LEMMA SameTables ==
  ASSUME AllInv, UNCHANGED <<cq, kind, rsrv, inflight, lrsc>>
  PROVE  TableOk' /\ LrscKept
<1>1. SameRequests
  BY DEF SameRequests
<1>2. UcWait' <=> UcWait
  BY DEF UcWait, Waits
<1>3. LrscKept
  BY <1>1, <1>2, SameLrsc DEF AllInv, BoardInv
<1>4. TableOk'
  BY <1>1, SameTable DEF AllInv, BoardInv, Waits, Reserves, Kills
<1> QED
  BY <1>3, <1>4

\* A request that is not a fence goes on.
LEMMA GoesBoard ==
  ASSUME AllInv, CoreInv', NEW i \in 1 .. Len(cq), Goes(i), ~Fence(cq[i].t),
         UcWait' => UcWait, UNCHANGED <<kind, rsrv>>, BoardSame,
         UNCHANGED <<rd, wp, readRespFifo>>, wrOut' = wrOut \/ wrOut' = None
  PROVE  BoardKept
<1>1. SameRequests
  BY DEF SameRequests, Goes
<1>2. LrscKept
  BY <1>1, SameLrsc DEF AllInv, BoardInv, BoardSame
<1>3. AmoFifoInv'
  BY GoesFifo DEF BoardSame
<1>4. TableOk'
  <2>1. ASSUME NEW k \in 1 .. Len(cq), cq[k].t.op = "SC"
        PROVE  (cq'[k].pc = "wait"
                  \/ (/\ rsrv'.valid /\ rsrv'.addr = cq[k].t.addr
                      /\ \A j \in 1 .. k - 1 : ~KillsWord(cq[j].t, rsrv'.addr))) = (Waits(k) \/ Reserves(k))
    <3>1. k # i
      BY <2>1 DEF Fence, Atomic
    <3>2. cq'[k] = cq[k]
      BY <3>1 DEF Goes
    <3> QED
      BY <3>2 DEF Waits, Reserves, Kills
  <2> QED
    BY <1>1, <2>1, SameTable DEF AllInv, BoardInv, BoardSame
<1> QED
  BY <1>2, <1>3, <1>4, SameBoard DEF BoardSame

\* A line is asked for, or an uncached word.
LEMMA AskBoard ==
  ASSUME AllInv, CoreInv', kind' = kind, CacheMiss \/ CacheUncached, UNCHANGED memVars
  PROVE  BoardKept
<1>1. UNCHANGED <<rd, wp, readRespFifo, wrOut>> /\ BoardSame
  BY DEF memVars, rdVars, wpVars, respVars, CacheMiss, CacheUncached, sbVars, sbTables, BoardSame
<1>2. CASE CacheMiss
  <2>1. PICK i \in 1 .. Len(cq) : Miss(i)
    BY <1>2 DEF CacheMiss
  <2>2. ActsShape(i)
    BY <2>1, ActsAre DEF Acts, AllInv
  <2>3. Goes(i) /\ ~Fence(cq[i].t) /\ ~UcOp(cq[i].t)
    BY <2>1, <2>2 DEF ActsShape
  <2>4. UcWait' => UcWait
    <3>1. ASSUME UcWait' PROVE FALSE
      <4>1. Len(cq') = 1 /\ UcOp(cq'[1].t)
        BY <3>1 DEF UcWait
      <4>2. Len(cq) = 1
        BY <2>3, <4>1 DEF Goes
      <4>3. i = 1
        BY <4>2
      <4> QED
        BY <2>3, <4>1, <4>3 DEF Goes
    <3> QED
      BY <3>1
  <2>5. rsrv' = rsrv
    BY <2>1 DEF Miss
  <2> QED
    BY <1>1, <2>3, <2>4, <2>5, GoesBoard
<1>3. CASE CacheUncached
  <2>1. PICK i \in 1 .. Len(cq) : Uncached(i)
    BY <1>3 DEF CacheUncached
  <2>2. TableOk' /\ LrscKept
    BY <1>1, <2>1, UncachedTable DEF BoardSame
  <2>3. AmoFifoInv'
    BY <1>1, <2>1, UncachedFifo DEF BoardSame
  <2> QED
    BY <1>1, <2>2, <2>3, SameBoard DEF BoardSame
<1> QED
  BY <1>2, <1>3

\* A line leaves the cache, dirty words are flushed.
LEMMA MoveBoard ==
  ASSUME AllInv, CoreInv', CacheMove
  PROVE  BoardKept
<1>1. UNCHANGED <<rd, wp, readRespFifo, wrOut>> /\ BoardSame /\ UNCHANGED memVars /\ UNCHANGED kind
  BY DEF CacheMove, CacheFlush, CacheEvict, memVars, rdVars, wpVars, respVars, sbVars, sbTables, BoardSame, seqVars
<1>2. UNCHANGED <<cq, rsrv>> /\ (UcAway' <=> UcAway)
  <2>1. CASE CacheFlush
    <3>1. PICK w \in Words : FlushLine(w)
      BY <2>1 DEF CacheFlush
    <3> QED
      BY <1>1, <3>1, FlushAway DEF FlushLine
  <2>2. CASE CacheEvict
    <3>1. UNCHANGED <<cq, rsrv, rdReq, wrAddr>>
      BY <2>2 DEF CacheEvict, Evict, chVars
    <3>2. UNCHANGED <<writeReqFifo, wa>>
      BY <1>1 DEF memVars, wpVars, waVars
    <3>3. AddrQ' = AddrQ /\ (UcRuns' <=> UcRuns)
      BY <1>1, <3>1, <3>2 DEF AddrQ, RunFlits, Shown, UcRuns
    <3> QED
      BY <1>1, <3>1, <3>3, FlitsSame
  <2> QED
    BY <2>1, <2>2 DEF CacheMove
<1>3. TableOk' /\ LrscKept
  BY <1>1, <1>2, SameTables DEF BoardSame
<1>4. AmoFifoInv'
  BY <1>1, <1>2, StillFifo DEF BoardSame
<1> QED
  BY <1>1, <1>3, <1>4, SameBoard DEF BoardSame

\* The first of the two responses to an atomic is kept.
LEMMA LaterBoard ==
  ASSUME AllInv, CoreInv', UcWait, is_amo(cq[1].t.op), NEW old, NEW err, LaterShape(old, err),
         UNCHANGED <<kind, rsrv>>, BoardSame, UcAway' <=> UcAway,
         UNCHANGED <<rd, wp, readRespFifo>>, wrOut' = wrOut \/ wrOut' = None
  PROVE  BoardKept
<1>1. SameRequests
  BY DEF SameRequests, Goes, LaterShape
<1>2. LrscKept
  BY <1>1, SameLrsc DEF AllInv, BoardInv, BoardSame
<1>3. AmoFifoInv'
  BY LaterFifo DEF BoardSame
<1>4. TableOk'
  <2>1. \A k \in 1 .. Len(cq) : cq[k].t.op # "SC"
    <3>1. Len(cq) = 1
      BY DEF UcWait
    <3>2. \A k \in 1 .. Len(cq) : k = 1
      BY <3>1
    <3> QED
      BY <3>2, ApartOps DEF is_amo
  <2> QED
    BY <1>1, <2>1, SameTable DEF AllInv, BoardInv, BoardSame
<1> QED
  BY <1>2, <1>3, <1>4, SameBoard DEF BoardSame

\* The cache takes a response of the read channel.
LEMMA TakesReadBoard ==
  ASSUME NoneHasNoId, ErrorsByLine, AllInv, CoreInv', kind' = kind, CacheTakesRead
  PROVE  BoardKept
<1>1. /\ rdOut # None /\ UNCHANGED <<rd, wp, readRespFifo, wrOut, writeReqFifo, wa>>
  BY DEF CacheTakesRead, ReadRespTaken, rdVars, wpVars, waVars
<1>2. UNCHANGED <<rdReq, wrAddr>>
  BY DEF CacheTakesRead, ReadBeat, Refill, UncachedRead, chVars
<1>3. UcAway' <=> UcAway
  <2>1. AddrQ' = AddrQ /\ (UcRuns' <=> UcRuns)
    BY <1>1, <1>2 DEF AddrQ, RunFlits, Shown, UcRuns
  <2> QED
    BY <1>1, <1>2, <2>1, FlitsSame
<1>4. CASE ReadBeat(rdOut) /\ UNCHANGED sbVars
  <2>1. BoardSame /\ UNCHANGED <<cq, rsrv>>
    BY <1>4 DEF ReadBeat, BoardSame, sbVars, sbTables
  <2>2. TableOk' /\ LrscKept
    BY <2>1, SameTables DEF BoardSame
  <2>3. AmoFifoInv'
    BY <1>3, <2>1, StillFifo DEF BoardSame
  <2> QED
    BY <1>1, <2>1, <2>2, <2>3, SameBoard DEF BoardSame
<1>5. CASE Refill(rdOut) /\ Answer(RefillAnswer(rdOut))
  <2> DEFINE i == Waiting(rdOut.id)
  <2>1. RefillShape(i)
    BY <1>1, <1>5, RefillIs DEF AllInv
  <2> HIDE DEF i
  <2>2. i \in 1 .. Len(cq) /\ ~Fence(cq[i].t) /\ rdOut.id # UcId
    BY <2>1 DEF RefillShape, IsFor
  <2>3. CASE is_store(cq[i].t.op) /\ ~rdOut.error
    <3>1. Goes(i) /\ cq'[i].pc = "retry"
      BY <2>1, <2>3 DEF RefillShape
    <3>2. BoardSame
      <4>1. RefillAnswer(rdOut) = None
        BY <2>3 DEF RefillAnswer, i
      <4> QED
        BY <1>5, <4>1 DEF Answer, BoardSame, sbVars, sbTables
    <3>3. ~UcWait'
      <4>1. ASSUME UcWait' PROVE FALSE
        <5>1. Len(cq') = 1 /\ cq'[1].pc = "wait"
          BY <4>1 DEF UcWait, Waits
        <5>2. Len(cq) = 1
          BY <3>1, <5>1 DEF Goes
        <5>3. i = 1
          BY <2>2, <5>2
        <5> QED
          BY <3>1, <5>1, <5>3
      <4> QED
        BY <4>1
    <3>4. rsrv' = rsrv
      BY <1>5 DEF Refill
    <3> QED
      BY <1>1, <2>2, <3>1, <3>2, <3>3, <3>4, GoesBoard
  <2>4. CASE is_store(cq[i].t.op) => rdOut.error
    <3>1. Departs(i)
      BY <1>1, <1>5, <2>4, RefillDeparts DEF i
    <3> QED
      BY <1>1, <2>2, <3>1, DepartsBoard
  <2> QED
    BY <2>3, <2>4
<1>6. CASE UncachedRead(rdOut) /\ Answer(UncachedReadAnswer(rdOut))
  <2>1. UcReadShape
    BY <1>1, <1>6, UcReadIs DEF AllInv
  <2>2. UcWait /\ 1 \in 1 .. Len(cq) /\ rdOut.id = UcId
    BY <2>1 DEF UcReadShape
  <2>3. CASE UcId \in DOMAIN wrBusy
    <3>1. is_amo(cq[1].t.op) /\ LaterShape(rdOut.data[1], rdOut.error)
      BY <2>1, <2>3 DEF UcReadShape
    <3>2. BoardSame
      BY <1>6, <2>3 DEF UncachedReadAnswer, Answer, BoardSame, sbVars, sbTables
    <3>3. rsrv' = rsrv
      <4>1. cq[1].t.op # "LR"
        BY <3>1, ApartOps DEF is_amo
      <4> QED
        BY <1>6, <4>1 DEF UncachedRead
    <3> QED
      BY <1>1, <1>3, <2>2, <3>1, <3>2, <3>3, LaterBoard
  <2>4. CASE UcId \notin DOMAIN wrBusy
    <3>1. Departs(1)
      BY <1>1, <1>6, <2>4, UcReadDeparts
    <3>2. ~UcAsked
      <4>1. Stream[1] = rdOut /\ 1 \in 1 .. Len(Stream)
        BY <1>1, StreamHead DEF AllInv, ReadInv
      <4>2. \A k \in 1 .. Len(rdReq) : rdReq[k].id # UcId
        BY <2>2, <4>1 DEF AllInv, ReadInv, Once
      <4> QED
        BY <4>2 DEF UcAsked
    <3>3. ~UcSent
      BY <2>4, NotSent DEF AllInv
    <3>4. ~Due(cq[1])
      BY <2>2, <3>2, <3>3 DEF Due, UcWait, Waits
    <3> QED
      BY <1>1, <2>2, <3>1, <3>4, DepartsBoard
  <2> QED
    BY <2>3, <2>4
<1> QED
  BY <1>4, <1>5, <1>6 DEF CacheTakesRead

\* The cache takes a response of the write channel.
LEMMA TakesWriteBoard ==
  ASSUME NoneHasNoId, AllInv, CoreInv', kind' = kind, CacheTakesWrite
  PROVE  BoardKept
<1>1. /\ wrOut # None /\ wrOut' = None /\ UNCHANGED <<rd, wp, readRespFifo, writeReqFifo, wa>>
  BY DEF CacheTakesWrite, WriteRespTaken, rdVars, wpVars, waVars
<1>2. UNCHANGED <<rdReq, wrAddr, rsrv>>
  BY DEF CacheTakesWrite, WriteAck, UncachedWrite, chVars
<1>3. UcAway' <=> UcAway
  <2>1. AddrQ' = AddrQ /\ (UcRuns' <=> UcRuns)
    BY <1>1, <1>2 DEF AddrQ, RunFlits, Shown, UcRuns
  <2> QED
    BY <1>1, <1>2, <2>1, FlitsSame
<1>4. CASE WriteAck(wrOut) /\ UNCHANGED sbVars
  <2>1. BoardSame /\ UNCHANGED cq
    BY <1>4 DEF WriteAck, BoardSame, sbVars, sbTables
  <2>2. TableOk' /\ LrscKept
    BY <1>2, <2>1, SameTables DEF BoardSame
  <2>3. AmoFifoInv'
    BY <1>3, <2>1, StillFifo DEF BoardSame
  <2> QED
    BY <1>1, <2>1, <2>2, <2>3, SameBoard DEF BoardSame
<1>5. CASE UncachedWrite(wrOut) /\ Answer(UncachedWriteAnswer(wrOut))
  <2>1. UcWriteShape
    BY <1>1, <1>5, UcWriteIs DEF AllInv
  <2>2. UcWait /\ 1 \in 1 .. Len(cq) /\ wrOut.id = UcId
    BY <2>1 DEF UcWriteShape
  <2>3. CASE UcId \in DOMAIN rdBusy
    <3>1. is_amo(cq[1].t.op) /\ LaterShape(None, wrOut.error)
      BY <2>1, <2>3 DEF UcWriteShape
    <3>2. BoardSame
      BY <1>5, <2>3, <3>1 DEF UncachedWriteAnswer, Answer, BoardSame, sbVars, sbTables
    <3> QED
      BY <1>1, <1>2, <1>3, <2>2, <3>1, <3>2, LaterBoard
  <2>4. CASE UcId \notin DOMAIN rdBusy
    <3>1. Departs(1)
      BY <1>1, <1>5, <2>4, UcWriteDeparts
    <3>2. ~UcAsked
      BY <2>4, ReadsOut DEF UcAsked, ReadsAreOut, AllInv
    <3>3. ~UcSent
      BY <1>1, <2>2, QueueApart DEF AllInv, UcSent
    <3>4. ~Due(cq[1])
      BY <2>2, <3>2, <3>3 DEF Due, UcWait, Waits
    <3> QED
      BY <1>1, <2>2, <3>1, <3>4, DepartsBoard
  <2> QED
    BY <2>3, <2>4
<1> QED
  BY <1>4, <1>5 DEF CacheTakesWrite

\* The cache takes no step: the memory model does.
LEMMA ModelBoard ==
  ASSUME FifoHolds, AllInv, CoreInv', kind' = kind,
         \/ MemReadSee \/ MemReadTake \/ MemReadPush \/ MemReadShow
         \/ MemAddrReady \/ MemAddrEdge \/ MemDataReady \/ MemDataEdge
         \/ MemWriteTake \/ MemWriteRun \/ MemWriteShow
  PROVE  BoardKept
<1>0. ReadsSeen /\ AtomicShown /\ errors \subseteq {"wrong_data"}
  BY DEF AllInv, BoardInv
<1>1. CASE MemReadSee
  <2>1. AmoFifoInv' /\ ReadsSeen' /\ errors' = errors
    BY <1>1, SeeStep
  <2>2. UNCHANGED <<cq, rsrv, inflight, lrsc, scIsAtomic, wrOut>>
    BY <1>1 DEF MemReadSee, ReadSee, mem_read_req_process, cacheVars, respVars
  <2>3. TableOk' /\ LrscKept
    BY <2>2, SameTables
  <2> QED
    BY <1>0, <2>1, <2>2, <2>3 DEF BoardRest, BoardKept, AtomicShown
<1>2. CASE \/ MemReadTake \/ MemReadPush \/ MemAddrReady \/ MemAddrEdge \/ MemDataReady \/ MemDataEdge
           \/ MemWriteTake
  <2>1. BoardSame /\ UNCHANGED <<cq, rsrv>>
    BY <1>2 DEF MemReadTake, MemReadPush, MemAddrReady, MemAddrEdge, MemDataReady, MemDataEdge, MemWriteTake,
                BoardSame, sbVars, sbTables, cacheVars
  <2>2. TableOk' /\ LrscKept
    BY <2>1, SameTables DEF BoardSame
  <2>3. AmoFifoInv'
    <3>1. UcAway' <=> UcAway
      BY <1>2, TakeAway
    <3> QED
      BY <2>1, <3>1, StillFifo DEF BoardSame
  <2>4. wrOut' = wrOut
    BY <1>2 DEF MemReadTake, ReadTake, MemReadPush, ReadPush, MemAddrReady, AddrReady, MemAddrEdge, AddrEdge,
                MemDataReady, DataReady, MemDataEdge, DataEdge, MemWriteTake, WriteMeta, WriteData,
                WritePushRead, WritePush, respVars
  <2>5. ReadsSeen'
    <3>1. CASE MemReadTake \/ MemReadPush \/ MemWriteTake
      BY <3>1, QuietSeen
    <3>2. CASE MemAddrReady \/ MemAddrEdge \/ MemDataReady \/ MemDataEdge
      <4>1. UNCHANGED <<rd, wp, readRespFifo>>
        BY <3>2 DEF MemAddrReady, AddrReady, MemAddrEdge, AddrEdge, MemDataReady, DataReady, MemDataEdge,
                    DataEdge, rdVars, respVars
      <4> QED
        BY <1>0, <2>1, <4>1 DEF ReadsSeen, BoardSame
    <3> QED
      BY <1>2, <3>1, <3>2
  <2> QED
    BY <1>0, <2>1, <2>2, <2>3, <2>4, <2>5 DEF BoardRest, BoardKept, AtomicShown, BoardSame
<1>3. CASE MemReadShow
  <2>1. ReadsSeen' /\ errors' = errors
    BY <1>3, ShowStep
  <2>2. UNCHANGED <<cq, rsrv, inflight, lrsc, scIsAtomic, wrOut, amoFifo, rdReq, wrAddr, rd, wp, wa, writeReqFifo>>
    BY <1>3 DEF MemReadShow, ReadRespShow, mem_read_resp_process, cacheVars, chVars, rdVars, wpVars, waVars
  <2>3. TableOk' /\ LrscKept
    BY <2>2, SameTables
  <2>4. AmoFifoInv'
    <3>1. AddrQ' = AddrQ /\ (UcRuns' <=> UcRuns)
      BY <2>2 DEF AddrQ, RunFlits, Shown, UcRuns
    <3>2. UcAway' <=> UcAway
      BY <2>2, <3>1, FlitsSame
    <3> QED
      BY <2>2, <3>2, StillFifo
  <2> QED
    BY <1>0, <2>1, <2>2, <2>3, <2>4 DEF BoardRest, BoardKept, AtomicShown
<1>4. CASE MemWriteRun
  <2>1. AmoFifoInv' /\ ReadsSeen' /\ errors' = errors
    BY <1>4, RunStep
  <2>2. UNCHANGED <<cq, rsrv, inflight, lrsc, scIsAtomic, wrOut>>
    BY <1>4 DEF MemWriteRun, WriteRun, mem_write_req_process, cacheVars, respVars
  <2>3. TableOk' /\ LrscKept
    BY <2>2, SameTables
  <2> QED
    BY <1>0, <2>1, <2>2, <2>3 DEF BoardRest, BoardKept, AtomicShown
<1>5. CASE MemWriteShow
  <2>1. AtomicShown' /\ errors' = errors
    BY <1>5, WriteShown
  <2>2. UNCHANGED <<cq, rsrv, inflight, lrsc, memRead, amoFifo, rdReq, wrAddr, rd, wp, wa, writeReqFifo,
                    readRespFifo>>
    BY <1>5 DEF MemWriteShow, WriteRespShow, mem_write_resp_process, cacheVars, chVars, rdVars, wpVars, waVars
  <2>3. TableOk' /\ LrscKept
    BY <2>2, SameTables
  <2>4. AmoFifoInv'
    <3>1. AddrQ' = AddrQ /\ (UcRuns' <=> UcRuns)
      BY <2>2 DEF AddrQ, RunFlits, Shown, UcRuns
    <3>2. UcAway' <=> UcAway
      BY <2>2, <3>1, FlitsSame
    <3> QED
      BY <2>2, <3>2, StillFifo
  <2>5. ReadsSeen'
    BY <1>0, <2>2 DEF ReadsSeen
  <2> QED
    BY <1>0, <2>1, <2>3, <2>4, <2>5 DEF BoardRest, BoardKept
<1> QED
  BY <1>1, <1>2, <1>3, <1>4, <1>5

\* Every step keeps what the scoreboard knows.
LEMMA NextRest ==
  ASSUME FifoHolds, NoneHasNoId, ErrorsByLine, AllInv, CoreInv', [Next]_vars, DriveRequest => Trusted
  PROVE  BoardKept
<1>0. kind' = kind
  BY CqNext
<1>1. CASE SequenceStep \/ Simulate \/ CheckInflight \/ DriverFinish \/ Over \/ UNCHANGED vars
  <2>1. BoardSame /\ UNCHANGED memVars /\ UNCHANGED cacheVars
    BY <1>1 DEF SequenceStep, SequenceMain, SequenceBetween, SequenceSc, SequenceStop, Send, Simulate,
                CheckInflight, check_inflight_requests, DriverFinish, Over, vars, sbVars, sbTables, BoardSame
  <2>2. UNCHANGED <<cq, rsrv, rdReq, wrAddr, rd, wp, wa, writeReqFifo, readRespFifo, wrOut>>
    BY <2>1 DEF memVars, cacheVars, chVars, rdVars, wpVars, waVars, respVars
  <2>3. TableOk' /\ LrscKept
    BY <1>0, <2>1, <2>2, SameTables DEF BoardSame
  <2>4. AmoFifoInv'
    <3>1. AddrQ' = AddrQ /\ (UcRuns' <=> UcRuns)
      BY <2>2 DEF AddrQ, RunFlits, Shown, UcRuns
    <3>2. UcAway' <=> UcAway
      BY <2>2, <3>1, FlitsSame
    <3> QED
      BY <1>0, <2>1, <2>2, <3>2, StillFifo DEF BoardSame
  <2> QED
    BY <2>1, <2>2, <2>3, <2>4, SameBoard DEF BoardSame
<1>2. CASE DriveRequest
  <2>1. Takes(Entry(errorsegs, drv.t))
    BY <1>2, RequestTakes
  <2>2. TableOk' /\ LrscKept /\ AmoFifoInv'
    BY <1>2, <2>1, TakesTable, TakesLrsc, TakesFifo
  <2>3. UNCHANGED <<memRead, scIsAtomic, errors>>
    BY <2>1 DEF Takes
  <2>4. UNCHANGED <<rd, wp, readRespFifo, wrOut>>
    BY <1>2 DEF DriveRequest, memVars, rdVars, wpVars, respVars
  <2> QED
    BY <2>2, <2>3, <2>4, SameBoard
<1>3. CASE CacheStep
  BY <1>0, <1>3, LeaveBoard, AskBoard DEF CacheStep
<1>4. CASE CacheMove
  BY <1>4, MoveBoard
<1>5. CASE MemStep
  BY <1>0, <1>5, TakesReadBoard, TakesWriteBoard, ModelBoard DEF MemStep
<1> QED
  BY <1>1, <1>2, <1>3, <1>4, <1>5 DEF Next

LEMMA NextBoard ==
  ASSUME FifoHolds, NoneHasNoId, ErrorsByLine, AllInv, CoreInv', [Next]_vars, DriveRequest => Trusted
  PROVE  BoardInv' /\ LrscKept
<1>1. BoardKept
  BY NextRest
<1>2. errors' \cap BookMessages = {}
  BY <1>1 DEF BoardRest, BoardKept, BookMessages
<1>3. Books'
  <2>1. BookStep /\ Books
    BY NextBook DEF AllInv, BoardInv
  <2> QED
    BY <1>2, <2>1, RequestBooks, ResponseBooks, OtherBooks DEF BookStep
<1>4. LrscInv'
  BY <1>1 DEF BoardKept, LrscKept, LrscInv, AllInv, BoardInv
<1> QED
  BY <1>1, <1>3, <1>4 DEF BoardRest, BoardKept, BoardInv

\* Nothing is reserved at power-up, and no load-reserved is on its way.
LEMMA InitBoard ==
  ASSUME Init
  PROVE  BoardInv
<1>1. /\ cq = <<>> /\ rsrv.valid = FALSE /\ amoFifo = <<>> /\ errors = {} /\ wrOut = None
      /\ memRead = <<>> /\ rd.pc = "idle" /\ wp.pc = "meta" /\ readRespFifo = <<>> /\ lrsc \in LrscPowerUp
  BY DEF Init, CacheInit, ScoreboardInit, MemInit
<1>2. Len(cq) = 0 /\ Len(readRespFifo) = 0
  BY <1>1, ShortSeq
<1>3. ~UcWait /\ \A i \in 1 .. Len(cq) : FALSE
  BY <1>2 DEF UcWait
<1>4. TableOk
  BY <1>3 DEF TableOk
<1>5. LrscInv
  <2>1. lrsc \in [valid : BOOLEAN, addr : Nat]
    BY <1>1, ScoreboardAssumption
  <2>2. DOMAIN lrsc = {"valid", "addr"} /\ lrsc.valid \in BOOLEAN
    BY <2>1
  <2> QED
    BY <1>1, <1>3, <2>2 DEF LrscInv, Unreserved
<1>6. AmoFifoInv
  BY <1>1 DEF AmoFifoInv, LastDue
<1>7. ReadsSeen
  <2>1. DOMAIN memRead = {}
    BY <1>1
  <2>2. {readRespFifo[k].id : k \in 1 .. Len(readRespFifo)} = {}
    BY <1>2
  <2> QED
    BY <1>1, <2>1, <2>2 DEF ReadsSeen
<1>8. AtomicShown /\ errors \subseteq {"wrong_data"}
  BY <1>1 DEF AtomicShown
<1> QED
  BY <1>4, <1>5, <1>6, <1>7, <1>8, InitBooks DEF BoardInv

-----------------------------------------------------------------------------
(* The reservation that nothing made                                       *)

\* A load-reserved has been taken, and the scoreboard reserves what the cache does.
Synced == lrTaken => LrscFollows

\* All that holds in a run without the write table of the scoreboard.
Others == PathInv /\ PairInv /\ CoreInv /\ ReadInv /\ RightInv /\ TableInv

\* The history watches a run of the test bench.
LEMMA PowerUpRuns == PowerUpSpec => Spec
<1>1. PowerUpInit => Init
  BY DEF PowerUpInit
<1>2. [Next /\ Watch]_powerUpVars => [Next]_vars
  BY DEF powerUpVars
<1> QED
  BY <1>1, <1>2, PTL DEF PowerUpSpec, Spec

\* Only the driver hands a request over.
LEMMA TakenDrives ==
  ASSUME [Next]_vars, Taken
  PROVE  DriveRequest
<1>1. drv.pc = "valid" /\ drv'.pc = "idle"
  BY DEF Taken
<1>2. drv' # drv
  BY <1>1
<1>3. Next /\ ~Over
  BY <1>2 DEF vars, tbVars, Over
<1>4. ~CacheStep /\ ~CacheMove /\ ~MemStep
  BY <1>2 DEF CacheStep, CacheMove, MemStep, tbVars
<1>5. ~Simulate /\ ~CheckInflight /\ ~DriverFinish
  BY <1>1, <1>2 DEF Simulate, CheckInflight, DriverFinish
<1>6. ~SequenceStep
  BY <1>1 DEF SequenceStep, SequenceMain, SequenceBetween, SequenceSc, SequenceStop, MaySend
<1> QED
  BY <1>3, <1>4, <1>5, <1>6 DEF Next

\* While no store-conditional has been misled, what the scoreboard knows is right:
\* from the first load-reserved on it has the reservation of the cache.
LEMMA NextSynced ==
  ASSUME FifoHolds, NoneHasNoId, ErrorsByLine, Others, Others', BoardInv, Synced,
         [Next /\ Watch]_powerUpVars, ~misled'
  PROVE  BoardInv' /\ Synced'
<1>1. AllInv /\ CoreInv' /\ [Next]_vars
  BY DEF Others, AllInv, powerUpVars
<1>2. DriveRequest => Trusted
  <2> SUFFICES ASSUME DriveRequest, drv.t.op = "SC", LrscMatch(drv.t.addr) PROVE LrscFollows
    BY DEF Trusted
  <2>1. Taken
    BY DEF DriveRequest, Taken
  <2>2. drv' # drv
    BY <2>1 DEF Taken
  <2>3. Watch
    BY <2>2 DEF powerUpVars, vars, tbVars
  <2>4. lrTaken
    BY <2>1, <2>3 DEF Watch
  <2> QED
    BY <2>4 DEF Synced
<1>3. BoardInv' /\ LrscKept
  BY <1>1, <1>2, NextBoard
<1>4. CASE lrTaken
  BY <1>3, <1>4 DEF Synced, LrscKept
<1>5. CASE ~lrTaken /\ lrTaken'
  <2>1. Watch
    BY <1>5 DEF powerUpVars
  <2>2. Taken /\ drv.t.op = "LR"
    BY <1>5, <2>1 DEF Watch
  <2>3. Takes(Entry(errorsegs, drv.t))
    BY <1>1, <2>2, TakenDrives, RequestTakes
  <2>4. Len(cq) + 1 \in 1 .. Len(cq') /\ cq'[Len(cq) + 1].t.op = "LR"
    BY <2>2, <2>3 DEF Takes
  <2>5. ~Unreserved'
    BY <2>4 DEF Unreserved
  <2> QED
    BY <1>3, <2>5 DEF Synced, BoardInv, LrscInv
<1> QED
  BY <1>3, <1>4, <1>5 DEF Synced

(* The scoreboard follows a cache that keeps its contract.  Its table       *)
(* knows every request that waits for an answer, with the error and the     *)
(* outcome of the store-conditional that the cache will give; once a        *)
(* load-reserved has been taken, its reservation is that of the cache after *)
(* the requests that the cache holds; its queue of atomics holds the one    *)
(* that the memory has not seen.  So of all its messages there is only one  *)
(* that it might print: that a load got other data than the golden memory   *)
(* has.  Whatever lrsc_buf_m holds at power-up: all this ends only with a   *)
(* store-conditional that matches it before any load-reserved.              *)
THEOREM ScoreboardFollows ==
  ASSUME FifoHolds, NoneHasNoId, ErrorsByLine
  PROVE  PowerUpSpec => [](~misled => BoardInv /\ Synced /\ errors \subseteq {"wrong_data"})
<1>1. Spec => []Others
  <2>1. PathInv /\ DOMAIN memWrite = Performed /\ errors \cap WriteMessages = {} => TableInv
    BY DEF TableInv
  <2> QED
    BY <2>1, WritesPaired, ReadsInOnePlace, ErrorsInPlace, WriteTable, PTL DEF Others
<1>2. PowerUpInit => misled \/ (BoardInv /\ Synced)
  BY InitBoard DEF PowerUpInit, Synced
<1>3. Others /\ Others' /\ (misled \/ (BoardInv /\ Synced)) /\ [Next /\ Watch]_powerUpVars
        => misled' \/ (BoardInv' /\ Synced')
  <2> SUFFICES ASSUME Others, Others', misled \/ (BoardInv /\ Synced), [Next /\ Watch]_powerUpVars, ~misled'
               PROVE  BoardInv' /\ Synced'
    OBVIOUS
  <2>1. ~misled
    BY DEF Watch, powerUpVars
  <2> QED
    BY <2>1, NextSynced
<1>4. (misled \/ (BoardInv /\ Synced)) => (~misled => BoardInv /\ Synced /\ errors \subseteq {"wrong_data"})
  BY DEF BoardInv
<1> QED
  BY <1>1, <1>2, <1>3, <1>4, PowerUpRuns, PTL DEF PowerUpSpec

(* Identifiers are neither leaked nor freed early: while a run goes on, the *)
(* allocated ones are those of the table of the scoreboard and the one that *)
(* the driver shows to the cache, until lrsc_buf_m misleads the scoreboard. *)
THEOREM IdsMatch ==
  ASSUME FifoHolds, NoneHasNoId, ErrorsByLine
  PROVE  PowerUpSpec => [](~misled => IdsMatchInflight)
<1>1. BoardInv => IdsMatchInflight
  BY DEF BoardInv, Books
<1> QED
  BY <1>1, ScoreboardFollows, PTL

(* When the simulation stops and lrsc_buf_m has misled the scoreboard not   *)
(* once, every request has had its answer and every identifier is free: the *)
(* driver does not stop while one is in flight.                             *)
THEOREM StopsClean ==
  ASSUME FifoHolds, NoneHasNoId, ErrorsByLine
  PROVE  PowerUpSpec => [](~misled => FinishClean)
<1>1. BoardInv => FinishClean
  BY FinishBooks DEF BoardInv
<1> QED
  BY <1>1, ScoreboardFollows, PTL
=============================================================================
