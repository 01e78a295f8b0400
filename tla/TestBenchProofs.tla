--------------------------- MODULE TestBenchProofs ---------------------------
(***************************************************************************)
(* What the test bench keeps in step, for every stimulus, every number of  *)
(* identifiers and every depth of its fifos.                               *)
(***************************************************************************)
EXTENDS TestBench, FiniteSetTheorems, SequenceTheorems, TLAPS

----------------------------------------------------------------------------
(* The books of the scoreboard                                             *)

\* The identifier that the sequence has allocated for the driver is not yet in
\* the table.
FreshId == drv.pc = "valid" => drv.t.tid \notin DOMAIN inflight

\* The counters differ by the number of requests in the table.
Counted ==
  /\ IsFiniteSet(DOMAIN inflight)
  /\ nbNeed \in Nat /\ nbResp \in Nat
  /\ nbNeed = nbResp + Cardinality(DOMAIN inflight)

\* Once the driver has seen that nothing is in flight, nothing comes to be.
DrainedTable ==
  (drv.pc = "drain" /\ sampled /\ noInflight) \/ drv.pc = "finish" => inflight = <<>>

Books == IdsMatchInflight /\ FreshId /\ Counted /\ DrainedTable

\* As long as no message was printed that leaves a request where it was.
BookMessages == {"amo_fifo_full", "core_resp_id", "error_flag"}
BookInv == errors \cap BookMessages = {} => Books

\* The kinds of steps, as the books see them.
Elsewhere ==
  /\ UNCHANGED <<ids, inflight, nbNeed, nbResp, noInflight, drv, sampled>>
  /\ errors \subseteq errors'
Sends ==
  /\ UNCHANGED <<inflight, nbNeed, nbResp, noInflight, sampled, errors>>
  /\ drv.pc = "idle" /\ drv'.pc = "valid"
  /\ drv'.t.tid \notin ids /\ ids' = ids \cup {drv'.t.tid}
Requests ==
  /\ drv.pc = "valid" /\ core_req_process(errorsegs, drv.t)
  /\ drv'.pc = "idle" /\ sampled' = sampled
Responds ==
  /\ drv.pc # "finish" /\ \E a : core_resp_process(a)
  /\ UNCHANGED <<drv, sampled>>
Stops ==
  /\ UNCHANGED <<ids, inflight, nbNeed, nbResp, noInflight, errors>>
  /\ drv.pc = "idle" /\ drv'.pc = "drain" /\ sampled' = FALSE
Samples ==
  /\ UNCHANGED <<ids, inflight, nbNeed, nbResp, errors, drv>>
  /\ noInflight' => inflight = <<>>
  /\ drv.pc = "drain"
Finishes ==
  /\ UNCHANGED <<ids, inflight, nbNeed, nbResp, noInflight, errors, sampled>>
  /\ drv.pc = "drain" /\ sampled /\ noInflight /\ drv'.pc = "finish"

BookStep == Elsewhere \/ Sends \/ Requests \/ Responds \/ Stops \/ Samples \/ Finishes

\* A table with one more key.
LEMMA PutDomain ==
  ASSUME NEW f, NEW d, NEW e
  PROVE  DOMAIN Put(f, d, e) = DOMAIN f \cup {d}
BY DEF Put

\* A table with one key less.
LEMMA DropDomain ==
  ASSUME NEW f, NEW d
  PROVE  DOMAIN Restrict(f, DOMAIN f \ {d}) = DOMAIN f \ {d}
BY DEF Restrict

\* The sequence hands over a transaction with a free identifier.
LEMMA SendStep ==
  ASSUME NEW req, drv.pc = "idle", Send(req)
  PROVE  Sends
<1>1. PICK id \in allocate_id(MaxTransId) :
        /\ ids' = ids \cup {id}
        /\ drv' = [pc |-> "valid", t |-> Put(req, "tid", id)]
  BY DEF Send
<1>2. Put(req, "tid", id).tid = id
  BY DEF Put
<1>3. drv'.pc = "valid" /\ drv'.t.tid = id
  BY <1>1, <1>2
<1>4. id \notin ids
  BY DEF allocate_id
<1>5. UNCHANGED <<inflight, nbNeed, nbResp, noInflight, sampled, errors>>
  BY DEF Send, sbTables
<1> QED
  BY <1>1, <1>3, <1>4, <1>5 DEF Sends

\* An answer of the cache, or the end of a request that asked for none.
LEMMA AnswerStep ==
  ASSUME NEW a, drv.pc # "finish", Answer(a), UNCHANGED tbVars
  PROVE  Elsewhere \/ Responds
<1>1. drv' = drv /\ sampled' = sampled
  BY DEF tbVars
<1>2. CASE a = None
  BY <1>1, <1>2 DEF Answer, Elsewhere, sbVars, sbTables
<1>3. CASE a # None
  BY <1>1, <1>3 DEF Answer, Responds
<1> QED
  BY <1>2, <1>3

\* A step of the cache.
LEMMA CacheBook ==
  ASSUME drv.pc # "finish", CacheStep \/ CacheMove
  PROVE  BookStep
<1>1. UNCHANGED tbVars
  BY DEF CacheStep, CacheMove
<1>2. CASE CacheHit \/ CacheStore \/ CacheCmo \/ CacheScFail
  <2>1. \E a : Answer(a)
    BY <1>2 DEF CacheHit, CacheStore, CacheCmo, CacheScFail
  <2> QED
    BY <1>1, <2>1, AnswerStep DEF BookStep
<1>3. CASE CacheMiss \/ CacheUncached \/ CacheFlush \/ CacheEvict
  <2>1. UNCHANGED sbVars
    BY <1>3 DEF CacheMiss, CacheUncached, CacheFlush, CacheEvict
  <2> QED
    BY <1>1, <2>1 DEF BookStep, Elsewhere, sbVars, sbTables, tbVars
<1> QED
  BY <1>2, <1>3 DEF CacheStep, CacheMove

\* A step of the memory model, and what the scoreboard sees of it.
LEMMA MemBook ==
  ASSUME drv.pc # "finish", MemStep
  PROVE  BookStep
<1>1. UNCHANGED tbVars
  BY DEF MemStep
<1>2. ASSUME UNCHANGED sbVars PROVE BookStep
  BY <1>1, <1>2 DEF BookStep, Elsewhere, sbVars, sbTables, tbVars
<1>3. ASSUME \E a : Answer(a) PROVE BookStep
  BY <1>1, <1>3, AnswerStep DEF BookStep
<1>4. CASE MemReadTake \/ MemReadPush \/ MemAddrReady \/ MemAddrEdge \/ MemDataReady \/ MemDataEdge
             \/ MemWriteTake
  <2>1. UNCHANGED sbVars
    BY <1>4 DEF MemReadTake, MemReadPush, MemAddrReady, MemAddrEdge, MemDataReady, MemDataEdge,
                MemWriteTake
  <2> QED
    BY <1>2, <2>1
<1>5. CASE CacheTakesRead \/ CacheTakesWrite
  BY <1>2, <1>3, <1>5 DEF CacheTakesRead, CacheTakesWrite
<1>6. CASE MemReadSee
  BY <1>1, <1>6 DEF MemReadSee, mem_read_req_process, BookStep, Elsewhere, tbVars
<1>7. CASE MemReadShow
  BY <1>1, <1>7 DEF MemReadShow, mem_read_resp_process, BookStep, Elsewhere, tbVars
<1>8. CASE MemWriteRun
  BY <1>1, <1>8 DEF MemWriteRun, mem_write_req_process, BookStep, Elsewhere, tbVars
<1>9. CASE MemWriteShow
  BY <1>1, <1>9 DEF MemWriteShow, mem_write_resp_process, BookStep, Elsewhere, tbVars
<1> QED
  BY <1>4, <1>5, <1>6, <1>7, <1>8, <1>9 DEF MemStep

\* Every step is of one of the kinds.
LEMMA NextBook ==
  ASSUME [Next]_vars
  PROVE  BookStep
<1>1. CASE UNCHANGED vars
  BY <1>1 DEF BookStep, Elsewhere, vars, sbVars, sbTables, tbVars
<1>2. CASE Simulate
  BY <1>2 DEF Simulate, BookStep, Elsewhere, sbVars, sbTables
<1>3. CASE SequenceStep
  <2>1. CASE SequenceStop
    BY <2>1 DEF SequenceStop, BookStep, Stops, sbVars, sbTables
  <2>2. CASE SequenceMain \/ SequenceBetween \/ SequenceSc
    <3>1. drv.pc = "idle" /\ \E req : Send(req)
      BY <2>2 DEF SequenceMain, SequenceBetween, SequenceSc, MaySend
    <3> QED
      BY <3>1, SendStep DEF BookStep
  <2> QED
    BY <1>3, <2>1, <2>2 DEF SequenceStep
<1>4. CASE DriveRequest
  BY <1>4 DEF DriveRequest, BookStep, Requests
<1>5. CASE CheckInflight
  BY <1>5 DEF CheckInflight, check_inflight_requests, BookStep, Samples, sbTables
<1>6. CASE DriverFinish
  <2>1. drv' = [drv EXCEPT !.pc = "finish"] /\ drv.pc = "drain" /\ sampled /\ noInflight
    BY <1>6 DEF DriverFinish
  <2>2. drv'.pc = "finish"
    BY <2>1
  <2> QED
    BY <1>6, <2>1, <2>2 DEF DriverFinish, BookStep, Finishes, sbVars, sbTables
<1>7. CASE drv.pc # "finish" /\ (CacheStep \/ CacheMove \/ MemStep)
  BY <1>7, CacheBook, MemBook
<1> QED
  BY <1>1, <1>2, <1>3, <1>4, <1>5, <1>6, <1>7 DEF Next, Finished, Over

\* A request of the core enters the table if it needs a response, else its
\* identifier is free again.
LEMMA RequestBooks ==
  ASSUME Books, Requests, errors' \cap BookMessages = {}
  PROVE  Books'
<1> DEFINE t == drv.t
           e == Entry(errorsegs, t)
           dup   == t.tid \in DOMAIN inflight
           quiet == ~dup /\ is_cmo(t.op) /\ ~t.need_rsp
           full  == ~dup /\ Forwarded(t, e) /\ Len(amoFifo) = AmoFifoDepth
           done  == ~dup /\ ~quiet /\ ~full
           free  == quiet \/ (done /\ ~t.need_rsp)
<1>1. /\ drv.pc = "valid" /\ drv'.pc = "idle"
      /\ nbNeed' = nbNeed + (IF t.need_rsp THEN 1 ELSE 0)
      /\ inflight' = IF done /\ t.need_rsp THEN Put(inflight, t.tid, e) ELSE inflight
      /\ ids' = deallocate_id(free, t.tid)
      /\ errors' = errors \cup Report([core_req_id |-> dup, amo_fifo_full |-> full,
                                       seq_id |-> free /\ t.tid \notin ids])
      /\ nbResp' = nbResp
  BY DEF Requests, core_req_process
<1>2. ~dup
  BY DEF Books, FreshId, Requests
<1>3. ~full
  <2> DEFINE c == [core_req_id |-> dup, amo_fifo_full |-> full, seq_id |-> free /\ t.tid \notin ids]
  <2>1. Report(c) \cap BookMessages = {}
    <3> HIDE DEF c
    <3> QED
      BY <1>1 DEF c
  <2>2. "amo_fifo_full" \in DOMAIN c /\ "amo_fifo_full" \in BookMessages
    BY DEF BookMessages
  <2>3. c["amo_fifo_full"] = full
    <3> HIDE DEF full, dup, free
    <3> QED
      OBVIOUS
  <2>4. ~c["amo_fifo_full"]
    <3> HIDE DEF c
    <3> QED
      BY <2>1, <2>2 DEF Report
  <2> QED
    BY <2>3, <2>4
<1>4. /\ ids = DOMAIN inflight \cup {t.tid} /\ t.tid \notin DOMAIN inflight
      /\ IsFiniteSet(DOMAIN inflight) /\ nbNeed \in Nat /\ nbResp \in Nat
      /\ nbNeed = nbResp + Cardinality(DOMAIN inflight)
  BY <1>1, <1>2 DEF Books, IdsMatchInflight, Counted
<1>5. CASE t.need_rsp
  <2>1. done /\ ~free
    BY <1>2, <1>3, <1>5
  <2>2. DOMAIN inflight' = DOMAIN inflight \cup {t.tid} /\ ids' = ids /\ nbNeed' = nbNeed + 1
    BY <1>1, <1>5, <2>1, PutDomain DEF deallocate_id
  <2>3. /\ IsFiniteSet(DOMAIN inflight')
        /\ Cardinality(DOMAIN inflight') = Cardinality(DOMAIN inflight) + 1
        /\ Cardinality(DOMAIN inflight) \in Nat
    BY <1>4, <2>2, FS_AddElement, FS_CardinalityType
  <2>4. Counted'
    BY <1>1, <1>4, <2>2, <2>3 DEF Counted
  <2>5. IdsMatchInflight'
    BY <1>1, <1>4, <2>2 DEF IdsMatchInflight
  <2>6. FreshId' /\ DrainedTable'
    BY <1>1 DEF FreshId, DrainedTable
  <2> QED
    BY <2>4, <2>5, <2>6 DEF Books
<1>6. CASE ~t.need_rsp
  <2>1. free
    BY <1>2, <1>3, <1>6
  <2>2. inflight' = inflight /\ ids' = ids \ {t.tid} /\ nbNeed' = nbNeed
    BY <1>1, <1>4, <1>6, <2>1 DEF deallocate_id
  <2> QED
    BY <1>1, <1>4, <2>2
       DEF Books, IdsMatchInflight, FreshId, Counted, DrainedTable
<1> QED
  BY <1>5, <1>6

\* A response without a complaint ends a request of the table.
LEMMA ResponseBooks ==
  ASSUME Books, Responds, errors' \cap BookMessages = {}
  PROVE  Books'
<1>1. PICK a : core_resp_process(a)
  BY DEF Responds
<1> DEFINE known == a.tid \in DOMAIN inflight
           en    == inflight[a.tid]
           flag  == known /\ (is_store(en.op) \/ a.error = en.is_error)
<1>2. /\ nbResp' = nbResp + 1 /\ nbNeed' = nbNeed
      /\ inflight' = IF flag THEN Restrict(inflight, DOMAIN inflight \ {a.tid}) ELSE inflight
      /\ ids' = deallocate_id(flag, a.tid)
  BY <1>1 DEF core_resp_process
<1>3. known /\ flag
  <2> DEFINE check == flag /\ ~en.is_error
             sc_ok == check /\ en.op = "SC" /\ en.is_atomic /\ scIsAtomic
             sc    == check /\ en.op = "SC" /\ a.data # (IF sc_ok THEN 0 ELSE 1)
             wrong == check /\ ReadsData(en.op) /\ en.rdata # None /\ a.data # en.rdata
             freed == flag /\ a.tid \notin ids
             c == [core_resp_id |-> ~known, error_flag |-> known /\ ~flag,
                   sc_status |-> sc, wrong_data |-> wrong, seq_id |-> freed]
  <2>1. errors' = errors \cup Report(c)
    BY <1>1 DEF core_resp_process
  <2>2. Report(c) \cap BookMessages = {}
    BY <2>1
  <2>3. {"core_resp_id", "error_flag"} \subseteq DOMAIN c \cap BookMessages
    BY DEF BookMessages
  <2>4. c["core_resp_id"] = ~known /\ c["error_flag"] = (known /\ ~flag)
    <3> HIDE DEF known, flag, sc, wrong, freed
    <3> QED
      OBVIOUS
  <2>5. ~c["core_resp_id"] /\ ~c["error_flag"]
    <3> HIDE DEF c
    <3> QED
      BY <2>2, <2>3 DEF Report
  <2> QED
    BY <2>4, <2>5
<1>4. DOMAIN inflight' = DOMAIN inflight \ {a.tid} /\ ids' = ids \ {a.tid} /\ a.tid \in DOMAIN inflight
  BY <1>2, <1>3, DropDomain DEF deallocate_id
<1>5. drv' = drv /\ sampled' = sampled /\ drv.pc # "finish" /\ noInflight' = noInflight
  BY <1>1 DEF Responds, core_resp_process
<1>6. /\ IsFiniteSet(DOMAIN inflight) /\ nbNeed \in Nat /\ nbResp \in Nat
      /\ nbNeed = nbResp + Cardinality(DOMAIN inflight)
  BY DEF Books, Counted
<1>7. /\ IsFiniteSet(DOMAIN inflight')
      /\ Cardinality(DOMAIN inflight') = Cardinality(DOMAIN inflight) - 1
      /\ Cardinality(DOMAIN inflight) \in Nat
  BY <1>4, <1>6, FS_RemoveElement, FS_CardinalityType
<1>8. Counted'
  BY <1>2, <1>6, <1>7 DEF Counted
<1>9. IdsMatchInflight' /\ FreshId'
  BY <1>4, <1>5 DEF Books, IdsMatchInflight, FreshId
<1>10. DrainedTable'
  <2>1. inflight # <<>>
    BY <1>4
  <2> QED
    BY <1>5, <2>1 DEF Books, DrainedTable
<1> QED
  BY <1>8, <1>9, <1>10 DEF Books

\* The other steps.
LEMMA OtherBooks ==
  ASSUME Books, Elsewhere \/ Sends \/ Stops \/ Samples \/ Finishes
  PROVE  Books'
<1>1. CASE Elsewhere
  BY <1>1 DEF Elsewhere, Books, IdsMatchInflight, FreshId, Counted, DrainedTable
<1>2. CASE Sends
  BY <1>2 DEF Sends, Books, IdsMatchInflight, FreshId, Counted, DrainedTable
<1>3. CASE Stops
  BY <1>3 DEF Stops, Books, IdsMatchInflight, FreshId, Counted, DrainedTable
<1>4. CASE Samples
  BY <1>4 DEF Samples, Books, IdsMatchInflight, FreshId, Counted, DrainedTable
<1>5. CASE Finishes
  BY <1>5 DEF Finishes, Books, IdsMatchInflight, FreshId, Counted, DrainedTable
<1> QED
  BY <1>1, <1>2, <1>3, <1>4, <1>5

\* Messages are never taken back.
LEMMA ErrorsGrow ==
  ASSUME BookStep
  PROVE  errors \subseteq errors'
BY DEF BookStep, Elsewhere, Sends, Requests, Responds, Stops, Samples, Finishes,
       core_req_process, core_resp_process

\* The books at the start.
LEMMA InitBooks == Init => Books
<1> SUFFICES ASSUME Init PROVE Books
  OBVIOUS
<1>1. /\ inflight = <<>> /\ ids = {} /\ nbNeed = 0 /\ nbResp = 0
      /\ drv = [pc |-> "idle", t |-> None]
  BY DEF Init, ScoreboardInit
<1>2. DOMAIN inflight = {} /\ drv.pc = "idle"
  BY <1>1
<1>3. IsFiniteSet(DOMAIN inflight) /\ Cardinality(DOMAIN inflight) = 0
  BY <1>2, FS_EmptySet
<1> QED
  BY <1>1, <1>2, <1>3 DEF Books, IdsMatchInflight, FreshId, Counted, DrainedTable

\* As long as no message is printed, every step keeps the books.
LEMMA NextBookInv ==
  ASSUME BookInv, [Next]_vars
  PROVE  BookInv'
<1>1. BookStep
  BY NextBook
<1>2. SUFFICES ASSUME errors' \cap BookMessages = {} PROVE Books'
  BY DEF BookInv
<1>3. Books
  BY <1>1, <1>2, ErrorsGrow DEF BookInv
<1> QED
  BY <1>1, <1>2, <1>3, RequestBooks, ResponseBooks, OtherBooks DEF BookStep

(* As long as the scoreboard has not complained of a response that it did  *)
(* not expect or of a full queue of atomics, its books agree with what the *)
(* sequence and the driver hold, whatever the cache does.                  *)
THEOREM BooksKept == Spec => []BookInv
<1>1. Init => BookInv
  BY InitBooks DEF BookInv
<1>2. BookInv /\ [Next]_vars => BookInv'
  BY NextBookInv
<1> QED
  BY <1>1, <1>2, PTL DEF Spec

(* Identifiers are neither leaked nor freed early in a run without an      *)
(* error: the allocated ones are those of the table of the scoreboard and  *)
(* the one that the driver shows to the cache.                             *)
THEOREM IdsNotLeaked == Spec => [](NoFalseError => IdsMatchInflight)
<1>1. BookInv => (NoFalseError => IdsMatchInflight)
  BY DEF BookInv, Books, NoFalseError
<1> QED
  BY BooksKept, <1>1, PTL

\* With such books nothing is missing when the simulation stops.
LEMMA FinishBooks ==
  ASSUME Books
  PROVE  FinishClean
<1>1. ASSUME Finished PROVE FinalErrors = {} /\ inflight = <<>>
  <2>1. inflight = <<>> /\ drv.pc = "finish"
    BY <1>1 DEF Books, DrainedTable, Finished
  <2>2. DOMAIN inflight = {}
    BY <2>1
  <2>3. nbResp = nbNeed /\ ids = {}
    BY <2>1, <2>2, FS_EmptySet DEF Books, Counted, IdsMatchInflight
  <2> DEFINE c == [missing_responses |-> nbResp # nbNeed, unresponded_ids |-> ids # {}]
  <2>4. \A m \in DOMAIN c : ~c[m]
    <3>1. DOMAIN c = {"missing_responses", "unresponded_ids"}
      OBVIOUS
    <3>2. c = [missing_responses |-> FALSE, unresponded_ids |-> FALSE]
      BY <2>3
    <3>3. ~c["missing_responses"] /\ ~c["unresponded_ids"]
      <4> HIDE DEF c
      <4> QED
        BY <3>2
    <3> QED
      BY <3>1, <3>3
  <2>5. FinalErrors = Report(c)
    BY DEF FinalErrors
  <2>6. Report(c) = {}
    <3> HIDE DEF c
    <3> QED
      BY <2>4 DEF Report
  <2> QED
    BY <2>1, <2>5, <2>6
<1> QED
  BY <1>1 DEF FinishClean

(* A run that printed no error until its end prints none at its end: the   *)
(* driver stopped it on a table that was empty, and what the destructor of *)
(* the scoreboard then counts agrees.                                      *)
THEOREM FinishesClean == Spec => [](NoFalseError => FinishClean)
<1>1. BookInv => (NoFalseError => FinishClean)
  BY FinishBooks DEF BookInv, NoFalseError
<1> QED
  BY BooksKept, <1>1, PTL

----------------------------------------------------------------------------
(* The way of a write through the memory model                             *)

\* The identifiers of writes.
WId == WriteIds \cup {UcId}

\* A sequence of requests or responses that carry such an identifier.
FlitSeq(s) ==
  /\ \E S : s \in Seq(S)
  /\ \A i \in 1 .. Len(s) : "id" \in DOMAIN s[i] /\ s[i].id \in WId
FlitIds(s) == [i \in 1 .. Len(s) |-> s[i].id]

\* Concatenation, which most proofs use by its laws only.
Cat(p, q) == p \o q

\* The identifiers of such a sequence.
LEMMA FlitType ==
  ASSUME NEW s, FlitSeq(s)
  PROVE  /\ FlitIds(s) \in Seq(WId) /\ Len(FlitIds(s)) = Len(s) /\ Len(s) \in Nat
         /\ \A i \in 1 .. Len(s) : FlitIds(s)[i] = s[i].id
<1>1. PICK S : s \in Seq(S)
  BY DEF FlitSeq
<1>2. Len(s) \in Nat
  BY <1>1
<1>3. FlitIds(s) \in [1 .. Len(s) -> WId]
  BY <1>2 DEF FlitSeq, FlitIds
<1>4. FlitIds(s) \in Seq(WId)
  BY <1>2, <1>3, SeqDef
<1> QED
  BY <1>2, <1>3, <1>4, LenProperties DEF FlitIds

\* One more request comes last.
LEMMA FlitAppend ==
  ASSUME NEW s, FlitSeq(s), NEW x, "id" \in DOMAIN x, x.id \in WId
  PROVE  /\ FlitSeq(Append(s, x)) /\ Append(s, x) # <<>>
         /\ FlitIds(Append(s, x)) = Cat(FlitIds(s), <<x.id>>)
         /\ s # <<>> => Tail(Append(s, x)) = Append(Tail(s), x)
<1>1. PICK S : s \in Seq(S)
  BY DEF FlitSeq
<1> DEFINE T == S \cup {x}
           a == Append(s, x)
<1>2. s \in Seq(T) /\ x \in T
  BY <1>1, SeqMonotonic
<1> HIDE DEF T
<1>3. /\ a \in Seq(T) /\ a # <<>> /\ Len(a) = Len(s) + 1 /\ Len(s) \in Nat
      /\ \A i \in 1 .. Len(s) : a[i] = s[i]
      /\ a[Len(s) + 1] = x
  BY <1>2, AppendProperties
<1>4. s # <<>> => Tail(a) = Append(Tail(s), x)
  BY <1>2, HeadTailAppend
<1> HIDE DEF a
<1>5. FlitSeq(a)
  BY <1>3 DEF FlitSeq
<1>6. FlitIds(a) = FlitIds(s) \o <<x.id>>
  <2>1. /\ FlitIds(a) \in Seq(WId) /\ Len(FlitIds(a)) = Len(s) + 1
        /\ \A i \in 1 .. Len(s) + 1 : FlitIds(a)[i] = a[i].id
    BY <1>3, <1>5, FlitType
  <2>2. /\ FlitIds(s) \in Seq(WId) /\ Len(FlitIds(s)) = Len(s)
        /\ \A i \in 1 .. Len(s) : FlitIds(s)[i] = s[i].id
    BY FlitType
  <2> DEFINE b == FlitIds(s) \o <<x.id>>
  <2>3. /\ b \in Seq(WId) /\ Len(b) = Len(s) + 1
        /\ \A i \in 1 .. Len(s) : b[i] = FlitIds(s)[i]
        /\ b[Len(s) + 1] = x.id
    BY <1>3, <2>2
  <2>4. \A i \in 1 .. Len(s) + 1 : FlitIds(a)[i] = b[i]
    <3> SUFFICES ASSUME NEW i \in 1 .. Len(s) + 1 PROVE FlitIds(a)[i] = b[i]
      OBVIOUS
    <3> HIDE DEF b
    <3>1. CASE i \in 1 .. Len(s)
      BY <1>3, <2>1, <2>2, <2>3, <3>1
    <3>2. CASE i = Len(s) + 1
      BY <1>3, <2>1, <2>3, <3>2
    <3> QED
      BY <1>3, <3>1, <3>2
  <2> HIDE DEF b
  <2>5. FlitIds(a) = b
    BY <2>1, <2>3, <2>4, SeqEqual
  <2> QED
    BY <2>5 DEF b
<1> QED
  BY <1>3, <1>4, <1>5, <1>6 DEF a, Cat

\* The first request leaves.
LEMMA FlitTail ==
  ASSUME NEW s, FlitSeq(s), s # <<>>
  PROVE  /\ FlitSeq(Tail(s))
         /\ FlitIds(s) = Cat(<<Head(s).id>>, FlitIds(Tail(s)))
         /\ "id" \in DOMAIN Head(s) /\ Head(s).id \in WId
         /\ Len(s) > 1 => Tail(s) # <<>>
<1>1. PICK S : s \in Seq(S)
  BY DEF FlitSeq
<1>2. /\ Tail(s) \in Seq(S) /\ Len(Tail(s)) = Len(s) - 1 /\ Len(s) \in Nat \ {0}
      /\ \A i \in 1 .. Len(s) - 1 : Tail(s)[i] = s[i + 1]
      /\ Head(s) = s[1]
  BY <1>1, HeadTailProperties, EmptySeq
<1> DEFINE b == Tail(s)  h == Head(s)
<1> HIDE DEF b, h
<1>3. FlitSeq(b) /\ "id" \in DOMAIN h /\ h.id \in WId
  BY <1>2 DEF FlitSeq, b, h
<1>4. FlitIds(s) = <<h.id>> \o FlitIds(b)
  <2>1. /\ FlitIds(s) \in Seq(WId) /\ Len(FlitIds(s)) = Len(s)
        /\ \A i \in 1 .. Len(s) : FlitIds(s)[i] = s[i].id
    BY FlitType
  <2>2. /\ FlitIds(b) \in Seq(WId) /\ Len(FlitIds(b)) = Len(b)
        /\ \A i \in 1 .. Len(b) : FlitIds(b)[i] = b[i].id
    BY <1>3, FlitType
  <2> DEFINE c == <<h.id>> \o FlitIds(b)
  <2>3. <<h.id>> \in Seq(WId) /\ Len(<<h.id>>) = 1 /\ <<h.id>>[1] = h.id
    BY <1>3
  <2>4. /\ c \in Seq(WId) /\ Len(c) = 1 + Len(b)
        /\ \A i \in 1 .. 1 + Len(b) : c[i] = IF i <= 1 THEN <<h.id>>[i] ELSE FlitIds(b)[i - 1]
    BY <2>2, <2>3, ConcatProperties
  <2> HIDE DEF c
  <2>5. \A i \in 1 .. Len(s) : FlitIds(s)[i] = c[i]
    <3> SUFFICES ASSUME NEW i \in 1 .. Len(s) PROVE FlitIds(s)[i] = c[i]
      OBVIOUS
    <3>1. CASE i = 1
      BY <1>2, <2>1, <2>3, <2>4, <3>1 DEF h, b
    <3>2. CASE i # 1
      <4>1. i - 1 \in 1 .. Len(b) /\ i \in 1 .. 1 + Len(b) /\ ~(i <= 1) /\ i - 1 + 1 = i
        BY <1>2, <3>2 DEF b
      <4>2. b[i - 1] = s[i]
        BY <1>2, <4>1 DEF b
      <4> QED
        BY <2>1, <2>2, <2>4, <4>1, <4>2
    <3> QED
      BY <3>1, <3>2
  <2>6. FlitIds(s) = c
    BY <1>2, <2>1, <2>4, <2>5, SeqEqual DEF b
  <2> QED
    BY <2>6 DEF c
<1>5. ASSUME Len(s) > 1 PROVE b # <<>>
  <2>1. Len(b) > 0
    BY <1>2, <1>5 DEF b
  <2> QED
    BY <2>1
<1> QED
  BY <1>3, <1>4, <1>5 DEF b, h, Cat

\* No element occurs twice; the elements.
Distinct(q) == \A i, j \in 1 .. Len(q) : i # j => q[i] # q[j]
Elements(q) == {q[i] : i \in 1 .. Len(q)}

\* The elements of two sequences in a row.
LEMMA ConcatElements ==
  ASSUME NEW S, NEW p \in Seq(S), NEW q \in Seq(S)
  PROVE  Elements(p \o q) = Elements(p) \cup Elements(q)
<1> DEFINE r == p \o q
<1>1. /\ r \in Seq(S) /\ Len(r) = Len(p) + Len(q) /\ Len(p) \in Nat /\ Len(q) \in Nat
      /\ \A i \in 1 .. Len(p) + Len(q) : r[i] = IF i <= Len(p) THEN p[i] ELSE q[i - Len(p)]
  BY ConcatProperties
<1> HIDE DEF r
<1>2. ASSUME NEW x \in Elements(r) PROVE x \in Elements(p) \cup Elements(q)
  <2>1. PICK i \in 1 .. Len(p) + Len(q) : x = r[i]
    BY <1>1, <1>2 DEF Elements
  <2>2. CASE i <= Len(p)
    BY <1>1, <2>1, <2>2 DEF Elements
  <2>3. CASE ~(i <= Len(p))
    <3>1. i - Len(p) \in 1 .. Len(q) /\ x = q[i - Len(p)]
      BY <1>1, <2>1, <2>3
    <3> QED
      BY <3>1 DEF Elements
  <2> QED
    BY <2>2, <2>3
<1>3. ASSUME NEW x \in Elements(p) PROVE x \in Elements(r)
  <2>1. PICK i \in 1 .. Len(p) : x = p[i]
    BY <1>3 DEF Elements
  <2>2. i \in 1 .. Len(r) /\ r[i] = x
    BY <1>1, <2>1
  <2> QED
    BY <2>2 DEF Elements
<1>4. ASSUME NEW x \in Elements(q) PROVE x \in Elements(r)
  <2>1. PICK i \in 1 .. Len(q) : x = q[i]
    BY <1>4 DEF Elements
  <2>2. /\ i + Len(p) \in 1 .. Len(p) + Len(q) /\ ~(i + Len(p) <= Len(p))
        /\ (i + Len(p)) - Len(p) = i
    BY <1>1
  <2>3. i + Len(p) \in 1 .. Len(r) /\ r[i + Len(p)] = x
    BY <1>1, <2>1, <2>2
  <2> QED
    BY <2>3 DEF Elements
<1> QED
  BY <1>2, <1>3, <1>4 DEF r

\* The element of a sequence of length one.
LEMMA OneElement ==
  ASSUME NEW x
  PROVE  Elements(<<x>>) = {x}
BY DEF Elements

\* A new element comes last.
LEMMA DistinctAppend ==
  ASSUME NEW S, NEW q \in Seq(S), NEW x \in S, Distinct(q), x \notin Elements(q)
  PROVE  Distinct(Cat(q, <<x>>))
<1> DEFINE r == q \o <<x>>
<1>1. /\ Len(r) = Len(q) + 1 /\ Len(q) \in Nat
      /\ \A i \in 1 .. Len(q) : r[i] = q[i]
      /\ r[Len(q) + 1] = x
  OBVIOUS
<1> HIDE DEF r
<1>2. \A i \in 1 .. Len(q) : q[i] # x
  BY DEF Elements
<1>3. ASSUME NEW i \in 1 .. Len(r), NEW j \in 1 .. Len(r), i # j PROVE r[i] # r[j]
  <2>1. CASE i \in 1 .. Len(q) /\ j \in 1 .. Len(q)
    BY <1>1, <1>3, <2>1 DEF Distinct
  <2>2. CASE i = Len(q) + 1
    <3>1. j \in 1 .. Len(q)
      BY <1>1, <1>3, <2>2
    <3> QED
      BY <1>1, <1>2, <2>2, <3>1
  <2>3. CASE j = Len(q) + 1
    <3>1. i \in 1 .. Len(q)
      BY <1>1, <1>3, <2>3
    <3> QED
      BY <1>1, <1>2, <2>3, <3>1
  <2> QED
    BY <1>1, <2>1, <2>2, <2>3
<1>4. Distinct(r)
  BY <1>3 DEF Distinct
<1> QED
  BY <1>4 DEF r, Cat

\* The first element leaves.
LEMMA DistinctDrop ==
  ASSUME NEW S, NEW q \in Seq(S), NEW x \in S, Distinct(Cat(<<x>>, q))
  PROVE  Distinct(q) /\ x \notin Elements(q)
<1> DEFINE r == <<x>> \o q
<1>1. /\ <<x>> \in Seq(S) /\ Len(<<x>>) = 1 /\ <<x>>[1] = x
  OBVIOUS
<1>2. /\ Len(r) = 1 + Len(q) /\ Len(q) \in Nat
      /\ \A i \in 1 .. 1 + Len(q) : r[i] = IF i <= 1 THEN <<x>>[i] ELSE q[i - 1]
  BY <1>1, ConcatProperties
<1> HIDE DEF r
<1>3. Distinct(r)
  BY DEF r, Cat
<1>4. ASSUME NEW i \in 1 .. Len(q) PROVE i + 1 \in 1 .. Len(r) /\ r[i + 1] = q[i]
  <2>1. i + 1 \in 1 .. 1 + Len(q) /\ ~(i + 1 <= 1) /\ (i + 1) - 1 = i
    BY <1>2
  <2> QED
    BY <1>2, <2>1
<1>5. 1 \in 1 .. Len(r) /\ r[1] = x
  BY <1>1, <1>2
<1>6. ASSUME NEW i \in 1 .. Len(q), NEW j \in 1 .. Len(q), i # j PROVE q[i] # q[j]
  <2>1. i + 1 # j + 1
    BY <1>6
  <2>2. r[i + 1] # r[j + 1]
    BY <1>3, <1>4, <2>1 DEF Distinct
  <2> QED
    BY <1>4, <2>2
<1>7. ASSUME NEW i \in 1 .. Len(q) PROVE q[i] # x
  <2>1. i + 1 # 1
    OBVIOUS
  <2>2. r[i + 1] # r[1]
    BY <1>3, <1>4, <1>5, <2>1 DEF Distinct
  <2> QED
    BY <1>4, <1>5, <2>2
<1>8. Distinct(q)
  BY <1>6, Zenon DEF Distinct
<1> QED
  BY <1>7, <1>8 DEF Elements

\* There are not more distinct elements than there are values.
LEMMA DistinctBound ==
  ASSUME NEW S, NEW q \in Seq(S), Distinct(q), IsFiniteSet(S)
  PROVE  Len(q) <= Cardinality(S)
<1>1. Len(q) \in Nat /\ q \in [1 .. Len(q) -> S]
  BY LenProperties
<1>2. IsFiniteSet(1 .. Len(q)) /\ Cardinality(1 .. Len(q)) = Len(q)
  BY <1>1, FS_Interval
<1>3. Cardinality(S) \in Nat
  BY FS_CardinalityType
<1>4. ASSUME Cardinality(S) < Len(q) PROVE FALSE
  <2>1. \E i, j \in 1 .. Len(q) : i # j /\ q[i] = q[j]
    BY <1>1, <1>2, <1>4, FS_PigeonHole
  <2> QED
    BY <2>1 DEF Distinct
<1> QED
  BY <1>1, <1>3, <1>4

\* The laws of concatenation.
LEMMA CatLaws ==
  ASSUME NEW S
  PROVE  /\ \A p, q \in Seq(S) : /\ Cat(p, q) \in Seq(S)
                                 /\ Len(Cat(p, q)) = Len(p) + Len(q)
                                 /\ Elements(Cat(p, q)) = Elements(p) \cup Elements(q)
         /\ \A p, q, r \in Seq(S) : Cat(Cat(p, q), r) = Cat(p, Cat(q, r))
         /\ \A p \in Seq(S) : Cat(p, <<>>) = p /\ Cat(<<>>, p) = p
<1>1. ASSUME NEW p \in Seq(S), NEW q \in Seq(S)
      PROVE  /\ Cat(p, q) \in Seq(S) /\ Len(Cat(p, q)) = Len(p) + Len(q)
             /\ Elements(Cat(p, q)) = Elements(p) \cup Elements(q)
  BY ConcatElements, ConcatProperties DEF Cat
<1>2. ASSUME NEW p \in Seq(S), NEW q \in Seq(S), NEW r \in Seq(S)
      PROVE  Cat(Cat(p, q), r) = Cat(p, Cat(q, r))
  BY ConcatAssociative DEF Cat
<1>3. ASSUME NEW p \in Seq(S) PROVE Cat(p, <<>>) = p /\ Cat(<<>>, p) = p
  BY ConcatEmptySeq DEF Cat
<1> QED
  BY <1>1, <1>2, <1>3

\* Five sequences in a row.
Chain(a, b, c, d, e) == Cat(Cat(Cat(Cat(a, b), c), d), e)

\* The length and the elements of five sequences in a row.
LEMMA ChainType ==
  ASSUME NEW S, NEW a \in Seq(S), NEW b \in Seq(S), NEW c \in Seq(S), NEW d \in Seq(S),
         NEW e \in Seq(S)
  PROVE  /\ Chain(a, b, c, d, e) \in Seq(S)
         /\ Len(Chain(a, b, c, d, e)) = Len(a) + Len(b) + Len(c) + Len(d) + Len(e)
         /\ Elements(Chain(a, b, c, d, e)) = Elements(a) \cup Elements(b) \cup Elements(c)
                                               \cup Elements(d) \cup Elements(e)
<1>0. \A u, v \in Seq(S) : /\ Cat(u, v) \in Seq(S) /\ Len(Cat(u, v)) = Len(u) + Len(v)
                           /\ Elements(Cat(u, v)) = Elements(u) \cup Elements(v)
  BY CatLaws
<1> DEFINE p == Cat(a, b)
           q == Cat(p, c)
           r == Cat(q, d)
           t == Cat(r, e)
<1>1. /\ p \in Seq(S) /\ Len(p) = Len(a) + Len(b)
      /\ Elements(p) = Elements(a) \cup Elements(b)
  BY <1>0
<1> HIDE DEF p
<1>2. /\ q \in Seq(S) /\ Len(q) = Len(p) + Len(c)
      /\ Elements(q) = Elements(p) \cup Elements(c)
  BY <1>0, <1>1
<1> HIDE DEF q
<1>3. /\ r \in Seq(S) /\ Len(r) = Len(q) + Len(d)
      /\ Elements(r) = Elements(q) \cup Elements(d)
  BY <1>0, <1>2
<1> HIDE DEF r
<1>4. /\ t \in Seq(S) /\ Len(t) = Len(r) + Len(e)
      /\ Elements(t) = Elements(r) \cup Elements(e)
  BY <1>0, <1>3
<1> HIDE DEF t
<1>5. Chain(a, b, c, d, e) = t
  BY DEF Chain, p, q, r, t
<1>6. Elements(t) = Elements(a) \cup Elements(b) \cup Elements(c) \cup Elements(d) \cup Elements(e)
  BY <1>1, <1>2, <1>3, <1>4, Zenon
<1>7. Len(t) = Len(a) + Len(b) + Len(c) + Len(d) + Len(e)
  BY <1>1, <1>2, <1>3, <1>4
<1> QED
  BY <1>4, <1>5, <1>6, <1>7

\* An element moves to the neighbour, comes in at the end or leaves at the front.
LEMMA ChainMoves ==
  ASSUME NEW S, NEW a \in Seq(S), NEW b \in Seq(S), NEW c \in Seq(S), NEW d \in Seq(S),
         NEW e \in Seq(S), NEW x \in S
  PROVE  /\ Chain(<<>>, Cat(<<x>>, b), c, d, e) = Chain(<<x>>, b, c, d, e)
         /\ Chain(a, b, <<x>>, d, e) = Chain(a, Cat(b, <<x>>), <<>>, d, e)
         /\ Chain(a, b, <<>>, Cat(<<x>>, d), e) = Chain(a, b, <<x>>, d, e)
         /\ Chain(a, b, c, d, Cat(<<x>>, e)) = Chain(a, b, c, Cat(d, <<x>>), e)
         /\ Chain(a, b, c, d, Cat(e, <<x>>)) = Cat(Chain(a, b, c, d, e), <<x>>)
         /\ Chain(<<x>>, b, c, d, e) = Cat(<<x>>, Chain(<<>>, b, c, d, e))
<1> DEFINE o == <<x>>
           n == <<>>
<1>1. o \in Seq(S) /\ n \in Seq(S)
  BY EmptySeq
<1>2. \A p \in Seq(S) : Cat(p, n) = p /\ Cat(n, p) = p
  BY CatLaws
<1> HIDE DEF o, n
<1>3. /\ \A p, q \in Seq(S) : Cat(p, q) \in Seq(S)
      /\ \A p, q, r \in Seq(S) : Cat(Cat(p, q), r) = Cat(p, Cat(q, r))
  BY CatLaws
<1>5. Chain(n, Cat(o, b), c, d, e) = Chain(o, b, c, d, e)
  BY <1>1, <1>2, <1>3 DEF Chain
<1>6. Chain(a, b, o, d, e) = Chain(a, Cat(b, o), n, d, e)
  <2>1. Cat(Cat(a, b), o) = Cat(Cat(a, Cat(b, o)), n)
    BY <1>1, <1>2, <1>3
  <2> QED
    BY <2>1 DEF Chain
<1>7. Chain(a, b, n, Cat(o, d), e) = Chain(a, b, o, d, e)
  <2>1. Cat(Cat(Cat(a, b), n), Cat(o, d)) = Cat(Cat(Cat(a, b), o), d)
    BY <1>1, <1>2, <1>3
  <2> QED
    BY <2>1 DEF Chain
<1>8. Chain(a, b, c, d, Cat(o, e)) = Chain(a, b, c, Cat(d, o), e)
  <2> DEFINE p == Cat(Cat(a, b), c)
  <2>1. p \in Seq(S)
    BY <1>3
  <2> HIDE DEF p
  <2>2. Cat(Cat(p, d), Cat(o, e)) = Cat(Cat(p, Cat(d, o)), e)
    BY <1>1, <1>3, <2>1
  <2> QED
    BY <2>2 DEF Chain, p
<1>9. Chain(a, b, c, d, Cat(e, o)) = Cat(Chain(a, b, c, d, e), o)
  <2> DEFINE p == Cat(Cat(Cat(a, b), c), d)
  <2>1. p \in Seq(S)
    BY <1>3
  <2> HIDE DEF p
  <2>2. Cat(p, Cat(e, o)) = Cat(Cat(p, e), o)
    BY <1>1, <1>3, <2>1
  <2> QED
    BY <2>2 DEF Chain, p
<1>10. Chain(o, b, c, d, e) = Cat(o, Chain(n, b, c, d, e))
  <2>1. Cat(n, b) = b
    BY <1>2
  <2>2. Cat(Cat(o, b), c) = Cat(o, Cat(b, c)) /\ Cat(b, c) \in Seq(S)
    BY <1>1, <1>3
  <2>3. /\ Cat(Cat(o, Cat(b, c)), d) = Cat(o, Cat(Cat(b, c), d))
        /\ Cat(Cat(b, c), d) \in Seq(S)
    BY <1>1, <1>3, <2>2
  <2>4. Cat(Cat(o, Cat(Cat(b, c), d)), e) = Cat(o, Cat(Cat(Cat(b, c), d), e))
    BY <1>1, <1>3, <2>3
  <2> QED
    BY <2>1, <2>2, <2>3, <2>4 DEF Chain
<1> QED
  BY <1>5, <1>6, <1>7, <1>8, <1>9, <1>10 DEF o, n

\* The writes on their way, the oldest first: the response shown to the cache,
\* those in the fifo, the write being performed, the requests in the fifo and
\* those that the cache shows and that have not entered it.
OutIds == IF wrOut = None THEN <<>> ELSE <<wrOut.id>>
RunIds == IF wp.pc = "meta" THEN <<>> ELSE <<wp.req.id>>
Shown  == IF wa.pc = "last" THEN Tail(wrAddr) ELSE wrAddr
Track  == Chain(OutIds, FlitIds(writeRespFifo), RunIds, FlitIds(writeReqFifo), FlitIds(Shown))

WriteResp == [id : WId, is_atomic : BOOLEAN, error : BOOLEAN]

\* The thread that takes addresses never finds the fifo full, and a request
\* stays shown and in the fifo until the edge at which it is taken.
PathType ==
  /\ wrOut = None \/ wrOut \in WriteResp
  /\ writeRespFifo \in Seq(WriteResp)
  /\ DOMAIN wp = {"pc", "req", "rresp", "resp"}
  /\ wp.pc \in {"meta", "data", "run", "read_resp", "resp"}
  /\ wp.pc # "meta" => "id" \in DOMAIN wp.req /\ wp.req.id \in WId
  /\ wp.pc \in {"read_resp", "resp"} => wp.resp \in WriteResp /\ wp.resp.id = wp.req.id
  /\ FlitSeq(writeReqFifo) /\ FlitSeq(wrAddr)
  /\ wa.pc \in {"idle", "last"}
  /\ wa.pc = "last" => wrAddr # <<>> /\ writeReqFifo # <<>>

\* Each identifier that is busy with a write is on the way once, no other is.
PathInv == PathType /\ Distinct(Track) /\ Elements(Track) = DOMAIN wrBusy

\* The request fifo has a place for every identifier of the write buffer, of
\* the flush controller and of the uncached handler. It has 16 places; there
\* are 8 + 4 + 1 identifiers in default_config.mk, 4 + 4 + 1 in
\* embedded_config.mk and directmap_config.mk, and 16 + 8 + 1, too many, in
\* hpc_config.mk.
FifoHolds == IsFiniteSet(WriteIds) /\ Cardinality(WriteIds) < WriteReqDepth

\* A response is not None.
LEMMA RespIsNot ==
  ASSUME NEW r \in WriteResp
  PROVE  r # None /\ "id" \in DOMAIN r /\ r.id \in WId
<1>1. WId \subseteq MemIds
  BY TestBenchAssumption DEF WId
<1>2. r \in [id : MemIds, is_atomic : BOOLEAN, error : BOOLEAN]
  BY <1>1 DEF WriteResp
<1>3. r # None
  BY <1>2, TestBenchAssumption
<1> QED
  BY <1>3 DEF WriteResp

\* The types of the parts.
LEMMA PathFacts ==
  ASSUME PathType
  PROVE  /\ OutIds \in Seq(WId) /\ RunIds \in Seq(WId)
         /\ FlitSeq(writeRespFifo) /\ FlitIds(writeRespFifo) \in Seq(WId)
         /\ FlitIds(writeReqFifo) \in Seq(WId)
         /\ FlitSeq(Shown) /\ FlitIds(Shown) \in Seq(WId)
<1>1. OutIds \in Seq(WId)
  <2>1. CASE wrOut = None
    BY <2>1, EmptySeq DEF OutIds
  <2>2. CASE wrOut # None
    <3>1. wrOut.id \in WId
      BY <2>2, RespIsNot DEF PathType
    <3> QED
      BY <2>2, <3>1 DEF OutIds
  <2> QED
    BY <2>1, <2>2
<1>2. RunIds \in Seq(WId)
  <2>1. CASE wp.pc = "meta"
    BY <2>1, EmptySeq DEF RunIds
  <2>2. CASE wp.pc # "meta"
    <3>1. wp.req.id \in WId
      BY <2>2 DEF PathType
    <3> QED
      BY <2>2, <3>1 DEF RunIds
  <2> QED
    BY <2>1, <2>2
<1>3. FlitSeq(writeRespFifo)
  <2>1. writeRespFifo \in Seq(WriteResp)
    BY DEF PathType
  <2>2. \A i \in 1 .. Len(writeRespFifo) : writeRespFifo[i] \in WriteResp
    BY <2>1, ElementOfSeq
  <2>3. \A i \in 1 .. Len(writeRespFifo) :
          "id" \in DOMAIN writeRespFifo[i] /\ writeRespFifo[i].id \in WId
    BY <2>2, RespIsNot
  <2> QED
    BY <2>1, <2>3 DEF FlitSeq
<1>4. FlitSeq(Shown)
  BY FlitTail DEF PathType, Shown
<1> QED
  BY <1>1, <1>2, <1>3, <1>4, FlitType DEF PathType

\* A request that has not entered the fifo finds a place in it.
LEMMA FifoRoom ==
  ASSUME FifoHolds, PathInv, wa.pc = "idle", wrAddr # <<>>
  PROVE  Len(writeReqFifo) < WriteReqDepth
<1> DEFINE a == OutIds  b == FlitIds(writeRespFifo)  c == RunIds
           d == FlitIds(writeReqFifo)  e == FlitIds(Shown)
<1>1. a \in Seq(WId) /\ b \in Seq(WId) /\ c \in Seq(WId) /\ d \in Seq(WId) /\ e \in Seq(WId)
  BY PathFacts DEF PathInv
<1>2. Distinct(Chain(a, b, c, d, e))
  BY DEF PathInv, Track
<1>3. Len(d) = Len(writeReqFifo) /\ Len(e) = Len(wrAddr) /\ Len(wrAddr) \in Nat \ {0}
  <2>1. FlitSeq(writeReqFifo) /\ FlitSeq(wrAddr) /\ Shown = wrAddr
    BY DEF PathInv, PathType, Shown
  <2>2. PICK S : wrAddr \in Seq(S)
    BY <2>1 DEF FlitSeq
  <2>3. Len(wrAddr) \in Nat \ {0}
    BY <2>2, EmptySeq
  <2> QED
    BY <2>1, <2>3, FlitType
<1> HIDE DEF a, b, c, d, e
<1>4. /\ Chain(a, b, c, d, e) \in Seq(WId)
      /\ Len(Chain(a, b, c, d, e)) = Len(a) + Len(b) + Len(c) + Len(d) + Len(e)
  BY <1>1, ChainType
<1>5. /\ IsFiniteSet(WId) /\ Cardinality(WId) = Cardinality(WriteIds) + 1
      /\ Cardinality(WriteIds) \in Nat
  <2>1. UcId \notin WriteIds
    BY TestBenchAssumption
  <2> QED
    BY <2>1, FS_AddElement, FS_CardinalityType DEF FifoHolds, WId
<1>6. Len(Chain(a, b, c, d, e)) <= Cardinality(WId)
  BY <1>2, <1>4, <1>5, DistinctBound
<1>7. Len(a) \in Nat /\ Len(b) \in Nat /\ Len(c) \in Nat /\ Len(d) \in Nat /\ Len(e) \in Nat
  BY <1>1, LenProperties
<1>8. WriteReqDepth \in Nat
  BY MemAssumption
<1> QED
  BY <1>3, <1>4, <1>5, <1>6, <1>7, <1>8 DEF FifoHolds

\* A step that leaves the order of the writes as it is.
LEMMA SameTrack ==
  ASSUME PathInv, PathType', Track' = Track, DOMAIN wrBusy' = DOMAIN wrBusy
  PROVE  PathInv'
BY DEF PathInv

\* Nothing that writes go through changes.
PathSame ==
  /\ UNCHANGED <<wrOut, writeRespFifo, wp, writeReqFifo, wa, wrAddr>>
  /\ DOMAIN wrBusy' = DOMAIN wrBusy

\* Such a step keeps the writes on their way.
LEMMA SamePath ==
  ASSUME PathInv, PathSame
  PROVE  PathInv'
<1>1. PathType
  BY DEF PathInv
<1>2. PathType'
  BY <1>1 DEF PathSame, PathType
<1>3. Track' = Track
  BY DEF PathSame, Track, OutIds, RunIds, Shown
<1> QED
  BY <1>2, <1>3, SameTrack DEF PathSame

\* The cache sends a write with an identifier that is free.
PathSend ==
  \E x : /\ "id" \in DOMAIN x /\ x.id \in WId \ DOMAIN wrBusy
         /\ wrAddr' = Append(wrAddr, x)
         /\ DOMAIN wrBusy' = DOMAIN wrBusy \cup {x.id}
         /\ UNCHANGED <<wrOut, writeRespFifo, wp, writeReqFifo, wa>>

\* A write that the cache sends joins the end of the way.
LEMMA SendPath ==
  ASSUME PathInv, PathSend
  PROVE  PathInv'
<1>1. PICK x : /\ "id" \in DOMAIN x /\ x.id \in WId \ DOMAIN wrBusy
               /\ wrAddr' = Append(wrAddr, x)
               /\ DOMAIN wrBusy' = DOMAIN wrBusy \cup {x.id}
               /\ UNCHANGED <<wrOut, writeRespFifo, wp, writeReqFifo, wa>>
  BY DEF PathSend
<1>2. PathType /\ FlitSeq(wrAddr) /\ FlitSeq(Shown)
  BY PathFacts DEF PathInv, PathType
<1>3. /\ FlitSeq(wrAddr') /\ wrAddr' # <<>>
      /\ wrAddr # <<>> => Tail(wrAddr') = Append(Tail(wrAddr), x)
  BY <1>1, <1>2, FlitAppend
<1>4. PathType'
  BY <1>1, <1>2, <1>3 DEF PathType
<1>5. Shown' = Append(Shown, x)
  BY <1>1, <1>2, <1>3 DEF Shown, PathType
<1>6. FlitIds(Shown') = Cat(FlitIds(Shown), <<x.id>>)
  BY <1>1, <1>2, <1>5, FlitAppend
<1> DEFINE a == OutIds  b == FlitIds(writeRespFifo)  c == RunIds
           d == FlitIds(writeReqFifo)  e == FlitIds(Shown)
<1>7. Track' = Chain(a, b, c, d, Cat(e, <<x.id>>))
  BY <1>1, <1>6 DEF Track, OutIds, RunIds
<1>8. a \in Seq(WId) /\ b \in Seq(WId) /\ c \in Seq(WId) /\ d \in Seq(WId) /\ e \in Seq(WId)
  BY <1>2, PathFacts
<1>9. Track = Chain(a, b, c, d, e)
  BY DEF Track
<1> HIDE DEF a, b, c, d, e
<1>10. Track' = Cat(Track, <<x.id>>) /\ Track \in Seq(WId)
  <2> DEFINE y == x.id
  <2>1. y \in WId
    BY <1>1
  <2> HIDE DEF y
  <2>2. Chain(a, b, c, d, Cat(e, <<y>>)) = Cat(Chain(a, b, c, d, e), <<y>>)
    BY <1>8, <2>1, ChainMoves
  <2>3. Chain(a, b, c, d, e) \in Seq(WId)
    BY <1>8, ChainType
  <2> QED
    BY <1>7, <1>9, <2>2, <2>3 DEF y
<1>11. x.id \notin Elements(Track) /\ Distinct(Track)
  BY <1>1 DEF PathInv
<1> DEFINE q == Track  y == x.id  r == Track'
<1>12. q \in Seq(WId) /\ y \in WId /\ y \notin Elements(q) /\ Distinct(q) /\ r = Cat(q, <<y>>)
  BY <1>1, <1>10, <1>11
<1> HIDE DEF q, y, r
<1>13. Distinct(r)
  BY <1>12, DistinctAppend
<1>14. Elements(r) = Elements(q) \cup {y}
  <2>1. <<y>> \in Seq(WId) /\ Elements(<<y>>) = {y}
    BY <1>12, OneElement
  <2>2. \A u, v \in Seq(WId) : Elements(Cat(u, v)) = Elements(u) \cup Elements(v)
    BY CatLaws
  <2>3. Elements(Cat(q, <<y>>)) = Elements(q) \cup Elements(<<y>>)
    BY <1>12, <2>1, <2>2
  <2> QED
    BY <1>12, <2>1, <2>3
<1> QED
  BY <1>1, <1>4, <1>13, <1>14 DEF PathInv, q, y, r

\* The cache takes the response that is shown: its identifier is free again.
PathTaken ==
  /\ wrOut # None /\ wrOut' = None
  /\ DOMAIN wrBusy' = DOMAIN wrBusy \ {wrOut.id}
  /\ UNCHANGED <<writeRespFifo, wp, writeReqFifo, wa, wrAddr>>

\* A write that is acknowledged leaves it at the front.
LEMMA TakenPath ==
  ASSUME PathInv, PathTaken
  PROVE  PathInv'
<1>1. PathType
  BY DEF PathInv
<1>2. PathType'
  BY <1>1 DEF PathType, PathTaken
<1>3. wrOut.id \in WId
  BY <1>1, RespIsNot DEF PathType, PathTaken
<1> DEFINE b == FlitIds(writeRespFifo)  c == RunIds
           d == FlitIds(writeReqFifo)  e == FlitIds(Shown)
           x == wrOut.id  q == Track'
<1>4. Track = Chain(<<x>>, b, c, d, e)
  BY DEF Track, OutIds, PathTaken
<1>5. q = Chain(<<>>, b, c, d, e)
  BY DEF Track, OutIds, RunIds, Shown, PathTaken
<1>6. b \in Seq(WId) /\ c \in Seq(WId) /\ d \in Seq(WId) /\ e \in Seq(WId) /\ x \in WId
  BY <1>1, <1>3, PathFacts
<1>7. Distinct(Track) /\ Elements(Track) = DOMAIN wrBusy
  BY DEF PathInv
<1> HIDE DEF b, c, d, e, x, q
<1>8. Track = Cat(<<x>>, q) /\ q \in Seq(WId)
  <2>1. <<>> \in Seq(WId)
    BY EmptySeq
  <2>2. Chain(<<>>, b, c, d, e) \in Seq(WId)
    BY <1>6, <2>1, ChainType
  <2>3. Chain(<<x>>, b, c, d, e) = Cat(<<x>>, Chain(<<>>, b, c, d, e))
    BY <1>6, <2>1, ChainMoves
  <2> QED
    BY <1>4, <1>5, <2>2, <2>3
<1>9. Distinct(q) /\ x \notin Elements(q)
  BY <1>6, <1>7, <1>8, DistinctDrop
<1>10. Elements(Track) = {x} \cup Elements(q)
  <2>1. <<x>> \in Seq(WId) /\ Elements(<<x>>) = {x}
    BY <1>6, OneElement
  <2>2. \A u, v \in Seq(WId) : Elements(Cat(u, v)) = Elements(u) \cup Elements(v)
    BY CatLaws
  <2>3. Elements(Cat(<<x>>, q)) = Elements(<<x>>) \cup Elements(q)
    BY <1>8, <2>1, <2>2
  <2> QED
    BY <1>8, <2>1, <2>3
<1>11. Elements(q) = DOMAIN wrBusy \ {x}
  BY <1>7, <1>9, <1>10
<1>12. DOMAIN wrBusy' = DOMAIN wrBusy \ {x}
  BY DEF PathTaken, x
<1> QED
  BY <1>2, <1>9, <1>11, <1>12 DEF PathInv, q

\* The thread that takes addresses shows ready: the request enters the fifo.
LEMMA ReadyPath ==
  ASSUME FifoHolds, PathInv, MemAddrReady
  PROVE  PathInv'
<1> DEFINE h == Head(wrAddr)
<1>1. /\ wrAddr # <<>> /\ wa.pc = "idle"
      /\ wa' = Ready(writeReqFifo, h) /\ writeReqFifo' = Forward(writeReqFifo, h)
      /\ UNCHANGED <<wrOut, writeRespFifo, wp, wrAddr, wrBusy>>
  BY DEF MemAddrReady, AddrReady, respVars, cacheVars, chVars
<1>2. PathType /\ FlitSeq(wrAddr) /\ FlitSeq(writeReqFifo)
  BY DEF PathInv, PathType
<1>3. Len(writeReqFifo) < WriteReqDepth
  BY <1>1, FifoRoom
<1>4. wa'.pc = "last" /\ writeReqFifo' = Append(writeReqFifo, h)
  BY <1>1, <1>3 DEF Ready, Forward
<1>5. /\ FlitSeq(Tail(wrAddr)) /\ FlitIds(wrAddr) = Cat(<<h.id>>, FlitIds(Tail(wrAddr)))
      /\ "id" \in DOMAIN h /\ h.id \in WId
  BY <1>1, <1>2, FlitTail
<1>6. /\ FlitSeq(writeReqFifo') /\ writeReqFifo' # <<>>
      /\ FlitIds(writeReqFifo') = Cat(FlitIds(writeReqFifo), <<h.id>>)
  BY <1>2, <1>4, <1>5, FlitAppend
<1>7. PathType'
  BY <1>1, <1>2, <1>4, <1>6 DEF PathType
<1> DEFINE a == OutIds  b == FlitIds(writeRespFifo)  c == RunIds
           d == FlitIds(writeReqFifo)  e == FlitIds(Tail(wrAddr))  x == h.id
<1>8. Track = Chain(a, b, c, d, Cat(<<x>>, e))
  BY <1>1, <1>5 DEF Track, Shown
<1>9. Track' = Chain(a, b, c, Cat(d, <<x>>), e)
  BY <1>1, <1>4, <1>6 DEF Track, OutIds, RunIds, Shown
<1>10. a \in Seq(WId) /\ b \in Seq(WId) /\ c \in Seq(WId) /\ d \in Seq(WId) /\ e \in Seq(WId)
       /\ x \in WId
  BY <1>2, <1>5, PathFacts, FlitType
<1> HIDE DEF a, b, c, d, e, x
<1>11. Chain(a, b, c, d, Cat(<<x>>, e)) = Chain(a, b, c, Cat(d, <<x>>), e)
  BY <1>10, ChainMoves
<1>12. Track' = Track
  BY <1>8, <1>9, <1>11
<1> QED
  BY <1>1, <1>7, <1>12, SameTrack

\* The edge at which the cache sees the ready: it goes on to its next request.
LEMMA EdgePath ==
  ASSUME PathInv, MemAddrEdge
  PROVE  PathInv'
<1>1. PathType
  BY DEF PathInv
<1>2. wa.pc = "last" /\ wrAddr # <<>> /\ FlitSeq(wrAddr)
  BY <1>1 DEF PathType, MemAddrEdge, AddrEdge
<1>3. /\ wa' = [pc |-> "idle", r |-> None] /\ writeReqFifo' = writeReqFifo
      /\ wrAddr' = Tail(wrAddr)
      /\ UNCHANGED <<wrOut, writeRespFifo, wp, wrBusy>>
  BY <1>2 DEF MemAddrEdge, AddrEdge, Rest, respVars
<1>4. FlitSeq(wrAddr') /\ wa'.pc = "idle"
  BY <1>2, <1>3, FlitTail
<1>5. PathType'
  BY <1>1, <1>3, <1>4 DEF PathType
<1>6. Shown' = Shown
  BY <1>2, <1>3, <1>4 DEF Shown
<1>7. Track' = Track
  BY <1>3, <1>6 DEF Track, OutIds, RunIds
<1> QED
  BY <1>3, <1>5, <1>7, SameTrack

\* The thread that performs writes takes a request.
LEMMA MetaPath ==
  ASSUME PathInv, WriteMeta, UNCHANGED cacheVars
  PROVE  PathInv'
<1>1. PathType /\ FlitSeq(writeReqFifo)
  BY DEF PathInv, PathType
<1> DEFINE h == Head(writeReqFifo)
<1>2. /\ wp.pc = "meta" /\ Len(writeReqFifo) > (IF wa.pc = "last" THEN 1 ELSE 0)
      /\ wp' = [wp EXCEPT !.pc = "data", !.req = h]
      /\ writeReqFifo' = Tail(writeReqFifo)
      /\ UNCHANGED <<wrOut, writeRespFifo, wa, wrAddr, wrBusy>>
  BY DEF WriteMeta, Readable, waVars, respVars, cacheVars, chVars
<1>3. writeReqFifo # <<>>
  <2>1. Len(writeReqFifo) # 0
    BY <1>2
  <2> QED
    BY <2>1
<1>4. /\ FlitSeq(Tail(writeReqFifo))
      /\ FlitIds(writeReqFifo) = Cat(<<h.id>>, FlitIds(Tail(writeReqFifo)))
      /\ "id" \in DOMAIN h /\ h.id \in WId
      /\ wa.pc = "last" => Tail(writeReqFifo) # <<>>
  BY <1>1, <1>2, <1>3, FlitTail
<1>5. wp'.pc = "data" /\ wp'.req = h /\ DOMAIN wp' = DOMAIN wp
  BY <1>1, <1>2 DEF PathType
<1>6. PathType'
  BY <1>1, <1>2, <1>4, <1>5 DEF PathType
<1> DEFINE a == OutIds  b == FlitIds(writeRespFifo)
           d == FlitIds(Tail(writeReqFifo))  e == FlitIds(Shown)  x == h.id
<1>7. Track = Chain(a, b, <<>>, Cat(<<x>>, d), e)
  BY <1>2, <1>4 DEF Track, RunIds
<1>8. Track' = Chain(a, b, <<x>>, d, e)
  BY <1>2, <1>5 DEF Track, OutIds, RunIds, Shown
<1>9. a \in Seq(WId) /\ b \in Seq(WId) /\ d \in Seq(WId) /\ e \in Seq(WId) /\ x \in WId
  BY <1>1, <1>4, PathFacts, FlitType
<1> HIDE DEF a, b, d, e, x
<1>10. Chain(a, b, <<>>, Cat(<<x>>, d), e) = Chain(a, b, <<x>>, d, e)
  <2>1. <<>> \in Seq(WId)
    BY EmptySeq
  <2> QED
    BY <1>9, <2>1, ChainMoves
<1>11. Track' = Track
  BY <1>7, <1>8, <1>10
<1> QED
  BY <1>2, <1>6, <1>11, SameTrack

\* The write that is performed goes on.
LEMMA RunPath ==
  ASSUME PathInv, WriteData \/ WriteRun(errorsegs) \/ WritePushRead, UNCHANGED cacheVars
  PROVE  PathInv'
<1>1. PathType
  BY DEF PathInv
<1>2. UNCHANGED <<wrOut, writeRespFifo, writeReqFifo, wa, wrAddr, wrBusy>>
  BY DEF WriteData, WriteRun, WritePushRead, waVars, respVars, cacheVars, chVars
<1>3. /\ wp.pc # "meta" /\ wp'.pc # "meta" /\ DOMAIN wp' = DOMAIN wp
      /\ wp'.pc \in {"data", "run", "read_resp", "resp"}
      /\ "id" \in DOMAIN wp'.req /\ wp'.req.id = wp.req.id
      /\ wp'.pc \in {"read_resp", "resp"} => wp'.resp \in WriteResp /\ wp'.resp.id = wp.req.id
  <2>1. CASE WriteData
    <3> DEFINE v == Head(writeDataFifo).data
    <3>1. wp.pc = "data" /\ wp' = [wp EXCEPT !.pc = "run", !.req = Put(wp.req, "data", v)]
      BY <2>1 DEF WriteData
    <3>2. wp'.pc = "run" /\ wp'.req = Put(wp.req, "data", v) /\ DOMAIN wp' = DOMAIN wp
      BY <1>1, <3>1 DEF PathType
    <3>3. "id" \in DOMAIN wp.req
      BY <1>1, <3>1 DEF PathType
    <3>4. /\ "id" \in DOMAIN Put(wp.req, "data", v)
          /\ Put(wp.req, "data", v).id = wp.req.id
      BY <3>3 DEF Put
    <3> QED
      BY <3>1, <3>2, <3>4
  <2>2. CASE WriteRun(errorsegs)
    <3> DEFINE req   == wp.req
               error == within_error_region(errorsegs, req.addr, req.addr + req.size)
               amo   == mem_is_amo(req.command)
               stex  == ~error /\ req.command = "STEX"
               ok    == stex /\ excl[req.id].valid /\ excl[req.id].addr = req.addr
               old   == readMemory(req.addr)
    <3>1. /\ wp.pc = "run"
          /\ wp' = [wp EXCEPT !.pc = IF amo THEN "read_resp" ELSE "resp",
                              !.rresp = IF amo THEN [id |-> req.id, error |-> FALSE, last |-> TRUE,
                                                     data |-> <<IF error THEN 0 ELSE old>>]
                                               ELSE None,
                              !.resp = [id |-> req.id, is_atomic |-> ok, error |-> error]]
      BY <2>2 DEF WriteRun
    <3>2. error \in BOOLEAN
      BY DEF within_error_region
    <3>3. ok \in BOOLEAN
      OBVIOUS
    <3>4. req.id \in WId /\ "id" \in DOMAIN req
      BY <1>1, <3>1 DEF PathType
    <3> HIDE DEF amo, ok, error, old
    <3>5. /\ wp'.pc = (IF amo THEN "read_resp" ELSE "resp") /\ wp'.req = wp.req
          /\ wp'.resp = [id |-> req.id, is_atomic |-> ok, error |-> error]
          /\ DOMAIN wp' = DOMAIN wp
      BY <1>1, <3>1 DEF PathType
    <3>6. wp'.resp \in WriteResp /\ wp'.resp.id = wp.req.id
      BY <3>2, <3>3, <3>4, <3>5 DEF WriteResp
    <3> QED
      BY <3>1, <3>4, <3>5, <3>6
  <2>3. CASE WritePushRead
    <3>1. wp.pc = "read_resp" /\ wp' = [wp EXCEPT !.pc = "resp", !.rresp = None]
      BY <2>3 DEF WritePushRead
    <3>2. wp'.pc = "resp" /\ wp'.req = wp.req /\ wp'.resp = wp.resp /\ DOMAIN wp' = DOMAIN wp
      BY <1>1, <3>1 DEF PathType
    <3> QED
      BY <1>1, <3>1, <3>2 DEF PathType
  <2> QED
    BY <2>1, <2>2, <2>3
<1>4. PathType'
  BY <1>1, <1>2, <1>3 DEF PathType
<1>5. Track' = Track
  BY <1>2, <1>3 DEF Track, OutIds, RunIds, Shown
<1> QED
  BY <1>2, <1>4, <1>5, SameTrack

\* The response of the write that was performed enters its fifo.
LEMMA PushPath ==
  ASSUME PathInv, WritePush, UNCHANGED cacheVars
  PROVE  PathInv'
<1> DEFINE r == wp.resp
<1>1. /\ wp.pc = "resp" /\ writeRespFifo' = Append(writeRespFifo, r)
      /\ wp' = [pc |-> "meta", req |-> None, rresp |-> None, resp |-> None]
      /\ UNCHANGED <<wrOut, writeReqFifo, wa, wrAddr, wrBusy>>
  BY DEF WritePush, waVars, cacheVars, chVars
<1>2. PathType /\ r \in WriteResp /\ r.id = wp.req.id /\ writeRespFifo \in Seq(WriteResp)
  BY <1>1 DEF PathInv, PathType
<1>3. wp'.pc = "meta" /\ DOMAIN wp' = {"pc", "req", "rresp", "resp"}
  BY <1>1
<1>4. writeRespFifo' \in Seq(WriteResp)
  BY <1>1, <1>2, AppendProperties
<1>5. PathType'
  BY <1>1, <1>2, <1>3, <1>4 DEF PathType
<1>6. FlitIds(writeRespFifo') = Cat(FlitIds(writeRespFifo), <<r.id>>)
  <2>1. FlitSeq(writeRespFifo) /\ "id" \in DOMAIN r /\ r.id \in WId
    BY <1>2, PathFacts, RespIsNot
  <2> QED
    BY <1>1, <2>1, FlitAppend
<1> DEFINE a == OutIds  b == FlitIds(writeRespFifo)
           d == FlitIds(writeReqFifo)  e == FlitIds(Shown)  x == r.id
<1>7. Track = Chain(a, b, <<x>>, d, e)
  BY <1>1, <1>2 DEF Track, RunIds
<1>8. Track' = Chain(a, Cat(b, <<x>>), <<>>, d, e)
  BY <1>1, <1>3, <1>6 DEF Track, OutIds, RunIds, Shown
<1>9. a \in Seq(WId) /\ b \in Seq(WId) /\ d \in Seq(WId) /\ e \in Seq(WId) /\ x \in WId
  BY <1>2, PathFacts, RespIsNot
<1> HIDE DEF a, b, d, e, x
<1>10. Chain(a, b, <<x>>, d, e) = Chain(a, Cat(b, <<x>>), <<>>, d, e)
  <2>1. <<>> \in Seq(WId)
    BY EmptySeq
  <2> QED
    BY <1>9, <2>1, ChainMoves
<1>11. Track' = Track
  BY <1>7, <1>8, <1>10
<1> QED
  BY <1>1, <1>5, <1>11, SameTrack

\* The oldest response is shown to the cache.
LEMMA ShowPath ==
  ASSUME PathInv, WriteRespShow, UNCHANGED cacheVars
  PROVE  PathInv'
<1> DEFINE h == Head(writeRespFifo)
<1>1. /\ wrOut = None /\ writeRespFifo # <<>> /\ wrOut' = h /\ writeRespFifo' = Tail(writeRespFifo)
      /\ UNCHANGED <<wp, writeReqFifo, wa, wrAddr, wrBusy>>
  BY DEF WriteRespShow, wpVars, waVars, cacheVars, chVars
<1>2. PathType /\ writeRespFifo \in Seq(WriteResp) /\ FlitSeq(writeRespFifo)
  BY PathFacts DEF PathInv, PathType
<1>3. h \in WriteResp /\ writeRespFifo' \in Seq(WriteResp)
  BY <1>1, <1>2, HeadTailProperties
<1>4. h # None /\ h.id \in WId
  BY <1>3, RespIsNot
<1>5. PathType'
  BY <1>1, <1>2, <1>3 DEF PathType
<1>6. FlitIds(writeRespFifo) = Cat(<<h.id>>, FlitIds(Tail(writeRespFifo))) /\ FlitSeq(Tail(writeRespFifo))
  BY <1>1, <1>2, FlitTail
<1> DEFINE b == FlitIds(Tail(writeRespFifo))  c == RunIds
           d == FlitIds(writeReqFifo)  e == FlitIds(Shown)  x == h.id
<1>7. Track = Chain(<<>>, Cat(<<x>>, b), c, d, e)
  BY <1>1, <1>6 DEF Track, OutIds
<1>8. Track' = Chain(<<x>>, b, c, d, e)
  BY <1>1, <1>4 DEF Track, OutIds, RunIds, Shown
<1>9. b \in Seq(WId) /\ c \in Seq(WId) /\ d \in Seq(WId) /\ e \in Seq(WId) /\ x \in WId
  BY <1>2, <1>4, <1>6, PathFacts, FlitType
<1> HIDE DEF b, c, d, e, x
<1>10. Chain(<<>>, Cat(<<x>>, b), c, d, e) = Chain(<<x>>, b, c, d, e)
  <2>1. <<>> \in Seq(WId)
    BY EmptySeq
  <2> QED
    BY <1>9, <2>1, ChainMoves
<1>11. Track' = Track
  BY <1>7, <1>8, <1>10
<1> QED
  BY <1>1, <1>5, <1>11, SameTrack

\* The kinds of steps, as a write sees them.
PathStep ==
  \/ PathSame \/ PathSend \/ PathTaken \/ MemAddrReady \/ MemAddrEdge
  \/ /\ WriteMeta \/ WriteData \/ WriteRun(errorsegs) \/ WritePushRead \/ WritePush \/ WriteRespShow
     /\ UNCHANGED cacheVars

\* Every kind of step keeps the writes on their way.
LEMMA StepPath ==
  ASSUME FifoHolds, PathInv, PathStep
  PROVE  PathInv'
BY SamePath, SendPath, TakenPath, ReadyPath, EdgePath, MetaPath, RunPath, PushPath, ShowPath
   DEF PathStep

\* A write that the cache sends under a free identifier.
LEMMA SendIsPath ==
  ASSUME NEW id \in WId \ DOMAIN wrBusy, NEW addr, NEW size, NEW command, NEW data,
         SendWrite(id, addr, size, command, data), UNCHANGED memVars
  PROVE  PathSend
<1> DEFINE x == [id |-> id, addr |-> addr, size |-> size, command |-> command]
<1>1. wrAddr' = Append(wrAddr, x) /\ wrBusy' = Put(wrBusy, id, DOMAIN data)
  BY DEF SendWrite
<1>2. DOMAIN wrBusy' = DOMAIN wrBusy \cup {id}
  BY <1>1, PutDomain
<1>3. "id" \in DOMAIN x /\ x.id = id
  OBVIOUS
<1>4. UNCHANGED <<wrOut, writeRespFifo, wp, writeReqFifo, wa>>
  BY DEF memVars, wpVars, waVars, respVars
<1> HIDE DEF x
<1> QED
  BY <1>1, <1>2, <1>3, <1>4 DEF PathSend

\* A step that neither the memory model nor the writes of the cache see.
LEMMA NoWritePath ==
  ASSUME UNCHANGED <<wrAddr, wrBusy>>, UNCHANGED memVars
  PROVE  PathSame
BY DEF PathSame, memVars, wpVars, waVars, respVars

\* A write identifier is taken only when it is free.
LEMMA FreeWriteId ==
  ASSUME FreeId(WriteIds, wrBusy)
  PROVE  NextId(WriteIds, wrBusy) \in WId \ DOMAIN wrBusy
BY DEF FreeId, NextId, WId

\* A store goes through the write buffer or stays in the cache.
LEMMA StorePath ==
  ASSUME NEW i \in 1 .. Len(cq), Store(i), UNCHANGED memVars
  PROVE  PathStep
<1> DEFINE t == cq[i].t
<1>1. \/ UNCHANGED <<wrAddr, wrData, wrBusy>>
      \/ /\ FreeId(WriteIds, wrBusy)
         /\ SendWrite(NextId(WriteIds, wrBusy), t.addr, 1, "WRITE", StoreData(t))
  BY DEF Store
<1>2. CASE UNCHANGED <<wrAddr, wrData, wrBusy>>
  BY <1>2, NoWritePath DEF PathStep
<1>3. CASE /\ FreeId(WriteIds, wrBusy)
           /\ SendWrite(NextId(WriteIds, wrBusy), t.addr, 1, "WRITE", StoreData(t))
  BY <1>3, FreeWriteId, SendIsPath DEF PathStep
<1> QED
  BY <1>1, <1>2, <1>3

\* A flush of a line.
LEMMA FlushPath ==
  ASSUME NEW w, FlushLine(w), UNCHANGED memVars
  PROVE  PathStep
<1> DEFINE ws == dirty \cap Line(w)
           data == [v \in ws |-> cached[v]]
<1>1. /\ FreeId(WriteIds, wrBusy)
      /\ SendWrite(NextId(WriteIds, wrBusy), w, Cardinality(Line(w)), "WRITE", data)
  BY DEF FlushLine
<1> QED
  BY <1>1, FreeWriteId, SendIsPath DEF PathStep

\* An uncached access is alone: no write is busy when it is sent.
LEMMA UncachedPath ==
  ASSUME NEW i \in 1 .. Len(cq), Uncached(i), UNCHANGED memVars
  PROVE  PathStep
<1> DEFINE t == cq[i].t
<1>1. wrBusy = <<>>
  BY DEF Uncached, Executable, Fence, Quiet
<1>2. UcId \in WId \ DOMAIN wrBusy
  BY <1>1 DEF WId
<1>3. \/ UNCHANGED <<wrAddr, wrData, wrBusy>>
      \/ \E command, data : SendWrite(UcId, t.addr, 1, command, data)
  <2>1. CASE t.op \in {"LOAD", "LR"}
    BY <2>1 DEF Uncached
  <2>2. CASE t.op \in {"STORE", "SC"}
    BY <2>2 DEF Uncached
  <2>3. CASE t.op \notin {"LOAD", "LR"} /\ t.op \notin {"STORE", "SC"}
    BY <2>3 DEF Uncached
  <2> QED
    BY <2>1, <2>2, <2>3
<1>4. CASE UNCHANGED <<wrAddr, wrData, wrBusy>>
  BY <1>4, NoWritePath DEF PathStep
<1>5. CASE \E command, data : SendWrite(UcId, t.addr, 1, command, data)
  <2>1. PICK command, data : SendWrite(UcId, t.addr, 1, command, data)
    BY <1>5
  <2> QED
    BY <1>2, <2>1, SendIsPath DEF PathStep
<1> QED
  BY <1>3, <1>4, <1>5

\* A step of the cache.
LEMMA CachePath ==
  ASSUME CacheStep \/ CacheMove
  PROVE  PathStep
<1>1. UNCHANGED memVars
  BY DEF CacheStep, CacheMove
<1>2. CASE CacheHit \/ CacheCmo \/ CacheScFail \/ CacheMiss \/ CacheEvict
  <2>1. UNCHANGED <<wrAddr, wrBusy>>
    BY <1>2 DEF CacheHit, CacheCmo, CacheScFail, CacheMiss, CacheEvict, LoadHit, CmoDone, ScFail,
                Miss, Evict, chVars
  <2> QED
    BY <1>1, <2>1, NoWritePath DEF PathStep
<1>3. CASE CacheStore
  BY <1>1, <1>3, StorePath DEF CacheStore
<1>4. CASE CacheUncached
  BY <1>1, <1>4, UncachedPath DEF CacheUncached
<1>5. CASE CacheFlush
  BY <1>1, <1>5, FlushPath DEF CacheFlush
<1> QED
  BY <1>2, <1>3, <1>4, <1>5 DEF CacheStep, CacheMove

\* A step of the memory model.
LEMMA MemPath ==
  ASSUME MemStep
  PROVE  PathStep
<1>1. CASE MemReadSee
  BY <1>1 DEF MemReadSee, ReadSee, PathStep, PathSame, wpVars, waVars, respVars, cacheVars, chVars
<1>2. CASE MemReadTake
  BY <1>2 DEF MemReadTake, ReadTake, PathStep, PathSame, wpVars, waVars, respVars
<1>3. CASE MemReadPush
  BY <1>3 DEF MemReadPush, ReadPush, PathStep, PathSame, wpVars, waVars, cacheVars, chVars
<1>4. CASE MemReadShow
  BY <1>4 DEF MemReadShow, ReadRespShow, PathStep, PathSame, wpVars, waVars, cacheVars, chVars
<1>5. CASE CacheTakesRead
  <2>1. UNCHANGED <<wrAddr, wrBusy>>
    BY <1>5 DEF CacheTakesRead, ReadBeat, Refill, UncachedRead, chVars
  <2> QED
    BY <1>5, <2>1 DEF CacheTakesRead, ReadRespTaken, PathStep, PathSame, wpVars, waVars
<1>6. CASE MemAddrReady \/ MemAddrEdge
  BY <1>6 DEF PathStep
<1>7. CASE MemDataReady
  BY <1>7 DEF MemDataReady, DataReady, PathStep, PathSame, respVars, cacheVars, chVars
<1>8. CASE MemDataEdge
  BY <1>8 DEF MemDataEdge, DataEdge, PathStep, PathSame, respVars
<1>9. CASE MemWriteTake \/ MemWriteRun \/ MemWriteShow
  BY <1>9 DEF MemWriteTake, MemWriteRun, MemWriteShow, PathStep
<1>10. CASE CacheTakesWrite
  <2>1. /\ wrOut # None /\ wrOut' = None
        /\ UNCHANGED <<writeRespFifo, wp, writeReqFifo, wa>>
    BY <1>10 DEF CacheTakesWrite, WriteRespTaken, wpVars, waVars
  <2>2. wrAddr' = wrAddr /\ wrBusy' = Restrict(wrBusy, DOMAIN wrBusy \ {wrOut.id})
    BY <1>10 DEF CacheTakesWrite, WriteAck, UncachedWrite, chVars
  <2>3. DOMAIN wrBusy' = DOMAIN wrBusy \ {wrOut.id}
    BY <2>2, DropDomain
  <2> QED
    BY <2>1, <2>2, <2>3 DEF PathStep, PathTaken
<1> QED
  BY <1>1, <1>2, <1>3, <1>4, <1>5, <1>6, <1>7, <1>8, <1>9, <1>10 DEF MemStep

\* Every step is of one of the kinds.
LEMMA NextPath ==
  ASSUME [Next]_vars
  PROVE  PathStep
<1>1. CASE UNCHANGED <<memVars, cacheVars>>
  BY <1>1, NoWritePath DEF PathStep, cacheVars, chVars
<1>2. CASE Simulate \/ SequenceStep \/ CheckInflight \/ DriverFinish \/ Over \/ UNCHANGED vars
  <2>1. UNCHANGED <<memVars, cacheVars>>
    BY <1>2 DEF Simulate, SequenceStep, SequenceMain, SequenceBetween, SequenceSc, SequenceStop,
                Send, CheckInflight, DriverFinish, Over, vars
  <2> QED
    BY <1>1, <2>1
<1>3. CASE DriveRequest
  <2>1. UNCHANGED <<wrAddr, wrBusy>> /\ UNCHANGED memVars
    BY <1>3 DEF DriveRequest, Accept, chVars
  <2> QED
    BY <2>1, NoWritePath DEF PathStep
<1> QED
  BY <1>2, <1>3, CachePath, MemPath DEF Next

\* No write is on its way after reset.
LEMMA InitPath == Init => PathInv
<1> SUFFICES ASSUME Init PROVE PathInv
  OBVIOUS
<1>1. /\ wrOut = None /\ writeRespFifo = <<>> /\ writeReqFifo = <<>> /\ wrAddr = <<>>
      /\ wp = [pc |-> "meta", req |-> None, rresp |-> None, resp |-> None]
      /\ wa = [pc |-> "idle", r |-> None] /\ wrBusy = <<>>
  BY DEF Init, MemInit, CacheInit
<1>2. FlitSeq(<<>>) /\ FlitIds(<<>>) = <<>>
  <2>1. <<>> \in Seq({}) /\ Len(<<>>) = 0
    BY EmptySeq
  <2> QED
    BY <2>1 DEF FlitSeq, FlitIds
<1>3. PathType
  <2>1. wp.pc = "meta" /\ wa.pc = "idle" /\ DOMAIN wp = {"pc", "req", "rresp", "resp"}
    BY <1>1
  <2>2. writeRespFifo \in Seq(WriteResp)
    BY <1>1, EmptySeq
  <2> QED
    BY <1>1, <1>2, <2>1, <2>2 DEF PathType
<1>4. Track = Chain(<<>>, <<>>, <<>>, <<>>, <<>>)
  BY <1>1, <1>2 DEF Track, OutIds, RunIds, Shown
<1>5. Chain(<<>>, <<>>, <<>>, <<>>, <<>>) = <<>>
  <2> DEFINE n == <<>>
  <2>1. n \in Seq({})
    BY EmptySeq
  <2>2. \A p \in Seq({}) : Cat(p, n) = p
    BY CatLaws
  <2> HIDE DEF n
  <2>3. Chain(n, n, n, n, n) = n
    BY <2>1, <2>2 DEF Chain
  <2> QED
    BY <2>3 DEF n
<1>6. Distinct(<<>>) /\ Elements(<<>>) = {}
  BY DEF Distinct, Elements
<1>7. DOMAIN wrBusy = {}
  BY <1>1
<1> QED
  BY <1>3, <1>4, <1>5, <1>6, <1>7 DEF PathInv

\* A write on its way is somewhere.
LEMMA OnTheWay ==
  ASSUME PathInv, NEW id \in DOMAIN wrBusy
  PROVE  WriteSomewhere(id)
<1> DEFINE a == OutIds  b == FlitIds(writeRespFifo)  c == RunIds
           d == FlitIds(writeReqFifo)  e == FlitIds(Shown)
<1>1. a \in Seq(WId) /\ b \in Seq(WId) /\ c \in Seq(WId) /\ d \in Seq(WId) /\ e \in Seq(WId)
  BY PathFacts DEF PathInv
<1>2. id \in Elements(Chain(a, b, c, d, e))
  BY DEF PathInv, Track
<1>3. \A s : FlitSeq(s) /\ id \in Elements(FlitIds(s)) => \E i \in 1 .. Len(s) : s[i].id = id
  BY FlitType DEF Elements
<1>4. /\ FlitSeq(writeRespFifo) /\ FlitSeq(writeReqFifo) /\ FlitSeq(Shown) /\ FlitSeq(wrAddr)
  BY PathFacts DEF PathInv, PathType
<1>5. id \in Elements(a) => wrOut # None /\ wrOut.id = id
  BY OneElement DEF OutIds, Elements
<1>6. id \in Elements(c) => wp.pc # "meta" /\ wp.req.id = id
  BY OneElement DEF RunIds, Elements
<1>7. id \in Elements(b) => \E i \in 1 .. Len(writeRespFifo) : writeRespFifo[i].id = id
  BY <1>3, <1>4
<1>8. id \in Elements(d) => \E i \in 1 .. Len(writeReqFifo) : writeReqFifo[i].id = id
  BY <1>3, <1>4
<1>9. ASSUME id \in Elements(e) PROVE \E i \in 1 .. Len(wrAddr) : wrAddr[i].id = id
  <2>1. PICK i \in 1 .. Len(Shown) : Shown[i].id = id
    BY <1>3, <1>4, <1>9
  <2>2. CASE wa.pc = "last"
    <3>1. PICK S : wrAddr \in Seq(S)
      BY <1>4 DEF FlitSeq
    <3>2. wrAddr # <<>> /\ Shown = Tail(wrAddr)
      BY <2>2 DEF PathInv, PathType, Shown
    <3>3. i + 1 \in 1 .. Len(wrAddr) /\ Tail(wrAddr)[i] = wrAddr[i + 1]
      BY <2>1, <3>1, <3>2, HeadTailProperties
    <3> QED
      BY <2>1, <3>2, <3>3
  <2>3. CASE wa.pc # "last"
    BY <2>1, <2>3 DEF Shown
  <2> QED
    BY <2>2, <2>3
<1> HIDE DEF a, b, c, d, e
<1>10. \A u, v \in Seq(WId) : /\ Cat(u, v) \in Seq(WId)
                              /\ id \in Elements(Cat(u, v)) => id \in Elements(u) \/ id \in Elements(v)
  BY CatLaws
<1>11. \/ id \in Elements(a) \/ id \in Elements(b) \/ id \in Elements(c)
       \/ id \in Elements(d) \/ id \in Elements(e)
  <2> DEFINE p == Cat(a, b)
             q == Cat(p, c)
             r == Cat(q, d)
  <2>1. id \in Elements(Cat(r, e))
    BY <1>2 DEF Chain
  <2>2. p \in Seq(WId) /\ (id \in Elements(p) => id \in Elements(a) \/ id \in Elements(b))
    BY <1>1, <1>10
  <2> HIDE DEF p
  <2>3. q \in Seq(WId) /\ (id \in Elements(q) => id \in Elements(p) \/ id \in Elements(c))
    BY <1>1, <1>10, <2>2
  <2> HIDE DEF q
  <2>4. r \in Seq(WId) /\ (id \in Elements(r) => id \in Elements(q) \/ id \in Elements(d))
    BY <1>1, <1>10, <2>3
  <2> HIDE DEF r
  <2>5. id \in Elements(r) \/ id \in Elements(e)
    BY <1>1, <1>10, <2>1, <2>4
  <2> QED
    BY <2>2, <2>3, <2>4, <2>5
<1> QED
  BY <1>5, <1>6, <1>7, <1>8, <1>9, <1>11 DEF WriteSomewhere

(* Each write is on its way exactly once, in the order in which the cache  *)
(* sent them, when the fifo has a place for every write identifier.        *)
THEOREM WritesOnTheirWay ==
  ASSUME FifoHolds
  PROVE  Spec => []PathInv
<1>1. PathInv /\ [Next]_vars => PathInv'
  BY NextPath, StepPath
<1> QED
  BY InitPath, <1>1, PTL DEF Spec

(* No write that the cache sent is lost by the memory model when its       *)
(* request fifo has a place for every write identifier of the cache and    *)
(* the uncached one: the thread that takes addresses then never waits with *)
(* its ready raised.  (With a smaller fifo it does, and loses requests.)   *)
THEOREM NoWriteLost ==
  ASSUME FifoHolds
  PROVE  Spec => []WritesForwarded
<1>1. PathInv => WritesForwarded
  BY OnTheWay DEF WritesForwarded
<1> QED
  BY WritesOnTheirWay, <1>1, PTL


----------------------------------------------------------------------------
(* The table of writes of the scoreboard                                   *)

\* The writes that were performed and whose response was not shown yet.
Performed ==
  (IF wp.pc \in {"read_resp", "resp"} THEN {wp.req.id} ELSE {}) \cup Elements(FlitIds(writeRespFifo))

\* What the scoreboard prints about the identifiers of writes.
WriteMessages == {"mem_write_id", "mem_write_resp_id"}

\* The table holds these writes, and nothing was printed about it.
TableInv ==
  /\ PathInv
  /\ DOMAIN memWrite = Performed
  /\ errors \cap WriteMessages = {}

\* The parts of a chain of distinct elements.
LEMMA DistinctParts ==
  ASSUME NEW S, NEW p \in Seq(S), NEW q \in Seq(S), Distinct(Cat(p, q))
  PROVE  Distinct(p) /\ Distinct(q) /\ Elements(p) \cap Elements(q) = {}
<1> DEFINE r == p \o q
<1>1. /\ Len(r) = Len(p) + Len(q) /\ Len(p) \in Nat /\ Len(q) \in Nat
      /\ \A i \in 1 .. Len(p) + Len(q) : r[i] = IF i <= Len(p) THEN p[i] ELSE q[i - Len(p)]
  BY ConcatProperties
<1> HIDE DEF r
<1>2. Distinct(r)
  BY DEF r, Cat
<1>3. ASSUME NEW i \in 1 .. Len(p) PROVE i \in 1 .. Len(r) /\ r[i] = p[i]
  BY <1>1
<1>4. ASSUME NEW i \in 1 .. Len(q) PROVE i + Len(p) \in 1 .. Len(r) /\ r[i + Len(p)] = q[i]
  <2>1. i + Len(p) \in 1 .. Len(p) + Len(q) /\ ~(i + Len(p) <= Len(p)) /\ (i + Len(p)) - Len(p) = i
    BY <1>1
  <2> QED
    BY <1>1, <2>1
<1>5. Distinct(p)
  <2>1. ASSUME NEW i \in 1 .. Len(p), NEW j \in 1 .. Len(p), i # j PROVE p[i] # p[j]
    BY <1>2, <1>3, <2>1 DEF Distinct
  <2> QED
    BY <2>1, Zenon DEF Distinct
<1>6. Distinct(q)
  <2>1. ASSUME NEW i \in 1 .. Len(q), NEW j \in 1 .. Len(q), i # j PROVE q[i] # q[j]
    <3>1. i + Len(p) # j + Len(p)
      BY <1>1, <2>1
    <3> QED
      BY <1>2, <1>4, <3>1 DEF Distinct
  <2> QED
    BY <2>1, Zenon DEF Distinct
<1>7. ASSUME NEW i \in 1 .. Len(p), NEW j \in 1 .. Len(q) PROVE p[i] # q[j]
  <2>1. i # j + Len(p)
    BY <1>1
  <2> QED
    BY <1>2, <1>3, <1>4, <2>1 DEF Distinct
<1>8. Elements(p) \cap Elements(q) = {}
  BY <1>7 DEF Elements
<1> QED
  BY <1>5, <1>6, <1>8

\* On its way a write is in one place: the responses in their fifo are of
\* distinct writes, and none of them is of the write being performed.
LEMMA PlacesApart ==
  ASSUME PathInv
  PROVE  /\ Distinct(FlitIds(writeRespFifo))
         /\ Elements(FlitIds(writeRespFifo)) \cap Elements(RunIds) = {}
<1> DEFINE a == OutIds  b == FlitIds(writeRespFifo)  c == RunIds
           d == FlitIds(writeReqFifo)  e == FlitIds(Shown)
<1>1. a \in Seq(WId) /\ b \in Seq(WId) /\ c \in Seq(WId) /\ d \in Seq(WId) /\ e \in Seq(WId)
  BY PathFacts DEF PathInv
<1>2. Distinct(Chain(a, b, c, d, e))
  BY DEF PathInv, Track
<1> HIDE DEF a, b, c, d, e
<1>3. \A p, q \in Seq(WId) : Cat(p, q) \in Seq(WId)
  BY CatLaws
<1>4. \A p, q \in Seq(WId) : Distinct(Cat(p, q)) =>
        Distinct(p) /\ Distinct(q) /\ Elements(p) \cap Elements(q) = {}
  BY DistinctParts
<1>5. Cat(a, b) \in Seq(WId) /\ Cat(Cat(a, b), c) \in Seq(WId) /\ Cat(Cat(Cat(a, b), c), d) \in Seq(WId)
  BY <1>1, <1>3
<1>6. Distinct(Cat(Cat(Cat(a, b), c), d))
  BY <1>1, <1>2, <1>4, <1>5 DEF Chain
<1>7. Distinct(Cat(Cat(a, b), c))
  BY <1>1, <1>4, <1>5, <1>6
<1>8. Distinct(Cat(a, b)) /\ Elements(Cat(a, b)) \cap Elements(c) = {}
  BY <1>1, <1>4, <1>5, <1>7
<1>9. Distinct(b)
  BY <1>1, <1>4, <1>8
<1>10. Elements(Cat(a, b)) = Elements(a) \cup Elements(b)
  BY <1>1, CatLaws
<1>11. Elements(b) \cap Elements(c) = {}
  BY <1>8, <1>10
<1> QED
  BY <1>9, <1>11 DEF b, c


\* Messages about something else.
LEMMA OtherMessages ==
  ASSUME NEW c, DOMAIN c \cap WriteMessages = {}
  PROVE  Report(c) \cap WriteMessages = {}
BY DEF Report

\* Nothing that the table is about changes.
TableSame ==
  /\ UNCHANGED <<memWrite, writeRespFifo, wp>>
  /\ errors' \cap WriteMessages = errors \cap WriteMessages

\* What the scoreboard does with a request and with a response of the core.
LEMMA CoreTable ==
  ASSUME NEW a, core_req_process(errorsegs, a) \/ Answer(a), UNCHANGED <<writeRespFifo, wp>>
  PROVE  TableSame
<1>1. CASE core_req_process(errorsegs, a)
  <2> DEFINE e     == Entry(errorsegs, a)
             dup   == a.tid \in DOMAIN inflight
             quiet == ~dup /\ is_cmo(a.op) /\ ~a.need_rsp
             full  == ~dup /\ Forwarded(a, e) /\ Len(amoFifo) = AmoFifoDepth
             done  == ~dup /\ ~quiet /\ ~full
             free  == quiet \/ (done /\ ~a.need_rsp)
             c     == [core_req_id |-> dup, amo_fifo_full |-> full, seq_id |-> free /\ a.tid \notin ids]
  <2>1. errors' = errors \cup Report(c) /\ memWrite' = memWrite
    BY <1>1 DEF core_req_process
  <2>2. DOMAIN c = {"core_req_id", "amo_fifo_full", "seq_id"}
    OBVIOUS
  <2> HIDE DEF c
  <2>3. DOMAIN c \cap WriteMessages = {}
    BY <2>2 DEF WriteMessages
  <2> QED
    BY <2>1, <2>3, OtherMessages DEF TableSame
<1>2. CASE Answer(a) /\ a = None
  BY <1>2 DEF Answer, TableSame, sbVars, sbTables
<1>3. CASE Answer(a) /\ a # None
  <2> DEFINE known == a.tid \in DOMAIN inflight
             e     == inflight[a.tid]
             flag  == known /\ (is_store(e.op) \/ a.error = e.is_error)
             check == flag /\ ~e.is_error
             sc_ok == check /\ e.op = "SC" /\ e.is_atomic /\ scIsAtomic
             c     == [core_resp_id |-> ~known, error_flag |-> known /\ ~flag,
                       sc_status |-> check /\ e.op = "SC" /\ a.data # (IF sc_ok THEN 0 ELSE 1),
                       wrong_data |-> check /\ ReadsData(e.op) /\ e.rdata # None /\ a.data # e.rdata,
                       seq_id |-> flag /\ a.tid \notin ids]
  <2>1. errors' = errors \cup Report(c) /\ memWrite' = memWrite
    BY <1>3 DEF Answer, core_resp_process
  <2>2. DOMAIN c = {"core_resp_id", "error_flag", "sc_status", "wrong_data", "seq_id"}
    OBVIOUS
  <2> HIDE DEF c
  <2>3. DOMAIN c \cap WriteMessages = {}
    BY <2>2 DEF WriteMessages
  <2> QED
    BY <2>1, <2>3, OtherMessages DEF TableSame
<1> QED
  BY <1>1, <1>2, <1>3

\* An atomic that reaches the memory.
LEMMA AmoMessages == Report(AmoErrors) \cap WriteMessages = {}
<1> DEFINE c == AmoErrors
<1>1. DOMAIN c = {"several_amo", "unexpected_amo"}
  BY DEF AmoErrors
<1> HIDE DEF c
<1>2. DOMAIN c \cap WriteMessages = {}
  BY <1>1 DEF WriteMessages
<1> QED
  BY <1>2, OtherMessages DEF c

\* What the scoreboard does with a read request and a read response.
LEMMA ReadTable ==
  ASSUME MemReadSee \/ MemReadShow
  PROVE  TableSame
<1>1. UNCHANGED <<writeRespFifo, wp>>
  BY DEF MemReadSee, ReadSee, MemReadShow, ReadRespShow, wpVars, respVars
<1>2. CASE MemReadSee
  <2> DEFINE h == Head(rdReq)
             c == [mem_read_id |-> h.id \in DOMAIN memRead]
             ldex == ~(h.id \in DOMAIN memRead) /\ h.command = "LDEX"
  <2>1. /\ errors' = errors \cup Report(c) \cup (IF ldex THEN Report(AmoErrors) ELSE {})
        /\ memWrite' = memWrite
    BY <1>2 DEF MemReadSee, mem_read_req_process
  <2>2. DOMAIN c = {"mem_read_id"}
    OBVIOUS
  <2> HIDE DEF c, ldex
  <2>3. DOMAIN c \cap WriteMessages = {}
    BY <2>2 DEF WriteMessages
  <2>4. Report(c) \cap WriteMessages = {} /\ Report(AmoErrors) \cap WriteMessages = {}
    BY <2>3, OtherMessages, AmoMessages
  <2> QED
    BY <1>1, <2>1, <2>4 DEF TableSame
<1>3. CASE MemReadShow
  <2> DEFINE h == Head(readRespFifo)
             c == [mem_read_resp_id |-> ~(h.id \in DOMAIN memRead)]
  <2>1. errors' = errors \cup Report(c) /\ memWrite' = memWrite
    BY <1>3 DEF MemReadShow, mem_read_resp_process
  <2>2. DOMAIN c = {"mem_read_resp_id"}
    OBVIOUS
  <2> HIDE DEF c
  <2>3. DOMAIN c \cap WriteMessages = {}
    BY <2>2 DEF WriteMessages
  <2> QED
    BY <1>1, <2>1, <2>3, OtherMessages DEF TableSame
<1> QED
  BY <1>2, <1>3

\* A write is performed: the scoreboard sees its request, whose identifier is
\* not in the table.
LEMMA RunTable ==
  ASSUME TableInv, PathInv', MemWriteRun
  PROVE  TableInv'
<1> DEFINE req  == wp.req
           dup  == req.id \in DOMAIN memWrite
           amo  == ~dup /\ mem_is_amo(req.command)
           stex == ~dup /\ req.command = "STEX"
           got  == amoFifo # <<>>
           c    == [mem_write_id  |-> dup,
                    no_core_amo   |-> amo /\ got /\ ~HasCoreReq(req.addr),
                    no_reserve    |-> stex /\ got /\ ~amoFifo[1].is_atomic,
                    no_core_sc    |-> stex /\ got /\ amoFifo[1].is_atomic /\ ~HasCoreReq(req.addr)]
<1>1. /\ memWrite' = IF dup THEN memWrite ELSE Put(memWrite, req.id, [addr |-> req.addr])
      /\ errors' = errors \cup Report(c) \cup (IF amo \/ stex THEN Report(AmoErrors) ELSE {})
      /\ wp.pc = "run" /\ writeRespFifo' = writeRespFifo
  BY DEF MemWriteRun, mem_write_req_process, WriteRun, respVars
<1>2. wp'.pc \in {"read_resp", "resp"} /\ wp'.req = req
  <2>1. DOMAIN wp = {"pc", "req", "rresp", "resp"}
    BY DEF TableInv, PathInv, PathType
  <2> QED
    BY <2>1 DEF MemWriteRun, WriteRun
<1>3. ~dup
  <2>1. req.id \in Elements(RunIds)
    BY <1>1, OneElement DEF RunIds
  <2>2. Elements(FlitIds(writeRespFifo)) \cap Elements(RunIds) = {}
    BY PlacesApart DEF TableInv
  <2>3. DOMAIN memWrite = Elements(FlitIds(writeRespFifo))
    BY <1>1 DEF TableInv, Performed
  <2> QED
    BY <2>1, <2>2, <2>3
<1>4. DOMAIN memWrite' = Performed'
  <2>1. DOMAIN memWrite' = DOMAIN memWrite \cup {req.id}
    BY <1>1, <1>3, PutDomain
  <2>2. Performed' = {req.id} \cup Elements(FlitIds(writeRespFifo))
    BY <1>1, <1>2 DEF Performed
  <2>3. DOMAIN memWrite = Elements(FlitIds(writeRespFifo))
    BY <1>1 DEF TableInv, Performed
  <2> QED
    BY <2>1, <2>2, <2>3
<1>5. Report(c) \cap WriteMessages = {}
  <2>1. DOMAIN c = {"mem_write_id", "no_core_amo", "no_reserve", "no_core_sc"}
    OBVIOUS
  <2>2. c["mem_write_id"] = dup
    <3> HIDE DEF dup, amo, stex, got
    <3> QED
      OBVIOUS
  <2> HIDE DEF c
  <2>3. "mem_write_id" \notin Report(c)
    BY <1>3, <2>2 DEF Report
  <2>4. "mem_write_resp_id" \notin Report(c)
    BY <2>1 DEF Report
  <2> QED
    BY <2>3, <2>4 DEF WriteMessages
<1> HIDE DEF c, amo, stex
<1>6. errors' \cap WriteMessages = {}
  BY <1>1, <1>5, AmoMessages DEF TableInv
<1> QED
  BY <1>4, <1>6 DEF TableInv


\* The thread of writes goes on, and its response enters the fifo.
LEMMA TakeTable ==
  ASSUME TableInv, PathInv', MemWriteTake
  PROVE  TableInv'
<1>1. memWrite' = memWrite /\ errors' = errors
  BY DEF MemWriteTake, sbVars, sbTables
<1>2. PathType
  BY DEF TableInv, PathInv
<1>3. Performed' = Performed
  <2>1. CASE WriteMeta
    <3>1. wp.pc = "meta" /\ wp'.pc = "data" /\ writeRespFifo' = writeRespFifo
      BY <1>2, <2>1 DEF WriteMeta, PathType, respVars
    <3> QED
      BY <3>1 DEF Performed
  <2>2. CASE WriteData
    <3>1. wp.pc = "data" /\ wp'.pc = "run" /\ writeRespFifo' = writeRespFifo
      BY <1>2, <2>2 DEF WriteData, PathType, respVars
    <3> QED
      BY <3>1 DEF Performed
  <2>3. CASE WritePushRead
    <3>1. wp.pc = "read_resp" /\ wp'.pc = "resp" /\ wp'.req = wp.req /\ writeRespFifo' = writeRespFifo
      BY <1>2, <2>3 DEF WritePushRead, PathType
    <3> QED
      BY <3>1 DEF Performed
  <2>4. CASE WritePush
    <3> DEFINE r == wp.resp
               b == FlitIds(writeRespFifo)
    <3>1. wp.pc = "resp" /\ wp'.pc = "meta" /\ writeRespFifo' = Append(writeRespFifo, r)
      BY <2>4 DEF WritePush
    <3>2. r \in WriteResp /\ r.id = wp.req.id
      BY <1>2, <3>1 DEF PathType
    <3>3. FlitSeq(writeRespFifo) /\ "id" \in DOMAIN r /\ r.id \in WId /\ b \in Seq(WId)
      BY <1>2, <3>2, PathFacts, RespIsNot
    <3>4. FlitIds(writeRespFifo') = Cat(b, <<r.id>>)
      BY <3>1, <3>3, FlitAppend
    <3> DEFINE x == r.id
    <3>5. x \in WId /\ x = wp.req.id
      BY <3>2, <3>3
    <3> HIDE DEF x, b
    <3>6. Elements(Cat(b, <<x>>)) = Elements(b) \cup {x}
      <4>1. <<x>> \in Seq(WId)
        BY <3>5
      <4>2. \A p, q \in Seq(WId) : Elements(Cat(p, q)) = Elements(p) \cup Elements(q)
        BY CatLaws
      <4>3. Elements(Cat(b, <<x>>)) = Elements(b) \cup Elements(<<x>>)
        BY <3>3, <4>1, <4>2
      <4> QED
        BY <4>3, OneElement
    <3>7. Performed = {x} \cup Elements(b)
      BY <3>1, <3>5 DEF Performed, b
    <3>8. Performed' = Elements(Cat(b, <<x>>))
      BY <3>1, <3>4 DEF Performed, x
    <3> QED
      BY <3>6, <3>7, <3>8
  <2> QED
    BY <2>1, <2>2, <2>3, <2>4 DEF MemWriteTake
<1> QED
  BY <1>1, <1>3 DEF TableInv

\* A response is shown: the scoreboard knows its identifier and forgets it.
LEMMA ShowTable ==
  ASSUME TableInv, PathInv', MemWriteShow
  PROVE  TableInv'
<1> DEFINE h == Head(writeRespFifo)
           x == h.id
           b == FlitIds(Tail(writeRespFifo))
           known == h.id \in DOMAIN memWrite
           c == [mem_write_resp_id |-> ~known]
<1>1. /\ writeRespFifo # <<>> /\ writeRespFifo' = Tail(writeRespFifo) /\ wp' = wp
      /\ memWrite' = IF known THEN Restrict(memWrite, DOMAIN memWrite \ {h.id}) ELSE memWrite
      /\ errors' = errors \cup Report(c)
  BY DEF MemWriteShow, WriteRespShow, mem_write_resp_process, wpVars
<1>2. PathType /\ FlitSeq(writeRespFifo)
  BY PathFacts DEF TableInv, PathInv
<1>3. /\ FlitIds(writeRespFifo) = Cat(<<x>>, b) /\ FlitSeq(Tail(writeRespFifo)) /\ x \in WId
  BY <1>1, <1>2, FlitTail
<1>4. b \in Seq(WId) /\ Distinct(Cat(<<x>>, b))
  BY <1>3, FlitType, PlacesApart DEF TableInv
<1>5. Elements(FlitIds(writeRespFifo)) \cap Elements(RunIds) = {}
  BY PlacesApart DEF TableInv
<1>6. wp.pc \in {"read_resp", "resp"} => wp.req.id \in Elements(RunIds)
  BY OneElement DEF RunIds
<1>7. Performed' = (IF wp.pc \in {"read_resp", "resp"} THEN {wp.req.id} ELSE {}) \cup Elements(b)
  BY <1>1 DEF Performed
<1>8. DOMAIN memWrite = (IF wp.pc \in {"read_resp", "resp"} THEN {wp.req.id} ELSE {})
                          \cup Elements(FlitIds(writeRespFifo))
  BY DEF TableInv, Performed
<1> HIDE DEF x, b
<1>9. x \notin Elements(b)
  BY <1>3, <1>4, DistinctDrop
<1>10. Elements(FlitIds(writeRespFifo)) = {x} \cup Elements(b)
  <2>1. <<x>> \in Seq(WId)
    BY <1>3
  <2>2. \A p, q \in Seq(WId) : Elements(Cat(p, q)) = Elements(p) \cup Elements(q)
    BY CatLaws
  <2>3. Elements(Cat(<<x>>, b)) = Elements(<<x>>) \cup Elements(b)
    BY <1>4, <2>1, <2>2
  <2> QED
    BY <1>3, <2>3, OneElement
<1>11. x \in DOMAIN memWrite /\ DOMAIN memWrite \ {x} = Performed'
  BY <1>5, <1>6, <1>7, <1>8, <1>9, <1>10
<1>12. known
  BY <1>11 DEF x
<1>13. DOMAIN memWrite' = Performed'
  <2>1. memWrite' = Restrict(memWrite, DOMAIN memWrite \ {x})
    BY <1>1, <1>12 DEF x
  <2>2. DOMAIN memWrite' = DOMAIN memWrite \ {x}
    BY <2>1, DropDomain
  <2> QED
    BY <1>11, <2>2
<1>14. Report(c) = {}
  <2>1. DOMAIN c = {"mem_write_resp_id"}
    OBVIOUS
  <2>2. c["mem_write_resp_id"] = ~known
    <3> HIDE DEF known
    <3> QED
      OBVIOUS
  <2> HIDE DEF c, known
  <2> QED
    BY <1>12, <2>1, <2>2 DEF Report
<1> HIDE DEF c
<1>15. errors' \cap WriteMessages = {}
  BY <1>1, <1>14 DEF TableInv
<1> QED
  BY <1>13, <1>15 DEF TableInv

\* All the other steps leave the table alone.
LEMMA OtherTable ==
  ASSUME [Next]_vars, ~MemWriteTake, ~MemWriteRun, ~MemWriteShow
  PROVE  TableSame
<1>1. ASSUME UNCHANGED sbVars, UNCHANGED <<writeRespFifo, wp>> PROVE TableSame
  BY <1>1 DEF TableSame, sbVars, sbTables
<1>2. CASE Simulate \/ SequenceStep \/ CheckInflight \/ DriverFinish \/ Over \/ UNCHANGED vars
  BY <1>2 DEF Simulate, SequenceStep, SequenceMain, SequenceBetween, SequenceSc, SequenceStop,
              Send, CheckInflight, check_inflight_requests, DriverFinish, Over, vars, TableSame,
              sbVars, sbTables, memVars, wpVars, respVars
<1>3. CASE DriveRequest
  BY <1>3, CoreTable DEF DriveRequest, memVars, wpVars, respVars
<1>4. CASE CacheStep \/ CacheMove
  <2>1. UNCHANGED <<writeRespFifo, wp>>
    BY <1>4 DEF CacheStep, CacheMove, memVars, wpVars, respVars
  <2>2. CASE CacheHit \/ CacheStore \/ CacheCmo \/ CacheScFail
    <3>1. \E a : Answer(a)
      BY <2>2 DEF CacheHit, CacheStore, CacheCmo, CacheScFail
    <3> QED
      BY <2>1, <3>1, CoreTable
  <2>3. CASE CacheMiss \/ CacheUncached \/ CacheFlush \/ CacheEvict
    BY <1>1, <2>1, <2>3 DEF CacheMiss, CacheUncached, CacheFlush, CacheEvict
  <2> QED
    BY <1>4, <2>2, <2>3 DEF CacheStep, CacheMove
<1>5. CASE MemReadSee \/ MemReadShow
  BY <1>5, ReadTable
<1>6. CASE MemReadTake \/ MemReadPush \/ MemAddrReady \/ MemAddrEdge \/ MemDataReady \/ MemDataEdge
  <2>1. UNCHANGED sbVars
    BY <1>6 DEF MemReadTake, MemReadPush, MemAddrReady, MemAddrEdge, MemDataReady, MemDataEdge
  <2>2. UNCHANGED <<writeRespFifo, wp>>
    BY <1>6 DEF MemReadTake, MemReadPush, MemAddrReady, MemAddrEdge, MemDataReady, MemDataEdge,
                ReadTake, ReadPush, AddrReady, AddrEdge, DataReady, DataEdge, wpVars, respVars
  <2> QED
    BY <1>1, <2>1, <2>2
<1>7. CASE CacheTakesRead \/ CacheTakesWrite
  <2>1. UNCHANGED <<writeRespFifo, wp>>
    BY <1>7 DEF CacheTakesRead, CacheTakesWrite, ReadRespTaken, WriteRespTaken, wpVars
  <2>2. UNCHANGED sbVars \/ \E a : Answer(a)
    BY <1>7 DEF CacheTakesRead, CacheTakesWrite
  <2> QED
    BY <1>1, <2>1, <2>2, CoreTable
<1> QED
  BY <1>2, <1>3, <1>4, <1>5, <1>6, <1>7 DEF Next, MemStep

(* When its request fifo has a place for every write identifier, the       *)
(* memory model performs each write of the cache once and answers it once: *)
(* the scoreboard's table holds just the writes that were performed and    *)
(* not yet answered, and the scoreboard never complains of an identifier   *)
(* that is used twice or not known.                                        *)
THEOREM WriteTable ==
  ASSUME FifoHolds
  PROVE  Spec => [](DOMAIN memWrite = Performed /\ errors \cap WriteMessages = {})
<1>1. Init => TableInv
  <2> SUFFICES ASSUME Init PROVE TableInv
    OBVIOUS
  <2>1. wp = [pc |-> "meta", req |-> None, rresp |-> None, resp |-> None] /\ writeRespFifo = <<>>
    BY DEF Init, MemInit
  <2>2. FlitIds(<<>>) = <<>> /\ Elements(<<>>) = {}
    BY EmptySeq DEF FlitIds, Elements
  <2>3. Performed = {}
    BY <2>1, <2>2 DEF Performed
  <2>4. DOMAIN memWrite = {} /\ errors = {}
    BY DEF Init, ScoreboardInit
  <2> QED
    BY <2>3, <2>4, InitPath DEF TableInv
<1>2. TableInv /\ [Next]_vars => TableInv'
  <2> SUFFICES ASSUME TableInv, [Next]_vars PROVE TableInv'
    OBVIOUS
  <2>1. PathInv'
    BY NextPath, StepPath DEF TableInv
  <2>2. CASE ~MemWriteTake /\ ~MemWriteRun /\ ~MemWriteShow
    <3>1. TableSame
      BY <2>2, OtherTable
    <3> QED
      BY <2>1, <3>1 DEF TableInv, TableSame, Performed
  <2> QED
    BY <2>1, <2>2, TakeTable, RunTable, ShowTable
<1>3. TableInv => DOMAIN memWrite = Performed /\ errors \cap WriteMessages = {}
  BY DEF TableInv
<1> QED
  BY <1>1, <1>2, <1>3, PTL DEF Spec
=============================================================================
