-------------------------------- MODULE Rtab --------------------------------
(***************************************************************************)
(* The replay table (hpdcache_rtab): the requests that the cache could not *)
(* serve and holds until what they wait for has happened.  Requests for    *)
(* the same cache line form a linked list: only its head may be replayed,  *)
(* and its successors follow it without waiting.                           *)
(*                                                                         *)
(* A bit vector over the entries is the set of the entries whose bit is 1. *)
(* Cycle(in) is one clock cycle under the input signals in; the modules    *)
(* that extend this one say which inputs occur.                            *)
(***************************************************************************)
EXTENDS Arbiter

CONSTANTS N,            \* rtabEntries
          Line,         \* cache lines (nlines)
          Way,          \* ways of the cache
          SetOf,        \* the set of a line in the cache directory
          MshrSetOf     \* the set of a line in the MSHR

ASSUME RtabAssumption ==
  N \in Nat \ {0} /\ Line # {} /\ Way # {}

Entries == 0 .. N - 1

DepNames == {"mshr_hit", "mshr_full", "mshr_ready", "write_miss", "wbuf_hit",
             "wbuf_not_ready", "dir_unavailable", "dir_fetch", "flush_hit",
             "flush_not_ready", "pend_trans"}

\* Classes of operations: loads and prefetches, stores, and those that are
\* executed alone (atomics and uncacheable accesses).
Op == {"load", "store", "fence"}

Req == [line : Line, op : Op, way : Way]

VARIABLES
  singleEntry, \* cfg_single_entry_i: the mode is set before the cache runs
  valid,      \* valid_q
  head,       \* head_q: first of a list, and not being replayed
  tail,       \* tail_q: last of a list
  error,      \* error_q: the refill of a held write miss failed
  deps,       \* deps_q: what the entry waits for, a set of names
  next,       \* next_q: the successor of an entry that is not a tail
  req,        \* req_q (without reset: read only where valid)
  popState,   \* pop_try_state_q
  popNext,    \* pop_try_next_q
  popArb, fullArb, dirArb, rdArb, wrArb, selArb   \* the arbiters' states

lists == <<valid, head, tail, next, req, popState, popNext>>
arbs  == <<popArb, fullArb, dirArb, rdArb, wrArb, selArb>>
rtab  == <<singleEntry, lists, error, deps, arbs>>

----------------------------------------------------------------------------
(* Global signals                                                          *)

Ready == {i \in valid \cap head : deps[i] = {}}

FreeAlloc == Lowest(Entries \ valid)

Empty == valid = {}

\* Mutant: the mode with a single entry is ignored.
Full_AllEntries == valid = Entries

Full == valid = Entries \/ (valid # {} /\ singleEntry)

FenceEntries == {i \in Entries : "pend_trans" \in deps[i]}

\* fence_o: no new request is accepted behind a held fence.
Fence == FenceEntries # {}

FenceOnly == valid = FenceEntries

CheckHit(line) == {i \in valid : req[i].line = line}

CheckTail(line) == CheckHit(line) \cap tail

----------------------------------------------------------------------------
(* Wake-up                                                                 *)

\* One request per refill is woken among those waiting for an MSHR slot ...
WaitersMshrFull(line) ==
  {i \in valid : "mshr_full" \in deps[i] /\ MshrSetOf[req[i].line] = MshrSetOf[line]}

\* ... and one among those waiting for a victim way.
WaitersDirUnavailable(line) ==
  {i \in valid : "dir_unavailable" \in deps[i] /\ SetOf[req[i].line] = SetOf[line]}

WbufRdPending == {i \in valid \cap head : "wbuf_hit" \in deps[i]}
WbufWrPending == {i \in valid \cap head : "wbuf_not_ready" \in deps[i]}

WbufRdGnt == RrGrant(rdArb, N, WbufRdPending)
WbufWrGnt == RrGrant(wrArb, N, WbufWrPending)

\* The two classes of waiters, as the request vector of a fixed-priority arbiter.
WbufPending == {k \in {0, 1} : IF k = 0 THEN WbufRdGnt # {} ELSE WbufWrGnt # {}}
WbufGnt == FxGrant(selArb, WbufPending)

\* The one entry the write buffer is asked about in this cycle.
WbufSel == IF 0 \in WbufGnt THEN WbufRdGnt ELSE IF 1 \in WbufGnt THEN WbufWrGnt ELSE {}

\* deps_rst: the dependencies of entry i that this cycle resolves.
DepsRst(in, i) ==
  {d \in DepNames :
     \/ d = "wbuf_hit"        /\ i \in WbufSel /\ ~in.wbufHit
     \/ d = "wbuf_not_ready"  /\ i \in WbufSel /\ ~in.wbufNotReady
     \/ d = "mshr_ready"      /\ in.missReady
     \/ d = "mshr_full"       /\ in.refill
                              /\ i \in RrGrant(fullArb, N, WaitersMshrFull(in.refillLine))
     \/ d = "mshr_hit"        /\ in.refill /\ req[i].line = in.refillLine
     \/ d = "write_miss"      /\ in.refill /\ req[i].line = in.refillLine
     \/ d = "dir_unavailable" /\ in.refill
                              /\ i \in RrGrant(dirArb, N, WaitersDirUnavailable(in.refillLine))
     \/ d = "dir_fetch"       /\ in.refill
                              /\ SetOf[req[i].line] = SetOf[in.refillLine]
                              /\ req[i].way = in.refillWay
     \/ d = "flush_hit"       /\ in.flushAck /\ req[i].line = in.flushLine
     \/ d = "flush_not_ready" /\ in.flushReady
     \/ d = "pend_trans"      /\ in.noPendTrans /\ FenceOnly}

----------------------------------------------------------------------------
(* Replay                                                                  *)

PopGnt == RrGrant(popArb, N, Ready)

\* pop_try_valid_o
PopTryValid == popState # "HEAD" \/ Ready # {}

\* The entry offered for replay, as a one-hot (or empty) vector.
PopSel == IF popState = "HEAD" THEN PopGnt ELSE popNext

\* Where the list continues after the entry that is taken now.
Successor == {next[i] : i \in PopSel}

\* Mutant: the rest of the list is not followed.
PopTaken_ForgetsList ==
  popState' = "HEAD" /\ UNCHANGED popNext

PopTaken ==
  IF PopSel \ tail # {}
    THEN popState' = "NEXT" /\ popNext' = Successor
    ELSE popState' = "HEAD" /\ UNCHANGED popNext

\* Mutant: a roll-back does not stop the replay of the list.
PopFsm_RbackIgnored(in) ==
  CASE in.popTry -> PopTaken
    [] popState = "HEAD" /\ ~in.popTry -> UNCHANGED <<popState, popNext>>
    [] popState # "HEAD" /\ ~in.popTry -> popState' = "NEXT_WAIT" /\ UNCHANGED popNext

(* pop_entry_sel_comb.  A roll-back concerns the request taken in the      *)
(* previous cycle, so it finds the machine in NEXT when that request had a *)
(* successor, and in HEAD when it was the last of its list.                *)
PopFsm(in) ==
  \/ popState = "HEAD"
       /\ IF ~in.rback /\ PopTryValid /\ in.popTry
            THEN PopTaken
            ELSE UNCHANGED <<popState, popNext>>
  \/ popState = "NEXT"
       /\ \/ in.rback /\ popState' = "HEAD" /\ UNCHANGED popNext
          \/ ~in.rback /\ in.popTry /\ PopTaken
          \/ ~in.rback /\ ~in.popTry /\ popState' = "NEXT_WAIT" /\ UNCHANGED popNext
  \/ popState = "NEXT_WAIT"
       /\ IF in.popTry THEN PopTaken ELSE UNCHANGED <<popState, popNext>>

\* Mutant: the arbiter is not told that its grant was taken.
PopHead_Never(in) == FALSE

PopHead(in) == popState = "HEAD" /\ ~in.rback /\ PopTryValid /\ in.popTry

----------------------------------------------------------------------------
(* One clock cycle.  The fields of in are the input signals:               *)
(*   alloc, link (alloc_and_link_i), areq, adeps: a request to be held;    *)
(*   popTry, commit, rback, ptr: the replay handshake;                     *)
(*   the others: what the write buffer, the miss handler and the flush     *)
(*   controller report.                                                    *)

Allocated(in) == IF in.alloc \/ in.link THEN FreeAlloc ELSE {}
Popped(in)    == IF in.popTry THEN PopSel ELSE {}
Committed(in) == IF in.commit THEN {in.ptr} ELSE {}
RolledBack(in) == IF in.rback THEN {in.ptr} ELSE {}
LinkedTo(in)  == IF in.link THEN CheckTail(in.areq.line) ELSE {}

\* A register bank with set and reset vectors: (~q & set) | (q & ~rst).
SetReset(q, set, rst) == (set \ q) \cup (q \ rst)

TailNext(in) == SetReset(tail, Allocated(in), LinkedTo(in))

\* Mutant: a replay that is rolled back does not become a head again.
HeadNext_RbackLost(in) ==
  SetReset(head, IF in.alloc THEN FreeAlloc ELSE {},
           (IF in.link THEN FreeAlloc ELSE {}) \cup Popped(in))

HeadNext(in) ==
  SetReset(head,
           (IF in.alloc THEN FreeAlloc ELSE {}) \cup RolledBack(in),
           (IF in.link THEN FreeAlloc ELSE {}) \cup Popped(in))

\* Mutant: the failed refill of a line marks every request held for it.
ErrorSet_EveryWaiter(in) ==
  {i \in valid : req[i].line = in.refillLine /\ in.refill /\ in.refillError}

\* A held write miss fails with the refill of its line.
ErrorSet(in) ==
  {i \in valid : /\ "write_miss" \in deps[i]
                 /\ req[i].line = in.refillLine
                 /\ in.refill /\ in.refillError}

ListCycle(in) ==
  /\ valid' = SetReset(valid, Allocated(in), Committed(in))
  /\ head'  = HeadNext(in)
  /\ tail'  = TailNext(in)
  /\ next'  = [i \in Entries |->
                 IF i \in LinkedTo(in)
                   THEN IF FreeAlloc # {} THEN CHOOSE f \in FreeAlloc : TRUE ELSE 0
                   ELSE next[i]]
  /\ req'   = [i \in Entries |->
                 IF i \in Allocated(in) \ valid \/ i \in RolledBack(in) THEN in.areq ELSE req[i]]
  /\ PopFsm(in)

DepsCycle(in) ==
  /\ deps'  = [i \in Entries |->
                 SetReset(deps[i],
                          IF i \in Allocated(in) \cup RolledBack(in) THEN in.adeps ELSE {},
                          DepsRst(in, i))]
  /\ error' = SetReset(error, ErrorSet(in), Committed(in))

\* The entry the write buffer answers for is taken for replay: ask for another.
WbufReady(in) == Popped(in) \cap (WbufRdGnt \cup WbufWrGnt) # {}

ArbCycle(in) ==
  /\ popArb'  = RrNext(popArb, N, Ready, PopHead(in))
  /\ fullArb' = RrNext(fullArb, N, WaitersMshrFull(in.refillLine), in.refill)
  /\ dirArb'  = RrNext(dirArb, N, WaitersDirUnavailable(in.refillLine), in.refill)
  /\ rdArb'   = RrNext(rdArb, N, WbufRdPending, 0 \in WbufGnt /\ WbufReady(in))
  /\ wrArb'   = RrNext(wrArb, N, WbufWrPending, 1 \in WbufGnt /\ WbufReady(in))
  /\ selArb'  = FxNext(selArb, WbufPending, WbufReady(in))

Cycle(in) == ListCycle(in) /\ DepsCycle(in) /\ ArbCycle(in) /\ UNCHANGED singleEntry

RtabInit ==
  /\ singleEntry \in BOOLEAN
  /\ valid = {} /\ head = {} /\ tail = {} /\ error = {}
  /\ deps = [i \in Entries |-> {}]
  /\ next = [i \in Entries |-> 0]
  /\ req = [i \in Entries |-> CHOOSE r \in Req : TRUE]
  /\ popState = "HEAD" /\ popNext = {}
  /\ popArb = RrReset(N) /\ fullArb = RrReset(N) /\ dirArb = RrReset(N)
  /\ rdArb = RrReset(N) /\ wrArb = RrReset(N)
  /\ selArb = FxReset
=============================================================================
