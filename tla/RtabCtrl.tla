------------------------------ MODULE RtabCtrl ------------------------------
(***************************************************************************)
(* The replay table under the control of the cache pipeline                *)
(* (hpdcache_ctrl, hpdcache_ctrl_pe): stage 0 chooses between a refill, a  *)
(* replay and a new core request; stage 1, one cycle later, serves the     *)
(* request, holds it in the replay table, or, if it is a replay that       *)
(* cannot be served yet, rolls it back.  The reasons for holding a request *)
(* (write buffer, directory, MSHR, flush controller) are nondeterministic. *)
(***************************************************************************)
EXTENDS Rtab, FiniteSets

CONSTANTS Raised,     \* the dependencies that occur in this instance, for each of its modes
          EccEn,      \* SRAMs with error correction
          WbEn        \* write-back mode supported

ASSUME CtrlAssumption ==
  /\ DOMAIN Raised \subseteq BOOLEAN /\ \A mode \in DOMAIN Raised : Raised[mode] \subseteq DepNames
  /\ EccEn \in BOOLEAN /\ WbEn \in BOOLEAN

VARIABLES
  st1,      \* the request in stage 1
  st2,      \* stage 2 updates the directory, the MSHR or the flush controller
  idle,     \* the write buffer, the MSHR and the flush controller are empty
  refill,   \* the refill machine: busy, and the line and way it holds (also when idle)
  older     \* history: the held requests of the same line that came before

vars == <<rtab, st1, st2, idle, refill, older>>

ARequest == CHOOSE r \in Req : TRUE

\* Registers of stage 1 that are not read while it is empty are not kept.
EmptyStage == [valid |-> FALSE, rtab |-> FALSE, error |-> FALSE, ptr |-> 0, req |-> ARequest]

CoreInStage1   == st1.valid /\ ~st1.rtab
ReplayInStage1 == st1.valid /\ st1.rtab

----------------------------------------------------------------------------
(* Stage 1                                                                 *)

IsFence(r) == r.op = "fence"

\* The dependencies that occur in the mode of the table.
Occur == Raised[singleEntry]

\* What stage 1 may find in the units, in a cycle where their ready signals are
\* u.  A store may itself start the refill or the flush that it then waits for.
Found(op, u) ==
  {d \in Occur :
     CASE d = "mshr_ready"      -> ~u.missReady
       [] d = "flush_not_ready" -> ~u.flushReady
       [] d \in {"write_miss", "flush_hit"} -> op = "store" \/ ~idle
       [] OTHER                 -> ~idle}

\* The dependencies that a request of each class may be held with: one for a load
\* or a store; a fence may also wait for nothing but the others (a flush it started).
LoadReasons  == {{d} : d \in {"mshr_hit", "mshr_full", "dir_unavailable", "wbuf_hit",
                              "mshr_ready", "flush_hit", "flush_not_ready"}}
StoreReasons == {{d} : d \in DepNames \ {"pend_trans"}}
FenceReasons == {{}, {"flush_not_ready"}, {"dir_fetch"}}

\* With error correction, a request also waits while an SRAM is corrected.
Reasons(op, u) ==
  {D \in CASE op = "load"  -> LoadReasons
           [] op = "store" -> StoreReasons
           [] op = "fence" -> FenceReasons
     : D \subseteq Found(op, u)}
  \cup (IF EccEn THEN {{}} ELSE {})

Nothing == [hold |-> FALSE, link |-> FALSE, commit |-> FALSE, deps |-> {},
            nop |-> FALSE, st2 |-> FALSE]

\* A request may leave stage 1 without a nop, except a fence and a replay that no
\* other replay follows (a new request then enters one cycle later).
ServeNops == IF IsFence(st1.req) \/ (st1.rtab /\ ~PopTryValid) THEN {TRUE} ELSE BOOLEAN

\* The request leaves stage 1; a replay is removed from the table.
Serve(n, s) == [Nothing EXCEPT !.commit = st1.rtab, !.nop = n, !.st2 = s]

Served == {Serve(n, s) : n \in ServeNops, s \in BOOLEAN}

\* The request waits for D; stage 2 may already start what it waits for.
Held(D) ==
  {[Nothing EXCEPT !.hold = TRUE, !.nop = TRUE, !.st2 = s,
                   !.deps = D \cup (IF IsFence(st1.req) THEN {"pend_trans"} ELSE {})] :
     s \in BOOLEAN}

Linked == [Nothing EXCEPT !.link = TRUE, !.nop = TRUE]

\* With write-back, an uncorrectable error is answered: nothing is told to the table.
Unrecoverable == [Nothing EXCEPT !.nop = TRUE]

\* A fence is executed when nothing else is in progress (a replayed one has waited for it).
MayExecute == st1.rtab \/ (idle /\ ~st2 /\ Empty)

Outcomes(u) ==
  IF ~st1.valid THEN {Nothing}
  ELSE IF st1.error THEN {[Nothing EXCEPT !.commit = st1.rtab]}
  ELSE (IF st1.rtab THEN {} ELSE {Nothing})      \* aborted by the core
       \cup
       IF ~st1.rtab /\ ~IsFence(st1.req) /\ CheckHit(st1.req.line) # {} THEN {Linked}
       ELSE IF IsFence(st1.req) /\ ~MayExecute THEN Held({})
       ELSE Served
            \cup (UNION {Held(D) : D \in Reasons(st1.req.op, u)})
            \cup (IF EccEn /\ WbEn THEN {Unrecoverable} ELSE {})

----------------------------------------------------------------------------
(* Stage 0                                                                 *)

Nop(o) == o.nop \/ st2

\* Mutant: new requests are accepted while a fence is held.
MayAcceptCore_NoFence(o) == ~PopTryValid /\ ~Full /\ ~Nop(o)

\* Mutant: new requests are accepted while the table is full.
MayAcceptCore_Full(o) == ~PopTryValid /\ ~Fence /\ ~Nop(o)

MayAcceptCore(o) == ~PopTryValid /\ ~Full /\ ~Fence /\ ~Nop(o)

MayReplay(o) == PopTryValid /\ ~Nop(o)

MayRefill == ~st1.valid /\ ~st2 /\ ~idle

Payload(i) == [valid |-> TRUE, rtab |-> TRUE, error |-> i \in error, ptr |-> i, req |-> req[i]]

----------------------------------------------------------------------------
(* One clock cycle                                                         *)

\* A signal that only matters to the requests waiting for d.
Signal(d) == IF d \in Occur THEN BOOLEAN ELSE {TRUE}

\* What the other units report in a cycle; an empty flush controller is ready, and
\* what the write buffer answers matters only to the entry it is asked about.
Units ==
  {u \in [wbufHit : Signal("wbuf_hit"), wbufNotReady : Signal("wbuf_not_ready"),
          missReady : Signal("mshr_ready"), flushReady : Signal("flush_not_ready"),
          flushAck : Signal("flush_hit"),
          flushLine : IF "flush_hit" \in Occur THEN Line ELSE {ARequest.line}] :
     /\ idle => u.flushReady
     /\ WbufSel = {} => u.wbufHit /\ u.wbufNotReady}

RtabIn(o, way, u, popTry, pulse, failed) ==
  [alloc |-> o.hold /\ ~st1.rtab, link |-> o.link,
   areq |-> [st1.req EXCEPT !.way = way], adeps |-> o.deps,
   popTry |-> popTry, commit |-> o.commit, rback |-> o.hold /\ st1.rtab, ptr |-> st1.ptr,
   wbufHit |-> u.wbufHit, wbufNotReady |-> u.wbufNotReady,
   missReady |-> u.missReady, flushReady |-> u.flushReady,
   flushAck |-> u.flushAck, flushLine |-> u.flushLine,
   refill |-> pulse, refillError |-> failed,
   refillLine |-> refill.line, refillWay |-> refill.way,
   noPendTrans |-> idle /\ ~st1.valid /\ ~st2]

\* The replay table and its history move with the pipeline.
Table(in) ==
  /\ Cycle(in)
  /\ older' = [i \in Entries |->
                 (IF i \in Allocated(in) THEN CheckHit(in.areq.line) ELSE older[i])
                   \ Committed(in)]

\* Idle units get work from the pipeline only; a refill keeps them busy.
UnitsMove ==
  /\ idle' \in BOOLEAN
  /\ idle /\ ~st1.valid /\ ~st2 => idle'
  /\ refill'.busy => ~idle'

\* The way written with a held request is the one that hit.
WayOf(o) == IF "dir_fetch" \in o.deps THEN Way ELSE {st1.req.way}

(* Stage 0 takes the offered replay. *)
Replay ==
  \E u \in Units : \E o \in Outcomes(u) : \E w \in WayOf(o), i \in PopSel :
    /\ ~refill.busy
    /\ MayReplay(o)
    /\ Table(RtabIn(o, w, u, TRUE, FALSE, FALSE))
    /\ st1' = Payload(i)
    /\ st2' = o.st2
    /\ UNCHANGED refill
    /\ UnitsMove

(* Stage 0 takes a request of the core. *)
Accept ==
  \E u \in Units : \E o \in Outcomes(u) : \E w \in WayOf(o), r \in Req :
    /\ ~refill.busy
    /\ MayAcceptCore(o)
    /\ r.way = ARequest.way
    /\ Table(RtabIn(o, w, u, FALSE, FALSE, FALSE))
    /\ st1' = [valid |-> TRUE, rtab |-> FALSE, error |-> FALSE, ptr |-> 0, req |-> r]
    /\ st2' = o.st2
    /\ UNCHANGED refill
    /\ UnitsMove

(* Stage 0 takes nothing: no request, a nop, or another unit is busy. *)
Bubble ==
  \E u \in Units : \E o \in Outcomes(u) : \E w \in WayOf(o) :
    /\ ~refill.busy
    /\ Table(RtabIn(o, w, u, FALSE, FALSE, FALSE))
    /\ st1' = EmptyStage
    /\ st2' = o.st2
    /\ UNCHANGED refill
    /\ UnitsMove

(* The miss handler takes the pipeline for a refill. *)
RefillStart ==
  \E u \in Units, l \in Line, w \in Way :
    /\ ~refill.busy
    /\ MayRefill
    /\ Table(RtabIn(Nothing, st1.req.way, u, FALSE, FALSE, FALSE))
    /\ refill' = [busy |-> TRUE, line |-> l, way |-> w]
    /\ UNCHANGED <<st1, st2>>
    /\ UnitsMove

(* A cycle of the refill; the last one (pulse) updates the replay table. *)
RefillStep ==
  \E u \in Units, pulse, failed \in BOOLEAN :
    /\ refill.busy
    /\ failed => pulse
    /\ Table(RtabIn(Nothing, st1.req.way, u, FALSE, pulse, failed))
    /\ refill' = [refill EXCEPT !.busy = ~pulse]
    /\ UNCHANGED <<st1, st2>>
    /\ UnitsMove

Init ==
  /\ RtabInit /\ singleEntry \in DOMAIN Raised
  /\ st1 = EmptyStage
  /\ st2 = FALSE
  /\ idle = TRUE
  /\ refill = [busy |-> FALSE, line |-> ARequest.line, way |-> ARequest.way]
  /\ older = [i \in Entries |-> {}]

Next == Replay \/ Accept \/ Bubble \/ RefillStart \/ RefillStep

Spec == Init /\ [][Next]_vars

(* Replays are taken infinitely often when they are offered again and      *)
(* again: what keeps stage 0 from taking one (a nop, a refill, a busy      *)
(* unit) ends, and no new request enters while a replay is offered.        *)
FairSpec == Spec /\ WF_vars(Next) /\ SF_vars(Replay)

----------------------------------------------------------------------------
(* Properties                                                              *)

RrState == [gnt : Entries, wait : BOOLEAN]

TypeOK ==
  /\ singleEntry \in BOOLEAN
  /\ valid \subseteq Entries /\ head \subseteq Entries
  /\ tail \subseteq Entries /\ error \subseteq Entries
  /\ deps \in [Entries -> SUBSET DepNames]
  /\ next \in [Entries -> Entries]
  /\ req \in [Entries -> Req]
  /\ popState \in {"HEAD", "NEXT", "NEXT_WAIT"}
  /\ popNext \subseteq Entries
  /\ popArb \in RrState /\ fullArb \in RrState /\ dirArb \in RrState
  /\ rdArb \in RrState /\ wrArb \in RrState
  /\ selArb \subseteq {0, 1}
  /\ st1 \in [valid : BOOLEAN, rtab : BOOLEAN, error : BOOLEAN, ptr : Entries, req : Req]
  /\ st2 \in BOOLEAN /\ idle \in BOOLEAN
  /\ refill \in [busy : BOOLEAN, line : Line, way : Way]
  /\ older \in [Entries -> SUBSET Entries]

(* Requests of the same line are executed in the order they came: when a   *)
(* replay is in stage 1, no held request of its line is older, although    *)
(* replays are pipelined behind each other and may be rolled back.         *)
SameLineOrder == ReplayInStage1 => older[st1.ptr] = {}

(* No held request is forgotten: it is the head of a list, the one being   *)
(* replayed, the next one to be, or the successor of a held request.       *)
NoOrphan ==
  \A k \in valid :
    \/ k \in head
    \/ ReplayInStage1 /\ st1.ptr = k
    \/ popState # "HEAD" /\ popNext = {k}
    \/ \E i \in valid \ tail : next[i] = k

(* A fence is replayed alone, and no request that came after a held fence  *)
(* reaches stage 1.                                                        *)
FenceOrder ==
  /\ ReplayInStage1 /\ IsFence(st1.req) => valid = {st1.ptr}
  /\ CoreInStage1 => \A i \in valid : ~IsFence(req[i])

(* A new request that must wait behind held requests of its line finds     *)
(* exactly one tail to be linked to, and a free entry.                     *)
LinkTarget ==
  CoreInStage1 =>
    /\ valid # Entries
    /\ ~IsFence(st1.req) /\ CheckHit(st1.req.line) # {}
         => Cardinality(CheckTail(st1.req.line)) = 1

(* Grants that the arbiters hold stay meaningful: the entry offered for    *)
(* replay is still ready, the ones to be woken still wait, and the one     *)
(* the write buffer is asked about is still held.                          *)
GrantsValid ==
  /\ popArb.wait => popArb.gnt \in Ready
  /\ fullArb.wait => fullArb.gnt \in valid /\ "mshr_full" \in deps[fullArb.gnt]
  /\ dirArb.wait => dirArb.gnt \in valid /\ "dir_unavailable" \in deps[dirArb.gnt]
  /\ rdArb.wait => rdArb.gnt \in valid \cap head
  /\ wrArb.wait => wrArb.gnt \in valid \cap head
  /\ 0 \in selArb => rdArb.wait
  /\ 1 \in selArb => wrArb.wait

(* A failed write miss is answered with an error at its next replay: it    *)
(* waits for nothing more, and the flag never leaks to another request.    *)
ErrorReplayed ==
  \A i \in error : i \in valid /\ deps[i] = {}
                   /\ (i \in head \/ (ReplayInStage1 /\ st1.ptr = i /\ st1.error))

(* In single-entry mode (cfg_rtab_single_entry_i) the table never holds    *)
(* more than one request, whatever is in the pipeline when it fills.       *)
SingleEntryMode == singleEntry => Cardinality(valid) <= 1

(* A replay in stage 1 is committed or rolled back in that cycle.          *)
ReplayResolved ==
  [][ReplayInStage1 => st1.ptr \notin valid' \/ st1.ptr \in head']_vars

(* Every held request that waits for nothing is eventually replayed,       *)
(* however often the other ones are replayed and rolled back.              *)
ReadyReplayed == \A i \in Entries : i \in Ready ~> i \notin head
=============================================================================
