----------------------------- MODULE RtabProofs -----------------------------
(***************************************************************************)
(* Theorems about the replay table under the cache pipeline, for every     *)
(* number of entries, lines and ways, and every pattern of dependencies.   *)
(***************************************************************************)
EXTENDS RtabCtrl, ArbiterTheorems, FiniteSetTheorems, TLAPS

HeldFence == {i \in valid : IsFence(req[i])}
Plain     == valid \ HeldFence
InFlight  == IF ReplayInStage1 THEN {st1.ptr} ELSE {}

SameLine(i, j) == req[i].line = req[j].line

\* The pipeline and the machine that follows the lists move in step.
PipeInv ==
  /\ refill.busy => ~st1.valid /\ ~st2 /\ ~idle
  /\ ReplayInStage1 => /\ st1.ptr \in valid \ head
                       /\ st1.req.line = req[st1.ptr].line
                       /\ st1.req.op = req[st1.ptr].op
                       /\ st1.error <=> st1.ptr \in error
  /\ CoreInStage1 => popState = "HEAD" /\ valid # Entries /\ ~st1.error
  /\ popState = "HEAD" /\ ReplayInStage1 => st1.ptr \in tail
  /\ popState = "NEXT" => ReplayInStage1 /\ st1.ptr \notin tail /\ popNext = {next[st1.ptr]}
  /\ popState = "NEXT_WAIT" =>
       /\ ~st1.valid
       /\ \E k \in valid \ head : popNext = {k} /\ older[k] = {}

\* Only a head waits, and the replay that is offered waits for nothing.
DepInv ==
  /\ head \subseteq valid
  /\ \A i \in Entries \ head : deps[i] = {}
  /\ \A i \in valid : "pend_trans" \in deps[i] => IsFence(req[i])
  /\ popArb.wait => popArb.gnt \in Ready

\* The history is an order on the held requests of a line.
OlderHeld  == \A i \in valid : older[i] \subseteq valid \ {i}
OlderOrder == \A i \in valid : \A j \in older[i] : SameLine(i, j) /\ i \notin older[j]

\* Heads and the replay in stage 1 are the oldest of their line.
HeadsFirst == /\ \A i \in head \ HeldFence : older[i] = {}
              /\ \A i \in InFlight : older[i] = {}

\* The links follow the order of arrival.
LinksFollow ==
  \A i \in valid \ tail : /\ i \in Plain /\ next[i] \in Plain
                          /\ SameLine(i, next[i])
                          /\ older[next[i]] = older[i] \cup {i}

\* Every line in the table has a tail, and it is the youngest.
TailLast    == \A i \in Plain \cap tail, j \in Plain : SameLine(i, j) /\ i # j => j \in older[i]
LineHasTail == \A j \in Plain : \E t \in Plain \cap tail : SameLine(t, j)

OrderInv == OlderHeld /\ OlderOrder /\ HeadsFirst /\ LinksFollow /\ TailLast /\ LineHasTail /\ NoOrphan

\* There is at most one held fence; it is a list of its own, and released alone.
FenceInv ==
  /\ \A f \in HeldFence : f \in tail /\ (f \in head \/ f \in InFlight)
  /\ \A f, g \in HeldFence : f = g
  /\ CoreInStage1 => HeldFence = {}
  /\ \A f \in HeldFence : "pend_trans" \notin deps[f] =>
                            valid = {f} /\ idle /\ ~st2
  /\ \A f \in HeldFence : deps[f] \subseteq {"pend_trans"}

ErrorInv ==
  /\ ErrorReplayed
  /\ \A i \in valid : "write_miss" \in deps[i] => deps[i] = {"write_miss"} /\ ~IsFence(req[i])
  /\ \A i \in error : ~IsFence(req[i])

SingleInv ==
  singleEntry => /\ CoreInStage1 => valid = {}
                 /\ \A i, j \in valid : i = j

IInv == TypeOK /\ PipeInv /\ DepInv /\ OrderInv /\ FenceInv /\ ErrorInv /\ SingleInv

----------------------------------------------------------------------------
(* What a cycle does to the lists.  There are four kinds of cycles: stage 1 *)
(* holds a new request in a list of its own (AllocStep), appends it to a   *)
(* list (LinkStep), rolls a replay back (RbackStep), or lets go of its     *)
(* request (AdvanceStep).                                                  *)

\* Stage 1 is empty after the cycle.
Drained == ~st1'.valid

\* Dependencies are only removed, and a fence's only in an empty pipeline.
DepsShrink(S) ==
  \A i \in S : /\ deps'[i] \subseteq deps[i]
               /\ "pend_trans" \in deps[i] /\ "pend_trans" \notin deps'[i]
                    => valid = FenceEntries /\ idle /\ ~st1.valid /\ ~st2

\* Entry i waits for D afterwards.
DepsSet(i, D) ==
  /\ deps'[i] = D
  /\ "pend_trans" \in D => IsFence(st1.req)
  /\ IsFence(st1.req) => D = {"pend_trans"}
  /\ "write_miss" \in D => D = {"write_miss"}

\* Entries E are marked with an error when their write miss is resolved.
ErrorStep(C) ==
  \E E \in SUBSET valid :
    /\ error' = SetReset(error, E, C)
    /\ \A i \in E : "write_miss" \in deps[i] /\ "write_miss" \notin deps'[i]

SameReq(i) == req'[i].line = st1.req.line /\ req'[i].op = st1.req.op

AllocStep(n) ==
  /\ CoreInStage1 /\ Drained
  /\ n \in Entries \ valid
  /\ ~IsFence(st1.req) => CheckHit(st1.req.line) = {}
  /\ valid' = valid \cup {n} /\ head' = head \cup {n} /\ tail' = tail \cup {n}
  /\ next' = next /\ SameReq(n)
  /\ \A i \in Entries \ {n} : req'[i] = req[i] /\ older'[i] = older[i]
  /\ older'[n] = CheckHit(st1.req.line)
  /\ popState' = popState /\ popNext' = popNext
  /\ DepsShrink(Entries \ {n}) /\ \E D \in SUBSET DepNames : DepsSet(n, D)
  /\ ErrorStep({})

LinkStep(n, t) ==
  /\ CoreInStage1 /\ Drained /\ ~IsFence(st1.req)
  /\ n \in Entries \ valid
  /\ t \in valid /\ CheckTail(st1.req.line) = {t}
  /\ valid' = valid \cup {n} /\ head' = head /\ tail' = (tail \ {t}) \cup {n}
  /\ next'[t] = n /\ \A i \in Entries \ {t} : next'[i] = next[i]
  /\ SameReq(n)
  /\ \A i \in Entries \ {n} : req'[i] = req[i] /\ older'[i] = older[i]
  /\ older'[n] = CheckHit(st1.req.line)
  /\ popState' = popState /\ popNext' = popNext
  /\ DepsShrink(Entries)
  /\ ErrorStep({})

RbackStep ==
  /\ ReplayInStage1 /\ Drained /\ ~st1.error
  /\ valid' = valid /\ head' = head \cup {st1.ptr} /\ tail' = tail
  /\ next' = next /\ SameReq(st1.ptr)
  /\ \A i \in Entries \ {st1.ptr} : req'[i] = req[i]
  /\ older' = older
  /\ popState' = "HEAD" /\ popNext' = popNext
  /\ DepsShrink(Entries \ {st1.ptr}) /\ \E D \in SUBSET DepNames : DepsSet(st1.ptr, D)
  /\ ErrorStep({})

\* What stage 0 does meanwhile: it takes nothing or a core request ...
NoPop ==
  /\ head' = head /\ popNext' = popNext
  /\ popState' = IF popState = "HEAD" THEN "HEAD" ELSE "NEXT_WAIT"
  /\ \/ Drained
     \/ /\ CoreInStage1' /\ ~st1'.error
        /\ ~PopTryValid /\ ~Full /\ ~Fence
        /\ ~(ReplayInStage1 /\ IsFence(st1.req))

\* ... or the replay of entry i.
Pop(i) ==
  /\ PopSel = {i} /\ i \in valid /\ deps[i] = {}
  /\ popState = "HEAD" => i \in head
  /\ popState # "HEAD" => i \notin head /\ popNext = {i}
  /\ head' = head \ {i}
  /\ st1' = Payload(i)
  /\ popArb'.wait => popArb'.gnt # i
  /\ i \in tail => popState' = "HEAD" /\ popNext' = popNext
  /\ i \notin tail => popState' = "NEXT" /\ popNext' = {next[i]}

AdvanceStep ==
  /\ valid' = valid \ InFlight
  /\ tail' = tail /\ next' = next /\ req' = req
  /\ \A i \in Entries : older'[i] = older[i] \ InFlight
  /\ DepsShrink(Entries)
  /\ ErrorStep(InFlight)
  /\ NoPop \/ \E i \in Entries : Pop(i)

\* What happens around the table.
AroundStep ==
  /\ popArb'.wait => popArb'.gnt \in Ready
  /\ ~st1.valid => ~st2'
  /\ idle' \in BOOLEAN /\ st2' \in BOOLEAN
  /\ idle /\ ~st1.valid /\ ~st2 => idle'
  /\ refill'.busy => ~st1'.valid /\ ~st2' /\ ~idle'

----------------------------------------------------------------------------
(* Each kind of cycle keeps the order of the lists                         *)

\* A request held in a list of its own.
LEMMA AllocOrder ==
  ASSUME TypeOK, PipeInv, DepInv, OrderInv, FenceInv, NEW n, AllocStep(n)
  PROVE  OrderInv'
<1> USE DEF TypeOK, AllocStep, Drained, CoreInStage1, ReplayInStage1, CheckHit, SameReq, IsFence
<1>1. /\ HeldFence = {} /\ Plain = valid /\ InFlight = {} /\ InFlight' = {}
      /\ n \notin valid /\ n \in Entries /\ head \subseteq valid
      /\ popState = "HEAD" /\ popState' = "HEAD"
  BY DEF FenceInv, Plain, HeldFence, InFlight, DepInv, PipeInv
<1>2. \A i \in valid : /\ older'[i] = older[i] /\ req'[i] = req[i] /\ next'[i] = next[i]
                       /\ i # n /\ i \in Entries /\ (i \in tail' <=> i \in tail)
  BY <1>1
<1>3. IsFence(req'[n]) <=> IsFence(st1.req)
  OBVIOUS
<1>4. /\ HeldFence' = IF IsFence(st1.req) THEN {n} ELSE {}
      /\ Plain' = IF IsFence(st1.req) THEN valid ELSE valid \cup {n}
  BY <1>1, <1>2, <1>3 DEF HeldFence, Plain
<1>5. OlderHeld'
  BY <1>1, <1>2 DEF OrderInv, OlderHeld
<1>6. OlderOrder'
  BY <1>1, <1>2 DEF OrderInv, OlderHeld, OlderOrder, SameLine
<1>7. HeadsFirst'
  BY <1>1, <1>2, <1>4 DEF OrderInv, HeadsFirst
<1>8. LinksFollow'
  BY <1>1, <1>2, <1>4 DEF OrderInv, LinksFollow, SameLine
<1>9. TailLast'
  BY <1>1, <1>2, <1>4 DEF OrderInv, TailLast, SameLine
<1>10. LineHasTail'
  BY <1>1, <1>2, <1>4 DEF OrderInv, LineHasTail, SameLine
<1>11. NoOrphan'
  BY <1>1, <1>2 DEF OrderInv, NoOrphan
<1> QED
  BY <1>5, <1>6, <1>7, <1>8, <1>9, <1>10, <1>11 DEF OrderInv

\* A request appended to the list of its line.
LEMMA LinkOrder ==
  ASSUME TypeOK, PipeInv, DepInv, OrderInv, FenceInv, NEW n, NEW t, LinkStep(n, t)
  PROVE  OrderInv'
<1> USE DEF TypeOK, LinkStep, Drained, CoreInStage1, ReplayInStage1, CheckHit, SameReq, IsFence
<1>1. /\ HeldFence = {} /\ Plain = valid /\ InFlight = {} /\ InFlight' = {}
      /\ n \notin valid /\ n \in Entries /\ head \subseteq valid
      /\ popState = "HEAD" /\ popState' = "HEAD"
  BY DEF FenceInv, Plain, HeldFence, InFlight, DepInv, PipeInv
<1>2. \A i \in valid : /\ older'[i] = older[i] /\ req'[i] = req[i] /\ (i # t => next'[i] = next[i])
                       /\ i # n /\ i \in Entries /\ (i \in tail' <=> i \in tail /\ i # t)
  BY <1>1
<1>3. t \in valid \cap tail /\ req[t].line = st1.req.line /\ n # t /\ next'[t] = n
  BY DEF CheckTail
<1>4. HeldFence' = {} /\ Plain' = valid \cup {n}
  BY <1>1, <1>2 DEF HeldFence, Plain
<1>5. \A j \in valid : req[j].line = st1.req.line /\ j # t => j \in older[t]
  BY <1>1, <1>3 DEF OrderInv, TailLast, SameLine
<1>6. CheckHit(st1.req.line) = older[t] \cup {t}
  BY <1>3, <1>5 DEF OrderInv, OlderHeld, OlderOrder, SameLine
<1>7. OlderHeld'
  BY <1>1, <1>2 DEF OrderInv, OlderHeld
<1>8. OlderOrder'
  BY <1>1, <1>2 DEF OrderInv, OlderHeld, OlderOrder, SameLine
<1>9. HeadsFirst'
  BY <1>1, <1>2, <1>4 DEF OrderInv, HeadsFirst
<1>10. LinksFollow'
  BY <1>1, <1>2, <1>3, <1>4, <1>6 DEF OrderInv, LinksFollow, SameLine
<1>11. TailLast'
  <2>1. \A i \in valid \cap tail' : req[i].line # st1.req.line
    BY <1>2 DEF CheckTail
  <2> QED
    BY <1>1, <1>2, <1>3, <1>4, <2>1 DEF OrderInv, TailLast, SameLine
<1>12. LineHasTail'
  BY <1>1, <1>2, <1>3, <1>4 DEF OrderInv, LineHasTail, SameLine
<1>13. NoOrphan'
  BY <1>1, <1>2, <1>3 DEF OrderInv, NoOrphan
<1> QED
  BY <1>7, <1>8, <1>9, <1>10, <1>11, <1>12, <1>13 DEF OrderInv

\* A replay rolled back.
LEMMA RbackOrder ==
  ASSUME TypeOK, PipeInv, DepInv, OrderInv, FenceInv, RbackStep
  PROVE  OrderInv'
<1> USE DEF TypeOK, RbackStep, Drained, CoreInStage1, ReplayInStage1, SameReq, IsFence
<1>1. /\ InFlight = {st1.ptr} /\ InFlight' = {} /\ st1.ptr \in valid /\ st1.ptr \in Entries
      /\ popState' = "HEAD" /\ older[st1.ptr] = {}
  BY DEF InFlight, PipeInv, OrderInv, HeadsFirst
<1>2. \A i \in Entries : req'[i].line = req[i].line /\ req'[i].op = req[i].op
  BY <1>1 DEF PipeInv
<1>3. HeldFence' = HeldFence /\ Plain' = Plain
  BY <1>2 DEF HeldFence, Plain
<1>4. \A i, j \in Entries : SameLine(i, j)' <=> SameLine(i, j)
  BY <1>2 DEF SameLine
<1>5. OlderHeld' /\ OlderOrder'
  BY <1>4 DEF OrderInv, OlderHeld, OlderOrder
<1>6. HeadsFirst'
  BY <1>1, <1>3 DEF OrderInv, HeadsFirst
<1>7. LinksFollow'
  BY <1>3, <1>4 DEF OrderInv, LinksFollow
<1>8. TailLast' /\ LineHasTail'
  BY <1>3, <1>4 DEF OrderInv, TailLast, LineHasTail, Plain
<1>9. NoOrphan'
  <2> SUFFICES ASSUME NEW k \in valid, k \notin head', k # st1.ptr
               PROVE  \E i \in valid \ tail : next[i] = k
    BY DEF NoOrphan
  <2>1. CASE popState = "NEXT" /\ popNext = {k}
    BY <1>1, <2>1 DEF PipeInv
  <2>2. popState # "NEXT_WAIT"
    BY DEF PipeInv
  <2> QED
    BY <2>1, <2>2 DEF OrderInv, NoOrphan
<1> QED
  BY <1>5, <1>6, <1>7, <1>8, <1>9 DEF OrderInv

\* Stage 1 lets go of its request, and stage 0 may take a replay.
LEMMA AdvanceOrder ==
  ASSUME TypeOK, PipeInv, DepInv, OrderInv, FenceInv, AdvanceStep
  PROVE  OrderInv'
<1> USE DEF TypeOK
<1>1. /\ InFlight \subseteq valid \ head
      /\ \A i \in InFlight : older[i] = {}
  BY DEF InFlight, PipeInv, OrderInv, HeadsFirst
<1>2. /\ valid' = valid \ InFlight /\ tail' = tail /\ next' = next /\ req' = req
      /\ \A i \in valid : i \in Entries /\ older'[i] = older[i] \ InFlight
      /\ head' \subseteq head
  BY DEF AdvanceStep, NoPop, Pop
<1>3. HeldFence' = HeldFence \ InFlight /\ Plain' = Plain \ InFlight
  BY <1>2 DEF HeldFence, Plain
<1>4. \A i, j : SameLine(i, j)' <=> SameLine(i, j)
  BY <1>2 DEF SameLine
<1>5. OlderHeld' /\ OlderOrder'
  BY <1>2, <1>4 DEF OrderInv, OlderHeld, OlderOrder
<1>6. \A i \in InFlight' : i \in valid' /\ older'[i] = {}
  <2>1. CASE NoPop
    BY <2>1 DEF NoPop, InFlight, Drained, ReplayInStage1, CoreInStage1
  <2>2. ASSUME NEW i \in Entries, Pop(i) PROVE i \in valid' /\ older'[i] = {} /\ InFlight' = {i}
    <3>1. InFlight' = {i} /\ i \in valid
      BY <2>2 DEF Pop, Payload, InFlight, ReplayInStage1
    <3>2. CASE popState = "HEAD"
      <4>1. i \in head /\ i \notin InFlight
        BY <1>1, <2>2, <3>2 DEF Pop
      <4>2. i \in HeldFence => older[i] = {}
        <5>1. i \in HeldFence => valid = {i}
          BY <2>2 DEF Pop, FenceInv
        <5> QED
          BY <5>1 DEF OrderInv, OlderHeld
      <4> QED
        BY <1>2, <3>1, <4>1, <4>2 DEF OrderInv, HeadsFirst
    <3>3. CASE popState = "NEXT"
      <4>1. InFlight = {st1.ptr} /\ st1.ptr \in valid \ tail /\ i = next[st1.ptr]
        BY <2>2, <3>3 DEF Pop, PipeInv, InFlight
      <4> QED
        BY <1>1, <1>2, <3>1, <4>1 DEF OrderInv, LinksFollow, OlderHeld
    <3>4. CASE popState = "NEXT_WAIT"
      BY <1>2, <2>2, <3>1, <3>4 DEF Pop, PipeInv, InFlight, ReplayInStage1
    <3> QED
      BY <3>1, <3>2, <3>3, <3>4
  <2> QED
    BY <2>1, <2>2 DEF AdvanceStep
<1>7. HeadsFirst'
  BY <1>1, <1>2, <1>3, <1>6 DEF OrderInv, HeadsFirst, DepInv
<1>8. LinksFollow'
  <2> SUFFICES ASSUME NEW i \in valid \ tail, i \notin InFlight
               PROVE  /\ i \in Plain' /\ next[i] \in Plain' /\ SameLine(i, next[i])
                      /\ older'[next[i]] = older'[i] \cup {i}
    BY <1>2, <1>4 DEF LinksFollow
  <2>1. /\ i \in Plain /\ next[i] \in Plain /\ SameLine(i, next[i])
        /\ older[next[i]] = older[i] \cup {i}
    BY DEF OrderInv, LinksFollow
  <2>2. next[i] \notin InFlight
    BY <1>1, <2>1
  <2> QED
    BY <1>2, <1>3, <2>1, <2>2 DEF Plain
<1>9. TailLast'
  BY <1>2, <1>3, <1>4 DEF OrderInv, TailLast, Plain
<1>10. LineHasTail'
  <2> SUFFICES ASSUME NEW j \in Plain, j \notin InFlight
               PROVE  \E t \in (Plain \ InFlight) \cap tail : SameLine(t, j)
    BY <1>2, <1>3, <1>4 DEF LineHasTail
  <2>1. PICK t \in Plain \cap tail : SameLine(t, j)
    BY DEF OrderInv, LineHasTail
  <2>2. t # j => j \in older[t]
    BY <2>1 DEF OrderInv, TailLast
  <2> QED
    BY <1>1, <2>1, <2>2
<1>11. NoOrphan'
  <2> SUFFICES ASSUME NEW k \in valid, k \notin InFlight
               PROVE  \/ k \in head'
                      \/ k \in InFlight'
                      \/ popState' # "HEAD" /\ popNext' = {k}
                      \/ \E i \in valid' \ tail' : next'[i] = k
    BY <1>2 DEF NoOrphan, InFlight
  <2>1. CASE k \in head
    BY <2>1 DEF AdvanceStep, NoPop, Pop, Payload, InFlight, ReplayInStage1
  <2>2. CASE popState # "HEAD" /\ popNext = {k}
    <3>1. CASE NoPop
      BY <2>2, <3>1 DEF NoPop
    <3>2. ASSUME NEW i \in Entries, Pop(i) PROVE k \in InFlight'
      <4>1. popNext = {i} /\ InFlight' = {i}
        BY <2>2, <3>2 DEF Pop, Payload, InFlight, ReplayInStage1
      <4> QED
        BY <2>2, <4>1
    <3> QED
      BY <3>1, <3>2 DEF AdvanceStep
  <2>3. ASSUME NEW i \in valid \ tail, next[i] = k, i \in InFlight
        PROVE  popState # "HEAD" /\ popNext = {k}
    <3>1. ReplayInStage1 /\ i = st1.ptr
      BY <2>3 DEF InFlight
    <3>2. popState = "NEXT"
      BY <2>3, <3>1 DEF PipeInv, ReplayInStage1
    <3> QED
      BY <2>3, <3>1, <3>2 DEF PipeInv
  <2>4. CASE \E i \in valid \ tail : next[i] = k
    BY <1>2, <2>2, <2>3, <2>4
  <2>5. ~(ReplayInStage1 /\ st1.ptr = k)
    BY DEF InFlight
  <2> QED
    BY <2>1, <2>2, <2>4, <2>5 DEF OrderInv, NoOrphan
<1> QED
  BY <1>5, <1>7, <1>8, <1>9, <1>10, <1>11 DEF OrderInv

----------------------------------------------------------------------------
(* The other parts of the invariant                                        *)

Steps ==
  \/ \E n \in Entries : AllocStep(n)
  \/ \E n, t \in Entries : LinkStep(n, t)
  \/ RbackStep
  \/ AdvanceStep

\* The order of the lists, for every kind of cycle.
LEMMA StepOrder ==
  ASSUME TypeOK, PipeInv, DepInv, OrderInv, FenceInv, Steps
  PROVE  OrderInv'
  BY AllocOrder, LinkOrder, RbackOrder, AdvanceOrder DEF Steps

\* The pipeline and the machine stay in step.
LEMMA StepPipe ==
  ASSUME TypeOK, PipeInv, DepInv, OrderInv, FenceInv, ErrorInv, AroundStep, Steps
  PROVE  PipeInv'
<1> USE DEF TypeOK, ReplayInStage1, CoreInStage1, Drained
<1>1. ASSUME NEW n \in Entries, AllocStep(n) PROVE PipeInv'
  BY <1>1 DEF AllocStep, PipeInv, AroundStep
<1>2. ASSUME NEW n \in Entries, NEW t \in Entries, LinkStep(n, t) PROVE PipeInv'
  BY <1>2 DEF LinkStep, PipeInv, AroundStep
<1>3. CASE RbackStep
  BY <1>3 DEF RbackStep, PipeInv, AroundStep
<1>4. CASE AdvanceStep /\ NoPop
  <2>1. popState = "NEXT" => popState' = "NEXT_WAIT"
    BY <1>4 DEF NoPop
  <2>2. CASE popState = "HEAD"
    <3>1. popState' = "HEAD"
      BY <1>4, <2>2 DEF NoPop
    <3>2. CoreInStage1' => valid' # Entries
      BY <1>4 DEF AdvanceStep, NoPop, Full
    <3> QED
      BY <1>4, <3>1, <3>2 DEF PipeInv, AroundStep, NoPop
  <2>3. CASE popState # "HEAD"
    <3>1. popState' = "NEXT_WAIT" /\ Drained
      BY <1>4, <2>3 DEF NoPop, PopTryValid
    <3>2. \E k \in valid' \ head' : popNext' = {k} /\ older'[k] = {}
      <4>1. CASE popState = "NEXT"
        <5>1. InFlight = {st1.ptr} /\ st1.ptr \in valid \ tail /\ popNext = {next[st1.ptr]}
          BY <4>1 DEF PipeInv, InFlight
        <5>2. older[st1.ptr] = {} /\ older[next[st1.ptr]] = {st1.ptr} /\ next[st1.ptr] \in valid
          BY <5>1 DEF OrderInv, HeadsFirst, LinksFollow, Plain
        <5>3. next[st1.ptr] \notin head /\ next[st1.ptr] # st1.ptr
          BY <5>1, <5>2 DEF OrderInv, HeadsFirst, LinksFollow, Plain
        <5> QED
          BY <1>4, <5>1, <5>2, <5>3 DEF AdvanceStep, NoPop
      <4>2. CASE popState = "NEXT_WAIT"
        BY <1>4, <4>2 DEF AdvanceStep, NoPop, PipeInv, InFlight
      <4> QED
        BY <2>3, <4>1, <4>2
    <3> QED
      BY <3>1, <3>2 DEF PipeInv, AroundStep
  <2> QED
    BY <2>2, <2>3
<1>5. ASSUME NEW i \in Entries, AdvanceStep, Pop(i) PROVE PipeInv'
  <2>1. st1' = [valid |-> TRUE, rtab |-> TRUE, error |-> i \in error, ptr |-> i, req |-> req[i]]
    BY <1>5 DEF Pop, Payload
  <2>2. i \in valid \ InFlight
    <3>1. CASE popState = "HEAD"
      BY <1>5, <3>1 DEF Pop, InFlight, PipeInv
    <3>2. CASE popState = "NEXT"
      <4>1. InFlight = {st1.ptr} /\ st1.ptr \in valid \ tail /\ i = next[st1.ptr]
        BY <1>5, <3>2 DEF Pop, PipeInv, InFlight
      <4> QED
        BY <1>5, <4>1 DEF Pop, OrderInv, HeadsFirst, LinksFollow
    <3>3. CASE popState = "NEXT_WAIT"
      BY <1>5, <3>3 DEF Pop, PipeInv, InFlight
    <3> QED
      BY <3>1, <3>2, <3>3
  <2>3. i \in valid' \ head'
    BY <1>5, <2>2 DEF AdvanceStep, Pop
  <2>4. i \in error' <=> i \in error
    BY <1>5, <2>2 DEF AdvanceStep, ErrorStep, SetReset, Pop
  <2>5. req' = req /\ next' = next /\ tail' = tail
    BY <1>5 DEF AdvanceStep
  <2>6. /\ i \in tail => popState' = "HEAD"
        /\ i \notin tail => popState' = "NEXT" /\ popNext' = {next[i]}
    BY <1>5 DEF Pop
  <2>7. ~refill'.busy
    BY <2>1 DEF AroundStep
  <2> QED
    BY <2>1, <2>3, <2>4, <2>5, <2>6, <2>7 DEF PipeInv
<1> QED
  BY <1>1, <1>2, <1>3, <1>4, <1>5 DEF Steps, AdvanceStep

\* Only heads wait, and the offered replay waits for nothing.
LEMMA StepDeps ==
  ASSUME TypeOK, TypeOK', PipeInv, DepInv, OrderInv, FenceInv, AroundStep, Steps
  PROVE  DepInv'
<1> USE DEF TypeOK, ReplayInStage1, CoreInStage1
<1>1. ASSUME NEW n \in Entries, AllocStep(n) PROVE DepInv'
  <2>1. head' \subseteq valid' /\ \A i \in Entries \ head' : deps'[i] = {}
    BY <1>1 DEF AllocStep, DepInv, DepsShrink
  <2>2. \A i \in valid' : "pend_trans" \in deps'[i] => IsFence(req'[i])
    BY <1>1 DEF AllocStep, DepInv, DepsShrink, DepsSet, SameReq, IsFence
  <2>3. \A i \in Ready : i \in Ready'
    BY <1>1 DEF AllocStep, DepsShrink, Ready
  <2> QED
    BY <2>1, <2>2, <2>3 DEF DepInv, AroundStep
<1>2. ASSUME NEW n \in Entries, NEW t \in Entries, LinkStep(n, t) PROVE DepInv'
  <2>1. head' \subseteq valid' /\ \A i \in Entries \ head' : deps'[i] = {}
    BY <1>2 DEF LinkStep, DepInv, DepsShrink
  <2>2. \A i \in valid' : "pend_trans" \in deps'[i] => IsFence(req'[i])
    BY <1>2 DEF LinkStep, DepInv, DepsShrink
  <2>3. \A i \in Ready : i \in Ready'
    BY <1>2 DEF LinkStep, DepsShrink, Ready
  <2> QED
    BY <2>1, <2>2, <2>3 DEF DepInv, AroundStep
<1>3. CASE RbackStep
  <2>1. head' \subseteq valid' /\ \A i \in Entries \ head' : deps'[i] = {}
    BY <1>3 DEF RbackStep, DepInv, DepsShrink, PipeInv
  <2>2. \A i \in valid' : "pend_trans" \in deps'[i] => IsFence(req'[i])
    BY <1>3 DEF RbackStep, DepInv, DepsShrink, DepsSet, SameReq, IsFence
  <2>3. \A i \in Ready : i \in Ready'
    BY <1>3 DEF RbackStep, DepsShrink, Ready, PipeInv
  <2> QED
    BY <2>1, <2>2, <2>3 DEF DepInv, AroundStep
<1>4. CASE AdvanceStep
  <2>1. InFlight \cap head = {}
    BY DEF InFlight, PipeInv
  <2>2. \A i \in Entries : deps'[i] \subseteq deps[i]
    BY <1>4 DEF AdvanceStep, DepsShrink
  <2>3. head' \subseteq valid' /\ head' \subseteq head
    BY <1>4, <2>1 DEF AdvanceStep, NoPop, Pop, DepInv
  <2>4. \A i \in Entries \ head' : deps'[i] = {}
    BY <1>4, <2>2 DEF AdvanceStep, NoPop, Pop, DepInv
  <2>5. \A i \in valid' : "pend_trans" \in deps'[i] => IsFence(req'[i])
    BY <1>4, <2>2 DEF AdvanceStep, DepInv
  <2>6. popArb'.wait => popArb'.gnt \in head'
    BY <1>4 DEF AdvanceStep, NoPop, Pop, AroundStep, Ready
  <2>7. popArb'.wait => popArb'.gnt \in Ready'
    BY <2>2, <2>3, <2>6 DEF AroundStep, Ready
  <2> QED
    BY <2>3, <2>4, <2>5, <2>7 DEF DepInv
<1> QED
  BY <1>1, <1>2, <1>3, <1>4 DEF Steps

\* A held fence stays a list of its own and is released alone.
LEMMA StepFence ==
  ASSUME TypeOK, TypeOK', PipeInv, DepInv, OrderInv, FenceInv, AroundStep, Steps
  PROVE  FenceInv'
<1> USE DEF TypeOK, ReplayInStage1, CoreInStage1, Drained
<1>1. ASSUME NEW n \in Entries, AllocStep(n) PROVE FenceInv'
  <2>1. HeldFence = {}
    BY <1>1 DEF AllocStep, FenceInv
  <2>2. HeldFence' \subseteq {n} /\ (n \in HeldFence' => IsFence(st1.req))
    BY <1>1, <2>1 DEF AllocStep, HeldFence, SameReq, IsFence
  <2>3. n \in HeldFence' => deps'[n] = {"pend_trans"}
    BY <1>1, <2>2 DEF AllocStep, DepsSet
  <2> QED
    BY <1>1, <2>2, <2>3 DEF AllocStep, FenceInv
<1>2. ASSUME NEW n \in Entries, NEW t \in Entries, LinkStep(n, t) PROVE FenceInv'
  <2>1. HeldFence = {}
    BY <1>2 DEF LinkStep, FenceInv
  <2>2. HeldFence' = {}
    BY <1>2, <2>1 DEF LinkStep, HeldFence, SameReq, IsFence
  <2> QED
    BY <2>2 DEF FenceInv
<1>3. CASE RbackStep
  <2>1. HeldFence' = HeldFence /\ InFlight = {st1.ptr}
    BY <1>3 DEF RbackStep, HeldFence, SameReq, IsFence, PipeInv, InFlight
  <2>2. \A f \in HeldFence : f \in tail' /\ f \in head'
    BY <1>3, <2>1 DEF RbackStep, FenceInv
  <2>3. \A f \in HeldFence : "pend_trans" \in deps'[f]
    <3>1. \A f \in HeldFence : f = st1.ptr => "pend_trans" \in deps'[f]
      BY <1>3 DEF RbackStep, DepsSet, HeldFence, IsFence, PipeInv
    <3>2. \A f \in HeldFence : f # st1.ptr => "pend_trans" \in deps[f]
      BY <1>3 DEF RbackStep, FenceInv, PipeInv
    <3>3. \A f \in HeldFence : f # st1.ptr => "pend_trans" \in deps'[f]
      BY <1>3, <3>2 DEF RbackStep, DepsShrink, HeldFence
    <3> QED
      BY <3>1, <3>3
  <2>4. \A f, g \in HeldFence' : f = g
    BY <2>1 DEF FenceInv
  <2>5. \A f \in HeldFence' : deps'[f] \subseteq {"pend_trans"}
    <3>1. ASSUME NEW f \in HeldFence, f = st1.ptr PROVE deps'[f] \subseteq {"pend_trans"}
      BY <1>3, <3>1 DEF RbackStep, DepsSet, HeldFence, IsFence, PipeInv
    <3>2. ASSUME NEW f \in HeldFence, f # st1.ptr PROVE deps'[f] \subseteq {"pend_trans"}
      BY <1>3, <3>2 DEF RbackStep, DepsShrink, FenceInv, HeldFence
    <3> QED
      BY <2>1, <3>1, <3>2
  <2> QED
    BY <1>3, <2>1, <2>2, <2>3, <2>4, <2>5 DEF RbackStep, FenceInv
<1>4. CASE AdvanceStep
  <2>1. HeldFence' = HeldFence \ InFlight /\ valid' = valid \ InFlight /\ tail' = tail
    BY <1>4 DEF AdvanceStep, HeldFence
  <2>2. \A f \in HeldFence' : f \in head' \/ f \in InFlight'
    BY <1>4, <2>1 DEF AdvanceStep, NoPop, Pop, Payload, InFlight, FenceInv
  <2>3. CoreInStage1' => HeldFence' = {}
    <3> SUFFICES ASSUME CoreInStage1', NEW f \in HeldFence, f \notin InFlight
                 PROVE  FALSE
      BY <2>1
    <3>1. ~PopTryValid /\ ~Fence
      BY <1>4 DEF AdvanceStep, NoPop, Pop, Payload
    <3>2. f \in head /\ f \in valid /\ f \in Entries
      BY DEF FenceInv, HeldFence
    <3>3. CASE "pend_trans" \in deps[f]
      BY <3>1, <3>2, <3>3 DEF Fence, FenceEntries
    <3>4. CASE "pend_trans" \notin deps[f]
      BY <3>1, <3>2, <3>4 DEF FenceInv, PopTryValid, Ready
    <3> QED
      BY <3>3, <3>4
  <2>4. ASSUME NEW f \in HeldFence, f \notin InFlight, "pend_trans" \notin deps'[f]
        PROVE  valid' = {f} /\ idle' /\ ~st2'
    <3>0. f \in valid /\ f \in Entries /\ f \in head
      BY <2>4 DEF HeldFence, FenceInv
    <3>1. CASE "pend_trans" \notin deps[f]
      <4>1. valid = {f} /\ deps[f] = {} /\ idle /\ ~st2
        BY <2>4, <3>1 DEF FenceInv
      <4>2. ~st1.valid
        BY <2>4, <3>0, <4>1 DEF FenceInv, PipeInv
      <4> QED
        BY <1>4, <2>1, <3>0, <2>4, <4>1, <4>2 DEF AdvanceStep, DepsShrink, AroundStep
    <3>2. CASE "pend_trans" \in deps[f]
      <4>1. valid = FenceEntries /\ idle /\ ~st1.valid /\ ~st2 /\ deps'[f] \subseteq deps[f]
        BY <1>4, <2>4, <3>0, <3>2 DEF AdvanceStep, DepsShrink
      <4>2. valid = {f}
        BY <2>4, <4>1 DEF FenceEntries, DepInv, FenceInv, HeldFence
      <4> QED
        BY <2>1, <2>4, <4>1, <4>2 DEF AroundStep
    <3> QED
      BY <3>1, <3>2
  <2>5. \A f \in HeldFence' : deps'[f] \subseteq {"pend_trans"}
    BY <1>4, <2>1 DEF AdvanceStep, DepsShrink, FenceInv, HeldFence
  <2> QED
    BY <2>1, <2>2, <2>3, <2>4, <2>5 DEF FenceInv
<1> QED
  BY <1>1, <1>2, <1>3, <1>4 DEF Steps

\* Errors are marked on requests that are ready, and replayed with them.
LEMMA StepError ==
  ASSUME TypeOK, TypeOK', PipeInv, DepInv, OrderInv, FenceInv, ErrorInv, AroundStep, Steps
  PROVE  ErrorInv'
<1> USE DEF TypeOK, ReplayInStage1, CoreInStage1, Drained
<1>1. ASSUME NEW n \in Entries, AllocStep(n) PROVE ErrorInv'
  <2>1. \A i \in error' : i \in valid /\ i # n /\ deps'[i] = {} /\ i \in head /\ ~IsFence(req[i])
    BY <1>1 DEF AllocStep, ErrorStep, SetReset, ErrorInv, ErrorReplayed, DepInv, DepsShrink
  <2>2. \A i \in valid' : "write_miss" \in deps'[i] => deps'[i] = {"write_miss"} /\ ~IsFence(req'[i])
    BY <1>1 DEF AllocStep, DepsSet, DepsShrink, ErrorInv, SameReq, IsFence
  <2> QED
    BY <1>1, <2>1, <2>2 DEF AllocStep, ErrorInv, ErrorReplayed
<1>2. ASSUME NEW n \in Entries, NEW t \in Entries, LinkStep(n, t) PROVE ErrorInv'
  <2>1. \A i \in error' : i \in valid /\ i # n /\ deps'[i] = {} /\ i \in head /\ ~IsFence(req[i])
    BY <1>2 DEF LinkStep, ErrorStep, SetReset, ErrorInv, ErrorReplayed, DepInv, DepsShrink
  <2>2. deps'[n] = {}
    BY <1>2 DEF LinkStep, DepsShrink, DepInv
  <2>3. \A i \in valid' : "write_miss" \in deps'[i] => deps'[i] = {"write_miss"} /\ ~IsFence(req'[i])
    BY <1>2, <2>2 DEF LinkStep, DepsShrink, ErrorInv
  <2> QED
    BY <1>2, <2>1, <2>3 DEF LinkStep, ErrorInv, ErrorReplayed
<1>3. CASE RbackStep
  <2>0. st1.ptr \in valid \ head /\ deps[st1.ptr] = {} /\ st1.ptr \notin error
    BY <1>3 DEF RbackStep, PipeInv, DepInv
  <2>1. \A i \in error' : /\ i \in valid /\ i # st1.ptr /\ deps'[i] = {} /\ i \in head
                          /\ ~IsFence(req[i])
    BY <1>3, <2>0 DEF RbackStep, ErrorStep, SetReset, ErrorInv, ErrorReplayed, DepInv, DepsShrink
  <2>2. \A i \in valid' : "write_miss" \in deps'[i] => deps'[i] = {"write_miss"} /\ ~IsFence(req'[i])
    <3>1. ASSUME NEW i \in valid, i # st1.ptr, "write_miss" \in deps'[i]
          PROVE  deps'[i] = {"write_miss"} /\ ~IsFence(req'[i])
      BY <1>3, <3>1 DEF RbackStep, DepsShrink, ErrorInv
    <3>2. "write_miss" \in deps'[st1.ptr]
            => deps'[st1.ptr] = {"write_miss"} /\ ~IsFence(req'[st1.ptr])
      BY <1>3 DEF RbackStep, DepsSet, SameReq, IsFence
    <3> QED
      BY <1>3, <3>1, <3>2 DEF RbackStep
  <2> QED
    BY <1>3, <2>1, <2>2 DEF RbackStep, ErrorInv, ErrorReplayed
<1>4. CASE AdvanceStep
  <2>1. \A i \in error' : /\ i \in valid' /\ deps'[i] = {} /\ i \in head /\ ~IsFence(req[i])
                          /\ (deps[i] = {} => i \in error)
    <3>1. InFlight \cap head = {} /\ \A i \in InFlight : deps[i] = {}
      BY DEF InFlight, PipeInv, DepInv
    <3>2. \A i \in error \ InFlight : i \in head /\ i \in valid /\ deps[i] = {} /\ ~IsFence(req[i])
      BY DEF ErrorInv, ErrorReplayed, InFlight
    <3>3. PICK E \in SUBSET valid :
            /\ error' = (E \ error) \cup (error \ InFlight)
            /\ \A i \in E : "write_miss" \in deps[i] /\ "write_miss" \notin deps'[i]
      BY <1>4 DEF AdvanceStep, ErrorStep, SetReset
    <3>4. \A i \in E : /\ i \in valid \ InFlight /\ i \in head /\ deps'[i] = {}
                       /\ ~IsFence(req[i]) /\ deps[i] # {}
      BY <1>4, <3>1, <3>3 DEF AdvanceStep, DepsShrink, ErrorInv, DepInv
    <3>5. \A i \in error \ InFlight : deps'[i] = {}
      BY <1>4, <3>2 DEF AdvanceStep, DepsShrink
    <3> QED
      BY <1>4, <3>2, <3>3, <3>4, <3>5 DEF AdvanceStep
  <2>2. ErrorReplayed'
    BY <1>4, <2>1 DEF AdvanceStep, NoPop, Pop, Payload, ErrorReplayed
  <2>3. \A i \in valid' : "write_miss" \in deps'[i] => deps'[i] = {"write_miss"} /\ ~IsFence(req'[i])
    BY <1>4 DEF AdvanceStep, DepsShrink, ErrorInv
  <2> QED
    BY <1>4, <2>1, <2>2, <2>3 DEF AdvanceStep, ErrorInv
<1> QED
  BY <1>1, <1>2, <1>3, <1>4 DEF Steps

\* In single-entry mode a request enters the pipeline only past an empty table.
LEMMA StepSingle ==
  ASSUME TypeOK, PipeInv, SingleInv, Steps, singleEntry' = singleEntry
  PROVE  SingleInv'
<1> USE DEF TypeOK, ReplayInStage1, CoreInStage1, Drained, SingleInv
<1>1. ASSUME NEW n \in Entries, AllocStep(n) PROVE SingleInv'
  BY <1>1 DEF AllocStep
<1>2. ASSUME NEW n \in Entries, NEW t \in Entries, LinkStep(n, t) PROVE SingleInv'
  BY <1>2 DEF LinkStep
<1>3. CASE RbackStep
  BY <1>3 DEF RbackStep
<1>4. CASE AdvanceStep
  BY <1>4 DEF AdvanceStep, NoPop, Pop, Payload, Full
<1> QED
  BY <1>1, <1>2, <1>3, <1>4 DEF Steps

----------------------------------------------------------------------------
(* Every cycle is of one of the four kinds                                 *)

\* What stage 1 may order, except the unrecoverable errors of a write-back cache.
LEMMA OutcomeFacts ==
  ASSUME TypeOK, ~(EccEn /\ WbEn), NEW u \in Units, NEW o \in Outcomes(u)
  PROVE  /\ o \in [hold : BOOLEAN, link : BOOLEAN, commit : BOOLEAN, deps : SUBSET DepNames,
                   nop : BOOLEAN, st2 : BOOLEAN]
         /\ ~st1.valid => ~o.hold /\ ~o.link /\ ~o.commit /\ ~o.st2
         /\ o.hold => /\ ~o.commit /\ ~o.link /\ o.nop /\ ~st1.error
                      /\ CoreInStage1 /\ ~IsFence(st1.req) => CheckHit(st1.req.line) = {}
                      /\ "pend_trans" \in o.deps => IsFence(st1.req)
                      /\ "write_miss" \in o.deps => o.deps = {"write_miss"}
                      /\ IsFence(st1.req) /\ idle => o.deps = {"pend_trans"}
                      /\ IsFence(st1.req) /\ CoreInStage1 => o.deps = {"pend_trans"}
         /\ o.link => /\ CoreInStage1 /\ ~IsFence(st1.req) /\ CheckHit(st1.req.line) # {}
                      /\ ~o.commit /\ o.nop /\ o.deps = {}
         /\ o.commit => ReplayInStage1
         /\ ReplayInStage1 => o.commit \/ o.hold
         /\ ReplayInStage1 /\ IsFence(st1.req) /\ ~st1.error => o.nop
<1> USE DEF TypeOK, CoreInStage1, ReplayInStage1, Nothing
<1>1. CASE ~st1.valid
  <2>1. o = Nothing
    BY <1>1 DEF Outcomes
  <2> QED
    BY <1>1, <2>1
<1>2. CASE st1.valid /\ st1.error
  <2>1. o = [hold |-> FALSE, link |-> FALSE, commit |-> st1.rtab, deps |-> {},
             nop |-> FALSE, st2 |-> FALSE]
    BY <1>2 DEF Outcomes
  <2> QED
    BY <1>2, <2>1
<1>3. CASE st1.valid /\ ~st1.error /\ o = Nothing /\ ~st1.rtab
  BY <1>3
<1>4. CASE st1.valid /\ ~st1.error /\ o = Linked /\ ~st1.rtab /\ ~IsFence(st1.req)
           /\ CheckHit(st1.req.line) # {}
  BY <1>4 DEF Linked
<1>5. CASE st1.valid /\ ~st1.error /\ o \in Served
  <2>1. PICK n \in ServeNops, s \in BOOLEAN : o = Serve(n, s)
    BY <1>5 DEF Served
  <2>2. o = [hold |-> FALSE, link |-> FALSE, commit |-> st1.rtab, deps |-> {},
             nop |-> n, st2 |-> s]
    BY <2>1 DEF Serve
  <2>3. n \in BOOLEAN /\ (IsFence(st1.req) => n)
    BY <2>1 DEF ServeNops
  <2> QED
    BY <1>5, <2>2, <2>3
<1>6. ASSUME NEW D \in SUBSET DepNames, o \in Held(D), st1.valid, ~st1.error,
             "pend_trans" \notin D, "write_miss" \in D => D = {"write_miss"} /\ ~IsFence(st1.req),
             IsFence(st1.req) => D = {} \/ (st1.rtab /\ ~idle),
             CoreInStage1 /\ ~IsFence(st1.req) => CheckHit(st1.req.line) = {}
      PROVE  /\ o \in [hold : BOOLEAN, link : BOOLEAN, commit : BOOLEAN, deps : SUBSET DepNames,
                       nop : BOOLEAN, st2 : BOOLEAN]
             /\ o.hold /\ ~o.commit /\ ~o.link /\ o.nop
             /\ "pend_trans" \in o.deps => IsFence(st1.req)
             /\ "write_miss" \in o.deps => o.deps = {"write_miss"}
             /\ IsFence(st1.req) /\ idle => o.deps = {"pend_trans"}
             /\ IsFence(st1.req) /\ CoreInStage1 => o.deps = {"pend_trans"}
  <2>1. PICK b \in BOOLEAN :
          o = [Nothing EXCEPT !.hold = TRUE, !.nop = TRUE, !.st2 = b,
                 !.deps = D \cup (IF IsFence(st1.req) THEN {"pend_trans"} ELSE {})]
    BY <1>6 DEF Held
  <2>2. o.deps = D \cup (IF IsFence(st1.req) THEN {"pend_trans"} ELSE {})
    BY <2>1
  <2>3. "pend_trans" \in DepNames
    BY DEF DepNames
  <2> QED
    BY <1>6, <2>1, <2>2, <2>3
<1>8. ASSUME st1.valid, ~st1.error, IsFence(st1.req) => MayExecute,
             CoreInStage1 /\ ~IsFence(st1.req) => CheckHit(st1.req.line) = {},
             NEW D \in Reasons(st1.req.op, u), o \in Held(D)
      PROVE  /\ D \in SUBSET DepNames /\ "pend_trans" \notin D
             /\ "write_miss" \in D => D = {"write_miss"} /\ ~IsFence(st1.req)
             /\ IsFence(st1.req) => D = {} \/ (st1.rtab /\ ~idle)
  <2>1. CASE D = {}
    BY <2>1
  <2>2. CASE D # {}
    <3>1. D \subseteq Found(st1.req.op, u)
      BY <2>2 DEF Reasons, LoadReasons, StoreReasons, FenceReasons
    <3>2. st1.req.op \in {"load", "store", "fence"}
      BY DEF Req, Op
    <3>3. CASE st1.req.op = "load" \/ st1.req.op = "store"
      <4>1. PICK d \in DepNames \ {"pend_trans"} : D = {d}
        BY <2>2, <3>3 DEF Reasons, LoadReasons, StoreReasons, FenceReasons, DepNames
      <4> QED
        BY <3>3, <4>1 DEF IsFence
    <3>4. CASE st1.req.op = "fence"
      <4>1. D = {"flush_not_ready"} \/ D = {"dir_fetch"}
        BY <2>2, <3>4 DEF Reasons, LoadReasons, StoreReasons, FenceReasons
      <4>2. idle => u.flushReady
        BY DEF Units
      <4>3. ~idle
        BY <3>1, <4>1, <4>2 DEF Found
      <4>4. st1.rtab
        BY <1>8, <3>4, <4>3 DEF MayExecute, IsFence
      <4> QED
        BY <4>1, <4>3, <4>4 DEF DepNames
    <3> QED
      BY <3>2, <3>3, <3>4
  <2> QED
    BY <2>1, <2>2
<1>9. ASSUME st1.valid, ~st1.error, IsFence(st1.req) => MayExecute,
             CoreInStage1 /\ ~IsFence(st1.req) => CheckHit(st1.req.line) = {},
             NEW D \in Reasons(st1.req.op, u), o \in Held(D)
      PROVE  /\ o \in [hold : BOOLEAN, link : BOOLEAN, commit : BOOLEAN, deps : SUBSET DepNames,
                       nop : BOOLEAN, st2 : BOOLEAN]
             /\ o.hold /\ ~o.commit /\ ~o.link /\ o.nop
             /\ "pend_trans" \in o.deps => IsFence(st1.req)
             /\ "write_miss" \in o.deps => o.deps = {"write_miss"}
             /\ IsFence(st1.req) /\ idle => o.deps = {"pend_trans"}
             /\ IsFence(st1.req) /\ CoreInStage1 => o.deps = {"pend_trans"}
  <2>1. /\ D \in SUBSET DepNames /\ "pend_trans" \notin D
        /\ "write_miss" \in D => D = {"write_miss"} /\ ~IsFence(st1.req)
        /\ IsFence(st1.req) => D = {} \/ (st1.rtab /\ ~idle)
    BY <1>8, <1>9
  <2> QED
    BY <1>6, <1>9, <2>1
<1>10. CASE st1.valid /\ ~st1.error
  <2>1. CASE o = Nothing /\ ~st1.rtab
    BY <1>3, <1>10, <2>1
  <2>2. CASE ~(o = Nothing /\ ~st1.rtab) /\ CoreInStage1 /\ ~IsFence(st1.req)
             /\ CheckHit(st1.req.line) # {}
    <3>1. o = Linked
      BY <1>10, <2>2 DEF Outcomes
    <3> QED
      BY <1>4, <1>10, <2>2, <3>1
  <2>3. CASE ~(o = Nothing /\ ~st1.rtab) /\ IsFence(st1.req) /\ ~MayExecute
    <3>1. o \in Held({})
      BY <1>10, <2>3 DEF Outcomes
    <3>2. o.hold /\ ~o.commit /\ ~o.link /\ o.nop
      BY <1>6, <1>10, <2>3, <3>1, {} \in SUBSET DepNames
    <3> QED
      BY <1>6, <1>10, <2>3, <3>1, <3>2, {} \in SUBSET DepNames
  <2>4. CASE /\ ~(o = Nothing /\ ~st1.rtab)
             /\ CoreInStage1 /\ ~IsFence(st1.req) => CheckHit(st1.req.line) = {}
             /\ IsFence(st1.req) => MayExecute
    <3>1. o \in Served \/ \E D \in Reasons(st1.req.op, u) : o \in Held(D)
      BY <1>10, <2>4 DEF Outcomes
    <3>2. CASE o \in Served
      BY <1>5, <1>10, <3>2
    <3>3. ASSUME NEW D \in Reasons(st1.req.op, u), o \in Held(D)
          PROVE  /\ o \in [hold : BOOLEAN, link : BOOLEAN, commit : BOOLEAN,
                           deps : SUBSET DepNames, nop : BOOLEAN, st2 : BOOLEAN]
                 /\ o.hold /\ ~o.commit /\ ~o.link /\ o.nop
                 /\ "pend_trans" \in o.deps => IsFence(st1.req)
                 /\ "write_miss" \in o.deps => o.deps = {"write_miss"}
                 /\ IsFence(st1.req) /\ idle => o.deps = {"pend_trans"}
                 /\ IsFence(st1.req) /\ CoreInStage1 => o.deps = {"pend_trans"}
      BY <1>9, <1>10, <2>4, <3>3
    <3> QED
      BY <1>10, <2>4, <3>1, <3>2, <3>3
  <2> QED
    BY <1>10, <2>1, <2>2, <2>3, <2>4
<1> QED
  BY <1>1, <1>2, <1>10

\* The replay table offers exactly one entry, and it waits for nothing.
LEMMA PopSelFacts ==
  ASSUME TypeOK, PipeInv, DepInv, OrderInv, PopTryValid
  PROVE  \E i \in valid : /\ PopSel = {i} /\ deps[i] = {}
                          /\ popState = "HEAD" => i \in head
                          /\ popState # "HEAD" => i \notin head /\ popNext = {i}
<1> USE DEF TypeOK
<1>1. CASE popState = "HEAD"
  <2>1. Ready # {} /\ Ready \in SUBSET (0 .. N - 1) /\ popArb \in [gnt : 0 .. N - 1, wait : BOOLEAN]
    BY <1>1 DEF PopTryValid, Ready, Entries, RrState
  <2>2. N \in Nat \ {0} /\ (popArb.wait => popArb.gnt \in Ready)
    BY RtabAssumption DEF DepInv
  <2>3. PICK i \in Ready : RrGrant(popArb, N, Ready) = {i}
    BY <2>1, <2>2, RrGrantOneHot
  <2> QED
    BY <1>1, <2>3 DEF PopSel, PopGnt, Ready
<1>2. CASE popState = "NEXT"
  <2>1. st1.ptr \in valid \ tail /\ popNext = {next[st1.ptr]}
    BY <1>2 DEF PipeInv, ReplayInStage1
  <2>2. next[st1.ptr] \in valid \ head
    BY <2>1 DEF OrderInv, LinksFollow, HeadsFirst, Plain
  <2> QED
    BY <1>2, <2>1, <2>2 DEF PopSel, DepInv
<1>3. CASE popState = "NEXT_WAIT"
  BY <1>3 DEF PipeInv, PopSel, DepInv
<1> QED
  BY <1>1, <1>2, <1>3

\* There is a free entry for a new request in stage 1.
LEMMA FreeFacts ==
  ASSUME TypeOK, PipeInv, CoreInStage1
  PROVE  \E n \in Entries \ valid : FreeAlloc = {n}
<1>1. Entries \ valid # {}
  BY DEF TypeOK, PipeInv
<1>2. Entries \ valid \in SUBSET Nat
  BY RtabAssumption DEF Entries
<1> QED
  BY <1>1, <1>2, LowestOneHot DEF FreeAlloc

\* There is one tail to link a new request to.
LEMMA LinkFacts ==
  ASSUME TypeOK, OrderInv, FenceInv, CoreInStage1, CheckHit(st1.req.line) # {}
  PROVE  \E t \in valid : CheckTail(st1.req.line) = {t}
<1>1. Plain = valid
  BY DEF FenceInv, Plain
<1>2. PICK j \in valid : req[j].line = st1.req.line
  BY DEF CheckHit
<1>3. PICK t \in valid \cap tail : req[t].line = st1.req.line
  BY <1>1, <1>2 DEF OrderInv, LineHasTail, SameLine
<1>4. ASSUME NEW k \in CheckTail(st1.req.line) PROVE k = t
  <2>1. k \in valid \cap tail /\ SameLine(k, t) /\ SameLine(t, k)
    BY <1>3, <1>4 DEF CheckTail, CheckHit, SameLine
  <2>2. k # t => k \in older[t] /\ t \in older[k]
    BY <1>1, <1>3, <2>1 DEF OrderInv, TailLast
  <2> QED
    BY <1>3, <2>1, <2>2 DEF OrderInv, OlderOrder
<1>5. t \in CheckTail(st1.req.line)
  BY <1>3 DEF CheckTail, CheckHit
<1> QED
  BY <1>4, <1>5

StageType  == [valid : BOOLEAN, rtab : BOOLEAN, error : BOOLEAN, ptr : Entries, req : Req]
RefillType == [busy : BOOLEAN, line : Line, way : Way]

(* A cycle of the pipeline and the table, with what stage 0 takes.         *)
Move(o, w, u, pop, pulse, failed) ==
  /\ o \in Outcomes(u)
  /\ Table(RtabIn(o, w, u, pop, pulse, failed))
  /\ pop => MayReplay(o) /\ \E i \in PopSel : st1' = Payload(i)
  /\ ~pop => Drained \/ (CoreInStage1' /\ ~st1'.error /\ MayAcceptCore(o))
  /\ st1' \in StageType /\ st2' = o.st2
  /\ refill' \in RefillType /\ (refill'.busy => ~st1'.valid /\ ~st2')
  /\ UnitsMove

\* Dependencies that no command of stage 1 sets are only removed.
LEMMA DepsOnlyRemoved ==
  ASSUME TypeOK, NEW in, DepsCycle(in), in.noPendTrans => idle /\ ~st1.valid /\ ~st2,
         NEW i \in Entries, i \notin Allocated(in) \cup RolledBack(in)
  PROVE  DepsShrink({i})
<1>1. deps'[i] = deps[i] \ DepsRst(in, i)
  BY DEF DepsCycle, SetReset
<1>2. "pend_trans" \in DepsRst(in, i) => in.noPendTrans /\ FenceOnly
  BY DEF DepsRst
<1> QED
  BY <1>1, <1>2 DEF DepsShrink, FenceOnly

\* Dependencies set for an entry that has none.
LEMMA DepsAssigned ==
  ASSUME TypeOK, NEW in, DepsCycle(in), NEW i \in Entries,
         i \in Allocated(in) \cup RolledBack(in), deps[i] = {}
  PROVE  deps'[i] = in.adeps
<1>1. deps'[i] = SetReset(deps[i], in.adeps, DepsRst(in, i))
  BY DEF DepsCycle
<1>2. SetReset({}, in.adeps, DepsRst(in, i)) = in.adeps
  BY DEF SetReset
<1> QED
  BY <1>1, <1>2

\* A failed refill marks the write misses that it wakes.
LEMMA ErrorsMarked ==
  ASSUME TypeOK, NEW in, DepsCycle(in), in.adeps \in SUBSET DepNames,
         \A i \in Allocated(in) \cup RolledBack(in) : deps[i] = {}
  PROVE  ErrorStep(Committed(in))
<1>1. \A i \in ErrorSet(in) : /\ i \in valid /\ "write_miss" \in deps[i]
                              /\ in.refill /\ req[i].line = in.refillLine
  BY DEF ErrorSet
<1>2. \A i \in ErrorSet(in) : "write_miss" \in DepsRst(in, i)
  BY <1>1 DEF DepsRst, DepNames
<1>3. \A i \in ErrorSet(in) : i \in Entries /\ i \notin Allocated(in) \cup RolledBack(in)
  BY <1>1 DEF TypeOK
<1>4. \A i \in ErrorSet(in) : deps'[i] = deps[i] \ DepsRst(in, i)
  BY <1>3 DEF DepsCycle, SetReset
<1>5. error' = SetReset(error, ErrorSet(in), Committed(in))
  BY DEF DepsCycle
<1> QED
  BY <1>1, <1>2, <1>4, <1>5 DEF ErrorStep

\* The grant of the replay arbiter is held for an entry that stays ready.
LEMMA PopArbHolds ==
  ASSUME TypeOK, DepInv, NEW in, ArbCycle(in)
  PROVE  /\ popArb'.wait => popArb'.gnt \in Ready
         /\ PopHead(in) => ~popArb'.wait
<1>1. popArb' = RrNext(popArb, N, Ready, PopHead(in))
  BY DEF ArbCycle
<1>2. /\ N \in Nat \ {0} /\ (popArb.wait => popArb.gnt \in Ready)
      /\ Ready \in SUBSET (0 .. N - 1) /\ popArb \in [gnt : 0 .. N - 1, wait : BOOLEAN]
  BY RtabAssumption DEF TypeOK, DepInv, Ready, Entries, RrState
<1>3. CASE Ready = {}
  BY <1>1, <1>2, <1>3 DEF RrNext
<1>4. CASE Ready # {}
  <2>1. RrNext(popArb, N, Ready, FALSE) \in [gnt : Ready, wait : BOOLEAN]
    BY <1>2, <1>4, RrHolds
  <2>2. popArb'.gnt = RrNext(popArb, N, Ready, FALSE).gnt
    BY <1>1 DEF RrNext
  <2>3. popArb'.wait => ~PopHead(in)
    BY <1>1 DEF RrNext, PopHead
  <2>4. popArb'.gnt \in Ready
    BY <2>1, <2>2
  <2> QED
    BY <2>3, <2>4
<1> QED
  BY <1>3, <1>4

\* Stage 1 and the table see the same command.
LEMMA InputFacts ==
  ASSUME TypeOK, ~(EccEn /\ WbEn), NEW u \in Units, NEW o \in Outcomes(u), NEW w \in Way,
         NEW pop \in BOOLEAN, NEW pulse, NEW failed, NEW in, in = RtabIn(o, w, u, pop, pulse, failed)
  PROVE  /\ in.alloc = (o.hold /\ ~st1.rtab) /\ in.link = o.link
         /\ in.areq \in Req /\ in.areq.line = st1.req.line /\ in.areq.op = st1.req.op
         /\ in.adeps = o.deps /\ in.popTry = pop /\ in.commit = o.commit
         /\ in.rback = (o.hold /\ st1.rtab) /\ in.ptr = st1.ptr
         /\ in.noPendTrans => idle /\ ~st1.valid /\ ~st2
<1>1. /\ in.areq = [st1.req EXCEPT !.way = w]
      /\ in.alloc = (o.hold /\ ~st1.rtab) /\ in.link = o.link
      /\ in.adeps = o.deps /\ in.popTry = pop /\ in.commit = o.commit
      /\ in.rback = (o.hold /\ st1.rtab) /\ in.ptr = st1.ptr
      /\ in.noPendTrans = (idle /\ ~st1.valid /\ ~st2)
  BY DEF RtabIn
<1>2. st1.req \in Req
  BY DEF TypeOK
<1> QED
  BY <1>1, <1>2 DEF Req

\* A cycle in which stage 1 orders nothing, or the removal of its replay.
LEMMA AdvanceMove ==
  ASSUME IInv, NEW in, NEW o, Cycle(in), in.popTry \in BOOLEAN,
         ~in.alloc, ~in.link, ~in.rback, in.adeps \in SUBSET DepNames,
         Committed(in) = InFlight, in.noPendTrans => idle /\ ~st1.valid /\ ~st2,
         \A i \in Entries : older'[i] = older[i] \ InFlight,
         ReplayInStage1 /\ IsFence(st1.req) => Nop(o),
         in.popTry => MayReplay(o) /\ \E i \in PopSel : st1' = Payload(i),
         ~in.popTry => Drained \/ (CoreInStage1' /\ ~st1'.error /\ MayAcceptCore(o))
  PROVE  AdvanceStep
<1> USE DEF IInv, TypeOK
<1>1. Allocated(in) = {} /\ RolledBack(in) = {} /\ LinkedTo(in) = {}
  BY DEF Allocated, RolledBack, LinkedTo
<1>2. valid' = valid \ InFlight /\ tail' = tail
  BY <1>1 DEF Cycle, ListCycle, TailNext, SetReset
<1>3. next' = next /\ req' = req
  BY <1>1 DEF Cycle, ListCycle
<1>4. \A i \in Entries : DepsShrink({i})
  BY <1>1, DepsOnlyRemoved DEF Cycle
<1>5. DepsShrink(Entries)
  BY <1>4 DEF DepsShrink
<1>6. ErrorStep(InFlight)
  BY <1>1, ErrorsMarked DEF Cycle
<1>7. head' = head \ Popped(in)
  BY <1>1 DEF Cycle, ListCycle, HeadNext, SetReset
<1>8. CASE ~in.popTry
  <2>1. head' = head
    BY <1>7, <1>8 DEF Popped
  <2>2. /\ popNext' = popNext
        /\ popState' = IF popState = "HEAD" THEN "HEAD" ELSE "NEXT_WAIT"
    BY <1>8 DEF Cycle, ListCycle, PopFsm
  <2>3. NoPop
    BY <1>8, <2>1, <2>2 DEF NoPop, MayAcceptCore
  <2> QED
    BY <1>2, <1>3, <1>5, <1>6, <2>3 DEF AdvanceStep
<1>9. CASE in.popTry
  <2>1. PopTryValid
    BY <1>9 DEF MayReplay
  <2>2. PICK i \in valid : /\ PopSel = {i} /\ deps[i] = {}
                           /\ popState = "HEAD" => i \in head
                           /\ popState # "HEAD" => i \notin head /\ popNext = {i}
    BY <2>1, PopSelFacts
  <2>3. head' = head \ {i} /\ st1' = Payload(i)
    BY <1>7, <1>9, <2>2 DEF Popped
  <2>4. PopTaken
    BY <1>9, <2>1 DEF Cycle, ListCycle, PopFsm
  <2>5. /\ i \in tail => popState' = "HEAD" /\ popNext' = popNext
        /\ i \notin tail => popState' = "NEXT" /\ popNext' = {next[i]}
    BY <2>2, <2>4 DEF PopTaken, Successor
  <2>6. popArb'.wait => popArb'.gnt \in Ready /\ ~PopHead(in)
    BY PopArbHolds DEF Cycle
  <2>7. popState = "HEAD" => PopHead(in)
    BY <1>9, <2>1 DEF PopHead
  <2>8. popArb'.wait => popArb'.gnt # i
    BY <2>2, <2>6, <2>7 DEF Ready
  <2>9. Pop(i)
    BY <2>2, <2>3, <2>5, <2>8 DEF Pop
  <2> QED
    BY <1>2, <1>3, <1>5, <1>6, <2>9 DEF AdvanceStep
<1> QED
  BY <1>8, <1>9

\* Every cycle is of one of the four kinds.
LEMMA MoveSteps ==
  ASSUME IInv, ~(EccEn /\ WbEn), NEW u \in Units, NEW o, NEW w \in Way, NEW pop \in BOOLEAN,
         NEW pulse, NEW failed, Move(o, w, u, pop, pulse, failed)
  PROVE  Steps
<1> DEFINE in == RtabIn(o, w, u, pop, pulse, failed)
<1>1. o \in Outcomes(u) /\ Table(in)
  BY DEF Move
<1>2. /\ pop => MayReplay(o) /\ \E i \in PopSel : st1' = Payload(i)
      /\ ~pop => Drained \/ (CoreInStage1' /\ ~st1'.error /\ MayAcceptCore(o))
  BY DEF Move
<1>3. /\ in.alloc = (o.hold /\ ~st1.rtab) /\ in.link = o.link
      /\ in.areq \in Req /\ in.areq.line = st1.req.line /\ in.areq.op = st1.req.op
      /\ in.adeps = o.deps /\ in.popTry = pop /\ in.commit = o.commit
      /\ in.rback = (o.hold /\ st1.rtab) /\ in.ptr = st1.ptr
      /\ in.noPendTrans => idle /\ ~st1.valid /\ ~st2
  BY <1>1, InputFacts DEF IInv
<1> HIDE DEF in
<1> USE DEF IInv, TypeOK
<1>4. /\ o \in [hold : BOOLEAN, link : BOOLEAN, commit : BOOLEAN, deps : SUBSET DepNames,
                nop : BOOLEAN, st2 : BOOLEAN]
      /\ ~st1.valid => ~o.hold /\ ~o.link /\ ~o.commit /\ ~o.st2
      /\ o.hold => /\ ~o.commit /\ ~o.link /\ o.nop /\ ~st1.error
                   /\ CoreInStage1 /\ ~IsFence(st1.req) => CheckHit(st1.req.line) = {}
                   /\ "pend_trans" \in o.deps => IsFence(st1.req)
                   /\ "write_miss" \in o.deps => o.deps = {"write_miss"}
                   /\ IsFence(st1.req) /\ idle => o.deps = {"pend_trans"}
                   /\ IsFence(st1.req) /\ CoreInStage1 => o.deps = {"pend_trans"}
      /\ o.link => /\ CoreInStage1 /\ ~IsFence(st1.req) /\ CheckHit(st1.req.line) # {}
                   /\ ~o.commit /\ o.nop /\ o.deps = {}
      /\ o.commit => ReplayInStage1
      /\ ReplayInStage1 => o.commit \/ o.hold
      /\ ReplayInStage1 /\ IsFence(st1.req) /\ ~st1.error => o.nop
  BY <1>1, OutcomeFacts
<1>5. Cycle(in) /\ older' = [i \in Entries |->
                              (IF i \in Allocated(in) THEN CheckHit(in.areq.line) ELSE older[i])
                                \ Committed(in)]
  BY <1>1 DEF Table
<1>6. o.hold \/ o.link => Drained /\ ~in.popTry /\ ~in.commit
  BY <1>2, <1>3, <1>4 DEF MayReplay, MayAcceptCore, Nop
<1>7. CoreInStage1 => popState = "HEAD"
  BY DEF PipeInv
<1>8. CASE o.hold /\ CoreInStage1
  <2>1. PICK n \in Entries \ valid : FreeAlloc = {n}
    BY <1>8, FreeFacts
  <2>2. /\ Allocated(in) = {n} /\ RolledBack(in) = {} /\ LinkedTo(in) = {}
        /\ Committed(in) = {} /\ Popped(in) = {}
    BY <1>3, <1>4, <1>6, <1>8, <2>1
       DEF Allocated, RolledBack, LinkedTo, Committed, Popped, CoreInStage1
  <2>3. n \notin head /\ deps[n] = {}
    BY DEF DepInv
  <2>4. valid' = valid \cup {n} /\ head' = head \cup {n} /\ tail' = tail \cup {n}
    <3>1. valid' = SetReset(valid, {n}, {}) /\ tail' = SetReset(tail, {n}, {})
      BY <1>5, <2>2 DEF Cycle, ListCycle, TailNext
    <3>2. head' = SetReset(head, {n}, {})
      BY <1>3, <1>4, <1>5, <1>8, <2>1, <2>2 DEF Cycle, ListCycle, HeadNext, CoreInStage1
    <3> QED
      BY <3>1, <3>2 DEF SetReset
  <2>5. next' = next
    BY <1>5, <2>2 DEF Cycle, ListCycle
  <2>6. req'[n] = in.areq /\ \A i \in Entries \ {n} : req'[i] = req[i]
    BY <1>5, <2>2 DEF Cycle, ListCycle
  <2>7. SameReq(n)
    BY <1>3, <2>6 DEF SameReq
  <2>8. older'[n] = CheckHit(st1.req.line) /\ \A i \in Entries \ {n} : older'[i] = older[i]
    BY <1>3, <1>5, <2>2
  <2>9. popState' = popState /\ popNext' = popNext
    BY <1>5, <1>6, <1>7, <1>8 DEF Cycle, ListCycle, PopFsm
  <2>10. \A i \in Entries \ {n} : DepsShrink({i})
    BY <1>3, <1>5, <2>2, DepsOnlyRemoved DEF Cycle
  <2>11. DepsShrink(Entries \ {n})
    BY <2>10 DEF DepsShrink
  <2>12. deps'[n] = o.deps
    BY <1>3, <1>5, <2>2, <2>3, DepsAssigned DEF Cycle
  <2>13. DepsSet(n, o.deps)
    BY <1>4, <1>8, <2>12 DEF DepsSet
  <2>14. ErrorStep({})
    <3>1. in.adeps \in SUBSET DepNames /\ DepsCycle(in)
      BY <1>3, <1>4, <1>5 DEF Cycle
    <3>2. \A i \in Allocated(in) \cup RolledBack(in) : deps[i] = {}
      BY <2>2, <2>3
    <3>3. ErrorStep(Committed(in))
      BY <3>1, <3>2, ErrorsMarked
    <3> QED
      BY <2>2, <3>3
  <2>15. AllocStep(n)
    BY <1>4, <1>6, <1>8, <2>4, <2>5, <2>6, <2>7, <2>8, <2>9, <2>11, <2>13, <2>14 DEF AllocStep
  <2> QED
    BY <2>15 DEF Steps
<1>9. CASE o.link
  <2>1. PICK n \in Entries \ valid : FreeAlloc = {n}
    BY <1>4, <1>9, FreeFacts
  <2>2. PICK t \in valid : CheckTail(st1.req.line) = {t}
    BY <1>4, <1>9, LinkFacts
  <2>3. /\ Allocated(in) = {n} /\ RolledBack(in) = {} /\ LinkedTo(in) = {t}
        /\ Committed(in) = {} /\ Popped(in) = {}
    BY <1>3, <1>4, <1>6, <1>9, <2>1, <2>2
       DEF Allocated, RolledBack, LinkedTo, Committed, Popped
  <2>4. n \notin head /\ deps[n] = {} /\ t \in tail /\ t # n
    BY <2>2 DEF DepInv, CheckTail
  <2>5. valid' = valid \cup {n} /\ head' = head /\ tail' = (tail \ {t}) \cup {n}
    <3>1. valid' = SetReset(valid, {n}, {}) /\ tail' = SetReset(tail, {n}, {t})
      BY <1>5, <2>3 DEF Cycle, ListCycle, TailNext
    <3>2. head' = SetReset(head, {}, {n})
      BY <1>3, <1>4, <1>5, <1>9, <2>1, <2>3 DEF Cycle, ListCycle, HeadNext
    <3> QED
      BY <2>4, <3>1, <3>2 DEF SetReset
  <2>6. next'[t] = n /\ \A i \in Entries \ {t} : next'[i] = next[i]
    <3>1. (CHOOSE f \in FreeAlloc : TRUE) = n /\ FreeAlloc # {}
      BY <2>1
    <3> QED
      BY <1>5, <2>3, <3>1 DEF Cycle, ListCycle
  <2>7. req'[n] = in.areq /\ \A i \in Entries \ {n} : req'[i] = req[i]
    BY <1>5, <2>3 DEF Cycle, ListCycle
  <2>8. SameReq(n)
    BY <1>3, <2>7 DEF SameReq
  <2>9. older'[n] = CheckHit(st1.req.line) /\ \A i \in Entries \ {n} : older'[i] = older[i]
    BY <1>3, <1>5, <2>3
  <2>10. popState' = popState /\ popNext' = popNext
    BY <1>4, <1>5, <1>6, <1>7, <1>9 DEF Cycle, ListCycle, PopFsm
  <2>11. \A i \in Entries \ {n} : DepsShrink({i})
    BY <1>3, <1>5, <2>3, DepsOnlyRemoved DEF Cycle
  <2>12. deps'[n] = {}
    BY <1>3, <1>4, <1>5, <1>9, <2>3, <2>4, DepsAssigned DEF Cycle
  <2>13. DepsShrink(Entries)
    BY <2>4, <2>11, <2>12 DEF DepsShrink
  <2>14. ErrorStep({})
    <3>1. in.adeps \in SUBSET DepNames /\ DepsCycle(in)
      BY <1>3, <1>4, <1>5 DEF Cycle
    <3>2. \A i \in Allocated(in) \cup RolledBack(in) : deps[i] = {}
      BY <2>3, <2>4
    <3>3. ErrorStep(Committed(in))
      BY <3>1, <3>2, ErrorsMarked
    <3> QED
      BY <2>3, <3>3
  <2>15. LinkStep(n, t)
    BY <1>4, <1>6, <1>9, <2>2, <2>5, <2>6, <2>7, <2>8, <2>9, <2>10, <2>13, <2>14 DEF LinkStep
  <2> QED
    BY <2>15 DEF Steps
<1>10. CASE o.hold /\ ReplayInStage1
  <2>1. st1.ptr \in valid \ head /\ deps[st1.ptr] = {} /\ popState # "NEXT_WAIT"
    BY <1>10 DEF PipeInv, DepInv, ReplayInStage1
  <2>2. /\ Allocated(in) = {} /\ RolledBack(in) = {st1.ptr} /\ LinkedTo(in) = {}
        /\ Committed(in) = {} /\ Popped(in) = {}
    BY <1>3, <1>4, <1>6, <1>10
       DEF Allocated, RolledBack, LinkedTo, Committed, Popped, ReplayInStage1
  <2>3. valid' = valid /\ head' = head \cup {st1.ptr} /\ tail' = tail
    <3>1. valid' = SetReset(valid, {}, {}) /\ tail' = SetReset(tail, {}, {})
      BY <1>5, <2>2 DEF Cycle, ListCycle, TailNext
    <3>2. head' = SetReset(head, {st1.ptr}, {})
      BY <1>3, <1>4, <1>5, <1>10, <2>2 DEF Cycle, ListCycle, HeadNext, ReplayInStage1
    <3> QED
      BY <3>1, <3>2 DEF SetReset
  <2>4. next' = next
    BY <1>5, <2>2 DEF Cycle, ListCycle
  <2>5. req'[st1.ptr] = in.areq /\ \A i \in Entries \ {st1.ptr} : req'[i] = req[i]
    BY <1>5, <2>2 DEF Cycle, ListCycle
  <2>6. SameReq(st1.ptr)
    BY <1>3, <2>5 DEF SameReq
  <2>7. older' = older
    BY <1>5, <2>2
  <2>8. popState' = "HEAD" /\ popNext' = popNext
    BY <1>3, <1>5, <1>6, <1>10, <2>1 DEF Cycle, ListCycle, PopFsm, ReplayInStage1
  <2>9. \A i \in Entries \ {st1.ptr} : DepsShrink({i})
    BY <1>3, <1>5, <2>2, DepsOnlyRemoved DEF Cycle
  <2>10. DepsShrink(Entries \ {st1.ptr})
    BY <2>9 DEF DepsShrink
  <2>11. deps'[st1.ptr] = o.deps
    BY <1>3, <1>5, <2>1, <2>2, DepsAssigned DEF Cycle
  <2>12. IsFence(st1.req) => idle
    <3>1. IsFence(st1.req) => st1.ptr \in HeldFence
      BY <1>10, <2>1 DEF PipeInv, HeldFence, IsFence
    <3> QED
      BY <2>1, <3>1 DEF FenceInv
  <2>13. DepsSet(st1.ptr, o.deps)
    BY <1>4, <1>10, <2>11, <2>12 DEF DepsSet
  <2>14. ErrorStep({})
    <3>1. in.adeps \in SUBSET DepNames /\ DepsCycle(in)
      BY <1>3, <1>4, <1>5 DEF Cycle
    <3>2. \A i \in Allocated(in) \cup RolledBack(in) : deps[i] = {}
      BY <2>1, <2>2
    <3>3. ErrorStep(Committed(in))
      BY <3>1, <3>2, ErrorsMarked
    <3> QED
      BY <2>2, <3>3
  <2>15. RbackStep
    BY <1>4, <1>6, <1>10, <2>3, <2>4, <2>5, <2>6, <2>7, <2>8, <2>10, <2>13, <2>14 DEF RbackStep
  <2> QED
    BY <2>15 DEF Steps
<1>11. CASE ~o.hold /\ ~o.link
  <2>1. Allocated(in) = {} /\ Committed(in) = InFlight
    BY <1>3, <1>4, <1>11 DEF Allocated, Committed, InFlight
  <2>2. \A i \in Entries : older'[i] = older[i] \ InFlight
    BY <1>5, <2>1
  <2>3. ReplayInStage1 /\ IsFence(st1.req) => Nop(o)
    <3>1. ReplayInStage1 /\ IsFence(st1.req) => ~st1.error
      BY DEF PipeInv, ErrorInv, IsFence
    <3> QED
      BY <1>4, <3>1 DEF Nop
  <2>4. ~in.alloc /\ ~in.link /\ ~in.rback /\ in.adeps \in SUBSET DepNames /\ in.popTry \in BOOLEAN
    BY <1>3, <1>4, <1>11
  <2>5. AdvanceStep
    BY <1>2, <1>3, <1>5, <2>1, <2>2, <2>3, <2>4, AdvanceMove
  <2> QED
    BY <2>5 DEF Steps
<1> QED
  BY <1>4, <1>8, <1>9, <1>10, <1>11 DEF CoreInStage1, ReplayInStage1

\* What every cycle does around the table.
LEMMA MoveAround ==
  ASSUME IInv, ~(EccEn /\ WbEn), NEW u \in Units, NEW o, NEW w \in Way, NEW pop \in BOOLEAN,
         NEW pulse, NEW failed, Move(o, w, u, pop, pulse, failed)
  PROVE  AroundStep
<1>1. o \in Outcomes(u) /\ st2' = o.st2 /\ UnitsMove
      /\ (refill'.busy => ~st1'.valid /\ ~st2')
  BY DEF Move
<1>2. o.st2 \in BOOLEAN /\ (~st1.valid => ~o.st2)
  BY <1>1, OutcomeFacts DEF IInv
<1>3. ArbCycle(RtabIn(o, w, u, pop, pulse, failed))
  BY DEF Move, Table, Cycle
<1>4. popArb'.wait => popArb'.gnt \in Ready
  BY <1>3, PopArbHolds DEF IInv
<1> QED
  BY <1>1, <1>2, <1>4 DEF AroundStep, UnitsMove

\* Every cycle keeps the types.
\* The mode stays.
LEMMA MoveMode ==
  ASSUME NEW u, NEW o, NEW w, NEW pop, NEW pulse, NEW failed, Move(o, w, u, pop, pulse, failed)
  PROVE  singleEntry' = singleEntry
BY DEF Move, Table, Cycle

LEMMA MoveType ==
  ASSUME IInv, ~(EccEn /\ WbEn), NEW u \in Units, NEW o, NEW w \in Way, NEW pop \in BOOLEAN,
         NEW pulse, NEW failed, Move(o, w, u, pop, pulse, failed)
  PROVE  TypeOK'
<1> DEFINE in == RtabIn(o, w, u, pop, pulse, failed)
<1>1. o \in Outcomes(u) /\ Table(in)
  BY DEF Move
<1>2. TypeOK /\ Steps /\ AroundStep
  BY MoveSteps, MoveAround DEF IInv
<1>3. in.areq \in Req /\ in.adeps = o.deps /\ in.ptr = st1.ptr
  BY <1>1, <1>2, InputFacts
<1> HIDE DEF in
<1>4. o.deps \in SUBSET DepNames
  BY <1>1, <1>2, OutcomeFacts
<1>5. FreeAlloc \subseteq Entries
  BY LowestSubset DEF FreeAlloc
<1>6. valid' \subseteq Entries /\ head' \subseteq Entries /\ tail' \subseteq Entries
  BY <1>2 DEF Steps, TypeOK, AllocStep, LinkStep, RbackStep, AdvanceStep, NoPop, Pop
<1>7. error' \subseteq Entries
  <2>1. error' = SetReset(error, ErrorSet(in), Committed(in))
    BY <1>1 DEF Table, Cycle, DepsCycle
  <2> QED
    BY <1>2, <2>1 DEF TypeOK, SetReset, ErrorSet
<1>8. deps' \in [Entries -> SUBSET DepNames]
  <2>1. deps' = [i \in Entries |->
                   SetReset(deps[i], IF i \in Allocated(in) \cup RolledBack(in) THEN in.adeps ELSE {},
                            DepsRst(in, i))]
    BY <1>1 DEF Table, Cycle, DepsCycle
  <2> QED
    BY <1>2, <1>3, <1>4, <2>1 DEF TypeOK, SetReset
<1>9. next' \in [Entries -> Entries]
  <2>1. next' = [i \in Entries |->
                   IF i \in LinkedTo(in)
                     THEN IF FreeAlloc # {} THEN CHOOSE f \in FreeAlloc : TRUE ELSE 0
                     ELSE next[i]]
    BY <1>1 DEF Table, Cycle, ListCycle
  <2>2. FreeAlloc # {} => (CHOOSE f \in FreeAlloc : TRUE) \in Entries
    BY <1>5
  <2>3. 0 \in Entries
    BY RtabAssumption DEF Entries
  <2> QED
    BY <1>2, <2>1, <2>2, <2>3 DEF TypeOK
<1>10. req' \in [Entries -> Req]
  <2>1. req' = [i \in Entries |->
                  IF i \in Allocated(in) \ valid \/ i \in RolledBack(in) THEN in.areq ELSE req[i]]
    BY <1>1 DEF Table, Cycle, ListCycle
  <2> QED
    BY <1>2, <1>3, <2>1 DEF TypeOK
<1>11. popState' \in {"HEAD", "NEXT", "NEXT_WAIT"} /\ popNext' \subseteq Entries
  <2>1. ASSUME NEW n \in Entries, AllocStep(n) \/ \E t \in Entries : LinkStep(n, t)
        PROVE  popState' = popState /\ popNext' = popNext
    BY <2>1 DEF AllocStep, LinkStep
  <2>2. CASE RbackStep
    BY <1>2, <2>2 DEF RbackStep, TypeOK
  <2>3. CASE AdvanceStep
    BY <1>2, <2>3 DEF AdvanceStep, NoPop, Pop, TypeOK
  <2> QED
    BY <1>2, <2>1, <2>2, <2>3 DEF Steps, TypeOK
<1>12. /\ popArb' \in RrState /\ fullArb' \in RrState /\ dirArb' \in RrState
       /\ rdArb' \in RrState /\ wrArb' \in RrState
  <2>1. /\ popArb'  = RrNext(popArb, N, Ready, PopHead(in))
        /\ fullArb' = RrNext(fullArb, N, WaitersMshrFull(in.refillLine), in.refill)
        /\ dirArb'  = RrNext(dirArb, N, WaitersDirUnavailable(in.refillLine), in.refill)
        /\ rdArb'   = RrNext(rdArb, N, WbufRdPending, 0 \in WbufGnt /\ WbufReady(in))
        /\ wrArb'   = RrNext(wrArb, N, WbufWrPending, 1 \in WbufGnt /\ WbufReady(in))
    BY <1>1 DEF Table, Cycle, ArbCycle
  <2>2. /\ Ready \in SUBSET (0 .. N - 1)
        /\ WaitersMshrFull(in.refillLine) \in SUBSET (0 .. N - 1)
        /\ WaitersDirUnavailable(in.refillLine) \in SUBSET (0 .. N - 1)
        /\ WbufRdPending \in SUBSET (0 .. N - 1) /\ WbufWrPending \in SUBSET (0 .. N - 1)
    BY <1>2 DEF TypeOK, Ready, WaitersMshrFull, WaitersDirUnavailable, WbufRdPending,
                WbufWrPending, Entries
  <2>3. N \in Nat \ {0}
    BY RtabAssumption
  <2>4. /\ popArb \in [gnt : 0 .. N - 1, wait : BOOLEAN]
        /\ fullArb \in [gnt : 0 .. N - 1, wait : BOOLEAN]
        /\ dirArb \in [gnt : 0 .. N - 1, wait : BOOLEAN]
        /\ rdArb \in [gnt : 0 .. N - 1, wait : BOOLEAN]
        /\ wrArb \in [gnt : 0 .. N - 1, wait : BOOLEAN]
    BY <1>2 DEF TypeOK, RrState, Entries
  <2>5. \A ready : /\ RrNext(popArb, N, Ready, ready) \in RrState
                   /\ RrNext(fullArb, N, WaitersMshrFull(in.refillLine), ready) \in RrState
                   /\ RrNext(dirArb, N, WaitersDirUnavailable(in.refillLine), ready) \in RrState
                   /\ RrNext(rdArb, N, WbufRdPending, ready) \in RrState
                   /\ RrNext(wrArb, N, WbufWrPending, ready) \in RrState
    BY <2>2, <2>3, <2>4, RrNextType DEF RrState, Entries
  <2> QED
    BY <2>1, <2>5, Zenon
<1>13. selArb' \subseteq {0, 1}
  <2>1. selArb' = FxNext(selArb, WbufPending, WbufReady(in))
    BY <1>1 DEF Table, Cycle, ArbCycle
  <2>2. WbufPending \subseteq {0, 1} /\ Lowest(WbufPending) \subseteq WbufPending
    BY LowestSubset DEF WbufPending
  <2> QED
    BY <1>2, <2>1, <2>2 DEF TypeOK, FxNext, FxGrant
<1>14. st1' \in StageType /\ st2' \in BOOLEAN /\ idle' \in BOOLEAN /\ refill' \in RefillType
  BY <1>2 DEF Move, AroundStep
<1>15. older' \in [Entries -> SUBSET Entries]
  <2>1. older' = [i \in Entries |->
                    (IF i \in Allocated(in) THEN CheckHit(in.areq.line) ELSE older[i]) \ Committed(in)]
    BY <1>1 DEF Table
  <2>2. CheckHit(in.areq.line) \subseteq Entries
    BY <1>2 DEF TypeOK, CheckHit
  <2> QED
    BY <1>2, <2>1, <2>2 DEF TypeOK
<1>16. singleEntry' \in BOOLEAN
  BY <1>2, MoveMode DEF TypeOK
<1> QED
  BY <1>16, <1>6, <1>7, <1>8, <1>9, <1>10, <1>11, <1>12, <1>13, <1>14, <1>15
     DEF TypeOK, StageType, RefillType

----------------------------------------------------------------------------
(* The invariant is inductive                                              *)

\* Some cycle of the pipeline and the table.
SomeMove ==
  \E u \in Units, w \in Way, pop, pulse, failed \in BOOLEAN :
    \E o : Move(o, w, u, pop, pulse, failed)

\* The arbitrary request that the registers hold after reset is a request.
LEMMA ARequestType == ARequest \in Req
<1>1. PICK l \in Line, w \in Way : TRUE
  BY RtabAssumption
<1>2. [line |-> l, op |-> "load", way |-> w] \in Req
  BY DEF Req, Op
<1> QED
  BY <1>2 DEF ARequest

\* Every cycle of the pipeline is a step on the lists.
LEMMA NextMoves ==
  ASSUME IInv, ~(EccEn /\ WbEn), Next
  PROVE  SomeMove
<1> USE DEF IInv, TypeOK
<1>1. \A o : WayOf(o) \subseteq Way
  BY DEF WayOf, Req
<1>2. ASSUME Replay PROVE SomeMove
  <2>1. PICK u, o, w, i :
          /\ u \in Units /\ o \in Outcomes(u) /\ w \in WayOf(o) /\ i \in PopSel
          /\ ~refill.busy /\ MayReplay(o)
          /\ Table(RtabIn(o, w, u, TRUE, FALSE, FALSE))
          /\ st1' = Payload(i) /\ st2' = o.st2 /\ refill' = refill /\ UnitsMove
    BY <1>2 DEF Replay
  <2>2. i \in Entries
    BY <2>1, PopSelFacts DEF MayReplay
  <2>3. st1' \in StageType
    BY <2>1, <2>2 DEF Payload, StageType
  <2>4. Move(o, w, u, TRUE, FALSE, FALSE)
    BY <2>1, <2>3 DEF Move, RefillType
  <2>5. u \in Units /\ w \in Way
    BY <1>1, <2>1
  <2> QED
    BY <2>4, <2>5, Zenon DEF SomeMove
<1>3. ASSUME Accept PROVE SomeMove
  <2>1. PICK u, o, w, r :
          /\ u \in Units /\ o \in Outcomes(u) /\ w \in WayOf(o) /\ r \in Req
          /\ ~refill.busy /\ MayAcceptCore(o)
          /\ Table(RtabIn(o, w, u, FALSE, FALSE, FALSE))
          /\ st1' = [valid |-> TRUE, rtab |-> FALSE, error |-> FALSE, ptr |-> 0, req |-> r]
          /\ st2' = o.st2 /\ refill' = refill /\ UnitsMove
    BY <1>3 DEF Accept
  <2>2. 0 \in Entries
    BY RtabAssumption DEF Entries
  <2>3. st1' \in StageType /\ CoreInStage1' /\ ~st1'.error
    BY <2>1, <2>2 DEF StageType, CoreInStage1
  <2>4. Move(o, w, u, FALSE, FALSE, FALSE)
    BY <2>1, <2>3 DEF Move, RefillType
  <2>5. u \in Units /\ w \in Way
    BY <1>1, <2>1
  <2> QED
    BY <2>4, <2>5, Zenon DEF SomeMove
<1>4. ASSUME Bubble PROVE SomeMove
  <2>1. PICK u, o, w :
          /\ u \in Units /\ o \in Outcomes(u) /\ w \in WayOf(o)
          /\ ~refill.busy
          /\ Table(RtabIn(o, w, u, FALSE, FALSE, FALSE))
          /\ st1' = EmptyStage /\ st2' = o.st2 /\ refill' = refill /\ UnitsMove
    BY <1>4 DEF Bubble
  <2>2. 0 \in Entries /\ ARequest \in Req
    BY RtabAssumption, ARequestType DEF Entries
  <2>3. st1' \in StageType /\ ~st1'.valid
    BY <2>1, <2>2 DEF StageType, EmptyStage
  <2>4. Move(o, w, u, FALSE, FALSE, FALSE)
    BY <2>1, <2>3 DEF Move, RefillType, Drained
  <2>5. u \in Units /\ w \in Way
    BY <1>1, <2>1
  <2> QED
    BY <2>4, <2>5, Zenon DEF SomeMove
<1>5. ASSUME RefillStart PROVE SomeMove
  <2>1. PICK u \in Units, l \in Line, w \in Way :
          /\ MayRefill
          /\ Table(RtabIn(Nothing, st1.req.way, u, FALSE, FALSE, FALSE))
          /\ refill' = [busy |-> TRUE, line |-> l, way |-> w]
          /\ st1' = st1 /\ st2' = st2 /\ UnitsMove
    BY <1>5 DEF RefillStart
  <2>2. Nothing \in Outcomes(u) /\ ~st1.valid /\ st2 = FALSE
    BY <2>1 DEF MayRefill, Outcomes
  <2>3. Move(Nothing, st1.req.way, u, FALSE, FALSE, FALSE)
    BY <2>1, <2>2 DEF Move, RefillType, StageType, Drained, Nothing
  <2>4. st1.req.way \in Way
    BY DEF Req
  <2> QED
    BY <2>3, <2>4, Zenon DEF SomeMove
<1>6. ASSUME RefillStep PROVE SomeMove
  <2>1. PICK u \in Units, pulse \in BOOLEAN, failed \in BOOLEAN :
          /\ refill.busy
          /\ Table(RtabIn(Nothing, st1.req.way, u, FALSE, pulse, failed))
          /\ refill' = [refill EXCEPT !.busy = ~pulse]
          /\ st1' = st1 /\ st2' = st2 /\ UnitsMove
    BY <1>6 DEF RefillStep
  <2>2. Nothing \in Outcomes(u) /\ ~st1.valid /\ st2 = FALSE
    BY <2>1 DEF PipeInv, Outcomes
  <2>3. Move(Nothing, st1.req.way, u, FALSE, pulse, failed)
    BY <2>1, <2>2 DEF Move, RefillType, StageType, Drained, Nothing
  <2>4. st1.req.way \in Way
    BY DEF Req
  <2>5. \E o : Move(o, st1.req.way, u, FALSE, pulse, failed)
    BY <2>3
  <2> SUFFICES \E uu \in Units, w \in Way, pop, pp, ff \in BOOLEAN :
                 \E o : Move(o, w, uu, pop, pp, ff)
    BY DEF SomeMove
  <2> WITNESS u \in Units, st1.req.way \in Way, FALSE \in BOOLEAN,
              pulse \in BOOLEAN, failed \in BOOLEAN
  <2> QED
    BY <2>5
<1> QED
  BY <1>2, <1>3, <1>4, <1>5, <1>6 DEF Next

\* The table after reset satisfies the invariant.
LEMMA InitIInv == Init => IInv
<1> SUFFICES ASSUME Init PROVE IInv
  OBVIOUS
<1> USE DEF Init, RtabInit
<1>1. ARequest \in Req /\ 0 \in Entries /\ N - 1 \in Entries /\ req = [i \in Entries |-> ARequest]
  <2>1. ARequest \in Req
    BY ARequestType
  <2>2. 0 \in Entries /\ N - 1 \in Entries
    BY RtabAssumption DEF Entries
  <2>3. req = [i \in Entries |-> ARequest]
    BY Zenon DEF ARequest
  <2> QED
    BY <2>1, <2>2, <2>3
<1>2. TypeOK
  <2>1. RrReset(N) \in RrState
    BY <1>1 DEF RrReset, RrState
  <2>2. st1 \in StageType /\ refill \in RefillType
    BY <1>1 DEF StageType, RefillType, EmptyStage, Req
  <2>3. popArb \in RrState /\ fullArb \in RrState /\ dirArb \in RrState
        /\ rdArb \in RrState /\ wrArb \in RrState /\ selArb \subseteq {0, 1}
    BY <2>1 DEF FxReset
  <2>4. /\ deps \in [Entries -> SUBSET DepNames] /\ next \in [Entries -> Entries]
        /\ req \in [Entries -> Req] /\ older \in [Entries -> SUBSET Entries]
    BY <1>1
  <2>5. /\ valid \subseteq Entries /\ head \subseteq Entries /\ tail \subseteq Entries
        /\ error \subseteq Entries /\ popNext \subseteq Entries
        /\ popState \in {"HEAD", "NEXT", "NEXT_WAIT"} /\ st2 \in BOOLEAN /\ idle \in BOOLEAN
        /\ singleEntry \in BOOLEAN
    OBVIOUS
  <2> HIDE DEF Init, RtabInit
  <2> QED
    BY <2>2, <2>3, <2>4, <2>5, Zenon DEF TypeOK, StageType, RefillType
<1>3. ~st1.valid /\ ~refill.busy /\ ~popArb.wait /\ InFlight = {}
  BY DEF EmptyStage, RrReset, InFlight, ReplayInStage1
<1>4. PipeInv /\ DepInv
  BY <1>3 DEF PipeInv, DepInv, ReplayInStage1, CoreInStage1
<1>5. OrderInv
  BY <1>3 DEF OrderInv, OlderHeld, OlderOrder, HeadsFirst, LinksFollow, TailLast, LineHasTail,
              NoOrphan, Plain, HeldFence
<1>6. FenceInv /\ ErrorInv /\ SingleInv
  BY <1>3 DEF FenceInv, ErrorInv, ErrorReplayed, SingleInv, HeldFence, CoreInStage1
<1> QED
  BY <1>2, <1>4, <1>5, <1>6 DEF IInv

\* Every cycle keeps the invariant.
LEMMA NextIInv ==
  ASSUME IInv, ~(EccEn /\ WbEn), [Next]_vars
  PROVE  IInv'
<1>1. CASE Next
  <2>1. PICK u \in Units, w \in Way, pop \in BOOLEAN, pulse \in BOOLEAN, failed \in BOOLEAN :
          \E o : Move(o, w, u, pop, pulse, failed)
    BY <1>1, NextMoves DEF SomeMove
  <2>2. Steps /\ AroundStep /\ TypeOK' /\ singleEntry' = singleEntry
    BY <2>1, MoveSteps, MoveAround, MoveType, MoveMode
  <2>3. TypeOK /\ PipeInv /\ DepInv /\ OrderInv /\ FenceInv /\ ErrorInv /\ SingleInv
    BY DEF IInv
  <2> QED
    BY <2>2, <2>3, StepOrder, StepPipe, StepDeps, StepFence, StepError, StepSingle DEF IInv
<1>2. CASE UNCHANGED vars
  <2>1. UNCHANGED <<singleEntry, valid, head, tail, error, deps, next, req, popState, popNext, popArb,
                    fullArb, dirArb, rdArb, wrArb, selArb, st1, st2, idle, refill, older>>
    BY <1>2 DEF vars, rtab, lists, arbs
  <2>2. SingleInv'
    BY <2>1 DEF IInv, SingleInv, CoreInStage1
  <2>3. (TypeOK /\ PipeInv /\ DepInv)'
    BY <2>1 DEF IInv, TypeOK, PipeInv, DepInv, OrderInv, OlderHeld, InFlight, CoreInStage1, ReplayInStage1,
      Ready
  <2>4. (OrderInv /\ FenceInv /\ ErrorInv)'
    BY <2>1 DEF IInv, OrderInv, OlderHeld, OlderOrder, HeadsFirst, LinksFollow, TailLast, LineHasTail,
      NoOrphan, FenceInv, ErrorInv, ErrorReplayed, HeldFence, Plain, InFlight, SameLine, CoreInStage1,
      ReplayInStage1, Ready
  <2> QED
    BY <2>2, <2>3, <2>4 DEF IInv
<1> QED
  BY <1>1, <1>2

(* IInv holds in every cycle of a cache without write-back or without      *)
(* error correction (the other ones leave a replay unresolved when it      *)
(* meets an uncorrectable error).                                          *)
THEOREM Invariant ==
  ASSUME ~(EccEn /\ WbEn)
  PROVE  Spec => []IInv
<1>1. IInv /\ [Next]_vars => IInv'
  BY NextIInv
<1> QED
  BY InitIInv, <1>1, PTL DEF Spec

(* The registers of the table and of the pipeline keep their types: in     *)
(* particular no index leaves the table.                                   *)
THEOREM TypeCorrect ==
  ASSUME ~(EccEn /\ WbEn)
  PROVE  Spec => []TypeOK
<1>1. IInv => TypeOK
  BY DEF IInv
<1> QED
  BY Invariant, <1>1, PTL

(* Replays keep the order of arrival of the requests of a line.            *)
THEOREM LineOrder ==
  ASSUME ~(EccEn /\ WbEn)
  PROVE  Spec => []SameLineOrder
<1>1. IInv => SameLineOrder
  BY DEF IInv, OrderInv, HeadsFirst, InFlight, SameLineOrder
<1> QED
  BY Invariant, <1>1, PTL

(* Every held request stays reachable by the replay logic.                 *)
THEOREM Reachable ==
  ASSUME ~(EccEn /\ WbEn)
  PROVE  Spec => []NoOrphan
<1>1. IInv => NoOrphan
  BY DEF IInv, OrderInv
<1> QED
  BY Invariant, <1>1, PTL

(* Fences (atomics, uncacheable accesses) are replayed alone, and nothing  *)
(* overtakes them.                                                         *)
THEOREM Fences ==
  ASSUME ~(EccEn /\ WbEn)
  PROVE  Spec => []FenceOrder
<1>1. ASSUME IInv PROVE FenceOrder
  <2>1. ASSUME ReplayInStage1, IsFence(st1.req) PROVE valid = {st1.ptr}
    <3>1. st1.ptr \in HeldFence /\ deps[st1.ptr] = {}
      BY <1>1, <2>1 DEF IInv, TypeOK, PipeInv, DepInv, HeldFence, IsFence
    <3> QED
      BY <1>1, <3>1 DEF IInv, FenceInv
  <2>2. CoreInStage1 => \A i \in valid : ~IsFence(req[i])
    BY <1>1 DEF IInv, FenceInv, HeldFence
  <2> QED
    BY <2>1, <2>2 DEF FenceOrder
<1> QED
  BY Invariant, <1>1, PTL

(* A request to be linked finds one tail and a free entry.                 *)
THEOREM Linkable ==
  ASSUME ~(EccEn /\ WbEn)
  PROVE  Spec => []LinkTarget
<1>1. ASSUME IInv PROVE LinkTarget
  <2>1. CoreInStage1 => valid # Entries
    BY <1>1 DEF IInv, PipeInv
  <2>2. ASSUME CoreInStage1, CheckHit(st1.req.line) # {}
        PROVE  Cardinality(CheckTail(st1.req.line)) = 1
    <3>1. PICK t \in valid : CheckTail(st1.req.line) = {t}
      BY <1>1, <2>2, LinkFacts DEF IInv
    <3> QED
      BY <3>1, FS_Singleton
  <2> QED
    BY <2>1, <2>2 DEF LinkTarget
<1> QED
  BY Invariant, <1>1, PTL

(* The error of a failed write miss reaches its own replay and no other.   *)
THEOREM Errors ==
  ASSUME ~(EccEn /\ WbEn)
  PROVE  Spec => []ErrorReplayed
<1>1. IInv => ErrorReplayed
  BY DEF IInv, ErrorInv
<1> QED
  BY Invariant, <1>1, PTL

(* Single-entry mode holds one request at most.                            *)
THEOREM Single ==
  ASSUME ~(EccEn /\ WbEn)
  PROVE  Spec => []SingleEntryMode
<1>1. ASSUME IInv, singleEntry PROVE Cardinality(valid) <= 1
  <2>1. CASE valid = {}
    BY <2>1, FS_EmptySet
  <2>2. CASE valid # {}
    <3>1. PICK i \in valid : valid = {i}
      BY <1>1, <2>2 DEF IInv, SingleInv
    <3> QED
      BY <3>1, FS_Singleton
  <2> QED
    BY <2>1, <2>2
<1>2. IInv => SingleEntryMode
  BY <1>1 DEF SingleEntryMode
<1> QED
  BY Invariant, <1>2, PTL

(* Every replay is committed or rolled back in its cycle of stage 1: what  *)
(* the assertion of the table demands holds without the unrecoverable      *)
(* errors of a write-back cache.                                           *)
THEOREM Resolved ==
  ASSUME ~(EccEn /\ WbEn)
  PROVE  Spec => ReplayResolved
<1>1. ASSUME IInv, [Next]_vars
      PROVE  [ReplayInStage1 => st1.ptr \notin valid' \/ st1.ptr \in head']_vars
  <2>1. SUFFICES ASSUME Next, ReplayInStage1 PROVE st1.ptr \notin valid' \/ st1.ptr \in head'
    BY <1>1
  <2>2. Steps
    BY <1>1, <2>1, NextMoves, MoveSteps DEF SomeMove
  <2>3. CASE RbackStep
    BY <2>3 DEF RbackStep
  <2>4. CASE AdvanceStep
    BY <2>1, <2>4 DEF AdvanceStep, InFlight
  <2> QED
    BY <2>1, <2>2, <2>3, <2>4
       DEF Steps, AllocStep, LinkStep, CoreInStage1, ReplayInStage1
<1> QED
  BY Invariant, <1>1, PTL DEF Spec, ReplayResolved


----------------------------------------------------------------------------
(* The grants that the other arbiters hold                                 *)

(* The wake-up arbiters hold entries that still wait.  Those that ask the  *)
(* write buffer hold an entry until it is replayed, also after its         *)
(* dependency is gone; the choice between the two is then held as well.    *)
GrantInv ==
  /\ fullArb.wait => fullArb.gnt \in valid /\ "mshr_full" \in deps[fullArb.gnt]
  /\ dirArb.wait => dirArb.gnt \in valid /\ "dir_unavailable" \in deps[dirArb.gnt]
  /\ rdArb.wait => /\ rdArb.gnt \in head /\ "wbuf_not_ready" \notin deps[rdArb.gnt]
                   /\ "wbuf_hit" \in deps[rdArb.gnt] \/ selArb = {0}
  /\ wrArb.wait => /\ wrArb.gnt \in head /\ "wbuf_hit" \notin deps[wrArb.gnt]
                   /\ "wbuf_not_ready" \in deps[wrArb.gnt] \/ selArb = {1}
  /\ selArb \in {{}, {0}, {1}}
  /\ 0 \in selArb => rdArb.wait
  /\ 1 \in selArb => wrArb.wait
  /\ \A i \in Entries : "wbuf_hit" \in deps[i] => "wbuf_not_ready" \notin deps[i]

\* A round-robin arbiter holds the grant it gives and that is not taken.
LEMMA RrStep ==
  ASSUME NEW S \in SUBSET Entries, NEW a \in RrState, NEW ready \in BOOLEAN,
         NEW b, b = RrNext(a, N, S, ready)
  PROVE  /\ b.wait => /\ ~ready /\ RrGrant(a, N, S) = {b.gnt}
                      /\ IF a.wait THEN b.gnt = a.gnt ELSE b.gnt \in S
         /\ ~ready /\ RrGrant(a, N, S) # {} => b.wait
         /\ ~a.wait => RrGrant(a, N, S) \subseteq S
         /\ a.wait => RrGrant(a, N, S) = {a.gnt}
<1>1. N \in Nat \ {0} /\ S \in SUBSET (0 .. N - 1) /\ a \in [gnt : 0 .. N - 1, wait : BOOLEAN]
  BY RtabAssumption DEF Entries, RrState
<1>2. CASE a.wait
  BY <1>1, <1>2 DEF RrNext, RrGrant
<1>3. CASE ~a.wait /\ S = {}
  BY <1>1, <1>3 DEF RrNext, RrGrant, RrSelect, RrMasked, Lowest
<1>4. CASE ~a.wait /\ S # {}
  <2>1. /\ RrNext(a, N, S, FALSE) \in [gnt : S, wait : BOOLEAN]
        /\ RrGrant(a, N, S) = {RrNext(a, N, S, FALSE).gnt}
    <3>1. a.wait => a.gnt \in S
      BY <1>4
    <3> QED
      BY <1>1, <1>4, <3>1, RrHolds
  <2>5. b.gnt = RrNext(a, N, S, FALSE).gnt
    BY DEF RrNext
  <2>6. b.wait <=> ~ready
    BY <1>4 DEF RrNext
  <2>2. (b.wait <=> ~ready) /\ RrGrant(a, N, S) = {b.gnt}
    BY <2>1, <2>5, <2>6, Zenon
  <2>4. b.gnt \in S
    BY <2>1, <2>5
  <2>3. RrGrant(a, N, S) \subseteq S /\ RrGrant(a, N, S) # {}
    BY <2>2, <2>4
  <2> QED
    BY <1>4, <2>2, <2>3, <2>4, Zenon
<1> QED
  BY <1>2, <1>3, <1>4

\* No request is held for both reasons of the write buffer.
LEMMA OneWbufReason ==
  ASSUME TypeOK, ~(EccEn /\ WbEn), NEW u \in Units, NEW o \in Outcomes(u)
  PROVE  "wbuf_hit" \in o.deps => "wbuf_not_ready" \notin o.deps
<1>1. ASSUME NEW D, o \in Held(D), "wbuf_hit" \in D => "wbuf_not_ready" \notin D
      PROVE  "wbuf_hit" \in o.deps => "wbuf_not_ready" \notin o.deps
  <2>1. o.deps = D \cup (IF IsFence(st1.req) THEN {"pend_trans"} ELSE {})
    BY <1>1 DEF Held, Nothing
  <2> QED
    BY <1>1, <2>1
<1>2. ASSUME NEW D \in Reasons(st1.req.op, u)
      PROVE  "wbuf_hit" \in D => "wbuf_not_ready" \notin D
  <2>1. st1.req.op \in {"load", "store", "fence"}
    BY DEF TypeOK, Req, Op
  <2>2. D = {} \/ D \in FenceReasons \/ \E d \in DepNames : D = {d}
    BY <2>1 DEF Reasons, LoadReasons, StoreReasons, DepNames
  <2> QED
    BY <2>2 DEF FenceReasons
<1>3. CASE o.deps = {}
  BY <1>3
<1>4. \A n, s : Serve(n, s).deps = {}
  BY DEF Serve, Nothing
<1>5. \/ o.deps = {} \/ o \in Held({})
      \/ \E D \in Reasons(st1.req.op, u) : o \in Held(D)
  <2>1. CASE ~st1.valid \/ st1.error
    BY <2>1 DEF Outcomes, Nothing
  <2>2. CASE st1.valid /\ ~st1.error
    <3>1. \/ o \in {Nothing, Linked} \/ o \in Served \/ o \in Held({})
          \/ \E D \in Reasons(st1.req.op, u) : o \in Held(D)
      <4>1. CASE ~st1.rtab /\ ~IsFence(st1.req) /\ CheckHit(st1.req.line) # {}
        <5>1. o = Nothing \/ o = Linked
          BY <2>2, <4>1 DEF Outcomes
        <5> QED
          BY <5>1
      <4>2. CASE IsFence(st1.req) /\ ~MayExecute
        <5>1. o = Nothing \/ o \in Held({})
          BY <2>2, <4>2 DEF Outcomes
        <5> QED
          BY <5>1
      <4>3. CASE /\ ~(~st1.rtab /\ ~IsFence(st1.req) /\ CheckHit(st1.req.line) # {})
                 /\ ~(IsFence(st1.req) /\ ~MayExecute)
        <5>1. o = Nothing \/ o \in Served \/ \E D \in Reasons(st1.req.op, u) : o \in Held(D)
          BY <2>2, <4>3 DEF Outcomes
        <5> QED
          BY <5>1
      <4> QED
        BY <4>1, <4>2, <4>3
    <3>2. Nothing.deps = {} /\ Linked.deps = {}
      BY DEF Nothing, Linked
    <3>3. o \in Served => o.deps = {}
      BY <1>4 DEF Served
    <3> QED
      BY <3>1, <3>2, <3>3
  <2> QED
    BY <2>1, <2>2
<1> QED
  BY <1>1, <1>2, <1>3, <1>5


\* What a cycle does to a waiting head, and which entry it takes for replay.
LEMMA HeadStays ==
  ASSUME IInv, ~(EccEn /\ WbEn), NEW u \in Units, NEW o, NEW w \in Way, NEW pop \in BOOLEAN,
         NEW pulse, NEW failed, Move(o, w, u, pop, pulse, failed),
         NEW in, in = RtabIn(o, w, u, pop, pulse, failed)
  PROVE  /\ Cycle(in)
         /\ \A i \in head : /\ deps'[i] = deps[i] \ DepsRst(in, i) /\ i \in valid'
                            /\ i \notin Popped(in) => i \in head'
         /\ \A i \in Popped(in) : deps[i] = {}
         /\ \A i \in Entries : \/ deps'[i] \subseteq deps[i]
                               \/ deps'[i] = o.deps
<1>1. o \in Outcomes(u) /\ Cycle(in) /\ (pop => MayReplay(o)) /\ TypeOK
  BY DEF Move, Table, IInv
<1>2. /\ in.alloc = (o.hold /\ ~st1.rtab) /\ in.link = o.link /\ in.adeps = o.deps
      /\ in.popTry = pop /\ in.commit = o.commit
      /\ in.rback = (o.hold /\ st1.rtab) /\ in.ptr = st1.ptr
  BY <1>1, InputFacts
<1>3. /\ o.hold \in BOOLEAN /\ o.link \in BOOLEAN /\ o.commit \in BOOLEAN
      /\ ~st1.valid => ~o.hold /\ ~o.link /\ ~o.commit
      /\ o.commit => ReplayInStage1
      /\ o.deps \in SUBSET DepNames
  BY <1>1, OutcomeFacts
<1>4. Allocated(in) \subseteq Entries \ valid /\ FreeAlloc \subseteq Entries \ valid
  BY LowestSubset DEF Allocated, FreeAlloc
<1>5. (in.commit \/ in.rback) => ReplayInStage1
  BY <1>1, <1>2, <1>3 DEF ReplayInStage1, TypeOK
<1>6. Committed(in) \cap head = {} /\ RolledBack(in) \cap head = {}
  BY <1>2, <1>5 DEF Committed, RolledBack, IInv, PipeInv
<1>7. head \subseteq valid /\ head \subseteq Entries /\ \A i \in Entries \ head : deps[i] = {}
  BY DEF IInv, TypeOK, DepInv
<1>8. ASSUME NEW i \in head
      PROVE  /\ deps'[i] = deps[i] \ DepsRst(in, i) /\ i \in valid'
             /\ i \notin Popped(in) => i \in head'
  <2>1. i \in Entries /\ i \in valid /\ i \notin Allocated(in) /\ i \notin RolledBack(in) /\ i \notin Committed(in)
        /\ i \notin FreeAlloc
    BY <1>4, <1>6, <1>7
  <2>2. deps'[i] = deps[i] \ DepsRst(in, i)
    BY <1>1, <2>1 DEF Cycle, DepsCycle, SetReset
  <2>3. i \in valid'
    BY <1>1, <2>1 DEF Cycle, ListCycle, SetReset
  <2>4. i \notin Popped(in) => i \in head'
    BY <1>1, <2>1 DEF Cycle, ListCycle, HeadNext, SetReset
  <2> QED
    BY <2>2, <2>3, <2>4
<1>9. \A i \in Popped(in) : deps[i] = {}
  <2>1. CASE pop
    <3>1. PopTryValid
      BY <1>1, <2>1 DEF MayReplay
    <3>2. PICK i \in valid : PopSel = {i} /\ deps[i] = {}
      BY <1>1, <3>1, PopSelFacts DEF IInv
    <3> QED
      BY <3>2 DEF Popped
  <2>2. CASE ~pop
    BY <1>2, <2>2 DEF Popped
  <2> QED
    BY <2>1, <2>2
<1>10. ASSUME NEW i \in Entries PROVE deps'[i] \subseteq deps[i] \/ deps'[i] = o.deps
  <2>1. CASE i \in Allocated(in) \cup RolledBack(in)
    <3>1. i \notin head
      BY <1>4, <1>6, <1>7, <2>1
    <3>2. deps[i] = {}
      BY <1>7, <3>1
    <3> QED
      BY <1>1, <1>2, <2>1, <3>2, DepsAssigned DEF Cycle
  <2>2. CASE i \notin Allocated(in) \cup RolledBack(in)
    BY <1>1, <2>2 DEF Cycle, DepsCycle, SetReset
  <2> QED
    BY <2>1, <2>2
<1> QED
  BY <1>1, <1>8, <1>9, <1>10


\* The wake-up arbiters keep their grants until a refill spends them.
LEMMA MoveWakers ==
  ASSUME IInv, GrantInv, ~(EccEn /\ WbEn), NEW u \in Units, NEW o, NEW w \in Way,
         NEW pop \in BOOLEAN, NEW pulse, NEW failed, Move(o, w, u, pop, pulse, failed)
  PROVE  pulse \in BOOLEAN =>
         /\ fullArb'.wait => fullArb'.gnt \in valid' /\ "mshr_full" \in deps'[fullArb'.gnt]
         /\ dirArb'.wait => dirArb'.gnt \in valid' /\ "dir_unavailable" \in deps'[dirArb'.gnt]
<1> DEFINE in == RtabIn(o, w, u, pop, pulse, failed)
<1>1. /\ Cycle(in)
      /\ \A i \in head : /\ deps'[i] = deps[i] \ DepsRst(in, i)
                         /\ i \notin Popped(in) => i \in head'
      /\ \A i \in Popped(in) : deps[i] = {}
  BY HeadStays
<1>7. \A i \in head : i \in valid'
  BY HeadStays
<1> HAVE pulse \in BOOLEAN
<1>2. in.refill \in BOOLEAN
  BY DEF RtabIn
<1> HIDE DEF in
<1>3. /\ fullArb' = RrNext(fullArb, N, WaitersMshrFull(in.refillLine), in.refill)
      /\ dirArb' = RrNext(dirArb, N, WaitersDirUnavailable(in.refillLine), in.refill)
  BY <1>1 DEF Cycle, ArbCycle
<1>4. /\ valid \subseteq Entries /\ fullArb \in RrState /\ dirArb \in RrState
      /\ WaitersMshrFull(in.refillLine) \in SUBSET Entries
      /\ WaitersDirUnavailable(in.refillLine) \in SUBSET Entries
      /\ \A i \in valid \ head : deps[i] = {}
  <2>1. /\ WaitersMshrFull(in.refillLine) \subseteq valid
        /\ WaitersDirUnavailable(in.refillLine) \subseteq valid
    BY DEF WaitersMshrFull, WaitersDirUnavailable
  <2>2. valid \subseteq Entries /\ fullArb \in RrState /\ dirArb \in RrState
    BY DEF IInv, TypeOK
  <2>3. \A i \in valid \ head : deps[i] = {}
    BY <2>2 DEF IInv, DepInv
  <2> QED
    BY <2>1, <2>2, <2>3
<1>5. ASSUME fullArb'.wait
      PROVE  fullArb'.gnt \in valid' /\ "mshr_full" \in deps'[fullArb'.gnt]
  <2>1. /\ ~in.refill
        /\ IF fullArb.wait THEN fullArb'.gnt = fullArb.gnt
           ELSE fullArb'.gnt \in WaitersMshrFull(in.refillLine)
    <3> DEFINE S == WaitersMshrFull(in.refillLine)  r == in.refill  b == fullArb'
    <3>1. S \in SUBSET Entries /\ fullArb \in RrState /\ r \in BOOLEAN
      BY <1>2, <1>4
    <3>2. b = RrNext(fullArb, N, S, r)
      BY <1>3
    <3>3. b.wait
      BY <1>5
    <3>4. ~r /\ IF fullArb.wait THEN b.gnt = fullArb.gnt ELSE b.gnt \in S
      <4> HIDE DEF S, r, b
      <4> QED
        BY <3>1, <3>2, <3>3, RrStep
    <3> QED
      BY <3>4
  <2>2. fullArb'.gnt \in valid /\ "mshr_full" \in deps[fullArb'.gnt]
    BY <2>1 DEF GrantInv, WaitersMshrFull
  <2>3. fullArb'.gnt \in head
    BY <1>4, <2>2
  <2>4. "mshr_full" \notin DepsRst(in, fullArb'.gnt)
    BY <2>1 DEF DepsRst
  <2> QED
    BY <1>1, <1>7, <2>2, <2>3, <2>4
<1>6. ASSUME dirArb'.wait
      PROVE  dirArb'.gnt \in valid' /\ "dir_unavailable" \in deps'[dirArb'.gnt]
  <2>1. /\ ~in.refill
        /\ IF dirArb.wait THEN dirArb'.gnt = dirArb.gnt
           ELSE dirArb'.gnt \in WaitersDirUnavailable(in.refillLine)
    <3> DEFINE S == WaitersDirUnavailable(in.refillLine)  r == in.refill  b == dirArb'
    <3>1. S \in SUBSET Entries /\ dirArb \in RrState /\ r \in BOOLEAN
      BY <1>2, <1>4
    <3>2. b = RrNext(dirArb, N, S, r)
      BY <1>3
    <3>3. b.wait
      BY <1>6
    <3>4. ~r /\ IF dirArb.wait THEN b.gnt = dirArb.gnt ELSE b.gnt \in S
      <4> HIDE DEF S, r, b
      <4> QED
        BY <3>1, <3>2, <3>3, RrStep
    <3> QED
      BY <3>4
  <2>2. dirArb'.gnt \in valid /\ "dir_unavailable" \in deps[dirArb'.gnt]
    BY <2>1 DEF GrantInv, WaitersDirUnavailable
  <2>3. dirArb'.gnt \in head
    BY <1>4, <2>2
  <2>4. "dir_unavailable" \notin DepsRst(in, dirArb'.gnt)
    BY <2>1 DEF DepsRst
  <2> QED
    BY <1>1, <1>7, <2>2, <2>3, <2>4
<1> QED
  BY <1>5, <1>6

\* The entries that the write buffer may be asked about, and the choice.
LEMMA WbufGrants ==
  ASSUME IInv, GrantInv
  PROVE  /\ \A i \in WbufRdGnt : /\ i \in head /\ "wbuf_not_ready" \notin deps[i]
                                 /\ "wbuf_hit" \in deps[i] \/ selArb = {0}
         /\ \A i \in WbufWrGnt : /\ i \in head /\ "wbuf_hit" \notin deps[i]
                                 /\ "wbuf_not_ready" \in deps[i] \/ selArb = {1}
         /\ WbufGnt \in {{}, {0}, {1}}
         /\ selArb # {} => WbufGnt = selArb
         /\ 0 \in WbufGnt => WbufRdGnt # {}
         /\ 1 \in WbufGnt => WbufWrGnt # {}
<1>1. /\ rdArb \in RrState /\ wrArb \in RrState
      /\ WbufRdPending \in SUBSET Entries /\ WbufWrPending \in SUBSET Entries
  BY DEF IInv, TypeOK, WbufRdPending, WbufWrPending
<1>2. /\ rdArb.wait => WbufRdGnt = {rdArb.gnt}
      /\ ~rdArb.wait => WbufRdGnt \subseteq WbufRdPending
  BY <1>1, RrStep DEF WbufRdGnt
<1>3. /\ wrArb.wait => WbufWrGnt = {wrArb.gnt}
      /\ ~wrArb.wait => WbufWrGnt \subseteq WbufWrPending
  BY <1>1, RrStep DEF WbufWrGnt
<1>4. ASSUME NEW i \in WbufRdGnt
      PROVE  i \in head /\ "wbuf_not_ready" \notin deps[i] /\ ("wbuf_hit" \in deps[i] \/ selArb = {0})
  <2>1. CASE rdArb.wait
    BY <1>2, <2>1 DEF GrantInv
  <2>2. CASE ~rdArb.wait
    BY <1>1, <1>2, <2>2 DEF GrantInv, WbufRdPending
  <2> QED
    BY <2>1, <2>2
<1>5. ASSUME NEW i \in WbufWrGnt
      PROVE  i \in head /\ "wbuf_hit" \notin deps[i] /\ ("wbuf_not_ready" \in deps[i] \/ selArb = {1})
  <2>1. CASE wrArb.wait
    BY <1>3, <2>1 DEF GrantInv
  <2>2. CASE ~wrArb.wait
    BY <1>1, <1>3, <2>2 DEF GrantInv, WbufWrPending
  <2> QED
    BY <2>1, <2>2
<1>6. selArb # {} => WbufGnt = selArb
  BY DEF WbufGnt, FxGrant
<1>7. selArb = {} => WbufGnt = Lowest(WbufPending)
  BY DEF WbufGnt, FxGrant
<1>8. WbufPending \in SUBSET Nat /\ WbufPending \subseteq {0, 1}
  BY DEF WbufPending
<1>9. WbufGnt \in {{}, {0}, {1}}
  <2>1. CASE selArb # {}
    BY <1>6, <2>1 DEF GrantInv
  <2>2. CASE selArb = {} /\ WbufPending = {}
    BY <1>7, <2>2 DEF Lowest
  <2>3. CASE selArb = {} /\ WbufPending # {}
    BY <1>7, <1>8, <2>3, LowestOneHot
  <2> QED
    BY <2>1, <2>2, <2>3
<1>10. (0 \in WbufGnt => WbufRdGnt # {}) /\ (1 \in WbufGnt => WbufWrGnt # {})
  <2>1. CASE selArb # {}
    BY <1>2, <1>3, <1>6, <2>1 DEF GrantInv
  <2>2. CASE selArb = {}
    <3>1. WbufGnt \subseteq WbufPending
      BY <1>7, <2>2, LowestSubset
    <3> QED
      BY <3>1 DEF WbufPending
  <2> QED
    BY <2>1, <2>2
<1> QED
  BY <1>4, <1>5, <1>6, <1>9, <1>10

(* A grant for the write buffer is held until its entry is replayed, and   *)
(* the choice is held with it once the entry no longer waits.              *)
LEMMA MoveWbuf ==
  ASSUME IInv, GrantInv, ~(EccEn /\ WbEn), NEW u \in Units, NEW o, NEW w \in Way,
         NEW pop \in BOOLEAN, NEW pulse, NEW failed, Move(o, w, u, pop, pulse, failed)
  PROVE  /\ rdArb'.wait => /\ rdArb'.gnt \in head' /\ "wbuf_not_ready" \notin deps'[rdArb'.gnt]
                           /\ "wbuf_hit" \in deps'[rdArb'.gnt] \/ selArb' = {0}
         /\ wrArb'.wait => /\ wrArb'.gnt \in head' /\ "wbuf_hit" \notin deps'[wrArb'.gnt]
                           /\ "wbuf_not_ready" \in deps'[wrArb'.gnt] \/ selArb' = {1}
         /\ selArb' \in {{}, {0}, {1}}
         /\ 0 \in selArb' => rdArb'.wait
         /\ 1 \in selArb' => wrArb'.wait
<1> DEFINE in == RtabIn(o, w, u, pop, pulse, failed)
           rdy == WbufReady(in)
<1>1. /\ Cycle(in)
      /\ \A i \in head : /\ deps'[i] = deps[i] \ DepsRst(in, i)
                         /\ i \notin Popped(in) => i \in head'
      /\ \A i \in Popped(in) : deps[i] = {}
  BY HeadStays
<1> HIDE DEF in
<1>2. /\ rdArb' = RrNext(rdArb, N, WbufRdPending, 0 \in WbufGnt /\ rdy)
      /\ wrArb' = RrNext(wrArb, N, WbufWrPending, 1 \in WbufGnt /\ rdy)
      /\ selArb' = IF rdy THEN {} ELSE WbufGnt
  BY <1>1 DEF Cycle, ArbCycle, FxNext, WbufGnt
<1>3. /\ \A i \in WbufRdGnt : /\ i \in head /\ "wbuf_not_ready" \notin deps[i]
                              /\ "wbuf_hit" \in deps[i] \/ selArb = {0}
      /\ \A i \in WbufWrGnt : /\ i \in head /\ "wbuf_hit" \notin deps[i]
                              /\ "wbuf_not_ready" \in deps[i] \/ selArb = {1}
      /\ WbufGnt \in {{}, {0}, {1}}
      /\ selArb # {} => WbufGnt = selArb
      /\ 0 \in WbufGnt => WbufRdGnt # {}
      /\ 1 \in WbufGnt => WbufWrGnt # {}
  BY WbufGrants
<1>4. /\ rdArb \in RrState /\ wrArb \in RrState
      /\ WbufRdPending \in SUBSET Entries /\ WbufWrPending \in SUBSET Entries
  BY DEF IInv, TypeOK, WbufRdPending, WbufWrPending
<1>5. /\ rdArb'.wait => ~(0 \in WbufGnt /\ rdy) /\ WbufRdGnt = {rdArb'.gnt}
      /\ ~(0 \in WbufGnt /\ rdy) /\ WbufRdGnt # {} => rdArb'.wait
  BY <1>2, <1>4, RrStep DEF WbufRdGnt
<1>6. /\ wrArb'.wait => ~(1 \in WbufGnt /\ rdy) /\ WbufWrGnt = {wrArb'.gnt}
      /\ ~(1 \in WbufGnt /\ rdy) /\ WbufWrGnt # {} => wrArb'.wait
  BY <1>2, <1>4, RrStep DEF WbufWrGnt
<1>7. \A i \in Popped(in) : i \in WbufRdGnt \cup WbufWrGnt => rdy
  BY DEF WbufReady
<1> HIDE DEF rdy
<1>8. ASSUME rdArb'.wait
      PROVE  /\ rdArb'.gnt \in head' /\ "wbuf_not_ready" \notin deps'[rdArb'.gnt]
             /\ "wbuf_hit" \in deps'[rdArb'.gnt] \/ selArb' = {0}
  <2> DEFINE i == rdArb'.gnt
  <2>1. i \in WbufRdGnt /\ ~(0 \in WbufGnt /\ rdy)
    BY <1>5, <1>8
  <2> HIDE DEF i
  <2>2. i \notin Popped(in)
    BY <1>1, <1>3, <1>7, <2>1
  <2>3. /\ i \in head' /\ deps'[i] = deps[i] \ DepsRst(in, i)
    BY <1>1, <1>3, <2>1, <2>2
  <2>4. "wbuf_not_ready" \notin deps'[i]
    BY <1>3, <2>1, <2>3
  <2>5. ASSUME "wbuf_hit" \notin deps'[i] PROVE 0 \in WbufGnt
    <3>1. CASE selArb = {0}
      BY <1>3, <3>1
    <3>2. CASE selArb # {0}
      <4>1. "wbuf_hit" \in deps[i] /\ "wbuf_hit" \in DepsRst(in, i)
        BY <1>3, <2>1, <2>3, <2>5, <3>2
      <4>2. i \in WbufSel
        BY <4>1 DEF DepsRst
      <4> QED
        BY <1>3, <4>1, <4>2 DEF WbufSel
    <3> QED
      BY <3>1, <3>2
  <2>6. "wbuf_hit" \in deps'[i] \/ selArb' = {0}
    BY <1>2, <1>3, <2>1, <2>5
  <2> QED
    BY <2>3, <2>4, <2>6 DEF i
<1>9. ASSUME wrArb'.wait
      PROVE  /\ wrArb'.gnt \in head' /\ "wbuf_hit" \notin deps'[wrArb'.gnt]
             /\ "wbuf_not_ready" \in deps'[wrArb'.gnt] \/ selArb' = {1}
  <2> DEFINE i == wrArb'.gnt
  <2>1. i \in WbufWrGnt /\ ~(1 \in WbufGnt /\ rdy)
    BY <1>6, <1>9
  <2> HIDE DEF i
  <2>2. i \notin Popped(in)
    BY <1>1, <1>3, <1>7, <2>1
  <2>3. /\ i \in head' /\ deps'[i] = deps[i] \ DepsRst(in, i)
    BY <1>1, <1>3, <2>1, <2>2
  <2>4. "wbuf_hit" \notin deps'[i]
    BY <1>3, <2>1, <2>3
  <2>5. ASSUME "wbuf_not_ready" \notin deps'[i] PROVE 1 \in WbufGnt
    <3>1. CASE selArb = {1}
      BY <1>3, <3>1
    <3>2. CASE selArb # {1}
      <4>1. "wbuf_not_ready" \in deps[i] /\ "wbuf_not_ready" \in DepsRst(in, i)
        BY <1>3, <2>1, <2>3, <2>5, <3>2
      <4>2. i \in WbufSel
        BY <4>1 DEF DepsRst
      <4> QED
        BY <1>3, <4>1, <4>2 DEF WbufSel
    <3> QED
      BY <3>1, <3>2
  <2>6. "wbuf_not_ready" \in deps'[i] \/ selArb' = {1}
    BY <1>2, <1>3, <2>1, <2>5
  <2> QED
    BY <2>3, <2>4, <2>6 DEF i
<1>10. selArb' \in {{}, {0}, {1}} /\ (0 \in selArb' => rdArb'.wait) /\ (1 \in selArb' => wrArb'.wait)
  BY <1>2, <1>3, <1>5, <1>6
<1> QED
  BY <1>8, <1>9, <1>10

\* No entry comes to wait for both answers of the write buffer.
LEMMA MoveReasons ==
  ASSUME IInv, GrantInv, ~(EccEn /\ WbEn), NEW u \in Units, NEW o, NEW w \in Way,
         NEW pop \in BOOLEAN, NEW pulse, NEW failed, Move(o, w, u, pop, pulse, failed)
  PROVE  \A i \in Entries : "wbuf_hit" \in deps'[i] => "wbuf_not_ready" \notin deps'[i]
<1>1. \A i \in Entries : deps'[i] \subseteq deps[i] \/ deps'[i] = o.deps
  BY HeadStays
<1>2. o \in Outcomes(u) /\ TypeOK
  BY DEF Move, IInv
<1>3. "wbuf_hit" \in o.deps => "wbuf_not_ready" \notin o.deps
  BY <1>2, OneWbufReason
<1>4. \A i \in Entries : "wbuf_hit" \in deps[i] => "wbuf_not_ready" \notin deps[i]
  BY DEF GrantInv
<1> QED
  BY <1>1, <1>3, <1>4

\* No arbiter holds a grant after reset.
LEMMA InitGrantInv == Init => GrantInv
<1> SUFFICES ASSUME Init PROVE GrantInv
  OBVIOUS
<1>1. /\ ~fullArb.wait /\ ~dirArb.wait /\ ~rdArb.wait /\ ~wrArb.wait /\ selArb = {}
      /\ \A i \in Entries : deps[i] = {}
  BY DEF Init, RtabInit, RrReset, FxReset
<1> QED
  BY <1>1 DEF GrantInv

\* Every cycle preserves GrantInv.
LEMMA NextGrantInv ==
  ASSUME IInv, GrantInv, ~(EccEn /\ WbEn), [Next]_vars
  PROVE  GrantInv'
<1>1. CASE Next
  <2>1. PICK u \in Units, w \in Way, pop \in BOOLEAN, pulse \in BOOLEAN, failed \in BOOLEAN :
          \E o : Move(o, w, u, pop, pulse, failed)
    BY <1>1, NextMoves DEF SomeMove
  <2>2. PICK o : Move(o, w, u, pop, pulse, failed)
    BY <2>1
  <2>3. /\ fullArb'.wait => fullArb'.gnt \in valid' /\ "mshr_full" \in deps'[fullArb'.gnt]
        /\ dirArb'.wait => dirArb'.gnt \in valid' /\ "dir_unavailable" \in deps'[dirArb'.gnt]
    BY <2>2, MoveWakers
  <2>4. /\ rdArb'.wait => /\ rdArb'.gnt \in head' /\ "wbuf_not_ready" \notin deps'[rdArb'.gnt]
                          /\ "wbuf_hit" \in deps'[rdArb'.gnt] \/ selArb' = {0}
        /\ wrArb'.wait => /\ wrArb'.gnt \in head' /\ "wbuf_hit" \notin deps'[wrArb'.gnt]
                          /\ "wbuf_not_ready" \in deps'[wrArb'.gnt] \/ selArb' = {1}
        /\ selArb' \in {{}, {0}, {1}}
        /\ 0 \in selArb' => rdArb'.wait
        /\ 1 \in selArb' => wrArb'.wait
    BY <2>2, MoveWbuf
  <2>5. \A i \in Entries : "wbuf_hit" \in deps'[i] => "wbuf_not_ready" \notin deps'[i]
    BY <2>2, MoveReasons
  <2> QED
    BY <2>3, <2>4, <2>5 DEF GrantInv
<1>2. CASE UNCHANGED vars
  <2>1. UNCHANGED <<valid, head, deps, fullArb, dirArb, rdArb, wrArb, selArb>>
    BY <1>2 DEF vars, rtab, lists, arbs
  <2> QED
    BY <2>1 DEF GrantInv
<1> QED
  BY <1>1, <1>2

(* Grants that the arbiters hold from one cycle to the next stay           *)
(* meaningful, whatever is held, rolled back or woken in between: the      *)
(* entry offered for replay is still ready, the ones to be woken still     *)
(* wait, and the one the write buffer is asked about is still held.        *)
THEOREM GrantsHeld ==
  ASSUME ~(EccEn /\ WbEn)
  PROVE  Spec => []GrantsValid
<1>1. IInv /\ GrantInv => GrantsValid
  BY DEF IInv, DepInv, GrantInv, GrantsValid
<1>2. IInv /\ GrantInv /\ [Next]_vars => GrantInv'
  BY NextGrantInv
<1> QED
  BY Invariant, InitGrantInv, <1>1, <1>2, PTL DEF Spec
=============================================================================
