----------------------------- MODULE WbufProofs -----------------------------
(***************************************************************************)
(* Theorems about the write buffer for every number of directory entries   *)
(* and data buffers, every set of blocks, bytes and values, and every      *)
(* sequence of configurations; then about the buffer and the memory behind *)
(* it: transaction identifiers, the pairing of the address and data        *)
(* channels, and the coherence of the accepted writes.                     *)
(***************************************************************************)
EXTENDS Wbuf, ArbiterTheorems, SequenceTheorems, TLAPS

Meta == [tag : Tag, id : Dir]
SendD == [tag : Tag, ptr : Data]

----------------------------------------------------------------------------
(* FIFO operators                                                          *)

\* A FIFO hands over nothing, or one of its items.
LEMMA FifoOutType ==
  ASSUME NEW S, NEW q \in Seq(S), NEW r
  PROVE  FifoOut(q, r) \in SUBSET S
  BY HeadTailProperties DEF FifoOut

\* A FIFO that is offered at most one item of a type keeps its type.
LEMMA FifoPushType ==
  ASSUME NEW S, NEW q \in Seq(S), NEW w \in SUBSET S
  PROVE  FifoPush(q, w) \in Seq(S)
<1>1. CASE w = {}
  BY <1>1 DEF FifoPush
<1>2. CASE w # {}
  <2>1. (CHOOSE x \in w : TRUE) \in S
    BY <1>2
  <2> QED
    BY <1>2, <2>1, AppendProperties DEF FifoPush
<1> QED
  BY <1>1, <1>2

\* The next contents of a FIFO have the type of its items.
LEMMA FifoNextType ==
  ASSUME NEW S, NEW q \in Seq(S), NEW r, NEW w \in SUBSET S
  PROVE  FifoNext(q, r, w) \in Seq(S)
<1>1. FifoPop(q, r) \in Seq(S)
  BY HeadTailProperties DEF FifoPop
<1> QED
  BY <1>1, FifoPushType DEF FifoNext

----------------------------------------------------------------------------
(* Combinational signals                                                   *)

\* A merge with enabled bytes keeps the bytes' type.
LEMMA MergeType ==
  ASSUME NEW old \in Bytes, NEW new \in Bytes
  PROVE  Merge(old, new) \in Bytes
  BY DEF Merge, Bytes

\* A merge into memory leaves a value in every byte.
LEMMA MergeMemType ==
  ASSUME NEW old \in [Byte -> Val], NEW new \in Bytes
  PROVE  Merge(old, new) \in [Byte -> Val]
  BY DEF Merge, Bytes

(* The allocation: when a write takes a new entry, the two arbiters grant  *)
(* exactly one free entry and exactly one free buffer.                     *)
LEMMA GrantsOnAllocation ==
  ASSUME TypeOK, HeldGrantsValid, NEW r \in Reqs, Allocates(r)
  PROVE  /\ \E i \in InState("FREE") : DirGrant = {i}
         /\ \E p \in FreeData : DataGrant = {p}
<1>1. InState("FREE") # {} /\ FreeData # {}
  BY DEF Allocates, WriteFree
<1>2. InState("FREE") \in SUBSET Nat /\ FreeData \in SUBSET Nat
  BY SizeAssumption DEF InState, FreeData, Dir, Data
<1>3. dirArb = {} \/ \E h \in InState("FREE") : dirArb = {h}
  BY DEF TypeOK, HeldGrantsValid
<1>4. dataArb = {} \/ \E h \in FreeData : dataArb = {h}
  BY DEF TypeOK, HeldGrantsValid
<1>5. \E i \in InState("FREE") : DirGrant = {i}
  BY <1>1, <1>2, <1>3, FxGrantOneHot DEF DirGrant
<1>6. \E p \in FreeData : DataGrant = {p}
  BY <1>1, <1>2, <1>4, FxGrantOneHot DEF DataGrant
<1> QED
  BY <1>5, <1>6

\* At most one entry is sent in a cycle, and it is PEND.
LEMMA SendsOnePend ==
  ASSUME TypeOK, HeldGrantsValid
  PROVE  Sends = {} \/ \E i \in InState("PEND") : Sends = {i}
<1>1. CASE InState("PEND") = {}
  <2>1. ~pendArb.wait
    BY <1>1 DEF HeldGrantsValid
  <2>2. RrSelect(pendArb, DirN, {}) = {}
    BY DEF RrSelect, RrMasked, Lowest
  <2> QED
    BY <1>1, <2>1, <2>2 DEF Sends, Granted, RrGrant
<1>2. CASE InState("PEND") # {}
  <2>1. InState("PEND") \in SUBSET (0 .. DirN - 1)
    BY DEF InState, Dir
  <2>2. pendArb \in [gnt : 0 .. DirN - 1, wait : BOOLEAN]
    BY DEF TypeOK, Dir
  <2>3. \E i \in InState("PEND") : Granted = {i}
    BY <1>2, <2>1, <2>2, SizeAssumption, RrGrantOneHot DEF Granted, HeldGrantsValid
  <2> QED
    BY <2>3 DEF Sends
<1> QED
  BY <1>1, <1>2

----------------------------------------------------------------------------
(* The type invariant and the held grants                                  *)

\* What one clock cycle does to one directory entry has the type of an entry.
LEMMA EntryNextType ==
  ASSUME TypeOK, HeldGrantsValid, NEW r \in Reqs, NEW flushAll \in BOOLEAN,
         NEW ack, NEW i \in Dir
  PROVE  EntryNext(i, r, flushAll, ack) \in Entry
<1> USE DEF Entry
<1>1. dir[i] \in Entry
  BY DEF TypeOK
<1>2. cfg \in Cfg /\ CntMod \in Nat \ {0}
  BY CfgAssumption, SizeAssumption DEF TypeOK
<1>3. CASE dir[i].state = "FREE"
  <2>1. CASE Allocates(r) /\ i \in DirGrant
    <3>1. r.tag \in Tag
      BY <2>1 DEF Allocates, IsWrite, Reqs, NoReq
    <3>2. (CHOOSE p \in DataGrant : TRUE) \in Data
      BY <2>1, GrantsOnAllocation DEF FreeData
    <3>3. 0 \in 0 .. CntMod - 1
      BY <1>2
    <3> QED
      BY <1>3, <2>1, <3>1, <3>2, <3>3 DEF EntryNext, FreeNext
  <2>2. CASE ~(Allocates(r) /\ i \in DirGrant)
    BY <1>1, <1>3, <2>2 DEF EntryNext, FreeNext
  <2> QED
    BY <2>1, <2>2
<1>4. CASE dir[i].state = "OPEN"
  <2>1. \A c \in 0 .. CntMod - 1 : (c + 1) % CntMod \in 0 .. CntMod - 1
    BY <1>2
  <2>2. 0 \in 0 .. CntMod - 1
    BY <1>2
  <2> QED
    BY <1>1, <1>4, <2>1, <2>2 DEF EntryNext, OpenNext
<1>5. CASE dir[i].state = "PEND"
  BY <1>1, <1>5 DEF EntryNext, PendNext
<1>6. CASE dir[i].state = "SENT"
  BY <1>1, <1>6 DEF EntryNext, SentNext
<1> QED
  BY <1>1, <1>3, <1>4, <1>5, <1>6

\* A clock cycle preserves the type invariant.
LEMMA ClockType ==
  ASSUME TypeOK, HeldGrantsValid, NEW r \in Reqs,
         NEW flushAll \in BOOLEAN, NEW awReady \in BOOLEAN, NEW wReady \in BOOLEAN,
         NEW ack \in Acks, Clock(r, flushAll, awReady, wReady, ack)
  PROVE  TypeOK'
<1>1. dir' \in [Dir -> Entry]
  BY EntryNextType DEF Clock
<1>2. dataValid' \in SUBSET Data
  <2>1. Allocates(r) => DataGrant \subseteq Data
    BY GrantsOnAllocation DEF FreeData
  <2> QED
    BY <2>1 DEF Clock, DataValidNext, TypeOK
<1>3. data' \in [Data -> Bytes]
  <2>1. IsWrite(r) => r.data \in Bytes
    BY ByteAssumption DEF IsWrite, Reqs, NoReq
  <2>2. NoBytes \in Bytes
    BY DEF NoBytes, Bytes
  <2>3. \A p \in Data : data[p] \in Bytes
    BY DEF TypeOK
  <2> QED
    BY <2>1, <2>2, <2>3, MergeType DEF Clock, DataNext, Allocates
<1>4. \A i \in Sends : i \in Dir /\ dir[i] \in Entry
  BY SendsOnePend DEF InState, TypeOK
<1>5. sendMeta' \in Seq(Meta)
  <2>1. {[tag |-> dir[i].tag, id |-> i] : i \in Sends} \in SUBSET Meta
    BY <1>4 DEF Meta, Entry
  <2>2. sendMeta \in Seq(Meta)
    BY DEF TypeOK, Meta
  <2> QED
    BY <2>1, <2>2, FifoNextType DEF Clock, MetaNext
<1>6. sendData' \in Seq(SendD)
  <2>1. {[tag |-> dir[i].tag, ptr |-> dir[i].ptr] : i \in Sends} \in SUBSET SendD
    BY <1>4 DEF SendD, Entry
  <2>2. sendData \in Seq(SendD)
    BY DEF TypeOK, SendD
  <2> QED
    BY <2>1, <2>2, FifoNextType DEF Clock, SendDataNext
<1>7. dirArb' \in {{}} \cup {{i} : i \in Dir}
  <2>1. CASE Allocates(r)
    BY <2>1 DEF Clock, FxNext
  <2>2. CASE ~Allocates(r) /\ dirArb # {}
    BY <2>2 DEF Clock, FxNext, FxGrant, TypeOK
  <2>3. CASE ~Allocates(r) /\ dirArb = {}
    <3>1. dirArb' = Lowest(InState("FREE"))
      BY <2>3 DEF Clock, FxNext, FxGrant
    <3>2. InState("FREE") \in SUBSET Nat /\ InState("FREE") \subseteq Dir
      BY DEF InState, Dir
    <3>3. CASE InState("FREE") = {}
      BY <3>1, <3>3, LowestSubset
    <3>4. CASE InState("FREE") # {}
      BY <3>1, <3>2, <3>4, LowestOneHot
    <3> QED
      BY <3>3, <3>4
  <2> QED
    BY <2>1, <2>2, <2>3
<1>8. dataArb' \in {{}} \cup {{p} : p \in Data}
  <2>1. CASE Allocates(r)
    BY <2>1 DEF Clock, FxNext
  <2>2. CASE ~Allocates(r) /\ dataArb # {}
    BY <2>2 DEF Clock, FxNext, FxGrant, TypeOK
  <2>3. CASE ~Allocates(r) /\ dataArb = {}
    <3>1. dataArb' = Lowest(FreeData)
      BY <2>3 DEF Clock, FxNext, FxGrant
    <3>2. FreeData \in SUBSET Nat /\ FreeData \subseteq Data
      BY DEF FreeData, Data
    <3>3. CASE FreeData = {}
      BY <3>1, <3>3, LowestSubset
    <3>4. CASE FreeData # {}
      BY <3>1, <3>2, <3>4, LowestOneHot
    <3> QED
      BY <3>3, <3>4
  <2> QED
    BY <2>1, <2>2, <2>3
<1>9. pendArb' \in [gnt : Dir, wait : BOOLEAN]
  <2>1. pendArb' = RrNext(pendArb, DirN, InState("PEND"), SendReady)
    BY DEF Clock
  <2>2. CASE InState("PEND") = {}
    BY <2>1, <2>2 DEF RrNext, TypeOK
  <2>3. CASE InState("PEND") # {}
    <3>1. pendArb' \in [gnt : InState("PEND"), wait : BOOLEAN]
      BY <2>1, <2>3, SizeAssumption, RrHolds
         DEF InState, Dir, TypeOK, HeldGrantsValid, SendReady
    <3> QED
      BY <3>1 DEF InState
  <2> QED
    BY <2>2, <2>3
<1>10. memAw' \in Seq(Meta)
  <2>1. AwOut(awReady) \in SUBSET Meta
    BY FifoOutType DEF AwOut, TypeOK, Meta
  <2> QED
    BY <2>1, FifoPushType DEF Clock, MemAwNext, TypeOK, Meta
<1>11. memW' \in Seq(Bytes)
  <2>1. WOut(wReady) \in SUBSET SendD
    BY FifoOutType DEF WOut, TypeOK, SendD
  <2>2. {data[d.ptr] : d \in WOut(wReady)} \in SUBSET Bytes
    BY <2>1 DEF SendD, TypeOK
  <2> QED
    BY <2>2, FifoPushType DEF Clock, MemWNext, TypeOK
<1>12. resp' \in SUBSET Dir /\ mem' \in [Tag -> [Byte -> Val]] /\ cfg' \in Cfgs
  BY DEF Clock, TypeOK
<1>13. golden' \in [Tag -> [Byte -> Val]]
  <2>1. CASE IsWrite(r) /\ WriteReady(r.tag)
    <3>1. r.tag \in Tag /\ r.data \in Bytes
      BY <2>1, ByteAssumption DEF IsWrite, Reqs, NoReq
    <3> QED
      BY <2>1, <3>1, MergeMemType DEF Clock, GoldenNext, TypeOK
  <2>2. CASE ~(IsWrite(r) /\ WriteReady(r.tag))
    BY <2>2 DEF Clock, GoldenNext, TypeOK
  <2> QED
    BY <2>1, <2>2
<1> QED
  BY <1>1, <1>2, <1>3, <1>5, <1>6, <1>7, <1>8, <1>9, <1>10, <1>11, <1>12, <1>13
     DEF TypeOK, Meta, SendD

(* Each state is left in one way only; what the other proofs need of       *)
(* EntryNext.                                                              *)
LEMMA EntryNextCases ==
  ASSUME TypeOK, NEW r \in Reqs, NEW flushAll \in BOOLEAN, NEW ack, NEW i \in Dir,
         NEW e, e = EntryNext(i, r, flushAll, ack)
  PROVE  /\ dir[i].state = "FREE" /\ ~(Allocates(r) /\ i \in DirGrant) => e = dir[i]
         /\ dir[i].state = "FREE" /\ Allocates(r) /\ i \in DirGrant
              => /\ e.state \in {"OPEN", "PEND"}
                 /\ e.tag = r.tag
                 /\ e.ptr = CHOOSE p \in DataGrant : TRUE
         /\ dir[i].state = "OPEN"
              => e.state \in {"OPEN", "PEND"} /\ e.tag = dir[i].tag /\ e.ptr = dir[i].ptr
         /\ dir[i].state = "PEND"
              => /\ e.state = IF i \in Sends THEN "SENT" ELSE "PEND"
                 /\ e.tag = dir[i].tag /\ e.ptr = dir[i].ptr
         /\ dir[i].state = "SENT"
              => /\ e.state = IF i \in ack THEN "FREE" ELSE "SENT"
                 /\ e.tag = dir[i].tag /\ e.ptr = dir[i].ptr
<1>1. dir[i] \in Entry
  BY DEF TypeOK
<1>2. CASE dir[i].state = "FREE"
  BY <1>1, <1>2 DEF EntryNext, FreeNext, Entry
<1>3. CASE dir[i].state = "OPEN"
  BY <1>1, <1>3 DEF EntryNext, OpenNext, Entry
<1>4. CASE dir[i].state = "PEND"
  BY <1>1, <1>4 DEF EntryNext, PendNext, Entry
<1>5. CASE dir[i].state = "SENT"
  BY <1>1, <1>5 DEF EntryNext, SentNext, Entry
<1> QED
  BY <1>1, <1>2, <1>3, <1>4, <1>5 DEF Entry

(* The entries that gather writes after a cycle: those that did and were   *)
(* not sent, and the one allocated.                                        *)
LEMMA ActiveNext ==
  ASSUME TypeOK, HeldGrantsValid, NEW r \in Reqs,
         NEW flushAll \in BOOLEAN, NEW awReady \in BOOLEAN, NEW wReady \in BOOLEAN,
         NEW ack \in Acks, Clock(r, flushAll, awReady, wReady, ack),
         NEW i \in Active'
  PROVE  /\ i \in Dir
         /\ \/ /\ i \in Active /\ i \notin Sends
               /\ dir'[i].tag = dir[i].tag /\ dir'[i].ptr = dir[i].ptr
            \/ /\ Allocates(r) /\ i \notin Active /\ DirGrant = {i}
               /\ dir'[i].tag = r.tag
               /\ dir'[i].ptr \in FreeData /\ DataGrant = {dir'[i].ptr}
<1>1. i \in Dir /\ dir'[i].state \in {"OPEN", "PEND"}
  BY DEF Active, InState
<1>2. dir'[i] = EntryNext(i, r, flushAll, ack)
  BY <1>1 DEF Clock
<1>3. dir[i].state \in {"FREE", "OPEN", "PEND", "SENT"}
  BY <1>1 DEF TypeOK, Entry
<1>4. Sends \subseteq InState("PEND")
  BY SendsOnePend
<1>5. CASE dir[i].state = "FREE"
  <2>1. Allocates(r) /\ i \in DirGrant
    BY <1>1, <1>2, <1>5, EntryNextCases
  <2>2. PICK j \in InState("FREE"), p \in FreeData : DirGrant = {j} /\ DataGrant = {p}
    BY <2>1, GrantsOnAllocation
  <2>3. i \notin Active
    BY <1>5 DEF Active, InState
  <2>4. dir'[i].tag = r.tag /\ dir'[i].ptr = CHOOSE x \in DataGrant : TRUE
    BY <1>1, <1>2, <1>5, <2>1, EntryNextCases
  <2>5. dir'[i].ptr = p
    BY <2>2, <2>4
  <2> QED
    BY <1>1, <2>1, <2>2, <2>3, <2>4, <2>5
<1>6. CASE dir[i].state = "OPEN"
  <2>1. i \in Active /\ i \notin Sends
    BY <1>1, <1>4, <1>6 DEF Active, InState
  <2>2. dir'[i].tag = dir[i].tag /\ dir'[i].ptr = dir[i].ptr
    BY <1>1, <1>2, <1>6, EntryNextCases
  <2> QED
    BY <1>1, <2>1, <2>2
<1>7. CASE dir[i].state = "PEND"
  <2>1. i \in Active
    BY <1>1, <1>7 DEF Active, InState
  <2>2. i \notin Sends /\ dir'[i].tag = dir[i].tag /\ dir'[i].ptr = dir[i].ptr
    BY <1>1, <1>2, <1>7, EntryNextCases
  <2> QED
    BY <1>1, <2>1, <2>2
<1>8. CASE dir[i].state = "SENT"
  BY <1>1, <1>2, <1>8, EntryNextCases
<1> QED
  BY <1>3, <1>5, <1>6, <1>7, <1>8

\* A clock cycle keeps the entries that gather writes on different blocks.
LEMMA ClockOneActive ==
  ASSUME TypeOK, HeldGrantsValid, OneActiveEntryPerTag, NEW r \in Reqs,
         NEW flushAll \in BOOLEAN, NEW awReady \in BOOLEAN, NEW wReady \in BOOLEAN,
         NEW ack \in Acks, Clock(r, flushAll, awReady, wReady, ack)
  PROVE  OneActiveEntryPerTag'
<1> SUFFICES ASSUME NEW i \in Active', NEW j \in Active', dir'[i].tag = dir'[j].tag
             PROVE  i = j
  BY DEF OneActiveEntryPerTag
<1>1. Allocates(r) => \A k \in Active : dir[k].tag # r.tag
  BY DEF Allocates, WriteFree, Hit, Active, InState
<1>2. CASE i \in Active /\ j \in Active
  BY <1>2, ActiveNext DEF OneActiveEntryPerTag
<1>3. CASE i \notin Active /\ j \notin Active
  BY <1>3, ActiveNext
<1>4. CASE i \in Active /\ j \notin Active
  BY <1>1, <1>4, ActiveNext
<1>5. CASE i \notin Active /\ j \in Active
  BY <1>1, <1>5, ActiveNext
<1> QED
  BY <1>2, <1>3, <1>4, <1>5

\* A clock cycle keeps the held grants valid.
LEMMA ClockHeldGrants ==
  ASSUME TypeOK, HeldGrantsValid, NEW r \in Reqs,
         NEW flushAll \in BOOLEAN, NEW awReady \in BOOLEAN, NEW wReady \in BOOLEAN,
         NEW ack \in Acks, Clock(r, flushAll, awReady, wReady, ack)
  PROVE  HeldGrantsValid'
<1>1. dirArb' \subseteq InState("FREE")'
  <2> SUFFICES ASSUME NEW i \in dirArb' PROVE i \in InState("FREE")'
    OBVIOUS
  <2>1. ~Allocates(r) /\ i \in FxGrant(dirArb, InState("FREE"))
    BY DEF Clock, FxNext
  <2>2. i \in InState("FREE")
    BY <2>1, LowestSubset DEF FxGrant, HeldGrantsValid
  <2>3. i \in Dir /\ dir[i].state = "FREE"
    BY <2>2 DEF InState
  <2>4. dir'[i] = EntryNext(i, r, flushAll, ack)
    BY <2>3 DEF Clock
  <2>5. dir'[i] = dir[i]
    BY <2>1, <2>3, <2>4, EntryNextCases
  <2> QED
    BY <2>3, <2>5 DEF InState
<1>2. dataArb' \subseteq FreeData'
  <2> SUFFICES ASSUME NEW p \in dataArb' PROVE p \in FreeData'
    OBVIOUS
  <2>1. ~Allocates(r) /\ p \in FxGrant(dataArb, FreeData)
    BY DEF Clock, FxNext
  <2>2. p \in FreeData
    BY <2>1, LowestSubset DEF FxGrant, HeldGrantsValid
  <2>3. dataValid' \subseteq dataValid
    BY <2>1 DEF Clock, DataValidNext
  <2> QED
    BY <2>2, <2>3 DEF FreeData
<1>3. pendArb'.wait => pendArb'.gnt \in InState("PEND")'
  <2> SUFFICES ASSUME pendArb'.wait PROVE pendArb'.gnt \in InState("PEND")'
    OBVIOUS
  <2>1. pendArb' = RrNext(pendArb, DirN, InState("PEND"), SendReady)
    BY DEF Clock
  <2>2. CASE InState("PEND") = {}
    BY <2>1, <2>2 DEF RrNext, HeldGrantsValid
  <2>3. CASE InState("PEND") # {}
    <3>1. pendArb'.gnt \in InState("PEND") /\ pendArb'.wait = ~SendReady
      BY <2>1, <2>3, SizeAssumption, RrHolds
         DEF InState, Dir, TypeOK, HeldGrantsValid, SendReady
    <3>2. Sends = {}
      BY <3>1 DEF Sends
    <3>3. PICK i \in Dir : i = pendArb'.gnt /\ dir[i].state = "PEND"
      BY <3>1 DEF InState
    <3>4. dir'[i] = EntryNext(i, r, flushAll, ack)
      BY DEF Clock
    <3>5. dir'[i].state = "PEND"
      BY <3>2, <3>3, <3>4, EntryNextCases
    <3> QED
      BY <3>3, <3>5 DEF InState
  <2> QED
    BY <2>2, <2>3
<1> QED
  BY <1>1, <1>2, <1>3 DEF HeldGrantsValid

----------------------------------------------------------------------------
(* Ownership of the data buffers                                           *)

\* The number of items that leave a FIFO in a cycle.
Popped(q, r) == IF r /\ q # <<>> THEN 1 ELSE 0

\* The items of a FIFO after a cycle: those not handed over, then the new one.
ItemsAfter(q, r, w, S) ==
  LET d == Popped(q, r)
  IN  /\ Len(q) - d \in Nat
      /\ DOMAIN FifoNext(q, r, w) = 1 .. (Len(q) - d + (IF w = {} THEN 0 ELSE 1))
      /\ \A k \in 1 .. Len(q) - d : FifoNext(q, r, w)[k] = q[k + d]
      /\ \A x \in S : w = {x} => FifoNext(q, r, w)[Len(q) - d + 1] = x
      /\ d = 1 => FifoOut(q, r) = {q[1]}
      /\ d = 0 => FifoOut(q, r) = {}

\* What FifoNext makes of a FIFO, item by item.
LEMMA FifoNextItems ==
  ASSUME NEW S, NEW q \in Seq(S), NEW r \in BOOLEAN, NEW w \in SUBSET S,
         w = {} \/ \E x \in S : w = {x}
  PROVE  ItemsAfter(q, r, w, S)
<1> DEFINE d == Popped(q, r)
<1> USE DEF Popped
<1> DEFINE p == FifoPop(q, r)
<1>0. Len(q) \in Nat /\ (q # <<>> => Len(q) > 0)
  BY LenProperties, EmptySeq
<1>1. p \in Seq(S) /\ Len(p) = Len(q) - d /\ \A k \in 1 .. Len(q) - d : p[k] = q[k + d]
  <2>1. CASE r /\ q # <<>>
    BY <2>1, <1>0, HeadTailProperties DEF FifoPop
  <2>2. CASE ~(r /\ q # <<>>)
    BY <2>2, <1>0 DEF FifoPop
  <2> QED
    BY <2>1, <2>2
<1>2. Len(q) - d \in Nat
  BY <1>0
<1>3. FifoNext(q, r, w) = FifoPush(p, w)
  BY DEF FifoNext
<1> HIDE DEF p
<1>4. CASE w = {}
  <2>1. FifoNext(q, r, w) = p
    BY <1>3, <1>4 DEF FifoPush
  <2>2. DOMAIN p = 1 .. Len(q) - d
    BY <1>1, LenProperties
  <2> QED
    BY <1>0, <1>1, <1>2, <1>4, <2>1, <2>2 DEF FifoOut, ItemsAfter
<1>5. ASSUME NEW x \in S, w = {x}
      PROVE  /\ DOMAIN FifoNext(q, r, w) = 1 .. (Len(q) - d + 1)
             /\ \A k \in 1 .. Len(q) - d : FifoNext(q, r, w)[k] = q[k + d]
             /\ FifoNext(q, r, w)[Len(q) - d + 1] = x
  <2>1. FifoNext(q, r, w) = Append(p, x)
    BY <1>3, <1>5 DEF FifoPush
  <2>2. Append(p, x) \in Seq(S) /\ Len(Append(p, x)) = Len(q) - d + 1
    BY <1>1, AppendProperties
  <2>3. DOMAIN Append(p, x) = 1 .. Len(q) - d + 1
    BY <2>2, LenProperties
  <2>4. \A k \in 1 .. Len(p) : Append(p, x)[k] = p[k]
    BY <1>1, AppendProperties
  <2>5. Append(p, x)[Len(p) + 1] = x
    BY <1>1, AppendProperties
  <2> QED
    BY <1>1, <2>1, <2>3, <2>4, <2>5
<1>6. (d = 1 => FifoOut(q, r) = {q[1]}) /\ (d = 0 => FifoOut(q, r) = {})
  BY <1>0 DEF FifoOut
<1> QED
  BY <1>2, <1>4, <1>5, <1>6 DEF ItemsAfter

\* A clock cycle preserves the ownership of the data buffers.
LEMMA ClockOwnership ==
  ASSUME TypeOK, HeldGrantsValid, BufferOwnership, NEW r \in Reqs,
         NEW flushAll \in BOOLEAN, NEW awReady \in BOOLEAN, NEW wReady \in BOOLEAN,
         NEW ack \in Acks, Clock(r, flushAll, awReady, wReady, ack)
  PROVE  BufferOwnership'
<1> DEFINE d == Popped(sendData, wReady)
           w == {[tag |-> dir[i].tag, ptr |-> dir[i].ptr] : i \in Sends}
           L == Len(sendData)
<1>1. sendData \in Seq(SendD) /\ L \in Nat /\ DOMAIN sendData = 1 .. L
  BY LenProperties DEF TypeOK, SendD
<1>2. Sends = {} \/ \E i \in InState("PEND") : Sends = {i}
  BY SendsOnePend
<1>3. \A i \in Sends : i \in Active /\ i \in Dir /\ dir[i] \in Entry
  BY <1>2 DEF Active, InState, TypeOK
<1>4. w \in SUBSET SendD /\ (w = {} \/ \E x \in SendD : w = {x})
  <2>1. CASE Sends = {}
    BY <2>1
  <2>2. ASSUME NEW i \in InState("PEND"), Sends = {i}
        PROVE  w \in SUBSET SendD /\ \E x \in SendD : w = {x}
    <3>1. [tag |-> dir[i].tag, ptr |-> dir[i].ptr] \in SendD
      BY <1>3, <2>2 DEF SendD, Entry
    <3>2. w = {[tag |-> dir[i].tag, ptr |-> dir[i].ptr]}
      BY <2>2
    <3> QED
      BY <3>1, <3>2
  <2> QED
    BY <1>2, <2>1, <2>2
<1>5. sendData' = FifoNext(sendData, wReady, w)
  BY DEF Clock, SendDataNext
<1>6. d \in {0, 1}
  BY DEF Popped
<1>7. /\ L - d \in Nat
      /\ DOMAIN sendData' = 1 .. (L - d + (IF w = {} THEN 0 ELSE 1))
      /\ \A k \in 1 .. L - d : sendData'[k] = sendData[k + d]
      /\ \A x \in SendD : w = {x} => sendData'[L - d + 1] = x
      /\ d = 1 => FifoOut(sendData, wReady) = {sendData[1]}
      /\ d = 0 => FifoOut(sendData, wReady) = {}
  <2> HIDE DEF w
  <2>1. ItemsAfter(sendData, wReady, w, SendD)
    BY <1>1, <1>4, FifoNextItems
  <2> QED
    BY <1>5, <2>1 DEF ItemsAfter
<1>8. \A x \in w : \E i \in Sends : x.ptr = dir[i].ptr
  OBVIOUS
<1> HIDE DEF w, d
\* Where an item of the FIFO comes from.
<1>9. ASSUME NEW k \in DOMAIN sendData'
      PROVE  \/ k \in 1 .. L - d /\ k + d \in DOMAIN sendData /\ sendData'[k] = sendData[k + d]
             \/ /\ k = L - d + 1
                /\ \E i \in Sends : Sends = {i} /\ sendData'[k].ptr = dir[i].ptr
  <2>1. CASE k \in 1 .. L - d
    BY <1>1, <1>6, <1>7, <2>1
  <2>2. CASE k \notin 1 .. L - d
    <3>1. w # {} /\ k = L - d + 1
      BY <1>6, <1>7, <2>2
    <3>2. PICK x \in SendD : w = {x}
      BY <1>4, <3>1
    <3>3. sendData'[k] = x
      BY <1>7, <3>1, <3>2
    <3>4. PICK i \in Sends : x.ptr = dir[i].ptr
      BY <1>8, <3>2
    <3>5. Sends = {i}
      BY <1>2
    <3> QED
      BY <3>1, <3>3, <3>4, <3>5
  <2> QED
    BY <2>1, <2>2
\* The pointer freed in this cycle.
<1>10. dataValid' = (dataValid \cup (IF Allocates(r) THEN DataGrant ELSE {}))
                      \ (IF d = 1 THEN {sendData[1].ptr} ELSE {})
  BY <1>6, <1>7 DEF Clock, DataValidNext, WOut
<1>11. d = 1 => 1 \in DOMAIN sendData
  BY <1>1, <1>7
<1>12. \A i \in Active : dir[i].ptr \in dataValid
  BY DEF BufferOwnership
<1>13. \A k \in DOMAIN sendData : sendData[k].ptr \in dataValid
  BY DEF BufferOwnership
<1>14. \A k \in DOMAIN sendData' : sendData'[k].ptr \in dataValid
  BY <1>3, <1>9, <1>12, <1>13
<1>15. \A i, j \in Active' : dir'[i].ptr = dir'[j].ptr => i = j
  <2> SUFFICES ASSUME NEW i \in Active', NEW j \in Active', dir'[i].ptr = dir'[j].ptr
               PROVE  i = j
    OBVIOUS
  <2>1. CASE i \in Active /\ j \in Active
    BY <2>1, ActiveNext DEF BufferOwnership
  <2>2. CASE i \notin Active /\ j \notin Active
    BY <2>2, ActiveNext
  <2>3. CASE i \in Active /\ j \notin Active
    BY <2>3, <1>12, ActiveNext DEF FreeData
  <2>4. CASE i \notin Active /\ j \in Active
    BY <2>4, <1>12, ActiveNext DEF FreeData
  <2> QED
    BY <2>1, <2>2, <2>3, <2>4
<1>16. \A k, l \in DOMAIN sendData' : sendData'[k].ptr = sendData'[l].ptr => k = l
  <2> SUFFICES ASSUME NEW k \in DOMAIN sendData', NEW l \in DOMAIN sendData',
                      sendData'[k].ptr = sendData'[l].ptr
               PROVE  k = l
    OBVIOUS
  <2>1. CASE k \in 1 .. L - d /\ l \in 1 .. L - d
    <3>1. k + d \in DOMAIN sendData /\ l + d \in DOMAIN sendData
      BY <1>1, <1>6, <2>1
    <3>2. sendData[k + d].ptr = sendData[l + d].ptr
      BY <1>7, <2>1
    <3>3. k + d = l + d
      BY <3>1, <3>2 DEF BufferOwnership
    <3> QED
      BY <1>6, <2>1, <3>3
  <2>2. CASE k \notin 1 .. L - d /\ l \notin 1 .. L - d
    BY <1>9, <2>2
  <2>3. CASE k \in 1 .. L - d /\ l \notin 1 .. L - d
    BY <1>3, <1>9, <2>3 DEF BufferOwnership
  <2>4. CASE k \notin 1 .. L - d /\ l \in 1 .. L - d
    BY <1>3, <1>9, <2>4 DEF BufferOwnership
  <2> QED
    BY <2>1, <2>2, <2>3, <2>4
<1>17. \A i \in Active', k \in DOMAIN sendData' : dir'[i].ptr # sendData'[k].ptr
  <2> SUFFICES ASSUME NEW i \in Active', NEW k \in DOMAIN sendData'
               PROVE  dir'[i].ptr # sendData'[k].ptr
    OBVIOUS
  <2>1. CASE i \notin Active
    BY <1>14, <2>1, ActiveNext DEF FreeData
  <2>2. CASE i \in Active
    <3>1. i \notin Sends /\ dir'[i].ptr = dir[i].ptr
      BY <2>2, ActiveNext
    <3> QED
      BY <1>3, <1>9, <2>2, <3>1 DEF BufferOwnership
  <2> QED
    BY <2>1, <2>2
<1>18. \A i \in Active' : dir'[i].ptr \in dataValid'
  <2> SUFFICES ASSUME NEW i \in Active' PROVE dir'[i].ptr \in dataValid'
    OBVIOUS
  <2>1. CASE i \in Active
    BY <1>10, <1>11, <1>12, <2>1, ActiveNext DEF BufferOwnership
  <2>2. CASE i \notin Active
    BY <1>10, <1>11, <1>13, <2>2, ActiveNext DEF FreeData
  <2> QED
    BY <2>1, <2>2
<1>19. \A k \in DOMAIN sendData' : sendData'[k].ptr \in dataValid'
  <2> SUFFICES ASSUME NEW k \in DOMAIN sendData' PROVE sendData'[k].ptr \in dataValid'
    OBVIOUS
  <2>1. d = 1 => sendData'[k].ptr # sendData[1].ptr
    <3> SUFFICES ASSUME d = 1 PROVE sendData'[k].ptr # sendData[1].ptr
      OBVIOUS
    <3>1. CASE k \in 1 .. L - d
      <4>1. k + 1 \in DOMAIN sendData /\ k + 1 # 1 /\ sendData'[k] = sendData[k + 1]
        BY <1>1, <1>7, <3>1
      <4> QED
        BY <1>11, <4>1 DEF BufferOwnership
    <3>2. CASE k \notin 1 .. L - d
      BY <1>3, <1>9, <1>11, <3>2 DEF BufferOwnership
    <3> QED
      BY <3>1, <3>2
  <2> QED
    BY <1>10, <1>14, <2>1
\* No buffer is allocated without an owner.
<1>20. ASSUME NEW p \in dataValid'
       PROVE  \/ \E i \in Active' : p = dir'[i].ptr
              \/ \E k \in DOMAIN sendData' : p = sendData'[k].ptr
  <2>1. d = 1 => p # sendData[1].ptr
    BY <1>10
  <2>2. CASE Allocates(r) /\ p \in DataGrant
    <3>1. PICK i \in InState("FREE"), f \in FreeData : DirGrant = {i} /\ DataGrant = {f}
      BY <2>2, GrantsOnAllocation
    <3>2. i \in Dir /\ dir[i].state = "FREE" /\ dir'[i] = EntryNext(i, r, flushAll, ack)
      BY <3>1 DEF InState, Clock
    <3>3. dir'[i].state \in {"OPEN", "PEND"} /\ dir'[i].ptr = CHOOSE x \in DataGrant : TRUE
      BY <2>2, <3>1, <3>2, EntryNextCases
    <3>4. dir'[i].ptr = p
      BY <2>2, <3>1, <3>3
    <3> QED
      BY <3>2, <3>3, <3>4 DEF Active, InState
  <2>3. CASE p \in dataValid
    <3>1. CASE \E i \in Active : p = dir[i].ptr
      <4>1. PICK i \in Active : p = dir[i].ptr
        BY <3>1
      <4>2. i \in Dir /\ dir[i].state \in {"OPEN", "PEND"}
            /\ dir'[i] = EntryNext(i, r, flushAll, ack)
        BY DEF Active, InState, Clock
      <4>3. CASE i \in Sends
        <5>1. Sends = {i}
          BY <1>2, <4>3
        <5>2. w = {[tag |-> dir[i].tag, ptr |-> dir[i].ptr]}
          BY <5>1 DEF w
        <5>3. [tag |-> dir[i].tag, ptr |-> dir[i].ptr] \in SendD
          BY <1>4, <5>2
        <5>4. L - d + 1 \in DOMAIN sendData'
          <6>1. w # {}
            BY <5>2
          <6> HIDE DEF L
          <6> QED
            BY ONLY <1>7, <6>1
        <5>5. sendData'[L - d + 1] = [tag |-> dir[i].tag, ptr |-> dir[i].ptr]
          BY ONLY <1>7, <5>2, <5>3
        <5>6. sendData'[L - d + 1].ptr = p
          BY <4>1, <5>5
        <5> QED
          BY <5>4, <5>6
      <4>4. CASE i \notin Sends
        <5>1. dir'[i].state \in {"OPEN", "PEND"} /\ dir'[i].ptr = p
          BY <4>1, <4>2, <4>4, EntryNextCases
        <5> QED
          BY <4>2, <5>1 DEF Active, InState
      <4> QED
        BY <4>3, <4>4
    <3>2. CASE \E k \in DOMAIN sendData : p = sendData[k].ptr
      <4>1. PICK k \in DOMAIN sendData : p = sendData[k].ptr
        BY <3>2
      <4>2. k - d \in 1 .. L - d
        BY <1>1, <1>6, <2>1, <4>1
      <4>3. sendData'[k - d] = sendData[(k - d) + d]
        BY <1>7, <4>2
      <4>4. (k - d) + d = k
        BY <1>1, <1>6
      <4>5. k - d \in DOMAIN sendData'
        BY <1>6, <1>7, <4>2
      <4> QED
        BY <4>1, <4>3, <4>4, <4>5
    <3> QED
      BY <2>3, <3>1, <3>2 DEF BufferOwnership
  <2> QED
    BY <1>10, <2>2, <2>3
<1>21. dataValid' = {dir'[i].ptr : i \in Active'} \cup {sendData'[k].ptr : k \in DOMAIN sendData'}
  BY <1>18, <1>19, <1>20
<1> QED
  BY <1>15, <1>16, <1>17, <1>21 DEF BufferOwnership

----------------------------------------------------------------------------
(* The initial state, and the steps of software and of the memory          *)

\* Taking an item out of a sequence keeps its type.
LEMMA DropAtType ==
  ASSUME NEW S, NEW q \in Seq(S), NEW k \in Nat \ {0}, k <= Len(q)
  PROVE  DropAt(q, k) \in Seq(S)
<1>1. Len(q) \in Nat /\ \A i \in 1 .. Len(q) : q[i] \in S
  BY LenProperties, ElementOfSeq
<1>2. SubSeq(q, 1, k - 1) \in Seq(S)
  <2>1. k - 1 \in Int /\ \A i \in 1 .. k - 1 : q[i] \in S
    BY <1>1
  <2> QED
    BY <2>1, SubSeqProperties
<1>3. SubSeq(q, k + 1, Len(q)) \in Seq(S)
  <2>1. k + 1 \in Int /\ Len(q) \in Int /\ \A i \in k + 1 .. Len(q) : q[i] \in S
    BY <1>1
  <2> QED
    BY <2>1, SubSeqProperties
<1> QED
  BY <1>2, <1>3, ConcatProperties DEF DropAt

\* A write performed by the memory preserves the types.
LEMMA MemPerformType ==
  ASSUME TypeOK, NEW k \in 1 .. DirN, MemPerform(k)
  PROVE  TypeOK'
<1>1. k \in Nat \ {0} /\ k <= Len(memAw) /\ k <= Len(memW)
  BY SizeAssumption DEF MemPerform
<1>2. memAw[k] \in Meta /\ memW[k] \in Bytes
  <2>1. memAw \in Seq(Meta) /\ memW \in Seq(Bytes)
    BY DEF TypeOK, Meta
  <2>2. Len(memAw) \in Nat /\ Len(memW) \in Nat
    BY <2>1, LenProperties
  <2>3. k \in 1 .. Len(memAw) /\ k \in 1 .. Len(memW)
    BY <1>1, <2>2
  <2> QED
    BY <2>1, <2>3, ElementOfSeq
<1>3. memAw' \in Seq(Meta) /\ memW' \in Seq(Bytes)
  <2>1. memAw \in Seq(Meta) /\ memW \in Seq(Bytes)
    BY DEF TypeOK, Meta
  <2> QED
    BY <1>1, <2>1, DropAtType DEF MemPerform
<1>4. resp' \in SUBSET Dir
  BY <1>2 DEF TypeOK, MemPerform, Meta
<1>5. mem' \in [Tag -> [Byte -> Val]]
  <2>1. memAw[k].tag \in Tag
    BY <1>2 DEF Meta
  <2>2. mem[memAw[k].tag] \in [Byte -> Val]
    BY <2>1 DEF TypeOK
  <2>3. Merge(mem[memAw[k].tag], memW[k]) \in [Byte -> Val]
    BY <1>2, <2>2, MergeMemType
  <2> QED
    BY <2>3 DEF TypeOK, MemPerform
<1> QED
  BY <1>3, <1>4, <1>5 DEF TypeOK, MemPerform, regs, Meta

(* The inductive invariant.  None of its parts is inductive alone: typing  *)
(* and uniqueness need the one-hot grants, which need held grants to stay  *)
(* valid, which needs each buffer to have one owner.                       *)
IInv ==
  /\ TypeOK
  /\ HeldGrantsValid
  /\ OneActiveEntryPerTag
  /\ BufferOwnership

\* The reset state satisfies the invariant.
LEMMA InitIInv == Init => IInv
<1> SUFFICES ASSUME Init PROVE IInv
  OBVIOUS
<1>1. Dir # {} /\ 0 \in Data /\ 0 \in 0 .. CntMod - 1 /\ DirN - 1 \in Dir
  BY SizeAssumption DEF Dir, Data
<1>2. InState("FREE") = Dir /\ Active = {} /\ InState("PEND") = {}
  BY DEF Init, InState, Active
<1>3. TypeOK
  <2>1. dir \in [Dir -> Entry]
    BY <1>1 DEF Init, Entry
  <2>2. pendArb \in [gnt : Dir, wait : BOOLEAN]
    BY <1>1 DEF Init, RrReset
  <2> QED
    BY <2>1, <2>2 DEF Init, TypeOK, FxReset
<1>4. HeldGrantsValid
  BY DEF Init, HeldGrantsValid, FxReset, RrReset
<1>5. BufferOwnership
  BY <1>2 DEF Init, BufferOwnership
<1> QED
  BY <1>2, <1>3, <1>4, <1>5 DEF IInv, OneActiveEntryPerTag

\* Every step preserves the invariant.
LEMMA NextIInv == IInv /\ [Next]_vars => IInv'
<1> SUFFICES ASSUME IInv, [Next]_vars PROVE IInv'
  OBVIOUS
<1>1. CASE \E r \in Reqs, flushAll, awReady, wReady \in BOOLEAN, ack \in Acks :
             Clock(r, flushAll, awReady, wReady, ack)
  <2>1. PICK r \in Reqs, flushAll \in BOOLEAN, awReady \in BOOLEAN, wReady \in BOOLEAN,
             ack \in Acks : Clock(r, flushAll, awReady, wReady, ack)
    BY <1>1
  <2> QED
    BY <2>1, ClockType, ClockHeldGrants, ClockOneActive, ClockOwnership DEF IInv
<1>2. CASE \E c \in Cfgs : SetCfg(c)
  BY <1>2 DEF IInv, SetCfg, regs, env, TypeOK, HeldGrantsValid, OneActiveEntryPerTag,
              BufferOwnership, Active, InState, FreeData
<1>3. CASE \E k \in 1 .. DirN : MemPerform(k)
  <2>1. TypeOK'
    BY <1>3, MemPerformType DEF IInv
  <2>2. UNCHANGED regs
    BY <1>3 DEF MemPerform
  <2> QED
    BY <2>1, <2>2 DEF IInv, regs, HeldGrantsValid, OneActiveEntryPerTag,
                      BufferOwnership, Active, InState, FreeData
<1>4. CASE UNCHANGED vars
  BY <1>4 DEF IInv, vars, regs, env, TypeOK, HeldGrantsValid, OneActiveEntryPerTag,
              BufferOwnership, Active, InState, FreeData
<1>5. Readies(sendMeta) \subseteq BOOLEAN /\ Readies(sendData) \subseteq BOOLEAN
  BY DEF Readies
<1> QED
  BY <1>1, <1>2, <1>3, <1>4, <1>5, Zenon DEF Next

\* The invariant holds in every reachable state.
THEOREM Invariant == Spec => []IInv
  BY InitIInv, NextIInv, PTL DEF Spec

\* The registers of hpdcache_wbuf.sv and the memory keep their types.
THEOREM TypeCorrect == Spec => []TypeOK
<1>1. IInv => TypeOK
  BY DEF IInv
<1> QED
  BY <1>1, Invariant, PTL

(* wbuf_write_free and the coalescing conditions never let two entries     *)
(* gather writes to the same block.                                        *)
THEOREM OneActiveEntry == Spec => []OneActiveEntryPerTag
<1>1. IInv => OneActiveEntryPerTag
  BY DEF IInv
<1> QED
  BY <1>1, Invariant, PTL

(* No data buffer is leaked and none is shared, whatever the depth of the  *)
(* send FIFOs and the order in which the channels drain.                   *)
THEOREM BuffersOwned == Spec => []BufferOwnership
<1>1. IInv => BufferOwnership
  BY DEF IInv
<1> QED
  BY <1>1, Invariant, PTL

(* The grants that hpdcache_fxarb and hpdcache_rrarb hold for the write    *)
(* buffer never go stale.                                                  *)
THEOREM HeldGrants == Spec => []HeldGrantsValid
<1>1. IInv => HeldGrantsValid
  BY DEF IInv
<1> QED
  BY <1>1, Invariant, PTL

\* A clock cycle leaves the bytes of the announced writes alone.
LEMMA ClockFrozen ==
  ASSUME IInv, NEW r \in Reqs,
         NEW flushAll \in BOOLEAN, NEW awReady \in BOOLEAN, NEW wReady \in BOOLEAN,
         NEW ack \in Acks, Clock(r, flushAll, awReady, wReady, ack),
         NEW k \in DOMAIN sendData
  PROVE  data'[sendData[k].ptr] = data[sendData[k].ptr]
<1>1. sendData[k].ptr \in Data /\ sendData[k].ptr \in dataValid
  BY DEF IInv, BufferOwnership, TypeOK
<1>2. ~(Allocates(r) /\ sendData[k].ptr \in DataGrant)
  BY <1>1, GrantsOnAllocation DEF IInv, FreeData
<1>3. OpenTarget(r) \cup PendTarget(r) \subseteq Active
  BY DEF OpenTarget, PendTarget, LastHit, Hit, InState, Active
<1>4. sendData[k].ptr \notin CoalesceInto(r)
  BY <1>3 DEF CoalesceInto, IInv, BufferOwnership
<1> QED
  BY <1>1, <1>2, <1>4 DEF Clock, DataNext

(* The bytes of an announced write do not change while it waits for the    *)
(* data channel: its buffer is neither granted again nor written by a      *)
(* coalescing write.                                                       *)
THEOREM Frozen == Spec => AnnouncedFrozen
<1>1. ASSUME IInv, [Next]_vars
      PROVE  [\A k \in DOMAIN sendData : data'[sendData[k].ptr] = data[sendData[k].ptr]]_vars
  <2>1. CASE \E r \in Reqs, flushAll, awReady, wReady \in BOOLEAN, ack \in Acks :
               Clock(r, flushAll, awReady, wReady, ack)
    <3>1. PICK r \in Reqs, flushAll \in BOOLEAN, awReady \in BOOLEAN, wReady \in BOOLEAN,
               ack \in Acks : Clock(r, flushAll, awReady, wReady, ack)
      BY <2>1
    <3> QED
      BY <1>1, <3>1, ClockFrozen
  <2>2. CASE \E c \in Cfgs : SetCfg(c)
    BY <2>2 DEF SetCfg, regs
  <2>3. CASE \E k \in 1 .. DirN : MemPerform(k)
    BY <2>3 DEF MemPerform, regs
  <2>4. CASE UNCHANGED vars
    BY <2>4
  <2>5. Readies(sendMeta) \subseteq BOOLEAN /\ Readies(sendData) \subseteq BOOLEAN
    BY DEF Readies
  <2> QED
    BY <1>1, <2>1, <2>2, <2>3, <2>4, <2>5, Zenon DEF Next
<1> QED
  BY <1>1, Invariant, PTL DEF Spec, AnnouncedFrozen

----------------------------------------------------------------------------
(* Sequences: a queue that drains into another, and a queue that loses an  *)
(* item in the middle                                                      *)

\* Item by item, b is c with at most one item, the one in w, at its end.
Extends(b, c, w, S) ==
  /\ b \in Seq(S)
  /\ Len(b) = Len(c) + (IF w = {} THEN 0 ELSE 1)
  /\ \A k \in 1 .. Len(c) : b[k] = c[k]
  /\ \A x \in S : w = {x} => b[Len(c) + 1] = x

\* A receiver takes what a FIFO hands over in the cycle.
LEMMA ReceiverItems ==
  ASSUME NEW S, NEW a \in Seq(S), NEW q \in Seq(S), NEW r \in BOOLEAN
  PROVE  /\ FifoPush(a, FifoOut(q, r)) \in Seq(S)
         /\ Len(FifoPush(a, FifoOut(q, r))) = Len(a) + Popped(q, r)
         /\ \A k \in 1 .. Len(a) : FifoPush(a, FifoOut(q, r))[k] = a[k]
         /\ Popped(q, r) = 1 => FifoPush(a, FifoOut(q, r))[Len(a) + 1] = q[1]
<1>0. Len(a) \in Nat
  BY LenProperties
<1>1. CASE r /\ q # <<>>
  <2>1. FifoOut(q, r) = {Head(q)} /\ Head(q) \in S /\ Head(q) = q[1]
    BY <1>1, HeadTailProperties DEF FifoOut
  <2>2. FifoPush(a, FifoOut(q, r)) = Append(a, Head(q))
    BY <2>1 DEF FifoPush
  <2>3. Popped(q, r) = 1
    BY <1>1 DEF Popped
  <2> DEFINE h == Head(q)
  <2>4. /\ Append(a, h) \in Seq(S) /\ Len(Append(a, h)) = Len(a) + 1
        /\ \A k \in 1 .. Len(a) : Append(a, h)[k] = a[k]
        /\ Append(a, h)[Len(a) + 1] = h
    <3> HIDE DEF h
    <3> QED
      BY <2>1, AppendProperties DEF h
  <2> QED
    BY <2>1, <2>2, <2>3, <2>4
<1>2. CASE ~(r /\ q # <<>>)
  BY <1>0, <1>2 DEF FifoOut, FifoPush, Popped
<1> QED
  BY <1>1, <1>2

(* The receiver's queue followed by the sender's: a cycle changes nothing  *)
(* but for the item that is pushed.                                        *)
LEMMA TransferItems ==
  ASSUME NEW S, NEW a \in Seq(S), NEW q \in Seq(S), NEW r \in BOOLEAN, NEW w \in SUBSET S,
         w = {} \/ \E x \in S : w = {x}
  PROVE  Extends(FifoPush(a, FifoOut(q, r)) \o FifoNext(q, r, w), a \o q, w, S)
<1> DEFINE a1 == FifoPush(a, FifoOut(q, r))
           q1 == FifoNext(q, r, w)
           d == Popped(q, r)
           e == IF w = {} THEN 0 ELSE 1
<1>1. /\ a1 \in Seq(S) /\ Len(a1) = Len(a) + d
      /\ \A k \in 1 .. Len(a) : a1[k] = a[k]
      /\ d = 1 => a1[Len(a) + 1] = q[1]
  BY ReceiverItems
<1>2. q1 \in Seq(S)
  BY FifoNextType
<1>3. ItemsAfter(q, r, w, S)
  BY FifoNextItems
<1>4. /\ Len(q) - d \in Nat
      /\ DOMAIN q1 = 1 .. (Len(q) - d + e)
      /\ \A k \in 1 .. Len(q) - d : q1[k] = q[k + d]
      /\ \A x \in S : w = {x} => q1[Len(q) - d + 1] = x
  BY <1>3 DEF ItemsAfter
<1>5. Len(a) \in Nat /\ Len(q) \in Nat /\ d \in {0, 1} /\ e \in {0, 1} /\ (w # {} => e = 1)
  BY LenProperties DEF Popped
<1>6. Len(q1) = Len(q) - d + e
  BY <1>2, <1>4, <1>5, LenProperties
<1> HIDE DEF a1, q1, d, e
<1>7. /\ a1 \o q1 \in Seq(S)
      /\ Len(a1 \o q1) = Len(a) + Len(q) + e
      /\ \A k \in 1 .. Len(a1) + Len(q1) :
           (a1 \o q1)[k] = IF k <= Len(a1) THEN a1[k] ELSE q1[k - Len(a1)]
  <2>1. Len(a1) + Len(q1) = Len(a) + Len(q) + e
    <3>1. Len(a1) = Len(a) + d
      BY <1>1
    <3> QED
      BY ONLY <3>1, <1>5, <1>6
  <2> QED
    BY <1>1, <1>2, <2>1, ConcatProperties
<1>8. /\ Len(a \o q) = Len(a) + Len(q)
      /\ \A k \in 1 .. Len(a) + Len(q) : (a \o q)[k] = IF k <= Len(a) THEN a[k] ELSE q[k - Len(a)]
  BY ConcatProperties
<1>9. ASSUME NEW k \in 1 .. Len(a) + Len(q) PROVE (a1 \o q1)[k] = (a \o q)[k]
  <2>1. (a1 \o q1)[k] = IF k <= Len(a) + d THEN a1[k] ELSE q1[k - (Len(a) + d)]
    BY <1>1, <1>5, <1>6, <1>7
  <2>2. CASE k <= Len(a)
    BY <1>1, <1>5, <1>8, <2>1, <2>2
  <2>3. CASE k > Len(a) /\ d = 1 /\ k = Len(a) + 1
    BY <1>1, <1>5, <1>8, <2>1, <2>3
  <2>4. CASE k > Len(a) + d
    <3>1. k - (Len(a) + d) \in 1 .. Len(q) - d /\ (k - (Len(a) + d)) + d = k - Len(a)
      BY <1>5, <2>4
    <3>2. ~(k <= Len(a) + d) /\ ~(k <= Len(a))
      BY <1>5, <2>4
    <3>3. (a1 \o q1)[k] = q[k - Len(a)]
      BY <1>4, <2>1, <3>1, <3>2
    <3> QED
      BY <1>8, <3>2, <3>3
  <2>5. k <= Len(a) \/ (k > Len(a) /\ d = 1 /\ k = Len(a) + 1) \/ k > Len(a) + d
    BY <1>5
  <2> QED
    BY <2>2, <2>3, <2>4, <2>5
<1>10. ASSUME NEW x \in S, w = {x} PROVE (a1 \o q1)[Len(a) + Len(q) + 1] = x
  <2>1. w # {}
    BY <1>10
  <2>2. Len(a) + Len(q) + 1 \in 1 .. Len(a1) + Len(q1) /\ Len(a) + Len(q) + 1 > Len(a1)
    <3>1. Len(a1) = Len(a) + d /\ Len(q) - d \in Nat
      BY <1>1, <1>4
    <3> QED
      BY ONLY <3>1, <1>5, <1>6, <2>1
  <2>3. (a1 \o q1)[Len(a) + Len(q) + 1] = q1[Len(q) - d + 1]
    <3>1. Len(a) + Len(q) + 1 - Len(a1) = Len(q) - d + 1
      BY <1>1, <1>5
    <3> QED
      BY <1>1, <1>5, <1>7, <2>2, <3>1
  <2> QED
    BY <1>4, <1>10, <2>3
<1> QED
  BY <1>7, <1>8, <1>9, <1>10 DEF Extends, a1, q1, e

\* Item by item, b is c without its k-th item.
Drops(b, c, k, S) ==
  /\ b \in Seq(S)
  /\ Len(b) = Len(c) - 1
  /\ \A j \in 1 .. k - 1 : b[j] = c[j]
  /\ \A j \in k .. Len(b) : b[j] = c[j + 1]

\* An item that leaves the receiver's queue leaves the whole.
LEMMA DropItems ==
  ASSUME NEW S, NEW a \in Seq(S), NEW q \in Seq(S), NEW k \in 1 .. Len(a)
  PROVE  Drops(DropAt(a, k) \o q, a \o q, k, S) /\ Len(DropAt(a, k)) = Len(a) - 1
<1>1. Len(a) \in Nat /\ Len(q) \in Nat /\ k \in Nat /\ k >= 1 /\ k <= Len(a)
      /\ \A i \in 1 .. Len(a) : a[i] \in S
  BY LenProperties, ElementOfSeq
<1> DEFINE l == SubSeq(a, 1, k - 1)
           h == SubSeq(a, k + 1, Len(a))
           b == DropAt(a, k)
<1>2. l \in Seq(S) /\ Len(l) = k - 1 /\ \A i \in 1 .. k - 1 : l[i] = a[i]
  <2>1. 1 \in Int /\ k - 1 \in Int /\ \A i \in 1 .. k - 1 : a[i] \in S
    BY <1>1
  <2>2. /\ l \in Seq(S) /\ Len(l) = IF 1 <= k - 1 THEN (k - 1) - 1 + 1 ELSE 0
        /\ \A i \in 1 .. (k - 1) - 1 + 1 : l[i] = a[1 + i - 1]
    BY <2>1, SubSeqProperties
  <2> QED
    BY <1>1, <2>2
<1>3. h \in Seq(S) /\ Len(h) = Len(a) - k /\ \A i \in 1 .. Len(a) - k : h[i] = a[k + i]
  <2>1. k + 1 \in Int /\ Len(a) \in Int /\ \A i \in k + 1 .. Len(a) : a[i] \in S
    BY <1>1
  <2>2. /\ h \in Seq(S) /\ Len(h) = IF k + 1 <= Len(a) THEN Len(a) - (k + 1) + 1 ELSE 0
        /\ \A i \in 1 .. Len(a) - (k + 1) + 1 : h[i] = a[k + 1 + i - 1]
    BY <2>1, SubSeqProperties
  <2> QED
    BY <1>1, <2>2
<1> HIDE DEF l, h
<1>4. /\ b \in Seq(S) /\ Len(b) = Len(a) - 1
      /\ \A i \in 1 .. Len(a) - 1 : b[i] = IF i <= k - 1 THEN l[i] ELSE h[i - (k - 1)]
  <2>1. b = l \o h
    BY DEF DropAt, l, h
  <2>2. (k - 1) + (Len(a) - k) = Len(a) - 1
    BY <1>1
  <2>3. /\ l \o h \in Seq(S) /\ Len(l \o h) = Len(l) + Len(h)
        /\ \A i \in 1 .. Len(l) + Len(h) : (l \o h)[i] = IF i <= Len(l) THEN l[i] ELSE h[i - Len(l)]
    BY <1>2, <1>3, ConcatProperties
  <2> QED
    BY <1>2, <1>3, <2>1, <2>2, <2>3
<1>5. /\ \A i \in 1 .. k - 1 : b[i] = a[i]
      /\ \A i \in k .. Len(a) - 1 : b[i] = a[i + 1]
  <2>1. ASSUME NEW i \in 1 .. k - 1 PROVE b[i] = a[i]
    BY <1>1, <1>2, <1>4
  <2>2. ASSUME NEW i \in k .. Len(a) - 1 PROVE b[i] = a[i + 1]
    <3>1. i - (k - 1) \in 1 .. Len(a) - k /\ k + (i - (k - 1)) = i + 1
          /\ i \in 1 .. Len(a) - 1 /\ ~(i <= k - 1)
      BY <1>1
    <3> QED
      BY <1>3, <1>4, <3>1
  <2> QED
    BY <2>1, <2>2
<1> HIDE DEF b
<1>6. /\ b \o q \in Seq(S) /\ Len(b \o q) = Len(a) + Len(q) - 1
      /\ \A i \in 1 .. Len(b) + Len(q) : (b \o q)[i] = IF i <= Len(b) THEN b[i] ELSE q[i - Len(b)]
  <2>1. (Len(a) - 1) + Len(q) = Len(a) + Len(q) - 1
    BY <1>1
  <2> QED
    BY <1>4, <2>1, ConcatProperties
<1>7. /\ Len(a \o q) = Len(a) + Len(q)
      /\ \A i \in 1 .. Len(a) + Len(q) : (a \o q)[i] = IF i <= Len(a) THEN a[i] ELSE q[i - Len(a)]
  BY ConcatProperties
<1>8. ASSUME NEW j \in 1 .. k - 1 PROVE (b \o q)[j] = (a \o q)[j]
  BY <1>1, <1>4, <1>5, <1>6, <1>7
<1>9. ASSUME NEW j \in k .. Len(b \o q) PROVE (b \o q)[j] = (a \o q)[j + 1]
  <2>1. j \in 1 .. Len(b) + Len(q) /\ j + 1 \in 1 .. Len(a) + Len(q)
    BY <1>1, <1>4, <1>6
  <2>2. CASE j <= Len(b)
    BY <1>1, <1>4, <1>5, <1>6, <1>7, <2>1, <2>2
  <2>3. CASE j > Len(b)
    <3>1. j - Len(b) = (j + 1) - Len(a) /\ ~(j <= Len(b)) /\ ~(j + 1 <= Len(a))
      BY <1>1, <1>4, <2>3
    <3> QED
      BY <1>6, <1>7, <2>1, <3>1
  <2> QED
    BY <1>1, <1>4, <2>2, <2>3
<1> QED
  BY <1>4, <1>6, <1>7, <1>8, <1>9 DEF Drops, b

----------------------------------------------------------------------------
(* The announced writes, on AW and on W                                    *)

\* The bytes of the announced writes: received, or still in their buffers.
BytesOf(mw, sd, dt) == mw \o [k \in DOMAIN sd |-> dt[sd[k].ptr]]

\* The bytes of the announced writes, item by item.
LEMMA BytesItems ==
  ASSUME NEW mw \in Seq(Bytes), NEW sd \in Seq(SendD), NEW dt \in [Data -> Bytes]
  PROVE  /\ BytesOf(mw, sd, dt) \in Seq(Bytes)
         /\ Len(BytesOf(mw, sd, dt)) = Len(mw) + Len(sd)
         /\ \A k \in 1 .. Len(mw) : BytesOf(mw, sd, dt)[k] = mw[k]
         /\ \A k \in 1 .. Len(sd) : BytesOf(mw, sd, dt)[Len(mw) + k] = dt[sd[k].ptr]
<1> DEFINE tl == [k \in DOMAIN sd |-> dt[sd[k].ptr]]
<1>1. Len(mw) \in Nat /\ Len(sd) \in Nat /\ DOMAIN sd = 1 .. Len(sd)
  BY LenProperties
<1>2. \A k \in 1 .. Len(sd) : sd[k] \in SendD /\ dt[sd[k].ptr] \in Bytes
  <2>1. \A k \in 1 .. Len(sd) : sd[k] \in SendD
    BY ElementOfSeq
  <2> QED
    BY <2>1 DEF SendD
<1>3. tl \in Seq(Bytes) /\ Len(tl) = Len(sd) /\ \A k \in 1 .. Len(sd) : tl[k] = dt[sd[k].ptr]
  <2>1. tl = [k \in 1 .. Len(sd) |-> dt[sd[k].ptr]]
    BY <1>1
  <2>2. tl \in [1 .. Len(sd) -> Bytes]
    BY <1>2, <2>1
  <2>3. tl \in Seq(Bytes)
    BY <1>1, <2>2
  <2>4. DOMAIN tl = 1 .. Len(sd)
    BY <2>1
  <2>5. Len(tl) = Len(sd)
    BY <1>1, <2>3, <2>4, LenProperties
  <2> QED
    BY <2>1, <2>3, <2>5
<1> HIDE DEF tl
<1>4. BytesOf(mw, sd, dt) = mw \o tl
  BY DEF BytesOf, tl
<1>5. /\ mw \o tl \in Seq(Bytes) /\ Len(mw \o tl) = Len(mw) + Len(tl)
      /\ \A i \in 1 .. Len(mw) + Len(tl) : (mw \o tl)[i] = IF i <= Len(mw) THEN mw[i] ELSE tl[i - Len(mw)]
  BY <1>3, ConcatProperties
<1>6. ASSUME NEW k \in 1 .. Len(mw) PROVE (mw \o tl)[k] = mw[k]
  BY <1>1, <1>3, <1>5
<1>7. ASSUME NEW k \in 1 .. Len(sd) PROVE (mw \o tl)[Len(mw) + k] = dt[sd[k].ptr]
  <2>1. Len(mw) + k \in 1 .. Len(mw) + Len(sd) /\ ~(Len(mw) + k <= Len(mw)) /\ (Len(mw) + k) - Len(mw) = k
    BY <1>1
  <2> QED
    BY <1>3, <1>5, <2>1
<1> QED
  BY <1>3, <1>4, <1>5, <1>6, <1>7

\* The announced writes are sequences, as long as their two parts together.
LEMMA AnnouncedTypes ==
  TypeOK => /\ Announced \in Seq(Meta) /\ AnnouncedBytes \in Seq(Bytes)
            /\ Len(Announced) \in Nat /\ Len(AnnouncedBytes) \in Nat
            /\ DOMAIN Announced = 1 .. Len(Announced)
            /\ DOMAIN AnnouncedBytes = 1 .. Len(AnnouncedBytes)
            /\ Len(Announced) = Len(memAw) + Len(sendMeta)
            /\ Len(AnnouncedBytes) = Len(memW) + Len(sendData)
            /\ DOMAIN sendData = 1 .. Len(sendData)
            /\ Len(memAw) \in Nat /\ Len(memW) \in Nat /\ Len(sendMeta) \in Nat /\ Len(sendData) \in Nat
            /\ \A k \in 1 .. Len(Announced) : Announced[k] \in Meta
            /\ \A k \in 1 .. Len(AnnouncedBytes) : AnnouncedBytes[k] \in Bytes
<1> SUFFICES ASSUME TypeOK
             PROVE  /\ Announced \in Seq(Meta) /\ AnnouncedBytes \in Seq(Bytes)
                    /\ Len(Announced) = Len(memAw) + Len(sendMeta)
                    /\ Len(AnnouncedBytes) = Len(memW) + Len(sendData)
                    /\ memAw \in Seq(Meta) /\ sendMeta \in Seq(Meta)
                    /\ memW \in Seq(Bytes) /\ sendData \in Seq(SendD)
  BY LenProperties, ElementOfSeq
<1>1. /\ memAw \in Seq(Meta) /\ sendMeta \in Seq(Meta)
      /\ memW \in Seq(Bytes) /\ sendData \in Seq(SendD) /\ data \in [Data -> Bytes]
  BY DEF TypeOK, Meta, SendD
<1>2. AnnouncedBytes = BytesOf(memW, sendData, data)
  BY DEF AnnouncedBytes, BytesOf
<1>3. AnnouncedBytes \in Seq(Bytes) /\ Len(AnnouncedBytes) = Len(memW) + Len(sendData)
  BY <1>1, <1>2, BytesItems
<1>4. Announced \in Seq(Meta) /\ Len(Announced) = Len(memAw) + Len(sendMeta)
  BY <1>1, ConcatProperties DEF Announced
<1> QED
  BY <1>1, <1>3, <1>4

\* The same, after a step.
LEMMA AnnouncedTypesNext ==
  TypeOK' => /\ (Announced \in Seq(Meta))' /\ (AnnouncedBytes \in Seq(Bytes))'
             /\ (Len(Announced) \in Nat)' /\ (Len(AnnouncedBytes) \in Nat)'
             /\ (DOMAIN Announced = 1 .. Len(Announced))'
             /\ (DOMAIN AnnouncedBytes = 1 .. Len(AnnouncedBytes))'
             /\ (Len(Announced) = Len(memAw) + Len(sendMeta))'
             /\ (Len(AnnouncedBytes) = Len(memW) + Len(sendData))'
             /\ (DOMAIN sendData = 1 .. Len(sendData))'
             /\ (Len(memAw) \in Nat /\ Len(memW) \in Nat /\ Len(sendMeta) \in Nat /\ Len(sendData) \in Nat)'
  BY AnnouncedTypes, PTL

\* What is announced in this cycle, on AW and on W.
NewMeta == {[tag |-> dir[i].tag, id |-> i] : i \in Sends}
NewBytes == {data'[dir[i].ptr] : i \in Sends}

\* The addresses of the announced writes change by the one that is announced.
LEMMA ClockAnnounced ==
  ASSUME IInv, NEW r \in Reqs,
         NEW flushAll \in BOOLEAN, NEW awReady \in BOOLEAN, NEW wReady \in BOOLEAN,
         NEW ack \in Acks, Clock(r, flushAll, awReady, wReady, ack)
  PROVE  Extends(Announced', Announced, NewMeta, Meta)
<1>1. memAw \in Seq(Meta) /\ sendMeta \in Seq(Meta)
  BY DEF IInv, TypeOK, Meta
<1>2. \A i \in Sends : [tag |-> dir[i].tag, id |-> i] \in Meta
  BY SendsOnePend DEF IInv, TypeOK, InState, Entry, Meta
<1>3. Sends = {} \/ \E i \in Sends : Sends = {i}
  BY SendsOnePend DEF IInv
<1>4. NewMeta \in SUBSET Meta /\ (NewMeta = {} \/ \E x \in Meta : NewMeta = {x})
  BY <1>2, <1>3 DEF NewMeta
<1>5. Announced' = FifoPush(memAw, FifoOut(sendMeta, awReady)) \o FifoNext(sendMeta, awReady, NewMeta)
  BY DEF Announced, Clock, MetaNext, MemAwNext, AwOut, NewMeta
<1> QED
  BY <1>1, <1>4, <1>5, TransferItems DEF Announced

\* The bytes of the announced writes change by those of the announced one.
LEMMA ClockBytes ==
  ASSUME IInv, NEW r \in Reqs,
         NEW flushAll \in BOOLEAN, NEW awReady \in BOOLEAN, NEW wReady \in BOOLEAN,
         NEW ack \in Acks, Clock(r, flushAll, awReady, wReady, ack)
  PROVE  /\ Extends(AnnouncedBytes', AnnouncedBytes, NewBytes, Bytes)
         /\ Len(memW') = Len(memW) + Popped(sendData, wReady)
         /\ Len(sendData') = Len(sendData) - Popped(sendData, wReady) + (IF Sends = {} THEN 0 ELSE 1)
         /\ \A k \in 1 .. Len(sendData) - Popped(sendData, wReady) :
              sendData'[k] = sendData[k + Popped(sendData, wReady)]
         /\ \A i \in Dir : Sends = {i} =>
              sendData'[Len(sendData) - Popped(sendData, wReady) + 1].tag = dir[i].tag
<1> DEFINE L == Len(sendData)
           m == Len(memW)
           d == Popped(sendData, wReady)
           e == IF Sends = {} THEN 0 ELSE 1
           w == {[tag |-> dir[i].tag, ptr |-> dir[i].ptr] : i \in Sends}
           mw == {data[x.ptr] : x \in WOut(wReady)}
<1>1. /\ memW \in Seq(Bytes) /\ sendData \in Seq(SendD) /\ data \in [Data -> Bytes]
      /\ m \in Nat /\ L \in Nat /\ DOMAIN sendData = 1 .. L
  BY LenProperties DEF IInv, TypeOK, SendD
<1>2. TypeOK'
  BY ClockType DEF IInv
<1>3. /\ memW' \in Seq(Bytes) /\ sendData' \in Seq(SendD) /\ data' \in [Data -> Bytes]
      /\ Len(memW') \in Nat /\ Len(sendData') \in Nat
  BY <1>2, LenProperties DEF TypeOK, SendD
<1>4. Sends = {} \/ \E i \in Sends : Sends = {i}
  BY SendsOnePend DEF IInv
<1>5. \A i \in Sends : [tag |-> dir[i].tag, ptr |-> dir[i].ptr] \in SendD /\ dir[i].ptr \in Data
  BY SendsOnePend DEF IInv, TypeOK, InState, Entry, SendD
<1>6. w \in SUBSET SendD /\ (w = {} \/ \E x \in SendD : w = {x}) /\ (w = {} <=> Sends = {})
  <2>1. CASE Sends = {}
    BY <2>1
  <2>2. ASSUME NEW i \in Sends, Sends = {i}
        PROVE  w \in SUBSET SendD /\ (\E x \in SendD : w = {x}) /\ w # {}
    <3>1. w = {[tag |-> dir[i].tag, ptr |-> dir[i].ptr]}
      BY <2>2
    <3> QED
      BY <1>5, <3>1
  <2> QED
    BY <1>4, <2>1, <2>2
<1>7. sendData' = FifoNext(sendData, wReady, w)
  BY DEF Clock, SendDataNext
<1>8. ItemsAfter(sendData, wReady, w, SendD)
  BY <1>1, <1>6, FifoNextItems
<1>9. /\ L - d \in Nat /\ d \in {0, 1} /\ e \in {0, 1}
      /\ Len(sendData') = L - d + e
      /\ \A k \in 1 .. L - d : sendData'[k] = sendData[k + d]
      /\ \A x \in SendD : w = {x} => sendData'[L - d + 1] = x
  <2>1. /\ L - d \in Nat /\ d \in {0, 1} /\ e \in {0, 1}
        /\ DOMAIN sendData' = 1 .. (L - d + e)
        /\ \A k \in 1 .. L - d : sendData'[k] = sendData[k + d]
        /\ \A x \in SendD : w = {x} => sendData'[L - d + 1] = x
    BY <1>6, <1>7, <1>8 DEF ItemsAfter, Popped
  <2> HIDE DEF L, d, e, w
  <2>2. DOMAIN sendData' = 1 .. Len(sendData')
    BY <1>3, LenProperties
  <2>3. L - d + e \in Nat
    BY <2>1
  <2>4. Len(sendData') = L - d + e
    BY <1>3, <2>1, <2>2, <2>3
  <2> QED
    BY <2>1, <2>4
<1>10. \A i \in Sends : w = {[tag |-> dir[i].tag, ptr |-> dir[i].ptr]}
  BY <1>4
<1>11. \A i \in Sends : sendData'[L - d + 1] = [tag |-> dir[i].tag, ptr |-> dir[i].ptr]
  BY <1>5, <1>9, <1>10
<1>12. /\ Len(memW') = m + d
       /\ \A k \in 1 .. m : memW'[k] = memW[k]
       /\ d = 1 => memW'[m + 1] = data[sendData[1].ptr]
  <2>1. memW' = FifoPush(memW, mw)
    BY DEF Clock, MemWNext
  <2>2. CASE d = 1
    <3>1. L >= 1 /\ WOut(wReady) = {sendData[1]}
      BY <1>1, <1>8, <2>2, EmptySeq DEF ItemsAfter, WOut, Popped
    <3>2. mw = {data[sendData[1].ptr]} /\ data[sendData[1].ptr] \in Bytes
      <4>1. sendData[1] \in SendD
        BY <1>1, <3>1, ElementOfSeq
      <4> QED
        BY <1>1, <3>1, <4>1 DEF SendD
    <3> DEFINE x == data[sendData[1].ptr]
    <3>3. memW' = Append(memW, x) /\ x \in Bytes
      BY <2>1, <3>2 DEF FifoPush
    <3> HIDE DEF x
    <3>4. Len(Append(memW, x)) = m + 1 /\ Append(memW, x)[m + 1] = x
          /\ \A k \in 1 .. m : Append(memW, x)[k] = memW[k]
      BY <1>1, <3>3, AppendProperties
    <3> QED
      BY <2>2, <3>3, <3>4 DEF x
  <2>3. CASE d = 0
    <3>1. mw = {}
      BY <1>8, <2>3 DEF ItemsAfter, WOut
    <3> QED
      BY <1>1, <2>1, <2>3, <3>1 DEF FifoPush
  <2> QED
    BY <1>9, <2>2, <2>3
<1>13. \A k \in 1 .. L : data'[sendData[k].ptr] = data[sendData[k].ptr]
  BY <1>1, ClockFrozen
<1>14. /\ AnnouncedBytes = BytesOf(memW, sendData, data)
       /\ AnnouncedBytes' = BytesOf(memW', sendData', data')
  BY DEF AnnouncedBytes, BytesOf
<1>15. /\ Len(AnnouncedBytes) = m + L
       /\ \A k \in 1 .. m : AnnouncedBytes[k] = memW[k]
       /\ \A k \in 1 .. L : AnnouncedBytes[m + k] = data[sendData[k].ptr]
  BY <1>1, <1>14, BytesItems
<1> HIDE DEF L, m, d, e, w, mw
<1>16. /\ AnnouncedBytes' \in Seq(Bytes)
       /\ Len(AnnouncedBytes') = (m + d) + (L - d + e)
       /\ \A k \in 1 .. m + d : AnnouncedBytes'[k] = memW'[k]
       /\ \A k \in 1 .. L - d + e : AnnouncedBytes'[m + d + k] = data'[sendData'[k].ptr]
  <2>1. /\ AnnouncedBytes' \in Seq(Bytes)
        /\ Len(AnnouncedBytes') = Len(memW') + Len(sendData')
        /\ \A k \in 1 .. Len(memW') : AnnouncedBytes'[k] = memW'[k]
        /\ \A k \in 1 .. Len(sendData') : AnnouncedBytes'[Len(memW') + k] = data'[sendData'[k].ptr]
    BY <1>3, <1>14, BytesItems
  <2> QED
    BY <1>9, <1>12, <2>1
<1>17. (m + d) + (L - d + e) = m + L + e
  BY <1>1, <1>9 DEF L, m
<1>18. ASSUME NEW k \in 1 .. m + L PROVE AnnouncedBytes'[k] = AnnouncedBytes[k]
  <2>1. m \in Nat /\ L \in Nat
    BY <1>1 DEF m, L
  <2>2. CASE k <= m
    <3>1. k \in 1 .. m /\ k \in 1 .. m + d
      BY <1>9, <2>1, <2>2
    <3> QED
      BY <1>12, <1>15, <1>16, <3>1
  <2>3. CASE d = 1 /\ k = m + 1
    <3>1. k \in 1 .. m + d /\ 1 \in 1 .. L
      BY <2>1, <2>3
    <3> QED
      BY <1>12, <1>15, <1>16, <2>3, <3>1
  <2>4. CASE k > m + d
    <3> DEFINE j == k - (m + d)
    <3>1. j \in 1 .. L - d /\ j \in 1 .. L - d + e /\ m + d + j = k /\ j + d \in 1 .. L /\ m + (j + d) = k
      BY <1>9, <2>1, <2>4
    <3> HIDE DEF j
    <3>2. AnnouncedBytes'[k] = data'[sendData[j + d].ptr]
      BY <1>9, <1>16, <3>1
    <3> QED
      BY <1>13, <1>15, <3>1, <3>2 DEF L
  <2>5. k <= m \/ (d = 1 /\ k = m + 1) \/ k > m + d
    BY <1>9, <2>1
  <2> QED
    BY <2>2, <2>3, <2>4, <2>5
<1>19. ASSUME NEW x \in Bytes, NewBytes = {x} PROVE AnnouncedBytes'[m + L + 1] = x
  <2>1. PICK i \in Sends : x = data'[dir[i].ptr]
    BY <1>19 DEF NewBytes
  <2>2. e = 1
    BY DEF e
  <2>3. L - d + 1 \in 1 .. L - d + e /\ m + d + (L - d + 1) = m + L + 1
    <3>1. m \in Nat /\ L \in Nat
      BY <1>1 DEF L, m
    <3> QED
      BY <1>9, <2>2, <3>1
  <2>4. AnnouncedBytes'[m + d + (L - d + 1)] = data'[sendData'[L - d + 1].ptr]
    BY <1>16, <2>3
  <2>5. sendData'[L - d + 1].ptr = dir[i].ptr
    <3>1. sendData'[L - d + 1] = [tag |-> dir[i].tag, ptr |-> dir[i].ptr]
      BY <1>11, Zenon
    <3> QED
      BY <3>1
  <2> QED
    BY <2>1, <2>3, <2>4, <2>5
<1>20. NewBytes = {} <=> Sends = {}
  BY DEF NewBytes
<1>21. Extends(AnnouncedBytes', AnnouncedBytes, NewBytes, Bytes)
  <2>1. Len(AnnouncedBytes') = (m + L) + e /\ e = IF NewBytes = {} THEN 0 ELSE 1
    BY <1>16, <1>17, <1>20 DEF e
  <2> QED
    BY <1>15, <1>16, <1>18, <1>19, <2>1 DEF Extends
<1>22. \A i \in Dir : Sends = {i} => sendData'[L - d + 1].tag = dir[i].tag
  BY <1>11
<1> QED
  BY <1>9, <1>12, <1>21, <1>22 DEF L, m, d, e

----------------------------------------------------------------------------
(* Identifiers and channels                                                *)

\* An announced write carries the block of its entry, which stays SENT.
AnnouncedTags == \A k \in DOMAIN Announced : Announced[k].tag = dir[Announced[k].id].tag

ChanInv == IInv /\ OutstandingIds /\ ChannelsPaired /\ AnnouncedTags

\* What a cycle appends to the announced writes.
LEMMA ClockAppends ==
  ASSUME IInv, NEW r \in Reqs,
         NEW flushAll \in BOOLEAN, NEW awReady \in BOOLEAN, NEW wReady \in BOOLEAN,
         NEW ack \in Acks, Clock(r, flushAll, awReady, wReady, ack)
  PROVE  /\ Len(Announced) \in Nat
         /\ DOMAIN Announced = 1 .. Len(Announced)
         /\ DOMAIN Announced' = 1 .. Len(Announced')
         /\ \A k \in 1 .. Len(Announced) : Announced'[k] = Announced[k]
         /\ Len(Announced') = Len(Announced) + (IF Sends = {} THEN 0 ELSE 1)
         /\ Sends \subseteq InState("PEND")
         /\ \A i \in Sends : Announced'[Len(Announced) + 1] = [tag |-> dir[i].tag, id |-> i]
<1>1. Extends(Announced', Announced, NewMeta, Meta)
  BY ClockAnnounced
<1>2. TypeOK /\ TypeOK'
  BY ClockType DEF IInv
<1>3. Len(Announced) \in Nat /\ DOMAIN Announced = 1 .. Len(Announced)
  BY <1>2, AnnouncedTypes
<1>4. DOMAIN Announced' = 1 .. Len(Announced')
  BY <1>2, AnnouncedTypesNext
<1>5. Sends = {} <=> NewMeta = {}
  BY DEF NewMeta
<1>6. Sends = {} \/ \E i \in InState("PEND") : Sends = {i}
  BY SendsOnePend DEF IInv
<1>7. ASSUME NEW i \in Sends
      PROVE  Announced'[Len(Announced) + 1] = [tag |-> dir[i].tag, id |-> i]
  <2>1. Sends = {i} /\ i \in InState("PEND")
    BY <1>6
  <2>2. i \in Dir /\ [tag |-> dir[i].tag, id |-> i] \in Meta
    BY <2>1 DEF IInv, TypeOK, InState, Entry, Meta
  <2>3. NewMeta = {[tag |-> dir[i].tag, id |-> i]}
    BY <2>1 DEF NewMeta
  <2> QED
    BY <1>1, <2>2, <2>3, Zenon DEF Extends
<1>8. Sends \subseteq InState("PEND")
  BY <1>6
<1>9. Len(Announced') = Len(Announced) + (IF Sends = {} THEN 0 ELSE 1)
  BY <1>1, <1>5 DEF Extends
<1>10. \A k \in 1 .. Len(Announced) : Announced'[k] = Announced[k]
  BY <1>1 DEF Extends
<1> QED
  BY <1>3, <1>4, <1>7, <1>8, <1>9, <1>10

\* The identifiers in flight, one by one.
IdFacts ==
  /\ \A k \in DOMAIN Announced : /\ Announced[k].id \in Dir
                                 /\ dir[Announced[k].id].state = "SENT"
                                 /\ Announced[k].id \notin resp
  /\ \A i \in resp : i \in Dir /\ dir[i].state = "SENT"
  /\ \A i \in Dir : dir[i].state = "SENT" =>
       i \in resp \/ \E k \in DOMAIN Announced : Announced[k].id = i
  /\ \A k, l \in DOMAIN Announced : Announced[k].id = Announced[l].id => k = l

\* They say the same as the property about the identifiers as sets.
LEMMA IdsOneByOne == OutstandingIds <=> IdFacts
<1>1. ASSUME OutstandingIds PROVE IdFacts
  <2>1. \A k \in DOMAIN Announced : Announced[k].id \in InState("SENT")
    BY <1>1, Zenon DEF OutstandingIds
  <2>2. \A i \in resp : i \in InState("SENT")
    BY <1>1, Zenon DEF OutstandingIds
  <2>3. \A i \in InState("SENT") : i \in resp \/ \E k \in DOMAIN Announced : i = Announced[k].id
    BY <1>1, Zenon DEF OutstandingIds
  <2> QED
    BY <1>1, <2>1, <2>2, <2>3 DEF OutstandingIds, IdFacts, InState
<1>2. ASSUME IdFacts PROVE OutstandingIds
  <2>1. {Announced[k].id : k \in DOMAIN Announced} \cup resp = InState("SENT")
    <3>1. ASSUME NEW i \in InState("SENT"), i \notin resp
          PROVE  i \in {Announced[k].id : k \in DOMAIN Announced}
      <4>1. PICK k \in DOMAIN Announced : Announced[k].id = i
        BY <1>2, <3>1 DEF IdFacts, InState
      <4> QED
        BY <4>1
    <3>2. {Announced[k].id : k \in DOMAIN Announced} \subseteq InState("SENT")
      BY <1>2 DEF IdFacts, InState
    <3>3. resp \subseteq InState("SENT")
      BY <1>2 DEF IdFacts, InState
    <3> QED
      BY <3>1, <3>2, <3>3
  <2> QED
    BY <1>2, <2>1 DEF IdFacts, OutstandingIds
<1> QED
  BY <1>1, <1>2

\* A cycle keeps the identifiers in flight those of the SENT entries.
LEMMA ClockIds ==
  ASSUME ChanInv, NEW r \in Reqs,
         NEW flushAll \in BOOLEAN, NEW awReady \in BOOLEAN, NEW wReady \in BOOLEAN,
         NEW ack \in Acks, Clock(r, flushAll, awReady, wReady, ack)
  PROVE  OutstandingIds' /\ AnnouncedTags'
<1>1. IInv /\ IdFacts /\ AnnouncedTags
  BY IdsOneByOne DEF ChanInv
<1> DEFINE n == Len(Announced)
           e == IF Sends = {} THEN 0 ELSE 1
<1>2. /\ n \in Nat /\ DOMAIN Announced = 1 .. n /\ DOMAIN Announced' = 1 .. n + e
      /\ \A k \in 1 .. n : Announced'[k] = Announced[k]
      /\ Sends \subseteq InState("PEND")
      /\ \A i \in Sends : Announced'[n + 1] = [tag |-> dir[i].tag, id |-> i]
  BY <1>1, ClockAppends
<1>3. /\ Sends = {} \/ \E i \in Dir : Sends = {i}
      /\ \A i \in Sends : i \in Dir /\ dir[i].state = "PEND"
      /\ e \in {0, 1} /\ (e = 1 <=> Sends # {})
  BY <1>1, SendsOnePend DEF IInv, InState
<1> HIDE DEF n, e
<1>4. ASSUME NEW i \in Dir
      PROVE  /\ (dir'[i].state = "SENT") <=> (i \in Sends \/ (dir[i].state = "SENT" /\ i \notin ack))
             /\ dir[i].state \in {"PEND", "SENT"} => dir'[i].tag = dir[i].tag
  <2>1. dir'[i] = EntryNext(i, r, flushAll, ack)
    BY DEF Clock
  <2>2. TypeOK /\ dir[i].state \in {"FREE", "OPEN", "PEND", "SENT"}
    BY <1>1 DEF IInv, TypeOK, Entry
  <2>3. i \in Sends => dir[i].state = "PEND"
    BY <1>3
  <2>4. CASE dir[i].state = "FREE"
    BY <2>1, <2>2, <2>3, <2>4, EntryNextCases
  <2>5. CASE dir[i].state = "OPEN"
    BY <2>1, <2>2, <2>3, <2>5, EntryNextCases
  <2>6. CASE dir[i].state = "PEND"
    BY <2>1, <2>2, <2>3, <2>6, EntryNextCases
  <2>7. CASE dir[i].state = "SENT"
    BY <2>1, <2>2, <2>3, <2>7, EntryNextCases
  <2> QED
    BY <2>2, <2>4, <2>5, <2>6, <2>7
<1>5. \A k \in 1 .. n : /\ Announced[k].id \in Dir /\ dir[Announced[k].id].state = "SENT"
                        /\ Announced[k].id \notin resp
  BY <1>1, <1>2 DEF IdFacts
<1>6. (\A i \in resp : i \in Dir /\ dir[i].state = "SENT") /\ ack \subseteq resp /\ resp' = resp \ ack
  BY <1>1 DEF IdFacts, Acks, Clock
<1>7. ASSUME NEW k \in DOMAIN Announced'
      PROVE  \/ k \in 1 .. n /\ Announced'[k] = Announced[k]
             \/ \E i \in Sends : k = n + 1 /\ Announced'[k] = [tag |-> dir[i].tag, id |-> i]
  <2>1. k \in 1 .. n \/ (k = n + 1 /\ e = 1)
    BY <1>2, <1>3
  <2> QED
    BY <1>2, <1>3, <2>1
<1>8. ASSUME NEW k \in DOMAIN Announced'
      PROVE  /\ Announced'[k].id \in Dir /\ dir'[Announced'[k].id].state = "SENT"
             /\ Announced'[k].id \notin resp'
             /\ Announced'[k].tag = dir'[Announced'[k].id].tag
  <2>1. CASE k \in 1 .. n /\ Announced'[k] = Announced[k]
    <3>1. Announced[k].tag = dir[Announced[k].id].tag
      BY <1>1, <1>2, <2>1 DEF AnnouncedTags
    <3> QED
      BY <1>4, <1>5, <1>6, <2>1, <3>1
  <2>2. ASSUME NEW i \in Sends, Announced'[k] = [tag |-> dir[i].tag, id |-> i]
        PROVE  /\ Announced'[k].id \in Dir /\ dir'[Announced'[k].id].state = "SENT"
               /\ Announced'[k].id \notin resp'
               /\ Announced'[k].tag = dir'[Announced'[k].id].tag
    <3>1. Announced'[k].id = i /\ Announced'[k].tag = dir[i].tag
      BY <2>2
    <3>2. i \in Dir /\ dir[i].state = "PEND"
      BY <1>3
    <3>3. dir'[i].state = "SENT" /\ dir'[i].tag = dir[i].tag /\ i \notin resp'
      BY <1>4, <1>6, <3>2
    <3> QED
      BY <3>1, <3>2, <3>3
  <2> QED
    BY <1>7, <2>1, <2>2
<1>9. ASSUME NEW i \in Dir, dir'[i].state = "SENT", i \notin resp'
      PROVE  \E k \in DOMAIN Announced' : Announced'[k].id = i
  <2>1. CASE i \in Sends
    <3>1. n + 1 \in DOMAIN Announced'
      BY <1>2, <1>3, <2>1
    <3>2. Announced'[n + 1] = [tag |-> dir[i].tag, id |-> i]
      BY <1>2, <2>1
    <3> QED
      BY <3>1, <3>2
  <2>2. CASE i \notin Sends
    <3>1. dir[i].state = "SENT" /\ i \notin resp
      BY <1>4, <1>6, <1>9, <2>2
    <3>2. PICK k \in 1 .. n : Announced[k].id = i
      BY <1>1, <1>2, <3>1 DEF IdFacts
    <3>3. k \in DOMAIN Announced'
      BY <1>2, <1>3
    <3>4. Announced'[k].id = i
      BY <1>2, <3>2
    <3> QED
      BY <3>3, <3>4
  <2> QED
    BY <2>1, <2>2
<1>10. ASSUME NEW k \in DOMAIN Announced', NEW l \in DOMAIN Announced', Announced'[k].id = Announced'[l].id
       PROVE  k = l
  <2>1. \A j \in 1 .. n : Announced[j].id \notin Sends
    BY <1>3, <1>5
  <2>2. \A j \in DOMAIN Announced' :
          \/ j \in 1 .. n /\ Announced'[j] = Announced[j]
          \/ j = n + 1 /\ Announced'[j].id \in Sends
    BY <1>7
  <2>3. \A i, j \in 1 .. n : Announced[i].id = Announced[j].id => i = j
    BY <1>1, <1>2 DEF IdFacts
  <2> QED
    BY <1>10, <2>1, <2>2, <2>3
<1>11. \A i \in resp' : i \in Dir /\ dir'[i].state = "SENT"
  BY <1>4, <1>6
<1>12. IdFacts'
  BY <1>8, <1>9, <1>10, <1>11 DEF IdFacts
<1>13. OutstandingIds'
  BY <1>12, IdsOneByOne, PTL
<1> QED
  BY <1>8, <1>13 DEF AnnouncedTags

\* A cycle keeps the k-th data item that of the k-th address.
LEMMA ClockPaired ==
  ASSUME ChanInv, NEW r \in Reqs,
         NEW flushAll \in BOOLEAN, NEW awReady \in BOOLEAN, NEW wReady \in BOOLEAN,
         NEW ack \in Acks, Clock(r, flushAll, awReady, wReady, ack)
  PROVE  ChannelsPaired'
<1> DEFINE n == Len(Announced)
           L == Len(sendData)
           m == Len(memW)
           d == Popped(sendData, wReady)
           e == IF Sends = {} THEN 0 ELSE 1
<1>1. IInv /\ ChannelsPaired /\ TypeOK /\ TypeOK'
  BY ClockType DEF ChanInv, IInv
<1>2. /\ \A k \in 1 .. n : Announced'[k] = Announced[k]
      /\ Len(Announced') = n + e
      /\ \A i \in Sends : Announced'[n + 1] = [tag |-> dir[i].tag, id |-> i]
  BY <1>1, ClockAppends
<1>3. /\ Len(memW') = m + d
      /\ Len(sendData') = L - d + e
      /\ \A k \in 1 .. L - d : sendData'[k] = sendData[k + d]
      /\ \A i \in Dir : Sends = {i} => sendData'[L - d + 1].tag = dir[i].tag
  BY <1>1, ClockBytes
<1>4. n \in Nat /\ L \in Nat /\ m \in Nat /\ n = m + L /\ DOMAIN sendData = 1 .. L
  BY <1>1, AnnouncedTypes DEF ChannelsPaired
<1>5. Len(AnnouncedBytes') = Len(memW') + Len(sendData') /\ DOMAIN sendData' = 1 .. Len(sendData')
  BY <1>1, AnnouncedTypesNext
<1>6. d \in {0, 1} /\ e \in {0, 1} /\ L - d \in Nat
  <2>1. sendData = <<>> => d = 0
    BY DEF Popped
  <2>2. sendData # <<>> => L # 0
    <3>1. sendData \in Seq(SendD)
      BY <1>1 DEF TypeOK, SendD
    <3> QED
      BY <3>1, EmptySeq
  <2> QED
    BY <1>4, <2>1, <2>2 DEF Popped
<1>7. Sends = {} \/ \E i \in Dir : Sends = {i}
  BY <1>1, SendsOnePend DEF IInv, InState
<1>8. e = 1 => Sends # {}
  OBVIOUS
<1> HIDE DEF n, L, m, d, e
<1>9. Len(Announced') = Len(AnnouncedBytes')
  <2>1. n + e = (m + d) + (L - d + e)
    BY <1>4, <1>6
  <2> QED
    BY <1>2, <1>3, <1>5, <2>1
<1>10. ASSUME NEW k \in DOMAIN sendData'
       PROVE  sendData'[k].tag = Announced'[Len(memW') + k].tag
  <2>1. k \in 1 .. L - d + e
    BY <1>3, <1>5
  <2>2. CASE k \in 1 .. L - d
    <3>1. k + d \in 1 .. L /\ m + (k + d) = (m + d) + k /\ m + (k + d) \in 1 .. n
      BY <1>4, <1>6, <2>2
    <3>2. sendData[k + d].tag = Announced[m + (k + d)].tag
      BY <1>1, <1>4, <3>1 DEF ChannelsPaired, m
    <3> QED
      BY <1>2, <1>3, <2>2, <3>1, <3>2
  <2>3. CASE k \notin 1 .. L - d
    <3>1. k = L - d + 1 /\ e = 1
      BY <1>6, <2>1, <2>3
    <3>2. PICK i \in Dir : Sends = {i}
      BY <1>7, <1>8, <3>1
    <3>3. (m + d) + k = n + 1
      BY <1>4, <1>6, <3>1
    <3>4. sendData'[k].tag = dir[i].tag /\ Announced'[n + 1].tag = dir[i].tag
      <4>1. sendData'[L - d + 1].tag = dir[i].tag
        BY <1>3, <3>2
      <4>2. i \in Sends
        BY <3>2
      <4>3. Announced'[n + 1] = [tag |-> dir[i].tag, id |-> i]
        BY <1>2, <4>2, Zenon
      <4> QED
        BY <3>1, <4>1, <4>3
    <3> QED
      BY <1>3, <3>3, <3>4
  <2> QED
    BY <2>2, <2>3
<1> QED
  BY <1>9, <1>10 DEF ChannelsPaired


----------------------------------------------------------------------------
(* A write that the memory performs                                        *)

\* The place, before item k left, of the item that is now at j.
Before(j, k) == IF j < k THEN j ELSE j + 1

\* Every item but the k-th stays, and the items keep their order.
LEMMA BeforeFacts ==
  ASSUME NEW n \in Nat, NEW k \in 1 .. n
  PROVE  /\ \A j \in 1 .. n - 1 : Before(j, k) \in 1 .. n /\ Before(j, k) # k
         /\ \A i, j \in 1 .. n - 1 : Before(i, k) = Before(j, k) => i = j
         /\ \A i, j \in 1 .. n - 1 : i <= j => Before(i, k) <= Before(j, k)
         /\ \A l \in 1 .. n : l # k => \E j \in 1 .. n - 1 : Before(j, k) = l
<1>1. ASSUME NEW l \in 1 .. n, l # k PROVE \E j \in 1 .. n - 1 : Before(j, k) = l
  <2>1. CASE l < k
    <3>1. l \in 1 .. n - 1 /\ Before(l, k) = l
      BY <2>1 DEF Before
    <3> QED
      BY <3>1
  <2>2. CASE l > k
    <3>1. l - 1 \in 1 .. n - 1 /\ Before(l - 1, k) = l
      BY <2>2 DEF Before
    <3> QED
      BY <3>1
  <2> QED
    BY <1>1, <2>1, <2>2
<1>2. \A j \in 1 .. n - 1 : Before(j, k) \in 1 .. n /\ Before(j, k) # k
  BY DEF Before
<1>3. \A i, j \in 1 .. n - 1 : Before(i, k) = Before(j, k) => i = j
  BY DEF Before
<1>4. \A i, j \in 1 .. n - 1 : i <= j => Before(i, k) <= Before(j, k)
  BY DEF Before
<1> QED
  BY <1>1, <1>2, <1>3, <1>4

\* A sequence that drops an item, item by item.
LEMMA DropsBefore ==
  ASSUME NEW S, NEW c \in Seq(S), NEW k \in 1 .. Len(c), NEW b, Drops(b, c, k, S)
  PROVE  Len(b) = Len(c) - 1 /\ \A j \in 1 .. Len(c) - 1 : b[j] = c[Before(j, k)]
<1>1. Len(c) \in Nat
  BY LenProperties
<1>2. Len(b) = Len(c) - 1
  BY DEF Drops
<1>3. ASSUME NEW j \in 1 .. Len(c) - 1 PROVE b[j] = c[Before(j, k)]
  <2>1. CASE j < k
    <3>1. j \in 1 .. k - 1
      BY <1>1, <2>1
    <3> QED
      BY <2>1, <3>1 DEF Drops, Before
  <2>2. CASE ~(j < k)
    <3>1. j \in k .. Len(b)
      BY <1>1, <1>2, <2>2
    <3> QED
      BY <2>2, <3>1 DEF Drops, Before
  <2> QED
    BY <2>1, <2>2
<1> QED
  BY <1>2, <1>3

\* The performed write leaves the announced writes; nothing else changes.
LEMMA PerformDrops ==
  ASSUME TypeOK, NEW k \in 1 .. DirN, MemPerform(k)
  PROVE  /\ k \in 1 .. Len(memAw) /\ k \in 1 .. Len(memW)
         /\ Announced[k] = memAw[k] /\ AnnouncedBytes[k] = memW[k]
         /\ Len(Announced') = Len(Announced) - 1
         /\ Len(AnnouncedBytes') = Len(AnnouncedBytes) - 1
         /\ Len(memW') = Len(memW) - 1
         /\ \A j \in 1 .. Len(Announced) - 1 : Announced'[j] = Announced[Before(j, k)]
         /\ \A j \in 1 .. Len(AnnouncedBytes) - 1 : AnnouncedBytes'[j] = AnnouncedBytes[Before(j, k)]
<1> DEFINE tl == [i \in DOMAIN sendData |-> data[sendData[i].ptr]]
<1>1. /\ memAw \in Seq(Meta) /\ sendMeta \in Seq(Meta)
      /\ memW \in Seq(Bytes) /\ sendData \in Seq(SendD) /\ data \in [Data -> Bytes]
  BY DEF TypeOK, Meta, SendD
<1>2. k \in 1 .. Len(memAw) /\ k \in 1 .. Len(memW) /\ Len(memAw) \in Nat /\ Len(memW) \in Nat
  BY <1>1, LenProperties, SizeAssumption DEF MemPerform
<1>3. tl \in Seq(Bytes)
  <2>1. DOMAIN sendData = 1 .. Len(sendData) /\ Len(sendData) \in Nat
    BY <1>1, LenProperties
  <2>2. \A i \in 1 .. Len(sendData) : sendData[i] \in SendD
    BY <1>1, ElementOfSeq
  <2>3. tl \in [1 .. Len(sendData) -> Bytes]
    BY <1>1, <2>1, <2>2 DEF SendD
  <2> HIDE DEF tl
  <2> QED
    BY <2>1, <2>3
<1>4. /\ AnnouncedBytes = memW \o tl /\ Announced = memAw \o sendMeta
      /\ AnnouncedBytes' = DropAt(memW, k) \o tl /\ Announced' = DropAt(memAw, k) \o sendMeta
      /\ memW' = DropAt(memW, k)
  BY DEF AnnouncedBytes, Announced, MemPerform, regs
<1> HIDE DEF tl
<1>5. Drops(Announced', Announced, k, Meta)
  BY <1>1, <1>2, <1>4, DropItems
<1>6. Drops(AnnouncedBytes', AnnouncedBytes, k, Bytes) /\ Len(memW') = Len(memW) - 1
  BY <1>1, <1>2, <1>3, <1>4, DropItems
<1>7. /\ Announced \in Seq(Meta) /\ AnnouncedBytes \in Seq(Bytes)
      /\ k \in 1 .. Len(Announced) /\ k \in 1 .. Len(AnnouncedBytes)
  BY <1>2, AnnouncedTypes
<1>8. Announced[k] = memAw[k]
  <2>1. Len(sendMeta) \in Nat /\ k <= Len(memAw) /\ k \in 1 .. Len(memAw) + Len(sendMeta)
    BY <1>1, <1>2, LenProperties
  <2> QED
    BY <1>1, <1>4, <2>1, ConcatProperties
<1>9. AnnouncedBytes[k] = memW[k]
  <2>1. Len(tl) \in Nat /\ k <= Len(memW) /\ k \in 1 .. Len(memW) + Len(tl)
    BY <1>2, <1>3, LenProperties
  <2> QED
    BY <1>1, <1>3, <1>4, <2>1, ConcatProperties
<1>10. /\ Len(Announced') = Len(Announced) - 1
       /\ \A j \in 1 .. Len(Announced) - 1 : Announced'[j] = Announced[Before(j, k)]
  BY <1>5, <1>7, DropsBefore
<1>11. /\ Len(AnnouncedBytes') = Len(AnnouncedBytes) - 1
       /\ \A j \in 1 .. Len(AnnouncedBytes) - 1 : AnnouncedBytes'[j] = AnnouncedBytes[Before(j, k)]
  BY <1>6, <1>7, DropsBefore
<1> QED
  BY <1>2, <1>6, <1>8, <1>9, <1>10, <1>11


\* A performed write moves its identifier to the responses.
LEMMA PerformIds ==
  ASSUME ChanInv, NEW k \in 1 .. DirN, MemPerform(k)
  PROVE  OutstandingIds' /\ AnnouncedTags'
<1>1. TypeOK /\ IdFacts /\ AnnouncedTags
  BY IdsOneByOne DEF ChanInv, IInv
<1> DEFINE n == Len(Announced)
<1>2. n \in Nat /\ DOMAIN Announced = 1 .. n /\ k \in 1 .. n
  <2>1. k \in 1 .. Len(memAw)
    BY <1>1, PerformDrops
  <2>2. /\ n \in Nat /\ DOMAIN Announced = 1 .. n
        /\ n = Len(memAw) + Len(sendMeta) /\ Len(memAw) \in Nat /\ Len(sendMeta) \in Nat
    BY <1>1, AnnouncedTypes
  <2> QED
    BY <2>1, <2>2
<1>3. TypeOK'
  BY <1>1, MemPerformType
<1>4. /\ DOMAIN Announced' = 1 .. n - 1
      /\ \A j \in 1 .. n - 1 : Announced'[j] = Announced[Before(j, k)]
      /\ Announced[k] = memAw[k]
  <2>1. DOMAIN Announced' = 1 .. Len(Announced')
    BY <1>3, AnnouncedTypesNext
  <2>2. /\ Len(Announced') = n - 1
        /\ \A j \in 1 .. n - 1 : Announced'[j] = Announced[Before(j, k)]
        /\ Announced[k] = memAw[k]
    BY <1>1, PerformDrops
  <2> QED
    BY <2>1, <2>2
<1>5. dir' = dir /\ resp' = resp \cup {Announced[k].id}
  BY <1>4 DEF MemPerform, regs
<1>6. /\ \A j \in 1 .. n - 1 : Before(j, k) \in 1 .. n /\ Before(j, k) # k
      /\ \A i, j \in 1 .. n - 1 : Before(i, k) = Before(j, k) => i = j
      /\ \A l \in 1 .. n : l # k => \E j \in 1 .. n - 1 : Before(j, k) = l
  BY <1>2, BeforeFacts
<1> HIDE DEF n
<1>7. ASSUME NEW j \in DOMAIN Announced'
      PROVE  /\ Announced'[j].id \in Dir /\ dir'[Announced'[j].id].state = "SENT"
             /\ Announced'[j].id \notin resp'
             /\ Announced'[j].tag = dir'[Announced'[j].id].tag
  <2>1. PICK l \in 1 .. n : l # k /\ Announced'[j] = Announced[l]
    BY <1>4, <1>6
  <2>2. /\ Announced[l].id \in Dir /\ dir[Announced[l].id].state = "SENT"
        /\ Announced[l].id \notin resp /\ Announced[l].id # Announced[k].id
        /\ Announced[l].tag = dir[Announced[l].id].tag
    BY <1>1, <1>2, <2>1 DEF IdFacts, AnnouncedTags
  <2> QED
    BY <1>5, <2>1, <2>2
<1>8. ASSUME NEW i \in Dir, dir'[i].state = "SENT", i \notin resp'
      PROVE  \E j \in DOMAIN Announced' : Announced'[j].id = i
  <2>1. dir[i].state = "SENT" /\ i \notin resp /\ i # Announced[k].id
    BY <1>5, <1>8
  <2>2. PICK l \in 1 .. n : Announced[l].id = i
    BY <1>1, <1>2, <2>1 DEF IdFacts
  <2>3. PICK j \in 1 .. n - 1 : Before(j, k) = l
    BY <1>6, <2>1, <2>2
  <2> QED
    BY <1>4, <2>2, <2>3
<1>9. ASSUME NEW i \in DOMAIN Announced', NEW j \in DOMAIN Announced', Announced'[i].id = Announced'[j].id
      PROVE  i = j
  <2>1. Before(i, k) \in 1 .. n /\ Before(j, k) \in 1 .. n
    BY <1>4, <1>6
  <2>2. Announced[Before(i, k)].id = Announced[Before(j, k)].id
    BY <1>4, <1>9
  <2>3. Before(i, k) = Before(j, k)
    BY <1>1, <1>2, <2>1, <2>2 DEF IdFacts
  <2> QED
    BY <1>4, <1>6, <2>3
<1>10. \A i \in resp' : i \in Dir /\ dir'[i].state = "SENT"
  BY <1>1, <1>2, <1>5 DEF IdFacts
<1>11. IdFacts'
  BY <1>7, <1>8, <1>9, <1>10 DEF IdFacts
<1>12. OutstandingIds'
  BY <1>11, IdsOneByOne, PTL
<1> QED
  BY <1>7, <1>12 DEF AnnouncedTags

\* A performed write leaves both channels at the same place.
LEMMA PerformPaired ==
  ASSUME ChanInv, NEW k \in 1 .. DirN, MemPerform(k)
  PROVE  ChannelsPaired'
<1> DEFINE n == Len(Announced)
           m == Len(memW)
<1>1. TypeOK /\ ChannelsPaired
  BY DEF ChanInv, IInv
<1>2. /\ n \in Nat /\ m \in Nat /\ Len(AnnouncedBytes) = n /\ k \in 1 .. m /\ k \in 1 .. n
      /\ n = m + Len(sendData) /\ Len(sendData) \in Nat /\ DOMAIN sendData = 1 .. Len(sendData)
  <2>1. k \in 1 .. m
    BY <1>1, PerformDrops
  <2>2. /\ n \in Nat /\ m \in Nat /\ Len(AnnouncedBytes) = n
        /\ n = m + Len(sendData) /\ Len(sendData) \in Nat /\ DOMAIN sendData = 1 .. Len(sendData)
    BY <1>1, AnnouncedTypes DEF ChannelsPaired
  <2> QED
    BY <2>1, <2>2
<1>3. /\ Len(Announced') = n - 1 /\ Len(AnnouncedBytes') = n - 1 /\ Len(memW') = m - 1
      /\ \A j \in 1 .. n - 1 : Announced'[j] = Announced[Before(j, k)]
  BY <1>1, <1>2, PerformDrops
<1>4. sendData' = sendData
  BY DEF MemPerform, regs
<1>5. \A i \in DOMAIN sendData : sendData[i].tag = Announced[m + i].tag
  BY <1>1 DEF ChannelsPaired
<1> HIDE DEF n, m
<1>6. ASSUME NEW i \in DOMAIN sendData PROVE sendData[i].tag = Announced'[(m - 1) + i].tag
  <2>1. (m - 1) + i \in 1 .. n - 1 /\ Before((m - 1) + i, k) = m + i
    BY <1>2 DEF Before
  <2> QED
    BY <1>3, <1>5, <2>1
<1> QED
  BY <1>3, <1>4, <1>6 DEF ChannelsPaired

\* The identifiers and the channels, inductively.
LEMMA InitChanInv == Init => ChanInv
<1> SUFFICES ASSUME Init PROVE ChanInv
  OBVIOUS
<1>1. IInv
  BY InitIInv
<1>2. TypeOK
  BY <1>1 DEF IInv
<1>3. /\ Len(memAw) = 0 /\ Len(memW) = 0 /\ Len(sendMeta) = 0 /\ Len(sendData) = 0
  BY DEF Init
<1>4. DOMAIN Announced = {} /\ DOMAIN sendData = {} /\ Len(Announced) = Len(AnnouncedBytes)
  BY <1>2, <1>3, AnnouncedTypes
<1>5. resp = {} /\ InState("SENT") = {}
  BY DEF Init, InState
<1> QED
  BY <1>1, <1>4, <1>5 DEF ChanInv, OutstandingIds, ChannelsPaired, AnnouncedTags

\* Every step preserves them.
LEMMA NextChanInv == ChanInv /\ [Next]_vars => ChanInv'
<1> SUFFICES ASSUME ChanInv, [Next]_vars PROVE ChanInv'
  OBVIOUS
<1>1. IInv'
  BY NextIInv DEF ChanInv
<1>2. ASSUME UNCHANGED <<regs, env>> PROVE ChanInv'
  <2>1. Announced' = Announced /\ AnnouncedBytes' = AnnouncedBytes
    BY <1>2 DEF regs, env, Announced, AnnouncedBytes
  <2>2. UNCHANGED <<dir, resp, sendData, memW>> /\ InState("SENT")' = InState("SENT")
    BY <1>2 DEF regs, env, InState
  <2> QED
    BY <1>1, <2>1, <2>2 DEF ChanInv, OutstandingIds, ChannelsPaired, AnnouncedTags
<1>3. ASSUME NEW r \in Reqs, NEW flushAll \in BOOLEAN, NEW awReady \in BOOLEAN,
             NEW wReady \in BOOLEAN, NEW ack \in Acks, Clock(r, flushAll, awReady, wReady, ack)
      PROVE  ChanInv'
  BY <1>1, <1>3, ClockIds, ClockPaired DEF ChanInv
<1>4. ASSUME NEW k \in 1 .. DirN, MemPerform(k) PROVE ChanInv'
  BY <1>1, <1>4, PerformIds, PerformPaired DEF ChanInv
<1>5. ASSUME NEW c \in Cfgs, SetCfg(c) PROVE ChanInv'
  BY <1>2, <1>5 DEF SetCfg
<1>6. CASE UNCHANGED vars
  BY <1>2, <1>6 DEF vars
<1>7. Readies(sendMeta) \subseteq BOOLEAN /\ Readies(sendData) \subseteq BOOLEAN
  BY DEF Readies
<1> QED
  BY <1>3, <1>4, <1>5, <1>6, <1>7, Zenon DEF Next

\* The invariant holds in every reachable state.
THEOREM ChannelInvariant == Spec => []ChanInv
  BY InitChanInv, NextChanInv, PTL DEF Spec

(* The ids the memory knows are those of the SENT entries, each in flight  *)
(* once: an entry, which is a transaction id, is never reused before its   *)
(* acknowledge, in whatever order the memory performs and answers.         *)
THEOREM IdsOutstanding == Spec => []OutstandingIds
<1>1. ChanInv => OutstandingIds
  BY DEF ChanInv
<1> QED
  BY <1>1, ChannelInvariant, PTL

(* The address and data channels, which drain independently, stay paired,  *)
(* also when the memory performs writes out of order.                      *)
THEOREM PairedChannels == Spec => []ChannelsPaired
<1>1. ChanInv => ChannelsPaired
  BY DEF ChanInv
<1> QED
  BY <1>1, ChannelInvariant, PTL


----------------------------------------------------------------------------
(* Coherence                                                               *)

\* The entries, and the announced writes, that hold byte b of block t.
Gathering(t, b) == {i \in Active : dir[i].tag = t /\ data[dir[i].ptr][b] # NoVal}
AnnouncedWith(t, b) ==
  {k \in DOMAIN Announced : Announced[k].tag = t /\ AnnouncedBytes[k][b] # NoVal}

\* v is the byte that is left when everything buffered has been performed.
Drained(t, b, v) ==
  /\ \A i \in Gathering(t, b) : v = data[dir[i].ptr][b]
  /\ Gathering(t, b) = {} =>
       \A k \in AnnouncedWith(t, b) :
         (\A l \in AnnouncedWith(t, b) : l <= k) => v = AnnouncedBytes[k][b]
  /\ Gathering(t, b) = {} /\ AnnouncedWith(t, b) = {} => v = mem[t][b]

\* A nonempty set of places in a sequence has a last one.
LEMMA LastExists ==
  ASSUME NEW n \in Nat, NEW S \in SUBSET (1 .. n), S # {}
  PROVE  \E k \in S : \A l \in S : l <= k
<1> DEFINE T == {n - k : k \in S}
<1>1. T \in SUBSET Nat /\ T # {}
  <2>1. \A k \in S : n - k \in Nat
    OBVIOUS
  <2>2. T \in SUBSET Nat
    BY <2>1
  <2>3. T # {}
    OBVIOUS
  <2> QED
    BY <2>2, <2>3
<1>2. PICK x \in T : \A y \in T : x <= y
  <2> HIDE DEF T
  <2> QED
    BY <1>1, LeastExists
<1>3. PICK k \in S : x = n - k
  OBVIOUS
<1>4. ASSUME NEW l \in S PROVE l <= k
  <2>1. n - k <= n - l
    BY <1>2, <1>3
  <2>2. k \in Int /\ l \in Int
    OBVIOUS
  <2> QED
    BY <2>1, <2>2
<1> QED
  BY <1>4

\* One entry gathers, and one announced write is the last: they are chosen.
LEMMA DrainedChosen ==
  ASSUME IInv, NEW t \in Tag, NEW b \in Byte, NEW v
  PROVE  DrainedValue(t, b) = v <=> Drained(t, b, v)
<1> DEFINE G == Gathering(t, b)
           A == AnnouncedWith(t, b)
<1>1. DrainedValue(t, b) = IF G # {} THEN data[dir[CHOOSE i \in G : TRUE].ptr][b]
                           ELSE IF A # {} THEN AnnouncedBytes[CHOOSE k \in A : \A l \in A : l <= k][b]
                           ELSE mem[t][b]
  BY DEF DrainedValue, Gathering, AnnouncedWith
<1>2. \A i, j \in G : i = j
  BY DEF Gathering, IInv, OneActiveEntryPerTag
<1>3. Len(Announced) \in Nat /\ A \in SUBSET (1 .. Len(Announced))
  BY AnnouncedTypes DEF IInv, AnnouncedWith
<1>4. Drained(t, b, v) <=>
        /\ \A i \in G : v = data[dir[i].ptr][b]
        /\ G = {} => \A k \in A : (\A l \in A : l <= k) => v = AnnouncedBytes[k][b]
        /\ G = {} /\ A = {} => v = mem[t][b]
  BY DEF Drained
<1> HIDE DEF G, A
<1>5. CASE G # {}
  <2> DEFINE g == CHOOSE i \in G : TRUE
  <2>1. g \in G /\ \A i \in G : i = g
    BY <1>2, <1>5
  <2>2. DrainedValue(t, b) = data[dir[g].ptr][b]
    BY <1>1, <1>5
  <2> HIDE DEF g
  <2> QED
    BY <1>4, <1>5, <2>1, <2>2
<1>6. CASE G = {} /\ A # {}
  <2> DEFINE c == CHOOSE k \in A : \A l \in A : l <= k
  <2>1. c \in A /\ \A l \in A : l <= c
    BY <1>3, <1>6, LastExists
  <2>2. DrainedValue(t, b) = AnnouncedBytes[c][b]
    BY <1>1, <1>6
  <2> HIDE DEF c
  <2>3. ASSUME NEW k \in A, \A l \in A : l <= k PROVE k = c
    <3>1. k <= c /\ c <= k /\ k \in Int /\ c \in Int
      BY <1>3, <2>1, <2>3
    <3> QED
      BY <3>1
  <2> QED
    BY <1>4, <1>6, <2>1, <2>2, <2>3
<1>7. CASE G = {} /\ A = {}
  BY <1>1, <1>4, <1>7
<1> QED
  BY <1>5, <1>6, <1>7

\* The bytes that a cycle leaves in the buffer of an entry that gathers.
LEMMA GatheredBytes ==
  ASSUME IInv, NEW r \in Reqs,
         NEW flushAll \in BOOLEAN, NEW awReady \in BOOLEAN, NEW wReady \in BOOLEAN,
         NEW ack \in Acks, Clock(r, flushAll, awReady, wReady, ack),
         NEW i \in Active
  PROVE  data'[dir[i].ptr] = IF IsWrite(r) /\ ~cfg.inhibit /\ dir[i].tag = r.tag
                               THEN Merge(data[dir[i].ptr], r.data) ELSE data[dir[i].ptr]
<1> DEFINE T == OpenTarget(r) \cup PendTarget(r)
<1>1. i \in Dir /\ dir[i].ptr \in Data /\ dir[i].ptr \in dataValid
  BY DEF IInv, TypeOK, BufferOwnership, Active, InState, Entry
<1>2. ~(Allocates(r) /\ dir[i].ptr \in DataGrant)
  BY <1>1, GrantsOnAllocation DEF IInv, FreeData
<1>3. T \subseteq Active
  BY DEF OpenTarget, PendTarget, LastHit, Hit, InState, Active
<1>4. dir[i].ptr \in CoalesceInto(r) <=> i \in T
  BY <1>3 DEF CoalesceInto, IInv, BufferOwnership
<1>5. ASSUME IsWrite(r), ~cfg.inhibit, dir[i].tag = r.tag PROVE i \in T
  <2>1. i \in Hit("OPEN", r.tag) \/ i \in Hit("PEND", r.tag)
    BY <1>5 DEF Active, Hit, InState
  <2>2. \A j \in Hit("OPEN", r.tag) \cup Hit("PEND", r.tag) : j = i
    BY <1>5 DEF Active, Hit, InState, IInv, OneActiveEntryPerTag
  <2>3. i <= i
    BY <1>1, SizeAssumption DEF Dir
  <2> QED
    BY <1>5, <2>1, <2>2, <2>3 DEF OpenTarget, PendTarget, LastHit
<1>6. i \in T => IsWrite(r) /\ ~cfg.inhibit /\ dir[i].tag = r.tag
  BY DEF OpenTarget, PendTarget, LastHit, Hit
<1> HIDE DEF T
<1> QED
  BY <1>1, <1>2, <1>4, <1>5, <1>6 DEF Clock, DataNext

\* The bytes that a cycle leaves in the buffer of a new entry.
LEMMA AllocatedBytes ==
  ASSUME IInv, NEW r \in Reqs,
         NEW flushAll \in BOOLEAN, NEW awReady \in BOOLEAN, NEW wReady \in BOOLEAN,
         NEW ack \in Acks, Clock(r, flushAll, awReady, wReady, ack),
         NEW i \in Active', i \notin Active, NEW b \in Byte
  PROVE  Allocates(r) /\ dir'[i].tag = r.tag /\ data'[dir'[i].ptr][b] = r.data[b]
<1>1. /\ Allocates(r) /\ dir'[i].tag = r.tag
      /\ dir'[i].ptr \in FreeData /\ DataGrant = {dir'[i].ptr}
  BY ActiveNext DEF IInv
<1>2. data'[dir'[i].ptr] = Merge(NoBytes, r.data)
  BY <1>1 DEF Clock, DataNext, FreeData
<1>3. Merge(NoBytes, r.data)[b] = r.data[b]
  BY DEF Merge, NoBytes
<1> QED
  BY <1>1, <1>2, <1>3


\* An entry that gathers and is not sent goes on; an allocated one begins.
LEMMA GatheringGoesOn ==
  ASSUME IInv, NEW r \in Reqs,
         NEW flushAll \in BOOLEAN, NEW awReady \in BOOLEAN, NEW wReady \in BOOLEAN,
         NEW ack \in Acks, Clock(r, flushAll, awReady, wReady, ack)
  PROVE  /\ \A i \in Active \ Sends :
              i \in Active' /\ dir'[i].tag = dir[i].tag /\ dir'[i].ptr = dir[i].ptr
         /\ Allocates(r) => \E i \in Active' : i \notin Active
<1>1. ASSUME NEW i \in Active \ Sends
      PROVE  i \in Active' /\ dir'[i].tag = dir[i].tag /\ dir'[i].ptr = dir[i].ptr
  <2>1. i \in Dir /\ dir[i].state \in {"OPEN", "PEND"} /\ TypeOK
    BY DEF Active, InState, IInv
  <2>2. dir'[i] = EntryNext(i, r, flushAll, ack)
    BY <2>1 DEF Clock
  <2>3. dir'[i].state \in {"OPEN", "PEND"} /\ dir'[i].tag = dir[i].tag /\ dir'[i].ptr = dir[i].ptr
    BY <2>1, <2>2, EntryNextCases
  <2> QED
    BY <2>1, <2>3 DEF Active, InState
<1>2. ASSUME Allocates(r) PROVE \E i \in Active' : i \notin Active
  <2>1. PICK i \in InState("FREE") : DirGrant = {i}
    BY <1>2, GrantsOnAllocation DEF IInv
  <2>2. i \in Dir /\ dir[i].state = "FREE" /\ TypeOK /\ i \in DirGrant
    BY <2>1 DEF InState, IInv
  <2>3. dir'[i] = EntryNext(i, r, flushAll, ack)
    BY <2>2 DEF Clock
  <2>4. dir'[i].state \in {"OPEN", "PEND"}
    BY <1>2, <2>2, <2>3, EntryNextCases
  <2> QED
    BY <2>2, <2>4 DEF Active, InState
<1> QED
  BY <1>1, <1>2

\* The announced writes after a cycle, with their bytes.
LEMMA ClockAnnouncedWith ==
  ASSUME ChanInv, NEW r \in Reqs,
         NEW flushAll \in BOOLEAN, NEW awReady \in BOOLEAN, NEW wReady \in BOOLEAN,
         NEW ack \in Acks, Clock(r, flushAll, awReady, wReady, ack),
         NEW t \in Tag, NEW b \in Byte
  PROVE  /\ \A k \in AnnouncedWith(t, b)' :
              \/ k \in AnnouncedWith(t, b) /\ AnnouncedBytes'[k] = AnnouncedBytes[k]
              \/ \E i \in Sends : /\ dir[i].tag = t /\ data'[dir[i].ptr][b] # NoVal
                                  /\ k = Len(Announced) + 1
                                  /\ AnnouncedBytes'[k] = data'[dir[i].ptr]
         /\ \A k \in AnnouncedWith(t, b) : k \in AnnouncedWith(t, b)'
         /\ \A i \in Sends : dir[i].tag = t /\ data'[dir[i].ptr][b] # NoVal =>
              Len(Announced) + 1 \in AnnouncedWith(t, b)'
<1>1. IInv /\ TypeOK /\ TypeOK' /\ ChannelsPaired
  BY ClockType DEF ChanInv, IInv
<1> DEFINE n == Len(Announced)
           e == IF Sends = {} THEN 0 ELSE 1
<1>2. /\ n \in Nat /\ DOMAIN Announced = 1 .. n /\ DOMAIN Announced' = 1 .. n + e
      /\ \A k \in 1 .. n : Announced'[k] = Announced[k]
      /\ Sends \subseteq InState("PEND")
      /\ \A i \in Sends : Announced'[n + 1] = [tag |-> dir[i].tag, id |-> i]
  BY <1>1, ClockAppends
<1>3. e \in {0, 1} /\ (e = 1 <=> Sends # {})
  OBVIOUS
<1>4. Extends(AnnouncedBytes', AnnouncedBytes, NewBytes, Bytes) /\ Len(AnnouncedBytes) = n
  BY <1>1, ClockBytes DEF ChannelsPaired
<1>5. \A k \in 1 .. n : AnnouncedBytes'[k] = AnnouncedBytes[k]
  BY <1>4 DEF Extends
<1>6. ASSUME NEW i \in Sends PROVE AnnouncedBytes'[n + 1] = data'[dir[i].ptr]
  <2>1. Sends = {i} /\ i \in Dir
    BY <1>1, SendsOnePend DEF IInv, InState
  <2>2. NewBytes = {data'[dir[i].ptr]}
    BY <2>1 DEF NewBytes
  <2>3. data'[dir[i].ptr] \in Bytes
    BY <1>1, <2>1 DEF TypeOK, Entry
  <2> QED
    BY <1>4, <2>2, <2>3, Zenon DEF Extends
<1> HIDE DEF n, e
<1>7. ASSUME NEW k \in AnnouncedWith(t, b)'
      PROVE  \/ k \in AnnouncedWith(t, b) /\ AnnouncedBytes'[k] = AnnouncedBytes[k]
             \/ \E i \in Sends : /\ dir[i].tag = t /\ data'[dir[i].ptr][b] # NoVal
                                 /\ k = n + 1
                                 /\ AnnouncedBytes'[k] = data'[dir[i].ptr]
  <2>1. k \in 1 .. n + e /\ Announced'[k].tag = t /\ AnnouncedBytes'[k][b] # NoVal
    BY <1>2 DEF AnnouncedWith
  <2>2. CASE k \in 1 .. n
    BY <1>2, <1>5, <2>1, <2>2 DEF AnnouncedWith
  <2>3. CASE k \notin 1 .. n
    <3>1. k = n + 1 /\ e = 1
      BY <1>2, <1>3, <2>1, <2>3
    <3>2. PICK i \in Sends : TRUE
      BY <1>3, <3>1
    <3>3. Announced'[n + 1] = [tag |-> dir[i].tag, id |-> i] /\ AnnouncedBytes'[n + 1] = data'[dir[i].ptr]
      BY <1>2, <1>6
    <3>4. dir[i].tag = t /\ data'[dir[i].ptr][b] # NoVal
      BY <2>1, <3>1, <3>3
    <3> QED
      BY <3>1, <3>3, <3>4
  <2> QED
    BY <2>2, <2>3
<1>8. ASSUME NEW k \in AnnouncedWith(t, b) PROVE k \in AnnouncedWith(t, b)'
  <2>1. k \in 1 .. n /\ Announced[k].tag = t /\ AnnouncedBytes[k][b] # NoVal
    BY <1>2 DEF AnnouncedWith
  <2>2. k \in 1 .. n + e
    BY <1>2, <1>3, <2>1
  <2>3. Announced'[k].tag = t /\ AnnouncedBytes'[k][b] # NoVal
    BY <1>2, <1>5, <2>1
  <2> QED
    BY <1>2, <2>2, <2>3 DEF AnnouncedWith
<1>9. ASSUME NEW i \in Sends, dir[i].tag = t, data'[dir[i].ptr][b] # NoVal
      PROVE  n + 1 \in AnnouncedWith(t, b)'
  <2>1. n + 1 \in 1 .. n + e
    BY <1>2, <1>3
  <2>2. Announced'[n + 1].tag = t
    <3>1. Announced'[n + 1] = [tag |-> dir[i].tag, id |-> i]
      BY <1>2
    <3> QED
      BY <1>9, <3>1
  <2>3. AnnouncedBytes'[n + 1][b] # NoVal
    BY <1>6, <1>9
  <2> QED
    BY <1>2, <2>1, <2>2, <2>3 DEF AnnouncedWith
<1> QED
  BY <1>7, <1>8, <1>9 DEF n


\* Request r stores byte b of block t in this cycle.
Stores(r, t, b) == IsWrite(r) /\ WriteReady(r.tag) /\ r.tag = t /\ r.data[b] # NoVal

(* A cycle: a stored byte ends up in the entry that gathers, or in the     *)
(* write announced in the very cycle; every other byte stays where it is,  *)
(* or moves from the entry that gathers to the youngest announced write.   *)
LEMMA ClockDrained ==
  ASSUME ChanInv, NEW r \in Reqs,
         NEW flushAll \in BOOLEAN, NEW awReady \in BOOLEAN, NEW wReady \in BOOLEAN,
         NEW ack \in Acks, Clock(r, flushAll, awReady, wReady, ack),
         NEW t \in Tag, NEW b \in Byte, Drained(t, b, golden[t][b])
  PROVE  Drained(t, b, golden[t][b])'
<1> DEFINE n == Len(Announced)
           G == Gathering(t, b)
           A == AnnouncedWith(t, b)
           G1 == Gathering(t, b)'
           A1 == AnnouncedWith(t, b)'
           v == golden[t][b]
           v1 == golden'[t][b]
<1>1. IInv /\ TypeOK /\ mem' = mem
  BY DEF ChanInv, IInv, Clock
<1>2. v1 = IF Stores(r, t, b) THEN r.data[b] ELSE v
  BY <1>1 DEF Clock, GoldenNext, Stores, Merge, TypeOK, IsWrite
<1>3. IsWrite(r) /\ ~cfg.inhibit /\ (\E i \in Active : dir[i].tag = r.tag) => WriteReady(r.tag)
  BY DEF WriteReady, Coalesces, Active, Hit
<1>4. Allocates(r) => IsWrite(r) /\ WriteReady(r.tag) /\ \A i \in Active : dir[i].tag # r.tag
  BY DEF Allocates, WriteReady, WriteFree, Hit, Active
\* What a buffer that gathers block t holds after the cycle.
<1>5. ASSUME NEW i \in Active, dir[i].tag = t
      PROVE  data'[dir[i].ptr][b] = IF Stores(r, t, b) THEN r.data[b] ELSE data[dir[i].ptr][b]
  <2>1. data'[dir[i].ptr] = IF IsWrite(r) /\ ~cfg.inhibit /\ r.tag = t
                              THEN Merge(data[dir[i].ptr], r.data) ELSE data[dir[i].ptr]
    BY <1>1, <1>5, GatheredBytes
  <2>2. Merge(data[dir[i].ptr], r.data)[b] = IF r.data[b] # NoVal THEN r.data[b] ELSE data[dir[i].ptr][b]
    BY DEF Merge
  <2>3. Stores(r, t, b) => IsWrite(r) /\ ~cfg.inhibit /\ r.tag = t /\ r.data[b] # NoVal
    <3>1. ~WriteFree(t)
      BY <1>5 DEF WriteFree, Active, Hit
    <3> QED
      BY <3>1 DEF Stores, WriteReady, Coalesces
  <2>4. IsWrite(r) /\ ~cfg.inhibit /\ r.tag = t /\ r.data[b] # NoVal => Stores(r, t, b)
    BY <1>3, <1>5 DEF Stores
  <2>5. CASE IsWrite(r) /\ ~cfg.inhibit /\ r.tag = t
    BY <2>1, <2>2, <2>3, <2>4, <2>5
  <2>6. CASE ~(IsWrite(r) /\ ~cfg.inhibit /\ r.tag = t)
    BY <2>1, <2>3, <2>6
  <2> QED
    BY <2>5, <2>6
\* Which entries hold the byte after the cycle.
<1>6. ASSUME NEW i \in G1
      PROVE  IF Stores(r, t, b) THEN data'[dir'[i].ptr][b] = r.data[b]
             ELSE i \in G /\ i \notin Sends /\ data'[dir'[i].ptr][b] = data[dir[i].ptr][b]
  <2>1. i \in Active' /\ dir'[i].tag = t /\ data'[dir'[i].ptr][b] # NoVal
    BY DEF Gathering
  <2>2. CASE i \in Active
    <3>1. i \notin Sends /\ dir'[i].tag = dir[i].tag /\ dir'[i].ptr = dir[i].ptr
      BY <1>1, <2>1, <2>2, ActiveNext DEF IInv
    <3>2. data'[dir'[i].ptr][b] = IF Stores(r, t, b) THEN r.data[b] ELSE data[dir[i].ptr][b]
      BY <1>5, <2>1, <2>2, <3>1
    <3> QED
      BY <2>1, <2>2, <3>1, <3>2 DEF Gathering
  <2>3. CASE i \notin Active
    <3>1. Allocates(r) /\ dir'[i].tag = r.tag /\ data'[dir'[i].ptr][b] = r.data[b]
      BY <1>1, <2>1, <2>3, AllocatedBytes
    <3>2. Stores(r, t, b)
      BY <1>4, <2>1, <3>1 DEF Stores
    <3> QED
      BY <3>1, <3>2
  <2> QED
    BY <2>2, <2>3
<1>7. ASSUME NEW i \in Active, dir[i].tag = t, i \notin Sends, data'[dir[i].ptr][b] # NoVal
      PROVE  i \in G1
  BY <1>1, <1>7, GatheringGoesOn DEF Gathering
<1>8. /\ \A k \in A1 : \/ k \in A /\ AnnouncedBytes'[k] = AnnouncedBytes[k]
                       \/ \E i \in Sends : /\ dir[i].tag = t /\ data'[dir[i].ptr][b] # NoVal
                                           /\ k = n + 1 /\ AnnouncedBytes'[k] = data'[dir[i].ptr]
      /\ \A k \in A : k \in A1
      /\ \A i \in Sends : dir[i].tag = t /\ data'[dir[i].ptr][b] # NoVal => n + 1 \in A1
  BY ClockAnnouncedWith
<1>9. n \in Nat /\ A \subseteq 1 .. n
  BY <1>1, AnnouncedTypes DEF AnnouncedWith
<1>10. Sends \subseteq Active /\ \A i, j \in Sends : i = j
  BY <1>1, SendsOnePend DEF IInv, Active
<1>11. /\ \A i \in G : v = data[dir[i].ptr][b]
       /\ G = {} => \A k \in A : (\A l \in A : l <= k) => v = AnnouncedBytes[k][b]
       /\ G = {} /\ A = {} => v = mem[t][b]
  BY DEF Drained
<1>12. SUFFICES /\ \A i \in G1 : v1 = data'[dir'[i].ptr][b]
                /\ G1 = {} => \A k \in A1 : (\A l \in A1 : l <= k) => v1 = AnnouncedBytes'[k][b]
                /\ G1 = {} /\ A1 = {} => v1 = mem'[t][b]
  BY DEF Drained
\* The byte leaves the entry that gathers: the announced write is the last.
<1>13. ASSUME NEW s \in Sends, dir[s].tag = t, data'[dir[s].ptr][b] # NoVal,
              data'[dir[s].ptr][b] = v1, NEW k \in A1, \A l \in A1 : l <= k
       PROVE  v1 = AnnouncedBytes'[k][b]
  <2> HIDE DEF n, A, A1, G, G1, v, v1
  <2>1. n + 1 <= k
    BY <1>8, <1>13
  <2>2. k \notin A
    <3>1. k \in A => k \in 1 .. n
      BY <1>9
    <3> QED
      BY <1>9, <2>1, <3>1
  <2>3. PICK i \in Sends : AnnouncedBytes'[k] = data'[dir[i].ptr]
    BY <1>8, <2>2
  <2>4. i = s
    BY <1>10
  <2> QED
    BY <1>13, <2>3, <2>4
<1>14. CASE Stores(r, t, b)
  <2>1. v1 = r.data[b] /\ r.data[b] # NoVal /\ r.tag = t /\ IsWrite(r) /\ WriteReady(r.tag)
    BY <1>2, <1>14 DEF Stores
  <2>2. \A i \in G1 : v1 = data'[dir'[i].ptr][b]
    BY <1>6, <1>14, <2>1
  <2>3. ASSUME G1 = {}
        PROVE  \E s \in Sends : dir[s].tag = t /\ data'[dir[s].ptr][b] = v1
    <3>1. CASE Allocates(r)
      <4>1. PICK i \in Active' : i \notin Active
        BY <1>1, <3>1, GatheringGoesOn
      <4>2. dir'[i].tag = r.tag /\ data'[dir'[i].ptr][b] = r.data[b]
        BY <1>1, <4>1, AllocatedBytes
      <4>3. i \in G1
        BY <2>1, <4>1, <4>2 DEF Gathering
      <4> QED
        BY <2>3, <4>3
    <3>2. CASE ~Allocates(r)
      <4>1. Coalesces(t)
        BY <2>1, <3>2 DEF Allocates, WriteReady
      <4>2. PICK i \in Active : dir[i].tag = t
        BY <4>1 DEF Coalesces, Active, Hit
      <4>3. data'[dir[i].ptr][b] = r.data[b]
        BY <1>5, <1>14, <4>2
      <4>4. i \in Sends
        BY <1>7, <2>1, <2>3, <4>2, <4>3
      <4> QED
        BY <2>1, <4>2, <4>3, <4>4
    <3> QED
      BY <3>1, <3>2
  <2> HIDE DEF n, A, A1, G, G1, v, v1
  <2>4. ASSUME G1 = {}
        PROVE  A1 # {} /\ \A k \in A1 : (\A l \in A1 : l <= k) => v1 = AnnouncedBytes'[k][b]
    <3>1. PICK s \in Sends : dir[s].tag = t /\ data'[dir[s].ptr][b] = v1
      BY <2>3, <2>4
    <3>2. n + 1 \in A1
      BY <1>8, <2>1, <3>1
    <3> QED
      BY <1>13, <2>1, <3>1, <3>2
  <2> QED
    BY <2>2, <2>4
<1>15. CASE ~Stores(r, t, b)
  <2>1. v1 = v
    BY <1>2, <1>15
  <2>2. \A i \in G1 : v1 = data'[dir'[i].ptr][b]
    BY <1>6, <1>11, <1>15, <2>1
  <2>3. \A i \in Active : dir[i].tag = t => data'[dir[i].ptr][b] = data[dir[i].ptr][b]
    BY <1>5, <1>15
  <2>4. CASE \E s \in Sends : s \in G
    <3>1. PICK s \in Sends : s \in G
      BY <2>4
    <3>2. dir[s].tag = t /\ data'[dir[s].ptr][b] # NoVal /\ data'[dir[s].ptr][b] = v1
      BY <1>11, <2>1, <2>3, <3>1 DEF Gathering
    <3> HIDE DEF n, A, A1, G, G1, v, v1
    <3>3. A1 # {} /\ \A k \in A1 : (\A l \in A1 : l <= k) => v1 = AnnouncedBytes'[k][b]
      BY <1>8, <1>13, <3>2
    <3> QED
      BY <2>2, <3>3
  <2>5. CASE \A s \in Sends : s \notin G
    <3>1. G1 = {} => G = {}
      <4>1. \A i \in G : i \in Active /\ dir[i].tag = t /\ data[dir[i].ptr][b] # NoVal
        BY DEF Gathering
      <4> QED
        BY <1>7, <2>3, <2>5, <4>1
    <3>2. \A i \in Sends : ~(dir[i].tag = t /\ data'[dir[i].ptr][b] # NoVal)
      BY <1>10, <2>3, <2>5 DEF Gathering
    <3> HIDE DEF n, A, A1, G, G1, v, v1
    <3>3. A1 = A /\ \A k \in A1 : AnnouncedBytes'[k] = AnnouncedBytes[k]
      BY <1>8, <3>2
    <3> QED
      BY <1>1, <1>11, <2>1, <2>2, <3>1, <3>3
  <2> QED
    BY <2>4, <2>5
<1> QED
  BY <1>14, <1>15


(* A performed write: when it is the oldest announced write of its block,  *)
(* memory takes its bytes where no younger write has them.                 *)
LEMMA PerformDrained ==
  ASSUME ChanInv, NEW k \in 1 .. DirN, MemPerform(k),
         \A l \in DOMAIN Announced : Announced[l].tag = Announced[k].tag => k <= l,
         NEW t \in Tag, NEW b \in Byte, Drained(t, b, golden[t][b])
  PROVE  Drained(t, b, golden[t][b])'
<1> DEFINE n == Len(Announced)
           G == Gathering(t, b)
           A == AnnouncedWith(t, b)
           A1 == AnnouncedWith(t, b)'
           v == golden[t][b]
<1>1. TypeOK /\ TypeOK' /\ ChannelsPaired
  BY MemPerformType DEF ChanInv, IInv
<1>2. n \in Nat /\ DOMAIN Announced = 1 .. n /\ Len(AnnouncedBytes) = n
  BY <1>1, AnnouncedTypes DEF ChannelsPaired
<1>3. /\ k \in 1 .. Len(memAw) /\ Announced[k] = memAw[k] /\ AnnouncedBytes[k] = memW[k]
      /\ Len(Announced') = n - 1
      /\ \A j \in 1 .. n - 1 : Announced'[j] = Announced[Before(j, k)]
      /\ \A j \in 1 .. n - 1 : AnnouncedBytes'[j] = AnnouncedBytes[Before(j, k)]
  BY <1>1, <1>2, PerformDrops
<1>4. DOMAIN Announced' = 1 .. n - 1
  <2>1. DOMAIN Announced' = 1 .. Len(Announced')
    BY <1>1, AnnouncedTypesNext
  <2> QED
    BY <1>3, <2>1
<1>5. k \in 1 .. n
  <2>1. n = Len(memAw) + Len(sendMeta) /\ Len(memAw) \in Nat /\ Len(sendMeta) \in Nat
    BY <1>1, AnnouncedTypes
  <2> QED
    BY <1>3, <2>1
<1>6. UNCHANGED <<dir, data, golden>> /\ Gathering(t, b)' = G
  BY DEF MemPerform, regs, Gathering, Active, InState
<1>7. mem'[t][b] = IF k \in A THEN AnnouncedBytes[k][b] ELSE mem[t][b]
  <2>1. Announced[k] \in Meta /\ AnnouncedBytes[k] \in Bytes
    BY <1>1, <1>2, <1>5, AnnouncedTypes
  <2>2. mem' = [mem EXCEPT ![Announced[k].tag] = Merge(@, AnnouncedBytes[k])]
    BY <1>3 DEF MemPerform
  <2>3. k \in A <=> Announced[k].tag = t /\ AnnouncedBytes[k][b] # NoVal
    BY <1>2, <1>5 DEF AnnouncedWith
  <2>4. mem'[t] = IF Announced[k].tag = t THEN Merge(mem[t], AnnouncedBytes[k]) ELSE mem[t]
    BY <1>1, <2>1, <2>2 DEF TypeOK, Meta
  <2>5. Merge(mem[t], AnnouncedBytes[k])[b] = IF AnnouncedBytes[k][b] # NoVal THEN AnnouncedBytes[k][b] ELSE mem[t][b]
    BY DEF Merge
  <2> QED
    BY <2>3, <2>4, <2>5
<1>8. /\ \A j \in 1 .. n - 1 : Before(j, k) \in 1 .. n /\ Before(j, k) # k
      /\ \A i, j \in 1 .. n - 1 : i <= j => Before(i, k) <= Before(j, k)
      /\ \A l \in 1 .. n : l # k => \E j \in 1 .. n - 1 : Before(j, k) = l
  BY <1>2, <1>5, BeforeFacts
<1>9. \A j \in 1 .. n - 1 : j \in A1 <=> Before(j, k) \in A
  BY <1>2, <1>3, <1>4, <1>8 DEF AnnouncedWith
<1>10. A \subseteq 1 .. n /\ A1 \subseteq 1 .. n - 1
  BY <1>2, <1>4 DEF AnnouncedWith
<1>11. k \in A => \A l \in A : k <= l
  BY <1>2, <1>5 DEF AnnouncedWith
<1>12. /\ \A i \in G : v = data[dir[i].ptr][b]
       /\ G = {} => \A l \in A : (\A m \in A : m <= l) => v = AnnouncedBytes[l][b]
       /\ G = {} /\ A = {} => v = mem[t][b]
  BY DEF Drained
<1>13. SUFFICES ASSUME G = {}
                PROVE  /\ \A j \in A1 : (\A i \in A1 : i <= j) => v = AnnouncedBytes'[j][b]
                       /\ A1 = {} => v = mem'[t][b]
  BY <1>6, <1>12 DEF Drained
<1> HIDE DEF n, G, A, A1, v
<1>14. ASSUME NEW j \in A1, \A i \in A1 : i <= j PROVE v = AnnouncedBytes'[j][b]
  <2>1. j \in 1 .. n - 1 /\ Before(j, k) \in A
    BY <1>9, <1>10
  <2>2. ASSUME NEW l \in A PROVE l <= Before(j, k)
    <3>1. CASE l = k
      BY <1>11, <2>1, <3>1
    <3>2. CASE l # k
      <4>1. PICK i \in 1 .. n - 1 : Before(i, k) = l
        BY <1>8, <1>10, <3>2
      <4>2. i <= j
        BY <1>9, <1>14, <4>1
      <4> QED
        BY <1>8, <2>1, <4>1, <4>2
    <3> QED
      BY <3>1, <3>2
  <2>3. v = AnnouncedBytes[Before(j, k)][b]
    BY <1>12, <1>13, <2>1, <2>2
  <2> QED
    BY <1>3, <2>1, <2>3
<1>15. ASSUME A1 = {} PROVE v = mem'[t][b]
  <2>1. \A l \in A : l = k
    BY <1>8, <1>9, <1>10, <1>15
  <2>2. CASE k \in A
    <3>1. \A m \in A : m <= k
      BY <1>11, <2>1, <2>2
    <3> QED
      BY <1>7, <1>12, <1>13, <2>2, <3>1
  <2>3. CASE k \notin A
    BY <1>7, <1>12, <1>13, <2>1, <2>3
  <2> QED
    BY <2>2, <2>3
<1> QED
  BY <1>14, <1>15

----------------------------------------------------------------------------
(* Which writes of a block the memory may meet out of order                *)

(* With sequential WAW in every setting, one entry in use per block: the   *)
(* memory never holds two writes of a block.                               *)
OneEntryPerTag ==
  (\A c \in Cfgs : c.seqWaw) =>
    \A i, j \in Dir :
      dir[i].state # "FREE" /\ dir[j].state # "FREE" /\ dir[i].tag = dir[j].tag => i = j

\* A cycle allocates an entry only where no other entry has the block.
LEMMA ClockOneEntry ==
  ASSUME IInv, OneEntryPerTag, NEW r \in Reqs,
         NEW flushAll \in BOOLEAN, NEW awReady \in BOOLEAN, NEW wReady \in BOOLEAN,
         NEW ack \in Acks, Clock(r, flushAll, awReady, wReady, ack)
  PROVE  OneEntryPerTag'
<1> SUFFICES ASSUME \A c \in Cfgs : c.seqWaw, NEW i \in Dir, NEW j \in Dir,
                    dir'[i].state # "FREE", dir'[j].state # "FREE", dir'[i].tag = dir'[j].tag
             PROVE  i = j
  BY DEF OneEntryPerTag
<1>1. TypeOK /\ cfg.seqWaw
  BY DEF IInv, TypeOK
<1>2. Allocates(r) => \A k \in Dir : dir[k].state # "FREE" => dir[k].tag # r.tag
  BY <1>1 DEF Allocates, WriteFree, Hit, InState, TypeOK, Entry
<1>3. Allocates(r) => \A k, l \in DirGrant : k = l
  BY GrantsOnAllocation DEF IInv
<1>4. ASSUME NEW k \in Dir, dir'[k].state # "FREE"
      PROVE  \/ dir[k].state # "FREE" /\ dir'[k].tag = dir[k].tag
             \/ Allocates(r) /\ k \in DirGrant /\ dir'[k].tag = r.tag
  <2>1. dir'[k] = EntryNext(k, r, flushAll, ack)
    BY DEF Clock
  <2>2. dir[k].state \in {"FREE", "OPEN", "PEND", "SENT"}
    BY <1>1 DEF TypeOK, Entry
  <2>3. CASE dir[k].state = "FREE"
    BY <1>1, <1>4, <2>1, <2>3, EntryNextCases
  <2>4. CASE dir[k].state = "OPEN"
    BY <1>1, <2>1, <2>4, EntryNextCases
  <2>5. CASE dir[k].state = "PEND"
    BY <1>1, <2>1, <2>5, EntryNextCases
  <2>6. CASE dir[k].state = "SENT"
    BY <1>1, <2>1, <2>6, EntryNextCases
  <2> QED
    BY <2>2, <2>3, <2>4, <2>5, <2>6
<1>5. \A k, l \in Dir : dir[k].state # "FREE" /\ dir[l].state # "FREE" /\ dir[k].tag = dir[l].tag => k = l
  BY DEF OneEntryPerTag
<1> DEFINE Kept(k) == dir[k].state # "FREE" /\ dir'[k].tag = dir[k].tag
           Begun(k) == Allocates(r) /\ k \in DirGrant /\ dir'[k].tag = r.tag
<1>6. (Kept(i) \/ Begun(i)) /\ (Kept(j) \/ Begun(j))
  BY <1>4
<1>7. CASE Kept(i) /\ Kept(j)
  BY <1>5, <1>7
<1>8. CASE Begun(i) /\ Begun(j)
  BY <1>3, <1>8
<1>9. CASE (Kept(i) /\ Begun(j)) \/ (Begun(i) /\ Kept(j))
  BY <1>2, <1>9
<1> QED
  BY <1>6, <1>7, <1>8, <1>9

\* The memory keeps the order of the writes of a block.
KeepsOrder == InOrder \/ \A c \in Cfgs : c.seqWaw

\* The write that is performed is the oldest announced one of its block.
LEMMA PerformsOldest ==
  ASSUME ChanInv, OneEntryPerTag, KeepsOrder, NEW k \in 1 .. DirN, MemPerform(k)
  PROVE  \A l \in DOMAIN Announced : Announced[l].tag = Announced[k].tag => k <= l
<1>1. TypeOK /\ IdFacts /\ AnnouncedTags
  BY IdsOneByOne DEF ChanInv, IInv
<1>2. Len(Announced) \in Nat /\ DOMAIN Announced = 1 .. Len(Announced) /\ k \in DOMAIN Announced
  <2>1. /\ Len(Announced) = Len(memAw) + Len(sendMeta) /\ Len(memAw) \in Nat /\ Len(sendMeta) \in Nat
        /\ DOMAIN Announced = 1 .. Len(Announced)
    BY <1>1, AnnouncedTypes
  <2>2. k \in 1 .. Len(memAw)
    BY <1>1, PerformDrops
  <2> QED
    BY <2>1, <2>2
<1>3. CASE InOrder
  <2>1. k = 1
    BY <1>3 DEF MemPerform
  <2> QED
    BY <1>2, <2>1
<1>4. CASE \A c \in Cfgs : c.seqWaw
  <2>1. ASSUME NEW l \in DOMAIN Announced, Announced[l].tag = Announced[k].tag PROVE k = l
    <3>1. /\ Announced[l].id \in Dir /\ dir[Announced[l].id].state = "SENT"
          /\ Announced[k].id \in Dir /\ dir[Announced[k].id].state = "SENT"
          /\ dir[Announced[l].id].tag = dir[Announced[k].id].tag
      BY <1>1, <1>2, <2>1 DEF IdFacts, AnnouncedTags
    <3>2. Announced[l].id = Announced[k].id
      BY <1>4, <3>1 DEF OneEntryPerTag
    <3> QED
      BY <1>1, <1>2, <3>2 DEF IdFacts
  <2> QED
    BY <1>2, <2>1
<1> QED
  BY <1>3, <1>4 DEF KeepsOrder


----------------------------------------------------------------------------
(* The coherence of the accepted writes                                    *)

\* Everything that coherence rests on, and coherence in its relational form.
CohInv ==
  /\ ChanInv
  /\ OneEntryPerTag
  /\ \A t \in Tag, b \in Byte : Drained(t, b, golden[t][b])

\* Nothing is buffered at reset.
LEMMA InitCohInv == Init => CohInv
<1> SUFFICES ASSUME Init PROVE CohInv
  OBVIOUS
<1>1. ChanInv
  BY InitChanInv
<1>2. Active = {} /\ \A i \in Dir : dir[i].state = "FREE"
  BY DEF Init, Active, InState
<1>3. DOMAIN Announced = {}
  <2>1. TypeOK
    BY <1>1 DEF ChanInv, IInv
  <2>2. Len(memAw) = 0 /\ Len(sendMeta) = 0
    BY DEF Init
  <2> QED
    BY <2>1, <2>2, AnnouncedTypes
<1>4. ASSUME NEW t \in Tag, NEW b \in Byte PROVE Drained(t, b, golden[t][b])
  <2>1. Gathering(t, b) = {} /\ AnnouncedWith(t, b) = {}
    BY <1>2, <1>3 DEF Gathering, AnnouncedWith
  <2>2. golden = mem
    BY DEF Init
  <2> QED
    BY <2>1, <2>2 DEF Drained
<1>5. OneEntryPerTag
  BY <1>2 DEF OneEntryPerTag
<1> QED
  BY <1>1, <1>4, <1>5 DEF CohInv

\* Every step preserves coherence, when the memory keeps the order.
LEMMA NextCohInv ==
  ASSUME KeepsOrder, CohInv, [Next]_vars
  PROVE  CohInv'
<1>1. ChanInv'
  BY NextChanInv DEF CohInv
<1>2. ASSUME UNCHANGED <<regs, env, golden>> PROVE CohInv'
  <2>1. Announced' = Announced /\ AnnouncedBytes' = AnnouncedBytes /\ Active' = Active
    BY <1>2 DEF regs, env, Announced, AnnouncedBytes, Active, InState
  <2>2. UNCHANGED <<dir, data, mem, golden>>
    BY <1>2 DEF regs, env
  <2>3. OneEntryPerTag'
    BY <2>2 DEF CohInv, OneEntryPerTag
  <2>4. ASSUME NEW t \in Tag, NEW b \in Byte PROVE Drained(t, b, golden[t][b])'
    <3>1. Gathering(t, b)' = Gathering(t, b) /\ AnnouncedWith(t, b)' = AnnouncedWith(t, b)
      BY <2>1, <2>2 DEF Gathering, AnnouncedWith
    <3>2. Drained(t, b, golden[t][b])
      BY DEF CohInv
    <3> QED
      BY <2>1, <2>2, <3>1, <3>2 DEF Drained
  <2> QED
    BY <1>1, <2>3, <2>4 DEF CohInv
<1>3. ASSUME NEW r \in Reqs, NEW flushAll \in BOOLEAN, NEW awReady \in BOOLEAN,
             NEW wReady \in BOOLEAN, NEW ack \in Acks, Clock(r, flushAll, awReady, wReady, ack)
      PROVE  CohInv'
  <2>1. IInv /\ ChanInv /\ OneEntryPerTag
    BY DEF CohInv, ChanInv
  <2>2. OneEntryPerTag'
    BY <1>3, <2>1, ClockOneEntry
  <2>3. ASSUME NEW t \in Tag, NEW b \in Byte PROVE Drained(t, b, golden[t][b])'
    <3>1. Drained(t, b, golden[t][b])
      BY DEF CohInv
    <3> QED
      BY <1>3, <2>1, <3>1, ClockDrained
  <2> QED
    BY <1>1, <2>2, <2>3 DEF CohInv
<1>4. ASSUME NEW k \in 1 .. DirN, MemPerform(k) PROVE CohInv'
  <2>1. ChanInv /\ OneEntryPerTag
    BY DEF CohInv
  <2>2. OneEntryPerTag'
    BY <1>4, <2>1 DEF OneEntryPerTag, MemPerform, regs
  <2>3. ASSUME NEW t \in Tag, NEW b \in Byte PROVE Drained(t, b, golden[t][b])'
    <3>1. Drained(t, b, golden[t][b])
      BY DEF CohInv
    <3>2. \A l \in DOMAIN Announced : Announced[l].tag = Announced[k].tag => k <= l
      BY <1>4, <2>1, PerformsOldest
    <3> QED
      BY <1>4, <2>1, <3>1, <3>2, PerformDrained
  <2> QED
    BY <1>1, <2>2, <2>3 DEF CohInv
<1>5. ASSUME NEW c \in Cfgs, SetCfg(c) PROVE CohInv'
  BY <1>2, <1>5 DEF SetCfg
<1>6. CASE UNCHANGED vars
  BY <1>2, <1>6 DEF vars
<1>7. Readies(sendMeta) \subseteq BOOLEAN /\ Readies(sendData) \subseteq BOOLEAN
  BY DEF Readies
<1> QED
  BY <1>3, <1>4, <1>5, <1>6, <1>7, Zenon DEF Next

\* The invariant holds in every reachable state.
THEOREM CoherenceInvariant ==
  ASSUME KeepsOrder
  PROVE  Spec => []CohInv
<1>1. CohInv /\ [Next]_vars => CohInv'
  BY NextCohInv
<1> QED
  BY <1>1, InitCohInv, PTL DEF Spec

(* No accepted write is lost, put on another block or overtaken by an      *)
(* older one, for every size, every timing of the channels and every       *)
(* setting of the threshold, coalescing and flush inputs: what is left     *)
(* once all is performed is what the accepted writes stored.  The memory   *)
(* performs in order, or sequential WAW is on in every setting of          *)
(* cfig_wbuf; the buffer relies on one or the other.                       *)
THEOREM Coherent ==
  ASSUME KeepsOrder
  PROVE  Spec => []WritesCoherent
<1>1. CohInv => WritesCoherent
  BY DrainedChosen DEF CohInv, ChanInv, WritesCoherent
<1> QED
  BY <1>1, CoherenceInvariant, PTL

\* Without a hit on the line, memory has every accepted write of the block.
LEMMA NoHitMeansPerformed == CohInv => ReadMissSafe
<1> SUFFICES ASSUME CohInv, NEW t \in Tag, ~ReadHit(LineOf[t]) PROVE mem[t] = golden[t]
  BY DEF ReadMissSafe
<1>1. IInv /\ TypeOK /\ IdFacts /\ AnnouncedTags
  BY IdsOneByOne DEF CohInv, ChanInv, IInv
<1>2. \A i \in Dir : dir[i].state # "FREE" => dir[i].tag # t
  BY DEF ReadHit
<1>3. ASSUME NEW b \in Byte PROVE mem[t][b] = golden[t][b]
  <2>1. Gathering(t, b) = {}
    BY <1>2 DEF Gathering, Active, InState
  <2>2. AnnouncedWith(t, b) = {}
    <3>1. \A k \in DOMAIN Announced : Announced[k].tag # t
      BY <1>1, <1>2 DEF IdFacts, AnnouncedTags
    <3> QED
      BY <3>1 DEF AnnouncedWith
  <2>3. Drained(t, b, golden[t][b])
    BY DEF CohInv
  <2> QED
    BY <2>1, <2>2, <2>3 DEF Drained
<1>4. mem[t] \in [Byte -> Val] /\ golden[t] \in [Byte -> Val]
  BY <1>1 DEF TypeOK
<1> QED
  BY <1>3, <1>4

(* A read that hits no entry of its cache line may be answered by memory:  *)
(* memory then holds every accepted write to the line.                     *)
THEOREM MissesSafe ==
  ASSUME KeepsOrder
  PROVE  Spec => []ReadMissSafe
  BY NoHitMeansPerformed, CoherenceInvariant, PTL
=============================================================================
