-------------------------------- MODULE Wbuf --------------------------------
(***************************************************************************)
(* The write-through write buffer, hpdcache_wbuf.sv.                       *)
(*                                                                         *)
(* A directory entry gathers writes to one aligned block (its tag) while   *)
(* it is OPEN or PEND, is announced to the memory when it becomes SENT,    *)
(* and is FREE again when the memory acknowledges it.  The bytes live in a *)
(* smaller pool of data buffers; an entry owns one until its data has been *)
(* transferred on the write-data channel.                                  *)
(*                                                                         *)
(* One step of Clock is one clock cycle: every register takes its next     *)
(* value from the values before the edge and from this cycle's inputs.     *)
(* The memory behind the address (AW), data (W) and response (B) channels  *)
(* is external and is modelled from how this component uses it.            *)
(*                                                                         *)
(* write_uc_i is tied to 0 by hpdcache_ctrl_pe and is left out.            *)
(***************************************************************************)
EXTENDS Integers, Sequences, Arbiter, Fifo

CONSTANTS
  DirN,        \* number of directory entries (wbufDirEntries)
  DataN,       \* number of data buffers (wbufDataEntries)
  Tag,         \* block addresses at the granularity of the write buffer
  LineOf,      \* the cache line of each block address
  Byte,        \* byte positions within a block
  Val,         \* values of a byte
  NoVal,       \* byte not enabled
  WriteData,   \* the data + byte-enable patterns a write may carry
  CntMod,      \* 2 ^ width of the life-time counter
  Cfgs,        \* the settings of the cfig_wbuf register
  Reprogram,   \* may software change cfig_wbuf while the buffer is in use?
  InOrder      \* does the memory system perform writes in order?

Dir  == 0 .. DirN - 1
Data == 0 .. DataN - 1
Bytes == [Byte -> Val \cup {NoVal}]
Cfg == [threshold : 0 .. CntMod - 1, resetOnWrite : BOOLEAN,
        seqWaw : BOOLEAN, inhibit : BOOLEAN]

ASSUME SizeAssumption == DirN \in Nat \ {0} /\ DataN \in Nat \ {0} /\ CntMod \in Nat \ {0}
ASSUME ByteAssumption == NoVal \notin Val /\ WriteData \subseteq Bytes
ASSUME CfgAssumption == Cfgs \subseteq Cfg /\ Cfgs # {}
ASSUME FlagAssumption == Reprogram \in BOOLEAN /\ InOrder \in BOOLEAN

VARIABLES
  dir,         \* wbuf_dir_state_q, wbuf_dir_q
  dataValid,   \* wbuf_data_valid_q, as the set of allocated buffers
  data,        \* wbuf_data_q; NoVal where the byte enable is 0
  sendMeta,    \* send_meta_fifo_i: writes announced, not yet on AW
  sendData,    \* send_data_ptr_fifo_i: writes announced, not yet on W
  dirArb,      \* dir_free_rrarb_i  (a fixed-priority arbiter)
  dataArb,     \* data_free_rrarb_i (a fixed-priority arbiter)
  pendArb,     \* pend_rrarb_i
  cfg,         \* cfig_wbuf
  memAw,       \* memory: addresses received, in order, not yet performed
  memW,        \* memory: data received, in order, not yet performed
  resp,        \* memory: ids performed and not yet acknowledged
  mem,         \* memory: contents
  golden       \* history: what the accepted writes have stored, in order

regs == <<dir, dataValid, data, sendMeta, sendData, dirArb, dataArb, pendArb>>
env  == <<memAw, memW, resp, mem>>
vars == <<regs, cfg, env, golden>>

----------------------------------------------------------------------------
(* Combinational signals                                                   *)

InState(s) == {i \in Dir : dir[i].state = s}
Hit(s, t)  == {i \in InState(s) : dir[i].tag = t}

FreeData   == Data \ dataValid
Empty      == InState("FREE") = Dir

\* Mutant: the conflict with an OPEN entry is not checked.
WriteFree_NoOpenCheck(t) ==
  /\ InState("FREE") # {} /\ FreeData # {}
  /\ Hit("PEND", t) = {}
  /\ ~(cfg.seqWaw /\ Hit("SENT", t) # {})

\* Mutant: sequential WAW is ignored.
WriteFree_NoWawCheck(t) ==
  /\ InState("FREE") # {} /\ FreeData # {}
  /\ Hit("OPEN", t) = {} /\ Hit("PEND", t) = {}

\* wbuf_write_free: the write takes a new entry and a new buffer.
WriteFree(t) ==
  /\ InState("FREE") # {}
  /\ FreeData # {}
  /\ Hit("OPEN", t) = {}
  /\ Hit("PEND", t) = {}
  /\ ~(cfg.seqWaw /\ Hit("SENT", t) # {})

Coalesces(t) == (Hit("OPEN", t) \cup Hit("PEND", t)) # {} /\ ~cfg.inhibit

WriteReady(t) == WriteFree(t) \/ Coalesces(t)

\* Mutant: SENT entries do not hit.
ReadHit_NoSent(line) ==
  \E i \in Dir : dir[i].state \in {"OPEN", "PEND"} /\ LineOf[dir[i].tag] = line

\* read_hit_o: some entry in use belongs to the cache line.
ReadHit(line) == \E i \in Dir : dir[i].state # "FREE" /\ LineOf[dir[i].tag] = line

(* The replay port, asked by the replay table for a read (by cache line)   *)
(* or for a write (by block).                                              *)
ReplayHit(s, isRead, t) ==
  {i \in InState(s) : IF isRead THEN LineOf[dir[i].tag] = LineOf[t] ELSE dir[i].tag = t}

ReplayNotReady(isRead, t) ==
  \/ ReplayHit("PEND", isRead, t) # {}
  \/ cfg.seqWaw /\ ReplayHit("SENT", isRead, t) # {}
  \/ /\ ReplayHit("OPEN", isRead, t) = {}
     /\ InState("FREE") = {} \/ FreeData = {}

\* The last hit wins in the code's loop.
LastHit(S) == {i \in S : \A j \in S : j <= i}

Merge(old, new) == [b \in Byte |-> IF new[b] # NoVal THEN new[b] ELSE old[b]]

NoBytes == [b \in Byte |-> NoVal]

----------------------------------------------------------------------------
(* Inputs of a cycle.  The controller has one request in its stage 1: it   *)
(* writes, or it flushes the OPEN entry that a read of the same block      *)
(* hits; write_addr_i and read_addr_i are the same wire.                   *)

NoReq == [op |-> "none"]

Reqs == {NoReq}
          \cup [op : {"write"}, tag : Tag, data : WriteData]
          \cup [op : {"read_flush"}, tag : Tag]

IsWrite(r) == r.op = "write"

Allocates(r) == IsWrite(r) /\ WriteFree(r.tag)

DirGrant  == FxGrant(dirArb, InState("FREE"))
DataGrant == FxGrant(dataArb, FreeData)

\* Mutant: a write also coalesces into a SENT entry.
PendTarget_Sent(r) ==
  IF IsWrite(r) /\ ~cfg.inhibit THEN LastHit(Hit("PEND", r.tag) \cup Hit("SENT", r.tag)) ELSE {}

\* The entry that request r coalesces into.
OpenTarget(r) == IF IsWrite(r) /\ ~cfg.inhibit THEN LastHit(Hit("OPEN", r.tag)) ELSE {}
PendTarget(r) == IF IsWrite(r) /\ ~cfg.inhibit THEN LastHit(Hit("PEND", r.tag)) ELSE {}

SendReady == Len(sendMeta) < DataN /\ Len(sendData) < DataN
Granted   == RrGrant(pendArb, DirN, InState("PEND"))
Sends     == IF SendReady THEN Granted ELSE {}

----------------------------------------------------------------------------
(* Next state of one directory entry (wbuf_update_comb), by its state      *)

FreeNext(i, r, flushAll) ==
  IF Allocates(r) /\ i \in DirGrant
    THEN [state |-> IF cfg.threshold = 0 \/ flushAll \/ cfg.inhibit
                      THEN "PEND" ELSE "OPEN",
          tag   |-> r.tag,
          cnt   |-> 0,
          ptr   |-> CHOOSE p \in DataGrant : TRUE]
    ELSE dir[i]

\* Mutant: the counter does not wrap at its width.
OpenNext_NoWrap(i, r, flushAll) ==
  IF flushAll \/ dir[i].cnt = cfg.threshold - 1
    THEN [dir[i] EXCEPT !.state = "PEND"]
    ELSE [dir[i] EXCEPT !.cnt = @ + 1]

\* Mutant: the time-out is looked for only when a write restarts the counter.
OpenNext_NoTimeout(i, r, flushAll) ==
  IF flushAll THEN [dir[i] EXCEPT !.state = "PEND"]
  ELSE [dir[i] EXCEPT !.cnt = (@ + 1) % CntMod]

OpenNext(i, r, flushAll) ==
  LET restart == i \in OpenTarget(r) /\ cfg.resetOnWrite
      \* 32-bit arithmetic: with a threshold of 0 no counter value matches
      timeout == dir[i].cnt = cfg.threshold - 1 /\ ~restart
      readHit == r.op = "read_flush" /\ i \in LastHit(Hit("OPEN", r.tag))
  IN  IF flushAll
        THEN [dir[i] EXCEPT !.state = "PEND"]
        ELSE [dir[i] EXCEPT
                !.cnt = IF restart THEN 0
                        ELSE IF timeout THEN @ ELSE (@ + 1) % CntMod,
                !.state = IF readHit \/ timeout \/ cfg.inhibit THEN "PEND" ELSE "OPEN"]

\* Mutant: the entry is marked SENT without waiting for the send FIFOs.
PendNext_NoReady(i) == IF i \in Granted THEN [dir[i] EXCEPT !.state = "SENT"] ELSE dir[i]

PendNext(i) == IF i \in Sends THEN [dir[i] EXCEPT !.state = "SENT"] ELSE dir[i]

SentNext(i, ack) == IF i \in ack THEN [dir[i] EXCEPT !.state = "FREE"] ELSE dir[i]

EntryNext(i, r, flushAll, ack) ==
  CASE dir[i].state = "FREE" -> FreeNext(i, r, flushAll)
    [] dir[i].state = "OPEN" -> OpenNext(i, r, flushAll)
    [] dir[i].state = "PEND" -> PendNext(i)
    [] dir[i].state = "SENT" -> SentNext(i, ack)

----------------------------------------------------------------------------
(* Data buffers (wbuf_data_write_comb, wbuf_data_valid_comb)               *)

CoalesceInto(r) == {dir[i].ptr : i \in OpenTarget(r) \cup PendTarget(r)}

DataNext(r) ==
  [p \in Data |->
     IF Allocates(r) /\ p \in DataGrant THEN Merge(NoBytes, r.data)
     ELSE IF IsWrite(r) /\ p \in CoalesceInto(r) THEN Merge(data[p], r.data)
     ELSE data[p]]

\* What leaves on W in this cycle: a set with at most one element.
WOut(wReady) == FifoOut(sendData, wReady)

\* Mutant: the buffer is freed when its entry becomes SENT.
DataValidNext_AtSent(r, wReady) ==
  (dataValid \cup (IF Allocates(r) THEN DataGrant ELSE {})) \ {dir[i].ptr : i \in Sends}

DataValidNext(r, wReady) ==
  (dataValid \cup (IF Allocates(r) THEN DataGrant ELSE {}))
    \ {d.ptr : d \in WOut(wReady)}

----------------------------------------------------------------------------
(* Send FIFOs and memory channels                                          *)

AwOut(awReady) == FifoOut(sendMeta, awReady)

MetaNext(awReady) ==
  FifoNext(sendMeta, awReady, {[tag |-> dir[i].tag, id |-> i] : i \in Sends})

\* Mutant: the data FIFO is pushed even when the metadata FIFO is full.
SendDataNext_NoMetaReady(wReady) ==
  FifoNext(sendData, wReady, {[tag |-> dir[i].tag, ptr |-> dir[i].ptr] :
                                i \in IF Len(sendData) < DataN THEN Granted ELSE {}})

SendDataNext(wReady) ==
  FifoNext(sendData, wReady, {[tag |-> dir[i].tag, ptr |-> dir[i].ptr] : i \in Sends})

MemAwNext(awReady) == FifoPush(memAw, AwOut(awReady))

\* The data channel carries what the buffer holds in the cycle of the transfer.
MemWNext(wReady) == FifoPush(memW, {data[d.ptr] : d \in WOut(wReady)})

GoldenNext(r) ==
  IF IsWrite(r) /\ WriteReady(r.tag)
    THEN [golden EXCEPT ![r.tag] = Merge(@, r.data)]
    ELSE golden

Acks == {{}} \cup {{i} : i \in resp}

Clock(r, flushAll, awReady, wReady, ack) ==
  /\ dir'       = [i \in Dir |-> EntryNext(i, r, flushAll, ack)]
  /\ dataValid' = DataValidNext(r, wReady)
  /\ data'      = DataNext(r)
  /\ sendMeta'  = MetaNext(awReady)
  /\ sendData'  = SendDataNext(wReady)
  /\ dirArb'    = FxNext(dirArb, InState("FREE"), Allocates(r))
  /\ dataArb'   = FxNext(dataArb, FreeData, Allocates(r))
  /\ pendArb'   = RrNext(pendArb, DirN, InState("PEND"), SendReady)
  /\ memAw'     = MemAwNext(awReady)
  /\ memW'      = MemWNext(wReady)
  /\ resp'      = resp \ ack
  /\ golden'    = GoldenNext(r)
  /\ UNCHANGED <<cfg, mem>>

\* Software writes cfig_wbuf.
SetCfg(c) ==
  /\ Reprogram /\ c # cfg
  /\ cfg' = c
  /\ UNCHANGED <<regs, env, golden>>

DropAt(q, k) == SubSeq(q, 1, k - 1) \o SubSeq(q, k + 1, Len(q))

(* The memory performs a write whose address and data have both arrived:   *)
(* the k-th data item belongs to the k-th address.                         *)
MemPerform(k) ==
  /\ k <= Len(memAw) /\ k <= Len(memW)
  /\ InOrder => k = 1
  /\ mem'   = [mem EXCEPT ![memAw[k].tag] = Merge(@, memW[k])]
  /\ resp'  = resp \cup {memAw[k].id}
  /\ memAw' = DropAt(memAw, k)
  /\ memW'  = DropAt(memW, k)
  /\ UNCHANGED <<regs, cfg, golden>>

----------------------------------------------------------------------------
Init ==
  /\ \E t \in Tag : dir = [i \in Dir |-> [state |-> "FREE", tag |-> t, cnt |-> 0, ptr |-> 0]]
  /\ dataValid = {}
  /\ data \in [Data -> Bytes]            \* not reset: any contents
  /\ sendMeta = <<>> /\ sendData = <<>>
  /\ dirArb = FxReset /\ dataArb = FxReset /\ pendArb = RrReset(DirN)
  /\ cfg \in Cfgs
  /\ memAw = <<>> /\ memW = <<>> /\ resp = {}
  /\ mem \in [Tag -> [Byte -> Val]]
  /\ golden = mem

\* A ready signal of the memory matters when something is offered to it.
Readies(q) == IF q = <<>> THEN {FALSE} ELSE BOOLEAN

Next ==
  \/ \E r \in Reqs, flushAll \in BOOLEAN, ack \in Acks :
       \E awReady \in Readies(sendMeta), wReady \in Readies(sendData) :
         Clock(r, flushAll, awReady, wReady, ack)
  \/ \E c \in Cfgs : SetCfg(c)
  \/ \E k \in 1 .. DirN : MemPerform(k)

Spec == Init /\ [][Next]_vars

(* The clock runs; the memory takes an offered address and an offered data *)
(* item some day, performs what it has received, and acknowledges it.      *)
ClockWith(awReady, wReady, ack) ==
  \E r \in Reqs, flushAll \in BOOLEAN : Clock(r, flushAll, awReady, wReady, ack)

Fairness ==
  /\ WF_vars(\E awReady, wReady \in BOOLEAN, ack \in Acks : ClockWith(awReady, wReady, ack))
  /\ WF_vars(\E wReady \in BOOLEAN, ack \in Acks : ClockWith(TRUE, wReady, ack))
  /\ WF_vars(\E awReady \in BOOLEAN, ack \in Acks : ClockWith(awReady, TRUE, ack))
  /\ \A i \in Dir : WF_vars(i \in resp /\ \E awReady, wReady \in BOOLEAN : ClockWith(awReady, wReady, {i}))
  /\ WF_vars(MemPerform(1))

FairSpec == Spec /\ Fairness

----------------------------------------------------------------------------
(* Properties                                                              *)

Entry == [state : {"FREE", "OPEN", "PEND", "SENT"}, tag : Tag,
          cnt : 0 .. CntMod - 1, ptr : Data]

\* Every register and every piece of the memory has its type.
TypeOK ==
  /\ dir \in [Dir -> Entry]
  /\ dataValid \in SUBSET Data
  /\ data \in [Data -> Bytes]
  /\ sendMeta \in Seq([tag : Tag, id : Dir])
  /\ sendData \in Seq([tag : Tag, ptr : Data])
  /\ dirArb \in {{}} \cup {{i} : i \in Dir}
  /\ dataArb \in {{}} \cup {{p} : p \in Data}
  /\ pendArb \in [gnt : Dir, wait : BOOLEAN]
  /\ cfg \in Cfgs
  /\ memAw \in Seq([tag : Tag, id : Dir])
  /\ memW \in Seq(Bytes)
  /\ resp \in SUBSET Dir
  /\ mem \in [Tag -> [Byte -> Val]]
  /\ golden \in [Tag -> [Byte -> Val]]

\* The entries that still gather writes.
Active == InState("OPEN") \cup InState("PEND")

(* At most one entry gathers writes to a block: two of them would be sent  *)
(* in an order unrelated to the order of the writes (write_hit_comb        *)
(* assumes it, taking whichever hit its loop meets last).                  *)
OneActiveEntryPerTag ==
  \A i, j \in Active : dir[i].tag = dir[j].tag => i = j

(* A data buffer is allocated exactly while it has an owner, and has one   *)
(* owner: an entry that gathers writes, or an announced write whose data   *)
(* has not left on W.  A leaked buffer would shrink the pool for ever, a   *)
(* shared one would mix two writes (send_valid_data_assert is a part).     *)
BufferOwnership ==
  /\ dataValid = {dir[i].ptr : i \in Active} \cup {sendData[k].ptr : k \in DOMAIN sendData}
  /\ \A i, j \in Active : dir[i].ptr = dir[j].ptr => i = j
  /\ \A k, l \in DOMAIN sendData : sendData[k].ptr = sendData[l].ptr => k = l
  /\ \A i \in Active, k \in DOMAIN sendData : dir[i].ptr # sendData[k].ptr

\* All announced writes, oldest first: on AW, and on W.
Announced == memAw \o sendMeta
AnnouncedBytes == memW \o [k \in DOMAIN sendData |-> data[sendData[k].ptr]]

(* An id that the memory knows is the id of a SENT entry and is in flight  *)
(* once: the directory entry, which is the transaction id, is not reused   *)
(* before its acknowledge (ack_sent_assert).                               *)
OutstandingIds ==
  /\ {Announced[k].id : k \in DOMAIN Announced} \cup resp = InState("SENT")
  /\ \A k, l \in DOMAIN Announced : Announced[k].id = Announced[l].id => k = l
  /\ \A k \in DOMAIN Announced : Announced[k].id \notin resp

(* The address and data channels stay paired although they drain           *)
(* independently: as many data items as addresses, and the k-th data item  *)
(* is the data of the k-th address.                                        *)
ChannelsPaired ==
  /\ Len(Announced) = Len(AnnouncedBytes)
  /\ \A k \in DOMAIN sendData : sendData[k].tag = Announced[Len(memW) + k].tag

(* A grant that an arbiter holds over several cycles still names a free    *)
(* entry, a free buffer, or an entry waiting to be sent when it is used.   *)
HeldGrantsValid ==
  /\ dirArb \subseteq InState("FREE")
  /\ dataArb \subseteq FreeData
  /\ pendArb.wait => pendArb.gnt \in InState("PEND")

(* The value a byte has once everything buffered has been performed in     *)
(* order: from the entry gathering writes, else from the youngest          *)
(* announced write, else from memory.                                      *)
DrainedValue(t, b) ==
  LET gathering == {i \in Active : dir[i].tag = t /\ data[dir[i].ptr][b] # NoVal}
      announced == {k \in DOMAIN Announced :
                      Announced[k].tag = t /\ AnnouncedBytes[k][b] # NoVal}
  IN  IF gathering # {} THEN data[dir[CHOOSE i \in gathering : TRUE].ptr][b]
      ELSE IF announced # {}
        THEN AnnouncedBytes[CHOOSE k \in announced : \A l \in announced : l <= k][b]
        ELSE mem[t][b]

(* No accepted write is lost, duplicated onto another block, or overtaken  *)
(* by an older one, whatever coalescing, timeouts, flushes and memory      *)
(* order do.  With an unordered memory this needs sequential WAW.          *)
WritesCoherent == \A t \in Tag, b \in Byte : DrainedValue(t, b) = golden[t][b]

(* When no entry hits a cache line (read_hit_o low), memory holds every    *)
(* accepted write to it: a miss may fetch it, and an empty buffer (fence)  *)
(* means that all writes have been performed.                              *)
ReadMissSafe ==
  \A t \in Tag : ~ReadHit(LineOf[t]) => mem[t] = golden[t]

(* Once a write has been announced its bytes do not change: the last write *)
(* that may coalesce is the one of the very cycle in which the entry is    *)
(* granted.                                                                *)
AnnouncedFrozen ==
  [][\A k \in DOMAIN sendData : data'[sendData[k].ptr] = data[sendData[k].ptr]]_vars

(* Every entry in use is freed some day, so a write put on hold because    *)
(* the buffer is full, or a fence, does not wait for ever.                 *)
EntryDrains ==
  \A i \in Dir : dir[i].state # "FREE" ~> dir[i].state = "FREE"

----------------------------------------------------------------------------
(* A statement of the documentation that the code does not satisfy         *)

(* docs/source/architecture.rst, Functional Description: an OPEN entry     *)
(* goes to PEND after a number of cycles given by the threshold, here set  *)
(* to 0 for good.                                                          *)
ZeroThresholdCloses ==
  <>[](cfg.threshold = 0) =>
    \A i \in Dir : dir[i].state = "OPEN" ~> dir[i].state # "OPEN"
=============================================================================
