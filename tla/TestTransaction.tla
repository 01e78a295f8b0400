-------------------------- MODULE TestTransaction --------------------------
(***************************************************************************)
(* The transactions of the test bench: operations, addresses and errors.   *)
(* An address is a word of one cache line; the bytes of a word and the     *)
(* sizes of accesses are left out (Amo and RamModel treat them).           *)
(***************************************************************************)
EXTENDS Integers, Sequences, FiniteSets, Amo

CONSTANTS None,           \* "no value"
          Words,          \* the addresses
          LineWords,      \* words in a cache line
          ErrorSegments,  \* segments [base, end, error] that a sequence may declare
          Configs         \* build configurations: [memWords, wb]

ASSUME WordsAssumption == Words \subseteq Nat /\ LineWords \in Nat \ {0}
ASSUME ConfigsAssumption == \A c \in Configs : c.memWords \in 1 .. LineWords /\ c.wb \in BOOLEAN

\* The configuration of the build: words in a beat of the memory interface, and
\* whether the cache supports write-back.
VARIABLE conf

\* A table (or a record) in which d has the value e.
Put(f, d, e) == [x \in DOMAIN f \cup {d} |-> IF x = d THEN e ELSE f[x]]

\* The data of a write of one word, and a memory after the words of data are
\* written.
OneWord(w, v) == [x \in {w} |-> v]
Written(memory, data) == [w \in Words |-> IF w \in DOMAIN data THEN data[w] ELSE memory[w]]

CmoOps == {"FENCE", "PREFETCH", "INVAL_NLINE", "INVAL_ALL", "FLUSH_NLINE", "FLUSH_ALL",
           "FLUSH_INVAL_NLINE", "FLUSH_INVAL_ALL"}
ReqOps == {"LOAD", "STORE", "LR", "SC"} \cup AmoOps \cup CmoOps
Policies == {"AUTO", "WB", "WT"}

is_amo(op) == op \in AmoOps
is_cmo(op) == op \in CmoOps
is_store(op) == op = "STORE"
\* Operations whose response carries data that can be compared.
ReadsData(op) == op \in {"LOAD", "LR"} \cup AmoOps
get_nline(a) == a \div LineWords

\* be tells whether the byte enables select the word or nothing.
TransactionReq == [tid : Nat, addr : Words, op : ReqOps, data : Value, need_rsp : BOOLEAN,
                   be : BOOLEAN, uncacheable : BOOLEAN, policy : Policies]

\* Two address ranges [base, end) have a byte in common.
Overlap(base0, end0, base1, end1) == end0 > base1 /\ base0 < end1

\* The first declared segment that overlaps the access decides.
within_error_region(segs, base, end) ==
    LET hits == {i \in 1 .. Len(segs) : Overlap(segs[i].base, segs[i].end, base, end)}
    IN  hits # {} /\ segs[CHOOSE i \in hits : \A j \in hits : i =< j].error

\* Commands of the memory interface.
MemCommands == {"READ", "WRITE", "LDEX", "STEX"} \cup {mem_atomic(op) : op \in AmoOps}
mem_is_amo(cmd) == cmd \notin {"READ", "WRITE", "LDEX", "STEX"}
=============================================================================
