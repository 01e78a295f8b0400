---------------------------- MODULE TestSequences ----------------------------
(***************************************************************************)
(* The stimuli of the test bench: five sequences, each a thread that draws *)
(* a transaction, gives it a free identifier, hands it to the driver and   *)
(* waits until the driver has passed it on.  A random draw is a choice;    *)
(* the probabilities, delays and sizes are left out.                       *)
(***************************************************************************)
EXTENDS TestTransaction, TLC

CONSTANTS SegWords,          \* words of each of the four segments: [0..3 -> SUBSET Words]
          Kinds,             \* the sequences set_sequence may select
          OpsDrawn,          \* bound: operations that are drawn
          Data,              \* bound: data that are drawn
          Lengths            \* bound: lengths of a run, [max, between]

VARIABLES kind,      \* the selected sequence
          len,       \* max_transactions, and the requests it puts between an LR and its SC
          sq         \* position of its loop: [n, lr, left]

seqVars == <<kind, len, sq>>

ASSUME SequencesAssumption ==
    /\ Kinds \subseteq {"random", "unique_set", "read", "write", "from_trace"}
    /\ Lengths \subseteq [max : Nat, between : 0 .. 10]

\* The segments are ranges of addresses, and the uncached one overlaps no other.
ASSUME SegmentsAssumption ==
    /\ SegWords \in [0 .. 3 -> SUBSET Words]
    /\ \A s \in 0 .. 2 : SegWords[s] \cap SegWords[3] = {}
    /\ Data \cup {0} \subseteq Value

op_distribution == {"LOAD", "STORE", "FENCE", "PREFETCH", "FLUSH_NLINE", "FLUSH_ALL",
                    "FLUSH_INVAL_NLINE", "FLUSH_INVAL_ALL"}
op_amo_distribution == op_distribution \cup {"LR", "SC"} \cup AmoOps

\* The segments of the two random sequences.  The third segment of unique_set
\* keeps the defaults, its setters are called on the fourth.
Seg(uncached, amo, policy) == [uncached |-> uncached, amo |-> amo, policy |-> policy]
random_seg == [s \in 0 .. 3 |-> Seg(s = 3, TRUE, <<"RANDOM", "WB", "WT", "AUTO">>[s + 1])]
unique_set_seg == [s \in 0 .. 3 |-> Seg(FALSE, s # 2, <<"RANDOM", "WB", "AUTO", "AUTO">>[s + 1])]

\* The segments that the sequence tells the memory to answer with an error.
errorsegs == IF kind = "random" THEN ErrorSegments ELSE <<>>

Reqs(addrs, ops, data, need, be, uncacheable, policies) ==
    [addr : addrs, op : ops, data : data, need_rsp : need, be : be,
     uncacheable : uncacheable, policy : policies]

Atomics == {"LR", "SC"} \cup AmoOps
HasData(op) == op \in {"STORE", "SC"} \cup AmoOps
SelectPolicy(op, policy) == CASE policy # "RANDOM" -> {policy}
                              [] op = "STORE"      -> Policies
                              [] OTHER             -> {"AUTO"}

\* create_random_transaction of the two random sequences.  Data and policies that
\* an operation does not use are not drawn.
SegReqs(s, attr) ==
    UNION {Reqs(SegWords[s], {op}, IF HasData(op) THEN Data ELSE {0},
                IF op \in Atomics THEN {TRUE} ELSE BOOLEAN, {~is_cmo(op)},
                {attr.uncached /\ ~is_cmo(op)}, SelectPolicy(op, attr.policy))
           : op \in OpsDrawn \cap IF attr.amo THEN op_amo_distribution ELSE op_distribution}
RandomReqs(seg) == UNION {SegReqs(s, seg[s]) : s \in DOMAIN seg}
ReadReqs == Reqs(SegWords[0], {"LOAD"}, {0}, {TRUE}, {TRUE}, {FALSE}, {"AUTO"})
WriteReqs == Reqs(SegWords[0], {"STORE"}, Data, {TRUE}, {TRUE}, {FALSE}, {"AUTO"})
\* A trace names any address (here: of the first segment); read_transaction
\* leaves the byte enables of a store at 0.
TraceReqs == Reqs(SegWords[0], {"LOAD", "STORE"}, {0}, BOOLEAN, {FALSE}, BOOLEAN, {"AUTO"})
ScReqs(lr) == Reqs({lr.addr}, {"SC"}, Data, {TRUE}, {TRUE}, {lr.uncacheable}, {"AUTO"})

Draws == [k \in Kinds |-> CASE k = "random"     -> RandomReqs(random_seg)
                            [] k = "unique_set" -> RandomReqs(unique_set_seg)
                            [] k = "read"       -> ReadReqs
                            [] k = "write"      -> WriteReqs
                            [] k = "from_trace" -> TraceReqs]

SequenceInit ==
    /\ kind \in Kinds
    /\ len \in Lengths
    /\ sq = [n |-> 0, lr |-> None, left |-> 0]

\* run: the main loop draws a request; after an LR it may decide to send some
\* more requests and then a store-conditional to the same address.
DrawMain(req) ==
    /\ sq.lr = None /\ sq.n < len.max
    /\ req \in Draws[kind]
    /\ \E amo_sc_do \in IF req.op = "LR" THEN BOOLEAN ELSE {FALSE} :
           sq' = [n |-> sq.n + 1, lr |-> IF amo_sc_do THEN req ELSE None,
                  left |-> IF amo_sc_do THEN len.between ELSE 0]
DrawBetween(req) ==
    /\ sq.lr # None /\ sq.left > 0
    /\ req \in Draws[kind]
    /\ sq' = [sq EXCEPT !.left = @ - 1]
DrawSc(req) ==
    /\ sq.lr # None /\ sq.left = 0
    /\ req \in ScReqs(sq.lr)
    /\ sq' = [sq EXCEPT !.lr = None]

\* The loop is over and the driver is asked to stop; a trace may end earlier.
SequenceOver == sq.lr = None /\ (sq.n = len.max \/ kind = "from_trace")
=============================================================================
