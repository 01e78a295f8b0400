------------------------------- MODULE MCWbuf -------------------------------
(* Small instances of Wbuf for TLC. *)
EXTENDS Wbuf, TLC

CONSTANTS t1, t2, b1, b2, v0, v1

OneLine  == [t \in Tag |-> 0]
TwoLines == [t \in Tag |-> IF t = t1 THEN 1 ELSE 2]

\* Writes of a full one-byte block.
ByteWrites == [Byte -> Val]

\* Writes of one byte of the block.
PartialWrites == {[NoBytes EXCEPT ![b] = v] : b \in Byte, v \in Val}

C(th, r, s, i) == [threshold |-> th, resetOnWrite |-> r, seqWaw |-> s, inhibit |-> i]

\* Sequential WAW, the other fields reprogrammed freely.
CfgsSequential == {C(1, TRUE, TRUE, FALSE), C(0, FALSE, TRUE, TRUE)}
\* Switching between relaxed and sequential WAW at any time.
CfgsMixed == {C(2, TRUE, FALSE, FALSE), C(0, FALSE, TRUE, TRUE)}
\* A static setting for liveness, relaxed WAW.
CfgsLive == {C(2, FALSE, FALSE, FALSE)}
\* A threshold lowered to zero.
CfgsZero == {C(2, FALSE, TRUE, FALSE), C(0, FALSE, TRUE, FALSE)}

(* The registers without the contents nobody reads before they are written *)
(* again: fields of a FREE entry, the counter outside OPEN, the buffer of  *)
(* a SENT entry, and the bytes of a free buffer.                           *)
Observable ==
  <<[i \in Dir |-> <<dir[i].state,
                    IF dir[i].state # "FREE" THEN dir[i].tag ELSE 0,
                    IF dir[i].state = "OPEN" THEN dir[i].cnt ELSE 0,
                    IF i \in Active THEN dir[i].ptr ELSE 0>>],
    dataValid, [p \in dataValid |-> data[p]],
    sendMeta, sendData, dirArb, dataArb, pendArb, cfg, env, golden>>

\* Blocks of one line, bytes and values are interchangeable.
Symmetry == Permutations(Tag) \cup Permutations(Byte) \cup Permutations(Val)
=============================================================================
