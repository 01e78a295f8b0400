-------------------------------- MODULE Amo --------------------------------
(***************************************************************************)
(* The atomic memory operations, which the test bench computes twice: the  *)
(* scoreboard from the operation the core asked for, the memory model from *)
(* the operation the cache sent.  Data are numbers of WordBits bits; an    *)
(* access may be to the upper or lower half of a word.                     *)
(***************************************************************************)
EXTENDS Integers, FiniteSetsExt

CONSTANT WordBits   \* width of a data word, even

ASSUME WordBitsAssumption == WordBits \in Nat \ {0} /\ WordBits % 2 = 0

\* The powers of two that are used, by doubling: arithmetic, which the proofs
\* name because the provers do not know it.
ASSUME PowersOfTwo ==
  /\ 2^0 = 1
  /\ \A i \in 0 .. WordBits - 1 : 2^i \in Nat /\ 2^(i + 1) = 2 * 2^i

Value == 0 .. (2^WordBits - 1)

\* The bits that are set in a value, and the value with a given set of bits.
BitsOf(v) == {i \in 0 .. (WordBits - 1) : (v \div 2^i) % 2 = 1}
ValueOf(S) == MapThenSumSet(LAMBDA i : 2^i, S)

\* A value of n bits read as a two's complement number.
Signed(v, n) == IF v >= 2^(n - 1) THEN v - 2^n ELSE v

AmoOps == {"SWAP", "ADD", "AND", "OR", "XOR", "MAX", "MAXU", "MIN", "MINU"}

\* What the scoreboard expects an operation to leave in memory.
compute_amo(op, ld, st, n) ==
    LET umax == ld > st
        smax == Signed(ld, n) > Signed(st, n)
    IN  CASE op = "SWAP" -> st
          [] op = "ADD"  -> (ld + st) % 2^WordBits
          [] op = "AND"  -> ValueOf(BitsOf(ld) \cap BitsOf(st))
          [] op = "OR"   -> ValueOf(BitsOf(ld) \cup BitsOf(st))
          [] op = "XOR"  -> ValueOf((BitsOf(ld) \cup BitsOf(st)) \ (BitsOf(ld) \cap BitsOf(st)))
          [] op = "MAX"  -> IF smax THEN ld ELSE st
          [] op = "MAXU" -> IF umax THEN ld ELSE st
          [] op = "MIN"  -> IF smax THEN st ELSE ld
          [] op = "MINU" -> IF umax THEN st ELSE ld

\* The memory's operation for a core operation, and below the operand that goes
\* with it: the memory knows no AND, the cache sends a CLR of the complement.
mem_atomic(op) ==
    CASE op = "AND" -> "CLR" [] op = "OR" -> "SET" [] op = "XOR" -> "EOR"
      [] op = "MAX" -> "SMAX" [] op = "MAXU" -> "UMAX"
      [] op = "MIN" -> "SMIN" [] op = "MINU" -> "UMIN"
      [] OTHER -> op

\* Mutant: the operand of an AND is sent as it is.
mem_operand_Plain(op, st) == st

mem_operand(op, st) == IF op = "AND" THEN (2^WordBits - 1) - st ELSE st

\* What the memory model leaves in memory.
mem_compute_amo(atop, ld, st, n) ==
    LET umax == ld > st
        smax == Signed(ld, n) > Signed(st, n)
    IN  CASE atop = "ADD"  -> (ld + st) % 2^WordBits
          [] atop = "CLR"  -> ValueOf(BitsOf(ld) \ BitsOf(st))
          [] atop = "SET"  -> ValueOf(BitsOf(ld) \cup BitsOf(st))
          [] atop = "EOR"  -> ValueOf((BitsOf(ld) \ BitsOf(st)) \cup (BitsOf(st) \ BitsOf(ld)))
          [] atop = "SMAX" -> IF smax THEN ld ELSE st
          [] atop = "UMAX" -> IF umax THEN ld ELSE st
          [] atop = "SMIN" -> IF smax THEN st ELSE ld
          [] atop = "UMIN" -> IF umax THEN st ELSE ld
          [] atop = "SWAP" -> st

\* A size is the number of bits accessed, an offset the lowest of them.
Accesses == {[n |-> WordBits, offset |-> 0],
             [n |-> WordBits \div 2, offset |-> 0],
             [n |-> WordBits \div 2, offset |-> WordBits \div 2]}
Operand(v, a) == IF a.n = WordBits THEN v ELSE (v \div 2^a.offset) % 2^a.n
Enabled(a) == a.offset .. (a.offset + a.n - 1)
Merge(old, new, a) == ValueOf((BitsOf(old) \ Enabled(a)) \cup (BitsOf(new) \cap Enabled(a)))

\* The word after an operation, as each side computes it: extract the operands,
\* compute, shift the result back, write the enabled bytes.
sb_amo_word(op, old, st, a) ==
    Merge(old, (compute_amo(op, Operand(old, a), Operand(st, a), a.n) * 2^a.offset) % 2^WordBits, a)
mem_amo_word(atop, old, st, a) ==
    Merge(old, (mem_compute_amo(atop, Operand(old, a), Operand(st, a), a.n) * 2^a.offset) % 2^WordBits, a)
=============================================================================
