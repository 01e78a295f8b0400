----------------------------- MODULE DataCases -----------------------------
(***************************************************************************)
(* The pure algorithms of the test bench whose cases are data: an atomic,  *)
(* which two sides compute, and the placement of a fault.  A behaviour     *)
(* picks a case and keeps it.                                              *)
(***************************************************************************)
EXTENDS Amo, FaultInjection

VARIABLES block,   \* the algorithm
          input    \* the case

AmoCases == [op : AmoOps, old : Value, st : Value, access : Accesses]

Geometry(width, ways, words, line, tags) ==
  [wordWidth |-> width, waysPerRamWord |-> ways, accessWords |-> words, clWords |-> line, tagWidth |-> tags]

\* The configurations of the test bench: default, direct mapped, embedded, hpc.
Geometries == {Geometry(64, 2, 4, 4, 37), Geometry(32, 1, 1, 4, 20),
               Geometry(32, 4, 4, 4, 21), Geometry(64, 2, 4, 8, 37)}

FaultMasks == {{5, 7}, {31, 32}} \cup {{i} : i \in 0 .. 71}

FaultCases ==
  {[g |-> g, f |-> [set |-> s, way |-> w, word |-> d, mask |-> m]] :
     g \in Geometries, s \in {0, 3}, w \in 0 .. 3, d \in {0, 1, 3}, m \in FaultMasks}

CasesInit == /\ block = "amo" => input \in AmoCases
             /\ block = "fault" => input \in FaultCases

CasesSpec == CasesInit /\ [][UNCHANGED <<block, input>>]_<<block, input>>

(* The memory model, which computes an atomic from the operation and the   *)
(* operand the cache sends it (a CLR of the complement for an AND), leaves *)
(* the same word in memory as the scoreboard, which computes it from the   *)
(* core's request, for every operation, word, operand and part of a word.  *)
AmoAgree ==
  block = "amo" =>
    sb_amo_word(input.op, input.old, input.st, input.access)
      = mem_amo_word(mem_atomic(input.op), input.old, mem_operand(input.op, input.st), input.access)

(* An injected fault flips the bits of its mask in the RAM word, at the    *)
(* place of its way and word, and no others, for all configurations, also  *)
(* when the word starts in the middle of a 32-bit chunk.                   *)
FaultPlaced == block = "fault" => Placed(input.g, input.f)
=============================================================================
