---------------------------- MODULE MCTestBench ----------------------------
(* Small instances of the test bench for TLC. *)
EXTENDS TestBench

\* Two words of a cacheable line, a word in an error segment, an uncached word.
MCWords == {0, 1, 2, 4}
MCSegWords == (0 :> {0}) @@ (1 :> {2}) @@ (2 :> {}) @@ (3 :> {4})
MCErrorSegments == <<[base |-> 2, end |-> 4, error |-> TRUE]>>
\* The 64-bit memory without write-back, and a memory as wide as a line with it.
MCConfigs == {[memWords |-> 1, wb |-> FALSE], [memWords |-> 2, wb |-> TRUE]}
\* Two requests side by side, or one between a load-reserved and its store-conditional.
MCLengths == {[max |-> 2, between |-> 0], [max |-> 1, between |-> 1]}
MCThreeWrites == {[max |-> 3, between |-> 0]}
MCLrscZero == {[valid |-> FALSE, addr |-> 0]}
\* What the storage of the scoreboard held reads as a reservation in the error segment.
MCLrscError == {[valid |-> TRUE, addr |-> 2]}
=============================================================================
