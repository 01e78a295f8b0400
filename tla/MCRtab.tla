------------------------------- MODULE MCRtab -------------------------------
(* Small instances of RtabCtrl for TLC. *)
EXTENDS RtabCtrl, TLC

CONSTANTS l1, l2, w1, w2

OneSet  == [l \in Line |-> 0]
TwoSets == [l \in Line |-> IF l = l1 THEN 0 ELSE 1]

\* Refills with many entries, the flush controller with a single one.
OrderDeps == (FALSE :> {"mshr_hit", "write_miss"})
               @@ (TRUE :> {"mshr_ready", "flush_hit", "flush_not_ready"})
GrantDeps == FALSE :> {"mshr_full", "dir_unavailable", "wbuf_hit", "wbuf_not_ready"}
OneDep    == FALSE :> {"mshr_hit"}

(* The registers without the contents nobody reads before they are written *)
(* again: those of invalid entries, and the pointer of an idle machine.    *)
Observable ==
  <<singleEntry, valid, head \cap valid, tail \cap valid, error, deps,
    [i \in valid |-> <<req[i], older[i], IF i \in tail THEN 0 ELSE next[i]>>],
    popState, IF popState = "HEAD" THEN {} ELSE popNext, arbs, st1, st2, idle, refill>>
=============================================================================
