------------------------------ MODULE Arbiter ------------------------------
(***************************************************************************)
(* The two arbiters used everywhere in the cache: the fixed-priority       *)
(* hpdcache_fxarb and the round-robin hpdcache_rrarb.  Both hold a grant   *)
(* that its consumer did not take (ready_i low) until it is taken, even    *)
(* when the request vector changes in between.                             *)
(*                                                                         *)
(* A request or grant vector is the set of its indexes whose bit is 1.     *)
(***************************************************************************)
EXTENDS Integers

\* The priority encoder: the lowest request, as a one-hot (or empty) vector.
Lowest(req) == {i \in req : \A j \in req : i <= j}

(***************************************************************************)
(* hpdcache_fxarb.  Its state is the held grant: {} when wait_q is 0 (then *)
(* gnt_q is not read), the set {gnt_q} otherwise.                          *)
(***************************************************************************)
FxReset == {}

FxGrant(held, req) == IF held # {} THEN held ELSE Lowest(req)

\* Mutant: a held grant is not released when it is taken.
FxNext_NotReleased(held, req, ready) == FxGrant(held, req)

FxNext(held, req, ready) == IF ready THEN {} ELSE FxGrant(held, req)

(***************************************************************************)
(* hpdcache_rrarb over the requesters 0 .. n-1.  gnt is the last granted   *)
(* requester (it survives the handshake: the search starts after it), wait *)
(* says that the grant is held.                                            *)
(***************************************************************************)
\* Mutant: the reset value is one position too high.
RrReset_Beyond(n) == [gnt |-> n, wait |-> FALSE]

RrReset(n) == [gnt |-> n - 1, wait |-> FALSE]

\* The requesters at or above the successor of the last granted one.
RrMasked(a, n, req) == {i \in req : i >= (a.gnt + 1) % n}

RrSelect(a, n, req) ==
  IF RrMasked(a, n, req) # {} THEN Lowest(RrMasked(a, n, req)) ELSE Lowest(req)

RrGrant(a, n, req) == IF a.wait THEN {a.gnt} ELSE RrSelect(a, n, req)

\* Mutant: a grant is held although it is taken.
RrNext_NotReleased(a, n, req, ready) ==
  [gnt  |-> IF ~a.wait /\ req # {}
              THEN CHOOSE i \in RrSelect(a, n, req) : TRUE
              ELSE a.gnt,
   wait |-> a.wait \/ req # {}]

RrNext(a, n, req, ready) ==
  [gnt  |-> IF ~a.wait /\ req # {}
              THEN CHOOSE i \in RrSelect(a, n, req) : TRUE
              ELSE a.gnt,
   wait |-> ~ready /\ (a.wait \/ req # {})]
=============================================================================
