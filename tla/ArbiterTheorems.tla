-------------------------- MODULE ArbiterTheorems --------------------------
(* Facts about the arbiters, for any number of requesters. *)
EXTENDS Arbiter, WellFoundedInduction, TLAPS

\* A set of naturals that is not empty has a least element.
LEMMA LeastExists ==
  ASSUME NEW S \in SUBSET Nat, S # {}
  PROVE  \E x \in S : \A y \in S : x <= y
<1> DEFINE R == {ss \in Nat \X Nat : ss[1] < ss[2]}
<1>1. IsWellFoundedOn(R, Nat)
  BY NatLessThanWellFounded DEF OpToRel
<1>2. PICK x \in S : \A y \in S : ~(<<y, x>> \in R)
  <2> HIDE DEF R
  <2> QED BY <1>1, WFMin
<1>3. ASSUME NEW y \in S PROVE x <= y
  <2>1. x \in Nat /\ y \in Nat /\ <<y, x>> \in Nat \X Nat
    OBVIOUS
  <2>2. ~(<<y, x>>[1] < <<y, x>>[2])
    BY <1>2, <2>1
  <2> QED
    BY <2>1, <2>2
<1> QED
  BY <1>3

(* The priority encoder is one-hot: it grants exactly one of the pending   *)
(* requests (gnt_at_most_one_requester, and none is dropped).              *)
LEMMA LowestOneHot ==
  ASSUME NEW S \in SUBSET Nat, S # {}
  PROVE  \E x \in S : Lowest(S) = {x}
<1>1. PICK x \in S : \A y \in S : x <= y
  BY LeastExists
<1>2. x \in Lowest(S)
  BY <1>1 DEF Lowest
<1>3. ASSUME NEW z \in Lowest(S) PROVE z = x
  <2>1. z \in S /\ z <= x /\ x <= z
    BY <1>1 DEF Lowest
  <2>2. z \in Nat /\ x \in Nat
    BY <2>1
  <2> QED
    BY <2>1, <2>2
<1>4. Lowest(S) = {x}
  BY <1>2, <1>3
<1> QED
  BY <1>4

\* The priority encoder grants pending requests only.
LEMMA LowestSubset == ASSUME NEW S PROVE Lowest(S) \subseteq S
  BY DEF Lowest

(* A fixed-priority arbiter whose held grant is a pending request grants   *)
(* exactly one pending request.                                            *)
LEMMA FxGrantOneHot ==
  ASSUME NEW req \in SUBSET Nat, req # {}, NEW held,
         held = {} \/ \E h \in req : held = {h}
  PROVE  \E x \in req : FxGrant(held, req) = {x}
  BY LowestOneHot DEF FxGrant

(* The round-robin arbiter grants exactly one pending request.             *)
LEMMA RrGrantOneHot ==
  ASSUME NEW n \in Nat \ {0}, NEW req \in SUBSET (0 .. n - 1), req # {},
         NEW a \in [gnt : 0 .. n - 1, wait : BOOLEAN],
         a.wait => a.gnt \in req
  PROVE  \E x \in req : RrGrant(a, n, req) = {x}
<1>1. CASE a.wait
  BY <1>1 DEF RrGrant
<1>2. CASE ~a.wait
  <2>2. req \in SUBSET Nat
    OBVIOUS
  <2>1. RrMasked(a, n, req) \in SUBSET Nat /\ RrMasked(a, n, req) \subseteq req
    <3>1. RrMasked(a, n, req) \subseteq req
      BY Zenon DEF RrMasked
    <3> QED
      BY <2>2, <3>1
  <2>3. CASE RrMasked(a, n, req) # {}
    <3>1. PICK x \in RrMasked(a, n, req) : Lowest(RrMasked(a, n, req)) = {x}
      BY <2>1, <2>3, LowestOneHot
    <3> QED
      BY <1>2, <2>1, <2>3, <3>1 DEF RrGrant, RrSelect
  <2>4. CASE RrMasked(a, n, req) = {}
    BY <1>2, <2>2, <2>4, LowestOneHot DEF RrGrant, RrSelect
  <2> QED
    BY <2>3, <2>4
<1> QED
  BY <1>1, <1>2

(* Holding a grant: when the request in hand is granted {x} and not taken, *)
(* the arbiter grants {x} in the next cycle too, whatever is then pending. *)
LEMMA RrHolds ==
  ASSUME NEW n \in Nat \ {0}, NEW req \in SUBSET (0 .. n - 1), req # {},
         NEW a \in [gnt : 0 .. n - 1, wait : BOOLEAN],
         a.wait => a.gnt \in req, NEW ready \in BOOLEAN
  PROVE  /\ RrNext(a, n, req, ready) \in [gnt : req, wait : BOOLEAN]
         /\ RrNext(a, n, req, ready).wait = ~ready
         /\ RrGrant(a, n, req) = {RrNext(a, n, req, ready).gnt}
<1>1. PICK x \in req : RrGrant(a, n, req) = {x}
  BY RrGrantOneHot
<1>2. CASE a.wait
  BY <1>1, <1>2 DEF RrGrant, RrNext
<1>3. CASE ~a.wait
  <2>1. RrSelect(a, n, req) = {x}
    BY <1>1, <1>3 DEF RrGrant
  <2>2. (CHOOSE i \in RrSelect(a, n, req) : TRUE) = x
    BY <2>1
  <2> QED
    BY <1>1, <1>3, <2>2 DEF RrNext
<1> QED
  BY <1>2, <1>3

(* The state of the round-robin arbiter keeps its type, also when the      *)
(* requester whose grant it holds has withdrawn.                           *)
LEMMA RrNextType ==
  ASSUME NEW n \in Nat \ {0}, NEW req \in SUBSET (0 .. n - 1),
         NEW a \in [gnt : 0 .. n - 1, wait : BOOLEAN], NEW ready
  PROVE  RrNext(a, n, req, ready) \in [gnt : 0 .. n - 1, wait : BOOLEAN]
<1>1. CASE a.wait \/ req = {}
  BY <1>1 DEF RrNext
<1>2. CASE ~a.wait /\ req # {}
  <2>1. RrNext(a, n, req, FALSE) \in [gnt : req, wait : BOOLEAN]
    BY <1>2, RrHolds
  <2>2. RrNext(a, n, req, ready).gnt = RrNext(a, n, req, FALSE).gnt
    BY DEF RrNext
  <2>3. RrNext(a, n, req, ready) = [gnt |-> RrNext(a, n, req, ready).gnt,
                                    wait |-> RrNext(a, n, req, ready).wait]
    BY DEF RrNext
  <2>4. RrNext(a, n, req, ready).wait \in BOOLEAN
    BY DEF RrNext
  <2> QED
    BY <2>1, <2>2, <2>3, <2>4
<1> QED
  BY <1>1, <1>2
=============================================================================
