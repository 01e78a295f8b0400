-------------------------- MODULE CoherenceProofs --------------------------
(***************************************************************************)
(* What the cache and the memory model of the test bench keep in step:     *)
(* the two channels of a write, the reads that are on their way, the       *)
(* reservation.                                                            *)
(***************************************************************************)
EXTENDS TestBenchProofs, WellFoundedInduction

\* A sequence, of whatever it holds.
IsSeq(s) == s \in Seq({s[i] : i \in 1 .. Len(s)})

\* A sequence over any set is one.
LEMMA SeqIsSeq ==
  ASSUME NEW S, NEW s \in Seq(S)
  PROVE  IsSeq(s) /\ Len(s) \in Nat
<1>1. Len(s) \in Nat /\ s \in [1 .. Len(s) -> S]
  BY LenProperties
<1> DEFINE R == {s[i] : i \in 1 .. Len(s)}
<1>2. s \in [1 .. Len(s) -> R]
  BY <1>1
<1> HIDE DEF R
<1>3. s \in Seq(R)
  BY <1>1, <1>2, SeqDef
<1> QED
  BY <1>1, <1>3 DEF IsSeq, R

\* The empty sequence and a sequence of one element.
LEMMA ShortSeq ==
  ASSUME NEW x
  PROVE  /\ IsSeq(<<>>) /\ Len(<<>>) = 0
         /\ IsSeq(<<x>>) /\ Len(<<x>>) = 1 /\ <<x>>[1] = x /\ <<x>> # <<>>
<1>1. <<>> \in Seq({x}) /\ <<x>> \in Seq({x})
  BY EmptySeq
<1> QED
  BY <1>1, SeqIsSeq

\* A sequence with one more element at its end.
LEMMA SeqAppend ==
  ASSUME NEW s, IsSeq(s), NEW x
  PROVE  /\ IsSeq(Append(s, x)) /\ Append(s, x) # <<>> /\ Len(s) \in Nat
         /\ Len(Append(s, x)) = Len(s) + 1
         /\ \A i \in 1 .. Len(s) : Append(s, x)[i] = s[i]
         /\ Append(s, x)[Len(s) + 1] = x
         /\ s # <<>> => Tail(Append(s, x)) = Append(Tail(s), x)
<1> DEFINE R == {s[i] : i \in 1 .. Len(s)}
           T == R \cup {x}
<1>1. s \in Seq(R)
  BY DEF IsSeq
<1> HIDE DEF R
<1>2. s \in Seq(T) /\ x \in T
  BY <1>1, SeqMonotonic
<1> HIDE DEF T
<1>3. /\ Append(s, x) \in Seq(T) /\ Append(s, x) # <<>>
      /\ Len(Append(s, x)) = Len(s) + 1
      /\ \A i \in 1 .. Len(s) : Append(s, x)[i] = s[i]
      /\ Append(s, x)[Len(s) + 1] = x
  BY <1>2, AppendProperties
<1>4. s # <<>> => Tail(Append(s, x)) = Append(Tail(s), x)
  BY <1>2, HeadTailAppend
<1>5. IsSeq(Append(s, x)) /\ Len(s) \in Nat
  BY <1>2, <1>3, SeqIsSeq
<1> QED
  BY <1>3, <1>4, <1>5

\* A sequence without its first element.
LEMMA SeqTail ==
  ASSUME NEW s, IsSeq(s), s # <<>>
  PROVE  /\ IsSeq(Tail(s)) /\ Len(s) \in Nat \ {0}
         /\ Len(Tail(s)) = Len(s) - 1
         /\ \A i \in 1 .. Len(s) - 1 : Tail(s)[i] = s[i + 1]
         /\ Head(s) = s[1]
<1> DEFINE R == {s[i] : i \in 1 .. Len(s)}
<1>1. s \in Seq(R)
  BY DEF IsSeq
<1> HIDE DEF R
<1>2. /\ Tail(s) \in Seq(R) /\ Len(s) \in Nat \ {0} /\ Len(Tail(s)) = Len(s) - 1
      /\ \A i \in 1 .. Len(s) - 1 : Tail(s)[i] = s[i + 1]
      /\ Head(s) = s[1]
  BY <1>1, HeadTailProperties, EmptySeq
<1>3. IsSeq(Tail(s))
  BY <1>2, SeqIsSeq
<1> QED
  BY <1>2, <1>3

\* The elements of two sequences in a row.
LEMMA SeqCat ==
  ASSUME NEW p, IsSeq(p), NEW q, IsSeq(q)
  PROVE  /\ IsSeq(Cat(p, q)) /\ Len(p) \in Nat /\ Len(q) \in Nat
         /\ Len(Cat(p, q)) = Len(p) + Len(q)
         /\ \A i \in 1 .. Len(p) + Len(q) : Cat(p, q)[i] = IF i <= Len(p) THEN p[i] ELSE q[i - Len(p)]
<1> DEFINE R == {p[i] : i \in 1 .. Len(p)} \cup {q[i] : i \in 1 .. Len(q)}
<1>1. p \in Seq(R) /\ q \in Seq(R)
  BY SeqMonotonic DEF IsSeq
<1> HIDE DEF R
<1>2. p \o q \in Seq(R) /\ Len(p) \in Nat /\ Len(q) \in Nat
  BY <1>1, ConcatProperties
<1> QED
  BY <1>1, <1>2, ConcatProperties, SeqIsSeq DEF Cat

\* Two sequences that agree.
LEMMA SameSeq ==
  ASSUME NEW p, IsSeq(p), NEW q, IsSeq(q), Len(p) = Len(q), \A i \in 1 .. Len(p) : p[i] = q[i]
  PROVE  p = q
<1> DEFINE R == {p[i] : i \in 1 .. Len(p)} \cup {q[i] : i \in 1 .. Len(q)}
<1>1. p \in Seq(R) /\ q \in Seq(R)
  BY SeqMonotonic DEF IsSeq
<1> HIDE DEF R
<1> QED
  BY <1>1, SeqEqual

\* Concatenation with the empty sequence, and of three.
LEMMA CatEmpty ==
  ASSUME NEW p, IsSeq(p)
  PROVE  Cat(<<>>, p) = p /\ Cat(p, <<>>) = p
<1> DEFINE R == {p[i] : i \in 1 .. Len(p)}
<1>1. p \in Seq(R)
  BY DEF IsSeq
<1> HIDE DEF R
<1> QED
  BY <1>1, ConcatEmptySeq DEF Cat

\* Concatenation is associative.
LEMMA CatAssoc ==
  ASSUME NEW p, IsSeq(p), NEW q, IsSeq(q), NEW r, IsSeq(r)
  PROVE  Cat(Cat(p, q), r) = Cat(p, Cat(q, r))
<1> DEFINE R == ({p[i] : i \in 1 .. Len(p)} \cup {q[i] : i \in 1 .. Len(q)}) \cup {r[i] : i \in 1 .. Len(r)}
<1>1. p \in Seq(R) /\ q \in Seq(R) /\ r \in Seq(R)
  BY SeqMonotonic DEF IsSeq
<1> HIDE DEF R
<1> QED
  BY <1>1, ConcatAssociative DEF Cat

\* An element at the end, and the first element.
LEMMA CatEnds ==
  ASSUME NEW p, IsSeq(p), NEW q, IsSeq(q)
  PROVE  /\ \A x : Cat(p, Append(q, x)) = Append(Cat(p, q), x)
         /\ \A x : Append(p, x) = Cat(p, <<x>>)
         /\ p # <<>> => Head(Cat(p, q)) = Head(p) /\ Tail(Cat(p, q)) = Cat(Tail(p), q) /\ Cat(p, q) # <<>>
         /\ p # <<>> => p = Cat(<<Head(p)>>, Tail(p))
         /\ q # <<>> => Cat(Append(p, Head(q)), Tail(q)) = Cat(p, q)
<1>0. ASSUME NEW x, NEW s, IsSeq(s) PROVE Append(s, x) = Cat(s, <<x>>)
  <2> DEFINE a == Append(s, x)
             o == <<x>>
             b == Cat(s, o)
  <2>1. /\ IsSeq(a) /\ Len(a) = Len(s) + 1 /\ Len(s) \in Nat
        /\ \A i \in 1 .. Len(s) : a[i] = s[i]
        /\ a[Len(s) + 1] = x
    BY <1>0, SeqAppend
  <2>2. IsSeq(o) /\ Len(o) = 1 /\ o[1] = x
    BY ShortSeq
  <2> HIDE DEF a, o
  <2>3. /\ IsSeq(b) /\ Len(b) = Len(s) + 1
        /\ \A i \in 1 .. Len(s) + 1 : b[i] = IF i <= Len(s) THEN s[i] ELSE o[i - Len(s)]
    BY <1>0, <2>2, SeqCat
  <2> HIDE DEF b
  <2>4. ASSUME NEW i \in 1 .. Len(s) + 1 PROVE a[i] = b[i]
    <3>1. CASE i <= Len(s)
      BY <2>1, <2>3, <3>1
    <3>2. CASE ~(i <= Len(s))
      <4>1. i = Len(s) + 1 /\ i - Len(s) = 1
        BY <2>1, <3>2
      <4> QED
        BY <2>1, <2>2, <2>3, <3>2, <4>1
    <3> QED
      BY <3>1, <3>2
  <2>5. a = b
    BY <2>1, <2>3, <2>4, SameSeq
  <2> QED
    BY <2>5 DEF a, b, o
<1>1. ASSUME NEW x PROVE Cat(p, Append(q, x)) = Append(Cat(p, q), x)
  <2> DEFINE o == <<x>>
  <2>1. IsSeq(o)
    BY ShortSeq
  <2>2. Append(q, x) = Cat(q, o) /\ Append(Cat(p, q), x) = Cat(Cat(p, q), o)
    BY <1>0, SeqCat
  <2> HIDE DEF o
  <2>3. Cat(Cat(p, q), o) = Cat(p, Cat(q, o))
    BY <2>1, CatAssoc
  <2> QED
    BY <2>2, <2>3
<1>2. ASSUME NEW s, IsSeq(s), s # <<>> PROVE s = Cat(<<Head(s)>>, Tail(s))
  <2> DEFINE h == Head(s)  t == Tail(s)  o == <<h>>  b == Cat(o, t)
  <2>1. /\ IsSeq(t) /\ Len(s) \in Nat \ {0} /\ Len(t) = Len(s) - 1
        /\ \A i \in 1 .. Len(s) - 1 : t[i] = s[i + 1]
        /\ h = s[1]
    BY <1>2, SeqTail
  <2> HIDE DEF h, t
  <2>2. IsSeq(o) /\ Len(o) = 1 /\ o[1] = h
    BY ShortSeq
  <2> HIDE DEF o
  <2>3. /\ IsSeq(b) /\ Len(b) = Len(o) + Len(t)
        /\ \A i \in 1 .. Len(o) + Len(t) : b[i] = IF i <= Len(o) THEN o[i] ELSE t[i - Len(o)]
    BY <2>1, <2>2, SeqCat
  <2>6. Len(o) + Len(t) = Len(s)
    BY <2>1, <2>2
  <2> HIDE DEF b
  <2>4. ASSUME NEW i \in 1 .. Len(s) PROVE s[i] = b[i]
    <3>1. CASE i = 1
      BY <2>1, <2>2, <2>3, <2>6, <3>1
    <3>2. CASE i # 1
      <4>1. i - 1 \in 1 .. Len(s) - 1 /\ ~(i <= 1) /\ (i - 1) + 1 = i
        BY <2>1, <3>2
      <4> QED
        BY <2>1, <2>2, <2>3, <2>6, <4>1
    <3> QED
      BY <3>1, <3>2
  <2>5. s = b
    BY <1>2, <2>3, <2>4, <2>6, SameSeq
  <2> QED
    BY <2>5 DEF b, o, h, t
<1>3. ASSUME NEW s, NEW x, NEW t, IsSeq(t), s = Cat(<<x>>, t)
      PROVE  Head(s) = x /\ Tail(s) = t /\ s # <<>>
  <2> DEFINE o == <<x>>
  <2>1. IsSeq(o) /\ Len(o) = 1 /\ o[1] = x
    BY ShortSeq
  <2> HIDE DEF o
  <2>2. /\ IsSeq(s) /\ Len(s) = 1 + Len(t) /\ Len(t) \in Nat
        /\ \A i \in 1 .. 1 + Len(t) : s[i] = IF i <= 1 THEN o[i] ELSE t[i - 1]
    BY <1>3, <2>1, SeqCat DEF o
  <2>3. s # <<>>
    BY <2>2
  <2>4. /\ IsSeq(Tail(s)) /\ Len(Tail(s)) = Len(s) - 1
        /\ \A i \in 1 .. Len(s) - 1 : Tail(s)[i] = s[i + 1]
        /\ Head(s) = s[1]
    BY <2>2, <2>3, SeqTail
  <2>5. ASSUME NEW i \in 1 .. Len(t) PROVE Tail(s)[i] = t[i]
    <3>1. i + 1 \in 1 .. 1 + Len(t) /\ ~(i + 1 <= 1) /\ (i + 1) - 1 = i /\ i \in 1 .. Len(s) - 1
      BY <2>2
    <3> QED
      BY <2>2, <2>4, <3>1
  <2>6. Tail(s) = t
    <3>1. Len(Tail(s)) = Len(t)
      BY <2>2, <2>4
    <3> QED
      BY <1>3, <2>4, <2>5, <3>1, SameSeq
  <2>7. Head(s) = x
    BY <2>1, <2>2, <2>4
  <2> QED
    BY <2>3, <2>6, <2>7
<1>4. ASSUME p # <<>>
      PROVE  Head(Cat(p, q)) = Head(p) /\ Tail(Cat(p, q)) = Cat(Tail(p), q) /\ Cat(p, q) # <<>>
  <2> DEFINE h == Head(p)  t == Tail(p)  o == <<h>>
  <2>1. p = Cat(o, t) /\ IsSeq(t) /\ IsSeq(o)
    BY <1>2, <1>4, SeqTail, ShortSeq
  <2> HIDE DEF h, t, o
  <2>2. Cat(p, q) = Cat(o, Cat(t, q)) /\ IsSeq(Cat(t, q))
    BY <2>1, CatAssoc, SeqCat
  <2>3. Cat(p, q) = Cat(<<h>>, Cat(t, q))
    BY <2>2 DEF o
  <2> QED
    BY <1>3, <2>2, <2>3 DEF h, t
<1>5. ASSUME q # <<>> PROVE Cat(Append(p, Head(q)), Tail(q)) = Cat(p, q)
  <2> DEFINE h == Head(q)  t == Tail(q)  o == <<h>>
  <2>1. q = Cat(o, t) /\ IsSeq(t) /\ IsSeq(o)
    BY <1>2, <1>5, SeqTail, ShortSeq
  <2>2. Append(p, h) = Cat(p, o)
    BY <1>0
  <2> HIDE DEF h, t, o
  <2>3. Cat(Cat(p, o), t) = Cat(p, Cat(o, t))
    BY <2>1, CatAssoc
  <2> QED
    BY <2>1, <2>2, <2>3 DEF h, t
<1> QED
  BY <1>0, <1>1, <1>2, <1>4, <1>5

\* One more element after two sequences in a row.
LEMMA CatAppend ==
  ASSUME NEW p, IsSeq(p), NEW q, IsSeq(q), NEW x
  PROVE  Cat(p, Append(q, x)) = Append(Cat(p, q), x)
<1>1. \A y : Cat(p, Append(q, y)) = Append(Cat(p, q), y)
  BY CatEnds
<1> QED
  BY <1>1, Zenon

\* The first element leaves two sequences in a row.
LEMMA CatHead ==
  ASSUME NEW p, IsSeq(p), NEW q, IsSeq(q), p # <<>>
  PROVE  Head(Cat(p, q)) = Head(p) /\ Tail(Cat(p, q)) = Cat(Tail(p), q) /\ Cat(p, q) # <<>>
BY CatEnds

\* The first element of the second sequence moves to the end of the first.
LEMMA CatMove ==
  ASSUME NEW p, IsSeq(p), NEW q, IsSeq(q), q # <<>>
  PROVE  Cat(Append(p, Head(q)), Tail(q)) = Cat(p, q)
BY CatEnds

\* The first element of a sequence, and the others.
LEMMA HeadCat ==
  ASSUME NEW p, IsSeq(p), p # <<>>
  PROVE  p = Cat(<<Head(p)>>, Tail(p))
<1>1. IsSeq(<<>>)
  BY ShortSeq
<1> QED
  BY <1>1, CatEnds

----------------------------------------------------------------------------
(* The address and the data of a write                                     *)

\* The data flits that the cache shows and that have not entered the fifo.
ShownData == IF wd.pc = "last" THEN Tail(wrData) ELSE wrData

\* The writes whose data the memory model has not taken, the oldest first, and
\* the data on their way.
RunFlits == IF wp.pc = "data" THEN <<wp.req>> ELSE <<>>
AddrQ == Cat(Cat(RunFlits, writeReqFifo), Shown)
DataQ == Cat(writeDataFifo, ShownData)

\* The data are those of the request.
Match(busy, r, data) ==
  /\ {"addr", "size", "command"} \subseteq DOMAIN r
  /\ DOMAIN data = busy[r.id]
  /\ mem_is_amo(r.command) => r.id = UcId /\ r.addr \in DOMAIN data

PairType ==
  /\ IsSeq(wrData) /\ IsSeq(writeDataFifo)
  /\ DOMAIN wd = {"pc", "r"} /\ wd.pc \in {"idle", "last"}
  /\ wd.pc = "last" => wrData # <<>> /\ writeDataFifo # <<>>

Paired ==
  /\ Len(AddrQ) = Len(DataQ)
  /\ \A k \in 1 .. Len(AddrQ) : Match(wrBusy, AddrQ[k], DataQ[k].data)
  /\ wp.pc = "run" => Match(wrBusy, wp.req, wp.req.data)

PairInv == PairType /\ Paired

\* An atomic that the memory model has not performed.
AmoAway ==
  \/ \E k \in 1 .. Len(AddrQ) : mem_is_amo(AddrQ[k].command)
  \/ wp.pc = "run" /\ mem_is_amo(wp.req.command)

\* Requests in a row, and their identifiers.
LEMMA FlitCat ==
  ASSUME NEW p, FlitSeq(p), NEW q, FlitSeq(q)
  PROVE  /\ IsSeq(p) /\ FlitSeq(Cat(p, q))
         /\ FlitIds(Cat(p, q)) = Cat(FlitIds(p), FlitIds(q))
<1> DEFINE r == Cat(p, q)  a == FlitIds(p)  b == FlitIds(q)  c == Cat(a, b)
<1>1. IsSeq(p) /\ IsSeq(q)
  BY SeqIsSeq DEF FlitSeq
<1>2. /\ IsSeq(r) /\ Len(p) \in Nat /\ Len(q) \in Nat /\ Len(r) = Len(p) + Len(q)
      /\ \A i \in 1 .. Len(p) + Len(q) : r[i] = IF i <= Len(p) THEN p[i] ELSE q[i - Len(p)]
  BY <1>1, SeqCat
<1>3. /\ a \in Seq(WId) /\ Len(a) = Len(p) /\ \A i \in 1 .. Len(p) : a[i] = p[i].id
      /\ b \in Seq(WId) /\ Len(b) = Len(q) /\ \A i \in 1 .. Len(q) : b[i] = q[i].id
  BY FlitType
<1> HIDE DEF r, a, b
<1>4. /\ IsSeq(c) /\ Len(c) = Len(p) + Len(q)
      /\ \A i \in 1 .. Len(p) + Len(q) : c[i] = IF i <= Len(p) THEN a[i] ELSE b[i - Len(p)]
  <2>1. IsSeq(a) /\ IsSeq(b)
    BY <1>3, SeqIsSeq
  <2>2. /\ IsSeq(c) /\ Len(c) = Len(a) + Len(b)
        /\ \A i \in 1 .. Len(a) + Len(b) : c[i] = IF i <= Len(a) THEN a[i] ELSE b[i - Len(a)]
    BY <2>1, SeqCat
  <2> HIDE DEF c
  <2> QED
    BY <1>3, <2>2
<1> HIDE DEF c
<1>5. ASSUME NEW i \in 1 .. Len(p) + Len(q)
      PROVE  "id" \in DOMAIN r[i] /\ r[i].id \in WId /\ r[i].id = c[i]
  <2>1. CASE i <= Len(p)
    <3>1. i \in 1 .. Len(p) /\ r[i] = p[i] /\ c[i] = a[i]
      BY <1>2, <1>4, <2>1
    <3> QED
      BY <1>3, <3>1 DEF FlitSeq
  <2>2. CASE ~(i <= Len(p))
    <3>1. i - Len(p) \in 1 .. Len(q) /\ r[i] = q[i - Len(p)] /\ c[i] = b[i - Len(p)]
      BY <1>2, <1>4, <2>2
    <3> QED
      BY <1>3, <3>1 DEF FlitSeq
  <2> QED
    BY <2>1, <2>2
<1>6. FlitSeq(r)
  BY <1>2, <1>5 DEF FlitSeq, IsSeq
<1>7. FlitIds(r) = c
  <2>1. FlitIds(r) \in Seq(WId) /\ Len(FlitIds(r)) = Len(r) /\ \A i \in 1 .. Len(r) : FlitIds(r)[i] = r[i].id
    BY <1>6, FlitType
  <2>2. IsSeq(FlitIds(r))
    BY <2>1, SeqIsSeq
  <2>3. Len(FlitIds(r)) = Len(c) /\ \A i \in 1 .. Len(FlitIds(r)) : FlitIds(r)[i] = c[i]
    BY <1>2, <1>4, <1>5, <2>1
  <2> QED
    BY <1>4, <2>2, <2>3, SameSeq
<1> QED
  BY <1>1, <1>6, <1>7 DEF r, c, a, b

\* A request whose data were not taken is on its way: it is busy, and another
\* one than the write performed and the response shown.
LEMMA QueueApart ==
  ASSUME PathInv
  PROVE  /\ IsSeq(RunFlits) /\ IsSeq(writeReqFifo) /\ IsSeq(Shown) /\ FlitSeq(AddrQ)
         /\ \A k \in 1 .. Len(AddrQ) :
              /\ "id" \in DOMAIN AddrQ[k] /\ AddrQ[k].id \in DOMAIN wrBusy
              /\ wrOut # None => AddrQ[k].id # wrOut.id
              /\ wp.pc \in {"run", "read_resp", "resp"} => AddrQ[k].id # wp.req.id
              /\ \A j \in 1 .. Len(AddrQ) : AddrQ[j].id = AddrQ[k].id => j = k
         /\ wp.pc # "meta" => wp.req.id \in DOMAIN wrBusy /\ (wrOut # None => wp.req.id # wrOut.id)
         /\ wrOut # None => wrOut.id \in DOMAIN wrBusy
<1> DEFINE a == OutIds  b == FlitIds(writeRespFifo)  c == RunIds
           d == FlitIds(writeReqFifo)  e == FlitIds(Shown)
           p == Cat(a, b)  r == FlitIds(RunFlits)  q == FlitIds(AddrQ)
<1>1. a \in Seq(WId) /\ b \in Seq(WId) /\ c \in Seq(WId) /\ d \in Seq(WId) /\ e \in Seq(WId)
  BY PathFacts DEF PathInv
<1>2. FlitSeq(RunFlits) /\ FlitSeq(writeReqFifo) /\ FlitSeq(Shown)
  <2>1. CASE wp.pc = "data"
    <3> DEFINE x == wp.req  o == <<x>>
    <3>1. "id" \in DOMAIN x /\ x.id \in WId
      BY <2>1 DEF PathInv, PathType
    <3> HIDE DEF x
    <3>2. IsSeq(o) /\ Len(o) = 1 /\ o[1] = x
      BY ShortSeq
    <3> HIDE DEF o
    <3>3. FlitSeq(o)
      BY <3>1, <3>2 DEF FlitSeq, IsSeq
    <3> QED
      BY <2>1, <3>3, PathFacts DEF PathInv, PathType, RunFlits, o, x
  <2>2. CASE wp.pc # "data"
    <3> DEFINE o == <<>>
    <3>1. IsSeq(o) /\ Len(o) = 0
      BY ShortSeq
    <3> HIDE DEF o
    <3>2. FlitSeq(o)
      BY <3>1 DEF FlitSeq, IsSeq
    <3> QED
      BY <2>2, <3>2, PathFacts DEF PathInv, PathType, RunFlits, o
  <2> QED
    BY <2>1, <2>2
<1>3. IsSeq(RunFlits) /\ IsSeq(writeReqFifo) /\ IsSeq(Shown)
  BY <1>2, FlitCat
<1>4. FlitSeq(AddrQ) /\ q = Cat(Cat(r, d), e) /\ r \in Seq(WId) /\ q \in Seq(WId)
  <2>1. FlitSeq(Cat(RunFlits, writeReqFifo)) /\ FlitIds(Cat(RunFlits, writeReqFifo)) = Cat(r, d)
    BY <1>2, FlitCat
  <2>2. FlitSeq(AddrQ) /\ q = Cat(Cat(r, d), e)
    BY <1>2, <2>1, FlitCat DEF AddrQ
  <2> QED
    BY <1>2, <2>2, FlitType
<1>5. /\ wp.pc = "data" => r = <<wp.req.id>> /\ c = r
      /\ wp.pc # "data" => r = <<>>
      /\ wp.pc = "meta" => c = <<>>
      /\ wp.pc # "meta" => c = <<wp.req.id>>
  <2>1. ASSUME wp.pc = "data" PROVE r = <<wp.req.id>>
    BY <2>1, ShortSeq DEF RunFlits, FlitIds
  <2>2. ASSUME wp.pc # "data" PROVE r = <<>>
    BY <2>2, ShortSeq DEF RunFlits, FlitIds
  <2> QED
    BY <2>1, <2>2 DEF RunIds
<1>6. a = IF wrOut = None THEN <<>> ELSE <<wrOut.id>>
  BY DEF OutIds
<1>7. Distinct(Chain(a, b, c, d, e)) /\ Elements(Chain(a, b, c, d, e)) = DOMAIN wrBusy
  BY DEF PathInv, Track
<1>8. wp.pc \in {"meta", "data", "run", "read_resp", "resp"}
  BY DEF PathInv, PathType
<1> DEFINE qq == q  x == wp.req.id
<1>9. /\ qq \in Seq(WId) /\ Len(qq) = Len(AddrQ) /\ Len(qq) \in Nat
      /\ \A k \in 1 .. Len(AddrQ) : qq[k] = AddrQ[k].id /\ "id" \in DOMAIN AddrQ[k]
  BY <1>4, FlitType DEF FlitSeq
<1>10. x \in WId \/ wp.pc = "meta"
  BY DEF PathInv, PathType
<1> HIDE DEF a, b, c, d, e, r, q, qq, x
<1> DEFINE n == <<>>
<1>11. \A u, v \in Seq(WId) : Cat(u, v) \in Seq(WId) /\ Elements(Cat(u, v)) = Elements(u) \cup Elements(v)
  BY CatLaws
<1>12. \A u, v, w \in Seq(WId) : Cat(Cat(u, v), w) = Cat(u, Cat(v, w))
  BY CatLaws
<1>13. n \in Seq(WId) /\ \A u \in Seq(WId) : Cat(u, n) = u /\ Cat(n, u) = u
  BY CatLaws, EmptySeq
<1>14. \A u, v \in Seq(WId) : Distinct(Cat(u, v)) =>
         Distinct(u) /\ Distinct(v) /\ Elements(u) \cap Elements(v) = {}
  BY DistinctParts
<1>15. p \in Seq(WId)
  BY <1>1, <1>11
<1>16. /\ Distinct(qq) /\ Elements(qq) \subseteq DOMAIN wrBusy
       /\ Elements(a) \subseteq DOMAIN wrBusy /\ Elements(a) \cap Elements(qq) = {}
       /\ wp.pc # "meta" => Elements(c) \subseteq DOMAIN wrBusy /\ Elements(a) \cap Elements(c) = {}
       /\ wp.pc \in {"run", "read_resp", "resp"} => Elements(c) \cap Elements(qq) = {}
  <2> HIDE DEF p, n
  <2>0. Chain(a, b, c, d, e) = Cat(Cat(Cat(p, c), d), e)
    BY DEF Chain, p
  <2>1. Elements(p) = Elements(a) \cup Elements(b)
    BY <1>1, <1>11 DEF p
  <2>2. CASE wp.pc \in {"meta", "data"}
    <3>1. c = r
      BY <1>5, <2>2 DEF n
    <3>2. Cat(Cat(Cat(p, c), d), e) = Cat(p, qq)
      <4>1. Cat(Cat(Cat(p, r), d), e) = Cat(Cat(p, Cat(r, d)), e)
        BY <1>1, <1>4, <1>12, <1>15
      <4>2. Cat(Cat(p, Cat(r, d)), e) = Cat(p, Cat(Cat(r, d), e))
        BY <1>1, <1>4, <1>11, <1>12, <1>15
      <4> QED
        BY <1>4, <3>1, <4>1, <4>2 DEF qq
    <3>3. /\ Distinct(p) /\ Distinct(qq) /\ Elements(p) \cap Elements(qq) = {}
          /\ DOMAIN wrBusy = Elements(p) \cup Elements(qq)
      BY <1>7, <1>9, <1>11, <1>14, <1>15, <2>0, <3>2
    <3>4. Elements(c) \subseteq Elements(qq)
      <4>1. Elements(Cat(Cat(r, d), e)) = (Elements(r) \cup Elements(d)) \cup Elements(e)
        BY <1>1, <1>4, <1>11
      <4> QED
        BY <1>4, <3>1, <4>1 DEF qq
    <3> QED
      BY <2>1, <2>2, <3>3, <3>4
  <2>3. CASE wp.pc \in {"run", "read_resp", "resp"}
    <3>1. qq = Cat(d, e)
      BY <1>1, <1>4, <1>5, <1>13, <2>3 DEF qq, n
    <3>2. Cat(Cat(Cat(p, c), d), e) = Cat(Cat(p, c), qq) /\ Cat(p, c) \in Seq(WId)
      BY <1>1, <1>11, <1>12, <1>15, <3>1
    <3>3. /\ Distinct(Cat(p, c)) /\ Distinct(qq) /\ Elements(Cat(p, c)) \cap Elements(qq) = {}
          /\ DOMAIN wrBusy = Elements(Cat(p, c)) \cup Elements(qq)
      <4> DEFINE pc == Cat(p, c)
      <4>1. pc \in Seq(WId) /\ qq \in Seq(WId) /\ Distinct(Cat(pc, qq)) /\ Elements(Cat(pc, qq)) = DOMAIN wrBusy
        BY <1>7, <1>9, <2>0, <3>2
      <4> HIDE DEF pc
      <4>2. Distinct(pc) /\ Distinct(qq) /\ Elements(pc) \cap Elements(qq) = {}
        BY <1>14, <4>1
      <4>3. DOMAIN wrBusy = Elements(pc) \cup Elements(qq)
        BY <1>11, <4>1
      <4> QED
        BY <4>2, <4>3 DEF pc
    <3>4. Elements(p) \cap Elements(c) = {} /\ Elements(Cat(p, c)) = Elements(p) \cup Elements(c)
      BY <1>1, <1>11, <1>14, <1>15, <3>3
    <3> QED
      BY <2>1, <3>3, <3>4
  <2> QED
    BY <1>8, <2>2, <2>3
<1>17. wrOut # None => wrOut.id \in Elements(a)
  BY <1>6, OneElement
<1>18. wp.pc # "meta" => x \in Elements(c)
  BY <1>5, OneElement DEF x
<1>19. ASSUME NEW k \in 1 .. Len(AddrQ)
       PROVE  /\ "id" \in DOMAIN AddrQ[k] /\ AddrQ[k].id \in DOMAIN wrBusy
              /\ wrOut # None => AddrQ[k].id # wrOut.id
              /\ wp.pc \in {"run", "read_resp", "resp"} => AddrQ[k].id # x
              /\ \A j \in 1 .. Len(AddrQ) : AddrQ[j].id = AddrQ[k].id => j = k
  <2>1. qq[k] \in Elements(qq) /\ AddrQ[k].id = qq[k]
    BY <1>9 DEF Elements
  <2>2. \A j \in 1 .. Len(AddrQ) : qq[j] = qq[k] => j = k
    BY <1>9, <1>16 DEF Distinct
  <2> QED
    BY <1>9, <1>16, <1>17, <1>18, <2>1, <2>2
<1> QED
  BY <1>3, <1>4, <1>16, <1>17, <1>18, <1>19 DEF x

\* A step that takes nothing from either queue and adds nothing to it.
PairSame ==
  /\ AddrQ' = AddrQ /\ DataQ' = DataQ /\ PairType'
  /\ wp'.pc = "run" => wp.pc = "run" /\ wp'.req = wp.req
  /\ wrBusy' = wrBusy

\* Such a step keeps the pairs.
LEMMA SamePair ==
  ASSUME PairInv, PairSame
  PROVE  PairInv' /\ (AmoAway' => AmoAway)
<1>1. /\ Len(AddrQ) = Len(DataQ) /\ (\A k \in 1 .. Len(AddrQ) : Match(wrBusy, AddrQ[k], DataQ[k].data))
      /\ (wp.pc = "run" => Match(wrBusy, wp.req, wp.req.data))
  BY DEF PairInv, Paired
<1>2. /\ Len(AddrQ') = Len(DataQ')
      /\ (\A k \in 1 .. Len(AddrQ') : Match(wrBusy', AddrQ'[k], DataQ'[k].data))
      /\ (wp'.pc = "run" => Match(wrBusy', wp'.req, wp'.req.data))
  BY <1>1 DEF PairSame
<1>3. AmoAway' => AmoAway
  BY DEF PairSame, AmoAway
<1> QED
  BY <1>2, <1>3 DEF PairSame, PairInv, Paired

\* The cache sends a write with an identifier that is free.
PairSend ==
  \E x, data :
    /\ "id" \in DOMAIN x /\ x.id \in WId \ DOMAIN wrBusy
    /\ Match(wrBusy', x, data)
    /\ wrAddr' = Append(wrAddr, x) /\ wrData' = Append(wrData, [data |-> data])
    /\ wrBusy' = Put(wrBusy, x.id, DOMAIN data)
    /\ UNCHANGED <<wp, writeReqFifo, wa, writeDataFifo, wd>>

\* The requests whose data were not taken were there before.
OldFlit(r) == \E j \in 1 .. Len(AddrQ) : r = AddrQ[j]

\* A write that the cache sends joins the ends of both queues.
LEMMA SendPair ==
  ASSUME PathInv, PairInv, PairSend
  PROVE  /\ PairInv' /\ (AmoAway' => AmoAway \/ mem_is_amo(wrAddr'[Len(wrAddr')].command))
         /\ \A k \in 1 .. Len(AddrQ') : AddrQ'[k] = wrAddr'[Len(wrAddr')] \/ OldFlit(AddrQ'[k])
<1>1. PICK x, data :
        /\ "id" \in DOMAIN x /\ x.id \in WId \ DOMAIN wrBusy
        /\ Match(wrBusy', x, data)
        /\ wrAddr' = Append(wrAddr, x) /\ wrData' = Append(wrData, [data |-> data])
        /\ wrBusy' = Put(wrBusy, x.id, DOMAIN data)
        /\ UNCHANGED <<wp, writeReqFifo, wa, writeDataFifo, wd>>
  BY DEF PairSend
<1>2. /\ IsSeq(RunFlits) /\ IsSeq(writeReqFifo) /\ IsSeq(Shown)
      /\ \A k \in 1 .. Len(AddrQ) : AddrQ[k].id \in DOMAIN wrBusy
      /\ wp.pc # "meta" => wp.req.id \in DOMAIN wrBusy
  BY QueueApart
<1> DEFINE a == AddrQ  d == DataQ  e == [data |-> data]
           p == Cat(RunFlits, writeReqFifo)  sh == Shown  sd == ShownData
<1>3. IsSeq(wrAddr) /\ IsSeq(wrData) /\ IsSeq(writeDataFifo) /\ (wa.pc = "last" => wrAddr # <<>>)
  <2>1. FlitSeq(wrAddr)
    BY DEF PathInv, PathType
  <2> QED
    BY <2>1, SeqIsSeq DEF FlitSeq, PairInv, PairType, PathInv, PathType
<1>4. IsSeq(p) /\ IsSeq(sd) /\ IsSeq(sh)
  BY <1>2, <1>3, SeqCat, SeqTail DEF ShownData, PairInv, PairType
<1> HIDE DEF e
<1>5. Shown' = Append(sh, x)
  BY <1>1, <1>3, SeqAppend DEF Shown
<1>6. ShownData' = Append(sd, e)
  BY <1>1, <1>3, SeqAppend DEF ShownData, e, PairInv, PairType
<1>7. RunFlits' = RunFlits
  BY <1>1 DEF RunFlits
<1> HIDE DEF p, sh, sd
<1>8. AddrQ' = Append(a, x)
  <2>1. AddrQ' = Cat(p, Append(sh, x))
    BY <1>1, <1>5, <1>7 DEF AddrQ, p
  <2>2. \A y : Cat(p, Append(sh, y)) = Append(Cat(p, sh), y)
    BY <1>4, CatAppend
  <2> QED
    BY <2>1, <2>2 DEF AddrQ, p, sh
<1>9. DataQ' = Append(d, e)
  <2>1. DataQ' = Cat(writeDataFifo, Append(sd, e))
    BY <1>1, <1>6 DEF DataQ
  <2>2. \A y : Cat(writeDataFifo, Append(sd, y)) = Append(Cat(writeDataFifo, sd), y)
    BY <1>3, <1>4, CatAppend
  <2> QED
    BY <2>1, <2>2 DEF DataQ, sd
<1>10. IsSeq(a) /\ IsSeq(d)
  BY <1>3, <1>4, SeqCat DEF AddrQ, DataQ, p, sd, sh
<1>11. /\ Len(a) = Len(d) /\ (\A k \in 1 .. Len(a) : Match(wrBusy, a[k], d[k].data) /\ a[k].id \in DOMAIN wrBusy)
       /\ (wp.pc = "run" => Match(wrBusy, wp.req, wp.req.data) /\ wp.req.id \in DOMAIN wrBusy)
  BY <1>2 DEF PairInv, Paired
<1> HIDE DEF a, d
<1>12. ASSUME NEW r, NEW b, r.id \in DOMAIN wrBusy, Match(wrBusy, r, b) PROVE Match(wrBusy', r, b)
  <2>1. wrBusy'[r.id] = wrBusy[r.id]
    BY <1>1, <1>12 DEF Put
  <2> QED
    BY <1>12, <2>1 DEF Match
<1>13. /\ Len(Append(a, x)) = Len(a) + 1 /\ Len(a) \in Nat
       /\ \A k \in 1 .. Len(a) : Append(a, x)[k] = a[k]
       /\ Append(a, x)[Len(a) + 1] = x
  BY <1>10, SeqAppend
<1>14. /\ Len(Append(d, e)) = Len(d) + 1
       /\ \A k \in 1 .. Len(d) : Append(d, e)[k] = d[k]
       /\ Append(d, e)[Len(d) + 1] = e
  BY <1>10, SeqAppend
<1>15. Len(AddrQ') = Len(DataQ')
  BY <1>8, <1>9, <1>11, <1>13, <1>14
<1>16. ASSUME NEW k \in 1 .. Len(AddrQ') PROVE Match(wrBusy', AddrQ'[k], DataQ'[k].data)
  <2>1. CASE k \in 1 .. Len(a)
    <3>1. AddrQ'[k] = a[k] /\ DataQ'[k] = d[k]
      BY <1>8, <1>9, <1>11, <1>13, <1>14, <2>1
    <3> QED
      BY <1>11, <1>12, <2>1, <3>1
  <2>2. CASE k = Len(a) + 1
    <3>1. AddrQ'[k] = x /\ DataQ'[k] = e /\ e.data = data
      BY <1>8, <1>9, <1>11, <1>13, <1>14, <2>2 DEF e
    <3> QED
      BY <1>1, <3>1
  <2> QED
    BY <1>8, <1>13, <2>1, <2>2
<1>17. wp'.pc = "run" => Match(wrBusy', wp'.req, wp'.req.data)
  BY <1>1, <1>11, <1>12
<1>18. PairType'
  BY <1>1, <1>3, SeqAppend DEF PairInv, PairType
<1>19. /\ AmoAway' => AmoAway \/ mem_is_amo(wrAddr'[Len(wrAddr')].command)
       /\ \A k \in 1 .. Len(AddrQ') : AddrQ'[k] = wrAddr'[Len(wrAddr')] \/ OldFlit(AddrQ'[k])
  <2>1. wrAddr'[Len(wrAddr')] = x
    BY <1>1, <1>3, SeqAppend
  <2>2. ASSUME NEW k \in 1 .. Len(AddrQ'), k \notin 1 .. Len(a) PROVE AddrQ'[k] = x
    <3>1. k = Len(a) + 1
      BY <1>8, <1>13, <2>2
    <3> QED
      BY <1>8, <1>13, <3>1
  <2>3. \A k \in 1 .. Len(a) : AddrQ'[k] = a[k]
    BY <1>8, <1>13
  <2>4. AmoAway' => AmoAway \/ mem_is_amo(wrAddr'[Len(wrAddr')].command)
    BY <1>1, <2>1, <2>2, <2>3 DEF AmoAway, a
  <2>5. \A k \in 1 .. Len(AddrQ') : AddrQ'[k] = wrAddr'[Len(wrAddr')] \/ OldFlit(AddrQ'[k])
    BY <2>1, <2>2, <2>3 DEF OldFlit, a
  <2> QED
    BY <2>4, <2>5
<1> QED
  BY <1>15, <1>16, <1>17, <1>18, <1>19 DEF PairInv, Paired


\* The identifiers of the writes whose data were not taken, and their number.
LEMMA QueueBound ==
  ASSUME FifoHolds, PathInv
  PROVE  Len(AddrQ) \in Nat /\ Len(AddrQ) <= WriteReqDepth
<1>1. /\ FlitSeq(AddrQ)
      /\ \A k \in 1 .. Len(AddrQ) : \A j \in 1 .. Len(AddrQ) : AddrQ[j].id = AddrQ[k].id => j = k
  BY QueueApart
<1> DEFINE q == FlitIds(AddrQ)
<1>2. /\ q \in Seq(WId) /\ Len(q) = Len(AddrQ) /\ Len(q) \in Nat
      /\ \A k \in 1 .. Len(AddrQ) : q[k] = AddrQ[k].id
  BY <1>1, FlitType
<1> HIDE DEF q
<1>3. Distinct(q)
  BY <1>1, <1>2 DEF Distinct
<1>4. /\ IsFiniteSet(WId) /\ Cardinality(WId) = Cardinality(WriteIds) + 1
      /\ Cardinality(WriteIds) \in Nat
  <2>1. UcId \notin WriteIds
    BY TestBenchAssumption
  <2> QED
    BY <2>1, FS_AddElement, FS_CardinalityType DEF FifoHolds, WId
<1>5. Len(q) <= Cardinality(WId)
  BY <1>2, <1>3, <1>4, DistinctBound
<1>6. WriteReqDepth \in Nat
  BY MemAssumption
<1> QED
  BY <1>2, <1>4, <1>5, <1>6 DEF FifoHolds

\* The requests that the cache shows, and their data, are sequences.
LEMMA ShownSeq ==
  ASSUME PathInv, PairInv
  PROVE  /\ IsSeq(wrAddr) /\ IsSeq(Shown) /\ IsSeq(writeReqFifo) /\ IsSeq(RunFlits)
         /\ IsSeq(wrData) /\ IsSeq(ShownData) /\ IsSeq(writeDataFifo)
         /\ wa.pc \in {"idle", "last"} /\ wd.pc \in {"idle", "last"}
         /\ wa.pc = "last" => wrAddr # <<>> /\ writeReqFifo # <<>>
         /\ wd.pc = "last" => wrData # <<>> /\ writeDataFifo # <<>>
<1>1. FlitSeq(wrAddr) /\ IsSeq(RunFlits) /\ IsSeq(writeReqFifo) /\ IsSeq(Shown)
  BY QueueApart DEF PathInv, PathType
<1>2. IsSeq(wrAddr)
  BY <1>1, SeqIsSeq DEF FlitSeq
<1>3. IsSeq(wrData) /\ IsSeq(writeDataFifo) /\ (wd.pc = "last" => wrData # <<>> /\ writeDataFifo # <<>>)
  BY DEF PairInv, PairType
<1>4. IsSeq(ShownData)
  BY <1>3, SeqTail DEF ShownData
<1> QED
  BY <1>1, <1>2, <1>3, <1>4 DEF PathInv, PathType, PairInv, PairType

\* The request that the cache shows enters the fifo, then the cache goes on.
LEMMA AddrPair ==
  ASSUME FifoHolds, PathInv, PairInv, MemAddrReady \/ MemAddrEdge
  PROVE  PairSame
<1>1. /\ UNCHANGED <<wp, writeDataFifo, wd, wrData, wrBusy>>
  BY DEF MemAddrReady, AddrReady, MemAddrEdge, AddrEdge, cacheVars, chVars
<1>2. DataQ' = DataQ /\ PairType' /\ RunFlits' = RunFlits
  BY <1>1 DEF DataQ, ShownData, PairInv, PairType, RunFlits
<1>3. AddrQ' = AddrQ
  <2>1. CASE MemAddrReady
    <3> DEFINE h == Head(wrAddr)  t == Tail(wrAddr)  p == Cat(RunFlits, writeReqFifo)
    <3>1. /\ wrAddr # <<>> /\ wa.pc = "idle" /\ wrAddr' = wrAddr
          /\ wa' = Ready(writeReqFifo, h) /\ writeReqFifo' = Forward(writeReqFifo, h)
      BY <2>1 DEF MemAddrReady, AddrReady, cacheVars, chVars
    <3>2. Len(writeReqFifo) < WriteReqDepth
      BY <3>1, FifoRoom
    <3>3. wa'.pc = "last" /\ writeReqFifo' = Append(writeReqFifo, h)
      BY <3>1, <3>2 DEF Ready, Forward
    <3>4. IsSeq(wrAddr) /\ IsSeq(writeReqFifo) /\ IsSeq(RunFlits)
      BY ShownSeq
    <3>5. IsSeq(p)
      BY <3>4, SeqCat
    <3> HIDE DEF p, h, t
    <3>6. AddrQ = Cat(p, wrAddr)
      BY <3>1 DEF AddrQ, Shown, p
    <3>7. AddrQ' = Cat(Cat(RunFlits, Append(writeReqFifo, h)), t)
      BY <1>2, <3>1, <3>3 DEF AddrQ, Shown, t
    <3>8. Cat(RunFlits, Append(writeReqFifo, h)) = Append(p, h)
      BY <3>4, CatAppend DEF p
    <3>9. Cat(Append(p, h), t) = Cat(p, wrAddr)
      BY <3>1, <3>4, <3>5, CatMove DEF h, t
    <3> QED
      BY <3>6, <3>7, <3>8, <3>9
  <2>2. CASE MemAddrEdge
    <3>1. wa.pc = "last" /\ wrAddr # <<>>
      BY <2>2 DEF PathInv, PathType, MemAddrEdge, AddrEdge
    <3>2. wa'.pc = "idle" /\ writeReqFifo' = writeReqFifo /\ wrAddr' = Tail(wrAddr)
      BY <2>2, <3>1 DEF MemAddrEdge, AddrEdge, Rest
    <3> QED
      BY <1>2, <3>1, <3>2 DEF AddrQ, Shown
  <2> QED
    BY <2>1, <2>2
<1> QED
  BY <1>1, <1>2, <1>3 DEF PairSame

\* The same on the data channel.
LEMMA DataPair ==
  ASSUME FifoHolds, PathInv, PairInv, MemDataReady \/ MemDataEdge
  PROVE  PairSame
<1>1. /\ UNCHANGED <<wp, writeReqFifo, wa, wrAddr, wrBusy>>
  BY DEF MemDataReady, DataReady, MemDataEdge, DataEdge, cacheVars, chVars
<1>2. AddrQ' = AddrQ
  BY <1>1 DEF AddrQ, Shown, RunFlits
<1>3. CASE MemDataReady
  <2> DEFINE h == Head(wrData)  t == Tail(wrData)
  <2>1. /\ wrData # <<>> /\ wd.pc = "idle" /\ wrData' = wrData
        /\ wd' = Ready(writeDataFifo, h) /\ writeDataFifo' = Forward(writeDataFifo, h)
    BY <1>3 DEF MemDataReady, DataReady, cacheVars, chVars
  <2>2. IsSeq(wrData) /\ IsSeq(writeDataFifo) /\ DataQ = Cat(writeDataFifo, wrData)
    BY <2>1, ShownSeq DEF DataQ, ShownData
  <2>3. Len(writeDataFifo) < WriteReqDepth
    <3>1. Len(Cat(writeDataFifo, wrData)) = Len(writeDataFifo) + Len(wrData) /\ Len(writeDataFifo) \in Nat
      BY <2>2, SeqCat
    <3>2. Len(wrData) \in Nat \ {0}
      BY <2>1, <2>2, SeqTail
    <3>3. Len(DataQ) <= WriteReqDepth
      BY QueueBound DEF PairInv, Paired
    <3>4. WriteReqDepth \in Nat
      BY MemAssumption
    <3> QED
      BY <2>2, <3>1, <3>2, <3>3, <3>4
  <2>4. wd'.pc = "last" /\ DOMAIN wd' = {"pc", "r"} /\ writeDataFifo' = Append(writeDataFifo, h)
    BY <2>1, <2>3 DEF Ready, Forward
  <2>5. DataQ' = Cat(Append(writeDataFifo, h), t)
    BY <2>1, <2>4 DEF DataQ, ShownData
  <2>6. Cat(Append(writeDataFifo, h), t) = Cat(writeDataFifo, wrData)
    BY <2>1, <2>2, CatMove
  <2>7. DataQ' = DataQ
    BY <2>2, <2>5, <2>6
  <2>8. IsSeq(writeDataFifo') /\ writeDataFifo' # <<>>
    BY <2>2, <2>4, SeqAppend
  <2>9. PairType'
    BY <2>1, <2>2, <2>4, <2>8 DEF PairType
  <2> QED
    BY <1>1, <1>2, <2>7, <2>9 DEF PairSame
<1>4. CASE MemDataEdge
  <2>1. wd.pc = "last" /\ wrData # <<>> /\ IsSeq(wrData) /\ IsSeq(writeDataFifo)
    BY <1>4, ShownSeq DEF MemDataEdge, DataEdge
  <2>2. wd' = [pc |-> "idle", r |-> None] /\ writeDataFifo' = writeDataFifo /\ wrData' = Tail(wrData)
    BY <1>4, <2>1 DEF MemDataEdge, DataEdge, Rest
  <2>3. DataQ' = DataQ
    BY <2>1, <2>2 DEF DataQ, ShownData
  <2>4. PairType'
    BY <2>1, <2>2, SeqTail DEF PairType
  <2> QED
    BY <1>1, <1>2, <2>3, <2>4 DEF PairSame
<1> QED
  BY <1>3, <1>4


\* The thread that performs writes takes a request.
LEMMA MetaPair ==
  ASSUME PathInv, PairInv, WriteMeta, UNCHANGED cacheVars
  PROVE  PairSame
<1> DEFINE h == Head(writeReqFifo)  t == Tail(writeReqFifo)  o == <<h>>  n == <<>>  sh == Shown
<1>1. /\ wp.pc = "meta" /\ Len(writeReqFifo) > (IF wa.pc = "last" THEN 1 ELSE 0)
      /\ wp' = [wp EXCEPT !.pc = "data", !.req = h]
      /\ writeReqFifo' = t
      /\ UNCHANGED <<writeDataFifo, wa, wd, wrAddr, wrData, wrBusy>>
  BY DEF WriteMeta, Readable, waVars, cacheVars, chVars
<1>2. writeReqFifo # <<>> /\ IsSeq(writeReqFifo) /\ IsSeq(sh)
  <2>1. Len(writeReqFifo) # 0
    BY <1>1
  <2> QED
    BY <2>1, ShownSeq
<1>3. wp'.pc = "data" /\ wp'.req = h
  BY <1>1 DEF PathInv, PathType
<1>4. writeReqFifo = Cat(o, t) /\ Cat(n, writeReqFifo) = writeReqFifo
  BY <1>2, HeadCat, CatEmpty
<1> HIDE DEF h, t, o, n
<1>5. AddrQ = Cat(Cat(n, writeReqFifo), sh)
  BY <1>1 DEF AddrQ, RunFlits, n
<1>6. AddrQ' = Cat(Cat(o, t), sh)
  BY <1>1, <1>3 DEF AddrQ, RunFlits, o, Shown
<1>7. DataQ' = DataQ /\ PairType'
  BY <1>1 DEF DataQ, ShownData, PairInv, PairType
<1> QED
  BY <1>1, <1>3, <1>4, <1>5, <1>6, <1>7 DEF PairSame

\* The thread that performs writes takes the data of its request.
LEMMA TakePair ==
  ASSUME PathInv, PairInv, WriteData, UNCHANGED cacheVars
  PROVE  /\ PairInv' /\ (AmoAway' => AmoAway)
         /\ \A k \in 1 .. Len(AddrQ') : OldFlit(AddrQ'[k])
<1> DEFINE r == wp.req  o == <<r>>  n == <<>>  sh == Shown  sd == ShownData
           h == Head(writeDataFifo)  t == Tail(writeDataFifo)  f == writeReqFifo  c == Cat(f, sh)
<1>1. /\ wp.pc = "data" /\ Len(writeDataFifo) > (IF wd.pc = "last" THEN 1 ELSE 0)
      /\ wp' = [wp EXCEPT !.pc = "run", !.req = Put(wp.req, "data", h.data)]
      /\ writeDataFifo' = t
      /\ UNCHANGED <<writeReqFifo, wa, wd, wrAddr, wrData, wrBusy>>
  BY DEF WriteData, Readable, waVars, cacheVars, chVars
<1>2. IsSeq(f) /\ IsSeq(sh) /\ IsSeq(writeDataFifo) /\ IsSeq(sd) /\ IsSeq(n) /\ IsSeq(o) /\ o[1] = r /\ Len(o) = 1
  BY ShownSeq, ShortSeq
<1>3. writeDataFifo # <<>>
  <2>1. Len(writeDataFifo) # 0
    BY <1>1
  <2> QED
    BY <2>1
<1>4. wp'.pc = "run" /\ wp'.req = Put(r, "data", h.data)
  BY <1>1 DEF PathInv, PathType
<1>5. "id" \in DOMAIN r
  BY <1>1 DEF PathInv, PathType
<1>6. /\ IsSeq(t) /\ Len(t) = Len(writeDataFifo) - 1 /\ Len(writeDataFifo) \in Nat \ {0}
  BY <1>2, <1>3, SeqTail
<1> HIDE DEF n, o, sh, sd, h, t, f
<1>7. Cat(n, f) = f /\ IsSeq(c) /\ Cat(Cat(o, f), sh) = Cat(o, c)
  BY <1>2, CatEmpty, SeqCat, CatAssoc DEF n
<1>8. AddrQ = Cat(Cat(o, f), sh)
  BY <1>1 DEF AddrQ, RunFlits, o, r, f, sh
<1>9. AddrQ' = Cat(Cat(n, f), sh)
  BY <1>1, <1>4 DEF AddrQ, RunFlits, n, f, sh, Shown
<1> HIDE DEF c, r
<1>10. DataQ = Cat(writeDataFifo, sd) /\ DataQ' = Cat(t, sd)
  BY <1>1 DEF DataQ, ShownData, sd, t
<1>11. Head(DataQ) = h /\ Tail(DataQ) = Cat(t, sd) /\ DataQ # <<>> /\ IsSeq(DataQ)
  <2>1. IsSeq(DataQ)
    BY <1>2, <1>10, SeqCat
  <2> QED
    BY <1>2, <1>3, <1>10, <2>1, CatHead DEF h, t
<1> DEFINE a == AddrQ  d == DataQ  td == Tail(d)
<1>12. /\ Len(a) = Len(d) /\ \A k \in 1 .. Len(a) : Match(wrBusy, a[k], d[k].data)
  BY DEF PairInv, Paired
<1>13. /\ a = Cat(o, c) /\ AddrQ' = c /\ DataQ' = td
  BY <1>7, <1>8, <1>9, <1>10, <1>11 DEF c
<1>14. IsSeq(d) /\ d # <<>> /\ Head(d) = h
  BY <1>11
<1> HIDE DEF a, d
<1>15. /\ Len(td) = Len(d) - 1 /\ Len(d) \in Nat \ {0} /\ h = d[1]
       /\ \A k \in 1 .. Len(d) - 1 : td[k] = d[k + 1]
  BY <1>14, SeqTail
<1> HIDE DEF td
<1>16. /\ Len(a) = 1 + Len(c) /\ Len(c) \in Nat
       /\ \A k \in 1 .. 1 + Len(c) : a[k] = IF k <= 1 THEN o[k] ELSE c[k - 1]
  <2>1. /\ Len(Cat(o, c)) = Len(o) + Len(c) /\ Len(c) \in Nat
        /\ \A k \in 1 .. Len(o) + Len(c) : Cat(o, c)[k] = IF k <= Len(o) THEN o[k] ELSE c[k - Len(o)]
    BY <1>2, <1>7, SeqCat
  <2> QED
    BY <1>2, <1>13, <2>1
<1>17. Len(AddrQ') = Len(DataQ')
  BY <1>12, <1>13, <1>15, <1>16
<1>18. ASSUME NEW k \in 1 .. Len(AddrQ') PROVE Match(wrBusy', AddrQ'[k], DataQ'[k].data)
  <2>1. /\ k \in 1 .. Len(d) - 1 /\ k + 1 \in 1 .. Len(a) /\ k + 1 \in 1 .. 1 + Len(c)
        /\ ~(k + 1 <= 1) /\ (k + 1) - 1 = k
    BY <1>12, <1>13, <1>15, <1>16
  <2>2. AddrQ'[k] = a[k + 1] /\ DataQ'[k] = d[k + 1]
    BY <1>13, <1>15, <1>16, <2>1
  <2>3. Match(wrBusy, a[k + 1], d[k + 1].data)
    BY <1>12, <2>1
  <2> QED
    BY <1>1, <2>2, <2>3
<1>21. 1 \in 1 .. Len(a) /\ a[1] = r /\ d[1] = h
  <2>1. 1 \in 1 .. Len(a) /\ 1 \in 1 .. 1 + Len(c) /\ 1 <= 1
    BY <1>16
  <2> QED
    BY <1>2, <1>15, <1>16, <2>1
<1>19. Match(wrBusy', wp'.req, wp'.req.data) /\ wp'.req.command = r.command
  <2>1. Match(wrBusy, r, h.data)
    BY <1>12, <1>21
  <2> DEFINE q == Put(r, "data", h.data)
  <2>2. /\ DOMAIN q = DOMAIN r \cup {"data"} /\ q["data"] = h.data
        /\ \A x \in DOMAIN r \ {"data"} : q[x] = r[x]
    BY DEF Put
  <2> HIDE DEF q
  <2>3. /\ {"addr", "size", "command"} \subseteq DOMAIN q /\ q.id = r.id
        /\ q.addr = r.addr /\ q.command = r.command /\ q.data = h.data
    BY <1>5, <2>1, <2>2 DEF Match, r
  <2>4. Match(wrBusy, q, q.data)
    BY <2>1, <2>3 DEF Match
  <2> QED
    BY <1>1, <1>4, <2>3, <2>4 DEF q
<1>20. PairType'
  <2>1. ASSUME wd.pc = "last" PROVE t # <<>>
    <3>1. Len(writeDataFifo) > 1
      BY <1>1, <2>1
    <3> DEFINE l == Len(t)  m == Len(writeDataFifo)
    <3>2. l = m - 1 /\ m \in Nat /\ m > 1
      BY <1>6, <3>1
    <3> HIDE DEF l, m
    <3>3. l # 0
      BY <3>2
    <3> QED
      BY <3>3 DEF l
  <2> QED
    BY <1>1, <1>6, <2>1 DEF PairInv, PairType
<1>22. (AmoAway' => AmoAway) /\ \A k \in 1 .. Len(AddrQ') : OldFlit(AddrQ'[k])
  <2>1. ASSUME NEW k \in 1 .. Len(AddrQ') PROVE k + 1 \in 1 .. Len(a) /\ AddrQ'[k] = a[k + 1]
    <3>1. k + 1 \in 1 .. Len(a) /\ k + 1 \in 1 .. 1 + Len(c) /\ ~(k + 1 <= 1) /\ (k + 1) - 1 = k
      BY <1>13, <1>16
    <3> QED
      BY <1>13, <1>16, <3>1
  <2>2. (\E k \in 1 .. Len(a) : mem_is_amo(a[k].command)) => AmoAway
    BY DEF AmoAway, a
  <2>3. AmoAway' => AmoAway
    BY <1>19, <1>21, <2>1, <2>2 DEF AmoAway
  <2>4. \A k \in 1 .. Len(AddrQ') : OldFlit(AddrQ'[k])
    BY <2>1 DEF OldFlit, a
  <2> QED
    BY <2>3, <2>4
<1> QED
  BY <1>17, <1>18, <1>19, <1>20, <1>22 DEF PairInv, Paired


\* The write is performed and its responses go on.
LEMMA RunPair ==
  ASSUME PathInv, PairInv, WriteRun(errorsegs) \/ WritePushRead \/ WritePush \/ WriteRespShow,
         UNCHANGED cacheVars
  PROVE  PairSame
<1>1. UNCHANGED <<writeReqFifo, wa, wrAddr, writeDataFifo, wd, wrData, wrBusy>>
  BY DEF WriteRun, WritePushRead, WritePush, WriteRespShow, wpVars, waVars, cacheVars, chVars
<1>2. wp' = wp \/ (wp.pc \in {"run", "read_resp", "resp"} /\ wp'.pc \in {"meta", "read_resp", "resp"})
  <2>1. "pc" \in DOMAIN wp
    BY DEF PathInv, PathType
  <2>2. CASE WriteRun(errorsegs)
    <3>1. wp.pc = "run" /\ \E x, y, z : wp' = [wp EXCEPT !.pc = x, !.rresp = y, !.resp = z] /\ x \in {"read_resp", "resp"}
      BY <2>2 DEF WriteRun
    <3> QED
      BY <2>1, <3>1
  <2>3. CASE WritePushRead
    BY <2>1, <2>3 DEF WritePushRead
  <2>4. CASE WritePush
    BY <2>4 DEF WritePush
  <2>5. CASE WriteRespShow
    BY <2>5 DEF WriteRespShow, wpVars
  <2> QED
    BY <2>2, <2>3, <2>4, <2>5
<1>3. RunFlits' = RunFlits /\ (wp'.pc = "run" => wp' = wp)
  BY <1>2 DEF RunFlits
<1> QED
  BY <1>1, <1>3 DEF PairSame, AddrQ, DataQ, Shown, ShownData, PairInv, PairType

\* The cache takes the response of a write.
LEMMA AckPair ==
  ASSUME PathInv, PairInv, CacheTakesWrite
  PROVE  PairInv' /\ (AmoAway' => AmoAway)
<1> DEFINE x == wrOut.id
<1>1. /\ wrOut # None
      /\ UNCHANGED <<wp, writeReqFifo, wa, writeDataFifo, wd>>
  BY DEF CacheTakesWrite, WriteRespTaken, wpVars, waVars
<1>2. UNCHANGED <<wrAddr, wrData>> /\ wrBusy' = Restrict(wrBusy, DOMAIN wrBusy \ {x})
  BY DEF CacheTakesWrite, WriteAck, UncachedWrite, chVars
<1>3. AddrQ' = AddrQ /\ DataQ' = DataQ /\ PairType'
  BY <1>1, <1>2 DEF AddrQ, DataQ, RunFlits, Shown, ShownData, PairInv, PairType
<1>4. \A id \in DOMAIN wrBusy : id # x => wrBusy'[id] = wrBusy[id]
  BY <1>2 DEF Restrict
<1>5. /\ \A k \in 1 .. Len(AddrQ) : AddrQ[k].id \in DOMAIN wrBusy /\ AddrQ[k].id # x
      /\ wp.pc # "meta" => wp.req.id \in DOMAIN wrBusy /\ wp.req.id # x
  BY <1>1, QueueApart
<1>6. ASSUME NEW r, NEW data, Match(wrBusy, r, data), r.id \in DOMAIN wrBusy, r.id # x
      PROVE  Match(wrBusy', r, data)
  BY <1>4, <1>6 DEF Match
<1>7. Paired /\ wp' = wp
  BY <1>1 DEF PairInv
<1> HIDE DEF x
<1>8. \A k \in 1 .. Len(AddrQ) : Match(wrBusy', AddrQ[k], DataQ[k].data)
  BY <1>5, <1>6, <1>7 DEF Paired
<1>9. wp.pc = "run" => Match(wrBusy', wp.req, wp.req.data)
  BY <1>5, <1>6, <1>7 DEF Paired
<1> QED
  BY <1>3, <1>7, <1>8, <1>9 DEF PairInv, Paired, AmoAway

\* A step that neither the memory model nor the writes of the cache see.
LEMMA NoWritePair ==
  ASSUME PairInv, UNCHANGED <<wrAddr, wrData, wrBusy, wp, writeReqFifo, wa, writeDataFifo, wd>>
  PROVE  PairInv' /\ (AmoAway' => AmoAway)
BY DEF PairInv, PairType, Paired, AmoAway, AddrQ, DataQ, RunFlits, Shown, ShownData


\* The commands that the cache sends for an atomic are atomics, the others are not.
LEMMA Commands ==
  /\ ~mem_is_amo("READ") /\ ~mem_is_amo("WRITE") /\ ~mem_is_amo("LDEX") /\ ~mem_is_amo("STEX")
BY DEF mem_is_amo

\* A write that the cache sends under a free identifier.
LEMMA SendIsPair ==
  ASSUME NEW id \in WId \ DOMAIN wrBusy, NEW addr, NEW size, NEW command, NEW data,
         SendWrite(id, addr, size, command, data), UNCHANGED memVars,
         mem_is_amo(command) => id = UcId /\ addr \in DOMAIN data,
         PathInv
  PROVE  PairSend /\ wrAddr'[Len(wrAddr')].command = command
<1> DEFINE x == [id |-> id, addr |-> addr, size |-> size, command |-> command]
<1>1. wrAddr' = Append(wrAddr, x) /\ wrData' = Append(wrData, [data |-> data])
      /\ wrBusy' = Put(wrBusy, id, DOMAIN data)
  BY DEF SendWrite
<1>2. wrBusy'[id] = DOMAIN data
  BY <1>1 DEF Put
<1>3. /\ "id" \in DOMAIN x /\ x.id = id /\ x.addr = addr /\ x.command = command
      /\ {"addr", "size", "command"} \subseteq DOMAIN x
  OBVIOUS
<1>4. UNCHANGED <<wp, writeReqFifo, wa, writeDataFifo, wd>>
  BY DEF memVars, wpVars, waVars
<1> HIDE DEF x
<1>5. Match(wrBusy', x, data)
  BY <1>2, <1>3 DEF Match
<1>6. IsSeq(wrAddr)
  BY SeqIsSeq DEF PathInv, PathType, FlitSeq
<1>7. wrAddr'[Len(wrAddr')] = x
  BY <1>1, <1>6, SeqAppend
<1> QED
  BY <1>1, <1>3, <1>4, <1>5, <1>7 DEF PairSend

\* A store that goes through the write buffer, or stays in the cache.
LEMMA StorePair ==
  ASSUME PathInv, PairInv, NEW i \in 1 .. Len(cq), Store(i), UNCHANGED memVars
  PROVE  PairInv' /\ (AmoAway' => AmoAway)
<1> DEFINE t == cq[i].t
<1>1. \/ UNCHANGED <<wrAddr, wrData, wrBusy>>
      \/ /\ FreeId(WriteIds, wrBusy)
         /\ SendWrite(NextId(WriteIds, wrBusy), t.addr, 1, "WRITE", StoreData(t))
  BY DEF Store
<1>2. CASE UNCHANGED <<wrAddr, wrData, wrBusy>>
  BY <1>2, NoWritePair DEF memVars, wpVars, waVars
<1>3. CASE /\ FreeId(WriteIds, wrBusy)
           /\ SendWrite(NextId(WriteIds, wrBusy), t.addr, 1, "WRITE", StoreData(t))
  BY <1>3, FreeWriteId, Commands, SendIsPair, SendPair
<1> QED
  BY <1>1, <1>2, <1>3

\* An atomic is sent: it gets both identifiers.
AmoSent == rdBusy = <<>> /\ UcId \in DOMAIN rdBusy' /\ UNCHANGED rdReq

\* An uncached access, which may write.
LEMMA UncachedPair ==
  ASSUME PathInv, PairInv, NEW i \in 1 .. Len(cq), Uncached(i), UNCHANGED memVars
  PROVE  PairInv' /\ (AmoAway' => AmoAway \/ AmoSent)
<1> DEFINE t == cq[i].t
<1>1. wrBusy = <<>>
  BY DEF Uncached, Executable, Fence, Quiet
<1>2. UcId \in WId \ DOMAIN wrBusy
  BY <1>1 DEF WId
<1>3. \/ UNCHANGED <<wrAddr, wrData, wrBusy>>
      \/ \E command, data : /\ SendWrite(UcId, t.addr, 1, command, data)
                            /\ mem_is_amo(command) => t.addr \in DOMAIN data /\ AmoSent
  <2>1. CASE t.op \in {"LOAD", "LR"}
    BY <2>1 DEF Uncached
  <2>2. CASE t.op \in {"STORE", "SC"}
    BY <2>2, Commands DEF Uncached
  <2>3. CASE t.op \notin {"LOAD", "LR"} /\ t.op \notin {"STORE", "SC"}
    <3>1. SendWrite(UcId, t.addr, 1, mem_atomic(t.op), OneWord(t.addr, mem_operand(t.op, t.data)))
      BY <2>3 DEF Uncached
    <3>2. t.addr \in DOMAIN OneWord(t.addr, mem_operand(t.op, t.data))
      BY DEF OneWord
    <3>3. rdBusy = <<>> /\ UcId \in DOMAIN rdBusy' /\ UNCHANGED rdReq
      BY <2>3 DEF Uncached, Executable, Fence, Quiet, Put
    <3> QED
      BY <3>1, <3>2, <3>3 DEF AmoSent
  <2> QED
    BY <2>1, <2>2, <2>3
<1>4. CASE UNCHANGED <<wrAddr, wrData, wrBusy>>
  BY <1>4, NoWritePair DEF memVars, wpVars, waVars
<1>5. CASE \E command, data : /\ SendWrite(UcId, t.addr, 1, command, data)
                              /\ mem_is_amo(command) => t.addr \in DOMAIN data /\ AmoSent
  <2>1. PICK command, data : /\ SendWrite(UcId, t.addr, 1, command, data)
                             /\ mem_is_amo(command) => t.addr \in DOMAIN data /\ AmoSent
    BY <1>5
  <2>2. PairSend /\ wrAddr'[Len(wrAddr')].command = command
    BY <1>2, <2>1, SendIsPair
  <2> QED
    BY <2>1, <2>2, SendPair
<1> QED
  BY <1>3, <1>4, <1>5

\* A step of the cache.
LEMMA CachePair ==
  ASSUME PathInv, PairInv, CacheStep \/ CacheMove
  PROVE  PairInv' /\ (AmoAway' => AmoAway \/ AmoSent)
<1>1. UNCHANGED memVars
  BY DEF CacheStep, CacheMove
<1>2. CASE CacheHit \/ CacheCmo \/ CacheScFail \/ CacheMiss \/ CacheEvict
  <2>1. UNCHANGED <<wrAddr, wrData, wrBusy>>
    BY <1>2 DEF CacheHit, CacheCmo, CacheScFail, CacheMiss, CacheEvict, LoadHit, CmoDone, ScFail,
                Miss, Evict, chVars
  <2> QED
    BY <1>1, <2>1, NoWritePair DEF memVars, wpVars, waVars
<1>3. CASE CacheStore
  BY <1>1, <1>3, StorePair DEF CacheStore
<1>4. CASE CacheUncached
  BY <1>1, <1>4, UncachedPair DEF CacheUncached
<1>5. CASE CacheFlush
  <2>1. PICK w \in Words : FlushLine(w)
    BY <1>5 DEF CacheFlush
  <2> DEFINE ws == dirty \cap Line(w)
             data == [v \in ws |-> cached[v]]
  <2>2. /\ FreeId(WriteIds, wrBusy)
        /\ SendWrite(NextId(WriteIds, wrBusy), w, Cardinality(Line(w)), "WRITE", data)
    BY <2>1 DEF FlushLine
  <2> HIDE DEF data
  <2>3. PairSend /\ wrAddr'[Len(wrAddr')].command = "WRITE"
    BY <1>1, <2>2, FreeWriteId, Commands, SendIsPair
  <2> QED
    BY <2>3, Commands, SendPair
<1> QED
  BY <1>2, <1>3, <1>4, <1>5 DEF CacheStep, CacheMove

\* A step of the memory model.
LEMMA MemPair ==
  ASSUME FifoHolds, PathInv, PairInv, MemStep
  PROVE  PairInv' /\ (AmoAway' => AmoAway)
<1>1. CASE MemReadSee \/ MemReadTake \/ MemReadPush \/ MemReadShow \/ CacheTakesRead
  <2>1. UNCHANGED <<wrAddr, wrData, wrBusy>>
    BY <1>1 DEF MemReadSee, MemReadTake, MemReadPush, MemReadShow, CacheTakesRead, ReadBeat, Refill,
                UncachedRead, cacheVars, chVars
  <2>2. UNCHANGED <<wp, writeReqFifo, wa, writeDataFifo, wd>>
    BY <1>1 DEF MemReadSee, MemReadTake, MemReadPush, MemReadShow, CacheTakesRead, ReadSee, ReadTake,
                ReadPush, ReadRespShow, ReadRespTaken, wpVars, waVars
  <2> QED
    BY <2>1, <2>2, NoWritePair
<1>2. CASE MemAddrReady \/ MemAddrEdge
  BY <1>2, AddrPair, SamePair
<1>3. CASE MemDataReady \/ MemDataEdge
  BY <1>3, DataPair, SamePair
<1>4. CASE MemWriteTake
  BY <1>4, MetaPair, TakePair, RunPair, SamePair DEF MemWriteTake
<1>5. CASE MemWriteRun \/ MemWriteShow
  BY <1>5, RunPair, SamePair DEF MemWriteRun, MemWriteShow
<1>6. CASE CacheTakesWrite
  BY <1>6, AckPair
<1> QED
  BY <1>1, <1>2, <1>3, <1>4, <1>5, <1>6 DEF MemStep

\* Every step keeps the pairs.
LEMMA NextPair ==
  ASSUME FifoHolds, PathInv, PairInv, [Next]_vars
  PROVE  PairInv' /\ (AmoAway' => AmoAway \/ AmoSent)
<1>1. CASE Simulate \/ SequenceStep \/ DriveRequest \/ CheckInflight \/ DriverFinish \/ Over \/ UNCHANGED vars
  <2>1. UNCHANGED <<wrAddr, wrData, wrBusy, wp, writeReqFifo, wa, writeDataFifo, wd>>
    BY <1>1 DEF Simulate, SequenceStep, SequenceMain, SequenceBetween, SequenceSc, SequenceStop,
                Send, DriveRequest, Accept, CheckInflight, DriverFinish, Over, vars, memVars, wpVars, waVars,
                cacheVars, chVars
  <2> QED
    BY <2>1, NoWritePair
<1> QED
  BY <1>1, CachePair, MemPair DEF Next

\* No write is on its way after reset.
LEMMA InitPair == Init => PairInv
<1> SUFFICES ASSUME Init PROVE PairInv
  OBVIOUS
<1>1. /\ writeReqFifo = <<>> /\ wrAddr = <<>> /\ writeDataFifo = <<>> /\ wrData = <<>>
      /\ wp.pc = "meta" /\ wa.pc = "idle" /\ wd = [pc |-> "idle", r |-> None]
  BY DEF Init, MemInit, CacheInit
<1> DEFINE n == <<>>
<1>2. IsSeq(n) /\ Len(n) = 0 /\ Cat(n, n) = n
  BY ShortSeq, CatEmpty
<1> HIDE DEF n
<1>3. AddrQ = n /\ DataQ = n
  BY <1>1, <1>2 DEF AddrQ, DataQ, RunFlits, Shown, ShownData, n
<1>4. PairType
  BY <1>1, <1>2 DEF PairType, n
<1> QED
  BY <1>1, <1>2, <1>3, <1>4 DEF PairInv, Paired

(* The two channels of a write stay together, however the threads of the   *)
(* memory model are delayed: the oldest request and the oldest data of     *)
(* those not taken are of the same write.                                  *)
THEOREM WritesPaired ==
  ASSUME FifoHolds
  PROVE  Spec => [](PathInv /\ PairInv)
<1>1. Init => PathInv /\ PairInv
  BY InitPath, InitPair
<1>2. PathInv /\ PairInv /\ [Next]_vars => PathInv' /\ PairInv'
  BY NextPath, StepPath, NextPair
<1> QED
  BY <1>1, <1>2, PTL DEF Spec


----------------------------------------------------------------------------
(* The requests that the sequences draw                                    *)

\* The words of the segment that random requests access uncached.
InUncached(k, w) == k = "random" /\ w \in SegWords[3]
UncachedWord(w) == InUncached(kind, w)

\* What the sequence k may draw.
Legal(k, t) ==
  /\ {"addr", "op", "data", "need_rsp", "be", "uncacheable", "policy"} \subseteq DOMAIN t
  /\ t.addr \in Words /\ t.op \in ReqOps \ {"INVAL_NLINE", "INVAL_ALL"} /\ t.data \in Value
  /\ {t.need_rsp, t.be, t.uncacheable} \subseteq BOOLEAN /\ t.policy \in Policies
  /\ Atomic(t.op) => t.need_rsp
  /\ t.op = "SC" => t.be
  /\ is_cmo(t.op) => ~t.uncacheable
  /\ InUncached(k, t.addr) /\ ~is_cmo(t.op) => t.uncacheable
  /\ t.uncacheable /\ ~InUncached(k, t.addr) => t.op \in {"LOAD", "STORE"} /\ ~t.be

\* The attributes of a segment: uncached is the last one of random, and no other.
Attrs(k, s) == [uncached : {IF k = "random" /\ s = 3 THEN TRUE ELSE FALSE}, amo : BOOLEAN,
                policy : Policies \cup {"RANDOM"}]

\* The requests of a segment of the random sequences.
LEMMA SegLegal ==
  ASSUME NEW k \in {"random", "unique_set"}, NEW s \in 0 .. 3, NEW attr \in Attrs(k, s),
         NEW req \in SegReqs(s, attr)
  PROVE  Legal(k, req)
<1>0. /\ attr.uncached = (IF k = "random" /\ s = 3 THEN TRUE ELSE FALSE) /\ attr.uncached \in BOOLEAN
      /\ attr.policy \in Policies \cup {"RANDOM"}
  BY DEF Attrs
<1> DEFINE Drawn == OpsDrawn \cap IF attr.amo THEN op_amo_distribution ELSE op_distribution
<1>1. PICK op \in Drawn :
        req \in Reqs(SegWords[s], {op}, IF HasData(op) THEN Data ELSE {0},
                IF op \in Atomics THEN {TRUE} ELSE BOOLEAN, {~is_cmo(op)},
                {attr.uncached /\ ~is_cmo(op)}, SelectPolicy(op, attr.policy))
  BY DEF SegReqs
<1>2. /\ req.addr \in SegWords[s] /\ req.op = op /\ req.data \in (IF HasData(op) THEN Data ELSE {0})
      /\ req.need_rsp \in (IF op \in Atomics THEN {TRUE} ELSE BOOLEAN)
      /\ req.be = ~is_cmo(op) /\ req.uncacheable = (attr.uncached /\ ~is_cmo(op))
      /\ req.policy \in SelectPolicy(op, attr.policy)
  BY <1>1 DEF Reqs
<1>3. op \in ReqOps \ {"INVAL_NLINE", "INVAL_ALL"}
  BY DEF op_amo_distribution, op_distribution, ReqOps, CmoOps, AmoOps
<1>4. req.addr \in Words /\ req.data \in Value
  BY <1>2, SegmentsAssumption
<1>5. req.policy \in Policies
  BY <1>0, <1>2 DEF SelectPolicy, Policies
<1>6. Atomic(op) => op \in Atomics
  BY DEF Atomic, Atomics, is_amo
<1>7. InUncached(k, req.addr) <=> attr.uncached
  <2>1. ASSUME s # 3 PROVE req.addr \notin SegWords[3]
    BY <1>2, <2>1, SegmentsAssumption
  <2> QED
    BY <1>0, <1>2, <2>1 DEF InUncached
<1>8. {req.need_rsp, req.be, req.uncacheable} \subseteq BOOLEAN
  BY <1>0, <1>2 DEF is_cmo
<1>9. op = "SC" => ~is_cmo(op)
  BY DEF is_cmo, CmoOps
<1> QED
  BY <1>1, <1>2, <1>3, <1>4, <1>5, <1>6, <1>7, <1>8, <1>9 DEF Legal, Reqs

\* The requests of the other sequences.
LEMMA OtherLegal ==
  ASSUME NEW k, k # "random", NEW req \in ReadReqs \cup WriteReqs \cup TraceReqs
  PROVE  Legal(k, req)
<1>0. {"addr", "op", "data", "need_rsp", "be", "uncacheable", "policy"} \subseteq DOMAIN req
  BY DEF ReadReqs, WriteReqs, TraceReqs, Reqs
<1>1. /\ req.addr \in SegWords[0] /\ req.op \in {"LOAD", "STORE"} /\ req.data \in Data \cup {0}
      /\ {req.need_rsp, req.be, req.uncacheable} \subseteq BOOLEAN /\ req.policy = "AUTO"
      /\ req.uncacheable => ~req.be
  BY DEF ReadReqs, WriteReqs, TraceReqs, Reqs
<1>2. req.addr \in Words /\ req.data \in Value
  BY <1>1, SegmentsAssumption
<1> QED
  BY <1>0, <1>1, <1>2 DEF Legal, InUncached, ReqOps, Policies, Atomic, is_amo, AmoOps, is_cmo, CmoOps

\* Every request that a sequence draws is legal.
LEMMA DrawsLegal ==
  ASSUME NEW k \in Kinds, NEW req \in Draws[k]
  PROVE  Legal(k, req)
<1>1. k \in {"random", "unique_set", "read", "write", "from_trace"}
  BY SequencesAssumption
<1>2. CASE k = "random"
  <2>0. Draws[k] = RandomReqs(random_seg) /\ DOMAIN random_seg = 0 .. 3
    BY <1>2 DEF Draws, random_seg
  <2>1. PICK s \in 0 .. 3 : req \in SegReqs(s, random_seg[s])
    <3>1. req \in UNION {SegReqs(s, random_seg[s]) : s \in 0 .. 3}
      BY <1>2, <2>0 DEF RandomReqs
    <3> QED
      BY <3>1
  <2>2. random_seg[s] \in Attrs(k, s)
    <3>1. CASE s = 3
      <4>1. random_seg[s] = [uncached |-> TRUE, amo |-> TRUE, policy |-> "AUTO"]
        <5> DEFINE u == s = 3
        <5>1. random_seg[s] = [uncached |-> u, amo |-> TRUE, policy |-> <<"RANDOM", "WB", "WT", "AUTO">>[s + 1]]
          BY DEF random_seg, Seg
        <5>2. u = TRUE
          BY <3>1
        <5> HIDE DEF u
        <5> QED
          BY <3>1, <5>1, <5>2
      <4>2. "AUTO" \in Policies \cup {"RANDOM"}
        BY DEF Policies
      <4> QED
        BY <1>2, <3>1, <4>1, <4>2 DEF Attrs
    <3>2. CASE s # 3
      <4>1. random_seg[s] = [uncached |-> FALSE, amo |-> TRUE, policy |-> <<"RANDOM", "WB", "WT", "AUTO">>[s + 1]]
        BY <3>2 DEF random_seg, Seg
      <4>2. <<"RANDOM", "WB", "WT", "AUTO">>[s + 1] \in Policies \cup {"RANDOM"}
        <5>1. s \in {0, 1, 2, 3}
          OBVIOUS
        <5> QED
          BY <5>1 DEF Policies
      <4> QED
        BY <3>2, <4>1, <4>2 DEF Attrs
    <3> QED
      BY <3>1, <3>2
  <2>3. k \in {"random", "unique_set"}
    BY <1>2
  <2> QED
    BY <2>1, <2>2, <2>3, SegLegal
<1>3. CASE k = "unique_set"
  <2>0. Draws[k] = RandomReqs(unique_set_seg) /\ DOMAIN unique_set_seg = 0 .. 3
    BY <1>3 DEF Draws, unique_set_seg
  <2>1. PICK s \in 0 .. 3 : req \in SegReqs(s, unique_set_seg[s])
    <3>1. req \in UNION {SegReqs(s, unique_set_seg[s]) : s \in 0 .. 3}
      BY <1>3, <2>0 DEF RandomReqs
    <3> QED
      BY <3>1
  <2>2. unique_set_seg[s] \in Attrs(k, s)
    <3>1. unique_set_seg[s] = [uncached |-> FALSE, amo |-> s # 2, policy |-> <<"RANDOM", "WB", "AUTO", "AUTO">>[s + 1]]
      BY DEF unique_set_seg, Seg
    <3>2. <<"RANDOM", "WB", "AUTO", "AUTO">>[s + 1] \in Policies \cup {"RANDOM"}
      <4>1. s \in {0, 1, 2, 3}
        OBVIOUS
      <4> QED
        BY <4>1 DEF Policies
    <3>3. FALSE = (IF k = "random" /\ s = 3 THEN TRUE ELSE FALSE) /\ (s # 2) \in BOOLEAN
      BY <1>3
    <3> QED
      BY <3>1, <3>2, <3>3 DEF Attrs
  <2>3. k \in {"random", "unique_set"}
    BY <1>3
  <2> QED
    BY <2>1, <2>2, <2>3, SegLegal
<1>4. CASE k \in {"read", "write", "from_trace"}
  <2>1. req \in ReadReqs \cup WriteReqs \cup TraceReqs
    BY <1>4 DEF Draws
  <2> QED
    BY <1>4, <2>1, OtherLegal
<1> QED
  BY <1>1, <1>2, <1>3, <1>4

\* A store-conditional after a legal load-reserved.
LEMMA ScLegal ==
  ASSUME NEW k, NEW lr, Legal(k, lr), lr.op = "LR", NEW req \in ScReqs(lr)
  PROVE  Legal(k, req)
<1>0. {"addr", "op", "data", "need_rsp", "be", "uncacheable", "policy"} \subseteq DOMAIN req
  BY DEF ScReqs, Reqs
<1>1. /\ req.addr = lr.addr /\ req.op = "SC" /\ req.data \in Data
      /\ req.need_rsp = TRUE /\ req.be = TRUE /\ req.uncacheable = lr.uncacheable /\ req.policy = "AUTO"
  BY DEF ScReqs, Reqs
<1>2. req.data \in Value
  BY <1>1, SegmentsAssumption
<1>3. ~is_cmo("LR") /\ ~is_cmo("SC")
  BY DEF is_cmo, CmoOps
<1>4. (InUncached(k, lr.addr) => lr.uncacheable) /\ (lr.uncacheable => InUncached(k, lr.addr))
  BY <1>3 DEF Legal
<1> QED
  BY <1>0, <1>1, <1>2, <1>3, <1>4 DEF Legal, ReqOps, Policies

\* The identifier of a request does not matter.
LEMMA PutLegal ==
  ASSUME NEW k, NEW req, NEW id, Legal(k, req)
  PROVE  Legal(k, Put(req, "tid", id))
<1> DEFINE q == Put(req, "tid", id)
<1>1. DOMAIN q = DOMAIN req \cup {"tid"} /\ \A x \in DOMAIN req \ {"tid"} : q[x] = req[x]
  BY DEF Put
<1> HIDE DEF q
<1>2. /\ q.addr = req.addr /\ q.op = req.op /\ q.data = req.data /\ q.need_rsp = req.need_rsp
      /\ q.be = req.be /\ q.uncacheable = req.uncacheable /\ q.policy = req.policy
  BY <1>1 DEF Legal
<1>3. Legal(k, q)
  BY <1>1, <1>2 DEF Legal
<1> QED
  BY <1>3 DEF q


----------------------------------------------------------------------------
(* The requests that the cache holds                                       *)

\* A request of the cache.
IsEntry(k, e) ==
  DOMAIN e = {"t", "pc", "old", "err"} /\ e.pc \in {"new", "wait", "retry"} /\ Legal(k, e.t)

LegalInv ==
  /\ kind \in Kinds
  /\ DOMAIN drv = {"pc", "t"} /\ (drv.pc = "valid" => Legal(kind, drv.t))
  /\ DOMAIN sq = {"n", "lr", "left"} /\ (sq.lr # None => Legal(kind, sq.lr) /\ sq.lr.op = "LR")
  /\ IsSeq(cq)
  /\ \A i \in 1 .. Len(cq) : IsEntry(kind, cq[i])

Waits(i) == cq[i].pc = "wait"
UcOp(t) == t.uncacheable \/ Atomic(t.op)
\* An uncached access is out: nothing else is in the cache.
UcWait == Len(cq) = 1 /\ Waits(1) /\ UcOp(cq[1].t)

\* A fence comes last, an uncached access that waits is alone, and of the
\* requests that wait for a line none is of the line of an earlier request.
OrderInv ==
  /\ \A i \in 1 .. Len(cq) : Fence(cq[i].t) => i = Len(cq)
  /\ \A i \in 1 .. Len(cq) : Waits(i) =>
       IF Fence(cq[i].t) THEN UcWait
       ELSE FirstOfLine(i) /\ cq[i].t.op \in {"LOAD", "PREFETCH", "STORE"}

\* A sequence without one of its elements.
LEMMA SeqRemove ==
  ASSUME NEW s, IsSeq(s), NEW i \in 1 .. Len(s)
  PROVE  /\ IsSeq(RemoveAt(s, i)) /\ Len(s) \in Nat \ {0}
         /\ Len(RemoveAt(s, i)) = Len(s) - 1
         /\ \A k \in 1 .. Len(s) - 1 : RemoveAt(s, i)[k] = IF k < i THEN s[k] ELSE s[k + 1]
<1> DEFINE R == {s[k] : k \in 1 .. Len(s)}
           p == SubSeq(s, 1, i - 1)  q == SubSeq(s, i + 1, Len(s))
<1>1. s \in Seq(R)
  BY DEF IsSeq
<1> HIDE DEF R
<1>2. Len(s) \in Nat \ {0} /\ i \in Nat /\ 1 <= i /\ i <= Len(s)
  BY <1>1
<1>3. /\ p \in Seq(R) /\ Len(p) = i - 1
      /\ \A k \in 1 .. i - 1 : p[k] = s[k]
  <2>1. /\ SubSeq(s, 1, i - 1) \in Seq(R)
        /\ Len(SubSeq(s, 1, i - 1)) = IF 1 <= i - 1 THEN (i - 1) - 1 + 1 ELSE 0
    BY <1>1, <1>2, SubSeqProperties
  <2>2. \A k \in 1 .. (i - 1) - 1 + 1 : SubSeq(s, 1, i - 1)[k] = s[1 + k - 1]
    BY <1>1, <1>2, SubSeqProperties
  <2>3. Len(p) = i - 1
    BY <1>2, <2>1
  <2>4. ASSUME NEW k \in 1 .. i - 1 PROVE p[k] = s[k]
    <3>1. k \in 1 .. (i - 1) - 1 + 1 /\ 1 + k - 1 = k
      BY <1>2
    <3> QED
      BY <2>2, <3>1
  <2> QED
    BY <2>1, <2>3, <2>4
<1>4. /\ q \in Seq(R) /\ Len(q) = Len(s) - i
      /\ \A k \in 1 .. Len(s) - i : q[k] = s[k + i]
  <2>1. /\ SubSeq(s, i + 1, Len(s)) \in Seq(R)
        /\ Len(SubSeq(s, i + 1, Len(s))) = IF i + 1 <= Len(s) THEN Len(s) - (i + 1) + 1 ELSE 0
    BY <1>1, <1>2, SubSeqProperties
  <2>2. \A k \in 1 .. Len(s) - (i + 1) + 1 : SubSeq(s, i + 1, Len(s))[k] = s[i + 1 + k - 1]
    BY <1>1, <1>2, SubSeqProperties
  <2>3. Len(q) = Len(s) - i
    BY <1>2, <2>1
  <2>4. ASSUME NEW k \in 1 .. Len(s) - i PROVE q[k] = s[k + i]
    <3>1. k \in 1 .. Len(s) - (i + 1) + 1 /\ i + 1 + k - 1 = k + i
      BY <1>2
    <3> QED
      BY <2>2, <3>1
  <2> QED
    BY <2>1, <2>3, <2>4
<1>5. RemoveAt(s, i) = Cat(p, q)
  BY DEF RemoveAt, Cat
<1>6. IsSeq(p) /\ IsSeq(q)
  BY <1>3, <1>4, SeqIsSeq
<1> HIDE DEF p, q
<1>7. /\ IsSeq(Cat(p, q)) /\ Len(Cat(p, q)) = Len(p) + Len(q)
      /\ \A k \in 1 .. Len(p) + Len(q) : Cat(p, q)[k] = IF k <= Len(p) THEN p[k] ELSE q[k - Len(p)]
  BY <1>6, SeqCat
<1>8. Len(p) + Len(q) = Len(s) - 1
  BY <1>2, <1>3, <1>4
<1>9. ASSUME NEW k \in 1 .. Len(s) - 1
      PROVE  Cat(p, q)[k] = IF k < i THEN s[k] ELSE s[k + 1]
  <2>1. CASE k < i
    <3>1. k <= Len(p) /\ k \in 1 .. i - 1 /\ k \in 1 .. Len(p) + Len(q)
      BY <1>2, <1>3, <1>8, <2>1
    <3> QED
      BY <1>3, <1>7, <2>1, <3>1
  <2>2. CASE ~(k < i)
    <3>1. /\ ~(k <= Len(p)) /\ k - Len(p) \in 1 .. Len(s) - i /\ (k - Len(p)) + i = k + 1
          /\ k \in 1 .. Len(p) + Len(q)
      BY <1>2, <1>3, <1>8, <2>2
    <3> QED
      BY <1>4, <1>7, <2>2, <3>1
  <2> QED
    BY <2>1, <2>2
<1> QED
  BY <1>2, <1>5, <1>7, <1>8, <1>9

\* A sequence is a function, and the other way round.
LEMMA SeqIsFun ==
  ASSUME NEW s, IsSeq(s)
  PROVE  Len(s) \in Nat /\ s \in [1 .. Len(s) -> {s[k] : k \in 1 .. Len(s)}]
BY LenProperties DEF IsSeq

\* A function on the first numbers is a sequence.
LEMMA FunIsSeq ==
  ASSUME NEW n \in Nat, NEW S, NEW r \in [1 .. n -> S]
  PROVE  IsSeq(r) /\ Len(r) = n
<1>1. r \in Seq(S)
  BY SeqDef
<1>2. Len(r) = n
  BY <1>1, LenProperties
<1> QED
  BY <1>1, <1>2, SeqIsSeq

\* An entry of the cache, and whether it is a fence.
LEMMA UcIsFence ==
  ASSUME NEW t, UcOp(t)
  PROVE  Fence(t)
BY DEF UcOp, Fence

\* A request leaves the cache.
LEMMA RemoveKeeps ==
  ASSUME LegalInv, OrderInv, NEW i \in 1 .. Len(cq), cq' = RemoveAt(cq, i)
  PROVE  /\ IsSeq(cq') /\ (\A k \in 1 .. Len(cq') : IsEntry(kind, cq'[k]))
         /\ OrderInv' /\ ~UcWait'
         /\ Len(cq) \in Nat \ {0} /\ Len(cq') = Len(cq) - 1
         /\ \A k \in 1 .. Len(cq') : \E j \in 1 .. Len(cq) : j # i /\ cq'[k] = cq[j]
         /\ \A j \in 1 .. Len(cq) : j # i => \E k \in 1 .. Len(cq') : cq'[k] = cq[j]
<1> DEFINE r == cq'  m(k) == IF k < i THEN k ELSE k + 1
<1>1. /\ IsSeq(r) /\ Len(cq) \in Nat \ {0} /\ Len(r) = Len(cq) - 1
      /\ \A k \in 1 .. Len(cq) - 1 : r[k] = IF k < i THEN cq[k] ELSE cq[k + 1]
  BY SeqRemove DEF LegalInv
<1>2. ASSUME NEW k \in 1 .. Len(r)
      PROVE  m(k) \in 1 .. Len(cq) /\ m(k) # i /\ r[k] = cq[m(k)]
  BY <1>1
<1>3. ASSUME NEW k \in 1 .. Len(r), NEW j \in 1 .. (k - 1)
      PROVE  j \in 1 .. Len(r) /\ m(j) \in 1 .. (m(k) - 1)
  BY <1>1
<1>4. ASSUME NEW k \in 1 .. Len(r), m(k) = Len(cq)
      PROVE  k = Len(r)
  BY <1>1, <1>4
<1>5. ASSUME NEW j \in 1 .. Len(cq), j # i
      PROVE  \E k \in 1 .. Len(r) : r[k] = cq[j]
  <2>1. CASE j < i
    <3>1. j \in 1 .. Len(r) /\ r[j] = cq[j]
      BY <1>1, <2>1
    <3> QED
      BY <3>1
  <2>2. CASE ~(j < i)
    <3>1. j - 1 \in 1 .. Len(cq) - 1 /\ ~(j - 1 < i) /\ (j - 1) + 1 = j
      BY <1>1, <1>5, <2>2
    <3>2. j - 1 \in 1 .. Len(r) /\ r[j - 1] = cq[j]
      BY <1>1, <3>1
    <3> QED
      BY <3>2
  <2> QED
    BY <2>1, <2>2
<1> HIDE DEF r, m
<1>6. ASSUME NEW k \in 1 .. Len(r), r[k].pc = "wait"
      PROVE  ~Fence(r[k].t) /\ r[k].t.op \in {"LOAD", "PREFETCH", "STORE"} /\ FirstOfLine(k)'
  <2>1. m(k) \in 1 .. Len(cq) /\ Waits(m(k)) /\ r[k] = cq[m(k)]
    BY <1>2, <1>6 DEF Waits
  <2>2. ~Fence(cq[m(k)].t)
    <3>1. ASSUME Fence(cq[m(k)].t) PROVE FALSE
      <4>1. UcWait
        BY <2>1, <3>1 DEF OrderInv
      <4>2. Len(cq) = 1
        BY <4>1 DEF UcWait
      <4>3. Len(r) = 0
        BY <1>1, <4>2
      <4> QED
        BY <4>3
    <3> QED
      BY <3>1
  <2>3. FirstOfLine(m(k)) /\ cq[m(k)].t.op \in {"LOAD", "PREFETCH", "STORE"}
    BY <2>1, <2>2 DEF OrderInv
  <2>4. ASSUME NEW j \in 1 .. (k - 1) PROVE get_nline(r[j].t.addr) # get_nline(r[k].t.addr)
    <3>1. m(j) \in 1 .. (m(k) - 1) /\ r[j] = cq[m(j)]
      BY <1>2, <1>3
    <3> QED
      BY <2>1, <2>3, <3>1 DEF FirstOfLine
  <2> QED
    BY <2>1, <2>2, <2>3, <2>4 DEF FirstOfLine, r
<1>7. ~UcWait'
  <2> SUFFICES ASSUME UcWait' PROVE FALSE
    OBVIOUS
  <2>1. Len(r) = 1 /\ r[1].pc = "wait" /\ UcOp(r[1].t)
    BY DEF UcWait, Waits, r, UcOp
  <2>2. 1 \in 1 .. Len(r)
    BY <2>1
  <2> QED
    BY <1>6, <2>1, <2>2, UcIsFence
<1>8. OrderInv'
  <2>1. ASSUME NEW k \in 1 .. Len(r), Fence(r[k].t) PROVE k = Len(r)
    <3>1. m(k) \in 1 .. Len(cq) /\ r[k] = cq[m(k)]
      BY <1>2
    <3>2. m(k) = Len(cq)
      BY <2>1, <3>1 DEF OrderInv
    <3> QED
      BY <1>4, <3>2
  <2> QED
    BY <1>6, <2>1 DEF OrderInv, Waits, r, Fence
<1>9. \A k \in 1 .. Len(r) : IsEntry(kind, r[k])
  BY <1>2 DEF LegalInv
<1>10. \A k \in 1 .. Len(r) : \E j \in 1 .. Len(cq) : j # i /\ r[k] = cq[j]
  BY <1>2
<1> QED
  BY <1>1, <1>5, <1>7, <1>8, <1>9, <1>10 DEF r

\* A request enters the cache.
LEMMA AppendKeeps ==
  ASSUME LegalInv, OrderInv, CanAccept, NEW e, IsEntry(kind, e), e.pc = "new", cq' = Append(cq, e)
  PROVE  /\ IsSeq(cq') /\ (\A k \in 1 .. Len(cq') : IsEntry(kind, cq'[k]))
         /\ OrderInv' /\ ~UcWait' /\ ~UcWait
         /\ Len(cq) \in Nat /\ Len(cq') = Len(cq) + 1
         /\ \A k \in 1 .. Len(cq) : cq'[k] = cq[k]
<1> DEFINE r == cq'
<1>1. /\ IsSeq(r) /\ Len(cq) \in Nat /\ Len(r) = Len(cq) + 1
      /\ \A k \in 1 .. Len(cq) : r[k] = cq[k]
      /\ r[Len(cq) + 1] = e
  BY SeqAppend DEF LegalInv
<1>2. \A k \in 1 .. Len(cq) : ~Fence(cq[k].t)
  BY DEF CanAccept
<1> HIDE DEF r
<1>3. ASSUME NEW k \in 1 .. Len(r), r[k].pc = "wait"
      PROVE  ~Fence(r[k].t) /\ r[k].t.op \in {"LOAD", "PREFETCH", "STORE"} /\ FirstOfLine(k)'
  <2>1. k \in 1 .. Len(cq) /\ r[k] = cq[k]
    BY <1>1, <1>3
  <2>2. ~Fence(r[k].t) /\ FirstOfLine(k) /\ r[k].t.op \in {"LOAD", "PREFETCH", "STORE"}
    BY <1>2, <1>3, <2>1 DEF OrderInv, Waits
  <2>3. ASSUME NEW j \in 1 .. (k - 1) PROVE get_nline(r[j].t.addr) # get_nline(r[k].t.addr)
    <3>1. j \in 1 .. Len(cq)
      BY <1>1, <2>1
    <3>2. r[j] = cq[j]
      BY <1>1, <3>1
    <3> QED
      BY <2>1, <2>2, <3>2 DEF FirstOfLine
  <2> QED
    BY <2>2, <2>3 DEF FirstOfLine, r
<1>4. ~UcWait'
  <2> SUFFICES ASSUME UcWait' PROVE FALSE
    OBVIOUS
  <2>1. Len(r) = 1 /\ r[1].pc = "wait" /\ UcOp(r[1].t)
    BY DEF UcWait, Waits, r, UcOp
  <2>2. 1 \in 1 .. Len(r)
    BY <2>1
  <2> QED
    BY <1>3, <2>1, <2>2, UcIsFence
<1>5. ~UcWait
  <2> SUFFICES ASSUME UcWait PROVE FALSE
    OBVIOUS
  <2>1. 1 \in 1 .. Len(cq) /\ UcOp(cq[1].t)
    BY DEF UcWait
  <2> QED
    BY <1>2, <2>1, UcIsFence
<1>6. OrderInv'
  <2>1. ASSUME NEW k \in 1 .. Len(r), Fence(r[k].t) PROVE k = Len(r)
    <3>1. k \notin 1 .. Len(cq)
      BY <1>1, <1>2, <2>1
    <3> QED
      BY <1>1, <3>1
  <2> QED
    BY <1>3, <2>1 DEF OrderInv, Waits, r, Fence
<1>7. ASSUME NEW k \in 1 .. Len(r) PROVE IsEntry(kind, r[k])
  <2>1. k \in 1 .. Len(cq) \/ k = Len(cq) + 1
    BY <1>1
  <2> QED
    BY <1>1, <2>1 DEF LegalInv
<1> QED
  BY <1>1, <1>4, <1>5, <1>6, <1>7 DEF r

\* A request of the cache goes on.
LEMMA ChangeKeeps ==
  ASSUME LegalInv, OrderInv, NEW i \in 1 .. Len(cq), NEW e, IsEntry(kind, e), e.t = cq[i].t,
         e.pc = "wait" => IF Fence(e.t) THEN Len(cq) = 1 /\ UcOp(e.t)
                          ELSE FirstOfLine(i) /\ e.t.op \in {"LOAD", "PREFETCH", "STORE"},
         cq' = [cq EXCEPT ![i] = e]
  PROVE  /\ IsSeq(cq') /\ (\A k \in 1 .. Len(cq') : IsEntry(kind, cq'[k]))
         /\ OrderInv' /\ Len(cq) \in Nat /\ Len(cq') = Len(cq)
         /\ \A k \in 1 .. Len(cq) : cq'[k] = IF k = i THEN e ELSE cq[k]
<1> DEFINE r == cq'
<1>0. IsSeq(cq) /\ r = [cq EXCEPT ![i] = e]
  BY DEF LegalInv
<1> HIDE DEF r
<1>1. /\ IsSeq(r) /\ Len(cq) \in Nat /\ Len(r) = Len(cq)
      /\ \A k \in 1 .. Len(cq) : r[k] = IF k = i THEN e ELSE cq[k]
  <2> DEFINE R == {cq[k] : k \in 1 .. Len(cq)}  S == R \cup {e}
  <2>1. Len(cq) \in Nat /\ cq \in [1 .. Len(cq) -> R]
    BY <1>0, SeqIsFun
  <2>2. cq \in [1 .. Len(cq) -> S] /\ e \in S
    BY <2>1
  <2> HIDE DEF S
  <2>3. r \in [1 .. Len(cq) -> S] /\ \A k \in 1 .. Len(cq) : r[k] = IF k = i THEN e ELSE cq[k]
    BY <1>0, <2>2
  <2> QED
    BY <2>1, <2>3, FunIsSeq
<1>2. \A k \in 1 .. Len(cq) : r[k].t = cq[k].t
  BY <1>1
<1>3. ASSUME NEW k \in 1 .. Len(cq), FirstOfLine(k) PROVE FirstOfLine(k)'
  <2>1. ASSUME NEW j \in 1 .. (k - 1) PROVE get_nline(r[j].t.addr) # get_nline(r[k].t.addr)
    <3>1. j \in 1 .. Len(cq)
      BY <1>1
    <3> QED
      BY <1>2, <1>3, <3>1 DEF FirstOfLine
  <2> QED
    BY <2>1 DEF FirstOfLine, r
<1>4. ASSUME NEW k \in 1 .. Len(r), r[k].pc = "wait"
      PROVE  IF Fence(r[k].t) THEN UcWait' ELSE FirstOfLine(k)' /\ r[k].t.op \in {"LOAD", "PREFETCH", "STORE"}
  <2>1. CASE k = i
    <3>1. r[k] = e
      BY <1>1, <2>1
    <3>2. ASSUME Fence(e.t) PROVE UcWait'
      <4>1. Len(cq) = 1 /\ UcOp(e.t) /\ k = 1
        BY <1>1, <1>4, <3>1, <3>2
      <4>2. Len(r) = 1 /\ r[1].pc = "wait" /\ UcOp(r[1].t)
        BY <1>1, <1>4, <3>1, <4>1
      <4> QED
        BY <4>2 DEF UcWait, Waits, UcOp, r
    <3> QED
      BY <1>1, <1>3, <1>4, <2>1, <3>1, <3>2
  <2>2. CASE k # i
    <3>1. r[k] = cq[k] /\ Waits(k) /\ k \in 1 .. Len(cq)
      BY <1>1, <1>4, <2>2 DEF Waits
    <3>2. ~Fence(cq[k].t)
      <4>1. ASSUME Fence(cq[k].t) PROVE FALSE
        <5>1. UcWait
          BY <3>1, <4>1 DEF OrderInv
        <5>2. Len(cq) = 1
          BY <5>1 DEF UcWait
        <5> QED
          BY <1>1, <2>2, <5>2
      <4> QED
        BY <4>1
    <3> QED
      BY <1>3, <3>1, <3>2 DEF OrderInv
  <2> QED
    BY <2>1, <2>2
<1>5. \A k \in 1 .. Len(r) : Fence(r[k].t) => k = Len(r)
  BY <1>1, <1>2 DEF OrderInv
<1>6. OrderInv'
  <2>1. \A k \in 1 .. Len(cq') : Fence(cq'[k].t) => k = Len(cq')
    BY <1>5 DEF r
  <2>2. \A k \in 1 .. Len(cq') : Waits(k)' => IF Fence(cq'[k].t) THEN UcWait'
                              ELSE FirstOfLine(k)' /\ cq'[k].t.op \in {"LOAD", "PREFETCH", "STORE"}
    BY <1>4 DEF r, Waits
  <2> QED
    BY <2>1, <2>2 DEF OrderInv, Fence
<1>7. \A k \in 1 .. Len(r) : IsEntry(kind, r[k])
  BY <1>1 DEF LegalInv
<1> QED
  BY <1>1, <1>6, <1>7 DEF r


----------------------------------------------------------------------------
(* The accesses that are out                                               *)

\* A set of numbers has a least one.
LEMMA LeastNumber ==
  ASSUME NEW S \in SUBSET Nat, S # {}
  PROVE  \E w \in S : \A v \in S : w <= v
<1> DEFINE Less == {ss \in Nat \X Nat : ss[1] < ss[2]}
<1>1. OpToRel(<, Nat) = Less
  BY DEF OpToRel
<1> HIDE DEF Less
<1>2. IsWellFoundedOn(Less, Nat)
  BY ONLY NatLessThanWellFounded, <1>1, Zenon
<1>3. PICK w \in S : \A v \in S : ~(<<v, w>> \in Less)
  BY <1>2, WFMin
<1> USE DEF Less
<1>4. ASSUME NEW v \in S PROVE w <= v
  <2>1. v \in Nat /\ w \in Nat /\ ~(v < w)
    BY <1>3
  <2> QED
    BY <2>1
<1> QED
  BY <1>4

\* A line has a least word.
LEMMA BaseOfLine ==
  ASSUME NEW addr \in Words
  PROVE  /\ addr \in Line(addr) /\ Base(addr) \in Line(addr) /\ Base(addr) \in Words
         /\ get_nline(Base(addr)) = get_nline(addr)
         /\ \A w \in Line(addr) : Base(addr) <= w
         /\ \A w \in Words : get_nline(w) = get_nline(addr) => Line(w) = Line(addr) /\ Base(w) = Base(addr)
<1>1. addr \in Line(addr) /\ Line(addr) \subseteq Nat
  BY WordsAssumption DEF Line
<1>3. \E w \in Line(addr) : \A v \in Line(addr) : w <= v
  BY <1>1, LeastNumber
<1>4. Base(addr) \in Line(addr) /\ \A v \in Line(addr) : Base(addr) <= v
  BY <1>3 DEF Base
<1>5. ASSUME NEW v \in Words, get_nline(v) = get_nline(addr)
      PROVE  Line(v) = Line(addr) /\ Base(v) = Base(addr)
  <2>1. Line(v) = Line(addr)
    BY <1>5 DEF Line
  <2> QED
    BY <2>1 DEF Base
<1> HIDE DEF Base
<1>6. Base(addr) \in Words /\ get_nline(Base(addr)) = get_nline(addr)
  BY <1>4 DEF Line
<1> QED
  BY <1>1, <1>4, <1>5, <1>6

\* The request that a read of a line is for.
IsFor(i, id) == Waits(i) /\ ~Fence(cq[i].t) /\ rdBusy[id].addr = Base(cq[i].t.addr)

\* What the busy identifiers are about.
BusyInv ==
  /\ \A id \in DOMAIN rdBusy :
       /\ DOMAIN rdBusy[id] = {"addr", "values"}
       /\ id = UcId => UcWait /\ rdBusy[id].addr = cq[1].t.addr /\ cq[1].t.op \in {"LOAD", "LR"} \cup AmoOps
       /\ id # UcId => id \in ReadIds /\ \E i \in 1 .. Len(cq) : IsFor(i, id)
       /\ \A k \in DOMAIN rdBusy : rdBusy[k].addr = rdBusy[id].addr => k = id
  /\ UcId \in DOMAIN wrBusy => UcWait /\ cq[1].t.op \in {"STORE", "SC"} \cup AmoOps

\* While an uncached access is out, nothing else is read and nothing else executes.
LEMMA AloneOut ==
  ASSUME LegalInv, OrderInv, BusyInv, UcWait
  PROVE  /\ DOMAIN rdBusy \subseteq {UcId} /\ Len(cq) = 1 /\ IsEntry(kind, cq[1]) /\ cq[1].pc = "wait"
         /\ Fence(cq[1].t)
         /\ \A i \in 1 .. Len(cq) : ~Executable(i) /\ i = 1
<1>1. Len(cq) = 1 /\ Waits(1) /\ Fence(cq[1].t)
  BY UcIsFence DEF UcWait
<1>2. IsEntry(kind, cq[1])
  BY <1>1 DEF LegalInv
<1>3. ASSUME NEW id \in DOMAIN rdBusy, id # UcId PROVE FALSE
  <2>1. PICK i \in 1 .. Len(cq) : IsFor(i, id)
    BY <1>3 DEF BusyInv
  <2>2. i = 1
    BY <1>1
  <2> QED
    BY <1>1, <2>1, <2>2 DEF IsFor
<1>4. ASSUME NEW i \in 1 .. Len(cq) PROVE ~Executable(i) /\ i = 1
  <2>1. i = 1
    BY <1>1
  <2> QED
    BY <1>1, <2>1 DEF Executable, Waits
<1> QED
  BY <1>1, <1>2, <1>3, <1>4 DEF Waits

\* A read of a line is for one request.
LEMMA ForOne ==
  ASSUME LegalInv, OrderInv, BusyInv, NEW id \in DOMAIN rdBusy, id # UcId
  PROVE  /\ ~UcWait /\ UcId \notin DOMAIN rdBusy /\ UcId \notin DOMAIN wrBusy
         /\ Waiting(id) \in 1 .. Len(cq) /\ IsFor(Waiting(id), id)
         /\ \A k \in DOMAIN rdBusy : k # id => ~IsFor(Waiting(id), k)
         /\ \A i \in 1 .. Len(cq) : IsFor(i, id) => i = Waiting(id)
         /\ cq[Waiting(id)].t.op \in {"LOAD", "PREFETCH", "STORE"} /\ ~cq[Waiting(id)].t.uncacheable
         /\ get_nline(cq[Waiting(id)].t.addr) = get_nline(rdBusy[id].addr)
         /\ rdBusy[id].addr = Base(cq[Waiting(id)].t.addr)
<1>1. ~UcWait
  BY AloneOut
<1>2. UcId \notin DOMAIN rdBusy /\ UcId \notin DOMAIN wrBusy
  BY <1>1 DEF BusyInv
<1>3. PICK i \in 1 .. Len(cq) : IsFor(i, id)
  BY DEF BusyInv
<1> DEFINE P(j) == cq[j].pc = "wait" /\ (id = UcId \/ get_nline(cq[j].t.addr) = get_nline(rdBusy[id].addr))
<1>4. \A j \in 1 .. Len(cq) : cq[j].t.addr \in Words
  BY DEF LegalInv, IsEntry, Legal
<1>5. \A j \in 1 .. Len(cq) : get_nline(Base(cq[j].t.addr)) = get_nline(cq[j].t.addr)
  BY <1>4, BaseOfLine
<1>6. P(i)
  BY <1>3, <1>5 DEF IsFor, Waits
<1>7. ASSUME NEW j \in 1 .. Len(cq), P(j) PROVE j = i
  <2>1. Waits(j) /\ Waits(i)
    BY <1>3, <1>7 DEF IsFor, Waits
  <2>2. FirstOfLine(j) /\ FirstOfLine(i)
    BY <1>1, <2>1 DEF OrderInv
  <2>3. get_nline(cq[j].t.addr) = get_nline(cq[i].t.addr)
    BY <1>3, <1>5, <1>7 DEF IsFor
  <2>4. ~(j < i) /\ ~(i < j)
    <3>1. ASSUME j < i PROVE FALSE
      <4>1. j \in 1 .. (i - 1)
        BY <3>1
      <4> QED
        BY <2>2, <2>3, <4>1 DEF FirstOfLine
    <3>2. ASSUME i < j PROVE FALSE
      <4>1. i \in 1 .. (j - 1)
        BY <3>2
      <4> QED
        BY <2>2, <2>3, <4>1 DEF FirstOfLine
    <3> QED
      BY <3>1, <3>2
  <2> QED
    BY <2>4
<1>8. Waiting(id) = i
  <2>1. Waiting(id) = CHOOSE j \in 1 .. Len(cq) : P(j)
    BY DEF Waiting
  <2> HIDE DEF P
  <2> QED
    BY <1>6, <1>7, <2>1
<1>9. ASSUME NEW k \in DOMAIN rdBusy, k # id PROVE ~IsFor(i, k)
  BY <1>3, <1>9 DEF IsFor, BusyInv
<1>10. ASSUME NEW j \in 1 .. Len(cq), IsFor(j, id) PROVE j = i
  BY <1>5, <1>7, <1>10 DEF IsFor, Waits
<1>11. cq[i].t.op \in {"LOAD", "PREFETCH", "STORE"} /\ ~cq[i].t.uncacheable
  BY <1>3 DEF IsFor, OrderInv, Fence
<1> QED
  BY <1>1, <1>2, <1>3, <1>6, <1>8, <1>9, <1>10, <1>11 DEF IsFor



----------------------------------------------------------------------------
(* The way of a read                                                       *)

\* The value that stands for no request and no response has no identifier.
NoneHasNoId == {"id", "tid"} \cap DOMAIN None = {}

\* The responses on their way to the cache, the oldest first.
RdShown == IF rdOut = None THEN <<>> ELSE <<rdOut>>
Stream == Cat(RdShown, readRespFifo)

\* An atomic that has not sent its old data yet.
AmoPend == AmoAway \/ wp.pc = "read_resp"

\* The identifier that the thread of reads is answering, and the one whose old
\* data an atomic has still to send.
Pushed == IF rd.pc = "push" THEN {rd.req.id} ELSE {}
Owed == IF AmoPend THEN {UcId} ELSE {}

QueueType ==
  /\ IsSeq(rdReq) /\ IsSeq(readRespFifo)
  /\ rdOut # None => "id" \in DOMAIN rdOut
  /\ \A k \in 1 .. Len(readRespFifo) : "id" \in DOMAIN readRespFifo[k]
  /\ DOMAIN rd = {"pc", "req", "beat"} /\ rd.pc \in {"idle", "ready", "push"}
  /\ rd.pc = "ready" => rdReq # <<>> /\ rd.req = rdReq[1] /\ rd.beat = 0

AnswerType == wp.pc = "read_resp" =>
  "id" \in DOMAIN wp.rresp /\ wp.rresp.id = UcId /\ wp.rresp.last /\ wp.req.id = UcId

\* Each busy read is in one place: asked for (q), being answered (p), or
\* answered (s), or it is the read side of an atomic (a); an answer in several
\* beats is in one piece.
Once(q, s, p, a, busy) ==
  /\ p \subseteq busy /\ a \subseteq busy /\ p \cap a = {}
  /\ \A k \in 1 .. Len(q) :
       /\ q[k].id \in busy /\ q[k].id \notin p /\ q[k].id \notin a
       /\ \A j \in 1 .. Len(q) : q[j].id = q[k].id => j = k
       /\ \A j \in 1 .. Len(s) : s[j].id # q[k].id
  /\ \A k \in 1 .. Len(s) :
       /\ s[k].id \in busy /\ s[k].id \notin a
       /\ IF s[k].last
          THEN s[k].id \notin p /\ \A j \in 1 .. Len(s) : s[j].id = s[k].id => j <= k
          ELSE IF k < Len(s) THEN s[k + 1].id = s[k].id ELSE s[k].id \in p

ReadInv == QueueType /\ AnswerType /\ Once(rdReq, Stream, Pushed, Owed, DOMAIN rdBusy)

\* The atomic has sent its old data.
LEMMA OnceFewer ==
  ASSUME NEW q, NEW s, NEW p, NEW a, NEW busy, Once(q, s, p, a, busy), NEW b, b \subseteq a
  PROVE  Once(q, s, p, b, busy)
BY DEF Once

\* A line, or an uncached word, is asked for.
LEMMA OnceAsk ==
  ASSUME NEW q, NEW s, NEW p, NEW a, NEW busy, Once(q, s, p, a, busy),
         IsSeq(q), NEW x, x.id \notin busy
  PROVE  Once(Append(q, x), s, p, a, busy \cup {x.id})
<1> DEFINE r == Append(q, x)
<1>1. /\ Len(r) = Len(q) + 1 /\ Len(q) \in Nat /\ r[Len(q) + 1] = x
      /\ \A k \in 1 .. Len(q) : r[k] = q[k]
  BY SeqAppend
<1> HIDE DEF r
<1>2. \A k \in 1 .. Len(r) : k \in 1 .. Len(q) \/ (k = Len(q) + 1 /\ k \notin 1 .. Len(q))
  BY <1>1
<1>3. \A k \in 1 .. Len(q) : q[k].id # x.id
  BY DEF Once
<1>4. \A k \in 1 .. Len(s) : s[k].id # x.id
  BY DEF Once
<1>5. ASSUME NEW k \in 1 .. Len(r)
      PROVE /\ r[k].id \in busy \cup {x.id} /\ r[k].id \notin p /\ r[k].id \notin a
            /\ \A j \in 1 .. Len(s) : s[j].id # r[k].id
  BY <1>1, <1>2, <1>4 DEF Once
<1>6. ASSUME NEW k \in 1 .. Len(r), NEW j \in 1 .. Len(r), r[j].id = r[k].id PROVE j = k
  BY <1>1, <1>2, <1>3, <1>6 DEF Once
<1> QED
  BY <1>5, <1>6 DEF Once, r

\* The thread of reads takes the oldest request.
LEMMA OnceTake ==
  ASSUME NEW q, NEW s, NEW a, NEW busy, Once(q, s, {}, a, busy), IsSeq(q), q # <<>>
  PROVE  Once(Tail(q), s, {q[1].id}, a, busy)
<1> DEFINE r == Tail(q)
<1>1. Len(q) \in Nat \ {0} /\ Len(r) = Len(q) - 1 /\ \A k \in 1 .. Len(q) - 1 : r[k] = q[k + 1]
  BY SeqTail
<1>2. 1 \in 1 .. Len(q)
  BY <1>1
<1> HIDE DEF r
<1>3. ASSUME NEW k \in 1 .. Len(r) PROVE k + 1 \in 1 .. Len(q) /\ k + 1 # 1 /\ r[k] = q[k + 1]
  BY <1>1
<1>4. ASSUME NEW k \in 1 .. Len(r)
      PROVE /\ r[k].id \in busy /\ r[k].id \notin {q[1].id} /\ r[k].id \notin a
            /\ \A j \in 1 .. Len(s) : s[j].id # r[k].id
  BY <1>2, <1>3 DEF Once
<1>5. ASSUME NEW k \in 1 .. Len(r), NEW j \in 1 .. Len(r), r[j].id = r[k].id PROVE j = k
  <2>1. j + 1 = k + 1
    BY <1>3, <1>5 DEF Once
  <2> QED
    BY <2>1
<1>6. ASSUME NEW k \in 1 .. Len(s)
      PROVE /\ s[k].id \in busy /\ s[k].id \notin a
            /\ IF s[k].last
               THEN s[k].id \notin {q[1].id} /\ \A j \in 1 .. Len(s) : s[j].id = s[k].id => j <= k
               ELSE IF k < Len(s) THEN s[k + 1].id = s[k].id ELSE s[k].id \in {q[1].id}
  BY <1>2 DEF Once
<1>7. {q[1].id} \subseteq busy /\ {q[1].id} \cap a = {}
  BY <1>2 DEF Once
<1> QED
  BY <1>4, <1>5, <1>6, <1>7 DEF Once, r

\* The thread of reads answers with one more beat.
LEMMA OncePush ==
  ASSUME NEW q, NEW s, NEW i, NEW a, NEW busy, Once(q, s, {i}, a, busy), IsSeq(s),
         NEW x, x.id = i
  PROVE  Once(q, Append(s, x), IF x.last THEN {} ELSE {i}, a, busy)
<1> DEFINE r == Append(s, x)  p == IF x.last THEN {} ELSE {i}
<1>1. /\ Len(r) = Len(s) + 1 /\ Len(s) \in Nat /\ r[Len(s) + 1] = x
      /\ \A k \in 1 .. Len(s) : r[k] = s[k]
  BY SeqAppend
<1> HIDE DEF r
<1>2. \A k \in 1 .. Len(r) : k \in 1 .. Len(s) \/ k = Len(s) + 1
  BY <1>1
<1>3. \A k \in 1 .. Len(q), j \in 1 .. Len(r) : r[j].id # q[k].id
  BY <1>1, <1>2 DEF Once
<1>4. ASSUME NEW k \in 1 .. Len(r) PROVE r[k].id \in busy /\ r[k].id \notin a
  BY <1>1, <1>2 DEF Once
<1>5. ASSUME NEW k \in 1 .. Len(r), r[k].last
      PROVE  r[k].id \notin p /\ \A j \in 1 .. Len(r) : r[j].id = r[k].id => j <= k
  <2>1. CASE k \in 1 .. Len(s)
    <3>1. s[k].last /\ r[k] = s[k] /\ s[k].id # i
      BY <1>1, <1>5, <2>1 DEF Once
    <3>2. \A j \in 1 .. Len(s) : s[j].id = s[k].id => j <= k
      BY <2>1, <3>1 DEF Once
    <3> QED
      BY <1>1, <1>2, <3>1, <3>2
  <2>2. CASE k = Len(s) + 1
    BY <1>1, <1>5, <2>2
  <2> QED
    BY <1>2, <2>1, <2>2
<1>6. ASSUME NEW k \in 1 .. Len(r), ~r[k].last
      PROVE  IF k < Len(r) THEN r[k + 1].id = r[k].id ELSE r[k].id \in p
  <2>1. CASE k \in 1 .. Len(s)
    <3>1. ~s[k].last /\ r[k] = s[k] /\ k < Len(r)
      BY <1>1, <1>6, <2>1
    <3>2. CASE k < Len(s)
      <4>1. s[k + 1].id = s[k].id /\ k + 1 \in 1 .. Len(s)
        BY <1>1, <2>1, <3>1, <3>2 DEF Once
      <4> QED
        BY <1>1, <3>1, <4>1
    <3>3. CASE ~(k < Len(s))
      <4>1. s[k].id = i /\ k = Len(s)
        BY <1>1, <2>1, <3>1, <3>3 DEF Once
      <4> QED
        BY <1>1, <3>1, <4>1
    <3> QED
      BY <3>2, <3>3
  <2>2. CASE k = Len(s) + 1
    BY <1>1, <1>6, <2>2
  <2> QED
    BY <1>2, <2>1, <2>2
<1>7. p \subseteq busy /\ p \cap a = {} /\ a \subseteq busy /\ \A j \in p : j = i
  BY DEF Once
<1>8. ASSUME NEW k \in 1 .. Len(q)
      PROVE /\ q[k].id \in busy /\ q[k].id \notin p /\ q[k].id \notin a
            /\ \A j \in 1 .. Len(q) : q[j].id = q[k].id => j = k
  BY <1>7 DEF Once
<1> HIDE DEF p
<1>9. Once(q, r, p, a, busy)
  BY <1>3, <1>4, <1>5, <1>6, <1>7, <1>8 DEF Once
<1> QED
  BY <1>9 DEF r, p

\* The cache takes a beat, which may be the last one of its answer.
LEMMA OnceTaken ==
  ASSUME NEW q, NEW s, NEW p, NEW a, NEW busy, Once(q, s, p, a, busy), IsSeq(s), s # <<>>
  PROVE  Once(q, Tail(s), p, a, IF s[1].last THEN busy \ {s[1].id} ELSE busy)
<1> DEFINE r == Tail(s)  b == IF s[1].last THEN busy \ {s[1].id} ELSE busy
<1>1. Len(s) \in Nat \ {0} /\ Len(r) = Len(s) - 1 /\ \A k \in 1 .. Len(s) - 1 : r[k] = s[k + 1]
  BY SeqTail
<1>2. 1 \in 1 .. Len(s)
  BY <1>1
<1> HIDE DEF r
<1>3. ASSUME NEW k \in 1 .. Len(r)
      PROVE  /\ k + 1 \in 1 .. Len(s) /\ ~(k + 1 <= 1) /\ r[k] = s[k + 1]
             /\ (k < Len(r) <=> k + 1 < Len(s))
  BY <1>1
<1>4. /\ \A x \in p : x \in b
      /\ \A x \in a : x \in b
      /\ p \cap a = {}
  BY <1>2 DEF Once
<1>5. ASSUME NEW k \in 1 .. Len(q)
      PROVE /\ q[k].id \in b /\ q[k].id \notin p /\ q[k].id \notin a
            /\ \A j \in 1 .. Len(q) : q[j].id = q[k].id => j = k
            /\ \A j \in 1 .. Len(r) : r[j].id # q[k].id
  BY <1>2, <1>3 DEF Once
<1>6. ASSUME NEW k \in 1 .. Len(r) PROVE r[k].id \in b /\ r[k].id \notin a
  BY <1>2, <1>3 DEF Once
<1>7. ASSUME NEW k \in 1 .. Len(r), r[k].last
      PROVE  r[k].id \notin p /\ \A j \in 1 .. Len(r) : r[j].id = r[k].id => j <= k
  <2>1. s[k + 1].id \notin p /\ \A j \in 1 .. Len(s) : s[j].id = s[k + 1].id => j <= k + 1
    BY <1>3, <1>7 DEF Once
  <2>2. ASSUME NEW j \in 1 .. Len(r), r[j].id = r[k].id PROVE j <= k
    <3>1. j + 1 <= k + 1
      BY <1>3, <2>1, <2>2
    <3> QED
      BY <3>1
  <2> QED
    BY <1>3, <2>1, <2>2
<1>8. ASSUME NEW k \in 1 .. Len(r), ~r[k].last
      PROVE  IF k < Len(r) THEN r[k + 1].id = r[k].id ELSE r[k].id \in p
  <2>1. IF k + 1 < Len(s) THEN s[(k + 1) + 1].id = s[k + 1].id ELSE s[k + 1].id \in p
    BY <1>3, <1>8 DEF Once
  <2>2. CASE k < Len(r)
    <3>1. k + 1 \in 1 .. Len(r)
      BY <1>1, <2>2
    <3> QED
      BY <1>3, <2>1, <2>2, <3>1
  <2>3. CASE ~(k < Len(r))
    BY <1>3, <2>1, <2>3
  <2> QED
    BY <2>2, <2>3
<1> HIDE DEF b
<1>9. Once(q, r, p, a, b)
  BY <1>4, <1>5, <1>6, <1>7, <1>8 DEF Once
<1> QED
  BY <1>9 DEF r, b

\* The old data of an atomic, which is alone, join the answers.
LEMMA OnceAnswer ==
  ASSUME NEW q, NEW s, NEW p, NEW id, NEW busy, Once(q, s, p, {id}, busy), IsSeq(s),
         busy \subseteq {id}, NEW x, x.id = id, x.last
  PROVE  Once(q, Append(s, x), p, {}, busy)
<1> DEFINE r == Append(s, x)
<1>1. /\ Len(r) = Len(s) + 1 /\ Len(s) \in Nat /\ r[Len(s) + 1] = x
  BY SeqAppend
<1> HIDE DEF r
<1>2. Len(s) = 0
  <2>1. ASSUME 1 \in 1 .. Len(s) PROVE FALSE
    BY <2>1 DEF Once
  <2> QED
    BY <1>1, <2>1
<1>3. Len(r) = 1 /\ r[1] = x
  BY <1>1, <1>2
<1>4. \A k \in 1 .. Len(q) : FALSE
  BY DEF Once
<1>5. \A k \in 1 .. Len(r) : k = 1
  BY <1>3
<1>6. p = {} /\ id \in busy
  BY DEF Once
<1> QED
  BY <1>3, <1>4, <1>5, <1>6 DEF Once, r

\* An atomic is sent when nothing is read.
LEMMA OnceSent ==
  ASSUME NEW q, NEW s, NEW p, NEW a, Once(q, s, p, a, {}), NEW id, NEW b, b \subseteq {id}
  PROVE  Once(q, s, p, b, {id})
BY DEF Once


\* The thread that performs writes goes on in two kinds of steps only.
LEMMA WriteThread ==
  ASSUME [Next]_vars
  PROVE  wp' = wp \/ MemWriteTake \/ MemWriteRun
<1>1. CASE Simulate \/ SequenceStep \/ DriveRequest \/ CheckInflight \/ DriverFinish \/ Over \/ UNCHANGED vars
  BY <1>1 DEF Simulate, SequenceStep, SequenceMain, SequenceBetween, SequenceSc, SequenceStop,
              Send, DriveRequest, CheckInflight, DriverFinish, Over, vars, memVars, wpVars
<1>2. CASE CacheStep \/ CacheMove
  BY <1>2 DEF CacheStep, CacheMove, memVars, wpVars
<1>3. CASE MemStep
  <2>1. CASE MemReadSee \/ MemReadTake \/ MemReadPush \/ MemReadShow \/ CacheTakesRead
    BY <2>1 DEF MemReadSee, MemReadTake, MemReadPush, MemReadShow, CacheTakesRead, ReadSee, ReadTake,
                ReadPush, ReadRespShow, ReadRespTaken, wpVars
  <2>2. CASE MemAddrReady \/ MemAddrEdge \/ MemDataReady \/ MemDataEdge
    BY <2>2 DEF MemAddrReady, AddrReady, MemAddrEdge, AddrEdge, MemDataReady, DataReady, MemDataEdge, DataEdge
  <2>3. CASE MemWriteShow \/ CacheTakesWrite
    BY <2>3 DEF MemWriteShow, CacheTakesWrite, WriteRespShow, WriteRespTaken, wpVars
  <2> QED
    BY <1>3, <2>1, <2>2, <2>3 DEF MemStep
<1> QED
  BY <1>1, <1>2, <1>3 DEF Next

\* An atomic owes its old data from the step at which it is sent on, and only
\* once.
LEMMA PendNext ==
  ASSUME FifoHolds, PathInv, PairInv, AnswerType, [Next]_vars
  PROVE  AnswerType' /\ (AmoPend' => AmoPend \/ AmoSent) /\ (WritePushRead => ~AmoPend')
<1>1. AmoAway' => AmoAway \/ AmoSent
  BY NextPair
<1>2. "pc" \in DOMAIN wp /\ "req" \in DOMAIN wp /\ "rresp" \in DOMAIN wp
  BY DEF PathInv, PathType
<1>7. WritePushRead => wp.pc = "read_resp" /\ wp'.pc = "resp"
  BY <1>2 DEF WritePushRead
<1>3. CASE wp' = wp
  <2>1. ~WritePushRead
    BY <1>3, <1>7
  <2> QED
    BY <1>1, <1>3, <2>1 DEF AnswerType, AmoPend
<1>4. CASE MemWriteRun
  <2> DEFINE req == wp.req
  <2>1. /\ wp.pc = "run"
        /\ \E e, old, z : wp' = [wp EXCEPT !.pc = IF mem_is_amo(req.command) THEN "read_resp" ELSE "resp",
              !.rresp = IF mem_is_amo(req.command)
                        THEN [id |-> req.id, error |-> FALSE, last |-> TRUE, data |-> <<IF e THEN 0 ELSE old>>]
                        ELSE None,
              !.resp = z]
    BY <1>4 DEF MemWriteRun, WriteRun
  <2>2. CASE mem_is_amo(req.command)
    <3>1. req.id = UcId
      BY <2>1, <2>2 DEF PairInv, Paired, Match
    <3>2. wp'.req = req /\ wp'.rresp.id = UcId /\ wp'.rresp.last /\ "id" \in DOMAIN wp'.rresp
      BY <1>2, <2>1, <2>2, <3>1
    <3> QED
      BY <2>1, <2>2, <3>1, <3>2 DEF AnswerType, AmoPend, AmoAway, WritePushRead
  <2>3. CASE ~mem_is_amo(req.command)
    <3>1. wp'.pc = "resp" /\ ~WritePushRead
      BY <1>2, <1>7, <2>1, <2>3
    <3> QED
      BY <1>1, <3>1 DEF AnswerType, AmoPend
  <2> QED
    BY <2>2, <2>3
<1>5. CASE WriteMeta \/ WriteData \/ WritePush
  <2>1. wp'.pc # "read_resp" /\ wp.pc # "read_resp"
    <3>1. CASE WriteMeta
      BY <1>2, <3>1 DEF WriteMeta
    <3>2. CASE WriteData
      BY <1>2, <3>2 DEF WriteData
    <3>3. CASE WritePush
      BY <3>3 DEF WritePush
    <3> QED
      BY <1>5, <3>1, <3>2, <3>3
  <2> QED
    BY <1>1, <2>1 DEF AnswerType, AmoPend, WritePushRead
<1>6. CASE WritePushRead
  <2>1. wp.pc = "read_resp" /\ wp'.pc = "resp"
    BY <1>2, <1>6 DEF WritePushRead
  <2>2. ~AmoAway
    <3>1. ASSUME NEW k \in 1 .. Len(AddrQ), mem_is_amo(AddrQ[k].command) PROVE FALSE
      <4>1. AddrQ[k].id = UcId
        BY <3>1 DEF PairInv, Paired, Match
      <4>2. AddrQ[k].id # wp.req.id
        BY <2>1, QueueApart
      <4> QED
        BY <2>1, <4>1, <4>2 DEF AnswerType
    <3> QED
      BY <2>1, <3>1 DEF AmoAway
  <2>3. UNCHANGED <<rdBusy, rdReq, wrAddr, wrData, wrBusy>> /\ (AmoAway' => AmoAway)
    <3>1. UNCHANGED cacheVars
      BY <1>6, <2>1, WriteThread DEF MemWriteRun, WriteRun, MemWriteTake
    <3> QED
      BY <1>6, <3>1, RunPair, SamePair DEF cacheVars, chVars
  <2> QED
    BY <2>1, <2>2, <2>3 DEF AnswerType, AmoPend
<1> QED
  BY <1>3, <1>4, <1>5, <1>6, WriteThread DEF MemWriteTake


\* The responses are a sequence.
LEMMA StreamSeq ==
  ASSUME QueueType
  PROVE  IsSeq(RdShown) /\ IsSeq(readRespFifo) /\ IsSeq(Stream) /\ IsSeq(rdReq)
<1>1. IsSeq(RdShown)
  BY ShortSeq DEF RdShown
<1> QED
  BY <1>1, SeqCat DEF QueueType, Stream

\* What a step may do with the answer of an atomic.
OwedNext == AnswerType' /\ (AmoPend' => AmoPend \/ AmoSent)

\* No read goes on.
LEMMA IdleReads ==
  ASSUME ReadInv, OwedNext, UNCHANGED <<rdReq, rd, rdOut, readRespFifo>>, DOMAIN rdBusy' = DOMAIN rdBusy
  PROVE  ReadInv'
<1>1. QueueType' /\ Stream' = Stream /\ Pushed' = Pushed /\ rdReq' = rdReq
  BY DEF ReadInv, QueueType, Stream, RdShown, Pushed
<1>2. Owed' \subseteq Owed
  BY DEF OwedNext, AmoSent, Owed
<1>3. Once(rdReq, Stream, Pushed, Owed, DOMAIN rdBusy)
  BY DEF ReadInv
<1>4. Once(rdReq, Stream, Pushed, Owed', DOMAIN rdBusy)
  BY <1>2, <1>3, OnceFewer
<1> QED
  BY <1>1, <1>4 DEF ReadInv, OwedNext

\* The cache asks for a read with an identifier that is free.
LEMMA AskReads ==
  ASSUME ReadInv, OwedNext, UNCHANGED <<rd, rdOut, readRespFifo>>,
         NEW id, id \notin DOMAIN rdBusy, NEW addr, NEW size, NEW n, NEW command,
         SendRead(id, addr, size, n, command)
  PROVE  ReadInv'
<1> DEFINE x == [id |-> id, addr |-> addr, size |-> size, len |-> n, command |-> command]
<1>1. rdReq' = Append(rdReq, x) /\ x.id = id
  BY DEF SendRead
<1>2. DOMAIN rdBusy' = DOMAIN rdBusy \cup {id}
  BY PutDomain DEF SendRead
<1> HIDE DEF x
<1>3. /\ IsSeq(rdReq) /\ IsSeq(rdReq') /\ rdReq' # <<>> /\ rdReq' # rdReq
      /\ rdReq # <<>> => rdReq'[1] = rdReq[1]
  <2>1. IsSeq(rdReq)
    BY DEF ReadInv, QueueType
  <2>2. /\ IsSeq(rdReq') /\ rdReq' # <<>> /\ Len(rdReq) \in Nat /\ Len(rdReq') = Len(rdReq) + 1
        /\ \A i \in 1 .. Len(rdReq) : rdReq'[i] = rdReq[i]
    BY <1>1, <2>1, SeqAppend
  <2>3. rdReq # <<>> => 1 \in 1 .. Len(rdReq)
    BY <2>1, SeqTail
  <2>4. Len(rdReq') # Len(rdReq)
    BY <2>2
  <2> QED
    BY <2>1, <2>2, <2>3, <2>4
<1>4. QueueType' /\ Stream' = Stream /\ Pushed' = Pushed
  BY <1>3 DEF ReadInv, QueueType, Stream, RdShown, Pushed
<1>5. Owed' \subseteq Owed
  BY <1>3 DEF OwedNext, AmoSent, Owed
<1>6. Once(rdReq, Stream, Pushed, Owed', DOMAIN rdBusy)
  BY <1>5, OnceFewer DEF ReadInv
<1>7. Once(Append(rdReq, x), Stream, Pushed, Owed', DOMAIN rdBusy \cup {x.id})
  BY <1>1, <1>3, <1>6, OnceAsk
<1> QED
  BY <1>1, <1>2, <1>4, <1>7 DEF ReadInv, OwedNext

\* The cache sends an atomic.
LEMMA SentReads ==
  ASSUME ReadInv, OwedNext, UNCHANGED <<rdReq, rd, rdOut, readRespFifo>>,
         DOMAIN rdBusy = {}, DOMAIN rdBusy' = {UcId}
  PROVE  ReadInv'
<1>1. QueueType' /\ Stream' = Stream /\ Pushed' = Pushed /\ rdReq' = rdReq
  BY DEF ReadInv, QueueType, Stream, RdShown, Pushed
<1>2. Once(rdReq, Stream, Pushed, Owed, {})
  BY DEF ReadInv
<1>3. Owed' \subseteq {UcId}
  BY DEF Owed
<1>4. Once(rdReq, Stream, Pushed, Owed', {UcId})
  BY <1>2, <1>3, OnceSent
<1> QED
  BY <1>1, <1>4 DEF ReadInv, OwedNext

\* The thread of reads sees a request, then takes it.
LEMMA TakeReads ==
  ASSUME ReadInv, OwedNext, MemReadSee \/ MemReadTake
  PROVE  ReadInv'
<1>1. UNCHANGED <<rdOut, readRespFifo, rdBusy>>
  BY DEF MemReadSee, MemReadTake, ReadSee, ReadTake, respVars, cacheVars
<1>2. QueueType /\ IsSeq(rdReq) /\ Stream' = Stream
  BY <1>1 DEF ReadInv, QueueType, Stream, RdShown
<1>3. Owed' \subseteq Owed
  BY <1>1 DEF OwedNext, AmoSent, Owed
<1>4. Once(rdReq, Stream, Pushed, Owed', DOMAIN rdBusy)
  BY <1>3, OnceFewer DEF ReadInv
<1>5. CASE MemReadSee
  <2>1. /\ rdReq # <<>> /\ rd.pc = "idle" /\ UNCHANGED rdReq
        /\ rd' = [pc |-> "ready", req |-> Head(rdReq), beat |-> 0]
    BY <1>5 DEF MemReadSee, ReadSee, cacheVars, chVars
  <2>2. Head(rdReq) = rdReq[1]
    BY <1>2, <2>1, SeqTail
  <2>3. QueueType' /\ Pushed' = Pushed
    BY <1>1, <1>2, <2>1, <2>2 DEF QueueType, Pushed
  <2> QED
    BY <1>1, <1>2, <1>4, <2>1, <2>3 DEF ReadInv, OwedNext
<1>6. CASE MemReadTake
  <2>1. rd.pc = "ready" /\ rd' = [rd EXCEPT !.pc = "push"] /\ rdReq' = Tail(rdReq)
    BY <1>6 DEF MemReadTake, ReadTake
  <2>2. rdReq # <<>> /\ rd.req = rdReq[1] /\ rd'.pc = "push" /\ rd'.req = rd.req
        /\ DOMAIN rd' = {"pc", "req", "beat"}
    BY <1>2, <2>1 DEF QueueType
  <2>3. IsSeq(rdReq')
    BY <1>2, <2>1, <2>2, SeqTail
  <2>4. QueueType' /\ Pushed' = {rdReq[1].id} /\ Pushed = {}
    BY <1>1, <1>2, <2>1, <2>2, <2>3 DEF QueueType, Pushed
  <2>5. Once(Tail(rdReq), Stream, {rdReq[1].id}, Owed', DOMAIN rdBusy)
    BY <1>2, <1>4, <2>2, <2>4, OnceTake
  <2> QED
    BY <1>1, <1>2, <2>1, <2>4, <2>5 DEF ReadInv, OwedNext
<1> QED
  BY <1>5, <1>6

\* The thread of reads answers with a beat.
LEMMA PushReads ==
  ASSUME ReadInv, OwedNext, MemReadPush
  PROVE  ReadInv'
<1> DEFINE last == rd.beat = rd.req.len
<1>1. /\ UNCHANGED <<rdOut, rdBusy, rdReq>> /\ rd.pc = "push"
      /\ \E e, d : readRespFifo' = Append(readRespFifo, [id |-> rd.req.id, error |-> e, last |-> last, data |-> d])
      /\ rd' = IF last THEN [pc |-> "idle", req |-> None, beat |-> 0] ELSE [rd EXCEPT !.beat = @ + 1]
  BY DEF MemReadPush, ReadPush, cacheVars, chVars
<1>2. PICK e, d : readRespFifo' = Append(readRespFifo, [id |-> rd.req.id, error |-> e, last |-> last, data |-> d])
  BY <1>1
<1> DEFINE x == [id |-> rd.req.id, error |-> e, last |-> last, data |-> d]
<1>3. readRespFifo' = Append(readRespFifo, x) /\ x.id = rd.req.id /\ (x.last <=> last) /\ "id" \in DOMAIN x
  BY <1>2
<1>4. QueueType /\ IsSeq(readRespFifo) /\ IsSeq(RdShown) /\ IsSeq(Stream)
  BY StreamSeq DEF ReadInv
<1> HIDE DEF x
<1>5. Stream' = Append(Stream, x)
  <2>1. \A y : Cat(RdShown, Append(readRespFifo, y)) = Append(Cat(RdShown, readRespFifo), y)
    BY <1>4, CatAppend
  <2>2. Stream' = Cat(RdShown, Append(readRespFifo, x))
    BY <1>1, <1>3 DEF Stream, RdShown
  <2> QED
    BY <2>1, <2>2 DEF Stream
<1>6. Owed' \subseteq Owed
  BY <1>1 DEF OwedNext, AmoSent, Owed
<1> DEFINE i == rd.req.id
<1>7. Once(rdReq, Stream, {i}, Owed', DOMAIN rdBusy)
  BY <1>1, <1>6, OnceFewer DEF ReadInv, Pushed
<1>8. Once(rdReq, Append(Stream, x), IF x.last THEN {} ELSE {i}, Owed', DOMAIN rdBusy)
  BY <1>3, <1>4, <1>7, OncePush
<1>9. DOMAIN rd' = {"pc", "req", "beat"} /\ rd'.pc = (IF last THEN "idle" ELSE "push")
      /\ (~last => rd'.req = rd.req)
  BY <1>1, <1>4 DEF QueueType
<1>10. Pushed' = IF x.last THEN {} ELSE {i}
  BY <1>3, <1>9 DEF Pushed
<1>11. IsSeq(readRespFifo') /\ \A k \in 1 .. Len(readRespFifo') : "id" \in DOMAIN readRespFifo'[k]
  <2>1. /\ Len(readRespFifo') = Len(readRespFifo) + 1 /\ Len(readRespFifo) \in Nat
        /\ \A k \in 1 .. Len(readRespFifo) : readRespFifo'[k] = readRespFifo[k]
        /\ readRespFifo'[Len(readRespFifo) + 1] = x /\ IsSeq(readRespFifo')
    BY <1>3, <1>4, SeqAppend
  <2>2. \A k \in 1 .. Len(readRespFifo') : k \in 1 .. Len(readRespFifo) \/ k = Len(readRespFifo) + 1
    BY <2>1
  <2> QED
    BY <1>3, <1>4, <2>1, <2>2 DEF QueueType
<1>12. QueueType'
  BY <1>1, <1>4, <1>9, <1>11 DEF QueueType
<1> QED
  BY <1>1, <1>5, <1>8, <1>10, <1>12 DEF ReadInv, OwedNext

\* The oldest response is shown to the cache.
LEMMA ShowReads ==
  ASSUME NoneHasNoId, ReadInv, OwedNext, MemReadShow
  PROVE  ReadInv'
<1> DEFINE h == Head(readRespFifo)  t == Tail(readRespFifo)
<1>1. /\ UNCHANGED <<rd, rdBusy, rdReq>> /\ rdOut = None /\ readRespFifo # <<>>
      /\ rdOut' = h /\ readRespFifo' = t
  BY DEF MemReadShow, ReadRespShow, rdVars, cacheVars, chVars
<1>2. QueueType /\ IsSeq(readRespFifo)
  BY StreamSeq DEF ReadInv
<1>3. /\ IsSeq(t) /\ h = readRespFifo[1] /\ Len(readRespFifo) \in Nat \ {0} /\ Len(t) = Len(readRespFifo) - 1
      /\ \A k \in 1 .. Len(readRespFifo) - 1 : t[k] = readRespFifo[k + 1]
  BY <1>1, <1>2, SeqTail
<1>4. "id" \in DOMAIN h /\ h # None
  BY <1>2, <1>3 DEF QueueType, NoneHasNoId
<1> HIDE DEF t
<1>5. \A k \in 1 .. Len(t) : k + 1 \in 1 .. Len(readRespFifo) /\ t[k] = readRespFifo[k + 1]
  BY <1>3
<1>6. \A k \in 1 .. Len(t) : "id" \in DOMAIN t[k]
  BY <1>2, <1>5 DEF QueueType
<1>7. QueueType' /\ Pushed' = Pushed
  BY <1>1, <1>2, <1>3, <1>4, <1>6 DEF QueueType, Pushed
<1>8. Stream' = Stream
  <2>1. Stream = readRespFifo
    BY <1>1, <1>2, CatEmpty DEF Stream, RdShown
  <2>2. Stream' = Cat(<<h>>, t)
    BY <1>1, <1>4 DEF Stream, RdShown
  <2>3. readRespFifo = Cat(<<h>>, t)
    BY <1>1, <1>2, HeadCat DEF t
  <2> QED
    BY <2>1, <2>2, <2>3
<1>9. Owed' \subseteq Owed
  BY <1>1 DEF OwedNext, AmoSent, Owed
<1>10. Once(rdReq, Stream, Pushed, Owed', DOMAIN rdBusy)
  BY <1>9, OnceFewer DEF ReadInv
<1> QED
  BY <1>1, <1>7, <1>8, <1>10 DEF ReadInv, OwedNext

\* The response shown is the first of those on their way.
LEMMA StreamHead ==
  ASSUME QueueType, rdOut # None
  PROVE  /\ Stream # <<>> /\ Stream[1] = rdOut /\ Tail(Stream) = readRespFifo
         /\ Len(Stream) \in Nat \ {0} /\ 1 \in 1 .. Len(Stream)
<1> DEFINE o == <<rdOut>>
<1>1. IsSeq(o) /\ o # <<>> /\ o[1] = rdOut /\ Len(o) = 1
  BY ShortSeq
<1>2. Head(o) = rdOut /\ Tail(o) = <<>>
  OBVIOUS
<1> HIDE DEF o
<1>3. Stream = Cat(o, readRespFifo) /\ IsSeq(Stream) /\ IsSeq(readRespFifo)
  BY StreamSeq DEF Stream, RdShown, o
<1>4. Head(Stream) = rdOut /\ Tail(Stream) = Cat(<<>>, readRespFifo) /\ Stream # <<>>
  BY <1>1, <1>2, <1>3, CatHead
<1>5. Tail(Stream) = readRespFifo
  BY <1>3, <1>4, CatEmpty
<1>6. Head(Stream) = Stream[1] /\ Len(Stream) \in Nat \ {0}
  BY <1>3, <1>4, SeqTail
<1>7. 1 \in 1 .. Len(Stream)
  BY <1>6
<1> QED
  BY <1>4, <1>5, <1>6, <1>7

\* The cache takes the response that is shown.
LEMMA TakenReads ==
  ASSUME ReadInv, OwedNext, CacheTakesRead
  PROVE  ReadInv'
<1>1. rdOut # None /\ rdOut' = None /\ UNCHANGED <<rd, rdReq, readRespFifo>>
  BY DEF CacheTakesRead, ReadRespTaken, rdVars, ReadBeat, Refill, UncachedRead, chVars
<1>2. QueueType /\ IsSeq(Stream) /\ IsSeq(readRespFifo)
  BY StreamSeq DEF ReadInv
<1>3. Stream # <<>> /\ Stream[1] = rdOut /\ Tail(Stream) = readRespFifo
  BY <1>1, <1>2, StreamHead
<1>4. Stream' = Tail(Stream)
  BY <1>1, <1>2, <1>3, CatEmpty DEF Stream, RdShown
<1>5. QueueType' /\ Pushed' = Pushed
  BY <1>1, <1>2 DEF QueueType, Pushed
<1>6. DOMAIN rdBusy' = IF Stream[1].last THEN DOMAIN rdBusy \ {Stream[1].id} ELSE DOMAIN rdBusy
  <2>1. CASE ReadBeat(rdOut)
    BY <1>3, <2>1 DEF ReadBeat
  <2>2. CASE Refill(rdOut)
    BY <1>3, <2>2, DropDomain DEF Refill
  <2>3. CASE UncachedRead(rdOut)
    BY <1>3, <2>3, DropDomain DEF UncachedRead
  <2> QED
    BY <2>1, <2>2, <2>3 DEF CacheTakesRead
<1>7. Owed' \subseteq Owed
  <2>1. DOMAIN rdBusy' \subseteq DOMAIN rdBusy
    BY <1>6
  <2> QED
    BY <2>1 DEF OwedNext, AmoSent, Owed
<1>8. Once(rdReq, Stream, Pushed, Owed', DOMAIN rdBusy)
  BY <1>7, OnceFewer DEF ReadInv
<1>9. Once(rdReq, Tail(Stream), Pushed, Owed',
           IF Stream[1].last THEN DOMAIN rdBusy \ {Stream[1].id} ELSE DOMAIN rdBusy)
  BY <1>2, <1>3, <1>8, OnceTaken
<1> QED
  BY <1>1, <1>4, <1>5, <1>6, <1>9 DEF ReadInv, OwedNext

\* An atomic sends its old data.
LEMMA AnswerReads ==
  ASSUME LegalInv, OrderInv, BusyInv, ReadInv, OwedNext, ~AmoPend', WritePushRead, UNCHANGED cacheVars
  PROVE  ReadInv'
<1> DEFINE x == wp.rresp
<1>1. /\ wp.pc = "read_resp" /\ readRespFifo' = Append(readRespFifo, x)
      /\ UNCHANGED <<rdOut, rd, rdReq, rdBusy>>
  BY DEF WritePushRead, rdVars, cacheVars, chVars
<1>2. "id" \in DOMAIN x /\ x.id = UcId /\ x.last
  BY <1>1 DEF ReadInv, AnswerType
<1>3. QueueType /\ IsSeq(readRespFifo) /\ IsSeq(RdShown) /\ IsSeq(Stream)
  BY StreamSeq DEF ReadInv
<1> HIDE DEF x
<1>4. Stream' = Append(Stream, x)
  <2>1. \A y : Cat(RdShown, Append(readRespFifo, y)) = Append(Cat(RdShown, readRespFifo), y)
    BY <1>3, CatAppend
  <2>2. Stream' = Cat(RdShown, Append(readRespFifo, x))
    BY <1>1 DEF Stream, RdShown
  <2> QED
    BY <2>1, <2>2 DEF Stream
<1>5. IsSeq(readRespFifo') /\ \A k \in 1 .. Len(readRespFifo') : "id" \in DOMAIN readRespFifo'[k]
  <2>1. /\ Len(readRespFifo') = Len(readRespFifo) + 1 /\ Len(readRespFifo) \in Nat
        /\ \A k \in 1 .. Len(readRespFifo) : readRespFifo'[k] = readRespFifo[k]
        /\ readRespFifo'[Len(readRespFifo) + 1] = x /\ IsSeq(readRespFifo')
    BY <1>1, <1>3, SeqAppend
  <2>2. \A k \in 1 .. Len(readRespFifo') : k \in 1 .. Len(readRespFifo) \/ k = Len(readRespFifo) + 1
    BY <2>1
  <2> QED
    BY <1>2, <1>3, <2>1, <2>2 DEF QueueType
<1>6. QueueType' /\ Pushed' = Pushed
  BY <1>1, <1>3, <1>5 DEF QueueType, Pushed
<1>7. Owed = {UcId} /\ Owed' = {}
  BY <1>1 DEF Owed, AmoPend
<1>8. Once(rdReq, Stream, Pushed, {UcId}, DOMAIN rdBusy)
  BY <1>7 DEF ReadInv
<1>9. DOMAIN rdBusy \subseteq {UcId}
  <2>1. UcId \in DOMAIN rdBusy
    BY <1>8 DEF Once
  <2>2. UcWait
    BY <2>1 DEF BusyInv
  <2> QED
    BY <2>2, AloneOut
<1>10. Once(rdReq, Append(Stream, x), Pushed, {}, DOMAIN rdBusy)
  BY <1>2, <1>3, <1>8, <1>9, OnceAnswer
<1> QED
  BY <1>1, <1>4, <1>6, <1>7, <1>10 DEF ReadInv, OwedNext



----------------------------------------------------------------------------
(* The reservation                                                         *)

\* No write of the word is on its way and the cache holds no newer value.
Settled(w) == w \notin dirty /\ \A id \in DOMAIN wrBusy : w \notin wrBusy[id]

\* So it is with the word that is reserved, and while it is being reserved.
ReserveInv ==
  /\ DOMAIN rsrv = {"valid", "addr"}
  /\ rsrv.valid => rsrv.addr \in Words /\ Settled(rsrv.addr)
  /\ UcWait /\ cq[1].t.op = "LR" => Settled(cq[1].t.addr)

\* What the requests, the accesses that are out and the reservation agree on.
CoreInv == LegalInv /\ OrderInv /\ BusyInv /\ ReserveInv

\* Nothing that it is about changes, but writes and dirty words may go away.
LEMMA IdleCore ==
  ASSUME CoreInv, UNCHANGED <<cq, rdBusy, rsrv, kind, drv, sq>>, DOMAIN wrBusy' \subseteq DOMAIN wrBusy,
         \A id \in DOMAIN wrBusy' : wrBusy'[id] = wrBusy[id], dirty' \subseteq dirty
  PROVE  CoreInv'
<1>1. LegalInv' /\ OrderInv'
  BY DEF CoreInv, LegalInv, OrderInv, Waits, UcWait, FirstOfLine
<1>2. BusyInv'
  BY DEF CoreInv, BusyInv, IsFor, Waits, UcWait
<1>3. ReserveInv'
  BY DEF CoreInv, ReserveInv, Settled, UcWait, Waits
<1> QED
  BY <1>1, <1>2, <1>3 DEF CoreInv

\* The driver gets a request, or has none.
LEMMA DriveCore ==
  ASSUME CoreInv, UNCHANGED <<cq, rdBusy, wrBusy, rsrv, dirty>>, LegalInv'
  PROVE  CoreInv'
<1>1. OrderInv'
  BY DEF CoreInv, LegalInv, OrderInv, Waits, UcWait, FirstOfLine
<1>2. BusyInv'
  BY DEF CoreInv, BusyInv, IsFor, Waits, UcWait
<1>3. ReserveInv'
  BY DEF CoreInv, ReserveInv, Settled, UcWait, Waits
<1> QED
  BY <1>1, <1>2, <1>3 DEF CoreInv

\* The steps of the sequences keep the requests legal.
LEMMA SequenceLegal ==
  ASSUME LegalInv, SequenceStep \/ Simulate \/ CheckInflight \/ DriverFinish
  PROVE  LegalInv' /\ UNCHANGED <<cq, rdBusy, wrBusy, rsrv, dirty>>
<1>1. UNCHANGED cacheVars /\ kind' = kind
  BY DEF SequenceStep, SequenceMain, SequenceBetween, SequenceSc, SequenceStop, Send, Simulate,
         CheckInflight, DriverFinish, seqVars
<1>2. IsSeq(cq') /\ \A i \in 1 .. Len(cq') : IsEntry(kind', cq'[i])
  BY <1>1 DEF LegalInv, cacheVars
<1>8. UNCHANGED <<cq, rdBusy, wrBusy, rsrv, dirty>>
  BY <1>1 DEF cacheVars
<1>3. ASSUME NEW req, Legal(kind, req), Send(req)
      PROVE  DOMAIN drv' = {"pc", "t"} /\ (drv'.pc = "valid" => Legal(kind, drv'.t))
  <2>1. PICK id : drv' = [pc |-> "valid", t |-> Put(req, "tid", id)]
    BY <1>3 DEF Send
  <2>2. drv'.t = Put(req, "tid", id) /\ DOMAIN drv' = {"pc", "t"}
    BY <2>1
  <2> QED
    BY <1>3, <2>2, PutLegal
<1>4. CASE SequenceMain
  <2>1. PICK req \in Draws[kind] : DrawMain(req) /\ Send(req)
    BY <1>4 DEF SequenceMain
  <2>2. Legal(kind, req)
    BY DrawsLegal DEF LegalInv
  <2>3. PICK b \in IF req.op = "LR" THEN BOOLEAN ELSE {FALSE} :
           sq' = [n |-> sq.n + 1, lr |-> IF b THEN req ELSE None, left |-> IF b THEN len.between ELSE 0]
    BY <2>1, Zenon DEF DrawMain
  <2>5. b => req.op = "LR"
    OBVIOUS
  <2>6. DOMAIN sq' = {"n", "lr", "left"} /\ sq'.lr = IF b THEN req ELSE None
    BY <2>3
  <2>4. DOMAIN sq' = {"n", "lr", "left"} /\ (sq'.lr # None => sq'.lr = req /\ req.op = "LR")
    BY <2>5, <2>6
  <2> QED
    BY <1>1, <1>2, <1>3, <1>8, <2>1, <2>2, <2>4 DEF LegalInv
<1>5. CASE SequenceBetween
  <2>1. PICK req \in Draws[kind] : DrawBetween(req) /\ Send(req)
    BY <1>5 DEF SequenceBetween
  <2>2. Legal(kind, req)
    BY DrawsLegal DEF LegalInv
  <2>3. DOMAIN sq' = {"n", "lr", "left"} /\ sq'.lr = sq.lr
    BY <2>1 DEF DrawBetween, LegalInv
  <2> QED
    BY <1>1, <1>2, <1>3, <1>8, <2>1, <2>2, <2>3 DEF LegalInv
<1>6. CASE SequenceSc
  <2>1. PICK req \in ScReqs(sq.lr) : DrawSc(req) /\ Send(req)
    BY <1>6 DEF SequenceSc
  <2>2. Legal(kind, req)
    BY <1>6, ScLegal DEF LegalInv, SequenceSc
  <2>3. DOMAIN sq' = {"n", "lr", "left"} /\ sq'.lr = None
    BY <2>1 DEF DrawSc, LegalInv
  <2> QED
    BY <1>1, <1>2, <1>3, <1>8, <2>1, <2>2, <2>3 DEF LegalInv
<1>7. CASE SequenceStop \/ Simulate \/ CheckInflight \/ DriverFinish
  <2>1. sq' = sq
    BY <1>7 DEF SequenceStop, Simulate, CheckInflight, DriverFinish, seqVars
  <2>2. DOMAIN drv' = {"pc", "t"} /\ (drv'.pc = "valid" => drv' = drv)
    <3>1. CASE SequenceStop
      BY <3>1 DEF SequenceStop
    <3>2. CASE Simulate
      BY <3>2 DEF Simulate, LegalInv
    <3>3. CASE CheckInflight
      BY <3>3 DEF CheckInflight, LegalInv
    <3>4. CASE DriverFinish
      BY <3>4 DEF DriverFinish, LegalInv
    <3> QED
      BY <1>7, <3>1, <3>2, <3>3, <3>4
  <2> QED
    BY <1>1, <1>2, <1>8, <2>1, <2>2 DEF LegalInv
<1> QED
  BY <1>4, <1>5, <1>6, <1>7 DEF SequenceStep


\* A request leaves the cache, with the read that was for it if there is one.
LEMMA FinishCore ==
  ASSUME LegalInv, OrderInv, BusyInv, NEW i \in 1 .. Len(cq), cq' = RemoveAt(cq, i),
         UNCHANGED <<kind, drv, sq>>,
         UcId \notin DOMAIN wrBusy', DOMAIN rdBusy' \subseteq DOMAIN rdBusy,
         \A id \in DOMAIN rdBusy' : rdBusy'[id] = rdBusy[id] /\ id # UcId /\ ~IsFor(i, id)
  PROVE  LegalInv' /\ OrderInv' /\ BusyInv' /\ ~UcWait'
<1>1. /\ IsSeq(cq') /\ (\A k \in 1 .. Len(cq') : IsEntry(kind, cq'[k])) /\ OrderInv' /\ ~UcWait'
      /\ \A j \in 1 .. Len(cq) : j # i => \E k \in 1 .. Len(cq') : cq'[k] = cq[j]
  BY RemoveKeeps
<1>2. LegalInv'
  BY <1>1 DEF LegalInv
<1>3. ASSUME NEW id \in DOMAIN rdBusy'
      PROVE /\ DOMAIN rdBusy'[id] = {"addr", "values"} /\ id # UcId /\ id \in ReadIds
            /\ \E k \in 1 .. Len(cq') : IsFor(k, id)'
            /\ \A k \in DOMAIN rdBusy' : rdBusy'[k].addr = rdBusy'[id].addr => k = id
  <2>1. id \in DOMAIN rdBusy /\ rdBusy'[id] = rdBusy[id] /\ id # UcId /\ ~IsFor(i, id)
    OBVIOUS
  <2>2. PICK j \in 1 .. Len(cq) : IsFor(j, id)
    BY <2>1 DEF BusyInv
  <2>3. PICK k \in 1 .. Len(cq') : cq'[k] = cq[j]
    BY <1>1, <2>1, <2>2
  <2>4. IsFor(k, id)'
    BY <2>1, <2>2, <2>3 DEF IsFor, Waits, Fence
  <2>5. \A m \in DOMAIN rdBusy' : m \in DOMAIN rdBusy /\ rdBusy'[m] = rdBusy[m]
    OBVIOUS
  <2>6. \A m \in DOMAIN rdBusy' : rdBusy'[m].addr = rdBusy'[id].addr => m = id
    BY <2>1, <2>5 DEF BusyInv
  <2> QED
    BY <2>1, <2>4, <2>6 DEF BusyInv
<1>4. BusyInv'
  BY <1>3 DEF BusyInv
<1> QED
  BY <1>1, <1>2, <1>4

\* A request that is not a fence goes on, with a read that is for it or without
\* the one that was.
LEMMA ChangeCore ==
  ASSUME LegalInv, OrderInv, BusyInv, ~UcWait, NEW i \in 1 .. Len(cq), NEW e, IsEntry(kind, e), e.t = cq[i].t,
         ~Fence(e.t), e.pc = "wait" => FirstOfLine(i) /\ e.t.op \in {"LOAD", "PREFETCH", "STORE"},
         cq' = [cq EXCEPT ![i] = e], UNCHANGED <<kind, drv, sq>>,
         UcId \notin DOMAIN wrBusy',
         \A id \in DOMAIN rdBusy' :
           /\ id # UcId
           /\ \/ id \in DOMAIN rdBusy /\ rdBusy'[id] = rdBusy[id] /\ ~IsFor(i, id)
              \/ id \in ReadIds /\ DOMAIN rdBusy'[id] = {"addr", "values"} /\ e.pc = "wait"
                   /\ rdBusy'[id].addr = Base(e.t.addr)
           /\ \A k \in DOMAIN rdBusy' : rdBusy'[k].addr = rdBusy'[id].addr => k = id
  PROVE  LegalInv' /\ OrderInv' /\ BusyInv' /\ ~UcWait'
<1>1. /\ IsSeq(cq') /\ (\A k \in 1 .. Len(cq') : IsEntry(kind, cq'[k])) /\ OrderInv'
      /\ Len(cq) \in Nat /\ Len(cq') = Len(cq)
      /\ \A k \in 1 .. Len(cq) : cq'[k] = IF k = i THEN e ELSE cq[k]
  <2>1. e.pc = "wait" => IF Fence(e.t) THEN Len(cq) = 1 /\ UcOp(e.t)
                         ELSE FirstOfLine(i) /\ e.t.op \in {"LOAD", "PREFETCH", "STORE"}
    OBVIOUS
  <2> QED
    BY ONLY LegalInv, OrderInv, i \in 1 .. Len(cq), IsEntry(kind, e), e.t = cq[i].t,
            cq' = [cq EXCEPT ![i] = e], <2>1, ChangeKeeps
<1>2. LegalInv'
  BY <1>1 DEF LegalInv
<1>3. ASSUME NEW id \in DOMAIN rdBusy'
      PROVE /\ DOMAIN rdBusy'[id] = {"addr", "values"} /\ id # UcId /\ id \in ReadIds
            /\ \E k \in 1 .. Len(cq') : IsFor(k, id)'
            /\ \A k \in DOMAIN rdBusy' : rdBusy'[k].addr = rdBusy'[id].addr => k = id
  <2>1. CASE id \in DOMAIN rdBusy /\ rdBusy'[id] = rdBusy[id] /\ ~IsFor(i, id)
    <3>1. PICK j \in 1 .. Len(cq) : IsFor(j, id)
      BY <2>1 DEF BusyInv
    <3>2. j \in 1 .. Len(cq') /\ cq'[j] = cq[j]
      BY <1>1, <2>1, <3>1
    <3>3. IsFor(j, id)'
      BY <2>1, <3>1, <3>2 DEF IsFor, Waits, Fence
    <3> QED
      BY <2>1, <3>2, <3>3 DEF BusyInv
  <2>2. CASE id \in ReadIds /\ DOMAIN rdBusy'[id] = {"addr", "values"} /\ e.pc = "wait"
               /\ rdBusy'[id].addr = Base(e.t.addr)
    <3>1. i \in 1 .. Len(cq') /\ cq'[i] = e
      BY <1>1
    <3>2. IsFor(i, id)'
      BY <2>2, <3>1 DEF IsFor, Waits, Fence
    <3> QED
      BY <2>2, <3>1, <3>2
  <2> QED
    BY <2>1, <2>2
<1>4. BusyInv'
  BY <1>3 DEF BusyInv
<1>5. ~UcWait'
  <2>1. ASSUME UcWait' PROVE FALSE
    <3>1. Len(cq) = 1 /\ 1 \in 1 .. Len(cq) /\ cq'[1].pc = "wait" /\ UcOp(cq'[1].t)
      BY <1>1, <2>1 DEF UcWait, Waits, UcOp
    <3>2. Fence(cq'[1].t)
      BY <3>1, UcIsFence
    <3>3. cq'[1] = cq[1]
      BY <1>1, <3>1, <3>2
    <3> QED
      BY <3>1, <3>3 DEF UcWait, Waits
  <2> QED
    BY <2>1
<1> QED
  BY <1>1, <1>2, <1>4, <1>5

\* A request that may execute is not waiting, no uncached access is out, and no
\* read is for it.
LEMMA ExecutableFacts ==
  ASSUME CoreInv, NEW i \in 1 .. Len(cq), Executable(i)
  PROVE  /\ ~UcWait /\ ~Waits(i) /\ (\A id \in DOMAIN rdBusy : ~IsFor(i, id) /\ id # UcId)
         /\ UcId \notin DOMAIN wrBusy
         /\ IsEntry(kind, cq[i]) /\ Legal(kind, cq[i].t)
         /\ (~Fence(cq[i].t) => FirstOfLine(i)) /\ (Fence(cq[i].t) => Quiet /\ i = 1 /\ Len(cq) = 1)
<1>1. ~UcWait
  BY AloneOut DEF CoreInv
<1>2. UcId \notin DOMAIN rdBusy /\ UcId \notin DOMAIN wrBusy
  BY <1>1 DEF CoreInv, BusyInv
<1>3. ~Waits(i)
  BY DEF Executable, Waits
<1>4. IsEntry(kind, cq[i]) /\ Legal(kind, cq[i].t)
  BY DEF CoreInv, LegalInv, IsEntry
<1>5. (~Fence(cq[i].t) => FirstOfLine(i)) /\ (Fence(cq[i].t) => Quiet /\ i = 1)
  BY DEF Executable
<1>6. Fence(cq[i].t) => i = Len(cq)
  BY DEF CoreInv, OrderInv
<1> QED
  BY <1>1, <1>2, <1>3, <1>4, <1>5, <1>6 DEF IsFor


\* A request that is over at once.
LEMMA HitCore ==
  ASSUME CoreInv, NEW i \in 1 .. Len(cq), LoadHit(i) \/ CmoDone(i) \/ ScFail(i) \/ Store(i),
         UNCHANGED <<kind, drv, sq>>
  PROVE  CoreInv'
<1> DEFINE t == cq[i].t
<1>1. Executable(i) /\ cq' = RemoveAt(cq, i) /\ UNCHANGED rdBusy
  BY DEF LoadHit, CmoDone, ScFail, Store, Finish, chVars
<1>2. /\ ~UcWait /\ ~Waits(i) /\ (\A id \in DOMAIN rdBusy : ~IsFor(i, id) /\ id # UcId)
      /\ UcId \notin DOMAIN wrBusy
  BY <1>1, ExecutableFacts
<1>3. \/ wrBusy' = wrBusy /\ (dirty' \subseteq dirty \/ (Store(i) /\ dirty' = dirty \cup {t.addr}))
      \/ /\ Store(i) /\ dirty' = dirty /\ FreeId(WriteIds, wrBusy)
         /\ wrBusy' = Put(wrBusy, NextId(WriteIds, wrBusy), DOMAIN StoreData(t))
  <2>1. CASE LoadHit(i)
    BY <2>1 DEF LoadHit
  <2>2. CASE CmoDone(i)
    BY <2>2 DEF CmoDone
  <2>3. CASE ScFail(i)
    BY <2>3 DEF ScFail
  <2>4. CASE Store(i)
    BY <2>4 DEF Store, SendWrite
  <2> QED
    BY <2>1, <2>2, <2>3, <2>4
<1>4. \/ rsrv' = rsrv /\ ~Store(i)
      \/ rsrv' = [rsrv EXCEPT !.valid = FALSE] /\ ~Store(i)
      \/ Store(i) /\ rsrv' = [rsrv EXCEPT !.valid = rsrv.valid /\ rsrv.addr # t.addr]
  <2>1. CASE Store(i)
    BY <2>1 DEF Store, Snooped
  <2>2. CASE ~Store(i)
    BY <2>2 DEF LoadHit, CmoDone, ScFail
  <2> QED
    BY <2>1, <2>2
<1>5. DOMAIN rsrv' = {"valid", "addr"} /\ rsrv'.addr = rsrv.addr
      /\ (rsrv'.valid => rsrv.valid /\ (Store(i) => rsrv.addr # t.addr))
  <2>1. DOMAIN rsrv = {"valid", "addr"}
    BY DEF CoreInv, ReserveInv
  <2>2. CASE rsrv' = rsrv /\ ~Store(i)
    BY <2>1, <2>2
  <2>3. CASE rsrv' = [rsrv EXCEPT !.valid = FALSE] /\ ~Store(i)
    BY <2>1, <2>3
  <2>4. CASE Store(i) /\ rsrv' = [rsrv EXCEPT !.valid = rsrv.valid /\ rsrv.addr # t.addr]
    BY <2>1, <2>4
  <2> QED
    BY <1>4, <2>2, <2>3, <2>4
<1>6. FreeId(WriteIds, wrBusy) => NextId(WriteIds, wrBusy) \in WriteIds \ DOMAIN wrBusy
  BY DEF FreeId, NextId
<1>7. UcId \notin DOMAIN wrBusy'
  <2>1. FreeId(WriteIds, wrBusy) => UcId # NextId(WriteIds, wrBusy)
    BY <1>6, TestBenchAssumption
  <2>2. wrBusy' = wrBusy \/ (FreeId(WriteIds, wrBusy) /\ DOMAIN wrBusy' = DOMAIN wrBusy \cup {NextId(WriteIds, wrBusy)})
    BY <1>3, PutDomain
  <2> QED
    BY <1>2, <2>1, <2>2
<1>8. LegalInv' /\ OrderInv' /\ BusyInv' /\ ~UcWait'
  BY <1>1, <1>2, <1>7, FinishCore DEF CoreInv
<1>9. ASSUME NEW w, Settled(w), Store(i) => w # t.addr
      PROVE  w \notin dirty' /\ \A id \in DOMAIN wrBusy' : w \notin wrBusy'[id]
  <2>1. w \notin dirty'
    BY <1>3, <1>9 DEF Settled
  <2>2. CASE wrBusy' = wrBusy
    BY <1>9, <2>1, <2>2 DEF Settled
  <2>3. CASE /\ Store(i)
             /\ wrBusy' = Put(wrBusy, NextId(WriteIds, wrBusy), DOMAIN StoreData(t))
    <3> DEFINE id == NextId(WriteIds, wrBusy)
    <3>1. DOMAIN StoreData(t) \subseteq {t.addr}
      BY DEF StoreData, OneWord
    <3>2. wrBusy' = [k \in DOMAIN wrBusy \cup {id} |-> IF k = id THEN DOMAIN StoreData(t) ELSE wrBusy[k]]
      BY <2>3 DEF Put
    <3> HIDE DEF id
    <3>3. ASSUME NEW k \in DOMAIN wrBusy' PROVE w \notin wrBusy'[k]
      BY <1>9, <2>3, <3>1, <3>2 DEF Settled
    <3> QED
      BY <2>1, <3>3 DEF Settled
  <2> QED
    BY <1>3, <2>2, <2>3
<1>10. ASSUME rsrv'.valid
       PROVE  rsrv'.addr \notin dirty' /\ \A id \in DOMAIN wrBusy' : rsrv'.addr \notin wrBusy'[id]
  <2>1. Settled(rsrv.addr) /\ (Store(i) => rsrv.addr # t.addr)
    BY <1>5, <1>10 DEF CoreInv, ReserveInv
  <2> QED
    BY <1>5, <1>9, <2>1
<1> QED
  BY <1>5, <1>8, <1>10 DEF CoreInv, ReserveInv, Settled


\* The cache accepts a request.
LEMMA AcceptCore ==
  ASSUME CoreInv, DriveRequest
  PROVE  CoreInv'
<1> DEFINE e == [t |-> drv.t, pc |-> "new", old |-> None, err |-> FALSE]
<1>1. /\ CanAccept /\ cq' = Append(cq, e) /\ drv.pc = "valid" /\ drv' = [pc |-> "idle", t |-> None]
      /\ UNCHANGED <<dirty, rsrv, rdBusy, wrBusy, kind, sq>>
  BY DEF DriveRequest, Accept, seqVars
<1>2. IsEntry(kind, e) /\ e.pc = "new"
  BY <1>1 DEF IsEntry, CoreInv, LegalInv
<1> HIDE DEF e
<1>3. /\ IsSeq(cq') /\ (\A k \in 1 .. Len(cq') : IsEntry(kind, cq'[k]))
      /\ OrderInv' /\ ~UcWait' /\ ~UcWait
      /\ Len(cq) \in Nat /\ Len(cq') = Len(cq) + 1
      /\ \A k \in 1 .. Len(cq) : cq'[k] = cq[k]
  BY <1>1, <1>2, AppendKeeps DEF CoreInv
<1>4. LegalInv'
  BY <1>1, <1>3 DEF CoreInv, LegalInv
<1>5. UcId \notin DOMAIN rdBusy /\ UcId \notin DOMAIN wrBusy
  BY <1>3 DEF CoreInv, BusyInv
<1>6. ASSUME NEW id \in DOMAIN rdBusy PROVE \E k \in 1 .. Len(cq') : IsFor(k, id)'
  <2>1. PICK j \in 1 .. Len(cq) : IsFor(j, id)
    BY <1>5, <1>6 DEF CoreInv, BusyInv
  <2>2. j \in 1 .. Len(cq') /\ cq'[j] = cq[j]
    BY <1>3
  <2>3. IsFor(j, id)'
    BY <1>1, <2>1, <2>2 DEF IsFor, Waits, Fence
  <2> QED
    BY <2>2, <2>3
<1>7. BusyInv'
  BY <1>1, <1>5, <1>6 DEF CoreInv, BusyInv
<1>8. ReserveInv'
  BY <1>1, <1>3 DEF CoreInv, ReserveInv, Settled
<1> QED
  BY <1>3, <1>4, <1>7, <1>8 DEF CoreInv

\* A request that misses.
LEMMA MissCore ==
  ASSUME CoreInv, NEW i \in 1 .. Len(cq), Miss(i), UNCHANGED <<kind, drv, sq>>
  PROVE  CoreInv'
<1> DEFINE t == cq[i].t  id == NextId(ReadIds, rdBusy)  e == [cq[i] EXCEPT !.pc = "wait"]
           b == [addr |-> Base(t.addr), values |-> <<>>]
<1>1. /\ Executable(i) /\ ~t.uncacheable /\ t.op \in {"LOAD", "PREFETCH", "STORE"}
      /\ FreeId(ReadIds, rdBusy) /\ rdBusy' = Put(rdBusy, id, b)
      /\ cq' = [cq EXCEPT ![i] = e]
      /\ UNCHANGED <<dirty, rsrv, wrBusy>>
  BY DEF Miss, SendRead, is_store
<1>2. /\ ~UcWait /\ ~Waits(i) /\ (\A k \in DOMAIN rdBusy : ~IsFor(i, k) /\ k # UcId)
      /\ UcId \notin DOMAIN wrBusy
      /\ IsEntry(kind, cq[i])
      /\ (~Fence(cq[i].t) => FirstOfLine(i))
  BY <1>1, ExecutableFacts
<1>3. ~Fence(t) /\ FirstOfLine(i)
  <2>1. ~Fence(t)
    BY <1>1 DEF Fence, Atomic, is_amo, AmoOps, Inval, Flush
  <2> QED
    BY <1>2, <2>1
<1>4. IsEntry(kind, e) /\ e.t = cq[i].t /\ e.pc = "wait"
  BY <1>2 DEF IsEntry
<1>5. id \in ReadIds /\ id \notin DOMAIN rdBusy /\ id # UcId
  BY <1>1, TestBenchAssumption DEF FreeId, NextId
<1>6. ASSUME NEW k \in DOMAIN rdBusy PROVE rdBusy[k].addr # Base(t.addr)
  <2>1. PICK j \in 1 .. Len(cq) : IsFor(j, k)
    BY <1>2 DEF CoreInv, BusyInv
  <2>2. j # i /\ Waits(j) /\ FirstOfLine(j) /\ rdBusy[k].addr = Base(cq[j].t.addr)
    BY <1>2, <2>1 DEF IsFor, CoreInv, OrderInv
  <2>3. t.addr \in Words /\ cq[j].t.addr \in Words
    BY DEF CoreInv, LegalInv, IsEntry, Legal
  <2>4. get_nline(Base(t.addr)) = get_nline(t.addr) /\ get_nline(Base(cq[j].t.addr)) = get_nline(cq[j].t.addr)
    BY <2>3, BaseOfLine
  <2>5. get_nline(t.addr) # get_nline(cq[j].t.addr)
    <3>1. CASE j < i
      <4>1. j \in 1 .. i - 1
        BY <3>1
      <4> QED
        BY <1>3, <4>1 DEF FirstOfLine
    <3>2. CASE i < j
      <4>1. i \in 1 .. j - 1
        BY <3>2
      <4> QED
        BY <2>2, <4>1 DEF FirstOfLine
    <3> QED
      BY <2>2, <3>1, <3>2
  <2> QED
    BY <2>2, <2>4, <2>5
<1>7. /\ b.addr = Base(t.addr) /\ DOMAIN b = {"addr", "values"}
      /\ DOMAIN rdBusy' = DOMAIN rdBusy \cup {id} /\ rdBusy'[id] = b
      /\ \A k \in DOMAIN rdBusy : rdBusy'[k] = rdBusy[k]
  BY <1>1, <1>5 DEF Put
<1> HIDE DEF id, e, b
<1>8. \A k \in DOMAIN rdBusy' :
        /\ k # UcId
        /\ \/ k \in DOMAIN rdBusy /\ rdBusy'[k] = rdBusy[k] /\ ~IsFor(i, k)
           \/ k \in ReadIds /\ DOMAIN rdBusy'[k] = {"addr", "values"} /\ e.pc = "wait"
                /\ rdBusy'[k].addr = Base(e.t.addr)
        /\ \A m \in DOMAIN rdBusy' : rdBusy'[m].addr = rdBusy'[k].addr => m = k
  <2>1. ASSUME NEW k \in DOMAIN rdBusy', NEW m \in DOMAIN rdBusy', rdBusy'[m].addr = rdBusy'[k].addr
        PROVE  m = k
    <3>1. CASE k \in DOMAIN rdBusy /\ m \in DOMAIN rdBusy
      BY <1>7, <2>1, <3>1 DEF CoreInv, BusyInv
    <3>2. CASE k = id /\ m \in DOMAIN rdBusy
      BY <1>6, <1>7, <2>1, <3>2
    <3>3. CASE m = id /\ k \in DOMAIN rdBusy
      BY <1>6, <1>7, <2>1, <3>3
    <3> QED
      BY <1>7, <3>1, <3>2, <3>3
  <2> QED
    BY <1>2, <1>4, <1>5, <1>7, <2>1
<1>9. UcId \notin DOMAIN wrBusy' /\ ~Fence(e.t)
      /\ (e.pc = "wait" => FirstOfLine(i) /\ e.t.op \in {"LOAD", "PREFETCH", "STORE"})
  BY <1>1, <1>2, <1>3, <1>4
<1>10. LegalInv' /\ OrderInv' /\ BusyInv' /\ ~UcWait'
  BY <1>1, <1>2, <1>4, <1>8, <1>9, ChangeCore DEF CoreInv
<1> QED
  BY <1>1, <1>10 DEF CoreInv, ReserveInv, Settled

\* The dirty words of a line are sent to memory.
LEMMA FlushCore ==
  ASSUME CoreInv, NEW a, FlushLine(a), UNCHANGED <<kind, drv, sq>>
  PROVE  CoreInv'
<1> DEFINE ws == dirty \cap Line(a)  data == [w \in ws |-> cached[w]]  id == NextId(WriteIds, wrBusy)
<1>1. /\ FreeId(WriteIds, wrBusy) /\ wrBusy' = Put(wrBusy, id, DOMAIN data)
      /\ dirty' = dirty \ ws /\ UNCHANGED <<cq, rsrv, rdBusy>>
  BY DEF FlushLine, SendWrite
<1>2. id \in WriteIds /\ id # UcId
  BY <1>1, TestBenchAssumption DEF FreeId, NextId
<1>3. wrBusy' = [k \in DOMAIN wrBusy \cup {id} |-> IF k = id THEN ws ELSE wrBusy[k]]
  BY <1>1 DEF Put
<1> HIDE DEF id, data
<1>4. ASSUME NEW w, Settled(w)
      PROVE  w \notin dirty' /\ \A k \in DOMAIN wrBusy' : w \notin wrBusy'[k]
  <2>1. w \notin ws /\ w \notin dirty'
    BY <1>1, <1>4 DEF Settled
  <2>2. ASSUME NEW k \in DOMAIN wrBusy' PROVE w \notin wrBusy'[k]
    BY <1>3, <1>4, <2>1 DEF Settled
  <2> QED
    BY <2>1, <2>2
<1> HIDE DEF ws
<1>5. LegalInv' /\ OrderInv'
  BY <1>1 DEF CoreInv, LegalInv, OrderInv, Waits, UcWait, FirstOfLine
<1>6. BusyInv'
  BY <1>1, <1>2, <1>3 DEF CoreInv, BusyInv, IsFor, Waits, UcWait
<1>7. UcWait' => UcWait
  BY <1>1 DEF UcWait, Waits
<1>8. rsrv'.valid => rsrv'.addr \notin dirty' /\ \A k \in DOMAIN wrBusy' : rsrv'.addr \notin wrBusy'[k]
  BY <1>1, <1>4 DEF CoreInv, ReserveInv
<1>9. UcWait' /\ cq'[1].t.op = "LR" => cq'[1].t.addr \notin dirty' /\ \A k \in DOMAIN wrBusy' : cq'[1].t.addr \notin wrBusy'[k]
  BY <1>1, <1>4, <1>7 DEF CoreInv, ReserveInv
<1>10. ReserveInv'
  BY <1>1, <1>8, <1>9 DEF CoreInv, ReserveInv, Settled
<1> QED
  BY <1>5, <1>6, <1>10 DEF CoreInv


\* The request that is alone in the cache waits for an uncached access.
LEMMA AloneChange ==
  ASSUME LegalInv, OrderInv, Len(cq) = 1, NEW e, IsEntry(kind, e), e.t = cq[1].t, e.pc = "wait",
         UcOp(e.t), cq' = [cq EXCEPT ![1] = e], UNCHANGED <<kind, drv, sq>>
  PROVE  LegalInv' /\ OrderInv' /\ UcWait' /\ cq'[1] = e
<1>1. PICK i \in 1 .. Len(cq) : i = 1
  OBVIOUS
<1>2. e.pc = "wait" => IF Fence(e.t) THEN Len(cq) = 1 /\ UcOp(e.t)
                       ELSE FirstOfLine(i) /\ e.t.op \in {"LOAD", "PREFETCH", "STORE"}
  BY UcIsFence
<1>6. e.t = cq[i].t /\ cq' = [cq EXCEPT ![i] = e]
  BY <1>1
<1>3. /\ IsSeq(cq') /\ (\A k \in 1 .. Len(cq') : IsEntry(kind, cq'[k]))
      /\ OrderInv' /\ Len(cq) \in Nat /\ Len(cq') = Len(cq)
      /\ \A k \in 1 .. Len(cq) : cq'[k] = IF k = i THEN e ELSE cq[k]
  BY ONLY LegalInv, OrderInv, i \in 1 .. Len(cq), IsEntry(kind, e), <1>6, <1>2, ChangeKeeps
<1>4. LegalInv'
  BY <1>3 DEF LegalInv
<1>5. cq'[1] = e /\ Len(cq') = 1
  BY <1>1, <1>3
<1> QED
  BY <1>3, <1>4, <1>5 DEF UcWait, Waits, UcOp

\* An uncached access or an atomic is sent.
LEMMA UncachedCore ==
  ASSUME CoreInv, NEW i \in 1 .. Len(cq), Uncached(i), UNCHANGED <<kind, drv, sq>>
  PROVE  CoreInv' /\ rdBusy = <<>> /\ wrBusy = <<>>
<1> DEFINE t == cq[i].t  e == [cq[i] EXCEPT !.pc = "wait"]
           b == [addr |-> t.addr, values |-> <<>>]
<1>1. /\ Executable(i) /\ UcOp(t) /\ dirty \cap Line(t.addr) = {}
      /\ cq' = [cq EXCEPT ![i] = e] /\ UNCHANGED dirty
      /\ (t.op = "SC" => Reserved(t))
  BY DEF Uncached, UcOp
<1>2. Fence(t)
  BY <1>1, UcIsFence
<1>3. rdBusy = <<>> /\ wrBusy = <<>> /\ i = 1 /\ Len(cq) = 1 /\ IsEntry(kind, cq[i]) /\ Legal(kind, t)
  BY <1>1, <1>2, ExecutableFacts DEF Quiet
<1>4. IsEntry(kind, e) /\ e.t = t /\ e.pc = "wait"
  BY <1>3 DEF IsEntry
<1>5. t.op \in {"LOAD", "STORE", "LR", "SC"} \cup AmoOps
  BY <1>1, <1>3 DEF UcOp, Legal, Atomic, is_amo, is_cmo, ReqOps
<1>6. \/ t.op \in {"LOAD", "LR"} /\ rdBusy' = Put(rdBusy, UcId, b) /\ UNCHANGED wrBusy
      \/ /\ t.op \in {"STORE", "SC"} /\ UNCHANGED rdBusy
         /\ wrBusy' = Put(wrBusy, UcId, DOMAIN StoreData(t))
      \/ /\ t.op \in AmoOps /\ rdBusy' = Put(rdBusy, UcId, b)
         /\ wrBusy' = Put(wrBusy, UcId, DOMAIN OneWord(t.addr, mem_operand(t.op, t.data)))
  <2>1. CASE t.op \in {"LOAD", "LR"}
    BY <2>1 DEF Uncached, SendRead
  <2>2. CASE t.op \in {"STORE", "SC"}
    BY <2>2 DEF Uncached, SendWrite
  <2>3. CASE t.op \notin {"LOAD", "LR"} /\ t.op \notin {"STORE", "SC"}
    BY <1>5, <2>3 DEF Uncached, SendWrite
  <2> QED
    BY <2>1, <2>2, <2>3
<1>7. DOMAIN StoreData(t) \subseteq {t.addr} /\ DOMAIN OneWord(t.addr, mem_operand(t.op, t.data)) \subseteq {t.addr}
  BY DEF StoreData, OneWord
<1>8. DOMAIN rdBusy = {} /\ DOMAIN wrBusy = {}
  BY <1>3
<1> HIDE DEF e, b
<1>10. LegalInv' /\ OrderInv' /\ UcWait' /\ cq'[1] = e
  <2>1. Len(cq) = 1 /\ e.t = cq[1].t /\ UcOp(e.t) /\ cq' = [cq EXCEPT ![1] = e]
    BY <1>1, <1>3, <1>4
  <2>2. LegalInv /\ OrderInv
    BY DEF CoreInv
  <2> QED
    BY ONLY <1>4, <2>1, <2>2, UNCHANGED <<kind, drv, sq>>, AloneChange
<1>12. /\ DOMAIN rdBusy' \subseteq {UcId} /\ \A id \in DOMAIN rdBusy' : rdBusy'[id] = b
       /\ DOMAIN wrBusy' \subseteq {UcId} /\ \A id \in DOMAIN wrBusy' : wrBusy'[id] \subseteq {t.addr}
       /\ UcId \in DOMAIN rdBusy' => t.op \in {"LOAD", "LR"} \cup AmoOps
       /\ UcId \in DOMAIN wrBusy' => t.op \in {"STORE", "SC"} \cup AmoOps
  <2>1. CASE t.op \in {"LOAD", "LR"} /\ rdBusy' = Put(rdBusy, UcId, b) /\ UNCHANGED wrBusy
    BY <1>8, <2>1 DEF Put
  <2>2. CASE /\ t.op \in {"STORE", "SC"} /\ UNCHANGED rdBusy
             /\ wrBusy' = Put(wrBusy, UcId, DOMAIN StoreData(t))
    BY <1>7, <1>8, <2>2 DEF Put
  <2>3. CASE /\ t.op \in AmoOps /\ rdBusy' = Put(rdBusy, UcId, b)
             /\ wrBusy' = Put(wrBusy, UcId, DOMAIN OneWord(t.addr, mem_operand(t.op, t.data)))
    BY <1>7, <1>8, <2>3 DEF Put
  <2> QED
    BY <1>6, <2>1, <2>2, <2>3
<1>13. BusyInv'
  <2>1. b.addr = t.addr /\ DOMAIN b = {"addr", "values"}
    BY DEF b
  <2> QED
    BY <1>4, <1>10, <1>12, <2>1 DEF BusyInv
<1>14. DOMAIN rsrv' = {"valid", "addr"} /\ rsrv'.addr = rsrv.addr
       /\ (rsrv'.valid => rsrv.valid /\ (t.op \in {"LOAD", "LR"} \/ rsrv.addr # t.addr))
  <2>1. rsrv' = [rsrv EXCEPT !.valid = rsrv.valid /\ (t.op = "LOAD" \/ t.op = "LR" \/ ~Reserved(t))]
    BY DEF Uncached
  <2>2. DOMAIN rsrv = {"valid", "addr"}
    BY DEF CoreInv, ReserveInv
  <2>3. DOMAIN rsrv' = {"valid", "addr"} /\ rsrv'.addr = rsrv.addr
        /\ (rsrv'.valid <=> rsrv.valid /\ (t.op = "LOAD" \/ t.op = "LR" \/ ~Reserved(t)))
    BY <2>1, <2>2
  <2> QED
    BY <2>3 DEF Reserved
<1>15. t.op \in {"LOAD", "LR"} => DOMAIN wrBusy' = {}
  <2>1. "LOAD" \notin AmoOps /\ "LR" \notin AmoOps
    BY DEF AmoOps
  <2> QED
    BY <1>12, <2>1
<1>16. rsrv'.valid => rsrv'.addr \notin dirty' /\ \A id \in DOMAIN wrBusy' : rsrv'.addr \notin wrBusy'[id]
  <2>1. rsrv.valid => rsrv.addr \notin dirty
    BY DEF CoreInv, ReserveInv, Settled
  <2> QED
    BY <1>1, <1>12, <1>14, <1>15, <2>1
<1>17. t.op = "LR" => t.addr \notin dirty' /\ DOMAIN wrBusy' = {}
  <2>1. t.addr \in Line(t.addr)
    BY <1>3, BaseOfLine DEF Legal
  <2> QED
    BY <1>1, <1>15, <2>1
<1>18. ReserveInv'
  <2>1. rsrv.valid => rsrv.addr \in Words
    BY DEF CoreInv, ReserveInv
  <2>2. rsrv'.valid => rsrv'.addr \in Words
    BY <1>14, <2>1
  <2> QED
    BY <1>4, <1>10, <1>14, <1>16, <1>17, <2>2 DEF ReserveInv, Settled
<1> QED
  BY <1>3, <1>10, <1>13, <1>18 DEF CoreInv


\* A write that is performed or whose response is shown is out.
LEMMA PartsBusy ==
  ASSUME PathInv
  PROVE  Elements(OutIds) \subseteq DOMAIN wrBusy /\ Elements(RunIds) \subseteq DOMAIN wrBusy
<1> DEFINE a == OutIds  b == FlitIds(writeRespFifo)  c == RunIds
           d == FlitIds(writeReqFifo)  e == FlitIds(Shown)
<1>1. a \in Seq(WId) /\ b \in Seq(WId) /\ c \in Seq(WId) /\ d \in Seq(WId) /\ e \in Seq(WId)
  BY PathFacts DEF PathInv
<1>2. Elements(Chain(a, b, c, d, e)) = DOMAIN wrBusy
  BY DEF PathInv, Track
<1> HIDE DEF a, b, c, d, e
<1>3. \A p, q \in Seq(WId) : Cat(p, q) \in Seq(WId) /\ Elements(Cat(p, q)) = Elements(p) \cup Elements(q)
  BY CatLaws
<1>4. Cat(a, b) \in Seq(WId) /\ Elements(a) \subseteq Elements(Cat(a, b))
  BY <1>1, <1>3
<1>5. /\ Cat(Cat(a, b), c) \in Seq(WId)
      /\ Elements(a) \cup Elements(c) \subseteq Elements(Cat(Cat(a, b), c))
  BY <1>1, <1>3, <1>4
<1>6. /\ Cat(Cat(Cat(a, b), c), d) \in Seq(WId)
      /\ Elements(a) \cup Elements(c) \subseteq Elements(Cat(Cat(Cat(a, b), c), d))
  BY <1>1, <1>3, <1>5
<1>7. Elements(a) \cup Elements(c) \subseteq Elements(Chain(a, b, c, d, e))
  BY <1>1, <1>3, <1>6 DEF Chain
<1> QED
  BY <1>2, <1>7 DEF a, c

\* A response of either channel is to an access that is out.
LEMMA ShownBusy ==
  /\ ReadInv /\ rdOut # None => rdOut.id \in DOMAIN rdBusy
  /\ PathInv /\ wrOut # None => wrOut.id \in DOMAIN wrBusy
<1>1. ASSUME ReadInv, rdOut # None PROVE rdOut.id \in DOMAIN rdBusy
  <2>1. Stream[1] = rdOut /\ 1 \in 1 .. Len(Stream)
    BY <1>1, StreamHead DEF ReadInv
  <2> QED
    BY <1>1, <2>1 DEF ReadInv, Once
<1>2. ASSUME PathInv, wrOut # None PROVE wrOut.id \in DOMAIN wrBusy
  <2>1. wrOut.id \in WId
    BY <1>2, RespIsNot DEF PathInv, PathType
  <2>2. wrOut.id \in Elements(OutIds)
    BY <1>2, <2>1, OneElement DEF OutIds
  <2> QED
    BY <1>2, <2>2, PartsBusy
<1> QED
  BY <1>1, <1>2

\* A beat of a read response.
LEMMA BeatCore ==
  ASSUME CoreInv, rdOut.id \in DOMAIN rdBusy, ReadBeat(rdOut), UNCHANGED <<kind, drv, sq>>
  PROVE  CoreInv'
<1>1. rdBusy' = [rdBusy EXCEPT ![rdOut.id].values = @ \o rdOut.data] /\ UNCHANGED <<cq, dirty, rsrv, wrBusy>>
  BY DEF ReadBeat
<1>2. ASSUME NEW id \in DOMAIN rdBusy
      PROVE  DOMAIN rdBusy'[id] = {"addr", "values"} /\ rdBusy'[id].addr = rdBusy[id].addr
  <2>1. DOMAIN rdBusy[id] = {"addr", "values"}
    BY DEF CoreInv, BusyInv
  <2> QED
    BY <1>1, <2>1
<1>3. DOMAIN rdBusy' = DOMAIN rdBusy
  BY <1>1
<1>4. LegalInv' /\ OrderInv'
  BY <1>1 DEF CoreInv, LegalInv, OrderInv, Waits, UcWait, FirstOfLine
<1>5. BusyInv'
  BY <1>1, <1>2, <1>3 DEF CoreInv, BusyInv, IsFor, Waits, UcWait
<1>6. ReserveInv'
  BY <1>1 DEF CoreInv, ReserveInv, Settled, UcWait, Waits
<1> QED
  BY <1>4, <1>5, <1>6 DEF CoreInv

\* Nothing is written and no reservation is made, and no uncached access is out
\* after the step.
LEMMA KeepReserve ==
  ASSUME ReserveInv, UNCHANGED <<rsrv, dirty>>, DOMAIN wrBusy' \subseteq DOMAIN wrBusy,
         \A id \in DOMAIN wrBusy' : wrBusy'[id] = wrBusy[id], ~UcWait'
  PROVE  ReserveInv'
BY DEF ReserveInv, Settled

\* A line arrives.
LEMMA RefillCore ==
  ASSUME CoreInv, rdOut.id \in DOMAIN rdBusy, Refill(rdOut), UNCHANGED <<kind, drv, sq>>
  PROVE  CoreInv'
<1> DEFINE id == rdOut.id  i == Waiting(id)  e == [cq[i] EXCEPT !.pc = "retry"]
<1>1. /\ id # UcId /\ rdBusy' = Restrict(rdBusy, DOMAIN rdBusy \ {id})
      /\ cq' = [cq EXCEPT ![i] = e] \/ cq' = RemoveAt(cq, i)
      /\ UNCHANGED <<dirty, rsrv, wrBusy>>
  BY DEF Refill, Finish
<1>2. LegalInv /\ OrderInv /\ BusyInv
  BY DEF CoreInv
<1>3. /\ ~UcWait /\ UcId \notin DOMAIN rdBusy /\ UcId \notin DOMAIN wrBusy
      /\ i \in 1 .. Len(cq) /\ IsFor(i, id)
      /\ \A k \in DOMAIN rdBusy : k # id => ~IsFor(i, k)
  BY <1>1, <1>2, ForOne
<1>4. /\ DOMAIN rdBusy' = DOMAIN rdBusy \ {id}
      /\ \A k \in DOMAIN rdBusy' : rdBusy'[k] = rdBusy[k]
  BY <1>1, DropDomain DEF Restrict
<1>5. UcId \notin DOMAIN wrBusy'
  BY <1>1, <1>3
<1>6. IsEntry(kind, cq[i])
  BY <1>3 DEF CoreInv, LegalInv
<1>7. IsEntry(kind, e) /\ e.t = cq[i].t /\ e.pc = "retry" /\ ~Fence(e.t)
  BY <1>3, <1>6 DEF IsEntry, IsFor
<1> HIDE DEF i, e, id
<1>8. CASE cq' = RemoveAt(cq, i)
  <2>1. DOMAIN rdBusy' \subseteq DOMAIN rdBusy
        /\ \A k \in DOMAIN rdBusy' : rdBusy'[k] = rdBusy[k] /\ k # UcId /\ ~IsFor(i, k)
    BY <1>3, <1>4
  <2> QED
    BY <1>1, <1>2, <1>3, <1>5, <1>8, <2>1, FinishCore, KeepReserve DEF CoreInv
<1>9. CASE cq' = [cq EXCEPT ![i] = e]
  <2>1. ASSUME NEW k \in DOMAIN rdBusy'
        PROVE  /\ k # UcId /\ k \in DOMAIN rdBusy /\ rdBusy'[k] = rdBusy[k] /\ ~IsFor(i, k)
               /\ \A m \in DOMAIN rdBusy' : rdBusy'[m].addr = rdBusy'[k].addr => m = k
    <3>1. k \in DOMAIN rdBusy /\ k # id /\ rdBusy'[k] = rdBusy[k]
      BY <1>4
    <3>2. \A m \in DOMAIN rdBusy' : m \in DOMAIN rdBusy /\ rdBusy'[m] = rdBusy[m]
      BY <1>4
    <3> QED
      BY <1>2, <1>3, <3>1, <3>2 DEF BusyInv
  <2>2. LegalInv' /\ OrderInv' /\ BusyInv' /\ ~UcWait'
    BY <1>1, <1>2, <1>3, <1>5, <1>7, <1>9, <2>1, ChangeCore
  <2> QED
    BY <1>1, <2>2, KeepReserve DEF CoreInv
<1> QED
  BY <1>1, <1>8, <1>9


\* The first of the two responses to an atomic is kept in its entry.
LEMMA AmoKept ==
  ASSUME LegalInv, OrderInv, BusyInv, UcWait, NEW old, NEW err, AmoLater(1, old, err), UNCHANGED <<kind, drv, sq>>
  PROVE  LegalInv' /\ OrderInv' /\ UcWait' /\ cq'[1].t = cq[1].t
<1> DEFINE e == [cq[1] EXCEPT !.old = old, !.err = err]
<1>1. Len(cq) = 1 /\ IsEntry(kind, cq[1]) /\ cq[1].pc = "wait" /\ UcOp(cq[1].t)
  BY AloneOut DEF UcWait
<1>2. cq' = [[cq EXCEPT ![1].old = old] EXCEPT ![1].err = err]
  BY DEF AmoLater
<1>3. 1 \in DOMAIN cq
  <2>1. cq \in Seq({cq[i] : i \in 1 .. Len(cq)})
    BY DEF LegalInv, IsSeq
  <2> QED
    BY <1>1, <2>1
<1>4. cq' = [cq EXCEPT ![1] = e]
  BY <1>2, <1>3
<1>5. IsEntry(kind, e) /\ e.t = cq[1].t /\ e.pc = "wait" /\ UcOp(e.t)
  BY <1>1 DEF IsEntry
<1> HIDE DEF e
<1>6. LegalInv' /\ OrderInv' /\ UcWait' /\ cq'[1] = e
  BY ONLY LegalInv, OrderInv, <1>1, <1>4, <1>5, UNCHANGED <<kind, drv, sq>>, AloneChange
<1> QED
  BY <1>5, <1>6

\* The operations that use the channels.
LEMMA ApartOps ==
  /\ {"LOAD", "LR", "STORE", "SC"} \cap AmoOps = {}
  /\ {"LOAD", "LR"} \cap {"STORE", "SC"} = {}
BY DEF AmoOps

\* A response on the read channel to an uncached access.
LEMMA UncachedReadCore ==
  ASSUME CoreInv, rdOut.id \in DOMAIN rdBusy, UncachedRead(rdOut), UNCHANGED <<kind, drv, sq>>
  PROVE  CoreInv'
<1> DEFINE t == cq[1].t
<1>1. /\ UcId \in DOMAIN rdBusy /\ rdBusy' = Restrict(rdBusy, DOMAIN rdBusy \ {UcId})
      /\ UNCHANGED <<dirty, wrBusy>>
      /\ rsrv' = IF t.op = "LR" THEN [valid |-> ~rdOut.error, addr |-> t.addr] ELSE rsrv
  BY DEF UncachedRead
<1>2. LegalInv /\ OrderInv /\ BusyInv /\ UcWait /\ t.op \in {"LOAD", "LR"} \cup AmoOps
  BY <1>1 DEF CoreInv, BusyInv
<1>3. DOMAIN rdBusy \subseteq {UcId} /\ Len(cq) = 1 /\ IsEntry(kind, cq[1])
  BY <1>2, AloneOut
<1>4. DOMAIN rdBusy' = {}
  <2>1. rdBusy' = Restrict(rdBusy, DOMAIN rdBusy \ {UcId})
    BY <1>1
  <2>2. DOMAIN rdBusy' = DOMAIN rdBusy \ {UcId}
    BY ONLY <2>1, DropDomain
  <2> QED
    BY <1>3, <2>2
<1>5. /\ DOMAIN rsrv' = {"valid", "addr"}
      /\ rsrv'.valid => /\ rsrv'.addr \in Words /\ rsrv'.addr \notin dirty'
                        /\ \A k \in DOMAIN wrBusy' : rsrv'.addr \notin wrBusy'[k]
  <2>1. CASE t.op = "LR"
    <3>1. Settled(t.addr) /\ t.addr \in Words
      BY <1>2, <1>3, <2>1 DEF CoreInv, ReserveInv, IsEntry, Legal
    <3>2. DOMAIN rsrv' = {"valid", "addr"} /\ rsrv'.addr = t.addr
      BY <1>1, <2>1
    <3> QED
      BY <1>1, <3>1, <3>2 DEF Settled
  <2>2. CASE t.op # "LR"
    <3>1. rsrv' = rsrv
      BY <1>1, <2>2
    <3>2. DOMAIN rsrv = {"valid", "addr"}
      BY DEF CoreInv, ReserveInv
    <3>3. rsrv.valid => /\ rsrv.addr \in Words /\ rsrv.addr \notin dirty
                        /\ \A k \in DOMAIN wrBusy : rsrv.addr \notin wrBusy[k]
      BY DEF CoreInv, ReserveInv, Settled
    <3> HIDE DEF t
    <3> QED
      BY ONLY <1>1, <3>1, <3>2, <3>3
  <2> QED
    BY <2>1, <2>2
<1>6. ASSUME Finish(1), UcId \notin DOMAIN wrBusy PROVE CoreInv'
  <2>1. 1 \in 1 .. Len(cq) /\ cq' = RemoveAt(cq, 1)
    BY <1>3, <1>6 DEF Finish
  <2>2. /\ UcId \notin DOMAIN wrBusy' /\ DOMAIN rdBusy' \subseteq DOMAIN rdBusy
        /\ \A id \in DOMAIN rdBusy' : rdBusy'[id] = rdBusy[id] /\ id # UcId /\ ~IsFor(1, id)
    BY <1>1, <1>4, <1>6
  <2>3. LegalInv' /\ OrderInv' /\ BusyInv' /\ ~UcWait'
    BY ONLY <1>2, <2>1, <2>2, UNCHANGED <<kind, drv, sq>>, FinishCore
  <2> QED
    BY <1>5, <2>3 DEF CoreInv, ReserveInv, Settled
<1>7. CASE ~is_amo(t.op)
  <2>1. UcId \notin DOMAIN wrBusy
    <3>1. UcId \in DOMAIN wrBusy => t.op \in {"STORE", "SC"} \cup AmoOps
      BY DEF CoreInv, BusyInv
    <3> QED
      BY <1>2, <1>7, <3>1, ApartOps DEF is_amo
  <2> QED
    BY <1>6, <1>7, <2>1 DEF UncachedRead
<1>8. CASE is_amo(t.op) /\ UcId \notin DOMAIN wrBusy
  BY <1>6, <1>8 DEF UncachedRead, AmoOver
<1>9. CASE is_amo(t.op) /\ UcId \in DOMAIN wrBusy
  <2>1. AmoLater(1, rdOut.data[1], rdOut.error)
    BY <1>9 DEF UncachedRead
  <2>2. LegalInv' /\ OrderInv' /\ UcWait' /\ cq'[1].t = t
    BY <1>2, <2>1, AmoKept
  <2>3. BusyInv'
    BY <1>1, <1>2, <1>4, <1>9, <2>2 DEF BusyInv, is_amo
  <2>4. ReserveInv'
    <3>1. t.op # "LR"
      BY <1>9, ApartOps DEF is_amo
    <3> QED
      BY <1>5, <2>2, <3>1 DEF ReserveInv, Settled
  <2> QED
    BY <2>2, <2>3, <2>4 DEF CoreInv
<1> QED
  BY <1>7, <1>8, <1>9

\* A response on the write channel.
LEMMA WriteAckCore ==
  ASSUME CoreInv, NEW resp, WriteAck(resp), UNCHANGED <<kind, drv, sq>>
  PROVE  CoreInv'
<1>1. DOMAIN wrBusy' \subseteq DOMAIN wrBusy /\ \A id \in DOMAIN wrBusy' : wrBusy'[id] = wrBusy[id]
  BY DEF WriteAck, Restrict
<1> QED
  BY <1>1, IdleCore DEF WriteAck

\* A response on the write channel to an uncached access.
LEMMA UncachedWriteCore ==
  ASSUME CoreInv, NEW resp, UcId \in DOMAIN wrBusy, UncachedWrite(resp), UNCHANGED <<kind, drv, sq>>
  PROVE  CoreInv'
<1> DEFINE t == cq[1].t
<1>1. wrBusy' = Restrict(wrBusy, DOMAIN wrBusy \ {UcId}) /\ UNCHANGED <<dirty, rsrv, rdBusy>>
  BY DEF UncachedWrite
<1>2. LegalInv /\ OrderInv /\ BusyInv /\ UcWait /\ t.op \in {"STORE", "SC"} \cup AmoOps
  BY DEF CoreInv, BusyInv
<1>3. DOMAIN rdBusy \subseteq {UcId} /\ Len(cq) = 1 /\ IsEntry(kind, cq[1])
  BY <1>2, AloneOut
<1>4. UcId \notin DOMAIN wrBusy' /\ DOMAIN wrBusy' \subseteq DOMAIN wrBusy
      /\ \A id \in DOMAIN wrBusy' : wrBusy'[id] = wrBusy[id]
  BY <1>1 DEF Restrict
<1>6. ASSUME Finish(1), UcId \notin DOMAIN rdBusy PROVE CoreInv'
  <2>1. 1 \in 1 .. Len(cq) /\ cq' = RemoveAt(cq, 1)
    BY <1>3, <1>6 DEF Finish
  <2>2. /\ UcId \notin DOMAIN wrBusy' /\ DOMAIN rdBusy' \subseteq DOMAIN rdBusy
        /\ \A id \in DOMAIN rdBusy' : rdBusy'[id] = rdBusy[id] /\ id # UcId /\ ~IsFor(1, id)
    BY <1>1, <1>3, <1>4, <1>6
  <2>3. LegalInv' /\ OrderInv' /\ BusyInv' /\ ~UcWait'
    BY ONLY <1>2, <2>1, <2>2, UNCHANGED <<kind, drv, sq>>, FinishCore
  <2> QED
    BY <1>1, <1>4, <2>3, KeepReserve DEF CoreInv
<1>7. CASE ~is_amo(t.op)
  <2>1. UcId \notin DOMAIN rdBusy
    <3>1. UcId \in DOMAIN rdBusy => t.op \in {"LOAD", "LR"} \cup AmoOps
      BY DEF CoreInv, BusyInv
    <3> QED
      BY <1>2, <1>7, <3>1, ApartOps DEF is_amo
  <2> QED
    BY <1>6, <1>7, <2>1 DEF UncachedWrite
<1>8. CASE is_amo(t.op) /\ UcId \notin DOMAIN rdBusy
  BY <1>6, <1>8 DEF UncachedWrite, AmoOver
<1>9. CASE is_amo(t.op) /\ UcId \in DOMAIN rdBusy
  <2>1. AmoLater(1, None, resp.error)
    BY <1>9 DEF UncachedWrite
  <2>2. LegalInv' /\ OrderInv' /\ UcWait' /\ cq'[1].t = t
    BY <1>2, <2>1, AmoKept
  <2>3. BusyInv'
    <3>1. rdBusy[UcId].addr = t.addr /\ DOMAIN rdBusy[UcId] = {"addr", "values"}
      BY <1>2, <1>9 DEF BusyInv
    <3>2. \A id \in DOMAIN rdBusy' : id = UcId /\ rdBusy'[id] = rdBusy[UcId]
      BY <1>1, <1>3
    <3> QED
      BY <1>4, <1>9, <2>2, <3>1, <3>2 DEF BusyInv, is_amo
  <2>4. ReserveInv'
    <3>1. t.op # "LR"
      BY <1>9, ApartOps DEF is_amo
    <3> QED
      BY <1>1, <1>4, <2>2, <3>1 DEF CoreInv, ReserveInv, Settled
  <2> QED
    BY <2>2, <2>3, <2>4 DEF CoreInv
<1> QED
  BY <1>7, <1>8, <1>9


\* Every step keeps the requests, the accesses that are out and the reservation
\* in agreement.
LEMMA NextCore ==
  ASSUME PathInv, CoreInv, ReadInv, [Next]_vars
  PROVE  CoreInv'
<1>1. CASE SequenceStep \/ Simulate \/ CheckInflight \/ DriverFinish
  BY <1>1, SequenceLegal, DriveCore DEF CoreInv
<1>2. CASE DriveRequest
  BY <1>2, AcceptCore
<1>3. CASE UNCHANGED <<cacheVars, seqVars, tbVars>>
  BY <1>3, IdleCore DEF cacheVars, seqVars, tbVars
<1>4. CASE UNCHANGED <<seqVars, tbVars>> /\ \E i \in 1 .. Len(cq) :
             LoadHit(i) \/ CmoDone(i) \/ ScFail(i) \/ Store(i) \/ Miss(i) \/ Uncached(i)
  <2>1. PICK i \in 1 .. Len(cq) : LoadHit(i) \/ CmoDone(i) \/ ScFail(i) \/ Store(i) \/ Miss(i) \/ Uncached(i)
    BY <1>4
  <2>2. UNCHANGED <<kind, drv, sq>>
    BY <1>4 DEF seqVars, tbVars
  <2> QED
    BY ONLY CoreInv, i \in 1 .. Len(cq), <2>1, <2>2, HitCore, MissCore, UncachedCore
<1>5. CASE CacheStep
  BY <1>4, <1>5 DEF CacheStep, CacheHit, CacheCmo, CacheScFail, CacheStore, CacheMiss, CacheUncached
<1>6. CASE CacheMove
  <2>1. UNCHANGED <<kind, drv, sq>>
    BY <1>6 DEF CacheMove, seqVars, tbVars
  <2>2. CASE CacheFlush
    BY <2>1, <2>2, FlushCore DEF CacheFlush
  <2>3. CASE CacheEvict
    <3>1. UNCHANGED <<cq, rdBusy, rsrv, wrBusy, dirty>>
      BY <2>3 DEF CacheEvict, Evict
    <3> QED
      BY <2>1, <3>1, IdleCore
  <2> QED
    BY <1>6, <2>2, <2>3 DEF CacheMove
<1>7. CASE MemStep
  <2>1. UNCHANGED <<seqVars, tbVars>> /\ UNCHANGED <<kind, drv, sq>>
    BY <1>7 DEF MemStep, seqVars, tbVars
  <2>2. CASE MemReadSee \/ MemReadTake \/ MemReadPush \/ MemReadShow \/ MemAddrReady \/ MemAddrEdge
               \/ MemDataReady \/ MemDataEdge \/ MemWriteTake \/ MemWriteRun \/ MemWriteShow
    <3>1. UNCHANGED <<cq, rdBusy, rsrv, wrBusy, dirty>>
      <4>1. CASE MemReadSee \/ MemReadTake \/ MemReadPush \/ MemReadShow
        BY <4>1 DEF MemReadSee, MemReadTake, MemReadPush, MemReadShow, cacheVars
      <4>2. CASE MemAddrReady \/ MemAddrEdge \/ MemDataReady \/ MemDataEdge
        BY <4>2 DEF MemAddrReady, MemAddrEdge, MemDataReady, MemDataEdge, cacheVars
      <4>3. CASE MemWriteTake \/ MemWriteRun \/ MemWriteShow
        BY <4>3 DEF MemWriteTake, MemWriteRun, MemWriteShow, cacheVars
      <4> QED
        BY <2>2, <4>1, <4>2, <4>3
    <3> QED
      BY <2>1, <3>1, IdleCore
  <2>3. CASE CacheTakesRead
    <3>1. rdOut.id \in DOMAIN rdBusy
      BY <2>3, ShownBusy DEF CacheTakesRead, ReadRespTaken
    <3> QED
      BY <2>1, <2>3, <3>1, BeatCore, RefillCore, UncachedReadCore DEF CacheTakesRead
  <2>4. CASE CacheTakesWrite
    <3>1. wrOut.id \in DOMAIN wrBusy
      BY <2>4, ShownBusy DEF CacheTakesWrite, WriteRespTaken
    <3>2. UncachedWrite(wrOut) => UcId \in DOMAIN wrBusy
      BY <3>1 DEF UncachedWrite
    <3> QED
      BY <2>1, <2>4, <3>2, WriteAckCore, UncachedWriteCore DEF CacheTakesWrite
  <2> QED
    BY <1>7, <2>2, <2>3, <2>4 DEF MemStep
<1> QED
  BY <1>1, <1>2, <1>3, <1>5, <1>6, <1>7 DEF Next, Over, vars

\* The steps of the cache that ask for a read, and those that do not.
LEMMA CacheReads ==
  ASSUME CoreInv, ReadInv, OwedNext, NEW i \in 1 .. Len(cq), UNCHANGED memVars,
         LoadHit(i) \/ CmoDone(i) \/ ScFail(i) \/ Store(i) \/ Miss(i) \/ Uncached(i)
  PROVE  ReadInv'
<1>1. UNCHANGED <<rd, rdOut, readRespFifo>>
  BY DEF memVars, rdVars, respVars
<1>2. CASE LoadHit(i) \/ CmoDone(i) \/ ScFail(i) \/ Store(i)
  <2>1. UNCHANGED <<rdReq, rdBusy>>
    BY <1>2 DEF LoadHit, CmoDone, ScFail, Store, chVars
  <2> QED
    BY <1>1, <2>1, IdleReads
<1>3. CASE Miss(i)
  <2>1. NextId(ReadIds, rdBusy) \notin DOMAIN rdBusy
    BY <1>3 DEF Miss, FreeId, NextId
  <2> QED
    BY <1>1, <1>3, <2>1, AskReads DEF Miss
<1>4. CASE Uncached(i)
  <2>1. rdBusy = <<>>
    BY <1>4 DEF Uncached, Executable, Fence, Quiet
  <2>2. DOMAIN rdBusy = {}
    BY <2>1
  <2>3. CASE cq[i].t.op \in {"LOAD", "LR"}
    BY <1>1, <1>4, <2>2, <2>3, AskReads DEF Uncached
  <2>4. CASE cq[i].t.op \in {"STORE", "SC"}
    <3>1. UNCHANGED <<rdReq, rdBusy>>
      BY <1>4, <2>4 DEF Uncached
    <3> QED
      BY <1>1, <3>1, IdleReads
  <2>5. CASE cq[i].t.op \notin {"LOAD", "LR"} /\ cq[i].t.op \notin {"STORE", "SC"}
    <3>1. rdBusy' = Put(rdBusy, UcId, [addr |-> cq[i].t.addr, values |-> <<>>]) /\ UNCHANGED rdReq
      BY <1>4, <2>5 DEF Uncached
    <3>2. DOMAIN rdBusy' = {UcId}
      <4>1. DOMAIN rdBusy' = DOMAIN rdBusy \cup {UcId}
        BY <3>1 DEF Put
      <4> QED
        BY <2>2, <4>1
    <3> QED
      BY <1>1, <2>2, <3>1, <3>2, SentReads
  <2> QED
    BY <2>3, <2>4, <2>5
<1> QED
  BY <1>2, <1>3, <1>4

\* Every step leaves a read that is out in one place.
LEMMA NextRead ==
  ASSUME NoneHasNoId, FifoHolds, PathInv, PairInv, CoreInv, ReadInv, [Next]_vars
  PROVE  ReadInv'
<1>1. OwedNext /\ (WritePushRead => ~AmoPend')
  BY PendNext DEF OwedNext, ReadInv
<1>2. CASE UNCHANGED <<rd, rdOut, readRespFifo, rdReq, rdBusy>>
  BY <1>1, <1>2, IdleReads
<1>3. CASE SequenceStep \/ Simulate \/ CheckInflight \/ DriverFinish \/ DriveRequest \/ Over \/ UNCHANGED vars
  <2>1. UNCHANGED <<memVars, rdReq, rdBusy>>
    BY <1>3 DEF Simulate, SequenceStep, SequenceMain, SequenceBetween, SequenceSc, SequenceStop,
                Send, CheckInflight, DriverFinish, DriveRequest, Accept, Over, vars, cacheVars, chVars
  <2> QED
    BY <1>2, <2>1 DEF memVars, rdVars, respVars
<1>4. CASE CacheStep
  BY <1>1, <1>4, CacheReads DEF CacheStep, CacheHit, CacheCmo, CacheScFail, CacheStore, CacheMiss, CacheUncached
<1>5. CASE CacheMove
  <2>1. UNCHANGED <<memVars, rdReq, rdBusy>>
    BY <1>5 DEF CacheMove, CacheFlush, CacheEvict, FlushLine, Evict, chVars
  <2> QED
    BY <1>2, <2>1 DEF memVars, rdVars, respVars
<1>6. CASE MemStep
  <2>1. CASE MemReadSee \/ MemReadTake \/ MemReadPush \/ MemReadShow \/ CacheTakesRead
    BY <1>1, <2>1, TakeReads, PushReads, ShowReads, TakenReads
  <2>2. CASE MemAddrReady \/ MemAddrEdge \/ MemDataReady \/ MemDataEdge
    <3>1. UNCHANGED <<rd, rdOut, readRespFifo, rdReq, rdBusy>>
      BY <2>2 DEF MemAddrReady, AddrReady, MemAddrEdge, AddrEdge, MemDataReady, DataReady, MemDataEdge,
                  DataEdge, rdVars, respVars, cacheVars, chVars
    <3> QED
      BY <1>2, <3>1
  <2>3. CASE MemWriteTake
    <3>1. CASE WritePushRead
      BY <1>1, <2>3, <3>1, AnswerReads DEF MemWriteTake, CoreInv
    <3>2. CASE WriteMeta \/ WriteData \/ WritePush
      <4>1. UNCHANGED <<rd, rdOut, readRespFifo, rdReq, rdBusy>>
        BY <2>3, <3>2 DEF MemWriteTake, WriteMeta, WriteData, WritePush, rdVars, respVars, cacheVars, chVars
      <4> QED
        BY <1>2, <4>1
    <3> QED
      BY <2>3, <3>1, <3>2 DEF MemWriteTake
  <2>4. CASE MemWriteRun \/ MemWriteShow
    <3>1. UNCHANGED <<rd, rdOut, readRespFifo, rdReq, rdBusy>>
      BY <2>4 DEF MemWriteRun, WriteRun, MemWriteShow, WriteRespShow, rdVars, respVars, cacheVars, chVars
    <3> QED
      BY <1>2, <3>1
  <2>5. CASE CacheTakesWrite
    <3>1. UNCHANGED <<rd, rdOut, readRespFifo, rdReq, rdBusy>>
      BY <2>5 DEF CacheTakesWrite, WriteRespTaken, WriteAck, UncachedWrite, rdVars, respVars, chVars
    <3> QED
      BY <1>2, <3>1
  <2> QED
    BY <1>6, <2>1, <2>2, <2>3, <2>4, <2>5 DEF MemStep
<1> QED
  BY <1>3, <1>4, <1>5, <1>6 DEF Next

\* Nothing is out after reset.
LEMMA InitCore == Init => CoreInv /\ ReadInv
<1> SUFFICES ASSUME Init PROVE CoreInv /\ ReadInv
  OBVIOUS
<1>1. /\ cq = <<>> /\ rdReq = <<>> /\ rdBusy = <<>> /\ wrBusy = <<>> /\ wrAddr = <<>>
      /\ DOMAIN rsrv = {"valid", "addr"} /\ rsrv.valid = FALSE
  BY DEF Init, CacheInit
<1>2. /\ rd = [pc |-> "idle", req |-> None, beat |-> 0] /\ readRespFifo = <<>> /\ rdOut = None
      /\ wp = [pc |-> "meta", req |-> None, rresp |-> None, resp |-> None]
      /\ writeReqFifo = <<>> /\ wa = [pc |-> "idle", r |-> None]
  BY DEF Init, MemInit
<1>3. /\ kind \in Kinds /\ DOMAIN drv = {"pc", "t"} /\ drv.pc = "idle"
      /\ DOMAIN sq = {"n", "lr", "left"} /\ sq.lr = None
  BY DEF Init, SequenceInit
<1>4. IsSeq(<<>>) /\ Len(<<>>) = 0
  BY ShortSeq
<1>5. CoreInv
  BY <1>1, <1>3, <1>4 DEF CoreInv, LegalInv, OrderInv, BusyInv, ReserveInv, UcWait
<1>6. QueueType /\ AnswerType
  BY <1>1, <1>2, <1>4 DEF QueueType, AnswerType
<1>7. Stream = <<>> /\ Pushed = {}
  BY <1>2, <1>4, CatEmpty DEF Stream, RdShown, Pushed
<1>8. AddrQ = <<>>
  <2>1. Cat(<<>>, <<>>) = <<>>
    BY <1>4, CatEmpty
  <2>2. RunFlits = <<>> /\ writeReqFifo = <<>> /\ Shown = <<>>
    BY <1>1, <1>2 DEF RunFlits, Shown
  <2> QED
    BY <2>1, <2>2 DEF AddrQ
<1>9. Owed = {}
  BY <1>2, <1>4, <1>8 DEF Owed, AmoPend, AmoAway
<1>10. Once(rdReq, Stream, Pushed, Owed, DOMAIN rdBusy)
  BY <1>1, <1>4, <1>7, <1>9 DEF Once
<1> QED
  BY <1>5, <1>6, <1>10 DEF ReadInv


(* Each read that is out is in one place, so that the cache gets each answer *)
(* once, in one piece, with the request that waits for it still there; and   *)
(* no write is out, or yet to come, to a word that is reserved.              *)
THEOREM ReadsInOnePlace ==
  ASSUME FifoHolds, NoneHasNoId
  PROVE  Spec => [](ReadInv /\ CoreInv)
<1>1. Init => PathInv /\ PairInv /\ CoreInv /\ ReadInv
  BY InitPath, InitPair, InitCore
<1>2. PathInv /\ PairInv /\ CoreInv /\ ReadInv /\ [Next]_vars
        => PathInv' /\ PairInv' /\ CoreInv' /\ ReadInv'
  BY NextPath, StepPath, NextPair, NextCore, NextRead
<1>3. Spec => [](PathInv /\ PairInv /\ CoreInv /\ ReadInv)
  BY <1>1, <1>2, PTL DEF Spec
<1> QED
  BY <1>3, PTL

\* Only the performance of a write changes the memory.
LEMMA MemKept ==
  ASSUME [Next]_vars
  PROVE  mem' = mem \/ MemWriteRun
<1>1. CASE Simulate \/ SequenceStep \/ DriveRequest \/ CheckInflight \/ DriverFinish \/ Over \/ UNCHANGED vars
  BY <1>1 DEF Simulate, SequenceStep, SequenceMain, SequenceBetween, SequenceSc, SequenceStop,
              Send, DriveRequest, CheckInflight, DriverFinish, Over, vars, memVars
<1>2. CASE CacheStep \/ CacheMove
  BY <1>2 DEF CacheStep, CacheMove, memVars
<1>3. CASE MemStep
  <2>1. CASE MemReadSee \/ MemReadTake \/ MemReadPush \/ MemReadShow \/ CacheTakesRead
    BY <2>1 DEF MemReadSee, MemReadTake, MemReadPush, MemReadShow, CacheTakesRead, ReadSee, ReadTake,
                ReadPush, ReadRespShow, ReadRespTaken
  <2>2. CASE MemAddrReady \/ MemAddrEdge \/ MemDataReady \/ MemDataEdge
    BY <2>2 DEF MemAddrReady, AddrReady, MemAddrEdge, AddrEdge, MemDataReady, DataReady, MemDataEdge, DataEdge
  <2>3. CASE MemWriteTake
    BY <2>3 DEF MemWriteTake, WriteMeta, WriteData, WritePushRead, WritePush
  <2>4. CASE MemWriteShow \/ CacheTakesWrite
    BY <2>4 DEF MemWriteShow, CacheTakesWrite, WriteRespShow, WriteRespTaken
  <2> QED
    BY <1>3, <2>1, <2>2, <2>3, <2>4 DEF MemStep
<1> QED
  BY <1>1, <1>2, <1>3 DEF Next

\* A write that is performed leaves the words alone that the cache did not send.
LEMMA RunKeeps ==
  ASSUME PathInv, PairInv, MemWriteRun, wp.req.command # "STEX",
         NEW w \in Words, \A id \in DOMAIN wrBusy : w \notin wrBusy[id]
  PROVE  mem' = mem \/ mem'[w] = mem[w]
<1> DEFINE req == wp.req
           error == within_error_region(errorsegs, req.addr, req.addr + req.size)
           old == mem[req.addr]
           one == OneWord(req.addr, mem_compute_amo(req.command, old, req.data[req.addr], WordBits))
<1>1. /\ wp.pc = "run"
      /\ \/ mem' = mem
         \/ mem_is_amo(req.command) /\ mem' = Written(mem, one)
         \/ mem' = Written(mem, req.data)
  BY DEF MemWriteRun, WriteRun, writeMemory, readMemory
<1>2. req.id \in DOMAIN wrBusy
  <2>1. RunIds = <<req.id>> /\ req.id \in WId
    BY <1>1 DEF RunIds, PathInv, PathType
  <2>2. req.id \in Elements(RunIds)
    BY <2>1, OneElement
  <2> QED
    BY <2>2, PartsBusy
<1>3. Match(wrBusy, req, req.data)
  BY <1>1 DEF PairInv, Paired
<1>4. w \notin DOMAIN req.data
  BY <1>2, <1>3 DEF Match
<1>5. mem_is_amo(req.command) => w \notin DOMAIN one
  BY <1>3, <1>4 DEF Match, OneWord
<1> HIDE DEF one, req
<1> QED
  BY <1>1, <1>4, <1>5 DEF Written

(* While the cache believes in a reservation, nothing but a                *)
(* store-conditional changes the reserved word in memory.                  *)
THEOREM ReservationKept ==
  ASSUME FifoHolds, NoneHasNoId
  PROVE  Spec => ReservationHolds
<1> DEFINE Inv == PathInv /\ PairInv /\ CoreInv
           Kept == wp.pc = "run" /\ wp.req.command # "STEX" /\ mem' # mem
                     => ~(rsrv.valid /\ mem'[rsrv.addr] # mem[rsrv.addr])
<1>1. Spec => []Inv
  BY WritesPaired, ReadsInOnePlace, PTL
<1>2. ASSUME Inv, [Next]_vars PROVE Kept
  <2>1. SUFFICES ASSUME wp.req.command # "STEX", mem' # mem, rsrv.valid
                 PROVE  mem'[rsrv.addr] = mem[rsrv.addr]
    OBVIOUS
  <2>2. MemWriteRun
    BY <1>2, <2>1, MemKept
  <2>3. rsrv.addr \in Words /\ \A id \in DOMAIN wrBusy : rsrv.addr \notin wrBusy[id]
    BY <1>2, <2>1 DEF CoreInv, ReserveInv, Settled
  <2> QED
    BY <1>2, <2>1, <2>2, <2>3, RunKeeps
<1>3. Inv /\ [Next]_vars => [Kept]_vars
  BY <1>2
<1> QED
  BY <1>1, <1>3, PTL DEF Spec, ReservationHolds
=============================================================================
