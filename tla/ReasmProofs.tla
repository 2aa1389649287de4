---------------------------- MODULE ReasmProofs -----------------------------
(***************************************************************************)
(* Proofs about Reasm for any datagrams, cuts, identifications, sizes of   *)
(* the table and times.                                                    *)
(*                                                                         *)
(* The invariant IInv: each entry in use is kept for one datagram that has *)
(* its identification, holds pieces of that datagram only, and is no older *)
(* than the time-out and the time since the last collection (SlotsKept);   *)
(* there is one entry per identification; what was handed on is as it was  *)
(* sent; and each datagram that still has a claim was handed on or waits   *)
(* in an entry with exactly the pieces that came (ClaimsMet).              *)
(*                                                                         *)
(* As an identification is left alone while an entry may be there for it,  *)
(* a piece finds an entry of its own datagram or none (OwnerIs).  Segments *)
(* of one datagram that do not overlap have no gap up to the last piece    *)
(* exactly when all its pieces are there.  An entry that is evicted was    *)
(* the oldest of a full table, so each of the other entries belongs to     *)
(* another datagram heard of since: the one evicted is among those Crowded *)
(* takes the claim from.                                                   *)
(***************************************************************************)
EXTENDS Reasm, FiniteSetTheorems, SequenceTheorems, WellFoundedInduction, TLAPS

-----------------------------------------------------------------------------
(* Least numbers.                                                           *)

\* A set of natural numbers that is not empty has a least one.
LEMMA Least ==
  ASSUME NEW S, S \subseteq Nat, S # {}
  PROVE  \E m \in S : \A k \in S : m <= k
  <1> DEFINE R == OpToRel(<, Nat)
  <1>1. IsWellFoundedOn(R, Nat)
    BY NatLessThanWellFounded
  <1>2. \A k, m \in Nat : k < m => <<k, m>> \in R
    BY DEF OpToRel
  <1> HIDE DEF R
  <1>3. PICK m \in S : \A k \in S : ~(<<k, m>> \in R)
    BY <1>1, WFMin, Zenon
  <1>4. \A k \in S : ~(k < m)
    BY <1>2, <1>3
  <1>5. \A k \in S : m <= k
    BY <1>4
  <1> QED
    BY <1>5

\* What holds at 0 and passes on to the next number holds up to n.
LEMMA UpTo ==
  ASSUME NEW n \in Nat, NEW S, 0 \in S, \A k \in 0..(n - 1) : k \in S => k + 1 \in S
  PROVE  \A k \in 0..n : k \in S
  <1> SUFFICES ASSUME NEW x \in 0..n, x \notin S PROVE FALSE
    OBVIOUS
  <1> DEFINE T == {k \in 0..n : k \notin S}
  <1>1. T \subseteq Nat /\ T # {}
    OBVIOUS
  <1>2. PICK m \in T : \A k \in T : m <= k
    BY <1>1, Least
  <1>3. m \in 0..n /\ m \notin S /\ m # 0
    BY <1>2
  <1>4. m - 1 \in 0..(n - 1) /\ m - 1 + 1 = m /\ m - 1 \in 0..n /\ ~(m <= m - 1)
    BY <1>3
  <1>5. m - 1 \in S
    BY <1>2, <1>4
  <1> QED
    BY <1>3, <1>4, <1>5

\* The first of some slots is one of them.
LEMMA LowestIs ==
  ASSUME NEW S, S \subseteq Slots, S # {}
  PROVE  Lowest(S) \in S
  <1>1. S \subseteq Nat
    BY SizesPositive DEF Slots
  <1>2. \E i \in S : \A j \in S : i <= j
    BY <1>1, Least
  <1> QED
    BY <1>2, Zenon DEF Lowest

-----------------------------------------------------------------------------
(* The pieces of a datagram.                                                *)

\* How many there are.
Count(d) == Len(Sent[d].cuts)

LEMMA CutsAre ==
  ASSUME NEW d \in Dgrams
  PROVE  /\ Count(d) \in Nat /\ Count(d) >= 1 /\ Pieces(d) = 1..Count(d)
         /\ \A i \in 1..Count(d) : Sent[d].cuts[i] \in Nat
  <1> DEFINE c == Sent[d].cuts
  <1>1. c \in Seq(Nat) /\ c # <<>>
    BY SentIsDatagrams
  <1> HIDE DEF c
  <1>2. Len(c) \in Nat /\ Len(c) >= 1 /\ DOMAIN c = 1..Len(c) /\ \A i \in 1..Len(c) : c[i] \in Nat
    BY <1>1
  <1> QED
    BY <1>2 DEF c, Count, Pieces

\* The ends of the pieces add up.
LEMMA EndsAre ==
  ASSUME NEW d \in Dgrams
  PROVE  /\ EndOf(d)[0] = 0
         /\ \A i \in 1..Count(d) : EndOf(d)[i] = EndOf(d)[i - 1] + Sent[d].cuts[i]
  <1> DEFINE n == Count(d)
             c == Sent[d].cuts
             Is(f) == f = [i \in 0..n |-> IF i = 0 THEN 0 ELSE f[i - 1] + c[i]]
             Adds(f, k) == f[0] = 0 /\ \A i \in 1..k : f[i] = f[i - 1] + c[i]
             S == {k \in Nat : \E f : Adds(f, k)}
  <1>1. n \in Nat
    BY CutsAre
  <1> HIDE DEF n, c
  <1>2. 0 \in S
    <2>1. Adds([i \in {0} |-> 0], 0)
      OBVIOUS
    <2> QED
      BY <2>1
  <1>3. ASSUME NEW k \in 0..(n - 1), k \in S PROVE k + 1 \in S
    <2>1. PICK f : Adds(f, k)
      BY <1>3
    <2> DEFINE h == [i \in 0..(k + 1) |-> IF i = k + 1 THEN f[k] + c[k + 1] ELSE f[i]]
    <2>2. k \in Nat /\ k + 1 \in Nat
      OBVIOUS
    <2>3. /\ h[k + 1] = f[k] + c[k + 1]
          /\ \A i \in 0..k : h[i] = f[i]
      BY <2>2
    <2> HIDE DEF h
    <2>4. h[0] = 0
      BY <2>1, <2>2, <2>3
    <2>5. ASSUME NEW i \in 1..(k + 1) PROVE h[i] = h[i - 1] + c[i]
      <3>1. CASE i = k + 1
        <4>1. h[k] = f[k] /\ i - 1 = k
          BY <2>2, <2>3, <3>1
        <4> QED
          BY <2>3, <3>1, <4>1
      <3>2. CASE i # k + 1
        <4>1. i \in 1..k /\ i \in 0..k /\ i - 1 \in 0..k
          BY <2>2, <3>2
        <4> QED
          BY <2>1, <2>3, <4>1
      <3> QED
        BY <3>1, <3>2
    <2>6. Adds(h, k + 1)
      BY <2>4, <2>5
    <2> HIDE DEF Adds
    <2> QED
      BY <2>2, <2>6
  <1>4. n \in S
    <2> HIDE DEF S
    <2>1. \A k \in 0..n : k \in S
      BY <1>1, <1>2, <1>3, UpTo
    <2> QED
      BY <1>1, <2>1
  <1>5. PICK f : Adds(f, n)
    BY <1>4
  <1> DEFINE g == [i \in 0..n |-> f[i]]
             T(i) == IF i = 0 THEN 0 ELSE g[i - 1] + c[i]
  <1>6. \A i \in 0..n : g[i] = f[i]
    OBVIOUS
  <1> HIDE DEF g
  <1>7. ASSUME NEW i \in 0..n PROVE f[i] = T(i)
    <2>1. CASE i = 0
      BY <1>5, <2>1
    <2>2. CASE i # 0
      <3>1. i \in 1..n /\ i - 1 \in 0..n
        BY <1>1, <2>2
      <3> QED
        BY <1>5, <1>6, <2>2, <3>1
    <2> QED
      BY <2>1, <2>2
  <1> HIDE DEF T
  <1>8. g = [i \in 0..n |-> T(i)]
    BY <1>7, Zenon DEF g
  <1>9. Is(g)
    BY <1>8, Zenon DEF T
  <1> DEFINE e == CHOOSE x : Is(x)
  <1>10. EndOf(d) = e
    BY Zenon DEF EndOf, n, c, Count
  <1> HIDE DEF Is
  <1>11. Is(e)
    BY <1>9, Zenon
  <1> HIDE DEF e
  <1> DEFINE U(i) == IF i = 0 THEN 0 ELSE e[i - 1] + c[i]
  <1>12. e = [i \in 0..n |-> U(i)]
    BY <1>11, Zenon DEF Is
  <1> HIDE DEF U
  <1>13. \A i \in 0..n : e[i] = U(i)
    BY <1>12, Zenon
  <1>14. e[0] = 0 /\ \A i \in 1..n : e[i] = e[i - 1] + c[i]
    <2>1. 0 \in 0..n /\ \A i \in 1..n : i \in 0..n /\ i # 0
      BY <1>1
    <2> QED
      BY <1>13, <2>1, Zenon DEF U
  <1> QED
    BY <1>10, <1>14 DEF n, c

\* They are numbers, and a later piece ends no earlier.
LEMMA EndsGrow ==
  ASSUME NEW d \in Dgrams
  PROVE  /\ \A i \in 0..Count(d) : EndOf(d)[i] \in Nat
         /\ \A i, j \in 0..Count(d) : i <= j => EndOf(d)[i] <= EndOf(d)[j]
  <1> DEFINE e == EndOf(d)
             n == Count(d)
             c == Sent[d].cuts
  <1>1. n \in Nat /\ \A i \in 1..n : c[i] \in Nat
    BY CutsAre
  <1>2. e[0] = 0 /\ \A i \in 1..n : e[i] = e[i - 1] + c[i]
    BY EndsAre
  <1> HIDE DEF e, n, c
  <1>3. \A k \in 0..(n - 1) : k + 1 \in 1..n /\ k + 1 - 1 = k
    BY <1>1
  <1>4. \A k \in 0..(n - 1) : e[k + 1] = e[k] + c[k + 1] /\ c[k + 1] \in Nat
    BY <1>1, <1>2, <1>3
  <1> DEFINE S == {k \in Nat : e[k] \in Nat}
  <1>5. \A k \in 0..n : k \in S
    <2>1. 0 \in S
      BY <1>2
    <2>2. ASSUME NEW k \in 0..(n - 1), k \in S PROVE k + 1 \in S
      <3>1. e[k] + c[k + 1] \in Nat
        BY <1>4, <2>2
      <3> QED
        BY <1>4, <2>2, <3>1
    <2> HIDE DEF S
    <2> QED
      BY <1>1, <2>1, <2>2, UpTo
  <1>6. \A k \in 0..n : e[k] \in Nat
    BY <1>5
  <1>7. ASSUME NEW j \in 0..n PROVE \A i \in 0..n : i <= j => e[i] <= e[j]
    <2> DEFINE G(k) == \A i \in 0..n : i <= k => e[i] <= e[k]
               V == {k \in Nat : k <= n => G(k)}
    <2>1. 0 \in V
      <3>1. \A i \in 0..n : i <= 0 => i = 0
        OBVIOUS
      <3> QED
        BY <1>2, <3>1
    <2>2. ASSUME NEW k \in 0..(n - 1), k \in V PROVE k + 1 \in V
      <3>1. G(k)
        BY <1>1, <2>2
      <3>2. e[k + 1] = e[k] + c[k + 1] /\ c[k + 1] \in Nat /\ e[k] \in Nat /\ k \in 0..n
        BY <1>1, <1>4, <1>6
      <3>3. ASSUME NEW i \in 0..n, i <= k + 1 PROVE e[i] <= e[k + 1]
        <4>1. e[k + 1] \in Nat /\ e[k] <= e[k + 1]
          BY <3>2
        <4>2. CASE i = k + 1
          BY <4>1, <4>2
        <4>3. CASE i # k + 1
          <5>1. i <= k
            BY <3>3, <4>3
          <5>2. e[i] <= e[k] /\ e[i] \in Nat
            BY <1>6, <3>1, <5>1
          <5> QED
            BY <3>2, <4>1, <5>2
        <4> QED
          BY <4>2, <4>3
      <3> QED
        BY <3>3
    <2> HIDE DEF G
    <2>3. \A k \in V : k <= n => G(k)
      OBVIOUS
    <2> HIDE DEF V
    <2>4. j \in V
      BY <1>1, <2>1, <2>2, UpTo
    <2>5. G(j)
      BY <2>3, <2>4
    <2> QED
      BY <2>5, Zenon DEF G
  <1> QED
    BY <1>6, <1>7 DEF e, n

\* The pieces with something in them.
Filled(d) == {i \in Pieces(d) : Sent[d].cuts[i] > 0}

\* The segment a piece becomes.
SegOf(d, j) == [off |-> OffsetOf(d, j), len |-> Sent[d].cuts[j], of |-> d]

\* What a piece carries.
LEMMA PieceIs ==
  ASSUME NEW d \in Dgrams, NEW i \in Pieces(d)
  PROVE  /\ Piece[d][i].key = Sent[d].key /\ Piece[d][i].of = d
         /\ Piece[d][i].offset = OffsetOf(d, i) /\ Piece[d][i].len = Sent[d].cuts[i]
         /\ Piece[d][i].mf <=> i < Count(d)
  <1>1. Piece[d][i] = [key |-> Sent[d].key, offset |-> OffsetOf(d, i), len |-> Sent[d].cuts[i],
                       mf |-> i < Len(Sent[d].cuts), of |-> d]
    BY Zenon DEF Piece
  <1>2. Piece[d][i].mf = (i < Len(Sent[d].cuts))
    BY <1>1
  <1>3. /\ Piece[d][i].key = Sent[d].key /\ Piece[d][i].of = d
        /\ Piece[d][i].offset = OffsetOf(d, i) /\ Piece[d][i].len = Sent[d].cuts[i]
    BY <1>1
  <1> QED
    BY <1>2, <1>3, Zenon DEF Count

\* It lies where the one before it ends, inside the datagram.
LEMMA PieceLies ==
  ASSUME NEW d \in Dgrams, NEW i \in Pieces(d)
  PROVE  /\ i \in 1..Count(d) /\ i \in Nat /\ Count(d) \in Nat /\ Count(d) \in Pieces(d)
         /\ OffsetOf(d, i) \in Nat /\ Sent[d].cuts[i] \in Nat /\ Size(d) \in Nat
         /\ OffsetOf(d, i) + Sent[d].cuts[i] = EndOf(d)[i]
         /\ EndOf(d)[i] <= Size(d)
         /\ i = Count(d) => EndOf(d)[i] = Size(d)
         /\ i = 1 => OffsetOf(d, i) = 0
  <1> DEFINE e == EndOf(d)
             n == Count(d)
             c == Sent[d].cuts
  <1>1. n \in Nat /\ n >= 1 /\ Pieces(d) = 1..n /\ c[i] \in Nat
    BY CutsAre
  <1>2. i \in 1..n /\ i - 1 \in 0..n /\ i \in 0..n /\ n \in 0..n /\ i <= n
    BY <1>1
  <1>3. e[i] = e[i - 1] + c[i] /\ e[0] = 0
    BY <1>2, EndsAre
  <1>4. e[i] \in Nat /\ e[i - 1] \in Nat /\ e[n] \in Nat /\ e[i] <= e[n]
    BY <1>2, EndsGrow
  <1>5. OffsetOf(d, i) = e[i - 1] /\ Size(d) = e[n]
    BY Zenon DEF OffsetOf, Size, Count
  <1>6. i = 1 => i - 1 = 0
    OBVIOUS
  <1> HIDE DEF e, n, c
  <1>7. i = 1 => e[i - 1] = 0
    BY <1>3, <1>6
  <1>8. n \in 1..n
    BY <1>1
  <1>9. i = n => e[i] = e[n]
    OBVIOUS
  <1>10. i \in Nat
    BY <1>1, <1>2
  <1> QED
    BY <1>1, <1>2, <1>3, <1>4, <1>5, <1>7, <1>8, <1>9, <1>10 DEF e, n, c

\* Of two pieces the earlier ends no later than the other starts.
LEMMA PiecesApart ==
  ASSUME NEW d \in Dgrams, NEW i \in Pieces(d), NEW j \in Pieces(d), i < j
  PROVE  EndOf(d)[i] <= OffsetOf(d, j)
  <1>1. Count(d) \in Nat /\ i \in 1..Count(d) /\ j \in 1..Count(d)
    BY PieceLies
  <1>2. i \in 0..Count(d) /\ j - 1 \in 0..Count(d) /\ i <= j - 1
    BY <1>1
  <1>3. EndOf(d)[i] <= EndOf(d)[j - 1]
    BY <1>2, EndsGrow
  <1> QED
    BY <1>3, Zenon DEF OffsetOf

\* The ends of two filled pieces differ.
LEMMA EndsDiffer ==
  ASSUME NEW d \in Dgrams, NEW i \in Filled(d), NEW j \in Filled(d),
         EndOf(d)[i] = EndOf(d)[j]
  PROVE  i = j
  <1> DEFINE e == EndOf(d)
             c == Sent[d].cuts
  <1>1. ASSUME NEW a \in Filled(d), NEW b \in Filled(d), a < b, e[a] = e[b] PROVE FALSE
    <2>1. a \in Pieces(d) /\ b \in Pieces(d) /\ c[b] > 0
      BY DEF Filled
    <2>2. /\ OffsetOf(d, b) \in Nat /\ c[b] \in Nat /\ OffsetOf(d, b) + c[b] = e[b]
      BY <2>1, PieceLies
    <2>3. e[a] <= OffsetOf(d, b)
      BY <1>1, <2>1, PiecesApart
    <2> HIDE DEF e, c
    <2> QED
      BY <1>1, <2>1, <2>2, <2>3
  <1>2. i \in Nat /\ j \in Nat
    <2>1. i \in Pieces(d) /\ j \in Pieces(d)
      BY DEF Filled
    <2> QED
      BY <2>1, PieceLies
  <1>3. ~(i < j) /\ ~(j < i)
    BY <1>1
  <1> QED
    BY <1>2, <1>3

\* Its own end is the piece's alone: nothing ends at 0.
LEMMA EndsPositive ==
  ASSUME NEW d \in Dgrams, NEW i \in Filled(d)
  PROVE  EndOf(d)[i] > 0 /\ EndOf(d)[i] \in Nat
  <1>1. i \in Pieces(d) /\ Sent[d].cuts[i] > 0
    BY DEF Filled
  <1>2. /\ OffsetOf(d, i) \in Nat /\ Sent[d].cuts[i] \in Nat
        /\ OffsetOf(d, i) + Sent[d].cuts[i] = EndOf(d)[i]
    BY <1>1, PieceLies
  <1> QED
    BY <1>1, <1>2

LEMMA FilledFinite ==
  ASSUME NEW d \in Dgrams
  PROVE  IsFiniteSet(Filled(d)) /\ IsFiniteSet(Pieces(d)) /\ Filled(d) \subseteq Pieces(d)
  <1>1. Pieces(d) = 1..Count(d) /\ Count(d) \in Nat
    BY CutsAre
  <1>2. IsFiniteSet(1..Count(d))
    BY <1>1, FS_Interval
  <1>3. Filled(d) \subseteq Pieces(d)
    BY DEF Filled
  <1> QED
    BY <1>1, <1>2, <1>3, FS_Subset

-----------------------------------------------------------------------------
(* One entry.                                                               *)

Entry == [in_use : BOOLEAN, key : Keys \cup {None}, total_len : 0..MaxSize,
          have_last : BOOLEAN, segs : Seq(Seg), ip_hdr : Dgrams \cup {None},
          age : 0..(IdLife + 1)]

\* Entry x keeps pieces of d only, out of those with a number in H.
Holds(x, d, H) ==
    /\ x \in Entry /\ Len(x.segs) <= MaxFrags
    /\ x.in_use /\ x.key = Sent[d].key
    /\ \A k \in DOMAIN x.segs : \E j \in H \cap Filled(d) : x.segs[k] = SegOf(d, j)
    /\ x.ip_hdr \in {None, d}
    /\ x.have_last => Count(d) \in H /\ x.total_len = Size(d)

\* It keeps all of them, each once.
Exact(x, d, H) ==
    /\ \A j \in H \cap Filled(d) : \E k \in DOMAIN x.segs : x.segs[k] = SegOf(d, j)
    /\ Len(x.segs) = Cardinality(H \cap Filled(d))
    /\ Count(d) \in H => x.have_last
    /\ 1 \in H => x.ip_hdr = d

LEMMA NumbersAre ==
  /\ MaxEntries \in Nat \ {0} /\ MaxFrags \in Nat /\ MaxSize \in Nat /\ MaxSize > 0
  /\ GcEvery \in Nat \ {0} /\ Timeout \in Nat /\ Poll \in Nat /\ IdLife \in Nat
  /\ IdLife = Timeout + GcEvery + Poll
  BY SizesPositive DEF IdLife

\* What a piece changes of an entry, and what it leaves.
Put(x, i, t, l, s) ==
    [[x EXCEPT !.ip_hdr = i, !.age = 0] EXCEPT !.total_len = t, !.have_last = l, !.segs = s]

LEMMA PutIs ==
  ASSUME NEW x \in Entry, NEW i, NEW t, NEW l, NEW s
  PROVE  Put(x, i, t, l, s) = [in_use |-> x.in_use, key |-> x.key, total_len |-> t,
                               have_last |-> l, segs |-> s, ip_hdr |-> i, age |-> 0]
  <1>0. PICK h : h = [x EXCEPT !.ip_hdr = i, !.age = 0]
    OBVIOUS
  <1>1. h = [in_use |-> x.in_use, key |-> x.key, total_len |-> x.total_len,
             have_last |-> x.have_last, segs |-> x.segs, ip_hdr |-> i, age |-> 0]
    BY <1>0 DEF Entry
  <1>2. Put(x, i, t, l, s) = [h EXCEPT !.total_len = t, !.have_last = l, !.segs = s]
    BY <1>0, Zenon DEF Put
  <1> QED
    BY <1>1, <1>2

\* The headers change nothing else.
LEMMA HeaderIs ==
  ASSUME NEW x \in Entry, NEW p, NEW h, h = WithHeader(x, p)
  PROVE  /\ h.segs = x.segs /\ h.have_last = x.have_last /\ h.total_len = x.total_len
         /\ h.ip_hdr = (IF p.offset = 0 /\ ~Sent[p.of].long THEN p.of ELSE x.ip_hdr)
  <1> DEFINE hdr == IF p.offset = 0 /\ ~Sent[p.of].long THEN p.of ELSE x.ip_hdr
  <1>1. h = [x EXCEPT !.ip_hdr = hdr, !.age = 0]
    BY Zenon DEF WithHeader
  <1> HIDE DEF hdr
  <1>2. /\ h.segs = x.segs /\ h.have_last = x.have_last /\ h.total_len = x.total_len
        /\ h.ip_hdr = hdr
    BY <1>1 DEF Entry
  <1> QED
    BY <1>2, Zenon DEF hdr

\* What a new piece makes of an entry, field by field.
LEMMA StoredIs ==
  ASSUME NEW x \in Entry, NEW p, NEW h, h = WithHeader(x, p), NEW y, y = Stored(h, p)
  PROVE  /\ h.segs = x.segs /\ h.have_last = x.have_last /\ h.total_len = x.total_len
         /\ h.ip_hdr = (IF p.offset = 0 /\ ~Sent[p.of].long THEN p.of ELSE x.ip_hdr)
         /\ y.in_use = x.in_use /\ y.key = x.key
         /\ y.total_len = (IF p.mf THEN x.total_len ELSE p.offset + p.len)
         /\ y.have_last \in BOOLEAN /\ (y.have_last <=> x.have_last \/ ~p.mf)
         /\ y.segs = (IF p.len = 0 THEN x.segs
                      ELSE Append(x.segs, [off |-> p.offset, len |-> p.len, of |-> p.of]))
         /\ y.ip_hdr = h.ip_hdr /\ y.age = 0
         /\ y = [in_use |-> y.in_use, key |-> y.key, total_len |-> y.total_len,
                 have_last |-> y.have_last, segs |-> y.segs, ip_hdr |-> y.ip_hdr, age |-> y.age]
  <1> DEFINE hdr == IF p.offset = 0 /\ ~Sent[p.of].long THEN p.of ELSE x.ip_hdr
             seg == [off |-> p.offset, len |-> p.len, of |-> p.of]
             all == IF p.len = 0 THEN x.segs ELSE Append(x.segs, seg)
             tot == IF p.mf THEN x.total_len ELSE p.offset + p.len
             last == x.have_last \/ ~p.mf
  <1>1. h = [x EXCEPT !.ip_hdr = hdr, !.age = 0]
    BY Zenon DEF WithHeader
  <1>2. h.segs = x.segs /\ h.have_last = x.have_last /\ h.total_len = x.total_len
    BY HeaderIs
  <1>3. y = [h EXCEPT !.total_len = IF p.mf THEN h.total_len ELSE p.offset + p.len,
                      !.have_last = h.have_last \/ ~p.mf,
                      !.segs = IF p.len = 0 THEN h.segs ELSE Append(h.segs, seg)]
    BY Zenon DEF Stored
  <1>4. y = [h EXCEPT !.total_len = tot, !.have_last = last, !.segs = all]
    BY <1>2, <1>3, Zenon
  <1> HIDE DEF hdr, tot, last, all, seg
  <1>5. /\ h.segs = x.segs /\ h.have_last = x.have_last /\ h.total_len = x.total_len
        /\ h.ip_hdr = hdr
    BY <1>2, HeaderIs, Zenon DEF hdr
  <1>6. y = [in_use |-> x.in_use, key |-> x.key, total_len |-> tot, have_last |-> last,
             segs |-> all, ip_hdr |-> hdr, age |-> 0]
    <2>1. y = Put(x, hdr, tot, last, all)
      BY <1>1, <1>4, Zenon DEF Put
    <2> QED
      BY <2>1, PutIs, Zenon
  <1>7. /\ y.in_use = x.in_use /\ y.key = x.key /\ y.total_len = tot
        /\ y.have_last = last /\ y.segs = all /\ y.ip_hdr = hdr /\ y.age = 0
    BY <1>6
  <1>8. y = [in_use |-> y.in_use, key |-> y.key, total_len |-> y.total_len,
             have_last |-> y.have_last, segs |-> y.segs, ip_hdr |-> y.ip_hdr, age |-> y.age]
    BY <1>6, <1>7, Zenon
  <1>9. y.have_last <=> x.have_last \/ ~p.mf
    BY <1>7, Zenon DEF last
  <1>10. last \in BOOLEAN
    BY DEF last
  <1>11. y.have_last \in BOOLEAN
    BY <1>7, <1>10, Zenon
  <1> QED
    BY <1>5, <1>7, <1>8, <1>9, <1>11, Zenon DEF hdr, tot, all, seg

\* The headers make no difference to what is refused.
LEMMA RefusedIs ==
  ASSUME NEW d \in Dgrams, NEW i \in Pieces(d), NEW x \in Entry, NEW h,
         h = WithHeader(x, Piece[d][i])
  PROVE  Refused(h, Piece[d][i]) <=>
           \/ EndOf(d)[i] > MaxSize
           \/ ~(i < Count(d)) /\ x.have_last /\ x.total_len # EndOf(d)[i]
           \/ /\ Sent[d].cuts[i] > 0
              /\ \/ Len(x.segs) >= MaxFrags
                 \/ \E k \in DOMAIN x.segs :
                      /\ OffsetOf(d, i) < x.segs[k].off + x.segs[k].len
                      /\ x.segs[k].off < EndOf(d)[i]
  <1> DEFINE p == Piece[d][i]
  <1>1. h.segs = x.segs /\ h.have_last = x.have_last /\ h.total_len = x.total_len
    <2> HIDE DEF p
    <2>2. h = WithHeader(x, p)
      BY DEF p
    <2> QED
      BY <2>2, HeaderIs
  <1>2. /\ p.offset = OffsetOf(d, i) /\ p.len = Sent[d].cuts[i]
        /\ p.mf <=> i < Count(d)
    BY PieceIs
  <1>3. OffsetOf(d, i) + Sent[d].cuts[i] = EndOf(d)[i]
    BY PieceLies
  <1> HIDE DEF p
  <1>4. Refused(h, p) <=>
           \/ p.offset + p.len > MaxSize
           \/ ~p.mf /\ x.have_last /\ x.total_len # p.offset + p.len
           \/ /\ p.len > 0
              /\ \/ Len(x.segs) >= MaxFrags
                 \/ \E k \in DOMAIN x.segs :
                      /\ p.offset < x.segs[k].off + x.segs[k].len
                      /\ x.segs[k].off < p.offset + p.len
    BY <1>1, Zenon DEF Refused, Overlaps
  <1>5. p.offset + p.len = EndOf(d)[i]
    BY <1>2, <1>3, Zenon
  <1> QED
    BY <1>2, <1>4, <1>5, Zenon DEF p

\* What is appended is last, the rest stays where it was.
LEMMA AppendIs ==
  ASSUME NEW S, NEW s \in Seq(S), NEW v \in S
  PROVE  /\ Append(s, v) \in Seq(S) /\ Len(Append(s, v)) = Len(s) + 1 /\ Len(s) \in Nat
         /\ DOMAIN s \subseteq DOMAIN Append(s, v) /\ Len(s) + 1 \in DOMAIN Append(s, v)
         /\ DOMAIN Append(s, v) = DOMAIN s \cup {Len(s) + 1}
         /\ \A k \in DOMAIN s : Append(s, v)[k] = s[k]
         /\ Append(s, v)[Len(s) + 1] = v
  <1>1. /\ Append(s, v) \in Seq(S) /\ Len(Append(s, v)) = Len(s) + 1
        /\ \A k \in 1..Len(s) : Append(s, v)[k] = s[k]
        /\ Append(s, v)[Len(s) + 1] = v
    BY AppendProperties
  <1>2. Len(s) \in Nat /\ DOMAIN s = 1..Len(s)
    OBVIOUS
  <1>3. DOMAIN Append(s, v) = 1..(Len(s) + 1)
    BY <1>1
  <1>4. 1..(Len(s) + 1) = (1..Len(s)) \cup {Len(s) + 1}
    BY <1>2
  <1> QED
    BY <1>1, <1>2, <1>3, <1>4

LEMMA SegIs ==
  ASSUME NEW d \in Dgrams, NEW i \in Filled(d), EndOf(d)[i] <= MaxSize
  PROVE  SegOf(d, i) \in Seg
  <1>1. i \in Pieces(d) /\ Sent[d].cuts[i] > 0
    BY DEF Filled
  <1>2. /\ OffsetOf(d, i) \in Nat /\ Sent[d].cuts[i] \in Nat
        /\ OffsetOf(d, i) + Sent[d].cuts[i] = EndOf(d)[i]
    BY <1>1, PieceLies
  <1>3. OffsetOf(d, i) \in 0..MaxSize /\ Sent[d].cuts[i] \in 1..MaxSize
    BY <1>1, <1>2, NumbersAre
  <1> QED
    BY <1>3 DEF SegOf, Seg

\* A piece that is not refused leaves an entry that holds it too.
LEMMA StoreHolds ==
  ASSUME NEW d \in Dgrams, NEW i \in Pieces(d), NEW H, NEW x, Holds(x, d, H),
         NEW h, h = WithHeader(x, Piece[d][i]), ~Refused(h, Piece[d][i]),
         NEW y, y = Stored(h, Piece[d][i])
  PROVE  Holds(y, d, H \cup {i}) /\ y.age = 0 /\ h.ip_hdr = y.ip_hdr
  <1> DEFINE p == Piece[d][i]
             G == H \cup {i}
  <1>1. x \in Entry
    BY Zenon DEF Holds
  <1>2. /\ p.key = Sent[d].key /\ p.of = d /\ p.offset = OffsetOf(d, i)
        /\ p.len = Sent[d].cuts[i] /\ (p.mf <=> i < Count(d))
    BY PieceIs
  <1>3. /\ i \in 1..Count(d) /\ OffsetOf(d, i) + Sent[d].cuts[i] = EndOf(d)[i]
        /\ i = Count(d) => EndOf(d)[i] = Size(d)
        /\ OffsetOf(d, i) \in Nat /\ Sent[d].cuts[i] \in Nat /\ Count(d) \in Nat
    BY PieceLies
  <1>4. /\ EndOf(d)[i] <= MaxSize
        /\ Sent[d].cuts[i] > 0 => ~(Len(x.segs) >= MaxFrags)
    BY <1>1, <1>3, RefusedIs, NumbersAre
  <1> HIDE DEF p
  <1>5. h = WithHeader(x, p) /\ y = Stored(h, p)
    BY DEF p
  <1>6. /\ h.ip_hdr = (IF p.offset = 0 /\ ~Sent[p.of].long THEN p.of ELSE x.ip_hdr)
        /\ y.in_use = x.in_use /\ y.key = x.key
        /\ y.total_len = (IF p.mf THEN x.total_len ELSE p.offset + p.len)
        /\ y.have_last \in BOOLEAN /\ (y.have_last <=> x.have_last \/ ~p.mf)
        /\ y.segs = (IF p.len = 0 THEN x.segs
                     ELSE Append(x.segs, [off |-> p.offset, len |-> p.len, of |-> p.of]))
        /\ y.ip_hdr = h.ip_hdr /\ y.age = 0
        /\ y = [in_use |-> y.in_use, key |-> y.key, total_len |-> y.total_len,
                have_last |-> y.have_last, segs |-> y.segs, ip_hdr |-> y.ip_hdr, age |-> y.age]
    BY <1>1, <1>5, StoredIs
  <1>7. /\ x.segs \in Seq(Seg) /\ x.have_last \in BOOLEAN /\ x.total_len \in 0..MaxSize
        /\ x.in_use \in BOOLEAN /\ x.key \in Keys \cup {None}
    BY <1>1 DEF Entry
  <1>8. /\ Len(x.segs) <= MaxFrags /\ x.in_use /\ x.key = Sent[d].key
        /\ \A k \in DOMAIN x.segs : \E j \in H \cap Filled(d) : x.segs[k] = SegOf(d, j)
        /\ x.ip_hdr \in {None, d}
        /\ x.have_last => Count(d) \in H /\ x.total_len = Size(d)
    BY Zenon DEF Holds
  <1>9. ASSUME NEW k \in DOMAIN x.segs
         PROVE  \E j \in G \cap Filled(d) : x.segs[k] = SegOf(d, j)
    <2>1. PICK j \in H \cap Filled(d) : x.segs[k] = SegOf(d, j)
      BY <1>8, Zenon
    <2>2. j \in G \cap Filled(d)
      OBVIOUS
    <2> QED
      BY <2>1, <2>2, Zenon
  <1>10. /\ y.segs \in Seq(Seg) /\ Len(y.segs) <= MaxFrags
        /\ \A k \in DOMAIN y.segs : \E j \in G \cap Filled(d) : y.segs[k] = SegOf(d, j)
    <2>1. CASE Sent[d].cuts[i] = 0
      <3>1. y.segs = x.segs
        BY <1>2, <1>6, <2>1, Zenon
      <3>2. x.segs \in Seq(Seg) /\ Len(x.segs) <= MaxFrags
        BY <1>7, <1>8, Zenon
      <3> QED
        BY <1>9, <3>1, <3>2, Zenon
    <2>2. CASE Sent[d].cuts[i] # 0
      <3>1. Sent[d].cuts[i] > 0
        BY <1>3, <2>2
      <3>2. i \in Filled(d)
        BY <3>1 DEF Filled
      <3>3. y.segs = Append(x.segs, SegOf(d, i))
        BY <1>2, <1>6, <2>2, Zenon DEF SegOf
      <3>4. SegOf(d, i) \in Seg
        BY <1>4, <3>2, SegIs
      <3>5. /\ y.segs \in Seq(Seg) /\ Len(y.segs) = Len(x.segs) + 1 /\ Len(x.segs) \in Nat
            /\ DOMAIN y.segs = DOMAIN x.segs \cup {Len(x.segs) + 1}
            /\ \A k \in DOMAIN x.segs : y.segs[k] = x.segs[k]
            /\ y.segs[Len(x.segs) + 1] = SegOf(d, i)
        BY <1>7, <3>3, <3>4, AppendIs
      <3>6. Len(y.segs) <= MaxFrags
        BY <1>4, <3>1, <3>5, NumbersAre
      <3>7. ASSUME NEW k \in DOMAIN y.segs
            PROVE  \E j \in G \cap Filled(d) : y.segs[k] = SegOf(d, j)
        <4>1. CASE k \in DOMAIN x.segs
          <5>1. y.segs[k] = x.segs[k]
            BY <3>5, <4>1, Zenon
          <5> QED
            BY <1>9, <4>1, <5>1, Zenon
        <4>2. CASE k \notin DOMAIN x.segs
          <5>1. k = Len(x.segs) + 1
            BY <3>5, <4>2, Zenon
          <5>2. i \in G \cap Filled(d)
            BY <3>2
          <5> QED
            BY <3>5, <5>1, <5>2, Zenon
        <4> QED
          BY <4>1, <4>2
      <3> QED
        BY <3>5, <3>6, <3>7, Zenon
    <2> QED
      BY <2>1, <2>2, Zenon
  <1>11. y.ip_hdr \in {None, d}
    BY <1>2, <1>6, <1>8, Zenon
  <1>12. y.have_last => Count(d) \in G /\ y.total_len = Size(d)
    <2>1. CASE i < Count(d)
      BY <1>2, <1>6, <1>8, <2>1, Zenon
    <2>2. CASE ~(i < Count(d))
      <3>1. i = Count(d)
        BY <1>3, <2>2
      <3>2. y.total_len = EndOf(d)[i]
        <4>1. ~p.mf
          BY <1>2, <2>2, Zenon
        <4>2. y.total_len = p.offset + p.len
          BY <1>6, <4>1, Zenon
        <4> QED
          BY <1>2, <1>3, <4>2, Zenon
      <3> QED
        BY <1>3, <3>1, <3>2, Zenon
    <2> QED
      BY <2>1, <2>2, Zenon
  <1>13. y.total_len \in 0..MaxSize
    <2>1. EndOf(d)[i] \in 0..MaxSize
      BY <1>3, <1>4, NumbersAre
    <2> QED
      BY <1>2, <1>3, <1>6, <1>7, <2>1, Zenon
  <1>14. y \in Entry
    <2>1. y.have_last \in BOOLEAN
      BY <1>6, Zenon
    <2>2. y.ip_hdr \in Dgrams \cup {None} /\ y.age \in 0..(IdLife + 1)
      <3>1. 0 \in 0..(IdLife + 1)
        BY NumbersAre
      <3> QED
        BY <1>6, <1>11, <3>1, Zenon
    <2>3. y.in_use \in BOOLEAN /\ y.key \in Keys \cup {None}
      BY <1>6, <1>7, Zenon
    <2> QED
      BY <1>6, <1>10, <1>13, <2>1, <2>2, <2>3, Zenon DEF Entry
  <1> QED
    BY <1>6, <1>8, <1>10, <1>11, <1>12, <1>14, Zenon DEF Holds

\* What Fits asks for, piece by piece.
LEMMA FitsIs ==
  ASSUME NEW d \in Dgrams, Fits(d)
  PROVE  /\ Size(d) <= MaxSize /\ ~Sent[d].long /\ Cardinality(Filled(d)) <= MaxFrags
         /\ \A i \in Pieces(d) : i < Count(d) => i \in Filled(d)
  <1>1. /\ Size(d) <= MaxSize /\ ~Sent[d].long
        /\ Cardinality({i \in Pieces(d) : Sent[d].cuts[i] > 0}) <= MaxFrags
        /\ \A i \in Pieces(d) : i < Len(Sent[d].cuts) => Sent[d].cuts[i] > 0
    BY Zenon DEF Fits
  <1>2. Filled(d) = {i \in Pieces(d) : Sent[d].cuts[i] > 0}
    BY Zenon DEF Filled
  <1>3. Count(d) = Len(Sent[d].cuts)
    BY Zenon DEF Count
  <1>4. \A i \in Pieces(d) : i < Count(d) => i \in Filled(d)
    BY <1>1, <1>2, <1>3
  <1> QED
    BY <1>1, <1>2, <1>4, Zenon

\* One more filled piece.
LEMMA OneMoreFilled ==
  ASSUME NEW d \in Dgrams, NEW H, NEW i \in Filled(d), i \notin H
  PROVE  /\ IsFiniteSet(H \cap Filled(d)) /\ Cardinality(H \cap Filled(d)) \in Nat
         /\ Cardinality((H \cup {i}) \cap Filled(d)) = Cardinality(H \cap Filled(d)) + 1
         /\ Cardinality(Filled(d)) \in Nat
         /\ Cardinality(H \cap Filled(d)) + 1 <= Cardinality(Filled(d))
  <1>1. IsFiniteSet(Filled(d))
    BY FilledFinite
  <1>2. H \cap Filled(d) \subseteq Filled(d) /\ i \notin H \cap Filled(d)
        /\ (H \cup {i}) \cap Filled(d) = (H \cap Filled(d)) \cup {i}
        /\ (H \cup {i}) \cap Filled(d) \subseteq Filled(d)
    OBVIOUS
  <1>3. IsFiniteSet(H \cap Filled(d))
    BY <1>1, <1>2, FS_Subset
  <1>4. Cardinality((H \cap Filled(d)) \cup {i}) = Cardinality(H \cap Filled(d)) + 1
    BY <1>2, <1>3, FS_AddElement
  <1>5. Cardinality((H \cup {i}) \cap Filled(d)) <= Cardinality(Filled(d))
    BY <1>1, <1>2, FS_Subset
  <1>6. Cardinality(H \cap Filled(d)) \in Nat /\ Cardinality(Filled(d)) \in Nat
    BY <1>1, <1>3, FS_CardinalityType
  <1> QED
    BY <1>2, <1>3, <1>4, <1>5, <1>6

\* An entry that has all that came has room for what did not.
LEMMA NotRefused ==
  ASSUME NEW d \in Dgrams, Fits(d), NEW i \in Pieces(d), NEW H, i \notin H,
         NEW x, Holds(x, d, H), Exact(x, d, H), NEW h, h = WithHeader(x, Piece[d][i])
  PROVE  ~Refused(h, Piece[d][i])
  <1>1. x \in Entry
    BY Zenon DEF Holds
  <1>2. /\ \A k \in DOMAIN x.segs : \E j \in H \cap Filled(d) : x.segs[k] = SegOf(d, j)
        /\ x.have_last => Count(d) \in H
    BY Zenon DEF Holds
  <1>3. Len(x.segs) = Cardinality(H \cap Filled(d))
    BY Zenon DEF Exact
  <1>4. Size(d) <= MaxSize /\ Cardinality(Filled(d)) <= MaxFrags
    BY FitsIs, Zenon
  <1>5. /\ i \in 1..Count(d) /\ i \in Nat /\ Count(d) \in Nat /\ Size(d) \in Nat
        /\ EndOf(d)[i] <= Size(d) /\ Sent[d].cuts[i] \in Nat /\ OffsetOf(d, i) \in Nat
        /\ OffsetOf(d, i) + Sent[d].cuts[i] = EndOf(d)[i]
    BY PieceLies
  <1>6. ~(EndOf(d)[i] > MaxSize)
    BY <1>4, <1>5, NumbersAre
  <1>7. ~(~(i < Count(d)) /\ x.have_last)
    <2>1. ~(i < Count(d)) => i = Count(d)
      <3>1. i \in 1..Count(d) /\ Count(d) \in Nat
        BY <1>5, Zenon
      <3> QED
        BY <3>1
    <2> QED
      BY <1>2, <2>1, Zenon
  <1>8. ASSUME Sent[d].cuts[i] > 0
        PROVE  /\ ~(Len(x.segs) >= MaxFrags)
               /\ ~ \E k \in DOMAIN x.segs : /\ OffsetOf(d, i) < x.segs[k].off + x.segs[k].len
                                            /\ x.segs[k].off < EndOf(d)[i]
    <2>1. i \in Filled(d)
      BY <1>8 DEF Filled
    <2>2. ~(Len(x.segs) >= MaxFrags)
      <3>1. /\ Cardinality(H \cap Filled(d)) \in Nat /\ Cardinality(Filled(d)) \in Nat
            /\ Cardinality(H \cap Filled(d)) + 1 <= Cardinality(Filled(d))
        BY <2>1, OneMoreFilled
      <3> QED
        BY <1>3, <1>4, <3>1, NumbersAre
    <2>3. ASSUME NEW k \in DOMAIN x.segs, OffsetOf(d, i) < x.segs[k].off + x.segs[k].len,
                 x.segs[k].off < EndOf(d)[i]
          PROVE  FALSE
      <3>1. PICK j \in H \cap Filled(d) : x.segs[k] = SegOf(d, j)
        BY <1>2
      <3>2. j \in Pieces(d) /\ j # i
        BY DEF Filled
      <3>3. /\ j \in Nat /\ OffsetOf(d, j) \in Nat /\ Sent[d].cuts[j] \in Nat
            /\ OffsetOf(d, j) + Sent[d].cuts[j] = EndOf(d)[j]
        BY <3>2, PieceLies
      <3>4. x.segs[k].off = OffsetOf(d, j) /\ x.segs[k].len = Sent[d].cuts[j]
        BY <3>1 DEF SegOf
      <3>5. OffsetOf(d, i) < EndOf(d)[j] /\ OffsetOf(d, j) < EndOf(d)[i]
        BY <2>3, <3>3, <3>4
      <3>6. i < j => EndOf(d)[i] <= OffsetOf(d, j)
        BY <3>2, PiecesApart
      <3>7. j < i => EndOf(d)[j] <= OffsetOf(d, i)
        BY <3>2, PiecesApart
      <3>8. EndOf(d)[i] \in Nat /\ EndOf(d)[j] \in Nat
        BY <1>5, <3>3
      <3> QED
        BY <1>5, <3>2, <3>3, <3>5, <3>6, <3>7, <3>8
    <2> QED
      BY <2>2, <2>3
  <1> QED
    BY <1>1, <1>6, <1>7, <1>8, RefusedIs

\* With a piece that did not come before it has all that came.
LEMMA StoreExact ==
  ASSUME NEW d \in Dgrams, Fits(d), NEW i \in Pieces(d), NEW H, i \notin H,
         NEW x, Holds(x, d, H), Exact(x, d, H), NEW h, h = WithHeader(x, Piece[d][i]),
         NEW y, y = Stored(h, Piece[d][i])
  PROVE  Exact(y, d, H \cup {i})
  <1> DEFINE p == Piece[d][i]
             G == H \cup {i}
  <1>1. x \in Entry /\ x.ip_hdr \in {None, d}
    BY Zenon DEF Holds
  <1>2. /\ p.of = d /\ p.offset = OffsetOf(d, i)
        /\ p.len = Sent[d].cuts[i] /\ (p.mf <=> i < Count(d))
    BY PieceIs
  <1>3. /\ OffsetOf(d, i) + Sent[d].cuts[i] = EndOf(d)[i]
        /\ i = 1 => OffsetOf(d, i) = 0
        /\ Sent[d].cuts[i] \in Nat /\ Count(d) \in Nat /\ i \in Nat
    BY PieceLies
  <1>4. ~Refused(h, p)
    BY NotRefused
  <1>5. EndOf(d)[i] <= MaxSize
    <2>1. EndOf(d)[i] <= Size(d) /\ Size(d) \in Nat /\ EndOf(d)[i] \in Nat
      BY PieceLies
    <2>2. Size(d) <= MaxSize
      BY FitsIs, Zenon
    <2> QED
      BY <2>1, <2>2, NumbersAre
  <1> HIDE DEF p
  <1>6. h = WithHeader(x, p) /\ y = Stored(h, p)
    BY DEF p
  <1>7. /\ h.ip_hdr = (IF p.offset = 0 /\ ~Sent[p.of].long THEN p.of ELSE x.ip_hdr)
        /\ (y.have_last <=> x.have_last \/ ~p.mf)
        /\ y.segs = (IF p.len = 0 THEN x.segs
                     ELSE Append(x.segs, [off |-> p.offset, len |-> p.len, of |-> p.of]))
        /\ y.ip_hdr = h.ip_hdr
    BY <1>1, <1>6, StoredIs
  <1>8. /\ \A j \in H \cap Filled(d) : \E k \in DOMAIN x.segs : x.segs[k] = SegOf(d, j)
        /\ Len(x.segs) = Cardinality(H \cap Filled(d))
        /\ Count(d) \in H => x.have_last
        /\ 1 \in H => x.ip_hdr = d
    BY Zenon DEF Exact
  <1>9. x.segs \in Seq(Seg)
    BY <1>1 DEF Entry
  <1>10. /\ \A j \in G \cap Filled(d) : \E k \in DOMAIN y.segs : y.segs[k] = SegOf(d, j)
         /\ Len(y.segs) = Cardinality(G \cap Filled(d))
    <2>1. CASE Sent[d].cuts[i] = 0
      <3>1. y.segs = x.segs
        BY <1>2, <1>7, <2>1, Zenon
      <3>2. i \notin Filled(d)
        BY <2>1 DEF Filled
      <3>3. G \cap Filled(d) = H \cap Filled(d)
        BY <3>2
      <3> QED
        BY <1>8, <3>1, <3>3, Zenon
    <2>2. CASE Sent[d].cuts[i] # 0
      <3>1. Sent[d].cuts[i] > 0
        BY <1>3, <2>2
      <3>2. i \in Filled(d)
        BY <3>1 DEF Filled
      <3>3. y.segs = Append(x.segs, SegOf(d, i))
        BY <1>2, <1>7, <2>2, Zenon DEF SegOf
      <3>4. SegOf(d, i) \in Seg
        BY <1>5, <3>2, SegIs
      <3>5. /\ Len(y.segs) = Len(x.segs) + 1
            /\ DOMAIN x.segs \subseteq DOMAIN y.segs /\ Len(x.segs) + 1 \in DOMAIN y.segs
            /\ \A k \in DOMAIN x.segs : y.segs[k] = x.segs[k]
            /\ y.segs[Len(x.segs) + 1] = SegOf(d, i)
        BY <1>9, <3>3, <3>4, AppendIs
      <3>6. Cardinality(G \cap Filled(d)) = Cardinality(H \cap Filled(d)) + 1
        BY <3>2, OneMoreFilled
      <3>7. ASSUME NEW j \in G \cap Filled(d)
            PROVE  \E k \in DOMAIN y.segs : y.segs[k] = SegOf(d, j)
        <4>1. CASE j = i
          BY <3>5, <4>1, Zenon
        <4>2. CASE j # i
          <5>1. j \in H \cap Filled(d)
            BY <4>2
          <5>2. PICK k \in DOMAIN x.segs : x.segs[k] = SegOf(d, j)
            BY <1>8, <5>1, Zenon
          <5>3. k \in DOMAIN y.segs /\ y.segs[k] = SegOf(d, j)
            BY <3>5, <5>2
          <5> QED
            BY <5>3, Zenon
        <4> QED
          BY <4>1, <4>2
      <3>8. Len(y.segs) = Cardinality(G \cap Filled(d))
        BY <1>8, <3>5, <3>6, Zenon
      <3> QED
        BY <3>7, <3>8, Zenon
    <2> QED
      BY <2>1, <2>2, Zenon
  <1>11. Count(d) \in G => y.have_last
    <2>1. i = Count(d) => ~(i < Count(d))
      BY <1>3
    <2> QED
      BY <1>2, <1>7, <1>8, <2>1, Zenon
  <1>12. 1 \in G => y.ip_hdr = d
    <2>1. ~Sent[d].long
      BY FitsIs, Zenon
    <2>2. i = 1 => y.ip_hdr = d
      BY <1>2, <1>3, <1>7, <2>1, Zenon
    <2>3. x.ip_hdr = d => y.ip_hdr = d
      BY <1>2, <1>7, Zenon
    <2> QED
      BY <1>8, <2>2, <2>3, Zenon
  <1> QED
    BY <1>10, <1>11, <1>12, Zenon DEF Exact

\* Where the bytes of an entry may end.
Ends(x) == {0} \cup {x.segs[k].off + x.segs[k].len : k \in DOMAIN x.segs}

LEMMA CompleteIs ==
  ASSUME NEW x
  PROVE  Complete(x) <=> /\ x.have_last
                         /\ \A k \in DOMAIN x.segs : x.segs[k].off \in Ends(x)
                         /\ x.total_len \in Ends(x) /\ \A n \in Ends(x) : n <= x.total_len
  BY Zenon DEF Complete, Ends

\* A segment ends where its piece does.
LEMMA SegEnds ==
  ASSUME NEW d \in Dgrams, NEW j \in Filled(d), NEW s, s = SegOf(d, j)
  PROVE  s.off = OffsetOf(d, j) /\ s.off + s.len = EndOf(d)[j]
  <1>1. s.off = OffsetOf(d, j) /\ s.len = Sent[d].cuts[j]
    BY DEF SegOf
  <1>2. j \in Pieces(d)
    BY DEF Filled
  <1>3. OffsetOf(d, j) + Sent[d].cuts[j] = EndOf(d)[j]
    BY <1>2, PieceLies
  <1> QED
    BY <1>1, <1>3, Zenon

\* So an end that is not 0 is that of a piece that came.
LEMMA EndsOfPieces ==
  ASSUME NEW d \in Dgrams, NEW H, NEW x, Holds(x, d, H), NEW n \in Ends(x), n # 0
  PROVE  \E j \in H \cap Filled(d) : n = EndOf(d)[j]
  <1>1. PICK k \in DOMAIN x.segs : n = x.segs[k].off + x.segs[k].len
    BY Zenon DEF Ends
  <1>2. PICK j \in H \cap Filled(d) : x.segs[k] = SegOf(d, j)
    BY Zenon DEF Holds
  <1>3. j \in Filled(d)
    BY Zenon
  <1>4. x.segs[k].off + x.segs[k].len = EndOf(d)[j]
    BY <1>2, <1>3, SegEnds, Zenon
  <1> QED
    BY <1>1, <1>4, Zenon

\* No gap means that nothing of the datagram is missing.
LEMMA CompleteAll ==
  ASSUME NEW d \in Dgrams, Fits(d), NEW H \in SUBSET Pieces(d),
         NEW x, Holds(x, d, H), Complete(x)
  PROVE  H = Pieces(d)
  <1> DEFINE n == Count(d)
             e == EndOf(d)
             J == {j \in H \cap Filled(d) : \E k \in DOMAIN x.segs : x.segs[k] = SegOf(d, j)}
             S == {k \in Nat : n - k \in H /\ e[n - k - 1] \in Ends(x)}
  <1>1. /\ \A k \in DOMAIN x.segs : x.segs[k].off \in Ends(x)
        /\ x.have_last /\ x.total_len \in Ends(x)
    BY CompleteIs, Zenon
  <1>2. n \in H /\ x.total_len = Size(d)
    BY <1>1, Zenon DEF Holds
  <1>3. n \in Nat /\ n >= 1 /\ Pieces(d) = 1..n /\ n \in Pieces(d)
    BY CutsAre, <1>2
  <1>4. \A i \in Pieces(d) : i < n => i \in Filled(d)
    BY FitsIs, Zenon
  <1>5. ASSUME NEW i \in Filled(d), e[i] \in Ends(x)
        PROVE  i \in H /\ OffsetOf(d, i) \in Ends(x)
    <2>1. e[i] # 0
      BY EndsPositive
    <2>2. e[i] \in Ends(x) \ {0}
      BY <1>5, <2>1
    <2>3. PICK k \in DOMAIN x.segs : e[i] = x.segs[k].off + x.segs[k].len
      BY <2>1, <1>5, Zenon DEF Ends
    <2>4. PICK j \in H \cap Filled(d) : x.segs[k] = SegOf(d, j)
      BY Zenon DEF Holds
    <2>5. j \in Filled(d) /\ j \in H
      BY Zenon
    <2>6. x.segs[k].off = OffsetOf(d, j) /\ x.segs[k].off + x.segs[k].len = e[j]
      BY <2>4, <2>5, SegEnds, Zenon
    <2>7. e[i] = e[j]
      BY <2>3, <2>6, Zenon
    <2>8. i = j
      BY <2>5, <2>7, EndsDiffer, Zenon
    <2> QED
      BY <1>1, <2>5, <2>6, <2>8, Zenon
  <1>6. e[n] \in Ends(x)
    BY <1>1, <1>2, Zenon DEF Size, Count
  <1>7. 0 \in S
    <2>1. n - 0 = n /\ n - 0 - 1 = n - 1
      BY <1>3
    <2>2. CASE n \in Filled(d)
      <3>1. OffsetOf(d, n) \in Ends(x)
        BY <1>5, <1>6, <2>2, Zenon
      <3>2. e[n - 1] \in Ends(x)
        BY <3>1, Zenon DEF OffsetOf
      <3> QED
        BY <1>2, <2>1, <3>2
    <2>3. CASE n \notin Filled(d)
      <3>1. /\ OffsetOf(d, n) \in Nat /\ Sent[d].cuts[n] \in Nat
            /\ OffsetOf(d, n) + Sent[d].cuts[n] = e[n]
        BY <1>3, PieceLies
      <3>2. ~(Sent[d].cuts[n] > 0)
        BY <1>3, <2>3 DEF Filled
      <3>3. OffsetOf(d, n) = e[n]
        BY <3>1, <3>2
      <3>4. e[n - 1] \in Ends(x)
        BY <1>6, <3>3, Zenon DEF OffsetOf
      <3> QED
        BY <1>2, <2>1, <3>4
    <2> QED
      BY <2>2, <2>3
  <1>8. ASSUME NEW k \in 0..(n - 2), k \in S PROVE k + 1 \in S
    <2>1. e[n - k - 1] \in Ends(x)
      BY <1>8
    <2>2. /\ n - k - 1 \in 1..n /\ n - k - 1 < n /\ n - (k + 1) = n - k - 1
          /\ k + 1 \in Nat /\ n - (k + 1) - 1 = n - k - 1 - 1
      BY <1>3
    <2>3. n - k - 1 \in Filled(d)
      BY <1>3, <1>4, <2>2
    <2>4. n - k - 1 \in H /\ OffsetOf(d, n - k - 1) \in Ends(x)
      BY <1>5, <2>1, <2>3, Zenon
    <2>5. e[n - k - 1 - 1] \in Ends(x)
      BY <2>4, Zenon DEF OffsetOf
    <2> QED
      BY <2>2, <2>4, <2>5
  <1> HIDE DEF S
  <1>9. \A k \in 0..(n - 1) : k \in S
    <2>1. n - 1 \in Nat /\ n - 1 - 1 = n - 2
      BY <1>3
    <2>2. PICK m : m = n - 1
      OBVIOUS
    <2>3. \A k \in 0..(m - 1) : k \in S => k + 1 \in S
      BY <1>8, <2>1, <2>2
    <2>4. \A k \in 0..m : k \in S
      BY <1>7, <2>1, <2>2, <2>3, UpTo
    <2> QED
      BY <2>2, <2>4
  <1>10. ASSUME NEW i \in Pieces(d) PROVE i \in H
    <2>1. n - i \in 0..(n - 1) /\ n - (n - i) = i
      BY <1>3
    <2>2. n - (n - i) \in H
      BY <1>9, <2>1 DEF S
    <2> QED
      BY <2>1, <2>2
  <1> QED
    BY <1>10

\* And an entry that has them all has no gap.
LEMMA AllComplete ==
  ASSUME NEW d \in Dgrams, Fits(d), NEW x, Holds(x, d, Pieces(d)), Exact(x, d, Pieces(d))
  PROVE  Complete(x) /\ x.ip_hdr = d
  <1> DEFINE n == Count(d)
             e == EndOf(d)
  <1>1. n \in Nat /\ n >= 1 /\ Pieces(d) = 1..n /\ n \in Pieces(d) /\ 1 \in Pieces(d)
    BY CutsAre
  <1>2. x.have_last /\ x.ip_hdr = d
    BY <1>1, Zenon DEF Exact
  <1>3. x.total_len = Size(d)
    BY <1>2, Zenon DEF Holds
  <1>4. \A i \in Pieces(d) : i < n => i \in Filled(d)
    BY FitsIs, Zenon
  <1>5. ASSUME NEW j \in Filled(d) PROVE e[j] \in Ends(x)
    <2>1. j \in Pieces(d) \cap Filled(d)
      BY DEF Filled
    <2>2. PICK k \in DOMAIN x.segs : x.segs[k] = SegOf(d, j)
      BY <2>1, Zenon DEF Exact
    <2>3. x.segs[k].off + x.segs[k].len = e[j]
      BY <2>2, SegEnds, Zenon
    <2> QED
      BY <2>3, Zenon DEF Ends
  <1>6. 0 \in Ends(x)
    BY Zenon DEF Ends
  <1>7. ASSUME NEW i \in Pieces(d) PROVE OffsetOf(d, i) \in Ends(x)
    <2>1. CASE i = 1
      <3>1. OffsetOf(d, i) = 0
        BY <2>1, PieceLies
      <3> QED
        BY <1>6, <3>1
    <2>2. CASE i # 1
      <3>1. i - 1 \in Pieces(d) /\ i - 1 < n
        BY <1>1, <2>2
      <3>2. e[i - 1] \in Ends(x)
        BY <1>4, <1>5, <3>1
      <3> QED
        BY <3>2, Zenon DEF OffsetOf
    <2> QED
      BY <2>1, <2>2
  <1>8. \A k \in DOMAIN x.segs : x.segs[k].off \in Ends(x)
    <2> TAKE k \in DOMAIN x.segs
    <2>1. PICK j \in Pieces(d) \cap Filled(d) : x.segs[k] = SegOf(d, j)
      BY Zenon DEF Holds
    <2>2. j \in Pieces(d) /\ j \in Filled(d)
      BY Zenon
    <2>3. x.segs[k].off = OffsetOf(d, j)
      BY <2>1, <2>2, SegEnds, Zenon
    <2> QED
      BY <1>7, <2>2, <2>3, Zenon
  <1>9. Size(d) \in Ends(x)
    <2>1. Size(d) = e[n]
      BY Zenon DEF Size, Count
    <2>2. CASE n \in Filled(d)
      BY <1>5, <2>1, <2>2, Zenon
    <2>3. CASE n \notin Filled(d)
      <3>1. /\ OffsetOf(d, n) \in Nat /\ Sent[d].cuts[n] \in Nat
            /\ OffsetOf(d, n) + Sent[d].cuts[n] = e[n]
        BY <1>1, PieceLies
      <3>2. ~(Sent[d].cuts[n] > 0)
        BY <1>1, <2>3 DEF Filled
      <3>3. OffsetOf(d, n) = e[n]
        BY <3>1, <3>2
      <3> QED
        BY <1>1, <1>7, <2>1, <3>3
    <2> QED
      BY <2>2, <2>3
  <1>10. ASSUME NEW m \in Ends(x) PROVE m <= Size(d)
    <2>1. Size(d) \in Nat
      BY <1>1, PieceLies
    <2>2. CASE m = 0
      BY <2>1, <2>2
    <2>3. CASE m # 0
      <3>1. PICK j \in Pieces(d) \cap Filled(d) : m = e[j]
        BY <2>3, EndsOfPieces
      <3>2. j \in Pieces(d)
        BY Zenon
      <3>3. e[j] <= Size(d)
        BY <3>2, PieceLies
      <3> QED
        BY <3>1, <3>3
    <2> QED
      BY <2>2, <2>3
  <1> QED
    BY <1>2, <1>3, <1>8, <1>9, <1>10, CompleteIs

LEMMA FreeIs ==
  /\ Free \in Entry /\ ~Free.in_use /\ Len(Free.segs) <= MaxFrags
  /\ Free = [in_use |-> FALSE, key |-> None, total_len |-> 0, have_last |-> FALSE,
             segs |-> <<>>, ip_hdr |-> None, age |-> 0]
  <1>1. /\ 0 \in 0..MaxSize /\ 0 \in 0..(IdLife + 1) /\ 0 <= MaxFrags
    BY NumbersAre
  <1>2. <<>> \in Seq(Seg) /\ Len(<<>>) = 0
    BY EmptySeq
  <1>3. Free.segs = <<>> /\ ~Free.in_use
    BY DEF Free
  <1>4. Free \in Entry
    BY <1>1, <1>2 DEF Free, Entry
  <1> QED
    BY <1>1, <1>2, <1>3, <1>4, Zenon DEF Free

\* A new entry holds nothing.
LEMMA NewIs ==
  ASSUME NEW d \in Dgrams
  PROVE  Holds(NewEntry(Sent[d].key), d, {}) /\ Exact(NewEntry(Sent[d].key), d, {})
  <1> DEFINE k == Sent[d].key
  <1>0. PICK x : x = NewEntry(k)
    OBVIOUS
  <1>1. k \in Keys
    BY DEF Keys
  <1> HIDE DEF k
  <1>2. x = [in_use |-> TRUE, key |-> k, total_len |-> 0, have_last |-> FALSE,
             segs |-> <<>>, ip_hdr |-> None, age |-> 0]
    <2>1. x = [Free EXCEPT !.in_use = TRUE, !.key = k]
      BY <1>0, Zenon DEF NewEntry
    <2> QED
      BY <2>1, FreeIs
  <1>3. /\ 0 \in 0..MaxSize /\ 0 \in 0..(IdLife + 1) /\ 0 <= MaxFrags
    BY NumbersAre
  <1>4. <<>> \in Seq(Seg) /\ Len(<<>>) = 0 /\ DOMAIN <<>> = {}
    BY EmptySeq
  <1>5. x \in Entry
    BY <1>1, <1>2, <1>3, <1>4 DEF Entry
  <1>6. /\ x.in_use /\ x.key = k /\ x.segs = <<>> /\ x.ip_hdr = None /\ ~x.have_last
    BY <1>2
  <1>7. Holds(x, d, {})
    BY <1>3, <1>4, <1>5, <1>6, Zenon DEF Holds, k
  <1>8. {} \cap Filled(d) = {} /\ Cardinality({}) = 0
    BY FS_EmptySet
  <1>9. Exact(x, d, {})
    <2>1. Len(x.segs) = Cardinality({} \cap Filled(d))
      BY <1>4, <1>6, <1>8
    <2> QED
      BY <2>1, Zenon DEF Exact
  <1> QED
    BY <1>0, <1>7, <1>9, Zenon DEF k

\* What holds pieces out of some holds pieces out of more.
LEMMA HoldsMore ==
  ASSUME NEW d, NEW x, NEW H, NEW G, H \subseteq G, Holds(x, d, H)
  PROVE  Holds(x, d, G)
  <1>1. \A j \in H \cap Filled(d) : j \in G \cap Filled(d)
    OBVIOUS
  <1>2. \A k \in DOMAIN x.segs : \E j \in G \cap Filled(d) : x.segs[k] = SegOf(d, j)
    BY <1>1, Zenon DEF Holds
  <1>3. x.have_last => Count(d) \in G /\ x.total_len = Size(d)
    BY Zenon DEF Holds
  <1> QED
    BY <1>2, <1>3, Zenon DEF Holds

\* The age of an entry says nothing of what it holds.
LEMMA AgeApart ==
  ASSUME NEW d, NEW x \in Entry, NEW H, NEW a \in 0..(IdLife + 1),
         NEW y, y = [x EXCEPT !.age = a]
  PROVE  /\ Holds(x, d, H) => Holds(y, d, H)
         /\ Exact(x, d, H) => Exact(y, d, H)
         /\ y \in Entry /\ y.age = a /\ y.in_use = x.in_use /\ y.key = x.key /\ y.segs = x.segs
  <1>1. /\ y \in Entry /\ y.age = a
        /\ y.in_use = x.in_use /\ y.key = x.key /\ y.segs = x.segs
        /\ y.have_last = x.have_last /\ y.total_len = x.total_len /\ y.ip_hdr = x.ip_hdr
    BY DEF Entry
  <1> QED
    BY <1>1, Zenon DEF Holds, Exact

-----------------------------------------------------------------------------
(* The table.                                                               *)

\* Entry i is there for datagram d, whose last piece is no older than it.
Owned(i, d) ==
    /\ Holds(entries[i], d, heard[d]) /\ heard[d] # {} /\ quiet[d] <= entries[i].age

Types ==
    /\ entries \in [Slots -> Entry] /\ sinceGc \in 0..(GcEvery + Poll)
    /\ spoiled \subseteq Dgrams /\ quiet \in [Dgrams -> Nat]
    /\ heard \in [Dgrams -> SUBSET Nat] /\ \A d \in Dgrams : heard[d] \subseteq Pieces(d)
    /\ IsFiniteSet({d \in Dgrams : heard[d] # {}})

\* An entry is there for a datagram and is collected in time.
SlotsKept ==
    \A i \in Slots :
       /\ Len(entries[i].segs) <= MaxFrags
       /\ entries[i].in_use => /\ entries[i].age <= Timeout + sinceGc
                               /\ \E d \in Dgrams : Owned(i, d)

\* It has all that came of d, as fresh as d.
Fresh(i, d) ==
    Owned(i, d) /\ Exact(entries[i], d, heard[d]) /\ entries[i].age = quiet[d]

\* All of d came and was handed on, or it waits for the rest.
Passed(d) ==
    /\ heard[d] = Pieces(d) /\ \E pkt \in up : pkt.of = d
    /\ \A i \in Slots : entries[i].in_use /\ entries[i].key = Sent[d].key => quiet[d] > IdLife

Waits(d) ==
    heard[d] # Pieces(d) /\ quiet[d] <= Timeout /\ \E i \in Slots : Fresh(i, d)

Claims(d) == d \in Dgrams /\ d \notin spoiled /\ Fits(d) /\ heard[d] # {}

ClaimsMet == \A d \in Dgrams : Claims(d) => Passed(d) \/ Waits(d)

IInv == Types /\ SlotsKept /\ OneEntryPerKey /\ HandedOnAsSent /\ ClaimsMet

\* The owner of an entry that a datagram's own key finds is that datagram.
LEMMA OwnerIs ==
  ASSUME Types, SlotsKept, NEW d \in Dgrams, MayUseKey(d),
         NEW s \in Slots, entries[s].in_use, entries[s].key = Sent[d].key
  PROVE  Owned(s, d)
  <1>1. PICK o \in Dgrams : Owned(s, o)
    BY Zenon DEF SlotsKept
  <1>2. Sent[o].key = Sent[d].key /\ heard[o] # {} /\ quiet[o] <= entries[s].age
    BY <1>1, Zenon DEF Owned, Holds
  <1>3. quiet[o] <= IdLife
    <2>1. entries[s].age <= Timeout + sinceGc
      BY Zenon DEF SlotsKept
    <2>2. entries[s] \in Entry /\ sinceGc \in 0..(GcEvery + Poll) /\ quiet[o] \in Nat
      BY DEF Types
    <2>3. entries[s].age \in Nat
      BY <2>2, NumbersAre DEF Entry
    <2> QED
      BY <1>2, <2>1, <2>2, <2>3, NumbersAre
  <1>4. quiet[o] \in Nat /\ IdLife \in Nat
    BY NumbersAre DEF Types
  <1>5. o \notin Dgrams \ {d}
    <2>1. ~(quiet[o] > IdLife)
      BY <1>3, <1>4
    <2> QED
      BY <1>2, <2>1, Zenon DEF MayUseKey
  <1>6. o = d
    BY <1>5
  <1> QED
    BY <1>1, <1>6, Zenon

\* Some entry is the oldest.
LEMMA OldestIs ==
  ASSUME Types
  PROVE  {i \in Slots : \A j \in Slots : entries[j].age <= entries[i].age} # {}
  <1> DEFINE A == {IdLife + 1 - entries[i].age : i \in Slots}
  <1>1. \A i \in Slots : entries[i].age \in 0..(IdLife + 1)
    BY DEF Types, Entry
  <1>2. IdLife \in Nat /\ 1 \in Slots
    BY NumbersAre DEF Slots
  <1>3. A \subseteq Nat /\ A # {}
    BY <1>1, <1>2
  <1>4. PICK m \in A : \A k \in A : m <= k
    <2> HIDE DEF A
    <2> QED
      BY <1>3, Least
  <1>5. PICK i \in Slots : m = IdLife + 1 - entries[i].age
    OBVIOUS
  <1>6. ASSUME NEW j \in Slots PROVE entries[j].age <= entries[i].age
    <2>1. IdLife + 1 - entries[i].age <= IdLife + 1 - entries[j].age
      BY <1>4, <1>5
    <2>2. entries[i].age \in Nat /\ entries[j].age \in Nat /\ IdLife \in Nat
      BY <1>1, <1>2
    <2> QED
      BY <2>1, <2>2
  <1> QED
    BY <1>6

LEMMA VictimIs ==
  ASSUME Types
  PROVE  /\ Victim \in Slots
         /\ \A s \in Slots : s = Victim /\ entries[s].in_use /\ ~TimedOut(entries[s])
               => \A t \in Slots : /\ entries[t].in_use /\ ~TimedOut(entries[t])
                                   /\ entries[t].age <= entries[s].age
  <1> DEFINE idle == {i \in Slots : ~entries[i].in_use \/ TimedOut(entries[i])}
             oldest == {i \in Slots : \A j \in Slots : entries[j].age <= entries[i].age}
  <1>1. Victim = IF idle # {} THEN Lowest(idle) ELSE Lowest(oldest)
    BY Zenon DEF Victim
  <1>2. idle \subseteq Slots /\ oldest \subseteq Slots
    OBVIOUS
  <1>3. oldest # {}
    BY OldestIs, Zenon
  <1>4. idle # {} => Lowest(idle) \in idle
    BY <1>2, LowestIs
  <1>5. Lowest(oldest) \in oldest
    <2> HIDE DEF oldest
    <2> QED
      BY <1>2, <1>3, LowestIs
  <1>6. idle # {} => Victim \in idle
    BY <1>1, <1>4, Zenon
  <1>7. idle = {} => Victim \in oldest
    BY <1>1, <1>5, Zenon
  <1>8. Victim \in Slots
    BY <1>2, <1>6, <1>7
  <1>9. ASSUME NEW s \in Slots, s = Victim, entries[s].in_use, ~TimedOut(entries[s]), NEW t \in Slots
        PROVE  /\ entries[t].in_use /\ ~TimedOut(entries[t])
               /\ entries[t].age <= entries[s].age
    <2>1. s \notin idle
      BY <1>9, Zenon
    <2>2. idle = {}
      BY <1>6, <1>9, <2>1, Zenon
    <2>3. s \in oldest
      BY <1>7, <1>9, <2>2, Zenon
    <2>4. entries[t].age <= entries[s].age
      BY <2>3, Zenon
    <2>5. t \notin idle
      BY <2>2, Zenon
    <2> QED
      BY <2>4, <2>5, Zenon
  <1> QED
    BY <1>8, <1>9, Zenon

\* What an insertion does to slot s: x is the entry found or made, z what is
\* left there.
Inserts(d, i, memory, s, x, z) ==
    /\ s \in Slots /\ entries' = [entries EXCEPT ![s] = z] /\ Holds(x, d, heard[d])
    /\ Find(Sent[d].key) # {} =>
          x = entries[s] /\ entries[s].in_use /\ entries[s].key = Sent[d].key
    /\ Find(Sent[d].key) = {} => x = NewEntry(Sent[d].key) /\ s = Victim
    /\ \A t \in Slots \ {s} : ~(entries[t].in_use /\ entries[t].key = Sent[d].key)

\* The three ends of it.
GivesUp(d, i, memory, x, z) ==
    /\ z = Free /\ up' = up
    /\ \/ Find(Sent[d].key) = {} /\ ~memory
       \/ Refused(WithHeader(x, Piece[d][i]), Piece[d][i])

Keeps(d, i, x, z) ==
    /\ ~Refused(WithHeader(x, Piece[d][i]), Piece[d][i])
    /\ z = Stored(WithHeader(x, Piece[d][i]), Piece[d][i])
    /\ ~Complete(z) /\ up' = up

Finishes(d, i, memory, x, z) ==
    /\ ~Refused(WithHeader(x, Piece[d][i]), Piece[d][i])
    /\ Complete(Stored(WithHeader(x, Piece[d][i]), Piece[d][i]))
    /\ z = Free
    /\ up' = IF memory /\ WithHeader(x, Piece[d][i]).ip_hdr # None
             THEN up \cup {Rebuild(Stored(WithHeader(x, Piece[d][i]), Piece[d][i]))}
             ELSE up

\* An insertion unfolded.
Splits(p, memory, s, x) ==
    LET h == WithHeader(x, p)
        y == Stored(h, p)
    IN \/ /\ Find(p.key) = {} /\ ~memory
          /\ entries' = [entries EXCEPT ![s] = Free] /\ up' = up
       \/ Refused(h, p) /\ entries' = [entries EXCEPT ![s] = Free] /\ up' = up
       \/ /\ ~Refused(h, p) /\ ~Complete(y)
          /\ entries' = [entries EXCEPT ![s] = y] /\ up' = up
       \/ /\ ~Refused(h, p) /\ Complete(y)
          /\ entries' = [entries EXCEPT ![s] = Free]
          /\ up' = IF memory /\ h.ip_hdr # None THEN up \cup {Rebuild(y)} ELSE up

LEMMA InsertSplits ==
  ASSUME NEW p, NEW memory \in BOOLEAN, Insert(p, memory), NEW s, s = SlotFor(p.key),
         NEW x, x = IF Find(p.key) # {} THEN entries[s] ELSE NewEntry(p.key)
  PROVE  Splits(p, memory, s, x)
  BY DEF Insert, Splits

LEMMA InsertIs ==
  ASSUME Types, SlotsKept, OneEntryPerKey, NEW d \in Dgrams, NEW i \in Pieces(d),
         NEW memory \in BOOLEAN, MayUseKey(d), Insert(Piece[d][i], memory)
  PROVE  \E s, x, z : /\ Inserts(d, i, memory, s, x, z)
                      /\ \/ GivesUp(d, i, memory, x, z)
                         \/ Keeps(d, i, x, z)
                         \/ Finishes(d, i, memory, x, z)
  <1> DEFINE k == Sent[d].key
             s == SlotFor(k)
             x == IF Find(k) # {} THEN entries[s] ELSE NewEntry(k)
             p == Piece[d][i]
             h == WithHeader(x, p)
             y == Stored(h, p)
             Base == /\ s \in Slots /\ Holds(x, d, heard[d])
                     /\ Find(k) # {} => x = entries[s] /\ entries[s].in_use /\ entries[s].key = k
                     /\ Find(k) = {} => x = NewEntry(k) /\ s = Victim
                     /\ \A t \in Slots \ {s} : ~(entries[t].in_use /\ entries[t].key = k)
  <1>1. p.key = k
    BY PieceIs
  <1>2. ASSUME Find(k) # {} PROVE Base
    <2>1. Find(k) \subseteq Slots
      BY DEF Find
    <2>2. s \in Find(k)
      BY <1>2, <2>1, LowestIs DEF SlotFor
    <2>3. s \in Slots /\ entries[s].in_use /\ entries[s].key = k
      BY <2>2, Zenon DEF Find
    <2>4. Owned(s, d)
      BY <2>3, OwnerIs
    <2>5. x = entries[s]
      BY <1>2, Zenon
    <2>6. Holds(x, d, heard[d])
      BY <2>4, <2>5, Zenon DEF Owned
    <2>7. \A t \in Slots \ {s} : ~(entries[t].in_use /\ entries[t].key = k)
      <3> HIDE DEF s, k
      <3> QED
        BY <2>3, Zenon DEF OneEntryPerKey
    <2> QED
      BY <1>2, <2>3, <2>5, <2>6, <2>7, Zenon
  <1>3. ASSUME Find(k) = {} PROVE Base
    <2>1. s = Victim /\ x = NewEntry(k)
      BY <1>3, Zenon DEF SlotFor
    <2>2. s \in Slots
      BY <2>1, VictimIs, Zenon
    <2>3. Holds(x, d, {})
      BY <2>1, NewIs, Zenon
    <2>4. Holds(x, d, heard[d])
      BY <2>3, HoldsMore
    <2>5. \A t \in Slots : ~(entries[t].in_use /\ entries[t].key = k)
      BY <1>3, Zenon DEF Find
    <2> QED
      BY <1>3, <2>1, <2>2, <2>4, <2>5, Zenon
  <1>4. Base
    BY <1>2, <1>3, Zenon
  <1>5. \/ /\ entries' = [entries EXCEPT ![s] = Free]
           /\ GivesUp(d, i, memory, x, Free)
        \/ /\ entries' = [entries EXCEPT ![s] = y]
           /\ Keeps(d, i, x, y)
        \/ /\ entries' = [entries EXCEPT ![s] = Free]
           /\ Finishes(d, i, memory, x, Free)
    <2>1. \/ /\ Find(k) = {} /\ ~memory
             /\ entries' = [entries EXCEPT ![s] = Free] /\ up' = up
          \/ Refused(h, p) /\ entries' = [entries EXCEPT ![s] = Free] /\ up' = up
          \/ /\ ~Refused(h, p) /\ ~Complete(y)
             /\ entries' = [entries EXCEPT ![s] = y] /\ up' = up
          \/ /\ ~Refused(h, p) /\ Complete(y)
             /\ entries' = [entries EXCEPT ![s] = Free]
             /\ up' = IF memory /\ h.ip_hdr # None THEN up \cup {Rebuild(y)} ELSE up
      <3> HIDE DEF p, k
      <3>1. s = SlotFor(p.key) /\ x = IF Find(p.key) # {} THEN entries[s] ELSE NewEntry(p.key)
        BY <1>1, Zenon
      <3> HIDE DEF s, x
      <3>2. Insert(p, memory)
        BY Zenon DEF p
      <3>3. Splits(p, memory, s, x)
        BY <3>1, <3>2, InsertSplits, Zenon
      <3> QED
        BY <1>1, <3>3, Zenon DEF Splits
    <2> QED
      BY <2>1, Zenon DEF GivesUp, Keeps, Finishes
  <1> HIDE DEF s, x, y, k
  <1>6. \A z : entries' = [entries EXCEPT ![s] = z] => Inserts(d, i, memory, s, x, z)
    BY <1>4, Zenon DEF Inserts, k
  <1> QED
    BY <1>5, <1>6, Zenon

\* What came of d, and when, after one more piece.
LEMMA HeardIs ==
  ASSUME Types, NEW d \in Dgrams, NEW i \in Pieces(d),
         heard' = [heard EXCEPT ![d] = @ \cup {i}], quiet' = [quiet EXCEPT ![d] = 0]
  PROVE  /\ heard'[d] = heard[d] \cup {i} /\ quiet'[d] = 0
         /\ \A o \in Dgrams \ {d} : heard'[o] = heard[o] /\ quiet'[o] = quiet[o]
         /\ \A o \in Dgrams : heard[o] \subseteq heard'[o] /\ quiet'[o] <= quiet[o]
         /\ heard' \in [Dgrams -> SUBSET Nat] /\ \A o \in Dgrams : heard'[o] \subseteq Pieces(o)
         /\ quiet' \in [Dgrams -> Nat]
         /\ IsFiniteSet({o \in Dgrams : heard'[o] # {}})
  <1>1. /\ quiet \in [Dgrams -> Nat] /\ heard \in [Dgrams -> SUBSET Nat]
        /\ \A o \in Dgrams : heard[o] \subseteq Pieces(o)
    BY DEF Types
  <1>2. i \in Nat
    BY PieceLies
  <1>3. /\ heard'[d] = heard[d] \cup {i}
        /\ \A o \in Dgrams \ {d} : heard'[o] = heard[o]
    BY <1>1
  <1>4. /\ quiet'[d] = 0 /\ quiet' \in [Dgrams -> Nat]
        /\ \A o \in Dgrams \ {d} : quiet'[o] = quiet[o]
    BY <1>1
  <1>5. heard' \in [Dgrams -> SUBSET Nat]
    BY <1>1, <1>2
  <1>6. ASSUME NEW o \in Dgrams
        PROVE  heard[o] \subseteq heard'[o] /\ heard'[o] \subseteq Pieces(o)
    <2>1. CASE o = d
      BY <1>1, <1>3, <2>1
    <2>2. CASE o # d
      BY <1>1, <1>3, <2>2
    <2> QED
      BY <2>1, <2>2
  <1>7. \A o \in Dgrams : quiet'[o] <= quiet[o]
    <2> TAKE o \in Dgrams
    <2>1. quiet[o] \in Nat
      BY <1>1
    <2>2. CASE o = d
      BY <1>4, <2>1, <2>2
    <2>3. CASE o # d
      BY <1>4, <2>1, <2>3
    <2> QED
      BY <2>2, <2>3
  <1>8. IsFiniteSet({o \in Dgrams : heard'[o] # {}})
    <2> DEFINE A == {o \in Dgrams : heard[o] # {}}
               B == {o \in Dgrams : heard'[o] # {}}
    <2>1. IsFiniteSet(A)
      BY Zenon DEF Types
    <2>2. B \subseteq A \cup {d}
      BY <1>3
    <2> HIDE DEF A, B
    <2>3. IsFiniteSet(A \cup {d})
      BY <2>1, FS_AddElement
    <2>4. IsFiniteSet(B)
      BY <2>2, <2>3, FS_Subset
    <2> QED
      BY <2>4 DEF B
  <1> QED
    BY <1>3, <1>4, <1>5, <1>6, <1>7, <1>8, Zenon

\* A slot filled anew.
LEMMA SlotIs ==
  ASSUME Types, NEW s \in Slots, NEW z \in Entry, entries' = [entries EXCEPT ![s] = z]
  PROVE  /\ entries' \in [Slots -> Entry] /\ entries'[s] = z
         /\ \A t \in Slots \ {s} : entries'[t] = entries[t]
  BY DEF Types

\* What an insertion leaves in its slot and adds to what is handed on.
LeavesWell(d, i, z) ==
    /\ z \in Entry /\ Len(z.segs) <= MaxFrags
    /\ z.in_use => Holds(z, d, heard[d] \cup {i}) /\ z.age = 0
    /\ \/ up' = up
       \/ \E pkt : /\ up' = up \cup {pkt} /\ pkt.of = d
                   /\ pkt.size = Size(d) /\ pkt.from \subseteq {d}

LEMMA InsertMakes ==
  ASSUME Types, NEW d \in Dgrams, NEW i \in Pieces(d), NEW memory \in BOOLEAN,
         NEW s, NEW x, NEW z, Inserts(d, i, memory, s, x, z),
         GivesUp(d, i, memory, x, z) \/ Keeps(d, i, x, z) \/ Finishes(d, i, memory, x, z)
  PROVE  LeavesWell(d, i, z)
  <1> DEFINE h == WithHeader(x, Piece[d][i])
             y == Stored(h, Piece[d][i])
  <1>1. Holds(x, d, heard[d])
    BY Zenon DEF Inserts
  <1>2. /\ Free \in Entry /\ Len(Free.segs) <= MaxFrags /\ ~Free.in_use
    BY FreeIs, Zenon
  <1>3. ASSUME ~Refused(h, Piece[d][i])
        PROVE  Holds(y, d, heard[d] \cup {i}) /\ y.age = 0 /\ h.ip_hdr = y.ip_hdr
    BY <1>1, <1>3, StoreHolds
  <1>4. CASE GivesUp(d, i, memory, x, z)
    BY <1>2, <1>4, Zenon DEF GivesUp, LeavesWell
  <1>5. CASE Keeps(d, i, x, z)
    <2>1. Holds(z, d, heard[d] \cup {i}) /\ z.age = 0
      BY <1>3, <1>5, Zenon DEF Keeps
    <2>2. z \in Entry /\ Len(z.segs) <= MaxFrags
      BY <2>1, Zenon DEF Holds
    <2>3. up' = up
      BY <1>5, Zenon DEF Keeps
    <2> QED
      BY <2>1, <2>2, <2>3, Zenon DEF LeavesWell
  <1>6. CASE Finishes(d, i, memory, x, z)
    <2>1. /\ ~Refused(h, Piece[d][i]) /\ Complete(y) /\ z = Free
          /\ up' = IF memory /\ h.ip_hdr # None THEN up \cup {Rebuild(y)} ELSE up
      BY <1>6, Zenon DEF Finishes
    <2>2. Holds(y, d, heard[d] \cup {i}) /\ h.ip_hdr = y.ip_hdr
      BY <1>3, <2>1, Zenon
    <2> HIDE DEF h, y
    <2>3. y.total_len = Size(d)
      <3>1. y.have_last
        BY <2>1, Zenon DEF Complete
      <3> QED
        BY <2>2, <3>1, Zenon DEF Holds
    <2>4. y.ip_hdr \in {None, d}
      BY <2>2, Zenon DEF Holds
    <2>5. \A k \in DOMAIN y.segs : y.segs[k].of = d
      <3> TAKE k \in DOMAIN y.segs
      <3>1. PICK j : y.segs[k] = SegOf(d, j)
        BY <2>2, Zenon DEF Holds
      <3> QED
        BY <3>1 DEF SegOf
    <2>6. /\ Rebuild(y).of = y.ip_hdr /\ Rebuild(y).size = y.total_len
          /\ Rebuild(y).from = {y.segs[k].of : k \in DOMAIN y.segs}
      BY DEF Rebuild
    <2>7. Rebuild(y).from \subseteq {d}
      BY <2>5, <2>6
    <2>8. CASE memory /\ h.ip_hdr # None
      <3>1. Rebuild(y).of = d /\ Rebuild(y).size = Size(d) /\ up' = up \cup {Rebuild(y)}
        BY <2>1, <2>2, <2>3, <2>4, <2>6, <2>8, Zenon
      <3> QED
        BY <1>2, <2>1, <2>7, <3>1, Zenon DEF LeavesWell
    <2>9. CASE ~(memory /\ h.ip_hdr # None)
      BY <1>2, <2>1, <2>9, Zenon DEF LeavesWell
    <2> QED
      BY <2>8, <2>9
  <1> QED
    BY <1>4, <1>5, <1>6

-----------------------------------------------------------------------------
(* The steps: the slots, one entry per packet, what is handed on.           *)

\* Who is not heard of keeps an entry that is not touched.
LEMMA OwnerStays ==
  ASSUME Types, Types', NEW o \in Dgrams, NEW t \in Slots, Owned(t, o),
         heard[o] \subseteq heard'[o], quiet'[o] <= quiet[o], entries'[t] = entries[t]
  PROVE  Owned(t, o)'
  <1>1. Holds(entries[t], o, heard[o]) /\ heard[o] # {} /\ quiet[o] <= entries[t].age
    BY Zenon DEF Owned
  <1>2. Holds(entries[t], o, heard'[o])
    BY <1>1, HoldsMore
  <1>3. heard'[o] # {}
    BY <1>1
  <1>4. quiet'[o] <= entries[t].age
    <2>1. quiet[o] \in Nat /\ quiet'[o] \in Nat /\ entries[t] \in Entry
      BY DEF Types
    <2>2. entries[t].age \in Nat
      BY <2>1, NumbersAre DEF Entry
    <2> QED
      BY <1>1, <2>1, <2>2
  <1>5. Holds(entries'[t], o, heard'[o]) /\ heard'[o] # {} /\ quiet'[o] <= entries'[t].age
    BY <1>2, <1>3, <1>4, Zenon
  <1> QED
    BY <1>5, Zenon DEF Owned

LEMMA InsertKeeps ==
  ASSUME IInv, NEW d \in Dgrams, NEW i \in Pieces(d), NEW memory \in BOOLEAN,
         NEW s, NEW x, NEW z, Inserts(d, i, memory, s, x, z),
         GivesUp(d, i, memory, x, z) \/ Keeps(d, i, x, z) \/ Finishes(d, i, memory, x, z),
         heard' = [heard EXCEPT ![d] = @ \cup {i}], quiet' = [quiet EXCEPT ![d] = 0],
         sinceGc' = sinceGc, spoiled' \subseteq Dgrams
  PROVE  /\ Types' /\ SlotsKept' /\ OneEntryPerKey' /\ HandedOnAsSent'
         /\ LeavesWell(d, i, z)
  <1>1. Types /\ SlotsKept /\ OneEntryPerKey /\ HandedOnAsSent
    BY Zenon DEF IInv
  <1>2. /\ s \in Slots /\ entries' = [entries EXCEPT ![s] = z]
        /\ \A t \in Slots \ {s} : ~(entries[t].in_use /\ entries[t].key = Sent[d].key)
    BY Zenon DEF Inserts
  <1>3. LeavesWell(d, i, z)
    BY <1>1, InsertMakes
  <1>4. /\ z \in Entry /\ Len(z.segs) <= MaxFrags
        /\ z.in_use => Holds(z, d, heard[d] \cup {i}) /\ z.age = 0
        /\ \/ up' = up
           \/ \E pkt : /\ up' = up \cup {pkt} /\ pkt.of = d
                       /\ pkt.size = Size(d) /\ pkt.from \subseteq {d}
    BY <1>3, Zenon DEF LeavesWell
  <1>5. /\ entries' \in [Slots -> Entry] /\ entries'[s] = z
        /\ \A t \in Slots \ {s} : entries'[t] = entries[t]
    BY <1>1, <1>2, <1>4, SlotIs
  <1>6. /\ heard'[d] = heard[d] \cup {i} /\ quiet'[d] = 0
        /\ \A o \in Dgrams : heard[o] \subseteq heard'[o] /\ quiet'[o] <= quiet[o]
        /\ heard' \in [Dgrams -> SUBSET Nat] /\ \A o \in Dgrams : heard'[o] \subseteq Pieces(o)
        /\ quiet' \in [Dgrams -> Nat]
        /\ IsFiniteSet({o \in Dgrams : heard'[o] # {}})
    BY <1>1, HeardIs
  <1>7. Types'
    <2>1. sinceGc' \in 0..(GcEvery + Poll)
      BY <1>1, Zenon DEF Types
    <2> QED
      BY <1>5, <1>6, <2>1, Zenon DEF Types
  <1>8. SlotsKept'
    <2> SUFFICES ASSUME NEW t \in Slots
                 PROVE  /\ Len(entries'[t].segs) <= MaxFrags
                        /\ entries'[t].in_use =>
                              /\ entries'[t].age <= Timeout + sinceGc'
                              /\ \E o \in Dgrams : Owned(t, o)'
      BY Zenon DEF SlotsKept
    <2>1. CASE t = s
      <3>1. 0 <= Timeout + sinceGc'
        <4>1. sinceGc' \in 0..(GcEvery + Poll)
          BY <1>7 DEF Types
        <4> QED
          BY <4>1, NumbersAre
      <3>2. ASSUME z.in_use PROVE Owned(t, d)'
        <4>1. Holds(entries'[t], d, heard'[d])
          BY <1>4, <1>5, <1>6, <2>1, <3>2, Zenon
        <4>2. heard'[d] # {}
          BY <1>6
        <4>3. quiet'[d] <= entries'[t].age
          <5>1. entries'[t].age = 0 /\ quiet'[d] = 0
            BY <1>4, <1>5, <1>6, <2>1, <3>2, Zenon
          <5> QED
            BY <5>1
        <4> QED
          BY <4>1, <4>2, <4>3, Zenon DEF Owned
      <3> QED
        BY <1>4, <1>5, <2>1, <3>1, <3>2, Zenon
    <2>2. CASE t # s
      <3>1. entries'[t] = entries[t] /\ sinceGc' = sinceGc
        BY <1>5, <2>2
      <3>2. /\ Len(entries[t].segs) <= MaxFrags
            /\ entries[t].in_use => /\ entries[t].age <= Timeout + sinceGc
                                    /\ \E o \in Dgrams : Owned(t, o)
        BY <1>1, Zenon DEF SlotsKept
      <3>3. ASSUME NEW o \in Dgrams, Owned(t, o) PROVE Owned(t, o)'
        BY <1>1, <1>6, <1>7, <3>1, <3>3, OwnerStays
      <3> QED
        BY <3>1, <3>2, <3>3, Zenon
    <2> QED
      BY <2>1, <2>2
  <1>9. OneEntryPerKey'
    <2> SUFFICES ASSUME NEW t \in Slots, NEW u \in Slots, entries'[t].in_use, entries'[u].in_use,
                        entries'[t].key = entries'[u].key
                 PROVE  t = u
      BY Zenon DEF OneEntryPerKey
    <2>1. z.in_use => z.key = Sent[d].key
      BY <1>4, Zenon DEF Holds
    <2>2. \A v \in Slots : v # s => entries'[v] = entries[v]
      BY <1>5
    <2>3. \A v \in Slots : v # s => ~(entries[v].in_use /\ entries[v].key = Sent[d].key)
      BY <1>2
    <2>4. CASE t = s /\ u # s
      BY <1>5, <2>1, <2>2, <2>3, <2>4, Zenon
    <2>5. CASE t # s /\ u = s
      BY <1>5, <2>1, <2>2, <2>3, <2>5, Zenon
    <2>6. CASE t # s /\ u # s
      BY <1>1, <2>2, <2>6, Zenon DEF OneEntryPerKey
    <2> QED
      BY <2>4, <2>5, <2>6, Zenon
  <1>10. HandedOnAsSent'
    <2> SUFFICES ASSUME NEW pkt \in up'
                 PROVE  pkt.size = Size(pkt.of) /\ pkt.from \subseteq {pkt.of}
      BY Zenon DEF HandedOnAsSent
    <2>1. CASE pkt \in up
      BY <1>1, <2>1, Zenon DEF HandedOnAsSent
    <2>2. CASE pkt \notin up
      BY <1>4, <2>2
    <2> QED
      BY <2>1, <2>2
  <1> QED
    BY <1>7, <1>8, <1>9, <1>10, <1>3, Zenon

-----------------------------------------------------------------------------
(* The steps: the datagrams that must get through.                          *)

\* Where each of S has one of T to itself, there are no fewer of T.
LEMMA OneEach ==
  ASSUME NEW S, NEW T, NEW R, IsFiniteSet(S), IsFiniteSet(T),
         \A t \in S : \E o \in T : <<t, o>> \in R,
         \A t, u \in S : \A o \in T : <<t, o>> \in R /\ <<u, o>> \in R => t = u
  PROVE  /\ Cardinality(S) \in Nat /\ Cardinality(T) \in Nat
         /\ Cardinality(S) <= Cardinality(T)
  <1> DEFINE f == [t \in S |-> CHOOSE o \in T : <<t, o>> \in R]
  <1>1. \A t \in S : f[t] \in T /\ <<t, f[t]>> \in R
    <2> TAKE t \in S
    <2>1. f[t] = CHOOSE o \in T : <<t, o>> \in R
      BY Zenon
    <2>2. \E o \in T : <<t, o>> \in R
      OBVIOUS
    <2> QED
      BY <2>1, <2>2, Zenon
  <1>2. f \in [S -> T]
    BY <1>1, Zenon
  <1> HIDE DEF f
  <1>3. Cardinality(S) \in Nat /\ Cardinality(T) \in Nat
    BY FS_CardinalityType
  <1>4. ASSUME Cardinality(T) < Cardinality(S) PROVE FALSE
    <2>1. PICK t, u \in S : t # u /\ f[t] = f[u]
      BY <1>2, <1>4, FS_PigeonHole
    <2>2. f[t] \in T /\ <<t, f[t]>> \in R /\ <<u, f[t]>> \in R
      BY <1>1, <2>1
    <2> QED
      BY <2>1, <2>2, Zenon
  <1> QED
    BY <1>3, <1>4

\* The victim of a full table, if it has all that came of o, shows that o has
\* been quiet for longer than MaxEntries - 1 others.
LEMMA VictimIsCrowded ==
  ASSUME IInv, NEW d \in Dgrams, NEW o \in Dgrams \ {d}, Find(Sent[d].key) = {},
         Claims(o), Waits(o), Fresh(Victim, o)
  PROVE  o \in Crowded(d)
  <1> DEFINE s == Victim
             S == Slots \ {s}
             X == {x \in (Busy \ {d}) \ {o} : quiet[x] <= quiet[o]}
             R == {e \in Slots \X Dgrams : Owned(e[1], e[2])}
  <1>1. Types /\ SlotsKept /\ OneEntryPerKey /\ ClaimsMet
    BY Zenon DEF IInv
  <1>2. s \in Slots
    BY <1>1, VictimIs, Zenon
  <1>3. quiet[o] <= Timeout /\ heard[o] # {} /\ heard[o] # Pieces(o)
    BY Zenon DEF Waits, Claims
  <1>4. /\ Owned(s, o) /\ entries[s].age = quiet[o] /\ entries[s].in_use
        /\ entries[s].key = Sent[o].key
    BY Zenon DEF Fresh, Owned, Holds
  <1>5. quiet[o] \in Nat /\ \A x \in Dgrams : quiet[x] \in Nat
    BY <1>1 DEF Types
  <1> HIDE DEF s
  <1>6. ~TimedOut(entries[s])
    BY <1>3, <1>4, <1>5, NumbersAre DEF TimedOut
  <1>7. \A t \in Slots : /\ entries[t].in_use /\ ~TimedOut(entries[t])
                         /\ entries[t].age <= entries[s].age
    BY <1>1, <1>2, <1>4, <1>6, VictimIs, Zenon DEF s
  <1>8. ASSUME NEW t \in S, NEW x \in Dgrams, Owned(t, x) PROVE x \in X
    <2>1. /\ entries[t].key = Sent[x].key /\ heard[x] # {} /\ quiet[x] <= entries[t].age
          /\ entries[t].in_use
      BY <1>8, Zenon DEF Owned, Holds
    <2>2. entries[t].age \in Nat
      <3>1. entries[t] \in Entry
        BY <1>1 DEF Types
      <3> QED
        BY <3>1, NumbersAre DEF Entry
    <2>3. entries[t].age <= Timeout /\ entries[t].age <= quiet[o]
      <3>1. ~TimedOut(entries[t]) /\ entries[t].age <= entries[s].age
        BY <1>7
      <3>2. ~(entries[t].age > Timeout)
        BY <2>1, <3>1, Zenon DEF TimedOut
      <3> QED
        BY <1>4, <2>2, <3>1, <3>2, NumbersAre
    <2>4. quiet[x] <= Timeout /\ quiet[x] <= quiet[o] /\ ~(quiet[x] > IdLife)
      BY <1>5, <2>1, <2>2, <2>3, NumbersAre
    <2>5. heard[x] # Pieces(x) \/ x \in spoiled \/ ~Fits(x)
      <3> SUFFICES ASSUME heard[x] = Pieces(x), x \notin spoiled, Fits(x) PROVE FALSE
        OBVIOUS
      <3>1. Claims(x)
        BY <2>1, Zenon DEF Claims
      <3>2. Passed(x)
        BY <1>1, <3>1, Zenon DEF ClaimsMet, Waits
      <3> QED
        BY <2>1, <2>4, <3>2, Zenon DEF Passed
    <2>6. x \in Busy
      BY <2>1, <2>4, <2>5, Zenon DEF Busy
    <2>7. x # d
      <3>1. t \notin Find(Sent[d].key)
        BY Zenon
      <3> QED
        BY <2>1, <3>1, Zenon DEF Find
    <2>8. x # o
      <3>1. t # s
        OBVIOUS
      <3> QED
        BY <1>1, <1>2, <1>4, <2>1, <3>1, Zenon DEF OneEntryPerKey
    <2> QED
      BY <2>4, <2>6, <2>7, <2>8
  <1>9. IsFiniteSet(X)
    <2>1. IsFiniteSet({x \in Dgrams : heard[x] # {}})
      BY <1>1, Zenon DEF Types
    <2>2. X \subseteq {x \in Dgrams : heard[x] # {}}
      BY DEF Busy
    <2> HIDE DEF X
    <2> QED
      BY <2>1, <2>2, FS_Subset
  <1>10. IsFiniteSet(S) /\ Cardinality(S) = MaxEntries - 1
    <2>1. IsFiniteSet(1..MaxEntries) /\ Cardinality(1..MaxEntries) = MaxEntries
      <3>1. 1 \in Int /\ MaxEntries \in Int /\ ~(1 > MaxEntries) /\ MaxEntries - 1 + 1 = MaxEntries
        BY NumbersAre
      <3> QED
        BY <3>1, FS_Interval
    <2> QED
      BY <1>2, <2>1, FS_RemoveElement DEF Slots
  <1>11. \A t \in S : \E x \in X : <<t, x>> \in R
    <2> TAKE t \in S
    <2>1. t \in Slots /\ entries[t].in_use
      BY <1>7
    <2>2. PICK x \in Dgrams : Owned(t, x)
      BY <1>1, <2>1, Zenon DEF SlotsKept
    <2>3. x \in X
      BY <1>8, <2>2, Zenon
    <2>4. <<t, x>> \in R
      BY <2>1, <2>2
    <2> QED
      BY <2>3, <2>4, Zenon
  <1>12. \A t, u \in S : \A x \in X : <<t, x>> \in R /\ <<u, x>> \in R => t = u
    <2> TAKE t, u \in S
    <2> TAKE x \in X
    <2> HAVE <<t, x>> \in R /\ <<u, x>> \in R
    <2>1. Owned(t, x) /\ Owned(u, x)
      OBVIOUS
    <2>2. /\ entries[t].in_use /\ entries[u].in_use
          /\ entries[t].key = Sent[x].key /\ entries[u].key = Sent[x].key
      BY <2>1, Zenon DEF Owned, Holds
    <2>3. t \in Slots /\ u \in Slots
      OBVIOUS
    <2> QED
      BY <1>1, <2>2, <2>3, Zenon DEF OneEntryPerKey
  <1>13. Cardinality(X) >= MaxEntries - 1
    <2> HIDE DEF S, X, R
    <2>1. /\ Cardinality(S) \in Nat /\ Cardinality(X) \in Nat
          /\ Cardinality(S) <= Cardinality(X)
      BY <1>9, <1>10, <1>11, <1>12, OneEach
    <2> QED
      BY <1>10, <2>1, NumbersAre
  <1>14. o \in Busy \ {d}
    BY <1>3, Zenon DEF Busy
  <1> QED
    BY <1>13, <1>14, Zenon DEF Crowded

\* A datagram that still must get through after one more piece had an entry
\* with all that came of it, unless nothing had.
LEMMA EntryWasExact ==
  ASSUME IInv, NEW d \in Dgrams, NEW i \in Pieces(d), MayUseKey(d), i \notin heard[d],
         d \notin spoiled, Fits(d), NEW memory, NEW s, NEW x, NEW z,
         Inserts(d, i, memory, s, x, z)
  PROVE  Exact(x, d, heard[d])
  <1>1. Types /\ SlotsKept /\ OneEntryPerKey /\ ClaimsMet
    BY Zenon DEF IInv
  <1>2. /\ s \in Slots
        /\ Find(Sent[d].key) # {} =>
              x = entries[s] /\ entries[s].in_use /\ entries[s].key = Sent[d].key
        /\ Find(Sent[d].key) = {} => x = NewEntry(Sent[d].key)
    BY Zenon DEF Inserts
  <1>3. ASSUME heard[d] # {} PROVE \E t \in Slots : Fresh(t, d)
    <2>1. Claims(d)
      BY <1>3, Zenon DEF Claims
    <2>2. heard[d] # Pieces(d)
      BY Zenon
    <2> QED
      BY <1>1, <2>1, <2>2, Zenon DEF ClaimsMet, Passed, Waits
  <1>4. ASSUME NEW t \in Slots, Fresh(t, d)
        PROVE  entries[t].in_use /\ entries[t].key = Sent[d].key /\ Exact(entries[t], d, heard[d])
    BY <1>4, Zenon DEF Fresh, Owned, Holds
  <1>5. CASE Find(Sent[d].key) # {}
    <2>1. x = entries[s] /\ entries[s].in_use /\ entries[s].key = Sent[d].key
      BY <1>2, <1>5, Zenon
    <2>2. Owned(s, d)
      BY <1>1, <1>2, <2>1, OwnerIs
    <2>3. heard[d] # {}
      BY <2>2, Zenon DEF Owned
    <2>4. PICK t \in Slots : Fresh(t, d)
      BY <1>3, <2>3, Zenon
    <2>5. entries[t].in_use /\ entries[t].key = Sent[d].key /\ Exact(entries[t], d, heard[d])
      BY <1>4, <2>4, Zenon
    <2>6. t = s
      BY <1>1, <1>2, <2>1, <2>5, Zenon DEF OneEntryPerKey
    <2> QED
      BY <2>1, <2>5, <2>6, Zenon
  <1>6. CASE Find(Sent[d].key) = {}
    <2>1. heard[d] = {}
      <3>1. ASSUME NEW t \in Slots, Fresh(t, d) PROVE FALSE
        BY <1>4, <1>6, <3>1, Zenon DEF Find
      <3> QED
        BY <1>3, <3>1, Zenon
    <2>2. x = NewEntry(Sent[d].key)
      BY <1>2, <1>6, Zenon
    <2> QED
      BY <2>1, <2>2, NewIs, Zenon
  <1> QED
    BY <1>5, <1>6, Zenon

\* The claim of the datagram the piece belongs to.
LEMMA OwnClaim ==
  ASSUME IInv, Types', NEW d \in Dgrams, NEW i \in Pieces(d), MayUseKey(d), i \notin heard[d],
         d \notin spoiled, Fits(d), NEW memory, memory, NEW s, NEW x, NEW z,
         Inserts(d, i, memory, s, x, z),
         GivesUp(d, i, memory, x, z) \/ Keeps(d, i, x, z) \/ Finishes(d, i, memory, x, z),
         heard'[d] = heard[d] \cup {i}, quiet'[d] = 0, z \in Entry
  PROVE  Passed(d)' \/ Waits(d)'
  <1> DEFINE p == Piece[d][i]
             h == WithHeader(x, p)
             y == Stored(h, p)
             G == heard[d] \cup {i}
  <1>1. Types /\ SlotsKept /\ OneEntryPerKey
    BY Zenon DEF IInv
  <1>2. /\ s \in Slots /\ entries' = [entries EXCEPT ![s] = z] /\ Holds(x, d, heard[d])
        /\ \A t \in Slots \ {s} : ~(entries[t].in_use /\ entries[t].key = Sent[d].key)
    BY Zenon DEF Inserts
  <1>3. entries'[s] = z /\ \A t \in Slots \ {s} : entries'[t] = entries[t]
    BY <1>1, <1>2, SlotIs
  <1>4. Exact(x, d, heard[d])
    BY EntryWasExact
  <1>5. ~Refused(h, p)
    BY <1>2, <1>4, NotRefused
  <1>6. Exact(y, d, G)
    BY <1>2, <1>4, StoreExact
  <1>7. Holds(y, d, G) /\ y.age = 0 /\ h.ip_hdr = y.ip_hdr
    <2>1. Holds(x, d, heard[d])
      BY <1>2, Zenon
    <2>2. ~Refused(WithHeader(x, Piece[d][i]), Piece[d][i])
      BY <1>5, Zenon
    <2> HIDE DEF p, h, y, G
    <2>3. h = WithHeader(x, Piece[d][i]) /\ y = Stored(h, Piece[d][i])
      BY Zenon DEF p, h, y
    <2>4. ~Refused(h, Piece[d][i])
      BY <2>2, <2>3, Zenon
    <2>5. Holds(y, d, heard[d] \cup {i}) /\ y.age = 0 /\ h.ip_hdr = y.ip_hdr
      BY <2>1, <2>3, <2>4, StoreHolds
    <2> QED
      BY <2>5, Zenon DEF G
  <1>8. G \in SUBSET Pieces(d)
    BY <1>1 DEF Types
  <1>9. G = Pieces(d) => Complete(y) /\ y.ip_hdr = d
    BY <1>6, <1>7, AllComplete
  <1>10. ~GivesUp(d, i, memory, x, z)
    <2>1. ASSUME GivesUp(d, i, memory, x, z) PROVE FALSE
      BY <1>5, <2>1, Zenon DEF GivesUp
    <2> QED
      BY <2>1
  <1>11. CASE Keeps(d, i, x, z)
    <2>1. z = y /\ ~Complete(z)
      BY <1>11, Zenon DEF Keeps
    <2>2. G # Pieces(d)
      BY <1>9, <2>1, Zenon
    <2> HIDE DEF y, G
    <2>3. Holds(entries'[s], d, heard'[d]) /\ Exact(entries'[s], d, heard'[d])
      BY <1>3, <1>6, <1>7, <2>1, Zenon DEF G
    <2>4. entries'[s].age = 0
      BY <1>3, <1>7, <2>1, Zenon
    <2>5. heard'[d] # {} /\ heard'[d] # Pieces(d)
      BY <2>2 DEF G
    <2>6. quiet'[d] <= entries'[s].age /\ quiet'[d] <= Timeout /\ entries'[s].age = quiet'[d]
      BY <2>4, NumbersAre
    <2>7. Owned(s, d)'
      BY <2>3, <2>5, <2>6, Zenon DEF Owned
    <2>8. Fresh(s, d)'
      BY <2>3, <2>6, <2>7, Zenon DEF Fresh
    <2>9. Waits(d)'
      BY <1>2, <2>5, <2>6, <2>8, Zenon DEF Waits
    <2> QED
      BY <2>9
  <1>12. CASE Finishes(d, i, memory, x, z)
    <2>1. /\ Complete(y) /\ z = Free
          /\ up' = IF memory /\ h.ip_hdr # None THEN up \cup {Rebuild(y)} ELSE up
      BY <1>12, Zenon DEF Finishes
    <2>2. G = Pieces(d)
      BY <1>7, <1>8, <2>1, CompleteAll
    <2>3. y.ip_hdr = d /\ h.ip_hdr = d
      BY <1>7, <1>9, <2>2, Zenon
    <2>4. d # None
      BY SentIsDatagrams
    <2> HIDE DEF h, y, G
    <2>5. up' = up \cup {Rebuild(y)}
      BY <2>1, <2>3, <2>4, Zenon
    <2>6. Rebuild(y).of = d
      BY <2>3 DEF Rebuild
    <2>7. \E pkt \in up' : pkt.of = d
      BY <2>5, <2>6
    <2>8. heard'[d] = Pieces(d)
      BY <2>2 DEF G
    <2>9. ASSUME NEW t \in Slots, entries'[t].in_use, entries'[t].key = Sent[d].key PROVE FALSE
      <3>1. t # s
        BY <1>3, <2>1, <2>9, FreeIs, Zenon
      <3>2. t \in Slots \ {s}
        BY <3>1
      <3> QED
        BY <1>2, <1>3, <2>9, <3>2, Zenon
    <2>10. Passed(d)'
      BY <2>7, <2>8, <2>9, Zenon DEF Passed
    <2> QED
      BY <2>10
  <1> QED
    BY <1>10, <1>11, <1>12, Zenon

\* A datagram with a claim is not touched by the pieces of another.
LEMMA OthersClaim ==
  ASSUME IInv, Types', NEW d \in Dgrams, NEW i \in Pieces(d), MayUseKey(d),
         NEW memory, NEW s, NEW x, NEW z, Inserts(d, i, memory, s, x, z),
         z \in Entry, z.in_use => z.key = Sent[d].key, up \subseteq up',
         NEW o \in Dgrams \ {d}, Claims(o), heard'[o] = heard[o], quiet'[o] = quiet[o],
         Find(Sent[d].key) = {} => o \notin Crowded(d)
  PROVE  Passed(o)' \/ Waits(o)'
  <1>1. Types /\ SlotsKept /\ OneEntryPerKey /\ ClaimsMet
    BY Zenon DEF IInv
  <1>2. /\ s \in Slots /\ entries' = [entries EXCEPT ![s] = z]
        /\ Find(Sent[d].key) # {} =>
              x = entries[s] /\ entries[s].in_use /\ entries[s].key = Sent[d].key
        /\ Find(Sent[d].key) = {} => s = Victim
    BY Zenon DEF Inserts
  <1>3. entries'[s] = z /\ \A t \in Slots \ {s} : entries'[t] = entries[t]
    BY <1>1, <1>2, SlotIs
  <1>4. heard[o] # {} /\ (Passed(o) \/ Waits(o))
    BY <1>1, Zenon DEF Claims, ClaimsMet
  <1>5. Sent[o].key = Sent[d].key => quiet[o] > IdLife
    BY <1>4, Zenon DEF MayUseKey
  <1>6. CASE Passed(o)
    <2>1. /\ heard[o] = Pieces(o) /\ \E pkt \in up : pkt.of = o
          /\ \A t \in Slots : entries[t].in_use /\ entries[t].key = Sent[o].key
                                 => quiet[o] > IdLife
      BY <1>6, Zenon DEF Passed
    <2>2. \E pkt \in up' : pkt.of = o
      BY <2>1
    <2>3. ASSUME NEW t \in Slots, entries'[t].in_use, entries'[t].key = Sent[o].key
          PROVE  quiet'[o] > IdLife
      <3>1. CASE t = s
        BY <1>3, <1>5, <2>3, <3>1, Zenon
      <3>2. CASE t # s
        <4>1. t \in Slots \ {s}
          BY <3>2
        <4> QED
          BY <1>3, <2>1, <2>3, <4>1, Zenon
      <3> QED
        BY <3>1, <3>2, Zenon
    <2>4. Passed(o)'
      BY <2>1, <2>2, <2>3, Zenon DEF Passed
    <2> QED
      BY <2>4
  <1>7. CASE Waits(o)
    <2>1. heard[o] # Pieces(o) /\ quiet[o] <= Timeout
      BY <1>7, Zenon DEF Waits
    <2>2. PICK t \in Slots : Fresh(t, o)
      BY <1>7, Zenon DEF Waits
    <2>3. t # s
      <3> SUFFICES ASSUME t = s PROVE FALSE
        OBVIOUS
      <3>1. Fresh(s, o)
        BY <2>2, Zenon
      <3>2. CASE Find(Sent[d].key) # {}
        <4>1. Sent[o].key = Sent[d].key
          BY <1>2, <3>1, <3>2, Zenon DEF Fresh, Owned, Holds
        <4>2. quiet[o] \in Nat
          BY <1>1 DEF Types
        <4> QED
          BY <1>5, <2>1, <4>1, <4>2, NumbersAre
      <3>3. CASE Find(Sent[d].key) = {}
        <4>1. Fresh(Victim, o)
          BY <1>2, <3>1, <3>3, Zenon
        <4>2. o \in Crowded(d)
          BY <1>7, <3>3, <4>1, VictimIsCrowded
        <4> QED
          BY <3>3, <4>2, Zenon
      <3> QED
        BY <3>2, <3>3, Zenon
    <2>4. entries'[t] = entries[t]
      BY <1>3, <2>3
    <2>5. Owned(t, o) /\ Exact(entries[t], o, heard[o]) /\ entries[t].age = quiet[o]
      BY <2>2, Zenon DEF Fresh
    <2>6. Owned(t, o)'
      <3>1. heard[o] \subseteq heard'[o]
        OBVIOUS
      <3>2. quiet'[o] <= quiet[o]
        <4>1. quiet[o] \in Nat
          BY <1>1 DEF Types
        <4> QED
          BY <4>1
      <3> QED
        BY <1>1, <2>4, <2>5, <3>1, <3>2, OwnerStays
    <2>7. Fresh(t, o)'
      BY <2>4, <2>5, <2>6, Zenon DEF Fresh
    <2>8. Waits(o)'
      BY <2>1, <2>7, Zenon DEF Waits
    <2> QED
      BY <2>8
  <1> QED
    BY <1>4, <1>6, <1>7, Zenon

\* A piece of a fragmented datagram.
LEMMA FragmentStep ==
  ASSUME IInv, NEW d \in Dgrams, NEW i \in Pieces(d), NEW memory \in BOOLEAN,
         Arrive(d, i, memory), IsFragment(d, Piece[d][i])
  PROVE  IInv'
  <1>1. Types /\ SlotsKept /\ OneEntryPerKey /\ HandedOnAsSent /\ ClaimsMet
    BY Zenon DEF IInv
  <1>2. /\ MayUseKey(d) /\ Insert(Piece[d][i], memory)
        /\ heard' = [heard EXCEPT ![d] = @ \cup {i}] /\ quiet' = [quiet EXCEPT ![d] = 0]
        /\ spoiled' = spoiled \cup (IF i \in heard[d] \/ ~memory THEN {d} ELSE {})
                              \cup (IF Find(Piece[d][i].key) = {} THEN Crowded(d) ELSE {})
        /\ sinceGc' = sinceGc
    BY Zenon DEF Arrive
  <1>3. Piece[d][i].key = Sent[d].key
    BY PieceIs
  <1>4. PICK s, x, z : /\ Inserts(d, i, memory, s, x, z)
                       /\ \/ GivesUp(d, i, memory, x, z)
                          \/ Keeps(d, i, x, z)
                          \/ Finishes(d, i, memory, x, z)
    BY <1>1, <1>2, InsertIs, Zenon
  <1>5. /\ spoiled \subseteq spoiled'
        /\ i \in heard[d] \/ ~memory => d \in spoiled'
        /\ Find(Sent[d].key) = {} => Crowded(d) \subseteq spoiled'
    BY <1>2, <1>3
  <1>6. spoiled' \subseteq Dgrams
    <2>1. spoiled \subseteq Dgrams
      BY <1>1, Zenon DEF Types
    <2>2. Crowded(d) \subseteq Dgrams
      BY DEF Crowded, Busy
    <2> QED
      BY <1>2, <2>1, <2>2
  <1>7. Types' /\ SlotsKept' /\ OneEntryPerKey' /\ HandedOnAsSent'
    BY <1>2, <1>4, <1>6, InsertKeeps
  <1>8. z \in Entry /\ (z.in_use => z.key = Sent[d].key) /\ up \subseteq up'
    <2>1. LeavesWell(d, i, z)
      BY <1>2, <1>4, <1>6, InsertKeeps
    <2>2. up = up' \/ \E pkt : up' = up \cup {pkt}
      BY <2>1, Zenon DEF LeavesWell
    <2>3. up \subseteq up'
      BY <2>2
    <2> QED
      BY <2>1, <2>3, Zenon DEF LeavesWell, Holds
  <1>9. /\ heard'[d] = heard[d] \cup {i} /\ quiet'[d] = 0
        /\ \A o \in Dgrams \ {d} : heard'[o] = heard[o] /\ quiet'[o] = quiet[o]
    BY <1>1, <1>2, HeardIs
  <1>10. ASSUME NEW o \in Dgrams, Claims(o)' PROVE Passed(o)' \/ Waits(o)'
    <2>1. o \notin spoiled' /\ Fits(o) /\ heard'[o] # {}
      BY <1>10, Zenon DEF Claims
    <2>2. CASE o = d
      <3>1. i \notin heard[d] /\ memory /\ d \notin spoiled /\ Fits(d)
        BY <1>5, <2>1, <2>2
      <3>2. Passed(d)' \/ Waits(d)'
        BY <1>2, <1>4, <1>7, <1>8, <1>9, <3>1, OwnClaim
      <3> QED
        BY <2>2, <3>2, Zenon
    <2>3. CASE o # d
      <3>1. o \in Dgrams \ {d} /\ o \notin spoiled
        BY <1>5, <2>1, <2>3
      <3>2. heard'[o] = heard[o] /\ quiet'[o] = quiet[o]
        BY <1>9, <3>1
      <3>3. Claims(o)
        BY <2>1, <3>1, <3>2, Zenon DEF Claims
      <3>4. Find(Sent[d].key) = {} => o \notin Crowded(d)
        BY <1>5, <2>1
      <3> QED
        BY <1>2, <1>4, <1>7, <1>8, <3>1, <3>2, <3>3, <3>4, OthersClaim
    <2> QED
      BY <2>2, <2>3
  <1>11. ClaimsMet'
    BY <1>10, Zenon DEF ClaimsMet
  <1> QED
    BY <1>7, <1>11, Zenon DEF IInv

\* A datagram in one piece.
LEMMA WholeStep ==
  ASSUME IInv, NEW d \in Dgrams, NEW i \in Pieces(d), NEW memory \in BOOLEAN,
         Arrive(d, i, memory), ~IsFragment(d, Piece[d][i])
  PROVE  IInv'
  <1> DEFINE p == Piece[d][i]
             pkt == [of |-> d, size |-> p.len, from |-> {d}]
  <1>1. Types /\ SlotsKept /\ OneEntryPerKey /\ HandedOnAsSent /\ ClaimsMet
    BY Zenon DEF IInv
  <1>2. /\ MayUseKey(d) /\ up' = up \cup {pkt} /\ entries' = entries
        /\ heard' = [heard EXCEPT ![d] = @ \cup {i}] /\ quiet' = [quiet EXCEPT ![d] = 0]
        /\ spoiled' = spoiled \cup (IF i \in heard[d] \/ ~memory THEN {d} ELSE {})
                              \cup (IF Find(Piece[d][i].key) = {} THEN Crowded(d) ELSE {})
        /\ sinceGc' = sinceGc
    BY Zenon DEF Arrive
  <1>3. spoiled \subseteq spoiled' /\ (i \in heard[d] => d \in spoiled')
    BY <1>2
  <1>4. spoiled' \subseteq Dgrams
    <2>1. spoiled \subseteq Dgrams
      BY <1>1, Zenon DEF Types
    <2>2. Crowded(d) \subseteq Dgrams
      BY DEF Crowded, Busy
    <2> QED
      BY <1>2, <2>1, <2>2
  <1>5. /\ heard'[d] = heard[d] \cup {i} /\ quiet'[d] = 0
        /\ \A o \in Dgrams \ {d} : heard'[o] = heard[o] /\ quiet'[o] = quiet[o]
        /\ \A o \in Dgrams : heard[o] \subseteq heard'[o] /\ quiet'[o] <= quiet[o]
        /\ heard' \in [Dgrams -> SUBSET Nat] /\ \A o \in Dgrams : heard'[o] \subseteq Pieces(o)
        /\ quiet' \in [Dgrams -> Nat]
        /\ IsFiniteSet({o \in Dgrams : heard'[o] # {}})
    BY <1>1, <1>2, HeardIs
  <1>6. Types'
    BY <1>1, <1>2, <1>4, <1>5, Zenon DEF Types
  <1>7. SlotsKept'
    <2> SUFFICES ASSUME NEW t \in Slots
                 PROVE  /\ Len(entries'[t].segs) <= MaxFrags
                        /\ entries'[t].in_use =>
                              /\ entries'[t].age <= Timeout + sinceGc'
                              /\ \E o \in Dgrams : Owned(t, o)'
      BY Zenon DEF SlotsKept
    <2>1. entries'[t] = entries[t]
      BY <1>2, Zenon
    <2>2. ASSUME NEW o \in Dgrams, Owned(t, o) PROVE Owned(t, o)'
      BY <1>1, <1>5, <1>6, <2>1, <2>2, OwnerStays
    <2> QED
      BY <1>1, <1>2, <2>1, <2>2, Zenon DEF SlotsKept
  <1>8. OneEntryPerKey'
    BY <1>1, <1>2, Zenon DEF OneEntryPerKey
  <1>9. i = Count(d) /\ OffsetOf(d, i) = 0 /\ p.len = Size(d)
    <2>1. p.offset = 0 /\ ~p.mf
      BY Zenon DEF IsFragment
    <2>2. p.offset = OffsetOf(d, i) /\ p.len = Sent[d].cuts[i] /\ (p.mf <=> i < Count(d))
      BY PieceIs
    <2>3. /\ i \in 1..Count(d) /\ Count(d) \in Nat
          /\ OffsetOf(d, i) + Sent[d].cuts[i] = EndOf(d)[i] /\ Sent[d].cuts[i] \in Nat
          /\ i = Count(d) => EndOf(d)[i] = Size(d)
      BY PieceLies
    <2> HIDE DEF p
    <2>4. i = Count(d)
      BY <2>1, <2>2, <2>3
    <2>5. OffsetOf(d, i) = 0
      BY <2>1, <2>2
    <2>6. Sent[d].cuts[i] = EndOf(d)[i]
      BY <2>3, <2>5
    <2> QED
      BY <2>2, <2>3, <2>4, <2>5, <2>6, Zenon
  <1>10. pkt.of = d /\ pkt.size = Size(d) /\ pkt.from \subseteq {d}
    BY <1>9
  <1> HIDE DEF pkt, p
  <1>11. HandedOnAsSent'
    <2> SUFFICES ASSUME NEW q \in up' PROVE q.size = Size(q.of) /\ q.from \subseteq {q.of}
      BY Zenon DEF HandedOnAsSent
    <2>1. CASE q \in up
      BY <1>1, <2>1, Zenon DEF HandedOnAsSent
    <2>2. CASE q \notin up
      <3>1. q = pkt
        BY <1>2, <2>2
      <3> QED
        BY <1>10, <3>1, Zenon
    <2> QED
      BY <2>1, <2>2
  <1>12. ASSUME NEW o \in Dgrams, Claims(o)' PROVE Passed(o)' \/ Waits(o)'
    <2>1. o \notin spoiled' /\ Fits(o) /\ heard'[o] # {}
      BY <1>12, Zenon DEF Claims
    <2>2. CASE o = d
      <3>1. i \notin heard[d] /\ d \notin spoiled /\ Fits(d)
        BY <1>3, <2>1, <2>2
      <3>2. Pieces(d) = {i}
        <4>1. Pieces(d) = 1..Count(d) /\ Count(d) \in Nat /\ Count(d) >= 1
          BY CutsAre
        <4>2. ASSUME Count(d) # 1 PROVE FALSE
          <5>1. 1 \in Pieces(d) /\ 1 < Count(d)
            BY <4>1, <4>2
          <5>2. 1 \in Filled(d)
            BY <3>1, <5>1, FitsIs
          <5>3. EndOf(d)[1] > 0 /\ EndOf(d)[1] \in Nat
            BY <5>2, EndsPositive
          <5>4. EndOf(d)[1] <= OffsetOf(d, i)
            BY <1>9, <5>1, PiecesApart
          <5> QED
            BY <1>9, <5>3, <5>4
        <4> QED
          BY <1>9, <4>1, <4>2
      <3>3. heard[d] = {} /\ heard'[d] = Pieces(d)
        <4>1. heard[d] \subseteq Pieces(d)
          BY <1>1 DEF Types
        <4> QED
          BY <1>5, <3>1, <3>2, <4>1
      <3>4. \E q \in up' : q.of = d
        BY <1>2, <1>10
      <3>5. ASSUME NEW t \in Slots, entries'[t].in_use, entries'[t].key = Sent[d].key PROVE FALSE
        <4>1. entries[t].in_use /\ entries[t].key = Sent[d].key
          BY <1>2, <3>5, Zenon
        <4>2. Owned(t, d)
          BY <1>1, <1>2, <4>1, OwnerIs
        <4> QED
          BY <3>3, <4>2, Zenon DEF Owned
      <3>6. Passed(d)'
        BY <3>3, <3>4, <3>5, Zenon DEF Passed
      <3> QED
        BY <2>2, <3>6, Zenon
    <2>3. CASE o # d
      <3>1. o \in Dgrams \ {d} /\ o \notin spoiled
        BY <1>3, <2>1, <2>3
      <3>2. heard'[o] = heard[o] /\ quiet'[o] = quiet[o]
        BY <1>5, <3>1
      <3>3. Passed(o) \/ Waits(o)
        BY <1>1, <2>1, <3>1, <3>2, Zenon DEF Claims, ClaimsMet
      <3>4. \A t \in Slots : Owned(t, o) => Owned(t, o)'
        BY <1>2, <3>2, Zenon DEF Owned
      <3>5. up \subseteq up'
        BY <1>2
      <3>6. Passed(o) => Passed(o)'
        BY <1>2, <3>2, <3>5, Zenon DEF Passed
      <3>7. \A t \in Slots : Fresh(t, o) => Fresh(t, o)'
        BY <1>2, <3>2, <3>4, Zenon DEF Fresh
      <3>8. Waits(o) => Waits(o)'
        BY <3>2, <3>7, Zenon DEF Waits
      <3> QED
        BY <3>3, <3>6, <3>8, Zenon
    <2> QED
      BY <2>2, <2>3
  <1>13. ClaimsMet'
    BY <1>12, Zenon DEF ClaimsMet
  <1> QED
    BY <1>6, <1>7, <1>8, <1>11, <1>13, Zenon DEF IInv

\* A collection.
LEMMA GcStep ==
  ASSUME IInv, ReasmGc
  PROVE  IInv'
  <1>1. Types /\ SlotsKept /\ OneEntryPerKey /\ HandedOnAsSent /\ ClaimsMet
    BY Zenon DEF IInv
  <1>2. /\ sinceGc' = 0
        /\ entries' = [t \in Slots |-> IF TimedOut(entries[t]) THEN Free ELSE entries[t]]
        /\ up' = up /\ heard' = heard /\ quiet' = quiet /\ spoiled' = spoiled
    BY Zenon DEF ReasmGc
  <1>3. \A t \in Slots : entries'[t] = IF TimedOut(entries[t]) THEN Free ELSE entries[t]
    BY <1>2, Zenon
  <1>4. \A t \in Slots : entries'[t].in_use => entries'[t] = entries[t] /\ ~TimedOut(entries[t])
    BY <1>3, FreeIs, Zenon
  <1>5. Types'
    <2>1. entries' \in [Slots -> Entry]
      <3>1. \A t \in Slots : entries[t] \in Entry
        BY <1>1 DEF Types
      <3> QED
        BY <1>2, <3>1, FreeIs
    <2>2. 0 \in 0..(GcEvery + Poll)
      BY NumbersAre
    <2> QED
      BY <1>1, <1>2, <2>1, <2>2, Zenon DEF Types
  <1>6. \A t \in Slots, o \in Dgrams : entries'[t] = entries[t] /\ Owned(t, o) => Owned(t, o)'
    BY <1>2, Zenon DEF Owned
  <1>7. SlotsKept'
    <2> SUFFICES ASSUME NEW t \in Slots
                 PROVE  /\ Len(entries'[t].segs) <= MaxFrags
                        /\ entries'[t].in_use =>
                              /\ entries'[t].age <= Timeout + sinceGc'
                              /\ \E o \in Dgrams : Owned(t, o)'
      BY Zenon DEF SlotsKept
    <2>1. Len(entries'[t].segs) <= MaxFrags
      BY <1>1, <1>3, FreeIs, Zenon DEF SlotsKept
    <2>2. ASSUME entries'[t].in_use
          PROVE  entries'[t].age <= Timeout + sinceGc' /\ \E o \in Dgrams : Owned(t, o)'
      <3>1. entries'[t] = entries[t] /\ ~TimedOut(entries[t]) /\ entries[t].in_use
        BY <1>4, <2>2, Zenon
      <3>2. entries[t].age <= Timeout
        <4>1. ~(entries[t].age > Timeout)
          BY <3>1, Zenon DEF TimedOut
        <4>2. entries[t] \in Entry
          BY <1>1 DEF Types
        <4>3. entries[t].age \in Nat
          BY <4>2, NumbersAre DEF Entry
        <4> QED
          BY <4>1, <4>3, NumbersAre
      <3>3. Timeout + sinceGc' = Timeout
        BY <1>2, NumbersAre
      <3>4. \E o \in Dgrams : Owned(t, o)
        BY <1>1, <3>1, Zenon DEF SlotsKept
      <3> QED
        BY <1>6, <3>1, <3>2, <3>3, <3>4, Zenon
    <2> QED
      BY <2>1, <2>2
  <1>8. OneEntryPerKey'
    BY <1>1, <1>4, Zenon DEF OneEntryPerKey
  <1>9. HandedOnAsSent'
    BY <1>1, <1>2, Zenon DEF HandedOnAsSent
  <1>10. ASSUME NEW o \in Dgrams, Claims(o)' PROVE Passed(o)' \/ Waits(o)'
    <2>1. Claims(o)
      BY <1>2, <1>10, Zenon DEF Claims
    <2>2. CASE Passed(o)
      <3>1. Passed(o)'
        BY <1>2, <1>4, <2>2, Zenon DEF Passed
      <3> QED
        BY <3>1
    <2>3. CASE Waits(o)
      <3>1. PICK t \in Slots : Fresh(t, o)
        BY <2>3, Zenon DEF Waits
      <3>2. quiet[o] <= Timeout /\ entries[t].age = quiet[o] /\ quiet[o] \in Nat
        BY <1>1, <2>3, <3>1 DEF Waits, Fresh, Types
      <3>3. ~TimedOut(entries[t])
        BY <3>2, NumbersAre DEF TimedOut
      <3>4. entries'[t] = entries[t]
        BY <1>3, <3>3, Zenon
      <3>5. Fresh(t, o)'
        BY <1>2, <1>6, <3>1, <3>4, Zenon DEF Fresh
      <3>6. Waits(o)'
        BY <1>2, <2>3, <3>5, Zenon DEF Waits
      <3> QED
        BY <3>6
    <2> QED
      BY <1>1, <2>1, <2>2, <2>3, Zenon DEF ClaimsMet
  <1>11. ClaimsMet'
    BY <1>10, Zenon DEF ClaimsMet
  <1> QED
    BY <1>5, <1>7, <1>8, <1>9, <1>11, Zenon DEF IInv

\* The connections are reset.
LEMMA ResetStep ==
  ASSUME IInv, SoftReset
  PROVE  IInv'
  <1>1. Types /\ SlotsKept /\ OneEntryPerKey /\ HandedOnAsSent /\ ClaimsMet
    BY Zenon DEF IInv
  <1>2. /\ entries' = [t \in Slots |-> Free] /\ spoiled' = spoiled \cup Busy
        /\ sinceGc' = sinceGc /\ up' = up /\ heard' = heard /\ quiet' = quiet
    BY Zenon DEF SoftReset
  <1>3. \A t \in Slots : entries'[t] = Free /\ ~entries'[t].in_use
    BY <1>2, FreeIs, Zenon
  <1>4. Types'
    <2>1. entries' \in [Slots -> Entry]
      BY <1>2, FreeIs, Zenon
    <2>2. spoiled' \subseteq Dgrams
      BY <1>1, <1>2 DEF Types, Busy
    <2> QED
      BY <1>1, <1>2, <2>1, <2>2, Zenon DEF Types
  <1>5. SlotsKept'
    BY <1>3, FreeIs, Zenon DEF SlotsKept
  <1>6. OneEntryPerKey'
    BY <1>3, Zenon DEF OneEntryPerKey
  <1>7. HandedOnAsSent'
    BY <1>1, <1>2, Zenon DEF HandedOnAsSent
  <1>8. ASSUME NEW o \in Dgrams, Claims(o)' PROVE Passed(o)'
    <2>1. o \notin spoiled' /\ Fits(o) /\ heard[o] # {}
      BY <1>2, <1>8, Zenon DEF Claims
    <2>2. o \notin spoiled /\ o \notin Busy
      BY <1>2, <2>1
    <2>3. Passed(o) \/ Waits(o)
      BY <1>1, <2>1, <2>2, Zenon DEF ClaimsMet, Claims
    <2>4. ~Waits(o)
      BY <2>1, <2>2, Zenon DEF Waits, Busy
    <2> QED
      BY <1>2, <1>3, <2>3, <2>4, Zenon DEF Passed
  <1>9. ClaimsMet'
    BY <1>8, Zenon DEF ClaimsMet
  <1> QED
    BY <1>4, <1>5, <1>6, <1>7, <1>9, Zenon DEF IInv

\* A second passes.
LEMMA TickStep ==
  ASSUME IInv, Tick
  PROVE  IInv'
  <1>1. Types /\ SlotsKept /\ OneEntryPerKey /\ HandedOnAsSent /\ ClaimsMet
    BY Zenon DEF IInv
  <1>2. /\ sinceGc < GcEvery + Poll /\ sinceGc' = sinceGc + 1
        /\ entries' = [t \in Slots |-> IF entries[t].in_use
                                       THEN [entries[t] EXCEPT !.age = Older(@)] ELSE entries[t]]
        /\ quiet' = [o \in Dgrams |-> IF quiet[o] > Timeout /\ Alone(o) THEN quiet[o]
                                      ELSE Older(quiet[o])]
        /\ spoiled' = spoiled \cup {o \in Busy : quiet[o] = Timeout}
        /\ up' = up /\ heard' = heard
    BY Zenon DEF Tick
  <1>3. sinceGc \in 0..(GcEvery + Poll) /\ sinceGc + 1 \in 0..(GcEvery + Poll)
    BY <1>1, <1>2, NumbersAre DEF Types
  <1>4. \A t \in Slots : entries[t] \in Entry
    BY <1>1 DEF Types
  <1>5. ASSUME NEW t \in Slots, entries[t].in_use
        PROVE  /\ entries[t].age \in Nat /\ entries[t].age <= Timeout + sinceGc
               /\ entries[t].age <= IdLife /\ Older(entries[t].age) = entries[t].age + 1
               /\ entries[t].age + 1 \in 0..(IdLife + 1)
    <2>1. entries[t].age \in Nat
      <3>1. entries[t] \in Entry
        BY <1>4
      <3> QED
        BY <3>1, NumbersAre DEF Entry
    <2>2. entries[t].age <= Timeout + sinceGc
      BY <1>1, <1>5, Zenon DEF SlotsKept
    <2>3. entries[t].age <= IdLife /\ entries[t].age + 1 \in 0..(IdLife + 1)
      BY <1>3, <2>1, <2>2, NumbersAre
    <2>4. Older(entries[t].age) = entries[t].age + 1
      BY <2>1, <2>3, NumbersAre DEF Older
    <2> QED
      BY <2>1, <2>2, <2>3, <2>4
  <1>6. \A t \in Slots : ~entries[t].in_use => entries'[t] = entries[t]
    BY <1>2, Zenon
  <1>7. ASSUME NEW t \in Slots, entries[t].in_use
        PROVE  /\ entries'[t] \in Entry /\ entries'[t].age = entries[t].age + 1
               /\ entries'[t].in_use = entries[t].in_use /\ entries'[t].key = entries[t].key
               /\ entries'[t].segs = entries[t].segs
               /\ \A o, H : /\ Holds(entries[t], o, H) => Holds(entries'[t], o, H)
                            /\ Exact(entries[t], o, H) => Exact(entries'[t], o, H)
    <2>1. entries'[t] = [entries[t] EXCEPT !.age = Older(entries[t].age)]
      BY <1>2, <1>7, Zenon
    <2>2. entries'[t] = [entries[t] EXCEPT !.age = entries[t].age + 1]
      BY <1>5, <1>7, <2>1, Zenon
    <2>3. entries[t].age + 1 \in 0..(IdLife + 1) /\ entries[t] \in Entry
      BY <1>4, <1>5, <1>7, Zenon
    <2>4. PICK x, y, a : x = entries[t] /\ y = entries'[t] /\ a = entries[t].age + 1
      OBVIOUS
    <2>5. x \in Entry /\ a \in 0..(IdLife + 1) /\ y = [x EXCEPT !.age = a]
      BY <2>2, <2>3, <2>4, Zenon
    <2>6. /\ y \in Entry /\ y.age = a /\ y.in_use = x.in_use /\ y.key = x.key
          /\ y.segs = x.segs
      BY <2>5, AgeApart
    <2>7. ASSUME NEW o, NEW H
          PROVE  (Holds(x, o, H) => Holds(y, o, H)) /\ (Exact(x, o, H) => Exact(y, o, H))
      BY <2>5, AgeApart
    <2> QED
      BY <2>4, <2>6, <2>7, Zenon
  <1>8. \A t \in Slots : entries'[t] \in Entry /\ entries'[t].in_use = entries[t].in_use
                         /\ entries'[t].key = entries[t].key /\ entries'[t].segs = entries[t].segs
    BY <1>4, <1>6, <1>7, Zenon
  <1>9. ASSUME NEW o \in Dgrams
        PROVE  /\ quiet[o] \in Nat /\ quiet'[o] \in Nat
               /\ quiet'[o] <= quiet[o] + 1
               /\ quiet[o] > IdLife => quiet'[o] > IdLife
               /\ quiet[o] <= Timeout => quiet'[o] = quiet[o] + 1
    <2>1. quiet[o] \in Nat
      BY <1>1 DEF Types
    <2>2. quiet'[o] = IF quiet[o] > Timeout /\ Alone(o) THEN quiet[o] ELSE Older(quiet[o])
      BY <1>2, Zenon
    <2>3. \/ quiet'[o] = quiet[o] /\ quiet[o] > Timeout
          \/ quiet'[o] = quiet[o] /\ quiet[o] > IdLife
          \/ quiet'[o] = quiet[o] + 1
      BY <2>2, Zenon DEF Older
    <2> QED
      BY <2>1, <2>3, NumbersAre
  <1>10. Types'
    <2>1. entries' \in [Slots -> Entry]
      <3> DEFINE g(t) == IF entries[t].in_use THEN [entries[t] EXCEPT !.age = Older(@)]
                         ELSE entries[t]
      <3>1. entries' = [t \in Slots |-> g(t)]
        BY <1>2, Zenon
      <3>2. \A t \in Slots : entries'[t] = g(t)
        BY <3>1, Zenon
      <3> HIDE DEF g
      <3>3. \A t \in Slots : g(t) \in Entry
        BY <1>8, <3>2, Zenon
      <3> QED
        BY <3>1, <3>3, Zenon
    <2>2. quiet' \in [Dgrams -> Nat]
      <3> DEFINE g(o) == IF quiet[o] > Timeout /\ Alone(o) THEN quiet[o] ELSE Older(quiet[o])
      <3>1. quiet' = [o \in Dgrams |-> g(o)]
        BY <1>2, Zenon
      <3>2. \A o \in Dgrams : quiet'[o] = g(o)
        BY <3>1, Zenon
      <3> HIDE DEF g
      <3>3. \A o \in Dgrams : g(o) \in Nat
        BY <1>9, <3>2, Zenon
      <3> QED
        BY <3>1, <3>3, Zenon
    <2>3. spoiled' \subseteq Dgrams
      BY <1>1, <1>2 DEF Types, Busy
    <2> QED
      BY <1>1, <1>2, <1>3, <2>1, <2>2, <2>3, Zenon DEF Types
  <1>11. ASSUME NEW t \in Slots, NEW o \in Dgrams, Owned(t, o) PROVE Owned(t, o)'
    <2>1. Holds(entries[t], o, heard[o]) /\ heard[o] # {} /\ quiet[o] <= entries[t].age
      BY <1>11, Zenon DEF Owned
    <2>2. entries[t].in_use
      BY <2>1, Zenon DEF Holds
    <2>3. Holds(entries'[t], o, heard'[o]) /\ heard'[o] # {}
      BY <1>2, <1>7, <2>1, <2>2, Zenon
    <2>4. quiet'[o] <= entries'[t].age
      <3>1. /\ quiet[o] \in Nat /\ quiet'[o] \in Nat /\ quiet'[o] <= quiet[o] + 1
            /\ entries[t].age \in Nat /\ entries'[t].age = entries[t].age + 1
        BY <1>5, <1>7, <1>9, <2>2, Zenon
      <3> QED
        BY <2>1, <3>1
    <2> QED
      BY <2>3, <2>4, Zenon DEF Owned
  <1>12. SlotsKept'
    <2> SUFFICES ASSUME NEW t \in Slots
                 PROVE  /\ Len(entries'[t].segs) <= MaxFrags
                        /\ entries'[t].in_use =>
                              /\ entries'[t].age <= Timeout + sinceGc'
                              /\ \E o \in Dgrams : Owned(t, o)'
      BY Zenon DEF SlotsKept
    <2>1. Len(entries'[t].segs) <= MaxFrags
      BY <1>1, <1>8, Zenon DEF SlotsKept
    <2>2. ASSUME entries'[t].in_use
          PROVE  entries'[t].age <= Timeout + sinceGc' /\ \E o \in Dgrams : Owned(t, o)'
      <3>1. entries[t].in_use
        BY <1>8, <2>2
      <3>2. /\ entries[t].age \in Nat /\ entries[t].age <= Timeout + sinceGc
            /\ entries'[t].age = entries[t].age + 1
        BY <1>5, <1>7, <3>1, Zenon
      <3>3. entries'[t].age <= Timeout + sinceGc'
        BY <1>2, <1>3, <3>2, NumbersAre
      <3>4. \E o \in Dgrams : Owned(t, o)
        BY <1>1, <3>1, Zenon DEF SlotsKept
      <3> QED
        BY <1>11, <3>3, <3>4, Zenon
    <2> QED
      BY <2>1, <2>2
  <1>13. OneEntryPerKey'
    <2> SUFFICES ASSUME NEW t \in Slots, NEW u \in Slots, entries'[t].in_use, entries'[u].in_use,
                        entries'[t].key = entries'[u].key
                 PROVE  t = u
      BY Zenon DEF OneEntryPerKey
    <2>1. entries[t].in_use /\ entries[u].in_use
      BY <1>8
    <2>2. entries[t].key = entries[u].key
      BY <1>8, Zenon
    <2> QED
      BY <1>1, <2>1, <2>2, Zenon DEF OneEntryPerKey
  <1>14. HandedOnAsSent'
    BY <1>1, <1>2, Zenon DEF HandedOnAsSent
  <1>15. ASSUME NEW o \in Dgrams, Claims(o)' PROVE Passed(o)' \/ Waits(o)'
    <2>1. o \notin spoiled' /\ Fits(o) /\ heard[o] # {}
      BY <1>2, <1>15, Zenon DEF Claims
    <2>2. o \notin spoiled /\ ~(o \in Busy /\ quiet[o] = Timeout)
      BY <1>2, <2>1
    <2>3. Passed(o) \/ Waits(o)
      BY <1>1, <2>1, <2>2, Zenon DEF ClaimsMet, Claims
    <2>4. CASE Passed(o)
      <3>1. /\ heard'[o] = Pieces(o) /\ \E pkt \in up' : pkt.of = o
        BY <1>2, <2>4, Zenon DEF Passed
      <3>2. ASSUME NEW t \in Slots, entries'[t].in_use, entries'[t].key = Sent[o].key
            PROVE  quiet'[o] > IdLife
        <4>1. entries[t].in_use
          BY <1>8, <3>2
        <4>2. entries[t].key = Sent[o].key
          BY <1>8, <3>2, Zenon
        <4>3. quiet[o] > IdLife
          BY <2>4, <4>1, <4>2, Zenon DEF Passed
        <4> QED
          BY <1>9, <4>3, Zenon
      <3>3. Passed(o)'
        BY <3>1, <3>2, Zenon DEF Passed
      <3> QED
        BY <3>3
    <2>5. CASE Waits(o)
      <3>1. heard[o] # Pieces(o) /\ quiet[o] <= Timeout
        BY <2>5, Zenon DEF Waits
      <3>2. PICK t \in Slots : Fresh(t, o)
        BY <2>5, Zenon DEF Waits
      <3>3. o \in Busy
        BY <2>1, <3>1, Zenon DEF Busy
      <3>4. quiet'[o] = quiet[o] + 1 /\ quiet'[o] <= Timeout
        <4>1. quiet[o] \in Nat /\ quiet'[o] = quiet[o] + 1 /\ quiet[o] # Timeout
          BY <1>9, <2>2, <3>1, <3>3, Zenon
        <4> QED
          BY <3>1, <4>1, NumbersAre
      <3>5. Owned(t, o) /\ Exact(entries[t], o, heard[o]) /\ entries[t].age = quiet[o]
        BY <3>2, Zenon DEF Fresh
      <3>6. entries[t].in_use
        BY <3>5, Zenon DEF Owned, Holds
      <3>7. Owned(t, o)'
        BY <1>11, <3>5, Zenon
      <3>8. Exact(entries'[t], o, heard'[o]) /\ entries'[t].age = quiet'[o]
        BY <1>2, <1>7, <3>4, <3>5, <3>6, Zenon
      <3>9. Fresh(t, o)'
        BY <3>7, <3>8, Zenon DEF Fresh
      <3>10. Waits(o)'
        BY <1>2, <3>1, <3>4, <3>9, Zenon DEF Waits
      <3> QED
        BY <3>10
    <2> QED
      BY <2>3, <2>4, <2>5
  <1>16. ClaimsMet'
    BY <1>15, Zenon DEF ClaimsMet
  <1> QED
    BY <1>10, <1>12, <1>13, <1>14, <1>16, Zenon DEF IInv

-----------------------------------------------------------------------------
(* The theorem.                                                             *)

LEMMA StartIs ==
  ASSUME Init
  PROVE  IInv
  <1>1. /\ entries = [t \in Slots |-> Free] /\ sinceGc = 0 /\ heard = [o \in Dgrams |-> {}]
        /\ quiet = [o \in Dgrams |-> IF Alone(o) THEN Timeout + 1 ELSE IdLife + 1]
        /\ spoiled = {} /\ up = {}
    BY Zenon DEF Init
  <1>2. \A t \in Slots : entries[t] = Free /\ ~entries[t].in_use
    BY <1>1, FreeIs, Zenon
  <1>3. \A o \in Dgrams : heard[o] = {}
    BY <1>1, Zenon
  <1>4. Types
    <2>1. entries \in [Slots -> Entry]
      BY <1>1, FreeIs, Zenon
    <2>2. 0 \in 0..(GcEvery + Poll) /\ Timeout + 1 \in Nat /\ IdLife + 1 \in Nat
      BY NumbersAre
    <2>3. quiet \in [Dgrams -> Nat]
      BY <1>1, <2>2
    <2>4. heard \in [Dgrams -> SUBSET Nat] /\ \A o \in Dgrams : heard[o] \subseteq Pieces(o)
      BY <1>1, <1>3
    <2>5. {o \in Dgrams : heard[o] # {}} = {}
      BY <1>3
    <2>6. IsFiniteSet({o \in Dgrams : heard[o] # {}})
      BY <2>5, FS_EmptySet
    <2>7. spoiled \subseteq Dgrams
      BY <1>1
    <2> QED
      BY <1>1, <2>1, <2>2, <2>3, <2>4, <2>6, <2>7, Zenon DEF Types
  <1>5. SlotsKept
    BY <1>2, FreeIs, Zenon DEF SlotsKept
  <1>6. OneEntryPerKey
    BY <1>2, Zenon DEF OneEntryPerKey
  <1>7. HandedOnAsSent
    BY <1>1 DEF HandedOnAsSent
  <1>8. ClaimsMet
    BY <1>3, Zenon DEF ClaimsMet, Claims
  <1> QED
    BY <1>4, <1>5, <1>6, <1>7, <1>8, Zenon DEF IInv

LEMMA StepIs ==
  ASSUME IInv, [Next]_vars
  PROVE  IInv'
  <1>1. ASSUME NEW d \in Dgrams, NEW i \in Pieces(d), NEW memory \in BOOLEAN,
               Arrive(d, i, memory)
        PROVE  IInv'
    BY <1>1, FragmentStep, WholeStep
  <1>2. CASE ReasmGc
    BY <1>2, GcStep
  <1>3. CASE SoftReset
    BY <1>3, ResetStep
  <1>4. CASE Tick
    BY <1>4, TickStep
  <1>5. CASE UNCHANGED vars
    <2>1. /\ entries' = entries /\ sinceGc' = sinceGc /\ up' = up
          /\ heard' = heard /\ quiet' = quiet /\ spoiled' = spoiled
      BY <1>5 DEF vars
    <2>2. Types' /\ OneEntryPerKey' /\ HandedOnAsSent'
      BY <2>1, Zenon DEF IInv, Types, OneEntryPerKey, HandedOnAsSent
    <2>3. \A t \in Slots, o \in Dgrams : Owned(t, o) => Owned(t, o)'
      BY <2>1, Zenon DEF Owned
    <2>4. SlotsKept'
      BY <2>1, <2>3, Zenon DEF IInv, SlotsKept
    <2>5. \A t \in Slots, o \in Dgrams : Fresh(t, o) => Fresh(t, o)'
      BY <2>1, <2>3, Zenon DEF Fresh
    <2>6. \A o \in Dgrams : /\ Claims(o)' => Claims(o)
                            /\ Passed(o) => Passed(o)'
                            /\ Waits(o) => Waits(o)'
      BY <2>1, <2>5, Zenon DEF Claims, Passed, Waits
    <2>7. ClaimsMet'
      BY <2>6, Zenon DEF IInv, ClaimsMet
    <2> QED
      BY <2>2, <2>4, <2>7, Zenon DEF IInv
  <1> QED
    BY <1>1, <1>2, <1>3, <1>4, <1>5, Zenon DEF Next

LEMMA ReasmInv == Spec => []IInv
  <1>1. Init => IInv
    BY StartIs
  <1>2. IInv /\ [Next]_vars => IInv'
    BY StepIs
  <1> QED
    BY <1>1, <1>2, PTL DEF Spec

LEMMA InvReassembles ==
  ASSUME IInv
  PROVE  Reassembles
  <1>1. Types /\ SlotsKept /\ OneEntryPerKey /\ HandedOnAsSent /\ ClaimsMet
    BY Zenon DEF IInv
  <1>2. TypeOK
    <2>1. \A t \in Slots : entries[t] \in Entry
      BY <1>1 DEF Types
    <2>2. \A t \in Slots : Len(entries[t].segs) <= MaxFrags
      BY <1>1, Zenon DEF SlotsKept
    <2> QED
      BY <1>1, <2>1, <2>2, Zenon DEF Types, TypeOK, Entry
  <1>3. NoneStale
    <2> SUFFICES ASSUME NEW t \in Slots, entries[t].in_use PROVE entries[t].age <= IdLife
      BY Zenon DEF NoneStale
    <2>1. entries[t].age <= Timeout + sinceGc
      BY <1>1, Zenon DEF SlotsKept
    <2>2. entries[t] \in Entry /\ sinceGc \in 0..(GcEvery + Poll)
      BY <1>1 DEF Types
    <2>3. entries[t].age \in Nat
      BY <2>2, NumbersAre DEF Entry
    <2> QED
      BY <2>1, <2>2, <2>3, NumbersAre
  <1>4. WholeIsHandedOn
    <2> SUFFICES ASSUME NEW d \in Dgrams, heard[d] = Pieces(d), d \notin spoiled, Fits(d)
                 PROVE  \E pkt \in up : pkt.of = d
      BY Zenon DEF WholeIsHandedOn
    <2>1. heard[d] # {}
      <3>1. Pieces(d) = 1..Count(d) /\ Count(d) \in Nat /\ Count(d) >= 1
        BY CutsAre
      <3>2. 1 \in Pieces(d)
        BY <3>1
      <3> QED
        BY <3>2
    <2>2. Claims(d)
      BY <2>1, Zenon DEF Claims
    <2> QED
      BY <1>1, <2>2, Zenon DEF ClaimsMet, Passed, Waits
  <1> QED
    BY <1>1, <1>2, <1>3, <1>4, Zenon DEF Reassembles, EntriesOK

\* What reassembly hands on is a datagram as it was sent, with its own headers
\* and nothing of another that used the same identification; a datagram whose
\* pieces all came in time, each once, is handed on; there is one entry per
\* packet and none outlives its time (reasm_table_insert, reasm_gc).
THEOREM ReassemblyIsRight == Spec => []Reassembles
  <1>1. IInv => Reassembles
    BY InvReassembles
  <1> QED
    BY <1>1, ReasmInv, PTL
=============================================================================
