---------------------------- MODULE RelayProofs ----------------------------
(***************************************************************************)
(* What is cut out of a byte stream: a SOCKS5 negotiation and the          *)
(* UDP-in-TCP frames behind it (Relay), for servers with names and         *)
(* datagrams of any length and buffers of any size, and DNS over TCP       *)
(* (DnsTcp), for queries of any length, however many, and segments cut     *)
(* anywhere.                                                               *)
(*                                                                         *)
(* The invariant of Relay has two parts.  HInv relates what the worker has *)
(* read and what it waits for to the answer the server has given: a        *)
(* conversation is never ahead of, or behind, the byte that decides it.    *)
(* RInv adds where the engine is in the server's frames: the length that   *)
(* was read, rx_buf and what TCP still holds are, end to end, the frames   *)
(* not handed on.                                                          *)
(*                                                                         *)
(* udp_tcp_consume is a recursive function and FlattenSeq a fold.  Both    *)
(* are chosen as functions that satisfy their equations, so that the       *)
(* proofs first show that such functions exist (by induction, which is     *)
(* WFMin for the natural numbers) and from then on use only the equations. *)
(*                                                                         *)
(* The invariant of DnsTcp, DInv: for some n, the first n queries have     *)
(* been taken out of the stream and answered, and dnsRx and what the App   *)
(* has not sent are, end to end, the frames of the others.                 *)
(* dns_tcp_scan_frames is treated as udp_tcp_consume is: a function that   *)
(* satisfies its equation is shown to exist, and then to take whole        *)
(* queries out of its buffer in order, by induction on what is left of it. *)
(***************************************************************************)
EXTENDS Relay, DnsTcp, SequenceTheorems, WellFoundedInduction, TLAPS

-----------------------------------------------------------------------------
(* Induction.  The natural numbers are well-founded, so a set of them that  *)
(* is not empty has a least element.                                        *)

\* A set with 0, and with every number's successor, has all numbers.
LEMMA Induction ==
  ASSUME NEW S, 0 \in S, \A n \in Nat : n \in S => n + 1 \in S
  PROVE  \A n \in Nat : n \in S
  <1> SUFFICES ASSUME Nat \ S # {} PROVE FALSE
    OBVIOUS
  <1> DEFINE R == OpToRel(<, Nat)
             T == Nat \ S
  <1>1. IsWellFoundedOn(R, Nat)
    BY NatLessThanWellFounded
  <1>2. \A k, m \in Nat : k < m => <<k, m>> \in R
    BY DEF OpToRel
  <1>3. T \subseteq Nat /\ T # {}
    OBVIOUS
  <1> HIDE DEF R, T
  <1>4. PICK m \in T : \A k \in T : ~(<<k, m>> \in R)
    BY <1>1, <1>3, WFMin, Zenon
  <1>5. m \in Nat /\ m \notin S
    BY <1>3, <1>4 DEF T
  <1>6. m - 1 \in Nat /\ m - 1 < m /\ m - 1 + 1 = m
    <2>1. m # 0
      BY <1>5
    <2> QED
      BY <1>5, <2>1
  <1>7. m - 1 \in S
    <2>1. <<m - 1, m>> \in R
      BY <1>2, <1>5, <1>6
    <2> QED
      BY <1>4, <1>6, <2>1 DEF T
  <1> QED
    BY <1>5, <1>6, <1>7

-----------------------------------------------------------------------------
(* Sequences laid end to end.                                               *)

\* g adds up the parts of s.
Sums(g, s) ==
    g[0] = <<>> /\ \A i \in 1..Len(s) : g[i] = g[i - 1] \o s[i]

\* There are such sums.
LEMMA SumsExist ==
  ASSUME NEW X, NEW s \in Seq(Seq(X))
  PROVE  \E g \in [0..Len(s) -> Seq(X)] : Sums(g, s)
  <1> DEFINE G(n) == \E g \in [0..n -> Seq(X)] :
                        g[0] = <<>> /\ \A i \in 1..n : g[i] = g[i - 1] \o s[i]
             S == {n \in Nat : n <= Len(s) => G(n)}
  <1>1. Len(s) \in Nat /\ <<>> \in Seq(X)
    OBVIOUS
  <1>2. G(0)
    <2> DEFINE g == [i \in 0..0 |-> <<>>]
    <2>1. g \in [0..0 -> Seq(X)] /\ g[0] = <<>> /\ \A i \in 1..0 : g[i] = g[i - 1] \o s[i]
      OBVIOUS
    <2> HIDE DEF g
    <2> QED
      BY <2>1
  <1>3. ASSUME NEW n \in Nat, G(n), n + 1 <= Len(s) PROVE G(n + 1)
    <2>1. PICK g \in [0..n -> Seq(X)] :
             g[0] = <<>> /\ \A i \in 1..n : g[i] = g[i - 1] \o s[i]
      BY <1>3
    <2>2. n + 1 \in 1..Len(s) /\ s[n + 1] \in Seq(X) /\ g[n] \in Seq(X)
      BY <1>1, <1>3
    <2> DEFINE h == [i \in 0..(n + 1) |-> IF i = n + 1 THEN g[n] \o s[n + 1] ELSE g[i]]
    <2>3. g[n] \o s[n + 1] \in Seq(X)
      BY <2>2
    <2>4. h \in [0..(n + 1) -> Seq(X)]
      BY <2>3
    <2>5. h[0] = <<>>
      BY <2>1
    <2>6. ASSUME NEW i \in 1..(n + 1) PROVE h[i] = h[i - 1] \o s[i]
      <3>1. CASE i = n + 1
        <4>1. i - 1 = n /\ n \in 0..(n + 1) /\ n # n + 1 /\ i \in 0..(n + 1)
          BY <3>1
        <4>2. h[i - 1] = g[n] /\ h[i] = g[n] \o s[n + 1]
          BY <3>1, <4>1
        <4> HIDE DEF h
        <4> QED
          BY <3>1, <4>2
      <3>2. CASE i # n + 1
        <4>1. i \in 1..n /\ i - 1 \in 0..(n + 1) /\ i - 1 # n + 1
          BY <3>2
        <4>2. h[i - 1] = g[i - 1] /\ h[i] = g[i]
          BY <3>2, <4>1
        <4> HIDE DEF h
        <4> QED
          BY <2>1, <4>1, <4>2
      <3> QED
        BY <3>1, <3>2
    <2> HIDE DEF h
    <2> QED
      BY <2>4, <2>5, <2>6
  <1> HIDE DEF G
  <1>4. 0 \in S /\ (\A n \in Nat : n \in S => n + 1 \in S)
    <2>1. \A n \in Nat : n + 1 <= Len(s) => n <= Len(s)
      BY <1>1
    <2> QED
      BY <1>2, <1>3, <2>1
  <1>5. \A n \in S : n <= Len(s) => G(n)
    OBVIOUS
  <1> HIDE DEF S
  <1>6. Len(s) \in S
    BY <1>1, <1>4, Induction
  <1>7. G(Len(s))
    BY <1>1, <1>5, <1>6
  <1> QED
    BY <1>7, Zenon DEF G, Sums

\* FlattenSeq is the last of them.
LEMMA FlattenIsSum ==
  ASSUME NEW X, NEW s \in Seq(Seq(X)), NEW g \in [0..Len(s) -> Seq(X)], Sums(g, s)
  PROVE  FlattenSeq(s) = g[Len(s)]
  <1>1. Len(s) \in Nat
    OBVIOUS
  <1>2. CASE Len(s) = 0
    <2>1. s = <<>>
      BY <1>2
    <2> QED
      BY <1>2, <2>1 DEF FlattenSeq, Sums
  <1>3. CASE Len(s) # 0
    <2> DEFINE Body(h) == [i \in 1..Len(s) |-> IF i = 1 THEN s[i] ELSE h[i - 1] \o s[i]]
               G == [i \in 1..Len(s) |-> g[i]]
    <2>1. g[1] = s[1]
      <3>1. 1 \in 1..Len(s) /\ s[1] \in Seq(X) /\ 1 - 1 = 0
        BY <1>1, <1>3
      <3>2. g[1] = g[1 - 1] \o s[1] /\ g[0] = <<>>
        BY <3>1, Zenon DEF Sums
      <3>3. g[1] = <<>> \o s[1]
        BY <3>1, <3>2
      <3>4. <<>> \o s[1] = s[1]
        BY <3>1, ConcatEmptySeq
      <3> QED
        BY <3>3, <3>4
    <2>2. G = Body(G)
      <3> SUFFICES ASSUME NEW i \in 1..Len(s)
                   PROVE  g[i] = IF i = 1 THEN s[i] ELSE G[i - 1] \o s[i]
        OBVIOUS
      <3>1. CASE i # 1
        <4>1. i - 1 \in 1..Len(s)
          BY <1>1, <3>1
        <4> QED
          BY <3>1, <4>1 DEF Sums
      <3> QED
        BY <2>1, <3>1
    <2>3. ASSUME NEW h, h = Body(h) PROVE h[Len(s)] = g[Len(s)]
      <3> DEFINE S == {n \in Nat : n + 1 <= Len(s) => h[n + 1] = g[n + 1]}
      <3>1. \A i \in 1..Len(s) : h[i] = IF i = 1 THEN s[i] ELSE h[i - 1] \o s[i]
        BY <2>3, Zenon
      <3>2. 0 \in S
        BY <1>1, <1>3, <2>1, <3>1
      <3>3. ASSUME NEW n \in Nat, n \in S PROVE n + 1 \in S
        <4> SUFFICES ASSUME n + 1 + 1 <= Len(s) PROVE h[n + 1 + 1] = g[n + 1 + 1]
          OBVIOUS
        <4>1. PICK k : k = n + 1 + 1
          OBVIOUS
        <4>2. k \in 1..Len(s) /\ k # 1 /\ k - 1 = n + 1 /\ n + 1 <= Len(s)
          BY <1>1, <4>1
        <4>3. h[n + 1] = g[n + 1]
          BY <3>3, <4>2
        <4>4. h[k] = h[k - 1] \o s[k]
          BY <3>1, <4>2, Zenon
        <4>5. g[k] = g[k - 1] \o s[k]
          BY <4>2, Zenon DEF Sums
        <4>6. h[k] = g[k]
          BY <4>2, <4>3, <4>4, <4>5
        <4> QED
          BY <4>1, <4>6
      <3>4. S \subseteq Nat /\ \A n \in S : n + 1 <= Len(s) => h[n + 1] = g[n + 1]
        OBVIOUS
      <3> HIDE DEF S
      <3>5. \A n \in Nat : n \in S
        BY <3>2, <3>3, Induction
      <3>6. Len(s) - 1 \in Nat /\ Len(s) - 1 + 1 = Len(s) /\ Len(s) <= Len(s)
        BY <1>1, <1>3
      <3> QED
        BY <3>4, <3>5, <3>6
    <2>4. FlattenSeq(s) = (CHOOSE h : h = Body(h))[Len(s)]
      BY <1>3, Zenon DEF FlattenSeq
    <2>5. \E h : h = Body(h)
      BY <2>2, Zenon
    <2> HIDE DEF G
    <2>6. (CHOOSE h : h = Body(h)) = Body(CHOOSE h : h = Body(h))
      BY <2>5, Zenon
    <2> HIDE DEF Body
    <2> QED
      BY <2>3, <2>4, <2>6, Zenon
  <1> QED
    BY <1>2, <1>3

\* As a fact about all sequences over X at once.
LEMMA Associative ==
  ASSUME NEW X
  PROVE  \A x, y, z \in Seq(X) : (x \o y) \o z = x \o (y \o z)
  BY ConcatAssociative

\* The sum of byte sequences is one.
LEMMA FlattenType ==
  ASSUME NEW X, NEW s \in Seq(Seq(X))
  PROVE  FlattenSeq(s) \in Seq(X)
  <1>1. PICK g \in [0..Len(s) -> Seq(X)] : Sums(g, s)
    BY SumsExist
  <1>2. FlattenSeq(s) = g[Len(s)]
    BY <1>1, FlattenIsSum
  <1>3. Len(s) \in 0..Len(s)
    OBVIOUS
  <1> QED
    BY <1>2, <1>3

\* Nothing laid end to end is nothing.
LEMMA FlattenEmpty == FlattenSeq(<<>>) = <<>>
  BY DEF FlattenSeq

\* A part at the end ...
LEMMA FlattenAppend ==
  ASSUME NEW X, NEW s \in Seq(Seq(X)), NEW p \in Seq(X)
  PROVE  FlattenSeq(Append(s, p)) = FlattenSeq(s) \o p
  <1> DEFINE t == Append(s, p)
  <1>1. /\ t \in Seq(Seq(X)) /\ Len(t) = Len(s) + 1 /\ t[Len(s) + 1] = p
        /\ \A i \in 1..Len(s) : t[i] = s[i]
    BY AppendProperties
  <1> HIDE DEF t
  <1>2. PICK g \in [0..Len(t) -> Seq(X)] : Sums(g, t)
    BY <1>1, SumsExist
  <1> DEFINE h == [i \in 0..Len(s) |-> g[i]]
  <1>3. Len(s) \in Nat
    OBVIOUS
  <1>4. h \in [0..Len(s) -> Seq(X)]
    BY <1>1, <1>3
  <1>5. Sums(h, s)
    <2>1. h[0] = <<>>
      BY <1>2, <1>3 DEF Sums
    <2>2. ASSUME NEW i \in 1..Len(s) PROVE h[i] = h[i - 1] \o s[i]
      <3>1. i \in 1..Len(t) /\ i \in 0..Len(s) /\ i - 1 \in 0..Len(s)
        BY <1>1, <1>3
      <3>2. h[i] = g[i] /\ h[i - 1] = g[i - 1] /\ t[i] = s[i]
        BY <1>1, <3>1
      <3> HIDE DEF h
      <3> QED
        BY <1>2, <3>1, <3>2 DEF Sums
    <2> HIDE DEF h
    <2> QED
      BY <2>1, <2>2 DEF Sums
  <1>6. h[Len(s)] = g[Len(s)] /\ g[Len(t)] = g[Len(s)] \o p
    <2>1. Len(t) \in 1..Len(t) /\ Len(t) - 1 = Len(s) /\ t[Len(t)] = p
      BY <1>1, <1>3
    <2>2. g[Len(t)] = g[Len(s)] \o p
      BY <1>2, <2>1 DEF Sums
    <2> QED
      BY <1>3, <2>2
  <1> HIDE DEF h
  <1>7. FlattenSeq(s) = h[Len(s)] /\ FlattenSeq(t) = g[Len(t)]
    BY <1>1, <1>2, <1>4, <1>5, FlattenIsSum
  <1> QED
    BY <1>6, <1>7 DEF t

\* ... and one at the beginning.
LEMMA FlattenFirst ==
  ASSUME NEW X, NEW s \in Seq(Seq(X)), s # <<>>
  PROVE  FlattenSeq(s) = s[1] \o FlattenSeq(Tail(s))
  <1> DEFINE t == Tail(s)
             p == s[1]
  <1>1. /\ t \in Seq(Seq(X)) /\ Len(t) + 1 = Len(s) /\ Len(t) \in Nat
        /\ \A i \in 1..Len(t) : t[i] = s[i + 1]
    BY HeadTailProperties
  <1>2. p \in Seq(X)
    BY <1>1
  <1> HIDE DEF t, p
  <1>9. \A x, y \in Seq(X) : (p \o x) \o y = p \o (x \o y)
    BY <1>2, Associative, SMTT(20)
  <1>3. PICK g \in [0..Len(t) -> Seq(X)] : Sums(g, t)
    BY <1>1, SumsExist
  <1> DEFINE h == [i \in 0..Len(s) |-> IF i = 0 THEN <<>> ELSE p \o g[i - 1]]
  <1>4. h \in [0..Len(s) -> Seq(X)]
    <2> SUFFICES ASSUME NEW i \in 0..Len(s), i # 0 PROVE p \o g[i - 1] \in Seq(X)
      BY EmptySeq
    <2>1. i - 1 \in 0..Len(t)
      BY <1>1
    <2>2. g[i - 1] \in Seq(X)
      BY <2>1
    <2> QED
      BY <1>2, <2>2
  <1>5. h[0] = <<>> /\ \A i \in 1..Len(s) : h[i] = p \o g[i - 1]
    BY <1>1
  <1> HIDE DEF h
  <1>6. ASSUME NEW i \in 1..Len(s) PROVE h[i] = h[i - 1] \o s[i]
    <2>1. CASE i = 1
      <3>1. 1 \in 1..Len(s) /\ 1 - 1 = 0
        BY <2>1
      <3>2. h[1] = p \o g[1 - 1] /\ g[0] = <<>> /\ h[0] = <<>>
        BY <1>3, <1>5, <3>1, Zenon DEF Sums
      <3>3. s[1] = p
        BY DEF p
      <3>4. h[1] = p \o <<>> /\ h[1 - 1] \o s[1] = <<>> \o p
        BY <3>1, <3>2, <3>3
      <3>5. p \o <<>> = <<>> \o p
        BY <1>2, ConcatEmptySeq
      <3> QED
        BY <2>1, <3>4, <3>5
    <2>2. CASE i # 1
      <3>1. i - 1 \in 1..Len(t) /\ i - 1 \in 1..Len(s) /\ i - 1 - 1 \in 0..Len(t) /\ i - 1 + 1 = i
        BY <1>1, <2>2
      <3>2. h[i] = p \o g[i - 1] /\ h[i - 1] = p \o g[i - 1 - 1]
        BY <1>5, <3>1
      <3>3. g[i - 1] = g[i - 1 - 1] \o t[i - 1] /\ t[i - 1] = s[i]
        BY <1>1, <1>3, <3>1 DEF Sums
      <3>4. g[i - 1 - 1] \in Seq(X)
        BY <3>1
      <3>5. s[i] \in Seq(X)
        OBVIOUS
      <3>7. (p \o g[i - 1 - 1]) \o s[i] = p \o (g[i - 1 - 1] \o s[i])
        BY <1>9, <3>4, <3>5
      <3> QED
        BY <3>2, <3>3, <3>7, Zenon
    <2> QED
      BY <2>1, <2>2
  <1>7. h[Len(s)] = p \o g[Len(t)]
    <2>1. Len(s) \in 1..Len(s) /\ Len(s) - 1 = Len(t)
      BY <1>1
    <2> QED
      BY <1>5, <2>1
  <1>8. FlattenSeq(s) = h[Len(s)] /\ FlattenSeq(t) = g[Len(t)]
    BY <1>1, <1>3, <1>4, <1>5, <1>6, FlattenIsSum DEF Sums
  <1> QED
    BY <1>7, <1>8 DEF p, t

-----------------------------------------------------------------------------
(* udp_tcp_consume, step by step.                                           *)

Byte == 0..255

\* The length that begins behind off, and what Consume returns where it stops.
LengthAt(b, off) == b[off + 1] * 256 + b[off + 2]
Halt(s, bad) == [off |-> s.off, want |-> s.want, frames |-> <<>>, bad |-> bad]

\* A datagram in front of those that come after it.
InFront(d, r) == [r EXCEPT !.frames = <<d>> \o @]

\* Where the loop stands: how far it is, and the length it waits for.
At(off, w) == [off |-> off, want |-> w]
Places(b, cap) == [off : 0..Len(b), want : None..cap]

\* One turn of the loop, with f for the turns to come.
Turn(f, b, cap, s) ==
    IF s.want = None
    THEN IF s.off + 2 > Len(b) THEN Halt(s, FALSE)
         ELSE IF LengthAt(b, s.off) \notin MinFrame..cap THEN Halt(s, TRUE)
         ELSE f[At(s.off + 2, LengthAt(b, s.off))]
    ELSE IF ~Whole(s.want, Len(b) - s.off) THEN Halt(At(s.off, Kept(s.want)), FALSE)
         ELSE InFront(SubSeq(b, s.off + 1, s.off + s.want), f[At(s.off + s.want, None)])

\* How many turns there may be from there on: each takes a length or a datagram.
Turns(b, s) == 2 * (Len(b) - s.off) + (IF s.want = None THEN 0 ELSE 1)

\* f is the loop over b.
Loop(f, b, cap) == \A s \in Places(b, cap) : f[s] = Turn(f, b, cap, s)

\* The next turn after a length, and after a datagram, is nearer to the end.
LEMMA AfterLength ==
  ASSUME NEW b \in Seq(Byte), NEW cap \in Nat, NEW s \in Places(b, cap), s.want = None,
         s.off + 2 <= Len(b), NEW l \in MinFrame..cap
  PROVE  /\ At(s.off + 2, l) \in Places(b, cap)
         /\ Turns(b, At(s.off + 2, l)) < Turns(b, s)
  <1>1. /\ Len(b) \in Nat /\ MinFrame \in Nat /\ s.off \in 0..Len(b) /\ None = -1
    BY RelayAssumption DEF Places, None
  <1>2. s.off + 2 \in 0..Len(b) /\ l \in None..cap /\ l # None
    BY <1>1
  <1>3. Turns(b, At(s.off + 2, l)) = 2 * (Len(b) - (s.off + 2)) + 1
    BY <1>2 DEF Turns, At
  <1>4. Turns(b, s) = 2 * (Len(b) - s.off) + 0
    BY DEF Turns
  <1>5. At(s.off + 2, l) \in Places(b, cap)
    BY <1>2 DEF At, Places
  <1> QED
    BY <1>1, <1>3, <1>4, <1>5

\* So is the next turn after a datagram.
LEMMA AfterDatagram ==
  ASSUME NEW b \in Seq(Byte), NEW cap \in Nat, NEW s \in Places(b, cap), s.want # None,
         s.off + s.want <= Len(b)
  PROVE  /\ At(s.off + s.want, None) \in Places(b, cap)
         /\ Turns(b, At(s.off + s.want, None)) < Turns(b, s)
  <1>1. /\ Len(b) \in Nat /\ s.off \in 0..Len(b) /\ s.want \in None..cap /\ None = -1
    BY DEF Places, None
  <1>2. s.off + s.want \in 0..Len(b) /\ None \in None..cap /\ s.want \in Nat
    BY <1>1
  <1>3. Turns(b, At(s.off + s.want, None)) = 2 * (Len(b) - (s.off + s.want)) + 0
    BY DEF Turns, At
  <1>4. Turns(b, s) = 2 * (Len(b) - s.off) + 1
    BY DEF Turns
  <1>5. At(s.off + s.want, None) \in Places(b, cap)
    BY <1>2 DEF At, Places
  <1> QED
    BY <1>1, <1>2, <1>3, <1>4, <1>5

\* So a turn looks only at turns nearer to the end.
LEMMA TurnLooksAhead ==
  ASSUME NEW b \in Seq(Byte), NEW cap \in Nat, NEW f, NEW g, NEW s \in Places(b, cap),
         \A t \in Places(b, cap) : Turns(b, t) < Turns(b, s) => f[t] = g[t]
  PROVE  Turn(f, b, cap, s) = Turn(g, b, cap, s)
  <1>1. Len(b) \in Nat /\ s.off \in 0..Len(b) /\ s.want \in None..cap
    BY DEF Places
  <1>2. CASE s.want = None
    <2>1. CASE s.off + 2 > Len(b) \/ LengthAt(b, s.off) \notin MinFrame..cap
      BY <1>2, <2>1 DEF Turn
    <2>2. CASE s.off + 2 <= Len(b) /\ LengthAt(b, s.off) \in MinFrame..cap
      <3>1. f[At(s.off + 2, LengthAt(b, s.off))] = g[At(s.off + 2, LengthAt(b, s.off))]
        BY <1>2, <2>2, AfterLength
      <3> QED
        BY <1>1, <1>2, <2>2, <3>1 DEF Turn
    <2> QED
      BY <1>1, <2>1, <2>2
  <1>3. CASE s.want # None
    <2>1. CASE ~Whole(s.want, Len(b) - s.off)
      BY <1>3, <2>1 DEF Turn
    <2>2. CASE Whole(s.want, Len(b) - s.off)
      <3>1. s.off + s.want <= Len(b)
        BY <1>1, <2>2 DEF Whole, None
      <3>2. f[At(s.off + s.want, None)] = g[At(s.off + s.want, None)]
        BY <1>3, <3>1, AfterDatagram
      <3> QED
        BY <1>3, <2>2, <3>2 DEF Turn
    <2> QED
      BY <2>1, <2>2
  <1> QED
    BY <1>2, <1>3

\* A bound on the turns, from everywhere in b.
LEMMA TurnsBound ==
  ASSUME NEW b \in Seq(Byte), NEW cap \in Nat, NEW s \in Places(b, cap)
  PROVE  Turns(b, s) \in Nat /\ Turns(b, s) < 2 * Len(b) + 2
  <1>1. Len(b) \in Nat /\ s.off \in 0..Len(b)
    BY DEF Places
  <1> QED
    BY <1>1 DEF Turns

\* There is such a loop ...
LEMMA LoopExists ==
  ASSUME NEW b \in Seq(Byte), NEW cap \in Nat
  PROVE  \E f : f = [s \in Places(b, cap) |-> Turn(f, b, cap, s)]
  <1> DEFINE P == Places(b, cap)
             Near(f, n) == \A s \in P : Turns(b, s) < n => f[s] = Turn(f, b, cap, s)
             G(n) == \E f : Near(f, n)
             S == {n \in Nat : G(n)}
  <1>1. G(0)
    <2>1. \A s \in P : ~(Turns(b, s) < 0)
      BY TurnsBound
    <2>2. Near(<<>>, 0)
      BY <2>1, Zenon
    <2> QED
      BY <2>2, Zenon
  <1>2. ASSUME NEW n \in Nat, G(n) PROVE G(n + 1)
    <2>1. PICK f : Near(f, n)
      BY <1>2
    <2> DEFINE T(s) == IF Turns(b, s) < n THEN f[s] ELSE Turn(f, b, cap, s)
               h == [s \in P |-> T(s)]
    <2>2. \A s \in P : h[s] = T(s)
      BY Zenon
    <2> HIDE DEF h
    <2>3. ASSUME NEW s \in P, Turns(b, s) < n + 1
          PROVE  h[s] = Turn(h, b, cap, s)
      <3>1. ASSUME NEW t \in P, Turns(b, t) < Turns(b, s)
            PROVE  f[t] = h[t]
        <4>1. Turns(b, t) \in Nat /\ Turns(b, s) \in Nat
          BY TurnsBound
        <4>2. Turns(b, t) < n
          BY <2>3, <3>1, <4>1
        <4> QED
          BY <2>2, <4>2, Zenon
      <3>2. Turn(f, b, cap, s) = Turn(h, b, cap, s)
        BY <3>1, TurnLooksAhead
      <3>3. h[s] = Turn(f, b, cap, s)
        BY <2>1, <2>2, Zenon
      <3> QED
        BY <3>2, <3>3
    <2>4. Near(h, n + 1)
      BY <2>3, Zenon
    <2> QED
      BY <2>4, Zenon
  <1> HIDE DEF G
  <1>3. 0 \in S /\ \A n \in Nat : n \in S => n + 1 \in S
    BY <1>1, <1>2
  <1>4. \A n \in S : G(n)
    OBVIOUS
  <1> HIDE DEF S
  <1>5. 2 * Len(b) + 2 \in S
    <2>1. 2 * Len(b) + 2 \in Nat
      OBVIOUS
    <2> QED
      BY <1>3, <2>1, Induction
  <1>6. PICK f : Near(f, 2 * Len(b) + 2)
    BY <1>4, <1>5, Zenon DEF G
  <1>7. \A s \in P : f[s] = Turn(f, b, cap, s)
    BY <1>6, TurnsBound, Zenon
  <1> DEFINE F == [s \in P |-> f[s]]
  <1>8. \A s \in P : F[s] = f[s]
    BY Zenon
  <1> HIDE DEF F
  <1>9. ASSUME NEW s \in P PROVE Turn(F, b, cap, s) = f[s]
    <2>1. Turn(F, b, cap, s) = Turn(f, b, cap, s)
      BY <1>8, TurnLooksAhead
    <2> QED
      BY <1>7, <2>1
  <1> DEFINE T(s) == Turn(F, b, cap, s)
  <1>10. \A s \in P : T(s) = f[s]
    BY <1>9
  <1> HIDE DEF T
  <1>11. F = [s \in P |-> T(s)]
    BY <1>10 DEF F
  <1> QED
    BY <1>11, Zenon DEF T

\* ... and Consume runs it from the beginning.
LEMMA ConsumeIsLoop ==
  ASSUME NEW b \in Seq(Byte), NEW cap \in Nat, NEW w0 \in None..cap
  PROVE  \E f : Loop(f, b, cap) /\ Consume(w0, b, cap) = f[At(0, w0)]
  <1> DEFINE Is(f) == f = [s \in Places(b, cap) |-> Turn(f, b, cap, s)]
             f == CHOOSE g : Is(g)
  <1>1. \E g : Is(g)
    BY LoopExists, Zenon
  <1>2. Consume(w0, b, cap) = (CHOOSE g : Is(g))[At(0, w0)]
    BY Zenon DEF Consume, Turn, LengthAt, Halt, InFront, At, Places
  <1> HIDE DEF Is
  <1>3. Is(f)
    BY <1>1, Zenon
  <1> HIDE DEF f
  <1> DEFINE T(s) == Turn(f, b, cap, s)
  <1>4. f = [s \in Places(b, cap) |-> T(s)]
    BY <1>3, Zenon DEF Is
  <1> HIDE DEF T
  <1>5. \A s \in Places(b, cap) : f[s] = T(s)
    BY <1>4, Zenon
  <1>6. Loop(f, b, cap)
    BY <1>5, Zenon DEF Loop, T
  <1>7. Consume(w0, b, cap) = f[At(0, w0)]
    BY <1>2 DEF f
  <1> QED
    BY <1>6, <1>7, Zenon

-----------------------------------------------------------------------------
(* Rest(s, n), what is left of s behind its first n.                        *)

\* Its length and its elements.
LEMMA RestIs ==
  ASSUME NEW X, NEW s \in Seq(X), NEW n \in 0..Len(s)
  PROVE  /\ Rest(s, n) \in Seq(X) /\ Len(Rest(s, n)) = Len(s) - n
         /\ \A i \in 1..(Len(s) - n) : Rest(s, n)[i] = s[n + i]
  <1>1. Len(s) \in Nat /\ n + 1 \in Int /\ \A i \in (n + 1)..Len(s) : s[i] \in X
    OBVIOUS
  <1>2. /\ SubSeq(s, n + 1, Len(s)) \in Seq(X)
        /\ Len(SubSeq(s, n + 1, Len(s))) = IF n + 1 <= Len(s) THEN Len(s) - (n + 1) + 1 ELSE 0
        /\ \A i \in 1..(Len(s) - (n + 1) + 1) : SubSeq(s, n + 1, Len(s))[i] = s[n + 1 + i - 1]
    BY <1>1, SubSeqProperties
  <1> QED
    BY <1>1, <1>2 DEF Rest

\* All of s, and nothing.
LEMMA RestOfAll ==
  ASSUME NEW X, NEW s \in Seq(X)
  PROVE  Rest(s, 0) = s /\ Rest(s, Len(s)) = <<>>
  <1>1. 0 \in 0..Len(s) /\ Len(s) \in 0..Len(s)
    OBVIOUS
  <1>2. /\ Rest(s, 0) \in Seq(X) /\ Len(Rest(s, 0)) = Len(s)
        /\ \A i \in 1..Len(s) : Rest(s, 0)[i] = s[i]
    BY <1>1, RestIs
  <1>3. Rest(s, Len(s)) \in Seq(X) /\ Len(Rest(s, Len(s))) = 0
    BY <1>1, RestIs
  <1>4. Rest(s, 0) = s
    BY <1>2, SeqEqual
  <1> QED
    BY <1>3, <1>4

\* The first n and the rest.
LEMMA FirstAndRest ==
  ASSUME NEW X, NEW s \in Seq(X), NEW n \in 0..Len(s)
  PROVE  /\ SubSeq(s, 1, n) \in Seq(X) /\ Len(SubSeq(s, 1, n)) = n
         /\ \A i \in 1..n : SubSeq(s, 1, n)[i] = s[i]
         /\ SubSeq(s, 1, n) \o Rest(s, n) = s
  <1> DEFINE a == SubSeq(s, 1, n)
             z == Rest(s, n)
  <1>1. /\ z \in Seq(X) /\ Len(z) = Len(s) - n
        /\ \A i \in 1..(Len(s) - n) : z[i] = s[n + i]
    BY RestIs
  <1>2. /\ a \in Seq(X) /\ Len(a) = n
        /\ \A i \in 1..n : a[i] = s[i]
    <2>1. 1 \in Int /\ n \in Int /\ \A i \in 1..n : s[i] \in X
      OBVIOUS
    <2>2. /\ a \in Seq(X) /\ Len(a) = IF 1 <= n THEN n - 1 + 1 ELSE 0
          /\ \A i \in 1..(n - 1 + 1) : a[i] = s[1 + i - 1]
      BY <2>1, SubSeqProperties
    <2> QED
      BY <2>2
  <1> HIDE DEF a, z
  <1>3. /\ a \o z \in Seq(X) /\ Len(a \o z) = Len(a) + Len(z)
        /\ \A i \in 1..(Len(a) + Len(z)) :
              (a \o z)[i] = IF i <= Len(a) THEN a[i] ELSE z[i - Len(a)]
    BY <1>1, <1>2, ConcatProperties
  <1>4. Len(a \o z) = Len(s)
    BY <1>1, <1>2, <1>3
  <1>5. ASSUME NEW i \in 1..Len(s) PROVE (a \o z)[i] = s[i]
    <2>1. i \in 1..(Len(a) + Len(z))
      BY <1>1, <1>2
    <2>2. CASE i <= n
      BY <1>2, <1>3, <2>1, <2>2
    <2>3. CASE i > n
      <3>1. i - n \in 1..(Len(s) - n) /\ n + (i - n) = i
        BY <2>3
      <3>2. z[i - n] = s[i]
        BY <1>1, <3>1
      <3>3. (a \o z)[i] = z[i - n]
        BY <1>2, <1>3, <2>1, <2>3
      <3> QED
        BY <3>2, <3>3
    <2>4. i <= n \/ i > n
      OBVIOUS
    <2> QED
      BY <2>2, <2>3, <2>4, Zenon
  <1>6. a \o z = s
    BY <1>3, <1>4, <1>5, SeqEqual
  <1> QED
    BY <1>2, <1>6 DEF a, z

\* Behind a first sequence lies the second.
LEMMA RestOfConcat ==
  ASSUME NEW X, NEW s \in Seq(X), NEW t \in Seq(X), NEW n \in 0..Len(s)
  PROVE  /\ Rest(s \o t, n) = Rest(s, n) \o t
         /\ Rest(s \o t, Len(s)) = t
         /\ SubSeq(s \o t, 1, n) = SubSeq(s, 1, n)
  <1>1. /\ s \o t \in Seq(X) /\ Len(s \o t) = Len(s) + Len(t)
        /\ \A i \in 1..(Len(s) + Len(t)) : (s \o t)[i] = IF i <= Len(s) THEN s[i] ELSE t[i - Len(s)]
    BY ConcatProperties
  <1> DEFINE u == s \o t
  <1>2. Len(s) \in Nat /\ Len(t) \in Nat
    OBVIOUS
  <1> HIDE DEF u
  <1>3. ASSUME NEW k \in 0..Len(s) PROVE Rest(u, k) = Rest(s, k) \o t
    <2>1. k \in 0..Len(u) /\ u \in Seq(X)
      BY <1>1, <1>2 DEF u
    <2>2. /\ Rest(u, k) \in Seq(X) /\ Len(Rest(u, k)) = Len(u) - k
          /\ \A i \in 1..(Len(u) - k) : Rest(u, k)[i] = u[k + i]
      BY <2>1, RestIs
    <2>3. /\ Rest(s, k) \in Seq(X) /\ Len(Rest(s, k)) = Len(s) - k
          /\ \A i \in 1..(Len(s) - k) : Rest(s, k)[i] = s[k + i]
      BY RestIs
    <2> DEFINE a == Rest(s, k)
               b == Rest(u, k)
    <2> HIDE DEF a, b
    <2>4. /\ a \o t \in Seq(X) /\ Len(a \o t) = Len(a) + Len(t)
          /\ \A i \in 1..(Len(a) + Len(t)) : (a \o t)[i] = IF i <= Len(a) THEN a[i] ELSE t[i - Len(a)]
      BY <2>3, ConcatProperties DEF a
    <2>5. Len(b) = Len(a \o t) /\ Len(b) = Len(s) - k + Len(t)
      BY <1>1, <1>2, <2>2, <2>3, <2>4 DEF a, b, u
    <2>6. ASSUME NEW i \in 1..Len(b) PROVE b[i] = (a \o t)[i]
      <3>1. /\ i \in 1..(Len(u) - k) /\ k + i \in 1..(Len(s) + Len(t))
            /\ i \in 1..(Len(a) + Len(t))
        BY <1>1, <1>2, <2>3, <2>4, <2>5 DEF a, u
      <3>2. b[i] = IF k + i <= Len(s) THEN s[k + i] ELSE t[k + i - Len(s)]
        BY <1>1, <2>2, <3>1 DEF b, u
      <3>3. (a \o t)[i] = IF i <= Len(a) THEN a[i] ELSE t[i - Len(a)]
        BY <2>4, <3>1
      <3>4. CASE k + i <= Len(s)
        <4>1. i <= Len(a) /\ i \in 1..(Len(s) - k)
          BY <1>2, <2>3, <3>1, <3>4 DEF a
        <4>2. a[i] = s[k + i]
          BY <2>3, <4>1 DEF a
        <4> QED
          BY <3>2, <3>3, <3>4, <4>1, <4>2
      <3>5. CASE ~(k + i <= Len(s))
        <4>1. ~(i <= Len(a)) /\ i - Len(a) = k + i - Len(s)
          BY <1>2, <2>3, <3>1, <3>5 DEF a
        <4> QED
          BY <3>2, <3>3, <3>5, <4>1
      <3> QED
        BY <3>4, <3>5
    <2>7. b = a \o t
      BY <2>2, <2>4, <2>5, <2>6, SeqEqual DEF b
    <2> QED
      BY <2>7 DEF a, b
  <1>4. Rest(u, Len(s)) = t
    <2>1. Len(s) \in 0..Len(s)
      BY <1>2
    <2>2. Rest(u, Len(s)) = Rest(s, Len(s)) \o t
      BY <1>3, <2>1
    <2>3. Rest(s, Len(s)) = <<>>
      BY RestOfAll
    <2> QED
      BY <2>2, <2>3, ConcatEmptySeq
  <1>5. SubSeq(u, 1, n) = SubSeq(s, 1, n)
    <2>1. n \in 0..Len(u) /\ u \in Seq(X)
      BY <1>1, <1>2 DEF u
    <2>2. /\ SubSeq(u, 1, n) \in Seq(X) /\ Len(SubSeq(u, 1, n)) = n
          /\ \A i \in 1..n : SubSeq(u, 1, n)[i] = u[i]
      BY <2>1, FirstAndRest
    <2>3. /\ SubSeq(s, 1, n) \in Seq(X) /\ Len(SubSeq(s, 1, n)) = n
          /\ \A i \in 1..n : SubSeq(s, 1, n)[i] = s[i]
      BY FirstAndRest
    <2>4. \A i \in 1..n : u[i] = s[i]
      BY <1>1, <1>2 DEF u
    <2> QED
      BY <2>2, <2>3, <2>4, SeqEqual
  <1> QED
    BY <1>3, <1>4, <1>5 DEF u

\* What is left is left whoever takes it away.
LEMMA RestOfRest ==
  ASSUME NEW X, NEW s \in Seq(X), NEW m \in 0..Len(s), NEW n \in 0..(Len(s) - m)
  PROVE  Rest(Rest(s, m), n) = Rest(s, m + n)
  <1> DEFINE a == Rest(s, m)
  <1>1. /\ a \in Seq(X) /\ Len(a) = Len(s) - m
        /\ \A i \in 1..(Len(s) - m) : a[i] = s[m + i]
    BY RestIs
  <1>2. n \in 0..Len(a) /\ m + n \in 0..Len(s) /\ Len(s) \in Nat
    BY <1>1
  <1> HIDE DEF a
  <1>3. /\ Rest(a, n) \in Seq(X) /\ Len(Rest(a, n)) = Len(a) - n
        /\ \A i \in 1..(Len(a) - n) : Rest(a, n)[i] = a[n + i]
    BY <1>1, <1>2, RestIs, ZenonT(30)
  <1>4. /\ Rest(s, m + n) \in Seq(X) /\ Len(Rest(s, m + n)) = Len(s) - (m + n)
        /\ \A i \in 1..(Len(s) - (m + n)) : Rest(s, m + n)[i] = s[m + n + i]
    BY <1>2, RestIs
  <1>5. ASSUME NEW i \in 1..(Len(a) - n) PROVE Rest(a, n)[i] = Rest(s, m + n)[i]
    <2>1. /\ n + i \in 1..(Len(s) - m) /\ m + (n + i) = m + n + i
          /\ i \in 1..(Len(s) - (m + n))
      BY <1>1, <1>2
    <2>2. a[n + i] = s[m + n + i]
      BY <1>1, <2>1
    <2> QED
      BY <1>3, <1>4, <2>1, <2>2
  <1>6. Len(Rest(a, n)) = Len(Rest(s, m + n)) /\ Len(Rest(a, n)) = Len(a) - n
    <2>1. Len(a) = Len(s) - m /\ Len(Rest(a, n)) = Len(a) - n
      BY <1>1, <1>3, Zenon
    <2>2. Len(Rest(s, m + n)) = Len(s) - (m + n)
      BY <1>4, Zenon
    <2>3. Len(s) \in Nat /\ m \in Nat /\ n \in Nat
      OBVIOUS
    <2> QED
      BY <2>1, <2>2, <2>3
  <1>7. Rest(a, n) = Rest(s, m + n)
    BY <1>3, <1>4, <1>5, <1>6, SeqEqual
  <1> QED
    BY <1>7 DEF a

\* Two ways to cut one sequence in two, the second cut no later.
LEMMA TwoCuts ==
  ASSUME NEW X, NEW u \in Seq(X), NEW z \in Seq(X), NEW p \in Seq(X), NEW q \in Seq(X),
         NEW y, y = u \o z, y = p \o q, Len(p) <= Len(u)
  PROVE  p = SubSeq(u, 1, Len(p)) /\ q = Rest(u, Len(p)) \o z
  <1>1. Len(p) \in 0..Len(u) /\ Len(p) \in 0..Len(p)
    OBVIOUS
  <1>2. Rest(u \o z, Len(p)) = Rest(u, Len(p)) \o z /\ SubSeq(u \o z, 1, Len(p)) = SubSeq(u, 1, Len(p))
    BY <1>1, RestOfConcat, ZenonT(30)
  <1>3. Rest(p \o q, Len(p)) = q /\ SubSeq(p \o q, 1, Len(p)) = SubSeq(p, 1, Len(p))
    BY <1>1, RestOfConcat
  <1>4. SubSeq(p, 1, Len(p)) = p
    BY SubSeqFull
  <1> QED
    BY <1>2, <1>3, <1>4

-----------------------------------------------------------------------------
(* What udp_tcp_consume takes from a stream of frames.                      *)

\* The length that has been read and whose datagram is still to come.
Header(w) == IF w = None THEN <<>> ELSE <<w \div 256, w % 256>>

\* The datagrams in the first n of the frames p.
Bodies(p, n) == [i \in 1..n |-> Rest(p[i], 2)]

\* What udp_tcp_consume returns.
Results(b, cap) ==
    [off : 0..Len(b), want : None..cap, frames : Seq(Seq(Byte)), bad : BOOLEAN]

\* Induction along the loop, from the end of b.
LEMMA LoopInduction ==
  ASSUME NEW b \in Seq(Byte), NEW cap \in Nat, NEW S,
         \A s \in Places(b, cap) :
            (\A t \in Places(b, cap) : Turns(b, t) < Turns(b, s) => t \in S) => s \in S
  PROVE  Places(b, cap) \subseteq S
  <1> DEFINE P == Places(b, cap)
             G(n) == \A s \in P : Turns(b, s) < n => s \in S
             T == {n \in Nat : G(n)}
  <1>1. G(0)
    <2>1. \A s \in P : ~(Turns(b, s) < 0)
      BY TurnsBound
    <2> QED
      BY <2>1, Zenon
  <1>2. ASSUME NEW n \in Nat, G(n) PROVE G(n + 1)
    <2> SUFFICES ASSUME NEW s \in P, Turns(b, s) < n + 1 PROVE s \in S
      BY Zenon
    <2>1. ASSUME NEW t \in P, Turns(b, t) < Turns(b, s) PROVE t \in S
      <3>1. Turns(b, t) \in Nat /\ Turns(b, s) \in Nat
        BY TurnsBound
      <3>2. Turns(b, t) < n
        BY <2>1, <3>1
      <3> QED
        BY <1>2, <3>2, Zenon
    <2> QED
      BY <2>1, Zenon
  <1> HIDE DEF G
  <1>3. 0 \in T /\ \A n \in Nat : n \in T => n + 1 \in T
    BY <1>1, <1>2
  <1>4. \A n \in T : G(n)
    OBVIOUS
  <1> HIDE DEF T
  <1>5. 2 * Len(b) + 2 \in T
    <2>1. 2 * Len(b) + 2 \in Nat
      OBVIOUS
    <2> QED
      BY <1>3, <2>1, Induction
  <1>6. \A s \in P : Turns(b, s) < 2 * Len(b) + 2 => s \in S
    BY <1>4, <1>5, Zenon DEF G
  <1> QED
    BY <1>6, TurnsBound, Zenon

\* The loop by its five ways on: no length is there, ...
LEMMA NoLength ==
  ASSUME NEW b \in Seq(Byte), NEW cap \in Nat, NEW f, Loop(f, b, cap), NEW s \in Places(b, cap),
         s.want = None, s.off + 2 > Len(b)
  PROVE  f[s] = Halt(s, FALSE)
  BY Zenon DEF Loop, Turn

\* ... one that is out of bounds, ...
LEMMA BadLength ==
  ASSUME NEW b \in Seq(Byte), NEW cap \in Nat, NEW f, Loop(f, b, cap), NEW s \in Places(b, cap),
         s.want = None, s.off + 2 <= Len(b), LengthAt(b, s.off) \notin MinFrame..cap
  PROVE  f[s] = Halt(s, TRUE)
  <1>1. ~(s.off + 2 > Len(b))
    BY DEF Places
  <1> QED
    BY <1>1, Zenon DEF Loop, Turn

\* ... one that is in bounds, ...
LEMMA GoodLength ==
  ASSUME NEW b \in Seq(Byte), NEW cap \in Nat, NEW f, Loop(f, b, cap), NEW s \in Places(b, cap),
         s.want = None, s.off + 2 <= Len(b), LengthAt(b, s.off) \in MinFrame..cap
  PROVE  f[s] = f[At(s.off + 2, LengthAt(b, s.off))]
  <1>1. ~(s.off + 2 > Len(b))
    BY DEF Places
  <1> QED
    BY <1>1, Zenon DEF Loop, Turn

\* ... a datagram that is not all there, ...
LEMMA PartOfDatagram ==
  ASSUME NEW b \in Seq(Byte), NEW cap \in Nat, NEW f, Loop(f, b, cap), NEW s \in Places(b, cap),
         s.want # None, ~(s.want <= Len(b) - s.off)
  PROVE  f[s] = Halt(s, FALSE)
  <1>1. Halt(At(s.off, Kept(s.want)), FALSE) = Halt(s, FALSE)
    BY DEF Halt, At, Kept
  <1> QED
    BY <1>1, Zenon DEF Loop, Turn, Whole

\* ... and one that is.
LEMMA WholeDatagram ==
  ASSUME NEW b \in Seq(Byte), NEW cap \in Nat, NEW f, Loop(f, b, cap), NEW s \in Places(b, cap),
         s.want # None, s.want <= Len(b) - s.off
  PROVE  f[s] = InFront(SubSeq(b, s.off + 1, s.off + s.want), f[At(s.off + s.want, None)])
  BY Zenon DEF Loop, Turn, Whole

\* What the loop returns has its types, and lies behind where it began.
LEMMA LoopType ==
  ASSUME NEW b \in Seq(Byte), NEW cap \in Nat, NEW f, Loop(f, b, cap)
  PROVE  \A s \in Places(b, cap) : f[s] \in Results(b, cap) /\ f[s].off >= s.off
  <1> DEFINE S == {s \in Places(b, cap) : f[s] \in Results(b, cap) /\ f[s].off >= s.off}
  <1> SUFFICES Places(b, cap) \subseteq S
    OBVIOUS
  <1> SUFFICES ASSUME NEW s \in Places(b, cap),
                      \A t \in Places(b, cap) : Turns(b, t) < Turns(b, s) => t \in S
               PROVE  s \in S
    <2> HIDE DEF S
    <2> QED
      BY LoopInduction
  <1>1. Len(b) \in Nat /\ s.off \in 0..Len(b) /\ s.want \in None..cap
    BY DEF Places
  <1>2. \A bad \in BOOLEAN : Halt(s, bad) \in Results(b, cap) /\ Halt(s, bad).off >= s.off
    BY <1>1 DEF Halt, Results
  <1>3. ASSUME NEW t \in Places(b, cap), t \in S PROVE f[t] \in Results(b, cap) /\ f[t].off >= t.off
    BY <1>3
  <1>4. f[s] \in Results(b, cap) /\ f[s].off >= s.off => s \in S
    OBVIOUS
  <1> HIDE DEF S
  <1>5. CASE s.want = None
    <2>1. CASE s.off + 2 > Len(b)
      <3>1. f[s] = Halt(s, FALSE)
        BY <1>5, <2>1, NoLength
      <3> QED
        BY <1>2, <1>4, <3>1
    <2>2. CASE s.off + 2 <= Len(b) /\ LengthAt(b, s.off) \notin MinFrame..cap
      <3>1. f[s] = Halt(s, TRUE)
        BY <1>5, <2>2, BadLength
      <3> QED
        BY <1>2, <1>4, <3>1
    <2>3. CASE s.off + 2 <= Len(b) /\ LengthAt(b, s.off) \in MinFrame..cap
      <3> DEFINE t == At(s.off + 2, LengthAt(b, s.off))
      <3>1. t \in Places(b, cap) /\ Turns(b, t) < Turns(b, s)
        BY <1>5, <2>3, AfterLength
      <3>2. f[s] = f[t]
        BY <1>5, <2>3, GoodLength
      <3>3. t.off = s.off + 2
        BY DEF At
      <3> HIDE DEF t
      <3>4. f[t] \in Results(b, cap) /\ f[t].off >= t.off
        BY <1>3, <3>1
      <3>5. f[t].off \in Int
        BY <1>1, <3>4 DEF Results
      <3> QED
        BY <1>1, <1>4, <3>2, <3>3, <3>4, <3>5
    <2> QED
      BY <1>1, <2>1, <2>2, <2>3
  <1>6. CASE s.want # None
    <2>1. CASE ~(s.want <= Len(b) - s.off)
      <3>1. f[s] = Halt(s, FALSE)
        BY <1>6, <2>1, PartOfDatagram
      <3> QED
        BY <1>2, <1>4, <3>1
    <2>2. CASE s.want <= Len(b) - s.off
      <3> DEFINE t == At(s.off + s.want, None)
                 d == SubSeq(b, s.off + 1, s.off + s.want)
      <3>0. s.want \in Nat /\ s.off + s.want <= Len(b)
        BY <1>1, <1>6, <2>2 DEF None
      <3>1. t \in Places(b, cap) /\ Turns(b, t) < Turns(b, s)
        BY <1>6, <3>0, AfterDatagram
      <3>2. f[s] = InFront(d, f[t])
        BY <1>6, <2>2, WholeDatagram
      <3>3. t.off = s.off + s.want
        BY DEF At
      <3>4. d \in Seq(Byte)
        <4>1. s.off + 1 \in Int /\ s.off + s.want \in Int
              /\ \A i \in (s.off + 1)..(s.off + s.want) : b[i] \in Byte
          BY <1>1, <3>0
        <4> QED
          BY <4>1, SubSeqProperties
      <3> HIDE DEF t, d
      <3>5. f[t] \in Results(b, cap) /\ f[t].off >= t.off
        BY <1>3, <3>1
      <3>6. /\ f[t].off \in 0..Len(b) /\ f[t].want \in None..cap
            /\ f[t].frames \in Seq(Seq(Byte)) /\ f[t].bad \in BOOLEAN
        BY <3>5 DEF Results
      <3>7. f[s] = [off |-> f[t].off, want |-> f[t].want, frames |-> <<d>> \o f[t].frames,
                    bad |-> f[t].bad]
        BY <3>2, <3>5 DEF Results, InFront
      <3>8. <<d>> \o f[t].frames \in Seq(Seq(Byte))
        <4>1. <<d>> \in Seq(Seq(Byte))
          BY <3>4
        <4> QED
          BY <3>6, <4>1, ConcatProperties
      <3>9. f[s] \in Results(b, cap)
        BY <3>6, <3>7, <3>8 DEF Results
      <3>10. f[s].off = f[t].off
        BY <3>7
      <3>11. f[s].off >= s.off
        BY <1>1, <3>0, <3>3, <3>5, <3>6, <3>10
      <3> QED
        BY <1>4, <3>9, <3>11
    <2> QED
      BY <2>1, <2>2
  <1> QED
    BY <1>5, <1>6

\* So udp_tcp_consume stays within its buffer.
LEMMA ConsumeType ==
  ASSUME NEW b \in Seq(Byte), NEW cap \in Nat, NEW w \in None..cap
  PROVE  Consume(w, b, cap) \in Results(b, cap)
  <1>1. At(0, w) \in Places(b, cap)
    BY DEF At, Places
  <1> QED
    BY <1>1, ConsumeIsLoop, LoopType

\* A buffer with two bytes more than a datagram may have is never stuck.
LEMMA ConsumeAdvances ==
  ASSUME NEW b \in Seq(Byte), NEW cap \in Nat, NEW w \in None..cap, Len(b) >= cap + 2
  PROVE  Consume(w, b, cap).bad \/ Consume(w, b, cap).off # 0
  <1>1. PICK f : Loop(f, b, cap) /\ Consume(w, b, cap) = f[At(0, w)]
    BY ConsumeIsLoop
  <1>2. Len(b) \in Nat /\ Len(b) >= 2 /\ MinFrame \in Nat
    BY RelayAssumption
  <1>3. \A v \in None..cap : At(0, v) \in Places(b, cap) /\ At(0, v).off = 0 /\ At(0, v).want = v
    BY DEF At, Places
  <1>4. f[At(0, None)].bad \/ f[At(0, None)].off # 0
    <2>1. At(0, None) \in Places(b, cap) /\ At(0, None).off = 0 /\ At(0, None).want = None
      BY <1>3 DEF None
    <2>2. 0 + 2 <= Len(b)
      BY <1>2
    <2>3. CASE LengthAt(b, 0) \notin MinFrame..cap
      <3>1. f[At(0, None)] = Halt(At(0, None), TRUE)
        BY <1>1, <2>1, <2>2, <2>3, BadLength
      <3> QED
        BY <3>1 DEF Halt
    <2>4. CASE LengthAt(b, 0) \in MinFrame..cap
      <3> DEFINE l == LengthAt(b, 0)
      <3>1. f[At(0, None)] = f[At(0 + 2, l)]
        BY <1>1, <2>1, <2>2, <2>4, GoodLength
      <3>2. At(0 + 2, l) \in Places(b, cap)
        BY <2>1, <2>2, <2>4, AfterLength
      <3>3. At(0 + 2, l).off = 2
        BY DEF At
      <3>4. f[At(0 + 2, l)] \in Results(b, cap) /\ f[At(0 + 2, l)].off >= 2
        BY <1>1, <3>2, <3>3, LoopType
      <3>5. f[At(0 + 2, l)].off \in Int
        BY <1>2, <3>4 DEF Results
      <3> QED
        BY <3>1, <3>4, <3>5
    <2> QED
      BY <2>3, <2>4
  <1>5. CASE w = None
    BY <1>1, <1>4, <1>5
  <1>6. CASE w # None
    <2>1. At(0, w) \in Places(b, cap) /\ At(0, w).off = 0 /\ At(0, w).want = w
      BY <1>3
    <2>2. w \in Nat /\ w <= Len(b) - 0 /\ 0 + w <= Len(b)
      BY <1>2, <1>6 DEF None
    <2> DEFINE s == At(0, w)
               t == At(s.off + s.want, None)
               d == SubSeq(b, s.off + 1, s.off + s.want)
    <2>3. f[s] = InFront(d, f[t])
      BY <1>1, <1>6, <2>1, <2>2, WholeDatagram
    <2>4. t \in Places(b, cap)
      BY <1>6, <2>1, <2>2, AfterDatagram
    <2>5. t.off = w /\ (w = 0 => t = At(0, None))
      <3>1. t = At(w, None)
        BY <2>1, <2>2
      <3> QED
        BY <3>1 DEF At
    <2> HIDE DEF s, t, d
    <2>6. f[t] \in Results(b, cap) /\ f[t].off >= w
      BY <1>1, <2>4, <2>5, LoopType
    <2>7. f[s].off = f[t].off /\ f[s].bad = f[t].bad /\ f[t].off \in Int
      BY <1>2, <2>3, <2>6 DEF Results, InFront
    <2>8. CASE w = 0
      BY <1>1, <1>4, <2>5, <2>7, <2>8 DEF s
    <2>9. CASE w # 0
      BY <1>1, <2>2, <2>6, <2>7, <2>9 DEF s
    <2> QED
      BY <2>8, <2>9
  <1> QED
    BY <1>5, <1>6

-----------------------------------------------------------------------------
(* What udp_tcp_consume makes of a stream of frames.                        *)

\* Bytes are numbers.
LEMMA BytesAreNat ==
  ASSUME NEW s \in Seq(Byte)
  PROVE  s \in Seq(Nat)
  <1>1. Len(s) \in Nat /\ \A i \in 1..Len(s) : s[i] \in Byte
    OBVIOUS
  <1>2. s = [i \in 1..Len(s) |-> s[i]]
    OBVIOUS
  <1>3. \A i \in 1..Len(s) : s[i] \in Nat
    <2>1. \A x \in Byte : x \in Nat
      BY DEF Byte
    <2> QED
      BY <1>1, <2>1, Zenon
  <1> DEFINE n == Len(s)
             F(i) == s[i]
  <1> HIDE DEF n, F
  <1>4. [i \in 1..n |-> F(i)] \in Seq(Nat)
    BY <1>1, <1>3 DEF n, F
  <1> QED
    BY <1>2, <1>4 DEF n, F

\* A frame of the server's is as long as its first two bytes say.
LEMMA FramesOfServer ==
  ASSUME NEW p \in Seq(Payloads)
  PROVE  /\ p \in Seq(Seq(Nat)) /\ p \in Seq(Seq(Byte))
         /\ \A i \in 1..Len(p) : /\ p[i] \in Seq(Byte) /\ Len(p[i]) \in Nat /\ Len(p[i]) >= 2
                                 /\ Len(p[i]) = 2 + p[i][1] * 256 + p[i][2]
  <1>1. Payloads \subseteq Seq(Byte) /\ Payloads \subseteq Seq(Nat)
    <2>1. Payloads \subseteq Seq(Byte)
      BY HandshakeAssumption DEF Byte
    <2> QED
      BY <2>1, BytesAreNat
  <1>2. \A i \in 1..Len(p) : p[i] \in Payloads
    OBVIOUS
  <1>3. p \in Seq(Seq(Nat)) /\ p \in Seq(Seq(Byte))
    BY <1>1
  <1>4. \A f \in Payloads : f \in Seq(Byte) /\ Len(f) \in Nat
    BY <1>1
  <1> QED
    BY <1>2, <1>3, <1>4, RelayAssumption, Zenon

\* One datagram for each frame, its header gone.
LEMMA BodiesAre ==
  ASSUME NEW p \in Seq(Payloads), NEW n \in 0..Len(p)
  PROVE  /\ Bodies(p, n) \in Seq(Seq(Byte)) /\ Len(Bodies(p, n)) = n
         /\ \A i \in 1..n : Bodies(p, n)[i] = Rest(p[i], 2)
  <1>1. ASSUME NEW i \in 1..n PROVE Rest(p[i], 2) \in Seq(Byte)
    <2>1. p[i] \in Seq(Byte) /\ 2 \in 0..Len(p[i])
      BY FramesOfServer
    <2> QED
      BY <2>1, RestIs
  <1>2. n \in Nat
    OBVIOUS
  <1>3. \A i \in 1..n : Bodies(p, n)[i] = Rest(p[i], 2)
    BY Zenon DEF Bodies
  <1>4. Bodies(p, n) = [i \in 1..n |-> Rest(p[i], 2)]
    BY Zenon DEF Bodies
  <1> DEFINE B(i) == Rest(p[i], 2)
  <1> HIDE DEF B
  <1>5. [i \in 1..n |-> B(i)] \in Seq(Seq(Byte)) /\ Len([i \in 1..n |-> B(i)]) = n
    BY <1>1, <1>2 DEF B
  <1> QED
    BY <1>3, <1>4, <1>5 DEF B

\* No frames, no datagrams.
LEMMA BodiesOfNone ==
  ASSUME NEW p \in Seq(Payloads)
  PROVE  Bodies(p, 0) = <<>>
  <1>1. 0 \in 0..Len(p)
    OBVIOUS
  <1> QED
    BY <1>1, BodiesAre

\* The datagrams of the first n frames, and of k more.
LEMMA BodiesOfMore ==
  ASSUME NEW p \in Seq(Payloads), NEW n \in 0..Len(p), NEW k \in 0..(Len(p) - n)
  PROVE  Bodies(p, n) \o Bodies(Rest(p, n), k) = Bodies(p, n + k)
  <1> DEFINE q == Rest(p, n)
             a == Bodies(p, n)
             z == Bodies(q, k)
             c == Bodies(p, n + k)
  <1>1. q \in Seq(Payloads) /\ Len(q) = Len(p) - n /\ \A i \in 1..(Len(p) - n) : q[i] = p[n + i]
    BY RestIs
  <1>2. n + k \in 0..Len(p) /\ k \in 0..Len(q) /\ n \in Nat /\ k \in Nat
    BY <1>1
  <1> HIDE DEF q, a, z, c
  <1>3. a \in Seq(Seq(Byte)) /\ Len(a) = n /\ \A i \in 1..n : a[i] = Rest(p[i], 2)
    BY BodiesAre DEF a
  <1>4. z \in Seq(Seq(Byte)) /\ Len(z) = k /\ \A i \in 1..k : z[i] = Rest(q[i], 2)
    BY <1>1, <1>2, BodiesAre DEF z
  <1>5. c \in Seq(Seq(Byte)) /\ Len(c) = n + k /\ \A i \in 1..(n + k) : c[i] = Rest(p[i], 2)
    BY <1>2, BodiesAre DEF c
  <1>6. /\ a \o z \in Seq(Seq(Byte)) /\ Len(a \o z) = n + k
        /\ \A i \in 1..(n + k) : (a \o z)[i] = IF i <= n THEN a[i] ELSE z[i - n]
    BY <1>3, <1>4, ConcatProperties
  <1>7. ASSUME NEW i \in 1..(n + k) PROVE (a \o z)[i] = c[i]
    <2>1. CASE i <= n
      <3>1. i \in 1..n
        BY <2>1
      <3> QED
        BY <1>3, <1>5, <1>6, <2>1, <3>1
    <2>2. CASE ~(i <= n)
      <3>1. i - n \in 1..k /\ i - n \in 1..(Len(p) - n) /\ n + (i - n) = i
        BY <1>2, <2>2
      <3>2. q[i - n] = p[i]
        BY <1>1, <3>1
      <3> QED
        BY <1>4, <1>5, <1>6, <2>2, <3>1, <3>2
    <2> QED
      BY <2>1, <2>2
  <1>8. a \o z = c
    BY <1>5, <1>6, <1>7, SeqEqual
  <1> QED
    BY <1>8 DEF a, z, c, q

\* The first datagram and the others.
LEMMA FirstOfBodies ==
  ASSUME NEW p \in Seq(Payloads), p # <<>>, NEW k \in 0..Len(Tail(p))
  PROVE  <<Rest(p[1], 2)>> \o Bodies(Tail(p), k) = Bodies(p, k + 1)
  <1>1. Tail(p) = Rest(p, 1) /\ Len(Tail(p)) = Len(p) - 1 /\ 1 \in 0..Len(p) /\ 1 \in 1..1
    BY DEF Rest
  <1>2. k \in 0..(Len(p) - 1) /\ 1 + k = k + 1
    BY <1>1
  <1>3. Bodies(p, 1) \o Bodies(Rest(p, 1), k) = Bodies(p, 1 + k)
    BY <1>1, <1>2, BodiesOfMore
  <1>4. Bodies(p, 1) = <<Rest(p[1], 2)>>
    <2>1. /\ Bodies(p, 1) \in Seq(Seq(Byte)) /\ Len(Bodies(p, 1)) = 1
          /\ Bodies(p, 1)[1] = Rest(p[1], 2)
      BY <1>1, BodiesAre
    <2> QED
      BY <2>1
  <1> QED
    BY <1>1, <1>2, <1>3, <1>4

\* The first two bytes of a stream of frames are its first frame's length.
LEMMA FirstFrame ==
  ASSUME NEW p \in Seq(Payloads), NEW u \in Seq(Nat), u = FlattenSeq(p), Len(u) > 0
  PROVE  /\ p # <<>> /\ p[1] \in Seq(Nat) /\ p[1] \in Seq(Byte) /\ Tail(p) \in Seq(Payloads)
         /\ FlattenSeq(Tail(p)) \in Seq(Nat)
         /\ u = p[1] \o FlattenSeq(Tail(p))
         /\ p[1][1] = u[1] /\ p[1][2] = u[2] /\ u[1] \in Byte /\ u[2] \in Byte
         /\ Len(p[1]) = 2 + u[1] * 256 + u[2] /\ Len(p[1]) <= Len(u)
  <1>1. p # <<>>
    BY FlattenEmpty
  <1>2. 1 \in 1..Len(p) /\ p \in Seq(Seq(Nat)) /\ Tail(p) \in Seq(Payloads)
    BY <1>1, FramesOfServer
  <1>3. /\ p[1] \in Seq(Byte) /\ p[1] \in Seq(Nat) /\ Len(p[1]) >= 2
        /\ Len(p[1]) = 2 + p[1][1] * 256 + p[1][2]
    BY <1>2, FramesOfServer, BytesAreNat
  <1>4. FlattenSeq(Tail(p)) \in Seq(Nat)
    <2>1. Tail(p) \in Seq(Seq(Nat))
      BY <1>2, FramesOfServer
    <2> QED
      BY <2>1, FlattenType
  <1>5. u = p[1] \o FlattenSeq(Tail(p))
    BY <1>1, <1>2, FlattenFirst
  <1> DEFINE x == p[1]
             y == FlattenSeq(Tail(p))
  <1> HIDE DEF x, y
  <1>6. x \in Seq(Nat) /\ y \in Seq(Nat) /\ u = x \o y /\ Len(x) >= 2 /\ x \in Seq(Byte)
    BY <1>3, <1>4, <1>5 DEF x, y
  <1>7. u[1] = x[1] /\ u[2] = x[2] /\ x[1] \in Byte /\ x[2] \in Byte /\ Len(x) <= Len(u)
    BY <1>6, ConcatProperties
  <1> QED
    BY <1>1, <1>2, <1>3, <1>4, <1>5, <1>7 DEF x, y

\* r is right for the frames p that begin where the call did, when z is not in
\* the buffer b yet: some of them are taken, and what is left begins with the
\* next, unless that one is not legal.
Right(r, p, b, z) ==
    \E k \in 0..Len(p) :
       /\ r.frames = Bodies(p, k)
       /\ r.bad  => k < Len(p) /\ ~Legal(p[k + 1])
       /\ ~r.bad => Header(r.want) \o Rest(b, r.off) \o z = FlattenSeq(Rest(p, k))

\* Nothing is taken.
LEMMA HaltIsRight ==
  ASSUME NEW b, NEW z, NEW s, NEW p \in Seq(Payloads),
         Header(s.want) \o Rest(b, s.off) \o z = FlattenSeq(p)
  PROVE  Right(Halt(s, FALSE), p, b, z)
  <1>1. 0 \in 0..Len(p) /\ Bodies(p, 0) = <<>> /\ Rest(p, 0) = p
    BY BodiesOfNone, RestOfAll
  <1>2. Halt(s, FALSE).frames = <<>> /\ Halt(s, FALSE).want = s.want
        /\ Halt(s, FALSE).off = s.off /\ Halt(s, FALSE).bad = FALSE
    BY DEF Halt
  <1> QED
    BY <1>1, <1>2, Zenon DEF Right

\* A length out of bounds is the next frame's.
LEMMA BadIsRight ==
  ASSUME NEW b, NEW z, NEW s, NEW p \in Seq(Payloads), p # <<>>, ~Legal(p[1])
  PROVE  Right(Halt(s, TRUE), p, b, z)
  <1>1. 0 \in 0..Len(p) /\ Bodies(p, 0) = <<>> /\ 0 < Len(p) /\ p[0 + 1] = p[1]
    BY BodiesOfNone
  <1>2. Halt(s, TRUE).frames = <<>> /\ Halt(s, TRUE).bad = TRUE
    BY DEF Halt
  <1> QED
    BY <1>1, <1>2, Zenon DEF Right

\* One is taken, and those behind it are right.
LEMMA InFrontIsRight ==
  ASSUME NEW b, NEW z, NEW r \in Results(b, RxCap - 2), NEW p \in Seq(Payloads), p # <<>>,
         Right(r, Tail(p), b, z)
  PROVE  Right(InFront(Rest(p[1], 2), r), p, b, z)
  <1>1. PICK k \in 0..Len(Tail(p)) :
           /\ r.frames = Bodies(Tail(p), k)
           /\ r.bad  => k < Len(Tail(p)) /\ ~Legal(Tail(p)[k + 1])
           /\ ~r.bad => Header(r.want) \o Rest(b, r.off) \o z = FlattenSeq(Rest(Tail(p), k))
    BY Zenon DEF Right
  <1>2. /\ Tail(p) = Rest(p, 1) /\ Len(Tail(p)) = Len(p) - 1 /\ Len(p) \in Nat /\ 1 \in 0..Len(p)
        /\ k \in 0..(Len(p) - 1)
    BY DEF Rest
  <1>3. k + 1 \in 0..Len(p)
    BY <1>2
  <1>4. Rest(Tail(p), k) = Rest(p, k + 1)
    <2>1. Rest(Rest(p, 1), k) = Rest(p, 1 + k)
      BY <1>2, RestOfRest
    <2>2. 1 + k = k + 1
      BY <1>2
    <2> QED
      BY <1>2, <2>1, <2>2
  <1>5. r.bad => k + 1 < Len(p) /\ ~Legal(p[k + 1 + 1])
    <2> SUFFICES ASSUME r.bad PROVE k + 1 < Len(p) /\ ~Legal(p[k + 1 + 1])
      OBVIOUS
    <2>1. k < Len(p) - 1
      BY <1>1, <1>2
    <2>2. k + 1 \in 1..(Len(p) - 1) /\ 1 + (k + 1) = k + 1 + 1 /\ k + 1 < Len(p)
      BY <1>2, <2>1
    <2>3. \A i \in 1..(Len(p) - 1) : Rest(p, 1)[i] = p[1 + i]
      BY <1>2, RestIs
    <2>4. Tail(p)[k + 1] = p[k + 1 + 1]
      BY <1>2, <2>2, <2>3
    <2> QED
      BY <1>1, <2>2, <2>4
  <1> DEFINE d == Rest(p[1], 2)
             q == InFront(d, r)
  <1>6. q.frames = <<d>> \o r.frames /\ q.bad = r.bad /\ q.want = r.want /\ q.off = r.off
    BY DEF InFront, Results
  <1>7. <<d>> \o r.frames = Bodies(p, k + 1)
    BY <1>1, FirstOfBodies
  <1> HIDE DEF q
  <1>8. Right(q, p, b, z)
    BY <1>1, <1>3, <1>4, <1>5, <1>6, <1>7, Zenon DEF Right
  <1> QED
    BY <1>8 DEF q

\* Behind a length lies what was behind its two bytes.
LEMMA HeaderOfLength ==
  ASSUME NEW b \in Seq(Byte), NEW off \in Nat, off + 2 <= Len(b)
  PROVE  Header(LengthAt(b, off)) \o Rest(b, off + 2) = Rest(b, off)
  <1> DEFINE x == b[off + 1]
             y == b[off + 2]
             h == Header(LengthAt(b, off))
             u == Rest(b, off)
             v == Rest(b, off + 2)
  <1>1. x \in 0..255 /\ y \in 0..255 /\ off \in 0..Len(b) /\ off + 2 \in 0..Len(b)
    <2>1. off + 1 \in 1..Len(b) /\ off + 2 \in 1..Len(b)
      OBVIOUS
    <2>2. x \in Byte /\ y \in Byte
      BY <2>1
    <2> QED
      BY <2>1, <2>2 DEF Byte
  <1>2. h = <<x, y>>
    <2>1. LengthAt(b, off) = x * 256 + y
      BY DEF LengthAt
    <2> HIDE DEF x, y
    <2>2. x * 256 + y \in Nat
      BY <1>1
    <2>3. (x * 256 + y) \div 256 = x /\ (x * 256 + y) % 256 = y
      BY <1>1
    <2>4. x * 256 + y # None
      BY <2>2 DEF None
    <2> QED
      BY <2>1, <2>3, <2>4 DEF Header
  <1>3. /\ u \in Seq(Byte) /\ Len(u) = Len(b) - off
        /\ \A i \in 1..(Len(b) - off) : u[i] = b[off + i]
    BY <1>1, RestIs
  <1>4. /\ v \in Seq(Byte) /\ Len(v) = Len(b) - (off + 2)
        /\ \A i \in 1..(Len(b) - (off + 2)) : v[i] = b[off + 2 + i]
    BY <1>1, RestIs
  <1>5. Len(b) \in Nat /\ <<x, y>> \in Seq(Byte) /\ u[1] = x /\ u[2] = y
    <2>1. 1 \in 1..(Len(b) - off) /\ 2 \in 1..(Len(b) - off)
      BY <1>1
    <2>2. u[1] = x /\ u[2] = y
      BY <1>3, <2>1
    <2> QED
      BY <1>1, <2>2 DEF Byte
  <1> HIDE DEF x, y, h, u, v
  <1>6. /\ <<x, y>> \o v \in Seq(Byte) /\ Len(<<x, y>> \o v) = 2 + Len(v)
        /\ \A i \in 1..(2 + Len(v)) :
              (<<x, y>> \o v)[i] = IF i <= 2 THEN <<x, y>>[i] ELSE v[i - 2]
    <2>1. Len(<<x, y>>) = 2
      OBVIOUS
    <2> QED
      BY <1>4, <1>5, <2>1, ConcatProperties
  <1>7. Len(u) = 2 + Len(v)
    BY <1>1, <1>3, <1>4, <1>5
  <1>8. ASSUME NEW i \in 1..(2 + Len(v)) PROVE (<<x, y>> \o v)[i] = u[i]
    <2>1. CASE i = 1
      BY <1>5, <1>6, <2>1
    <2>2. CASE i = 2
      BY <1>5, <1>6, <2>2
    <2>3. CASE i # 1 /\ i # 2
      <3>1. /\ ~(i <= 2) /\ i - 2 \in 1..(Len(b) - (off + 2)) /\ i \in 1..(Len(b) - off)
            /\ off + 2 + (i - 2) = off + i
        BY <1>1, <1>4, <1>5, <2>3
      <3>2. v[i - 2] = b[off + i] /\ u[i] = b[off + i]
        BY <1>3, <1>4, <3>1
      <3> QED
        BY <1>6, <3>1, <3>2
    <2> QED
      BY <2>1, <2>2, <2>3
  <1>9. <<x, y>> \o v = u
    BY <1>3, <1>6, <1>7, <1>8, SeqEqual
  <1> QED
    BY <1>2, <1>9 DEF h, u, v

\* x begins with a length w, its datagram is in b behind off, and so is what
\* lies behind.
Framed(x, b, off, w) ==
    /\ x \in Seq(Nat) /\ Len(x) = 2 + Len(b) - off
    /\ x[1] = w \div 256 /\ x[2] = w % 256
    /\ Rest(x, 2 + w) = Rest(b, off + w)
    /\ Rest(SubSeq(x, 1, 2 + w), 2) = SubSeq(b, off + 1, off + w)

\* The frame of a length that has been read.
LEMMA DatagramOfHeader ==
  ASSUME NEW b \in Seq(Byte), NEW off \in Nat, NEW w \in Nat, off + w <= Len(b),
         NEW x, x = Header(w) \o Rest(b, off)
  PROVE  Framed(x, b, off, w)
  <1> DEFINE h == <<w \div 256, w % 256>>
             v == Rest(b, off)
             u == h \o v
             p == SubSeq(u, 1, 2 + w)
             d == SubSeq(b, off + 1, off + w)
  <1>1. Header(w) = h
    BY DEF Header, None
  <1>2. h \in Seq(Nat) /\ Len(h) = 2 /\ h[1] = w \div 256 /\ h[2] = w % 256
    <2>1. w \div 256 \in Nat /\ w % 256 \in Nat
      OBVIOUS
    <2> QED
      BY <2>1
  <1>3. Len(b) \in Nat /\ off \in 0..Len(b) /\ b \in Seq(Nat)
    BY BytesAreNat
  <1>4. /\ v \in Seq(Nat) /\ Len(v) = Len(b) - off
        /\ \A i \in 1..(Len(b) - off) : v[i] = b[off + i]
    BY <1>3, RestIs
  <1>d. d \in Seq(Nat) /\ Len(d) = w /\ \A i \in 1..w : d[i] = b[off + i]
    <2>1. off + 1 \in Int /\ off + w \in Int /\ \A i \in (off + 1)..(off + w) : b[i] \in Nat
      BY <1>3
    <2>2. /\ d \in Seq(Nat)
          /\ Len(d) = IF off + 1 <= off + w THEN off + w - (off + 1) + 1 ELSE 0
          /\ \A i \in 1..(off + w - (off + 1) + 1) : d[i] = b[off + 1 + i - 1]
      BY <2>1, SubSeqProperties
    <2>3. \A i \in 1..w : i \in 1..(off + w - (off + 1) + 1) /\ off + 1 + i - 1 = off + i
      OBVIOUS
    <2> QED
      BY <2>2, <2>3
  <1> HIDE DEF h, v, d
  <1>5. /\ u \in Seq(Nat) /\ Len(u) = 2 + Len(v)
        /\ \A i \in 1..(2 + Len(v)) : u[i] = IF i <= 2 THEN h[i] ELSE v[i - 2]
    <2>0. h \in Seq(Nat) /\ v \in Seq(Nat)
      BY <1>2, <1>4
    <2>1. /\ u \in Seq(Nat) /\ Len(u) = Len(h) + Len(v)
          /\ \A i \in 1..(Len(h) + Len(v)) : u[i] = IF i <= Len(h) THEN h[i] ELSE v[i - Len(h)]
      BY <2>0, ConcatProperties
    <2> HIDE DEF u
    <2> QED
      BY <1>2, <2>1
  <1>6. Len(u) = 2 + Len(b) - off
    BY <1>3, <1>4, <1>5
  <1>7. u[1] = w \div 256 /\ u[2] = w % 256
    BY <1>2, <1>4, <1>5
  <1>8. Rest(u, 2) = v
    <2>1. Rest(h \o v, Len(h)) = v
      <3>1. 0 \in 0..Len(h)
        BY <1>2
      <3> QED
        BY <1>2, <1>4, <3>1, RestOfConcat
    <2> QED
      BY <1>2, <2>1
  <1> HIDE DEF u
  <1>9. Rest(u, 2 + w) = Rest(b, off + w)
    <2>1. 2 \in 0..Len(u) /\ w \in 0..(Len(u) - 2) /\ w \in 0..(Len(b) - off)
      BY <1>3, <1>6
    <2>2. Rest(Rest(u, 2), w) = Rest(u, 2 + w)
      BY <1>5, <2>1, RestOfRest
    <2>3. Rest(v, w) = Rest(b, off + w)
      BY <1>3, <2>1, RestOfRest DEF v
    <2> QED
      BY <1>8, <2>2, <2>3
  <1>10. Rest(p, 2) = d
    <2>1. 2 + w \in 0..Len(u)
      BY <1>3, <1>6
    <2>2. p \in Seq(Nat) /\ Len(p) = 2 + w /\ \A i \in 1..(2 + w) : p[i] = u[i]
      BY <1>5, <2>1, FirstAndRest
    <2> HIDE DEF p
    <2>3. 2 \in 0..Len(p)
      BY <2>2
    <2>4. /\ Rest(p, 2) \in Seq(Nat) /\ Len(Rest(p, 2)) = Len(p) - 2
          /\ \A i \in 1..(Len(p) - 2) : Rest(p, 2)[i] = p[2 + i]
      BY <2>2, <2>3, RestIs
    <2>5. Len(Rest(p, 2)) = w
      BY <2>2, <2>4
    <2>6. ASSUME NEW i \in 1..w PROVE Rest(p, 2)[i] = d[i]
      <3>0. PICK k : k = 2 + i
        OBVIOUS
      <3>1. /\ i \in 1..(Len(p) - 2) /\ k \in 1..(2 + w) /\ k \in 1..(2 + Len(v))
            /\ ~(k <= 2) /\ k - 2 = i /\ i \in 1..(Len(b) - off)
        <4>1. Len(p) = 2 + w /\ Len(v) = Len(b) - off
          BY <1>4, <2>2
        <4> QED
          BY <1>3, <3>0, <4>1
      <3>2. Rest(p, 2)[i] = p[k] /\ p[k] = u[k]
        BY <2>2, <2>4, <3>0, <3>1
      <3>3. u[k] = v[i]
        BY <1>5, <3>1
      <3>4. v[i] = b[off + i] /\ d[i] = b[off + i]
        BY <1>4, <1>d, <3>1
      <3> QED
        BY <3>2, <3>3, <3>4
    <2> QED
      BY <1>d, <2>4, <2>5, <2>6, SeqEqual
  <1>11. x = u
    BY <1>1 DEF u, v
  <1> QED
    BY <1>5, <1>6, <1>7, <1>9, <1>10, <1>11 DEF p, d, Framed

\* A length is two bytes.
LEMMA TwoBytes ==
  ASSUME NEW w \in Nat
  PROVE  /\ w \div 256 \in Nat /\ w % 256 \in Nat
         /\ w = (w \div 256) * 256 + (w % 256)
  OBVIOUS

\* A frame that is all there is taken from the front.
LEMMA TakesFrame ==
  ASSUME NEW u \in Seq(Nat), NEW z \in Seq(Nat), NEW w \in Nat, NEW p \in Seq(Payloads),
         u[1] = w \div 256, u[2] = w % 256, 2 + w <= Len(u), u \o z = FlattenSeq(p)
  PROVE  /\ p # <<>> /\ Tail(p) \in Seq(Payloads)
         /\ p[1] = SubSeq(u, 1, 2 + w) /\ FlattenSeq(Tail(p)) = Rest(u, 2 + w) \o z
  <1> DEFINE y == u \o z
             x == p[1]
             q == FlattenSeq(Tail(p))
  <1>1. y \in Seq(Nat) /\ Len(y) > 0 /\ y[1] = u[1] /\ y[2] = u[2]
    <2>1. /\ y \in Seq(Nat) /\ Len(y) = Len(u) + Len(z)
          /\ \A i \in 1..(Len(u) + Len(z)) : y[i] = IF i <= Len(u) THEN u[i] ELSE z[i - Len(u)]
      BY ConcatProperties
    <2> HIDE DEF y
    <2>2. 1 \in 1..(Len(u) + Len(z)) /\ 2 \in 1..(Len(u) + Len(z)) /\ 1 <= Len(u) /\ 2 <= Len(u)
      OBVIOUS
    <2> QED
      BY <2>1, <2>2, SMTT(20)
  <1>2. y = FlattenSeq(p)
    OBVIOUS
  <1> HIDE DEF y
  <1>3. /\ p # <<>> /\ x \in Seq(Nat) /\ q \in Seq(Nat) /\ y = x \o q
        /\ Tail(p) \in Seq(Payloads) /\ Len(x) = 2 + y[1] * 256 + y[2]
    BY <1>1, <1>2, FirstFrame, ZenonT(30)
  <1> HIDE DEF x, q
  <1>4. Len(x) = 2 + w
    <2>1. y[1] = w \div 256 /\ y[2] = w % 256
      BY <1>1
    <2> QED
      BY <1>3, <2>1, TwoBytes
  <1>5. y = u \o z /\ y = x \o q /\ x \in Seq(Nat) /\ q \in Seq(Nat) /\ Len(x) <= Len(u)
    BY <1>3, <1>4 DEF y
  <1>6. x = SubSeq(u, 1, Len(x)) /\ q = Rest(u, Len(x)) \o z
    BY <1>4, <1>5, TwoCuts
  <1> QED
    BY <1>3, <1>4, <1>6 DEF x, q

\* p without its first frame, whose datagram was in b behind off.
Taken(p, b, z, off, w) ==
    /\ p # <<>> /\ Tail(p) \in Seq(Payloads)
    /\ Rest(p[1], 2) = SubSeq(b, off + 1, off + w)
    /\ FlattenSeq(Tail(p)) = Rest(b, off + w) \o z

\* The next frame is the one whose datagram is there in full.
LEMMA TakesDatagram ==
  ASSUME NEW b \in Seq(Byte), NEW z \in Seq(Nat), NEW off \in Nat, NEW w \in Nat,
         off + w <= Len(b), NEW p \in Seq(Payloads),
         Header(w) \o Rest(b, off) \o z = FlattenSeq(p)
  PROVE  Taken(p, b, z, off, w)
  <1> DEFINE u == Header(w) \o Rest(b, off)
             y == FlattenSeq(p)
  <1>1. u = Header(w) \o Rest(b, off) /\ u \o z = y
    OBVIOUS
  <1> HIDE DEF u, y
  <1>2. /\ u \in Seq(Nat) /\ Len(u) = 2 + Len(b) - off
        /\ u[1] = w \div 256 /\ u[2] = w % 256
        /\ Rest(u, 2 + w) = Rest(b, off + w)
        /\ Rest(SubSeq(u, 1, 2 + w), 2) = SubSeq(b, off + 1, off + w)
    <2>1. Framed(u, b, off, w)
      BY <1>1, DatagramOfHeader
    <2> QED
      BY <2>1, Zenon DEF Framed
  <1>3. 2 + w <= Len(u)
    BY <1>2
  <1>4. /\ p # <<>> /\ Tail(p) \in Seq(Payloads)
        /\ p[1] = SubSeq(u, 1, 2 + w) /\ FlattenSeq(Tail(p)) = Rest(u, 2 + w) \o z
    BY <1>1, <1>2, <1>3, TakesFrame DEF y
  <1> QED
    BY <1>2, <1>4 DEF Taken

\* The loop takes the server's frames one after the other, in front of any z.
LEMMA LoopIsRight ==
  ASSUME NEW b \in Seq(Byte), NEW z \in Seq(Nat), NEW f, Loop(f, b, RxCap - 2)
  PROVE  \A s \in Places(b, RxCap - 2) : \A p \in Seq(Payloads) :
            Header(s.want) \o Rest(b, s.off) \o z = FlattenSeq(p) => Right(f[s], p, b, z)
  <1> DEFINE cap == RxCap - 2
             G(s) == \A p \in Seq(Payloads) :
                        Header(s.want) \o Rest(b, s.off) \o z = FlattenSeq(p) => Right(f[s], p, b, z)
             S == {s \in Places(b, cap) : G(s)}
  <1>0. cap \in Nat /\ MinFrame \in Nat
    BY RelayAssumption
  <1> SUFFICES Places(b, cap) \subseteq S
    BY Zenon
  <1> HIDE DEF cap
  <1> SUFFICES ASSUME NEW s \in Places(b, cap),
                      \A t \in Places(b, cap) : Turns(b, t) < Turns(b, s) => t \in S
               PROVE  s \in S
    <2> HIDE DEF S
    <2> QED
      BY <1>0, LoopInduction
  <1> SUFFICES ASSUME NEW p \in Seq(Payloads),
                      Header(s.want) \o Rest(b, s.off) \o z = FlattenSeq(p)
               PROVE  Right(f[s], p, b, z)
    BY Zenon
  <1>1. Len(b) \in Nat /\ s.off \in 0..Len(b) /\ s.want \in None..cap /\ b \in Seq(Nat)
    BY BytesAreNat DEF Places
  <1>2. Loop(f, b, cap)
    BY DEF cap
  <1>3. \A t \in S : G(t)
    OBVIOUS
  <1> HIDE DEF G, S
  <1>4. \A t \in Places(b, cap) : Turns(b, t) < Turns(b, s) => G(t)
    BY <1>3
  <1> DEFINE v == Rest(b, s.off)
  <1>5. v \in Seq(Nat) /\ Len(v) = Len(b) - s.off /\ \A i \in 1..(Len(b) - s.off) : v[i] = b[s.off + i]
    BY <1>1, RestIs
  <1> HIDE DEF v
  <1>6. CASE s.want = None
    <2>1. CASE s.off + 2 > Len(b)
      <3>1. f[s] = Halt(s, FALSE)
        BY <1>0, <1>2, <1>6, <2>1, NoLength
      <3> QED
        BY <3>1, HaltIsRight
    <2>2. CASE s.off + 2 <= Len(b)
      <3> DEFINE u == v \o z
                 L == LengthAt(b, s.off)
                 x == Rest(b, s.off + 2)
      <3>1. u = FlattenSeq(p)
        <4>1. Header(s.want) = <<>>
          BY <1>6 DEF Header
        <4>2. <<>> \o v = v
          BY <1>5, ConcatEmptySeq
        <4> QED
          BY <4>1, <4>2 DEF v
      <3>2. u \in Seq(Nat) /\ Len(u) > 0 /\ u[1] = b[s.off + 1] /\ u[2] = b[s.off + 2]
        <4>1. Len(v) >= 2 /\ 1 \in 1..(Len(b) - s.off) /\ 2 \in 1..(Len(b) - s.off)
          <5>1. Len(v) = Len(b) - s.off
            BY <1>5
          <5>2. Len(b) \in Nat /\ s.off \in Nat
            BY <1>1
          <5> QED
            BY <2>2, <5>1, <5>2
        <4>2. u \in Seq(Nat) /\ Len(u) = Len(v) + Len(z)
              /\ \A i \in 1..(Len(v) + Len(z)) : u[i] = IF i <= Len(v) THEN v[i] ELSE z[i - Len(v)]
          BY <1>5, ConcatProperties
        <4>3. Len(v) \in Nat /\ Len(z) \in Nat
          BY <1>5
        <4>4. 1 \in 1..(Len(v) + Len(z)) /\ 2 \in 1..(Len(v) + Len(z)) /\ 1 <= Len(v) /\ 2 <= Len(v)
              /\ Len(v) + Len(z) > 0
          BY <4>1, <4>3
        <4>5. u[1] = v[1] /\ u[2] = v[2] /\ Len(u) > 0
          BY <4>2, <4>4
        <4>6. v[1] = b[s.off + 1] /\ v[2] = b[s.off + 2]
          BY <1>5, <4>1
        <4> QED
          BY <4>2, <4>5, <4>6
      <3> HIDE DEF u
      <3>3. p # <<>> /\ p[1][1] = b[s.off + 1] /\ p[1][2] = b[s.off + 2]
        BY <3>1, <3>2, FirstFrame
      <3>4. CASE L \notin MinFrame..cap
        <4>1. f[s] = Halt(s, TRUE)
          BY <1>0, <1>2, <1>6, <2>2, <3>4, BadLength
        <4>2. ~Legal(p[1])
          BY <3>3, <3>4 DEF Legal, LengthAt, cap
        <4> QED
          BY <3>3, <4>1, <4>2, BadIsRight
      <3>5. CASE L \in MinFrame..cap
        <4> DEFINE t == At(s.off + 2, L)
        <4>1. f[s] = f[t]
          BY <1>0, <1>2, <1>6, <2>2, <3>5, GoodLength
        <4>2. t \in Places(b, cap) /\ Turns(b, t) < Turns(b, s)
          BY <1>0, <1>6, <2>2, <3>5, AfterLength
        <4>3. t.off = s.off + 2 /\ t.want = L
          BY DEF At
        <4> HIDE DEF t
        <4>4. Header(L) \o x = v
          <5>1. s.off \in Nat
            BY <1>1
          <5> QED
            BY <2>2, <5>1, HeaderOfLength DEF v
        <4>5. Header(t.want) \o Rest(b, t.off) \o z = FlattenSeq(p)
          BY <3>1, <4>3, <4>4, Zenon DEF u
        <4>6. Right(f[t], p, b, z)
          BY <1>4, <4>2, <4>5, Zenon DEF G
        <4> QED
          BY <4>1, <4>6
      <3> QED
        BY <3>4, <3>5
    <2> QED
      BY <1>1, <2>1, <2>2
  <1>7. CASE s.want # None
    <2>1. CASE ~(s.want <= Len(b) - s.off)
      <3>1. f[s] = Halt(s, FALSE)
        BY <1>0, <1>2, <1>7, <2>1, PartOfDatagram
      <3> QED
        BY <3>1, HaltIsRight
    <2>2. CASE s.want <= Len(b) - s.off
      <3>0. s.want \in Nat /\ s.off + s.want <= Len(b) /\ s.off \in Nat
        BY <1>1, <1>7, <2>2 DEF None
      <3> DEFINE w == s.want
                 t == At(s.off + w, None)
                 d == SubSeq(b, s.off + 1, s.off + w)
      <3>1. /\ p # <<>> /\ Tail(p) \in Seq(Payloads) /\ Rest(p[1], 2) = d
            /\ FlattenSeq(Tail(p)) = Rest(b, s.off + w) \o z
        <4>1. Taken(p, b, z, s.off, w)
          BY <3>0, TakesDatagram
        <4> QED
          BY <4>1, Zenon DEF Taken
      <3>3. f[s] = InFront(d, f[t])
        BY <1>0, <1>2, <1>7, <2>2, WholeDatagram
      <3>4. t \in Places(b, cap) /\ Turns(b, t) < Turns(b, s) /\ t.off = s.off + w /\ t.want = None
        BY <1>0, <1>7, <3>0, AfterDatagram DEF At
      <3> HIDE DEF t, d
      <3>10. Header(t.want) \o Rest(b, t.off) \o z = FlattenSeq(Tail(p))
        <4>1. Header(t.want) = <<>>
          BY <3>4 DEF Header
        <4>2. Rest(b, t.off) = Rest(b, s.off + w)
          BY <3>4
        <4>3. Rest(b, t.off) \in Seq(Byte)
          <5>1. t.off \in 0..Len(b)
            BY <3>4 DEF Places
          <5> QED
            BY <5>1, RestIs
        <4>4. <<>> \o Rest(b, t.off) = Rest(b, t.off)
          BY <4>3, ConcatEmptySeq
        <4> QED
          BY <3>1, <4>1, <4>2, <4>4
      <3>11. Right(f[t], Tail(p), b, z)
        BY <1>4, <3>1, <3>4, <3>10, Zenon DEF G
      <3>12. f[t] \in Results(b, RxCap - 2)
        BY <1>0, <1>2, <3>4, LoopType DEF cap
      <3>13. Right(InFront(Rest(p[1], 2), f[t]), p, b, z)
        BY <3>1, <3>11, <3>12, InFrontIsRight
      <3> QED
        BY <3>1, <3>3, <3>13
    <2> QED
      BY <2>1, <2>2
  <1> QED
    BY <1>6, <1>7

\* Whatever was waited for, and however much has come: udp_tcp_consume takes
\* the server's datagrams, whole and in order.
LEMMA ConsumeIsRight ==
  ASSUME NEW b \in Seq(Byte), NEW z \in Seq(Nat), NEW w \in None..(RxCap - 2),
         NEW p \in Seq(Payloads), Header(w) \o b \o z = FlattenSeq(p)
  PROVE  Right(Consume(w, b, RxCap - 2), p, b, z)
  <1>1. RxCap - 2 \in Nat
    BY RelayAssumption
  <1>2. PICK f : Loop(f, b, RxCap - 2) /\ Consume(w, b, RxCap - 2) = f[At(0, w)]
    BY <1>1, ConsumeIsLoop
  <1>3. At(0, w) \in Places(b, RxCap - 2) /\ At(0, w).off = 0 /\ At(0, w).want = w
    BY DEF At, Places
  <1>4. Rest(b, 0) = b
    BY RestOfAll
  <1>5. Right(f[At(0, w)], p, b, z)
    BY <1>2, <1>3, <1>4, LoopIsRight
  <1> QED
    BY <1>2, <1>5

-----------------------------------------------------------------------------
(* What a server answers, and what that amounts to.                         *)

\* A byte is a number below 256.
LEMMA ByteIs ==
  /\ \A x \in Byte : x \in Nat /\ x <= 255
  /\ \A x \in 0..255 : x \in Byte
  BY DEF Byte

\* The filling of the server's addresses is bytes.
LEMMA BytesAre ==
  ASSUME NEW n \in Nat
  PROVE  Bytes(n) \in Seq(Byte) /\ Len(Bytes(n)) = n
  <1>1. 9 \in Byte
    BY DEF Byte
  <1> QED
    BY <1>1 DEF Bytes

\* The answers to the greeting and to the password, at least two bytes long.
LEMMA ShortAnswers ==
  /\ \A a \in Answers("hello") : /\ a \in Seq(Byte) /\ Len(a) \in Nat /\ Len(a) >= 2
                                 /\ a \in {<<5, 0>>, <<5, 2>>, <<5, 255>>, NotSocks}
  /\ \A a \in Answers("auth") : /\ a \in Seq(Byte) /\ Len(a) \in Nat /\ Len(a) >= 2
                                /\ a \in {<<1, 0>>, <<1, 1>>, NotSocks}
  <1> DEFINE G(a) == a \in Seq(Byte) /\ Len(a) \in Nat /\ Len(a) >= 2
  <1>1. \A x, y \in Byte : G(<<x, y>>)
    OBVIOUS
  <1>2. {0, 1, 2, 5, 255} \subseteq Byte
    BY DEF Byte
  <1>3. G(NotSocks)
    BY DEF NotSocks, Byte
  <1>4. \A a \in Answers("hello") : a \in {<<5, 0>>, <<5, 2>>, <<5, 255>>, NotSocks}
    BY DEF Answers
  <1>5. \A a \in Answers("auth") : a \in {<<1, 0>>, <<1, 1>>, NotSocks}
    BY DEF Answers
  <1> HIDE DEF G
  <1>6. G(<<5, 0>>) /\ G(<<5, 2>>) /\ G(<<5, 255>>) /\ G(<<1, 0>>) /\ G(<<1, 1>>)
    BY <1>1, <1>2
  <1>7. \A a \in Answers("hello") : G(a)
    BY <1>3, <1>4, <1>6, Zenon
  <1>8. \A a \in Answers("auth") : G(a)
    BY <1>3, <1>5, <1>6, Zenon
  <1> QED
    BY <1>4, <1>5, <1>7, <1>8, Zenon DEF G

\* A reply by its address type.
ByType(a) ==
    /\ a[1] = 5 /\ a[2] \in {0, 4}
    /\ \/ a[4] = 1 /\ Len(a) = 10
       \/ a[4] = 4 /\ Len(a) = 22
       \/ a[4] = 9 /\ Len(a) = 4
       \/ a[4] = 3 /\ a[5] \in Byte /\ Len(a) = a[5] + 7

\* BND as its address type has it.
LEMMA Bound ==
  ASSUME NEW b \in Bnds
  PROVE  /\ b \in Seq(Byte) /\ Len(b) \in Nat /\ Len(b) >= 1
         /\ \/ b[1] = 1 /\ Len(b) = 7
            \/ b[1] = 4 /\ Len(b) = 19
            \/ b[1] = 9 /\ Len(b) = 1
            \/ b[1] = 3 /\ b[2] \in Byte /\ Len(b) = b[2] + 4
  <1>1. \A x \in Byte : <<x>> \in Seq(Byte) /\ Len(<<x>>) = 1 /\ <<x>>[1] = x
    OBVIOUS
  <1>2. ASSUME NEW x \in Byte, NEW n \in Nat
        PROVE  /\ <<x>> \o Bytes(n) \in Seq(Byte) /\ Len(<<x>> \o Bytes(n)) = n + 1
               /\ (<<x>> \o Bytes(n))[1] = x
    <2> DEFINE y == Bytes(n)
    <2>1. y \in Seq(Byte) /\ Len(y) = n
      BY BytesAre
    <2> HIDE DEF y
    <2>2. <<x>> \in Seq(Byte) /\ Len(<<x>>) = 1 /\ <<x>>[1] = x
      OBVIOUS
    <2>3. /\ <<x>> \o y \in Seq(Byte) /\ Len(<<x>> \o y) = Len(<<x>>) + Len(y)
          /\ \A i \in 1..(Len(<<x>>) + Len(y)) :
                (<<x>> \o y)[i] = IF i <= Len(<<x>>) THEN <<x>>[i] ELSE y[i - Len(<<x>>)]
      BY <2>1, <2>2, ConcatProperties
    <2> QED
      BY <2>1, <2>2, <2>3 DEF y
  <1>b. 1 \in Byte /\ 4 \in Byte /\ 6 \in Nat /\ 18 \in Nat
    BY DEF Byte
  <1>3. CASE b = <<1>> \o Bytes(6)
    <2>1. b \in Seq(Byte) /\ Len(b) = 6 + 1 /\ b[1] = 1
      BY <1>2, <1>3, <1>b
    <2> QED
      BY <2>1
  <1>4. CASE b = <<4>> \o Bytes(18)
    <2>1. b \in Seq(Byte) /\ Len(b) = 18 + 1 /\ b[1] = 4
      BY <1>2, <1>4, <1>b
    <2> QED
      BY <2>1
  <1>5. CASE b = <<9>>
    BY <1>5 DEF Byte
  <1>6. ASSUME NEW n \in DomainLens, b = <<3, n>> \o Bytes(n + 2)
        PROVE  b \in Seq(Byte) /\ b[1] = 3 /\ b[2] = n /\ n \in Byte /\ Len(b) = n + 4
    <2> DEFINE y == Bytes(n + 2)
               x == <<3, n>>
    <2>1. n \in Byte /\ n \in Nat /\ 3 \in Byte
      BY HandshakeAssumption DEF Byte
    <2>2. y \in Seq(Byte) /\ Len(y) = n + 2
      BY <2>1, BytesAre
    <2>3. x \in Seq(Byte) /\ Len(x) = 2 /\ x[1] = 3 /\ x[2] = n
      BY <2>1
    <2>4. b = x \o y
      BY <1>6
    <2> HIDE DEF x, y
    <2>5. /\ x \o y \in Seq(Byte) /\ Len(x \o y) = Len(x) + Len(y)
          /\ \A i \in 1..(Len(x) + Len(y)) :
                (x \o y)[i] = IF i <= Len(x) THEN x[i] ELSE y[i - Len(x)]
      BY <2>2, <2>3, ConcatProperties
    <2>6. 1 \in 1..(Len(x) + Len(y)) /\ 2 \in 1..(Len(x) + Len(y)) /\ 1 <= Len(x) /\ 2 <= Len(x)
          /\ Len(x) + Len(y) = n + 4
      BY <2>1, <2>2, <2>3
    <2> QED
      BY <2>1, <2>3, <2>4, <2>5, <2>6
  <1>7. b \in {<<3, n>> \o Bytes(n + 2) : n \in DomainLens} =>
          b \in Seq(Byte) /\ b[1] = 3 /\ b[2] \in Byte /\ Len(b) = b[2] + 4
    BY <1>6
  <1>8. CASE b \in {<<3, n>> \o Bytes(n + 2) : n \in DomainLens}
    <2>1. b \in Seq(Byte) /\ b[1] = 3 /\ b[2] \in Byte /\ Len(b) = b[2] + 4
      BY <1>7, <1>8
    <2>2. b[2] \in Nat
      BY <2>1, ByteIs
    <2>3. Len(b) \in Nat /\ Len(b) >= 1
      BY <2>1, <2>2
    <2> QED
      BY <2>1, <2>3
  <1> QED
    BY <1>3, <1>4, <1>5, <1>8 DEF Bnds

\* A reply is long enough for its head, and as long as its type says.
LEMMA Replies ==
  ASSUME NEW a \in Answers("request")
  PROVE  /\ a \in Seq(Byte) /\ Len(a) \in Nat /\ Len(a) >= 4
         /\ a = NotSocks \/ ByType(a)
  <1>1. CASE a = NotSocks
    BY <1>1 DEF NotSocks, Byte
  <1>2. ASSUME NEW rep \in {0, 4}, NEW bnd \in Bnds, a = <<5, rep, 0>> \o bnd
        PROVE  a \in Seq(Byte) /\ Len(a) \in Nat /\ Len(a) >= 4 /\ ByType(a)
    <2> DEFINE x == <<5, rep, 0>>
    <2>1. x \in Seq(Byte) /\ Len(x) = 3 /\ x[1] = 5 /\ x[2] = rep
      BY DEF Byte
    <2>2. /\ bnd \in Seq(Byte) /\ Len(bnd) \in Nat /\ Len(bnd) >= 1
          /\ \/ bnd[1] = 1 /\ Len(bnd) = 7
             \/ bnd[1] = 4 /\ Len(bnd) = 19
             \/ bnd[1] = 9 /\ Len(bnd) = 1
             \/ bnd[1] = 3 /\ bnd[2] \in Byte /\ Len(bnd) = bnd[2] + 4
      BY Bound
    <2>3. a = x \o bnd
      BY <1>2
    <2> HIDE DEF x
    <2>4. /\ a \in Seq(Byte) /\ Len(a) = Len(x) + Len(bnd)
          /\ \A i \in 1..(Len(x) + Len(bnd)) : a[i] = IF i <= Len(x) THEN x[i] ELSE bnd[i - Len(x)]
      BY <2>1, <2>2, <2>3, ConcatProperties
    <2>5. /\ Len(a) = 3 + Len(bnd)
          /\ \A i \in 1..(3 + Len(bnd)) : a[i] = IF i <= 3 THEN x[i] ELSE bnd[i - 3]
      BY <2>1, <2>4
    <2>6. a[1] = 5 /\ a[2] = rep /\ a[4] = bnd[1]
      BY <2>1, <2>2, <2>5
    <2>7. Len(bnd) >= 2 => a[5] = bnd[2]
      BY <2>1, <2>2, <2>5
    <2>8. CASE bnd[1] # 3
      <3>1. \/ a[4] = 1 /\ Len(a) = 10
            \/ a[4] = 4 /\ Len(a) = 22
            \/ a[4] = 9 /\ Len(a) = 4
        <4>1. a[4] = bnd[1] /\ Len(a) = 3 + Len(bnd)
          BY <2>5, <2>6
        <4>2. \/ bnd[1] = 1 /\ Len(bnd) = 7
              \/ bnd[1] = 4 /\ Len(bnd) = 19
              \/ bnd[1] = 9 /\ Len(bnd) = 1
          BY <2>2, <2>8
        <4>3. \A m, n \in Nat : m = 3 + n => /\ n = 7 => m = 10
                                             /\ n = 19 => m = 22
                                             /\ n = 1 => m = 4
          OBVIOUS
        <4>4. Len(bnd) \in Nat /\ Len(a) \in Nat
          BY <2>2, <2>4
        <4> QED
          BY <4>1, <4>2, <4>3, <4>4, Zenon
      <3>2. Len(a) \in Nat /\ Len(a) >= 4 /\ a \in Seq(Byte)
        BY <2>2, <2>4, <2>5
      <3> QED
        BY <2>6, <3>1, <3>2 DEF ByType
    <2>9. CASE bnd[1] = 3
      <3>1. bnd[2] \in Byte /\ Len(bnd) = bnd[2] + 4
        BY <2>2, <2>9
      <3>2. bnd[2] \in Nat
        BY <3>1, ByteIs
      <3>3. a[5] = bnd[2] /\ Len(a) = a[5] + 7
        BY <2>5, <2>7, <3>1, <3>2
      <3> QED
        BY <2>2, <2>4, <2>5, <2>6, <2>9, <3>1, <3>3 DEF ByType
    <2> QED
      BY <2>8, <2>9
  <1>3. a = NotSocks \/ \E rep \in {0, 4}, bnd \in Bnds : a = <<5, rep, 0>> \o bnd
    BY DEF Answers
  <1> QED
    BY <1>1, <1>2, <1>3

\* Every answer, and what it amounts to: a verdict that is not a grant is
\* settled by the byte the worker decides on.
Deciding(msg) == IF msg = "request" THEN 4 ELSE 2

\* What an answer is and when it decides.
LEMMA AnswersType ==
  ASSUME NEW msg \in {"hello", "auth", "request"}, NEW a \in Answers(msg)
  PROVE  /\ a \in Seq(Byte) /\ Len(a) \in Nat /\ Len(a) >= Deciding(msg)
         /\ Decides(msg, a) \in [what : {"none", "auth", "protocol", "granted"}, at : Nat]
         /\ Decides(msg, a).what = "none" => Decides(msg, a) = Undecided
         /\ Decides(msg, a).what \in {"auth", "protocol"} => Decides(msg, a).at = Deciding(msg)
  <1>1. a \in Seq(Byte) /\ Len(a) \in Nat /\ Len(a) >= Deciding(msg)
    BY ShortAnswers, Replies DEF Deciding
  <1> DEFINE d == Decides(msg, a)
  <1>2. \/ d = Undecided
        \/ d = [what |-> "auth", at |-> Deciding(msg)]
        \/ d = [what |-> "protocol", at |-> Deciding(msg)]
        \/ d = [what |-> "granted", at |-> Len(a)]
    <2>1. CASE msg = "hello"
      BY <2>1 DEF Decides, Deciding
    <2>2. CASE msg = "auth"
      BY <2>2 DEF Decides, Deciding
    <2>3. CASE msg = "request"
      BY <2>3 DEF Decides, Deciding
    <2> QED
      BY <2>1, <2>2, <2>3
  <1> HIDE DEF d
  <1>3. Deciding(msg) \in Nat
    BY DEF Deciding
  <1>4. /\ d \in [what : {"none", "auth", "protocol", "granted"}, at : Nat]
        /\ d.what = "none" => d = Undecided
        /\ d.what \in {"auth", "protocol"} => d.at = Deciding(msg)
    BY <1>1, <1>2, <1>3 DEF Undecided
  <1> QED
    BY <1>1, <1>4 DEF d

-----------------------------------------------------------------------------
(* The inductive invariant of the negotiation.                              *)

\* What the server has sent that the worker has not looked at.
Unread == buf \o stream

\* The verdict on answer a, which begins behind the first from bytes.
Judged(msg, a, from) ==
    LET d == Decides(msg, a) IN IF d = Undecided THEN d ELSE [d EXCEPT !.at = @ + from]

\* The types of the negotiation.
HTyped ==
    /\ kind \in Kinds /\ cmd \in {1, 3, 4} /\ pc \in Steps
    /\ refused \in BOOLEAN /\ running \in BOOLEAN /\ closed \in BOOLEAN
    /\ need \in 0..257 /\ waited \in 0..(Slices - 1) /\ taken \in Nat
    /\ event \in {"none", "ok", "network", "auth", "protocol"}
    /\ inbox \in {"none", "hello", "auth", "request"}
    /\ buf \in Seq(Byte) /\ stream \in Seq(Byte) /\ spoken \in Seq(Payloads)
    /\ verdict \in [what : {"none", "auth", "protocol", "granted"}, at : Int]

\* Nothing has been asked, or the answer has been read to its end.
Fresh == inbox = "none" /\ stream = <<>> /\ spoken = <<>> /\ verdict = Undecided

\* The server has answered with a, and datagrams may follow only a grant.
Answered(msg, a) ==
    /\ Unread = a \o FlattenSeq(spoken)
    /\ verdict = Judged(msg, a, taken - Len(buf))
    /\ spoken # <<>> => verdict.what = "granted"

\* The worker waits for the first n bytes of the answer to msg, and the server
\* has not spoken, or has.
Asked(msg, n) ==
    /\ need + Len(buf) = n
    /\ \/ inbox = msg /\ Unread = <<>> /\ spoken = <<>> /\ verdict = Undecided
       \/ inbox = "none" /\ \E a \in Answers(msg) : Answered(msg, a)

\* The request is granted; k bytes of the reply are left, and then come the
\* datagrams; the last of them settles it, and n are still to be read.
ToCome(k, n) ==
    /\ inbox = "none" /\ verdict.what = "granted" /\ verdict.at = taken + n
    /\ k <= Len(Unread) /\ Rest(Unread, k) = FlattenSeq(spoken)

\* The length of a name comes next, and the name and the port behind it.
AtLength ==
    /\ need + Len(buf) = 1
    /\ \/ Eating
       \/ Unread # <<>> /\ ToCome(Unread[1] + 3, need + Unread[1] + 2)

\* The address comes next, and it is the end of the reply.
AtAddress == Eating \/ ToCome(need + Len(buf), need)

\* The server has granted the request, and its reply has been read.
Agreed == inbox = "none" /\ verdict.what = "granted" /\ taken >= verdict.at

\* What the worker knows at each of its steps is what the server has said.
HInv ==
    /\ HTyped
    /\ pc \in {"hello", "auth", "request"} => Fresh
    /\ pc = "greet" => Asked("hello", 2)
    /\ pc = "reply" => Asked("auth", 2)
    /\ pc = "head"  => Asked("request", 4)
    /\ pc = "len"   => AtLength
    /\ pc = "addr"  => AtAddress
    /\ pc \in {"relay", "register"} => Agreed /\ stream = FlattenSeq(spoken)
    /\ pc = "done"   => Agreed /\ event = "ok"
    /\ pc = "failed" => inbox = "none" /\ closed /\ event # "ok" /\ BlameIsRight
    /\ pc \notin {"done", "failed"} => event = "none"
    /\ pc = "socket" => inbox = "none" /\ (refused \/ verdict = Undecided)
    /\ pc = "again" => Eating
    /\ Eating => pc \in {"len", "addr", "again", "failed"} /\ inbox = "none"

\* A verdict, counted from the beginning of the connection.
LEMMA JudgedIs ==
  ASSUME NEW msg \in {"hello", "auth", "request"}, NEW a \in Answers(msg), NEW from \in Int
  PROVE  /\ Judged(msg, a, from) \in [what : {"none", "auth", "protocol", "granted"}, at : Int]
         /\ Judged(msg, a, from).what = Decides(msg, a).what
         /\ Judged(msg, a, from).what = "none" => Judged(msg, a, from) = Undecided
         /\ Judged(msg, a, from).what # "none" => Judged(msg, a, from).at = Decides(msg, a).at + from
         /\ Judged(msg, a, from).what \in {"auth", "protocol"} =>
               Judged(msg, a, from).at = Deciding(msg) + from
  <1> DEFINE d == Decides(msg, a)
  <1>1. /\ d \in [what : {"none", "auth", "protocol", "granted"}, at : Nat]
        /\ d.what = "none" => d = Undecided
        /\ d.what \in {"auth", "protocol"} => d.at = Deciding(msg)
    BY AnswersType
  <1>2. Judged(msg, a, from) = IF d = Undecided THEN d ELSE [d EXCEPT !.at = @ + from]
    BY DEF Judged
  <1> HIDE DEF d
  <1>3. CASE d = Undecided
    BY <1>2, <1>3 DEF d, Undecided
  <1>4. CASE d # Undecided
    <2>1. Judged(msg, a, from) = [what |-> d.what, at |-> d.at + from]
      BY <1>1, <1>2, <1>4
    <2> QED
      BY <1>1, <1>4, <2>1 DEF d
  <1> QED
    BY <1>3, <1>4

\* What is held against the worker is not settled before it has what it waits for.
LEMMA NotYet ==
  ASSUME HTyped, NEW msg \in {"hello", "auth", "request"}, Asked(msg, Deciding(msg)), need > 0
  PROVE  ~Settled("auth") /\ ~Settled("protocol")
  <1>1. CASE verdict = Undecided
    BY <1>1 DEF Undecided, Settled
  <1>2. CASE \E a \in Answers(msg) : Answered(msg, a)
    <2>1. PICK a \in Answers(msg) : verdict = Judged(msg, a, taken - Len(buf))
      BY <1>2, Zenon DEF Answered
    <2>2. taken \in Nat /\ Len(buf) \in Nat /\ need \in Nat /\ need + Len(buf) = Deciding(msg)
          /\ Deciding(msg) \in Nat
      BY DEF HTyped, Asked, Deciding
    <2>3. taken - Len(buf) \in Int
      BY <2>2
    <2>4. verdict.what \in {"auth", "protocol"} => verdict.at = Deciding(msg) + (taken - Len(buf))
      BY <2>1, <2>3, JudgedIs
    <2>5. Deciding(msg) + (taken - Len(buf)) > taken
      BY <2>2
    <2> QED
      BY <2>2, <2>4, <2>5 DEF Settled
  <1> QED
    BY <1>1, <1>2 DEF Asked

\* The exit at "fail:" with the right code.
LEMMA FailKeeps ==
  ASSUME HInv, NEW code \in {"none", "network", "auth", "protocol"}, Fail(code), BlameIsRight'
  PROVE  HInv'
  <1>1. HTyped'
    BY DEF HInv, HTyped, Fail, Steps
  <1>2. pc' = "failed" /\ inbox' = "none" /\ closed' /\ event' # "ok"
    BY DEF Fail
  <1> QED
    BY <1>1, <1>2 DEF HInv

\* A stop is nobody's fault.
LEMMA FailSilently ==
  ASSUME HInv, Fail("none")
  PROVE  HInv'
  <1>1. BlameIsRight'
    BY DEF Fail, BlameIsRight
  <1> QED
    BY <1>1, FailKeeps

\* A connection that fails before the server has refused anything, or after its
\* refusal of UDP-in-TCP.
LEMMA UnreachableKeeps ==
  ASSUME HInv, Unreachable, refused \/ (~Settled("auth") /\ ~Settled("protocol"))
  PROVE  HInv'
  <1>1. refused \in BOOLEAN /\ refused' = refused /\ taken' = taken /\ verdict' = verdict
    BY DEF HInv, HTyped, Unreachable, Fail
  <1>2. Settled("auth")' = Settled("auth") /\ Settled("protocol")' = Settled("protocol")
    BY <1>1 DEF Settled
  <1>3. CASE refused
    <2>1. Fail("protocol")
      BY <1>3 DEF Unreachable, Blame
    <2>2. BlameIsRight'
      BY <1>1, <1>3, <2>1 DEF Fail, BlameIsRight
    <2> QED
      BY <2>1, <2>2, FailKeeps
  <1>4. CASE ~refused
    <2>1. Fail("network")
      BY <1>4 DEF Unreachable, Blame
    <2>2. BlameIsRight'
      BY <1>1, <1>2, <1>4, <2>1 DEF Fail, BlameIsRight
    <2> QED
      BY <2>1, <2>2, FailKeeps
  <1> QED
    BY <1>1, <1>3, <1>4

\* While it waits for bytes, the worker may give up.
LEMMA MayGiveUp ==
  ASSUME HInv, Reading, need > 0
  PROVE  refused \/ (~Settled("auth") /\ ~Settled("protocol"))
  <1>1. CASE pc = "greet"
    BY <1>1, NotYet DEF HInv, Deciding
  <1>2. CASE pc = "reply"
    BY <1>2, NotYet DEF HInv, Deciding
  <1>3. CASE pc = "head"
    BY <1>3, NotYet DEF HInv, Deciding
  <1>4. CASE pc \in {"len", "addr"}
    <2>1. Eating \/ verdict.what = "granted"
      BY <1>4 DEF HInv, AtLength, AtAddress, ToCome
    <2> QED
      BY <2>1 DEF Eating, Settled
  <1> QED
    BY <1>1, <1>2, <1>3, <1>4 DEF Reading

\* A receive moves bytes from the stream to the buffer.
LEMMA RecvMoves ==
  ASSUME HTyped, Recv
  PROVE  /\ HTyped'
         /\ Unread' = Unread /\ need' + Len(buf') = need + Len(buf)
         /\ taken' + need' = taken + need /\ taken' - Len(buf') = taken - Len(buf)
         /\ UNCHANGED <<kind, pc, cmd, refused, event, running, inbox, closed, verdict, spoken>>
  <1>1. PICK n \in 1..Least(need, Len(stream)) :
           /\ buf' = buf \o SubSeq(stream, 1, n)
           /\ stream' = Rest(stream, n)
           /\ need' = need - n /\ taken' = taken + n
    BY Zenon DEF Recv
  <1>2. /\ buf \in Seq(Byte) /\ stream \in Seq(Byte) /\ need \in 0..257 /\ taken \in Nat
        /\ Slices \in Nat \ {0}
    BY HandshakeAssumption DEF HTyped
  <1>3. Len(stream) \in Nat /\ Len(buf) \in Nat
    BY <1>2
  <1>4. n \in 0..Len(stream) /\ n \in Nat /\ n <= need
    BY <1>2, <1>3 DEF Least
  <1> DEFINE x == SubSeq(stream, 1, n)
             y == Rest(stream, n)
  <1>5. x \in Seq(Byte) /\ Len(x) = n /\ x \o y = stream /\ y \in Seq(Byte)
    BY <1>2, <1>4, FirstAndRest, RestIs
  <1> HIDE DEF x, y
  <1>6. buf' = buf \o x /\ stream' = y
    BY <1>1 DEF x, y
  <1>7. Unread' = Unread
    <2>0. buf \in Seq(Byte) /\ x \in Seq(Byte) /\ y \in Seq(Byte)
      BY <1>2, <1>5
    <2>1. (buf \o x) \o y = buf \o (x \o y)
      BY <2>0, Associative
    <2> QED
      BY <1>5, <1>6, <2>1, Zenon DEF Unread
  <1>8. buf' \in Seq(Byte) /\ Len(buf') = Len(buf) + n
    BY <1>2, <1>5, <1>6, ConcatProperties
  <1>9. /\ need' + Len(buf') = need + Len(buf)
        /\ taken' + need' = taken + need /\ taken' - Len(buf') = taken - Len(buf)
        /\ need' \in 0..257 /\ taken' \in Nat
    BY <1>1, <1>2, <1>3, <1>4, <1>8
  <1>10. /\ UNCHANGED <<kind, pc, cmd, refused, event, running, inbox, closed, verdict, spoken>>
         /\ waited' = 0
    BY DEF Recv
  <1>11. stream' \in Seq(Byte) /\ waited' \in 0..(Slices - 1)
    BY <1>2, <1>5, <1>6, <1>10
  <1>12. HTyped'
    <2>1. /\ kind' = kind /\ pc' = pc /\ cmd' = cmd /\ refused' = refused /\ event' = event
          /\ running' = running /\ inbox' = inbox /\ closed' = closed /\ verdict' = verdict
          /\ spoken' = spoken
      BY <1>10, Zenon
    <2>2. /\ kind' \in Kinds /\ cmd' \in {1, 3, 4} /\ pc' \in Steps
          /\ refused' \in BOOLEAN /\ running' \in BOOLEAN /\ closed' \in BOOLEAN
          /\ event' \in {"none", "ok", "network", "auth", "protocol"}
          /\ inbox' \in {"none", "hello", "auth", "request"}
      BY <2>1, Zenon DEF HTyped
    <2>3. /\ spoken' \in Seq(Payloads)
          /\ verdict' \in [what : {"none", "auth", "protocol", "granted"}, at : Int]
      BY <2>1, Zenon DEF HTyped
    <2> QED
      BY <1>8, <1>9, <1>11, <2>2, <2>3, Zenon DEF HTyped
  <1> QED
    BY <1>7, <1>9, <1>10, <1>12

\* The first bytes of an answer that is all there.
LEMMA GotAnswer ==
  ASSUME HTyped, NEW msg \in {"hello", "auth", "request"}, Asked(msg, Deciding(msg)), need = 0
  PROVE  /\ inbox = "none" /\ Len(buf) = Deciding(msg)
         /\ \E a \in Answers(msg) :
               /\ verdict = Judged(msg, a, taken - Deciding(msg))
               /\ spoken # <<>> => verdict.what = "granted"
               /\ \A i \in 1..Deciding(msg) : buf[i] = a[i]
               /\ Rest(a, Deciding(msg)) \o FlattenSeq(spoken) = stream
  <1> DEFINE n == Deciding(msg)
  <1>1. /\ buf \in Seq(Byte) /\ stream \in Seq(Byte) /\ Len(buf) = n /\ n \in Nat /\ n >= 2
        /\ spoken \in Seq(Payloads)
    BY DEF HTyped, Asked, Deciding
  <1>2. Unread # <<>>
    <2>1. Len(buf \o stream) = Len(buf) + Len(stream)
      BY <1>1, ConcatProperties
    <2>2. Len(buf \o stream) # 0
      BY <1>1, <2>1
    <2> QED
      BY <2>2 DEF Unread
  <1>3. inbox = "none" /\ \E a \in Answers(msg) : Answered(msg, a)
    BY <1>2 DEF Asked
  <1>4. PICK a \in Answers(msg) : Answered(msg, a)
    BY <1>3
  <1> DEFINE F == FlattenSeq(spoken)
  <1>5. a \in Seq(Byte) /\ Len(a) \in Nat /\ Len(a) >= n /\ F \in Seq(Byte)
    <2>1. spoken \in Seq(Seq(Byte))
      BY <1>1, FramesOfServer
    <2> QED
      BY <2>1, AnswersType, FlattenType
  <1> HIDE DEF F, n
  <1> DEFINE u == Unread
  <1>6. u = buf \o stream /\ u = a \o F
    BY <1>4 DEF Answered, Unread, F
  <1> HIDE DEF u
  <1>7. n \in 0..Len(a) /\ n \in 0..Len(buf)
    BY <1>1, <1>5
  <1>8. Rest(u, n) = stream
    BY <1>1, <1>6, <1>7, RestOfConcat, ZenonT(30)
  <1>9. Rest(u, n) = Rest(a, n) \o F
    BY <1>5, <1>6, <1>7, RestOfConcat
  <1>10. ASSUME NEW i \in 1..n PROVE buf[i] = a[i]
    <2>1. u[i] = buf[i]
      <3>1. /\ \A j \in 1..(Len(buf) + Len(stream)) :
                  (buf \o stream)[j] = IF j <= Len(buf) THEN buf[j] ELSE stream[j - Len(buf)]
        BY <1>1, ConcatProperties
      <3>2. i \in 1..(Len(buf) + Len(stream)) /\ i <= Len(buf)
        BY <1>1
      <3> QED
        BY <1>6, <3>1, <3>2
    <2>2. u[i] = a[i]
      <3>1. /\ \A j \in 1..(Len(a) + Len(F)) :
                  (a \o F)[j] = IF j <= Len(a) THEN a[j] ELSE F[j - Len(a)]
        BY <1>5, ConcatProperties
      <3>2. i \in 1..(Len(a) + Len(F)) /\ i <= Len(a)
        BY <1>1, <1>5
      <3> QED
        BY <1>6, <3>1, <3>2
    <2> QED
      BY <2>1, <2>2
  <1>11. verdict = Judged(msg, a, taken - n) /\ (spoken # <<>> => verdict.what = "granted")
    BY <1>1, <1>4 DEF Answered
  <1> QED
    BY <1>1, <1>3, <1>8, <1>9, <1>10, <1>11 DEF n, F

-----------------------------------------------------------------------------
(* The worker's steps up to the request.                                    *)

\* A failure that has been settled.
LEMMA FailSettled ==
  ASSUME HInv, NEW code \in {"auth", "protocol"}, Settled(code), Fail(code)
  PROVE  HInv'
  <1>1. Settled(code)'
    BY DEF Settled, Fail
  <1>2. BlameIsRight'
    BY <1>1 DEF BlameIsRight, Fail
  <1> QED
    BY <1>2, FailKeeps

\* A new connection.
LEMMA OpenSocketKeeps ==
  ASSUME HInv, OpenSocket
  PROVE  HInv'
  <1>1. /\ HTyped /\ pc = "socket" /\ inbox = "none" /\ event = "none" /\ ~Eating
        /\ refused \/ verdict = Undecided
    BY DEF HInv, OpenSocket
  <1>2. CASE Unreachable
    <2>1. refused \/ (~Settled("auth") /\ ~Settled("protocol"))
      BY <1>1 DEF Settled, Undecided
    <2> QED
      BY <1>2, <2>1, UnreachableKeeps
  <1>3. CASE Fail("none")
    BY <1>3, FailSilently
  <1>4. CASE /\ running /\ pc' = "hello"
             /\ inbox' = "none" /\ stream' = <<>> /\ closed' = FALSE
             /\ taken' = 0 /\ verdict' = Undecided /\ spoken' = <<>>
             /\ UNCHANGED <<kind, cmd, refused, buf, need, waited, event, running>>
    <2>1. Undecided \in [what : {"none", "auth", "protocol", "granted"}, at : Int]
      BY DEF Undecided
    <2>2. <<>> \in Seq(Byte) /\ <<>> \in Seq(Payloads) /\ 0 \in Nat
      OBVIOUS
    <2>3. HTyped'
      BY <1>1, <1>4, <2>1, <2>2 DEF HTyped, Steps
    <2>4. Fresh' /\ ~Eating'
      BY <1>1, <1>4 DEF Fresh, Eating
    <2> QED
      BY <1>1, <1>4, <2>3, <2>4 DEF HInv
  <1> QED
    BY <1>2, <1>3, <1>4 DEF OpenSocket

\* A message goes out, when the server has answered all that was asked.
LEMMA SendKeeps ==
  ASSUME HInv, Fresh, ~Eating,
         NEW msg, NEW next,
         \/ msg = "hello" /\ next = "greet"
         \/ msg = "auth" /\ next = "reply"
         \/ msg = "request" /\ next = "head",
         pc \notin {"done", "failed"},
         SendAndAwait(msg, next, Deciding(msg))
  PROVE  HInv'
  <1>1. HTyped /\ event = "none" /\ verdict = Undecided /\ stream = <<>> /\ spoken = <<>>
    BY DEF HInv, Fresh
  <1>2. CASE /\ inbox' = msg
             /\ Await(next, Deciding(msg))
             /\ UNCHANGED <<refused, stream, closed, taken, verdict, spoken>>
    <2>1. /\ pc' = next /\ need' = Deciding(msg) /\ buf' = <<>> /\ waited' = 0
          /\ UNCHANGED <<kind, cmd, event, running>>
      BY <1>2 DEF Await
    <2>2. HTyped'
      <3>1. 0 \in 0..(Slices - 1) /\ Deciding(msg) \in 0..257 /\ <<>> \in Seq(Byte)
        BY HandshakeAssumption DEF Deciding
      <3>2. next \in Steps /\ msg \in {"none", "hello", "auth", "request"}
        BY DEF Steps
      <3> QED
        BY <1>1, <1>2, <2>1, <3>1, <3>2, Zenon DEF HTyped
    <2>3. Asked(msg, Deciding(msg))'
      <3>1. Unread' = <<>>
        BY <1>1, <1>2, <2>1 DEF Unread
      <3>2. need' + Len(buf') = Deciding(msg)
        BY <2>1 DEF Deciding
      <3> QED
        BY <1>1, <1>2, <3>1, <3>2 DEF Asked
    <2>4. ~Eating'
      BY <1>2, <2>1 DEF Eating
    <2>5. CASE msg = "hello"
      BY <1>1, <2>1, <2>2, <2>3, <2>4, <2>5 DEF HInv, Deciding
    <2>6. CASE msg = "auth"
      BY <1>1, <2>1, <2>2, <2>3, <2>4, <2>6 DEF HInv, Deciding
    <2>7. CASE msg = "request"
      BY <1>1, <2>1, <2>2, <2>3, <2>4, <2>7 DEF HInv, Deciding
    <2> QED
      BY <2>5, <2>6, <2>7
  <1>3. CASE closed /\ Unreachable
    <2>1. ~Settled("auth") /\ ~Settled("protocol")
      BY <1>1 DEF Settled, Undecided
    <2> QED
      BY <1>3, <2>1, UnreachableKeeps
  <1> QED
    BY <1>2, <1>3 DEF SendAndAwait

\* What the worker asks waits for its answer.
LEMMA AsksKeep ==
  ASSUME HInv, Hello \/ Auth \/ Request
  PROVE  HInv'
  <1>1. pc \in {"hello", "auth", "request"}
    BY DEF Hello, Auth, Request
  <1>2. Fresh /\ ~Eating /\ pc \notin {"done", "failed"}
    BY <1>1 DEF HInv
  <1>3. CASE Hello
    BY <1>2, <1>3, SendKeeps DEF Hello, Deciding
  <1>4. CASE Auth
    BY <1>2, <1>4, SendKeeps DEF Auth, Deciding
  <1>5. CASE Request
    BY <1>2, <1>5, SendKeeps DEF Request, Deciding
  <1> QED
    BY <1>3, <1>4, <1>5

\* The worker goes on when nothing is left of the answer.
LEMMA GoOnFresh ==
  ASSUME HInv, Fresh, ~Eating, pc \notin {"done", "failed"}, NEW next \in {"auth", "request"},
         GoOn(next)
  PROVE  HInv'
  <1>1. /\ pc' = next
        /\ UNCHANGED <<kind, cmd, refused, buf, need, waited, event, running, server>>
    BY DEF GoOn
  <1>2. HTyped'
    BY <1>1 DEF HInv, HTyped, Steps, server
  <1>3. Fresh' /\ ~Eating' /\ event' = "none"
    BY <1>1 DEF Fresh, Eating, server, HInv
  <1> QED
    BY <1>1, <1>2, <1>3 DEF HInv

\* An answer of two bytes that settles nothing has nothing behind it.
LEMMA NothingMore ==
  ASSUME HTyped, NEW msg \in {"hello", "auth"}, NEW a \in Answers(msg), Len(a) = 2,
         inbox = "none", Decides(msg, a) = Undecided,
         verdict = Judged(msg, a, taken - Deciding(msg)),
         spoken # <<>> => verdict.what = "granted",
         Rest(a, Deciding(msg)) \o FlattenSeq(spoken) = stream
  PROVE  Fresh
  <1>1. verdict = Undecided
    BY DEF Judged
  <1>2. spoken = <<>>
    BY <1>1 DEF Undecided
  <1>3. FlattenSeq(spoken) = <<>>
    BY <1>2, FlattenEmpty
  <1>4. Rest(a, 2) = <<>>
    <2>1. a \in Seq(Byte)
      BY AnswersType
    <2> QED
      BY <2>1, RestOfAll
  <1>5. stream = <<>>
    <2>1. Deciding(msg) = 2
      BY DEF Deciding
    <2>2. stream = <<>> \o <<>>
      BY <1>3, <1>4, <2>1
    <2> QED
      BY <2>2
  <1> QED
    BY <1>1, <1>2, <1>5 DEF Fresh

\* What the first bytes settle is settled when they are there.
LEMMA SettledNow ==
  ASSUME HTyped, NEW msg \in {"hello", "auth", "request"}, NEW a \in Answers(msg),
         verdict = Judged(msg, a, taken - Deciding(msg)),
         Decides(msg, a).what \in {"auth", "protocol"}
  PROVE  Settled(Decides(msg, a).what)
  <1>1. taken \in Nat /\ Deciding(msg) \in Nat /\ taken - Deciding(msg) \in Int
    BY DEF HTyped, Deciding
  <1>2. /\ verdict.what = Decides(msg, a).what
        /\ verdict.at = Deciding(msg) + (taken - Deciding(msg))
    BY <1>1, JudgedIs
  <1> QED
    BY <1>1, <1>2 DEF Settled

\* The server's choice of a method.
LEMMA GreetKeeps ==
  ASSUME HInv, Greet
  PROVE  HInv'
  <1>1. /\ HTyped /\ pc = "greet" /\ need = 0 /\ ~Eating /\ Asked("hello", Deciding("hello"))
        /\ Deciding("hello") = 2
    BY DEF HInv, Greet, Got, Deciding
  <1>2. inbox = "none" /\ Len(buf) = 2
    BY <1>1, GotAnswer
  <1>3. PICK a \in Answers("hello") :
               /\ verdict = Judged("hello", a, taken - Deciding("hello"))
               /\ spoken # <<>> => verdict.what = "granted"
               /\ \A i \in 1..Deciding("hello") : buf[i] = a[i]
               /\ Rest(a, Deciding("hello")) \o FlattenSeq(spoken) = stream
    BY <1>1, GotAnswer
  <1>4. buf[1] = a[1] /\ buf[2] = a[2] /\ a \in {<<5, 0>>, <<5, 2>>, <<5, 255>>, NotSocks}
    BY <1>1, <1>3, ShortAnswers
  <1>5. CASE a \in {<<5, 0>>, <<5, 2>>}
    <2>1. Len(a) = 2 /\ a # <<5, 255>> /\ a # NotSocks /\ a[1] = 5 /\ (a[2] = 0 \/ a[2] = 2)
      BY <1>5 DEF NotSocks
    <2>2. Decides("hello", a) = Undecided
      BY <2>1 DEF Decides
    <2>3. Fresh
      BY <1>1, <1>2, <1>3, <2>1, <2>2, NothingMore
    <2>4. Classify(buf) \in {"no_auth", "need_auth"}
      BY <1>4, <2>1 DEF Classify
    <2>5. GoOn("auth") \/ GoOn("request")
      BY <2>4 DEF Greet
    <2> QED
      BY <1>1, <2>3, <2>5, GoOnFresh
  <1>6. CASE a = <<5, 255>>
    <2>1. Decides("hello", a).what = "auth"
      BY <1>6 DEF Decides, NotSocks
    <2>2. Settled("auth")
      BY <1>1, <1>3, <2>1, SettledNow
    <2>3. Classify(buf) = "no_method"
      BY <1>4, <1>6 DEF Classify
    <2>4. Fail("auth")
      BY <2>3 DEF Greet
    <2> QED
      BY <2>2, <2>4, FailSettled
  <1>7. CASE a = NotSocks
    <2>1. Decides("hello", a).what = "protocol"
      BY <1>7 DEF Decides, NotSocks
    <2>2. Settled("protocol")
      BY <1>1, <1>3, <2>1, SettledNow
    <2>3. Classify(buf) = "not_socks5"
      BY <1>4, <1>7 DEF Classify, NotSocks
    <2>4. Fail("protocol")
      BY <2>3 DEF Greet
    <2> QED
      BY <2>2, <2>4, FailSettled
  <1> QED
    BY <1>4, <1>5, <1>6, <1>7

\* The answer to the password.
LEMMA AuthReplyKeeps ==
  ASSUME HInv, AuthReply
  PROVE  HInv'
  <1>1. /\ HTyped /\ pc = "reply" /\ need = 0 /\ ~Eating /\ Asked("auth", Deciding("auth"))
        /\ Deciding("auth") = 2
    BY DEF HInv, AuthReply, Got, Deciding
  <1>2. inbox = "none" /\ Len(buf) = 2 /\ buf \in Seq(Byte)
    BY <1>1, GotAnswer DEF HTyped
  <1>3. PICK a \in Answers("auth") :
               /\ verdict = Judged("auth", a, taken - Deciding("auth"))
               /\ spoken # <<>> => verdict.what = "granted"
               /\ \A i \in 1..Deciding("auth") : buf[i] = a[i]
               /\ Rest(a, Deciding("auth")) \o FlattenSeq(spoken) = stream
    BY <1>1, GotAnswer
  <1>4. buf[1] = a[1] /\ buf[2] = a[2] /\ a \in {<<1, 0>>, <<1, 1>>, NotSocks}
    BY <1>1, <1>3, ShortAnswers
  <1>5. CASE a = <<1, 0>>
    <2>1. Len(a) = 2 /\ Decides("auth", a) = Undecided
      BY <1>5 DEF Decides
    <2>2. Fresh
      BY <1>1, <1>2, <1>3, <2>1, NothingMore
    <2>3. buf = <<1, 0>>
      BY <1>2, <1>4, <1>5
    <2>4. GoOn("request")
      BY <2>3 DEF AuthReply
    <2> QED
      BY <1>1, <2>2, <2>4, GoOnFresh
  <1>6. CASE a # <<1, 0>>
    <2>1. Decides("auth", a).what = "auth"
      BY <1>6 DEF Decides
    <2>2. Settled("auth")
      BY <1>1, <1>3, <2>1, SettledNow
    <2>3. buf # <<1, 0>>
      BY <1>4, <1>6 DEF NotSocks
    <2>4. Fail("auth")
      BY <2>3 DEF AuthReply
    <2> QED
      BY <2>2, <2>4, FailSettled
  <1> QED
    BY <1>5, <1>6

-----------------------------------------------------------------------------
(* The worker's steps on the reply.                                         *)

\* Waiting for n bytes more, next is looked at.
LEMMA AwaitType ==
  ASSUME HTyped, NEW n \in 0..257, NEW next \in Steps, Await(next, n), UNCHANGED server,
         refused' \in BOOLEAN
  PROVE  HTyped'
  <1>1. /\ pc' = next /\ need' = n /\ buf' = <<>> /\ waited' = 0
        /\ UNCHANGED <<kind, cmd, event, running>>
    BY DEF Await
  <1>2. UNCHANGED <<inbox, stream, closed, taken, verdict, spoken>>
    BY DEF server
  <1>3. 0 \in 0..(Slices - 1) /\ <<>> \in Seq(Byte)
    BY HandshakeAssumption
  <1> QED
    BY <1>1, <1>2, <1>3, Zenon DEF HTyped

\* Which grants the reply head has read, and where they end.
LEMMA GrantedHead ==
  ASSUME HInv, Got("head"), Granted
  PROVE  /\ HTyped /\ inbox = "none" /\ event = "none" /\ ~Eating
         /\ \/ Settled("protocol") /\ (BndLen(buf[4]) = 0 /\ (buf[4] # 3 \/ cmd # 1))
            \/ \E n \in Nat :
                  /\ verdict.what = "granted" /\ verdict.at = taken + n
                  /\ n <= Len(stream) /\ Rest(stream, n) = FlattenSeq(spoken)
                  /\ \/ buf[4] \in {1, 4} /\ n = BndLen(buf[4])
                     \/ /\ buf[4] = 3 /\ cmd = 1 /\ stream # <<>> /\ stream[1] \in Nat
                        /\ n = stream[1] + 3
  <1>1. /\ HTyped /\ event = "none" /\ ~Eating /\ need = 0
        /\ Asked("request", Deciding("request")) /\ Deciding("request") = 4
    BY DEF HInv, Got, Deciding
  <1>2. inbox = "none" /\ Len(buf) = 4
    BY <1>1, GotAnswer
  <1>3. PICK a \in Answers("request") :
               /\ verdict = Judged("request", a, taken - Deciding("request"))
               /\ spoken # <<>> => verdict.what = "granted"
               /\ \A i \in 1..Deciding("request") : buf[i] = a[i]
               /\ Rest(a, Deciding("request")) \o FlattenSeq(spoken) = stream
    BY <1>1, GotAnswer
  <1>4. buf[1] = a[1] /\ buf[2] = a[2] /\ buf[4] = a[4]
    <2>1. 1 \in 1..4 /\ 2 \in 1..4 /\ 4 \in 1..4
      OBVIOUS
    <2> QED
      BY <1>1, <1>3, <2>1
  <1>5. a[1] = 5 /\ a[2] = 0 /\ a # NotSocks
    <2>1. a[1] = 5 /\ a[2] = 0
      BY <1>4 DEF Granted
    <2> QED
      BY <2>1 DEF NotSocks
  <1>6. a \in Seq(Byte) /\ Len(a) \in Nat /\ Len(a) >= 4 /\ ByType(a)
    BY <1>5, Replies
  <1>7. CASE a[4] = 9 \/ (a[4] = 3 /\ cmd # 1)
    <2>1. Decides("request", a).what = "protocol"
      BY <1>5, <1>7 DEF Decides
    <2>2. Settled("protocol")
      BY <1>1, <1>3, <2>1, SettledNow
    <2>3. BndLen(buf[4]) = 0 /\ (buf[4] # 3 \/ cmd # 1)
      BY <1>4, <1>7 DEF BndLen
    <2> QED
      BY <1>1, <1>2, <2>2, <2>3
  <1>8. CASE a[4] \in {1, 4} \/ (a[4] = 3 /\ cmd = 1)
    <2> DEFINE n == Len(a) - 4
               F == FlattenSeq(spoken)
               x == Rest(a, 4)
    <2>1. Decides("request", a) = [what |-> "granted", at |-> Len(a)]
      BY <1>5, <1>8 DEF Decides
    <2>2. taken \in Nat /\ taken - 4 \in Int /\ n \in Nat
      <3>1. taken \in Nat
        BY <1>1, Zenon DEF HTyped
      <3>2. Len(a) \in Nat /\ Len(a) >= 4
        BY <1>6, Zenon
      <3> QED
        BY <3>1, <3>2
    <2>3. verdict.what = "granted" /\ verdict.at = Len(a) + (taken - 4)
      <3>1. verdict = Judged("request", a, taken - 4)
        BY <1>1, <1>3, Zenon
      <3>2. PICK j : j = taken - 4 /\ j \in Int
        BY <2>2
      <3>3. /\ Judged("request", a, j).what = Decides("request", a).what
            /\ Judged("request", a, j).what # "none" =>
                  Judged("request", a, j).at = Decides("request", a).at + j
        BY <3>2, JudgedIs
      <3>4. Decides("request", a).what = "granted" /\ Decides("request", a).at = Len(a)
        BY <2>1
      <3> QED
        BY <3>1, <3>2, <3>3, <3>4, Zenon
    <2>4. verdict.at = taken + n
      BY <1>6, <2>2, <2>3
    <2>5. 4 \in 0..Len(a) /\ F \in Seq(Byte)
      <3>1. spoken \in Seq(Seq(Byte))
        BY <1>1, FramesOfServer DEF HTyped
      <3> QED
        BY <1>6, <3>1, FlattenType
    <2>6. x \in Seq(Byte) /\ Len(x) = n /\ \A i \in 1..(Len(a) - 4) : x[i] = a[4 + i]
      BY <1>6, <2>5, RestIs
    <2>7. stream = x \o F
      BY <1>1, <1>3
    <2> HIDE DEF n, F, x
    <2>8. /\ stream \in Seq(Byte) /\ Len(stream) = n + Len(F)
          /\ \A i \in 1..(n + Len(F)) : stream[i] = IF i <= n THEN x[i] ELSE F[i - n]
      BY <2>5, <2>6, <2>7, ConcatProperties
    <2>9. n <= Len(stream) /\ Rest(stream, n) = F
      <3>1. Len(F) \in Nat /\ n \in 0..Len(x)
        BY <2>2, <2>5, <2>6
      <3>2. Rest(x \o F, Len(x)) = F
        BY <2>5, <2>6, <3>1, RestOfConcat
      <3> QED
        BY <2>2, <2>6, <2>7, <2>8, <3>1, <3>2
    <2>10. CASE a[4] \in {1, 4}
      <3>1. n = BndLen(buf[4])
        BY <1>4, <1>6, <2>10 DEF BndLen, ByType, n
      <3> QED
        BY <1>1, <1>2, <1>4, <2>2, <2>3, <2>4, <2>9, <2>10, <3>1 DEF F
    <2>11. CASE a[4] = 3 /\ cmd = 1
      <3>1. a[5] \in Byte /\ Len(a) = a[5] + 7
        BY <1>6, <2>11 DEF ByType
      <3>2. a[5] \in Nat
        BY <3>1, ByteIs
      <3>3. n = a[5] + 3
        BY <3>1, <3>2 DEF n
      <3>4. x[1] = a[5]
        <4>1. 1 \in 1..(Len(a) - 4) /\ 4 + 1 = 5
          BY <3>1, <3>2
        <4> QED
          BY <2>6, <4>1
      <3>5. stream[1] = a[5] /\ stream # <<>>
        <4>1. 1 \in 1..(n + Len(F)) /\ 1 <= n /\ Len(stream) # 0
          BY <2>2, <2>5, <2>8, <3>2, <3>3
        <4> QED
          BY <2>8, <3>4, <4>1
      <3> QED
        BY <1>1, <1>2, <1>4, <2>2, <2>3, <2>4, <2>9, <2>11, <3>2, <3>3, <3>5 DEF F
    <2> QED
      BY <1>8, <2>10, <2>11
  <1>9. a[4] \in {1, 4, 9, 3}
    BY <1>6 DEF ByType
  <1> QED
    BY <1>7, <1>8, <1>9

\* What is left of a reply behind its head.
LEMMA BndLenIs ==
  ASSUME NEW t
  PROVE  BndLen(t) \in {0, 6, 18} /\ (BndLen(t) > 0 <=> t \in {1, 4})
  BY DEF BndLen

\* ReplyHead on a grant.
LEMMA GrantKeeps ==
  ASSUME HInv, Got("head"), Granted, UNCHANGED refused,
         ReadBnd(buf[4], cmd = 1, Fail("protocol"))
  PROVE  HInv'
  <1>1. HTyped /\ inbox = "none" /\ event = "none" /\ ~Eating /\ pc = "head" /\ refused \in BOOLEAN
    BY GrantedHead DEF Got, HTyped
  <1>2. CASE Settled("protocol") /\ BndLen(buf[4]) = 0 /\ (buf[4] # 3 \/ cmd # 1)
    <2>1. Fail("protocol")
      BY <1>2 DEF ReadBnd
    <2> QED
      BY <1>2, <2>1, FailSettled
  <1>3. ASSUME NEW n \in Nat,
               verdict.what = "granted" /\ verdict.at = taken + n,
               n <= Len(stream) /\ Rest(stream, n) = FlattenSeq(spoken),
               buf[4] \in {1, 4}, n = BndLen(buf[4])
        PROVE  HInv'
    <2>1. BndLen(buf[4]) \in {6, 18} /\ buf[4] # 3
      BY <1>3 DEF BndLen
    <2>2. Await("addr", n) /\ UNCHANGED server
      BY <1>3, <2>1 DEF ReadBnd
    <2>3. HTyped'
      <3>1. n \in 0..257 /\ "addr" \in Steps /\ refused' \in BOOLEAN
        BY <1>1, <1>3, <2>1 DEF Steps
      <3> QED
        BY <1>1, <2>2, <3>1, AwaitType
    <2>4. /\ pc' = "addr" /\ need' = n /\ buf' = <<>> /\ event' = event /\ cmd' = cmd
          /\ inbox' = inbox /\ stream' = stream /\ taken' = taken /\ verdict' = verdict
          /\ spoken' = spoken
      BY <2>2 DEF Await, server
    <2>5. Unread' = stream
      <3>1. <<>> \o stream = stream
        BY <1>1, ConcatEmptySeq DEF HTyped
      <3> QED
        BY <2>4, <3>1 DEF Unread
    <2>6. AtAddress'
      <3>1. need' + Len(buf') = n
        BY <1>3, <2>4
      <3>2. ToCome(n, n)'
        BY <1>1, <1>3, <2>4, <2>5 DEF ToCome
      <3> QED
        BY <2>4, <3>1, <3>2 DEF AtAddress
    <2>7. ~Eating'
      BY <1>1, <2>4 DEF Eating
    <2> QED
      BY <1>1, <2>3, <2>4, <2>6, <2>7 DEF HInv
  <1>4. ASSUME verdict.what = "granted" /\ verdict.at = taken + (stream[1] + 3),
               stream[1] + 3 <= Len(stream) /\ Rest(stream, stream[1] + 3) = FlattenSeq(spoken),
               buf[4] = 3 /\ cmd = 1 /\ stream # <<>> /\ stream[1] \in Nat
        PROVE  HInv'
    <2>2. Await("len", 1) /\ UNCHANGED server
      BY <1>4 DEF ReadBnd
    <2>3. HTyped'
      BY <1>1, <2>2, AwaitType DEF Steps
    <2>4. /\ pc' = "len" /\ need' = 1 /\ buf' = <<>> /\ event' = event /\ cmd' = cmd
          /\ inbox' = inbox /\ stream' = stream /\ taken' = taken /\ verdict' = verdict
          /\ spoken' = spoken
      BY <2>2 DEF Await, server
    <2>5. Unread' = stream
      <3>1. <<>> \o stream = stream
        BY <1>1, ConcatEmptySeq DEF HTyped
      <3> QED
        BY <2>4, <3>1 DEF Unread
    <2>6. AtLength'
      <3>1. need' + Len(buf') = 1
        BY <2>4
      <3>2. 1 + stream[1] + 2 = stream[1] + 3
        BY <1>4
      <3>3. (Unread # <<>> /\ ToCome(Unread[1] + 3, need + Unread[1] + 2))'
        BY <1>1, <1>4, <2>4, <2>5, <3>2 DEF ToCome
      <3> QED
        BY <3>1, <3>3 DEF AtLength
    <2>7. ~Eating'
      BY <1>1, <2>4 DEF Eating
    <2> QED
      BY <1>1, <2>3, <2>4, <2>6, <2>7 DEF HInv
  <1> QED
    BY <1>2, <1>3, <1>4, GrantedHead

\* A refusal of UDP-in-TCP is read past.
LEMMA RefusalKeeps ==
  ASSUME HInv, Got("head"), Refusal, cmd = 4, refused' = TRUE,
         ReadBnd(buf[4], TRUE, Await("again", 0) /\ UNCHANGED server)
  PROVE  HInv'
  <1>1. /\ HTyped /\ event = "none" /\ need = 0
        /\ Asked("request", Deciding("request"))
    BY DEF HInv, Got, Deciding
  <1>2. inbox = "none"
    BY <1>1, GotAnswer
  <1>3. \/ Await("len", 1) /\ UNCHANGED server
        \/ Await("addr", 6) /\ UNCHANGED server
        \/ Await("addr", 18) /\ UNCHANGED server
        \/ Await("again", 0) /\ UNCHANGED server
    BY BndLenIs DEF ReadBnd
  <1>4. PICK next \in {"len", "addr", "again"}, n \in 0..257 :
           Await(next, n) /\ UNCHANGED server /\ (next = "len" => n = 1)
    BY <1>3
  <1>5. HTyped'
    BY <1>1, <1>4, AwaitType DEF Steps
  <1>6. /\ pc' = next /\ need' = n /\ buf' = <<>> /\ event' = event /\ cmd' = cmd
        /\ inbox' = inbox
    BY <1>4 DEF Await, server
  <1>7. Eating'
    BY <1>6 DEF Eating
  <1>8. next = "len" => AtLength'
    BY <1>4, <1>6, <1>7 DEF AtLength
  <1>9. AtAddress'
    BY <1>7 DEF AtAddress
  <1> QED
    BY <1>1, <1>2, <1>5, <1>6, <1>7, <1>8, <1>9 DEF HInv

\* What is no reply to the request, or refuses it.
LEMMA NoReplyKeeps ==
  ASSUME HInv, Got("head"), buf[1] # 5 \/ (Refusal /\ cmd # 4), Fail("protocol")
  PROVE  HInv'
  <1>1. /\ HTyped /\ need = 0
        /\ Asked("request", Deciding("request")) /\ Deciding("request") = 4
    BY DEF HInv, Got, Deciding
  <1>3. PICK a \in Answers("request") :
               /\ verdict = Judged("request", a, taken - Deciding("request"))
               /\ \A i \in 1..Deciding("request") : buf[i] = a[i]
    BY <1>1, GotAnswer
  <1>4. buf[1] = a[1] /\ buf[2] = a[2]
    <2>1. 1 \in 1..4 /\ 2 \in 1..4
      OBVIOUS
    <2> QED
      BY <1>1, <1>3, <2>1
  <1>5. a = NotSocks \/ a[2] # 0
    <2>1. a = NotSocks \/ a[1] = 5
      BY Replies DEF ByType
    <2> QED
      BY <1>4, <2>1 DEF Refusal
  <1>6. Decides("request", a).what = "protocol"
    BY <1>5 DEF Decides
  <1>7. Settled("protocol")
    BY <1>1, <1>3, <1>6, SettledNow
  <1> QED
    BY <1>7, FailSettled

\* The head of the reply: granted, refused, or no reply at all.
LEMMA ReplyHeadKeeps ==
  ASSUME HInv, ReplyHead
  PROVE  HInv'
  <1>1. Got("head")
    BY DEF ReplyHead
  <1>2. CASE Granted /\ UNCHANGED refused /\ ReadBnd(buf[4], cmd = 1, Fail("protocol"))
    BY <1>1, <1>2, GrantKeeps
  <1>3. CASE /\ Refusal /\ cmd = 4
             /\ refused' = TRUE
             /\ ReadBnd(buf[4], TRUE, Await("again", 0) /\ UNCHANGED server)
    BY <1>1, <1>3, RefusalKeeps
  <1>4. CASE (buf[1] # 5 \/ (Refusal /\ cmd # 4)) /\ Fail("protocol")
    BY <1>1, <1>4, NoReplyKeeps
  <1> QED
    BY <1>2, <1>3, <1>4, Zenon DEF ReplyHead

-----------------------------------------------------------------------------
(* The worker's other steps.                                                *)

\* The length of a name in the reply.
LEMMA DomainLenKeeps ==
  ASSUME HInv, DomainLen
  PROVE  HInv'
  <1>1. /\ HTyped /\ pc = "len" /\ need = 0 /\ event = "none" /\ inbox = "none" /\ AtLength
    BY DEF HInv, DomainLen, Got, AtLength, ToCome
  <1>2. /\ Await("addr", buf[1] + 2) /\ UNCHANGED server /\ refused' = refused
    BY DEF DomainLen
  <1>3. buf \in Seq(Byte) /\ stream \in Seq(Byte) /\ taken \in Nat /\ spoken \in Seq(Payloads)
    BY <1>1 DEF HTyped
  <1>4. Len(buf) = 1
    <2>1. Len(buf) \in Nat
      BY <1>3
    <2> QED
      BY <1>1, <2>1 DEF AtLength
  <1>5. PICK k \in 0..255 : k = buf[1]
    <2>1. 1 \in 1..Len(buf)
      BY <1>4
    <2>2. buf[1] \in Byte
      BY <1>3, <2>1
    <2>3. buf[1] \in 0..255
      BY <2>2, ByteIs
    <2> QED
      BY <2>3
  <1>k. k \in Nat /\ k <= 255
    BY <1>5
  <1>6. /\ pc' = "addr" /\ need' = k + 2 /\ buf' = <<>> /\ event' = event /\ cmd' = cmd
        /\ inbox' = inbox /\ stream' = stream /\ taken' = taken /\ verdict' = verdict
        /\ spoken' = spoken
    BY <1>2, <1>5 DEF Await, server
  <1>7. HTyped'
    <2>1. k + 2 \in 0..257 /\ "addr" \in Steps /\ refused' \in BOOLEAN
      BY <1>1, <1>2 DEF Steps, HTyped
    <2> QED
      BY <1>1, <1>2, <1>5, <2>1, AwaitType
  <1>8. AtAddress'
    <2>1. CASE Eating
      BY <1>2, <1>6, <2>1 DEF Eating, AtAddress
    <2>2. CASE ToCome(Unread[1] + 3, need + Unread[1] + 2)
      <3> DEFINE u == Unread
                 F == FlattenSeq(spoken)
      <3>1. u \in Seq(Byte) /\ Len(u) = 1 + Len(stream) /\ u[1] = k
        <4>1. /\ buf \o stream \in Seq(Byte) /\ Len(buf \o stream) = Len(buf) + Len(stream)
              /\ \A i \in 1..(Len(buf) + Len(stream)) :
                    (buf \o stream)[i] = IF i <= Len(buf) THEN buf[i] ELSE stream[i - Len(buf)]
          BY <1>3, ConcatProperties
        <4>2. 1 \in 1..(Len(buf) + Len(stream)) /\ 1 <= Len(buf)
          BY <1>3, <1>4
        <4> QED
          BY <1>4, <1>5, <4>1, <4>2 DEF Unread
      <3>2. Rest(u, 1) = stream
        <4>1. Rest(buf \o stream, Len(buf)) = stream
          <5>1. 0 \in 0..Len(buf)
            BY <1>4
          <5> QED
            BY <1>3, <5>1, RestOfConcat
        <4> QED
          BY <1>4, <4>1 DEF Unread
      <3>3. /\ verdict.what = "granted" /\ verdict.at = taken + (need + u[1] + 2)
            /\ u[1] + 3 <= Len(u) /\ Rest(u, u[1] + 3) = F
        BY <2>2, Zenon DEF ToCome
      <3> HIDE DEF u, F
      <3>4. verdict.at = taken + (k + 2)
        BY <1>1, <1>3, <1>5, <3>1, <3>3
      <3>5. k + 2 <= Len(stream) /\ Rest(u, k + 3) = F /\ Len(stream) \in Nat
        BY <1>3, <1>5, <3>1, <3>3
      <3>6. Rest(stream, k + 2) = F
        <4>1. 1 \in 0..Len(u) /\ k + 2 \in 0..(Len(u) - 1) /\ 1 + (k + 2) = k + 3
          <5>1. Len(u) = 1 + Len(stream) /\ k + 2 <= Len(stream) /\ Len(stream) \in Nat
            BY <3>1, <3>5
          <5> QED
            BY <1>k, <5>1
        <4>2. Rest(Rest(u, 1), k + 2) = Rest(u, 1 + (k + 2))
          BY <3>1, <4>1, RestOfRest
        <4> QED
          BY <3>2, <3>5, <4>1, <4>2
      <3>7. Unread' = stream
        <4>1. <<>> \o stream = stream
          BY <1>3, ConcatEmptySeq
        <4> QED
          BY <1>6, <4>1 DEF Unread
      <3>8. need' + Len(buf') = k + 2
        BY <1>5, <1>6
      <3>9. ToCome(k + 2, k + 2)'
        BY <1>1, <1>6, <3>3, <3>4, <3>5, <3>6, <3>7 DEF ToCome, F
      <3> QED
        BY <1>6, <3>8, <3>9 DEF AtAddress
    <2> QED
      BY <1>1, <2>1, <2>2 DEF AtLength
  <1>9. Eating' = Eating
    BY <1>2, <1>6 DEF Eating
  <1> QED
    BY <1>1, <1>6, <1>7, <1>8, <1>9 DEF HInv

\* The reply has been read to its end.
LEMMA AddrKeeps ==
  ASSUME HInv, Addr
  PROVE  HInv'
  <1>1. /\ HTyped /\ pc = "addr" /\ need = 0 /\ event = "none" /\ AtAddress
        /\ Eating => inbox = "none"
    BY DEF HInv, Addr, Got
  <1> DEFINE next == IF Eating THEN "again" ELSE IF cmd = 3 THEN "relay" ELSE "register"
  <1>2. /\ pc' = next
        /\ UNCHANGED <<kind, cmd, refused, buf, need, waited, event, running, server>>
    BY DEF Addr, GoOn
  <1>3. HTyped'
    <2>1. next \in Steps
      BY DEF Steps
    <2> HIDE DEF next
    <2> QED
      BY <1>1, <1>2, <2>1 DEF HTyped, server
  <1>4. Eating' = Eating
    BY <1>2 DEF Eating
  <1>5. CASE Eating
    <2>1. pc' = "again" /\ Eating' /\ event' = "none" /\ inbox' = "none"
      BY <1>1, <1>2, <1>4, <1>5 DEF server
    <2> QED
      BY <1>3, <2>1 DEF HInv
  <1>6. CASE ~Eating
    <2>1. /\ inbox = "none" /\ verdict.what = "granted" /\ verdict.at = taken + 0
          /\ Rest(Unread, 0 + Len(buf)) = FlattenSeq(spoken)
      BY <1>1, <1>6, Zenon DEF AtAddress, ToCome
    <2>2. buf \in Seq(Byte) /\ stream \in Seq(Byte) /\ taken \in Nat /\ 0 + Len(buf) = Len(buf)
      BY <1>1 DEF HTyped
    <2>3. Rest(Unread, Len(buf)) = stream
      <3>1. 0 \in 0..Len(buf)
        BY <2>2
      <3> QED
        BY <2>2, <3>1, RestOfConcat DEF Unread
    <2>4. Agreed /\ stream = FlattenSeq(spoken)
      BY <2>1, <2>2, <2>3 DEF Agreed
    <2>5. Agreed' /\ (stream = FlattenSeq(spoken))' /\ event' = "none"
      BY <1>1, <1>2, <2>4 DEF Agreed, server
    <2>6. pc' \in {"relay", "register"} /\ ~Eating'
      BY <1>2, <1>4, <1>6
    <2> QED
      BY <1>3, <2>5, <2>6 DEF HInv
  <1> QED
    BY <1>5, <1>6

\* A new conversation begins, for UDP ASSOCIATE.
LEMMA AgainKeeps ==
  ASSUME HInv, Again
  PROVE  HInv'
  <1>1. /\ HTyped /\ pc = "again" /\ event = "none" /\ Eating /\ inbox = "none"
    BY DEF HInv, Again
  <1>2. /\ pc' = "socket" /\ cmd' = 3
        /\ UNCHANGED <<kind, refused, buf, need, waited, event, running, server>>
    BY DEF Again
  <1>3. HTyped'
    BY <1>1, <1>2 DEF HTyped, server, Steps
  <1>4. /\ refused' /\ inbox' = "none" /\ event' = "none" /\ ~Eating'
    BY <1>1, <1>2 DEF Eating, server
  <1> QED
    BY <1>2, <1>3, <1>4 DEF HInv

\* After the grant nothing is held against the worker.
LEMMA AgreedIsNoBlame ==
  ASSUME Agreed
  PROVE  ~Settled("auth") /\ ~Settled("protocol")
  BY DEF Agreed, Settled

\* The socket of the UDP relay.
LEMMA RelaySocketKeeps ==
  ASSUME HInv, RelaySocket
  PROVE  HInv'
  <1>1. HTyped /\ pc = "relay" /\ Agreed /\ stream = FlattenSeq(spoken) /\ event = "none" /\ ~Eating
    BY DEF HInv, RelaySocket
  <1>2. CASE Unreachable
    BY <1>1, <1>2, AgreedIsNoBlame, UnreachableKeeps
  <1>3. CASE Fail("none")
    BY <1>3, FailSilently
  <1>4. CASE GoOn("register")
    <2>1. /\ pc' = "register"
          /\ UNCHANGED <<kind, cmd, refused, buf, need, waited, event, running, server>>
      BY <1>4 DEF GoOn
    <2>2. HTyped'
      BY <1>1, <2>1 DEF HTyped, server, Steps
    <2>3. Agreed' /\ (stream = FlattenSeq(spoken))' /\ event' = "none" /\ ~Eating'
      BY <1>1, <2>1 DEF Agreed, server, Eating
    <2> QED
      BY <2>1, <2>2, <2>3 DEF HInv
  <1> QED
    BY <1>2, <1>3, <1>4 DEF RelaySocket

\* The session is handed to the engine.
LEMMA RegisterKeeps ==
  ASSUME HInv, Register
  PROVE  HInv'
  <1>1. HTyped /\ pc = "register" /\ Agreed /\ ~Eating
    BY DEF HInv, Register
  <1>2. CASE Unreachable
    BY <1>1, <1>2, AgreedIsNoBlame, UnreachableKeeps
  <1>3. CASE Fail("none")
    BY <1>3, FailSilently
  <1>4. CASE /\ pc' = "done" /\ event' = "ok"
             /\ UNCHANGED <<kind, cmd, refused, buf, need, waited, running, server>>
    <2>1. HTyped'
      BY <1>1, <1>4 DEF HTyped, server, Steps
    <2>2. Agreed' /\ ~Eating'
      BY <1>1, <1>4 DEF Agreed, server, Eating
    <2> QED
      BY <1>4, <2>1, <2>2 DEF HInv
  <1> QED
    BY <1>2, <1>3, <1>4 DEF Register

\* Bytes come in.
LEMMA RecvKeeps ==
  ASSUME HInv, Recv
  PROVE  HInv'
  <1>1. HTyped /\ pc \in {"greet", "reply", "head", "len", "addr"} /\ event = "none"
    BY DEF HInv, Recv, Reading
  <1>2. /\ HTyped'
        /\ Unread' = Unread /\ need' + Len(buf') = need + Len(buf)
        /\ taken' + need' = taken + need /\ taken' - Len(buf') = taken - Len(buf)
        /\ UNCHANGED <<kind, pc, cmd, refused, event, running, inbox, closed, verdict, spoken>>
    BY <1>1, RecvMoves
  <1>3. Eating' = Eating
    BY <1>2 DEF Eating
  <1>4. ASSUME NEW msg, NEW n, Asked(msg, n)
        PROVE  Asked(msg, n)'
    <2>1. (need + Len(buf) = n)'
      BY <1>2, <1>4 DEF Asked
    <2>2. CASE inbox = msg /\ Unread = <<>> /\ spoken = <<>> /\ verdict = Undecided
      <3>1. (inbox = msg /\ Unread = <<>> /\ spoken = <<>> /\ verdict = Undecided)'
        BY <1>2, <2>2 DEF Undecided
      <3> QED
        BY <2>1, <3>1 DEF Asked
    <2>3. CASE inbox = "none" /\ \E a \in Answers(msg) : Answered(msg, a)
      <3>1. PICK a \in Answers(msg) : Answered(msg, a)
        BY <2>3
      <3>2. Decides(msg, a)' = Decides(msg, a)
        BY <1>2 DEF Decides
      <3>3. Judged(msg, a, taken - Len(buf))' = Judged(msg, a, taken - Len(buf))
        BY <1>2, <3>2 DEF Judged
      <3>4. Answered(msg, a)'
        BY <1>2, <3>1, <3>3 DEF Answered
      <3> QED
        BY <1>2, <2>1, <2>3, <3>4 DEF Asked
    <2> QED
      BY <1>4, <2>2, <2>3 DEF Asked
  <1>5. taken \in Nat /\ need \in Nat /\ taken' \in Nat /\ need' \in Nat /\ buf \in Seq(Byte)
        /\ stream \in Seq(Byte)
    BY <1>1, <1>2 DEF HTyped
  <1>6. AtLength => AtLength'
    <2>1. CASE Eating
      BY <1>2, <1>3, <2>1 DEF AtLength
    <2>2. CASE Unread # <<>> /\ ToCome(Unread[1] + 3, need + Unread[1] + 2)
      <3>1. Unread[1] \in Nat
        <4>1. buf \o stream \in Seq(Byte)
          BY <1>5, ConcatProperties
        <4>2. Unread[1] \in Byte
          BY <2>2, <4>1 DEF Unread
        <4> QED
          BY <4>2, ByteIs
      <3>2. PICK k : k = Unread[1]
        OBVIOUS
      <3>3. k \in Nat /\ Unread' # <<>> /\ Unread'[1] = k
        BY <1>2, <2>2, <3>1, <3>2
      <3>4. taken' + (need' + k + 2) = taken + (need + k + 2)
        <4>1. PICK m \in Nat : m = k + 2
          BY <3>3
        <4>2. taken' + need' = taken + need
          BY <1>2
        <4>3. taken \in Nat /\ need \in Nat /\ taken' \in Nat /\ need' \in Nat
          BY <1>5
        <4>4. taken' + (need' + m) = taken + (need + m)
          <5>1. taken' + (need' + m) = (taken' + need') + m
            BY <4>1, <4>3
          <5>2. taken + (need + m) = (taken + need) + m
            BY <4>1, <4>3
          <5> QED
            BY <4>2, <5>1, <5>2, Zenon
        <4>5. need' + k + 2 = need' + m /\ need + k + 2 = need + m
          BY <3>3, <4>1, <4>3
        <4> QED
          BY <4>4, <4>5
      <3>5. ToCome(k + 3, need + k + 2)
        BY <2>2, <3>2
      <3>6. ToCome(k + 3, need + k + 2)'
        BY <1>2, <3>4, <3>5 DEF ToCome
      <3>7. (Unread # <<>> /\ ToCome(Unread[1] + 3, need + Unread[1] + 2))'
        BY <3>3, <3>6
      <3> QED
        BY <1>2, <3>7 DEF AtLength
    <2> QED
      BY <2>1, <2>2 DEF AtLength
  <1>7. AtAddress => AtAddress'
    <2>1. CASE Eating
      BY <1>3, <2>1 DEF AtAddress
    <2>2. CASE ToCome(need + Len(buf), need)
      <3>1. ToCome(need + Len(buf), need)'
        BY <1>2, <2>2 DEF ToCome
      <3> QED
        BY <3>1 DEF AtAddress
    <2> QED
      BY <2>1, <2>2 DEF AtAddress
  <1> QED
    BY <1>1, <1>2, <1>3, <1>4, <1>6, <1>7 DEF HInv

\* The server has hung up and everything has been read.
LEMMA RecvEofKeeps ==
  ASSUME HInv, RecvEof
  PROVE  HInv'
  BY MayGiveUp, UnreachableKeeps DEF RecvEof

\* Nothing that has been said or read changes.
Words == <<cmd, refused, buf, need, inbox, stream, taken, verdict, spoken>>

\* Parts of the invariant that a step which reads nothing leaves alone.
LEMMA SameWords ==
  ASSUME UNCHANGED Words
  PROVE  /\ Fresh' = Fresh /\ AtLength' = AtLength /\ AtAddress' = AtAddress
         /\ Agreed' = Agreed /\ Eating' = Eating
         /\ Asked("hello", 2)' = Asked("hello", 2) /\ Asked("auth", 2)' = Asked("auth", 2)
         /\ Asked("request", 4)' = Asked("request", 4)
  <1>1. /\ cmd' = cmd /\ refused' = refused /\ buf' = buf /\ need' = need /\ inbox' = inbox
        /\ stream' = stream /\ taken' = taken /\ verdict' = verdict /\ spoken' = spoken
    BY DEF Words
  <1>2. Unread' = Unread /\ Eating' = Eating
    BY <1>1 DEF Unread, Eating
  <1>3. Fresh' = Fresh /\ Agreed' = Agreed
    BY <1>1 DEF Fresh, Agreed, Undecided
  <1>4. \A k, n : ToCome(k, n)' = ToCome(k, n)
    BY <1>1, <1>2 DEF ToCome
  <1>5. AtLength' = AtLength /\ AtAddress' = AtAddress
    BY <1>1, <1>2, <1>4 DEF AtLength, AtAddress
  <1>6. ASSUME NEW msg, NEW n PROVE Asked(msg, n)' = Asked(msg, n)
    <2>1. \A a : Decides(msg, a)' = Decides(msg, a)
      BY <1>1 DEF Decides
    <2>2. \A a : Judged(msg, a, taken - Len(buf))' = Judged(msg, a, taken - Len(buf))
      BY <1>1, <2>1 DEF Judged
    <2>3. \A a : Answered(msg, a)' = Answered(msg, a)
      BY <1>1, <1>2, <2>2 DEF Answered
    <2> QED
      BY <1>1, <1>2, <2>3 DEF Asked, Undecided
  <1> QED
    BY <1>2, <1>3, <1>5, <1>6

\* A slice of the time-out.
LEMMA WaitSliceKeeps ==
  ASSUME HInv, WaitSlice
  PROVE  HInv'
  <1>1. CASE Unreachable
    BY <1>1, MayGiveUp, UnreachableKeeps DEF WaitSlice
  <1>2. CASE /\ ~TimedOut /\ waited' = WaitedOn(waited)
             /\ UNCHANGED <<kind, pc, cmd, refused, buf, need, event, running, server>>
    <2>1. waited \in Nat /\ waited <= Slices - 1 /\ Slices \in Nat
      BY HandshakeAssumption DEF HInv, HTyped
    <2>2. waited' \in 0..(Slices - 1)
      BY <1>2, <2>1 DEF TimedOut, WaitedOn
    <2>3. HTyped'
      BY <1>2, <2>2 DEF HInv, HTyped, server
    <2>4. UNCHANGED Words
      BY <1>2 DEF Words, server
    <2>5. pc' = pc /\ pc \notin {"done", "failed"} /\ event' = event /\ inbox' = inbox
      BY <1>2 DEF WaitSlice, Reading, server
    <2>6. pc # "relay" /\ pc # "register" /\ pc # "socket"
      BY DEF WaitSlice, Reading
    <2> QED
      BY <2>3, <2>4, <2>5, <2>6, SameWords DEF HInv
  <1> QED
    BY <1>1, <1>2 DEF WaitSlice

\* Every step of the worker.
LEMMA WorkerKeeps ==
  ASSUME HInv, Worker
  PROVE  HInv'
  BY OpenSocketKeeps, AsksKeep, GreetKeeps, AuthReplyKeeps, ReplyHeadKeeps, DomainLenKeeps,
     AddrKeeps, AgainKeeps, RelaySocketKeeps, RegisterKeeps, RecvKeeps, RecvEofKeeps,
     WaitSliceKeeps, Zenon
     DEF Worker

-----------------------------------------------------------------------------
(* The server and the stop.                                                 *)

\* A stop, or the server hanging up.
LEMMA StillKeeps ==
  ASSUME HInv, UNCHANGED <<worker, inbox, stream, taken, verdict, spoken>>,
         running' \in BOOLEAN, running' => running, closed' \in BOOLEAN, closed => closed'
  PROVE  HInv'
  <1>1. /\ UNCHANGED <<kind, pc, cmd, refused, buf, need, waited, event>>
        /\ UNCHANGED <<inbox, stream, taken, verdict, spoken>>
    BY DEF worker
  <1>2. HTyped'
    BY <1>1 DEF HInv, HTyped
  <1>3. UNCHANGED Words
    BY <1>1 DEF Words
  <1>4. BlameIsRight => BlameIsRight'
    <2>1. \A w : Settled(w)' = Settled(w)
      BY <1>1 DEF Settled
    <2> QED
      BY <1>1, <2>1 DEF BlameIsRight
  <1>5. refused' = refused /\ (verdict = Undecided)' = (verdict = Undecided)
        /\ (stream = FlattenSeq(spoken))' = (stream = FlattenSeq(spoken))
    BY <1>1 DEF Undecided
  <1> QED
    BY <1>1, <1>2, <1>3, <1>4, <1>5, SameWords DEF HInv

\* The tunnel is stopped.
LEMMA StopKeeps ==
  ASSUME HInv, Stop
  PROVE  HInv'
  BY StillKeeps DEF Stop, server, HInv, HTyped

\* The server hangs up.
LEMMA HangUpKeeps ==
  ASSUME HInv, HangUp
  PROVE  HInv'
  BY StillKeeps DEF HangUp, HInv, HTyped

\* The server answers what was asked, when there is nothing on the way.
LEMMA AnswerKeeps ==
  ASSUME HInv, Answer
  PROVE  HInv'
  <1>1. HTyped /\ inbox # "none" /\ inbox \in {"hello", "auth", "request"}
    BY DEF HInv, HTyped, Answer
  <1>2. /\ ~Eating /\ event = "none"
        /\ \/ pc = "greet" /\ inbox = "hello" /\ Asked("hello", 2)
           \/ pc = "reply" /\ inbox = "auth" /\ Asked("auth", 2)
           \/ pc = "head" /\ inbox = "request" /\ Asked("request", 4)
        /\ need + Len(buf) = Deciding(inbox)
        /\ Unread = <<>> /\ spoken = <<>> /\ verdict = Undecided
    <2>1. pc \notin {"hello", "auth", "request", "relay", "register", "done", "failed", "socket"}
          /\ ~Eating
      BY <1>1 DEF HInv, Fresh, Agreed
    <2>2. pc # "again" /\ pc # "len" /\ pc # "addr" /\ event = "none"
      BY <1>1, <2>1 DEF HInv, AtLength, AtAddress, ToCome
    <2>3. pc \in {"greet", "reply", "head"}
      BY <1>1, <2>1, <2>2 DEF HTyped, Steps
    <2>4. CASE pc = "greet"
      <3>1. Asked("hello", 2)
        BY <2>4 DEF HInv
      <3> QED
        BY <1>1, <2>1, <2>2, <2>4, <3>1 DEF Asked, Deciding
    <2>5. CASE pc = "reply"
      <3>1. Asked("auth", 2)
        BY <2>5 DEF HInv
      <3> QED
        BY <1>1, <2>1, <2>2, <2>5, <3>1 DEF Asked, Deciding
    <2>6. CASE pc = "head"
      <3>1. Asked("request", 4)
        BY <2>6 DEF HInv
      <3> QED
        BY <1>1, <2>1, <2>2, <2>6, <3>1 DEF Asked, Deciding
    <2> QED
      BY <2>3, <2>4, <2>5, <2>6
  <1>3. PICK a \in Answers(inbox) :
           /\ stream' = stream \o a
           /\ verdict' = IF Decides(inbox, a) = Undecided THEN Decides(inbox, a)
                         ELSE [Decides(inbox, a) EXCEPT !.at = @ + taken + Len(stream)]
    BY Zenon DEF Answer
  <1>4. /\ inbox' = "none"
        /\ UNCHANGED <<kind, pc, cmd, refused, buf, need, waited, event>>
        /\ UNCHANGED <<running, closed, taken, spoken>>
    BY DEF Answer, worker
  <1>5. buf = <<>> /\ stream = <<>> /\ taken \in Nat
    <2>1. buf \in Seq(Byte) /\ stream \in Seq(Byte) /\ taken \in Nat
      BY <1>1 DEF HTyped
    <2>2. Len(buf \o stream) = Len(buf) + Len(stream)
      BY <2>1, ConcatProperties
    <2>3. Len(buf \o stream) = 0
      BY <1>2 DEF Unread
    <2>4. Len(buf) \in Nat /\ Len(stream) \in Nat
      BY <2>1
    <2>5. Len(buf) = 0 /\ Len(stream) = 0
      BY <2>2, <2>3, <2>4
    <2> QED
      BY <2>1, <2>5
  <1>6. a \in Seq(Byte) /\ stream' = a
    <2>1. a \in Seq(Byte)
      BY <1>1, AnswersType
    <2>2. <<>> \o a = a
      BY <2>1, ConcatEmptySeq
    <2> QED
      BY <1>3, <1>5, <2>1, <2>2
  <1>7. verdict' = Judged(inbox, a, taken - Len(buf))
    <2> DEFINE d == Decides(inbox, a)
    <2>1. d \in [what : {"none", "auth", "protocol", "granted"}, at : Nat]
      BY <1>1, AnswersType
    <2>2. verdict' = IF d = Undecided THEN d ELSE [d EXCEPT !.at = @ + taken + Len(stream)]
      BY <1>3, Zenon
    <2>3. Judged(inbox, a, taken - Len(buf))
            = IF d = Undecided THEN d ELSE [d EXCEPT !.at = @ + (taken - Len(buf))]
      BY Zenon DEF Judged
    <2> HIDE DEF d
    <2>4. Len(buf) = 0 /\ Len(stream) = 0
      BY <1>5
    <2>5. d.at + taken + Len(stream) = d.at + (taken - Len(buf))
      BY <1>5, <2>1, <2>4
    <2>6. [d EXCEPT !.at = @ + taken + Len(stream)] = [d EXCEPT !.at = @ + (taken - Len(buf))]
      BY <2>1, <2>5
    <2> QED
      BY <2>2, <2>3, <2>6
  <1>8. HTyped'
    <2>1. verdict' \in [what : {"none", "auth", "protocol", "granted"}, at : Int]
      <3>1. taken - Len(buf) \in Int
        BY <1>5
      <3> QED
        BY <1>1, <1>7, <3>1, JudgedIs
    <2> QED
      BY <1>1, <1>4, <1>6, <2>1 DEF HTyped
  <1>9. ASSUME NEW msg \in {"hello", "auth", "request"}, inbox = msg, NEW n, need + Len(buf) = n
        PROVE  Asked(msg, n)'
    <2>1. Unread' = a
      <3>1. <<>> \o a = a
        BY <1>6, ConcatEmptySeq
      <3> QED
        BY <1>4, <1>5, <1>6, <3>1 DEF Unread
    <2>2. a \o FlattenSeq(spoken) = a
      BY <1>2, <1>6, FlattenEmpty, ConcatEmptySeq
    <2>3. Decides(msg, a)' = Decides(msg, a)
      BY <1>4 DEF Decides
    <2>4. Judged(msg, a, taken - Len(buf))' = Judged(msg, a, taken - Len(buf))
      BY <1>4, <2>3 DEF Judged
    <2>5. Answered(msg, a)'
      BY <1>2, <1>4, <1>7, <1>9, <2>1, <2>2, <2>4 DEF Answered
    <2>6. a \in Answers(msg)
      BY <1>9
    <2> QED
      BY <1>4, <1>9, <2>5, <2>6 DEF Asked
  <1>10. Eating' = Eating
    BY <1>4 DEF Eating
  <1>11. CASE pc = "greet"
    <2>1. Asked("hello", 2)'
      BY <1>2, <1>9, <1>11 DEF Asked
    <2> QED
      BY <1>2, <1>4, <1>8, <1>10, <1>11, <2>1 DEF HInv
  <1>12. CASE pc = "reply"
    <2>1. Asked("auth", 2)'
      BY <1>2, <1>9, <1>12 DEF Asked
    <2> QED
      BY <1>2, <1>4, <1>8, <1>10, <1>12, <2>1 DEF HInv
  <1>13. CASE pc = "head"
    <2>1. Asked("request", 4)'
      BY <1>2, <1>9, <1>13 DEF Asked
    <2> QED
      BY <1>2, <1>4, <1>8, <1>10, <1>13, <2>1 DEF HInv
  <1> QED
    BY <1>2, <1>11, <1>12, <1>13

\* Datagrams come behind what has been sent.
LEMMA SpeakKeeps ==
  ASSUME HInv, Speak
  PROVE  HInv'
  <1>1. PICK p \in Payloads : stream' = stream \o p /\ spoken' = Append(spoken, p)
    BY Zenon DEF Speak
  <1>2. /\ UNCHANGED <<kind, pc, cmd, refused, buf, need, waited, event>>
        /\ UNCHANGED <<running, inbox, closed, taken, verdict>>
        /\ verdict.what = "granted" /\ cmd # 3 /\ ~closed
    BY DEF Speak, worker
  <1>3. /\ HTyped /\ buf \in Seq(Byte) /\ stream \in Seq(Byte) /\ spoken \in Seq(Payloads)
        /\ spoken \in Seq(Seq(Byte)) /\ p \in Seq(Byte)
    <2>1. HTyped /\ buf \in Seq(Byte) /\ stream \in Seq(Byte) /\ spoken \in Seq(Payloads)
      BY DEF HInv, HTyped
    <2>2. <<p>> \in Seq(Payloads) /\ 1 \in 1..Len(<<p>>) /\ <<p>>[1] = p
      OBVIOUS
    <2>3. p \in Seq(Byte)
      BY <2>2, FramesOfServer
    <2> QED
      BY <2>1, <2>3, FramesOfServer
  <1>4. stream' \in Seq(Byte) /\ spoken' \in Seq(Payloads) /\ spoken' # <<>>
    BY <1>1, <1>3, ConcatProperties, AppendProperties
  <1>5. HTyped'
    BY <1>2, <1>3, <1>4 DEF HTyped
  <1> DEFINE F == FlattenSeq(spoken)
             G == FlattenSeq(spoken')
             u == Unread
             v == Unread'
  <1>6. F \in Seq(Byte) /\ G = F \o p
    BY <1>1, <1>3, FlattenType, FlattenAppend
  <1>7. u \in Seq(Byte) /\ v = u \o p
    <2>1. buf \in Seq(Byte) /\ stream \in Seq(Byte) /\ p \in Seq(Byte)
      BY <1>3
    <2>2. (buf \o stream) \o p = buf \o (stream \o p)
      BY <2>1, Associative
    <2>3. v = buf \o (stream \o p)
      BY <1>1, <1>2 DEF Unread
    <2>4. buf \o stream \in Seq(Byte)
      BY <2>1, ConcatProperties
    <2> QED
      BY <2>2, <2>3, <2>4 DEF Unread
  <1> HIDE DEF F, G, u, v
  <1>8. verdict # Undecided
    BY <1>2 DEF Undecided
  <1>9. ASSUME NEW msg \in {"hello", "auth", "request"}, NEW n, Asked(msg, n)
        PROVE  Asked(msg, n)'
    <2>1. inbox = "none" /\ \E a \in Answers(msg) : Answered(msg, a)
      BY <1>8, <1>9 DEF Asked
    <2>2. PICK a \in Answers(msg) : Answered(msg, a)
      BY <2>1
    <2>3. Decides(msg, a)' = Decides(msg, a)
      BY <1>2 DEF Decides
    <2>4. Judged(msg, a, taken - Len(buf))' = Judged(msg, a, taken - Len(buf))
      BY <1>2, <2>3 DEF Judged
    <2>5. u = a \o F /\ verdict = Judged(msg, a, taken - Len(buf))
      BY <2>2 DEF Answered, u, F
    <2>6. v = a \o G
      <3>1. a \in Seq(Byte) /\ F \in Seq(Byte) /\ p \in Seq(Byte)
        BY <1>3, <1>6, AnswersType
      <3>2. (a \o F) \o p = a \o (F \o p)
        BY <3>1, Associative
      <3> QED
        BY <1>6, <1>7, <2>5, <3>2
    <2>7. Answered(msg, a)'
      BY <1>2, <2>4, <2>5, <2>6 DEF Answered, v, G
    <2>8. (need + Len(buf) = n)'
      BY <1>2, <1>9 DEF Asked
    <2> QED
      BY <1>2, <2>1, <2>7, <2>8 DEF Asked
  <1>10. ASSUME NEW k \in Nat, NEW n, ToCome(k, n) PROVE ToCome(k, n)'
    <2>1. k <= Len(u) /\ Rest(u, k) = F /\ inbox = "none" /\ verdict.at = taken + n
      BY <1>10 DEF ToCome, u, F
    <2>2. k \in 0..Len(u) /\ Len(v) = Len(u) + Len(p) /\ Len(u) \in Nat /\ Len(p) \in Nat
      BY <1>3, <1>7, <2>1, ConcatProperties
    <2>3. Rest(v, k) = Rest(u, k) \o p
      BY <1>3, <1>7, <2>2, RestOfConcat
    <2>4. k <= Len(v)
      BY <2>1, <2>2
    <2> QED
      BY <1>2, <1>6, <2>1, <2>3, <2>4 DEF ToCome, v, G
  <1>11. Eating' = Eating
    BY <1>2 DEF Eating
  <1>12. AtLength => AtLength'
    <2>1. CASE Eating
      BY <1>2, <1>11, <2>1 DEF AtLength
    <2>2. CASE u # <<>> /\ ToCome(u[1] + 3, need + u[1] + 2)
      <3>1. u[1] \in Nat
        <4>1. u[1] \in Byte
          BY <1>7, <2>2
        <4> QED
          BY <4>1, ByteIs
      <3>2. v # <<>> /\ v[1] = u[1]
        <4>1. /\ Len(v) = Len(u) + Len(p)
              /\ \A i \in 1..(Len(u) + Len(p)) : v[i] = IF i <= Len(u) THEN u[i] ELSE p[i - Len(u)]
          BY <1>3, <1>7, ConcatProperties
        <4>2. Len(u) \in Nat /\ Len(p) \in Nat /\ Len(u) # 0
          BY <1>3, <1>7, <2>2
        <4>3. 1 \in 1..(Len(u) + Len(p)) /\ 1 <= Len(u) /\ Len(v) # 0
          BY <4>1, <4>2
        <4> QED
          BY <4>1, <4>3
      <3>3. PICK k \in Nat : k = u[1]
        BY <3>1
      <3>4. ToCome(k + 3, need + k + 2)'
        <4>1. PICK n : n = need + k + 2
          OBVIOUS
        <4>2. ToCome(k + 3, n) /\ k + 3 \in Nat
          BY <2>2, <3>3, <4>1
        <4>3. ToCome(k + 3, n)'
          BY <1>10, <4>2
        <4>4. need' + k + 2 = n
          BY <1>2, <4>1
        <4> QED
          BY <4>3, <4>4
      <3>5. need' = need /\ v[1] = k
        BY <1>2, <3>2, <3>3
      <3>6. (Unread # <<>> /\ ToCome(Unread[1] + 3, need + Unread[1] + 2))'
        BY <3>2, <3>4, <3>5 DEF v
      <3> QED
        BY <1>2, <3>6 DEF AtLength
    <2> QED
      BY <2>1, <2>2 DEF AtLength, u
  <1>13. AtAddress => AtAddress'
    <2>1. CASE Eating
      BY <1>11, <2>1 DEF AtAddress
    <2>2. CASE ToCome(need + Len(buf), need)
      <3>1. need + Len(buf) \in Nat
        BY <1>3 DEF HTyped
      <3>2. ToCome(need + Len(buf), need)'
        BY <1>2, <1>10, <2>2, <3>1
      <3> QED
        BY <1>2, <3>2 DEF AtAddress
    <2> QED
      BY <2>1, <2>2 DEF AtAddress
  <1>14. Agreed => Agreed'
    BY <1>2 DEF Agreed
  <1>15. stream = F => stream' = G
    BY <1>1, <1>6
  <1>16. ~Fresh
    BY <1>8 DEF Fresh
  <1>17. pc = "socket" => refused
    BY <1>8 DEF HInv
  <1>18. pc # "failed" /\ pc \notin {"hello", "auth", "request"}
    BY <1>2, <1>16 DEF HInv
  <1>19. /\ pc = "greet" => Asked("hello", 2)'
         /\ pc = "reply" => Asked("auth", 2)'
         /\ pc = "head" => Asked("request", 4)'
    BY <1>9 DEF HInv
  <1>20. /\ pc = "len" => AtLength'
         /\ pc = "addr" => AtAddress'
         /\ pc \in {"relay", "register"} => Agreed' /\ (stream = FlattenSeq(spoken))'
         /\ pc = "done" => Agreed'
    BY <1>12, <1>13, <1>14, <1>15 DEF HInv, F, G
  <1> QED
    BY <1>2, <1>5, <1>11, <1>17, <1>18, <1>19, <1>20 DEF HInv

\* Every step of the negotiation.
LEMMA HNextKeeps ==
  ASSUME HInv, HNext
  PROVE  HInv'
  BY WorkerKeeps, AnswerKeeps, SpeakKeeps, HangUpKeeps, StopKeeps DEF HNext, Server

\* Nothing the engine does is said in the negotiation: it reads on from where
\* the worker has stopped.
LEMMA HInvAfterReading ==
  ASSUME HInv, pc = "done", stream' \in Seq(Byte),
         UNCHANGED <<worker, running, inbox, closed, taken, verdict, spoken>>
  PROVE  HInv'
  <1>1. /\ UNCHANGED <<kind, pc, cmd, refused, buf, need, waited, event>>
        /\ UNCHANGED <<running, inbox, closed, taken, verdict, spoken>>
    BY DEF worker
  <1>2. HTyped'
    BY <1>1 DEF HInv, HTyped
  <1>3. Agreed' = Agreed /\ Eating' = Eating
    BY <1>1 DEF Agreed, Eating
  <1> QED
    BY <1>1, <1>2, <1>3 DEF HInv

\* Steps that do not touch the negotiation.
LEMMA HInvStays ==
  ASSUME HInv, UNCHANGED hvars
  PROVE  HInv'
  BY StillKeeps DEF hvars, server, HInv, HTyped

\* The negotiation begins with nothing said.
LEMMA HInvAtFirst ==
  ASSUME HInit
  PROVE  HInv
  <1>1. Undecided \in [what : {"none", "auth", "protocol", "granted"}, at : Int]
    BY DEF Undecided
  <1>2. kind \in Kinds /\ cmd \in {1, 3, 4}
    BY HandshakeAssumption DEF HInit, Command, AllKinds
  <1>3. HTyped
    <2>1. 0 \in 0..257 /\ 0 \in 0..(Slices - 1) /\ 0 \in Nat
      BY HandshakeAssumption
    <2>2. <<>> \in Seq(Byte) /\ <<>> \in Seq(Payloads)
      OBVIOUS
    <2> QED
      BY <1>1, <1>2, <2>1, <2>2 DEF HInit, HTyped, Steps
  <1> QED
    BY <1>3 DEF HInit, HInv, Eating

\* The negotiation alone: whose fault a failure was.
LEMMA HInvBlames ==
  ASSUME HInv
  PROVE  BlameIsRight
  <1>1. CASE pc = "done"
    BY <1>1 DEF HInv, Agreed, BlameIsRight, Settled
  <1>2. CASE pc = "failed"
    BY <1>2 DEF HInv
  <1>3. CASE pc \notin {"done", "failed"}
    BY <1>3 DEF HInv, BlameIsRight
  <1> QED
    BY <1>1, <1>2, <1>3

-----------------------------------------------------------------------------
(* The engine's invariant.                                                  *)

\* n of the server's frames are handed on, and the next begins with what has
\* been read of it.
Reads(n) ==
    /\ handed = Bodies(spoken, n)
    /\ over = "no" => Header(want) \o rx \o stream = FlattenSeq(Rest(spoken, n))

\* The types of the engine's part.
ETyped ==
    /\ rx \in Seq(Byte) /\ Len(rx) <= RxCap /\ want \in None..(RxCap - 2)
    /\ tx \in Seq(Nat) /\ Len(tx) <= TxCap /\ txOff \in 0..Len(tx)
    /\ sent \in Seq(Seq(Nat)) /\ onWire \in Seq(Nat)
    /\ over \in {"no", "eof", "violation", "stuck"}

\* Before the end of the negotiation the engine has not begun.
Idle == rx = <<>> /\ want = None /\ handed = <<>> /\ over = "no"

\* The whole conversation, and the invariant that is proved below.
RInv ==
    /\ HInv /\ ETyped
    /\ pc # "done" => Idle
    /\ pc = "done" => \E n \in 0..Len(spoken) : Reads(n)
    /\ RequestsWhole /\ OnlyServerEnds

\* So does the conversation.
LEMMA RInvAtFirst ==
  ASSUME Init
  PROVE  RInv
  <1>1. HInv /\ pc # "done" /\ Idle
    BY HInvAtFirst DEF Init, HInit, Idle
  <1>2. ETyped
    <2>1. <<>> \in Seq(Byte) /\ <<>> \in Seq(Nat) /\ <<>> \in Seq(Seq(Nat)) /\ Len(<<>>) = 0
      OBVIOUS
    <2>2. RxCap \in Nat /\ TxCap \in Nat /\ None \in None..(RxCap - 2) /\ 0 \in 0..0
      BY RelayAssumption DEF None
    <2> QED
      BY <2>1, <2>2 DEF Init, ETyped
  <1>3. RequestsWhole
    <2>1. Rest(<<>>, 0) = <<>>
      <3>1. <<>> \in Seq(Nat)
        OBVIOUS
      <3> QED
        BY <3>1, RestOfAll
    <2>2. <<>> \o <<>> = <<>>
      OBVIOUS
    <2> QED
      BY <2>1, <2>2, FlattenEmpty DEF Init, RequestsWhole
  <1>4. OnlyServerEnds
    BY <1>1 DEF Idle, OnlyServerEnds
  <1> QED
    BY <1>1, <1>2, <1>3, <1>4 DEF RInv

\* Only a session that is handed over has ended well.
LEMMA OnlyRegister ==
  ASSUME HNext, pc # "done", pc' = "done"
  PROVE  Register
  <1> USE DEF Fail, Unreachable, GoOn, Await
  <1>1. ~OpenSocket
    BY DEF OpenSocket
  <1>2. ~Hello /\ ~Auth /\ ~Request
    BY DEF Hello, Auth, Request, SendAndAwait
  <1>3. ~Greet
    <2>1. Classify(buf) \in {"not_socks5", "no_auth", "need_auth", "no_method"}
      BY DEF Classify
    <2> QED
      BY <2>1 DEF Greet
  <1>4. ~AuthReply
    BY DEF AuthReply
  <1>5. ~ReplyHead
    BY DEF ReplyHead, ReadBnd
  <1>6. ~DomainLen /\ ~Addr /\ ~Again /\ ~RelaySocket
    BY DEF DomainLen, Addr, Again, RelaySocket
  <1>7. ~Recv /\ ~RecvEof /\ ~WaitSlice
    BY DEF Recv, RecvEof, WaitSlice
  <1>8. ~Server /\ ~Stop
    BY DEF Server, Answer, Speak, HangUp, Stop, worker
  <1> QED
    BY <1>1, <1>2, <1>3, <1>4, <1>5, <1>6, <1>7, <1>8, Zenon DEF HNext, Worker

\* A step of the negotiation leaves the engine's part alone.
LEMMA EngineStays ==
  ASSUME RInv, UNCHANGED engine
  PROVE  /\ ETyped' /\ RequestsWhole' /\ Idle' = Idle
         /\ UNCHANGED <<rx, want, handed, over>>
  <1>1. /\ rx' = rx /\ want' = want /\ handed' = handed /\ tx' = tx /\ txOff' = txOff
        /\ sent' = sent /\ onWire' = onWire /\ over' = over
    BY DEF engine
  <1>2. ETyped'
    BY <1>1 DEF RInv, ETyped
  <1>3. RequestsWhole'
    BY <1>1 DEF RInv, RequestsWhole
  <1> QED
    BY <1>1, <1>2, <1>3 DEF Idle

\* When the session is handed over, the engine's first byte is the first one
\* behind the reply.
LEMMA RegisterReads ==
  ASSUME RInv, Register, UNCHANGED engine, pc' = "done", HInv'
  PROVE  RInv'
  <1>1. HInv /\ pc = "register" /\ stream = FlattenSeq(spoken) /\ Idle
    BY DEF RInv, HInv, Register
  <1>2. stream' = stream /\ spoken' = spoken
    BY DEF Register, Unreachable, Fail, server
  <1>3. ETyped' /\ RequestsWhole' /\ Idle'
    BY <1>1, EngineStays
  <1>4. spoken' \in Seq(Payloads) /\ stream' \in Seq(Byte)
    BY DEF HInv, HTyped
  <1>5. Reads(0)'
    <2>1. Bodies(spoken', 0) = <<>> /\ Rest(spoken', 0) = spoken'
      BY <1>4, BodiesOfNone, RestOfAll
    <2>2. Header(None) \o <<>> \o stream' = stream'
      <3>1. <<>> \o stream' = stream' /\ <<>> \o <<>> = <<>>
        BY <1>4, ConcatEmptySeq
      <3> QED
        BY <3>1 DEF Header
    <2> QED
      BY <1>1, <1>2, <1>3, <2>1, <2>2 DEF Reads, Idle
  <1>6. 0 \in 0..Len(spoken')
    BY <1>4
  <1>7. OnlyServerEnds'
    BY <1>3 DEF Idle, OnlyServerEnds
  <1> QED
    BY <1>3, <1>5, <1>6, <1>7 DEF RInv

\* The length that was read, as bytes.
LEMMA HeaderType ==
  ASSUME NEW cap, NEW w \in None..cap
  PROVE  Header(w) \in Seq(Nat)
  <1>1. CASE w = None
    BY <1>1 DEF Header
  <1>2. CASE w # None
    <2>1. w \in Nat
      BY <1>2 DEF None
    <2>2. w \div 256 \in Nat /\ w % 256 \in Nat
      BY <2>1, TwoBytes
    <2> QED
      BY <1>2, <2>2 DEF Header
  <1> QED
    BY <1>1, <1>2

\* More frames of the server's change nothing for those before them.
LEMMA SpeakReads ==
  ASSUME RInv, pc = "done", NEW p \in Payloads,
         stream' = stream \o p, spoken' = Append(spoken, p),
         NEW n \in 0..Len(spoken), Reads(n), UNCHANGED <<rx, want, handed, over>>
  PROVE  n \in 0..Len(spoken') /\ Reads(n)'
  <1>1. /\ spoken \in Seq(Payloads) /\ stream \in Seq(Byte) /\ rx \in Seq(Byte)
        /\ want \in None..(RxCap - 2)
    BY DEF RInv, HInv, HTyped, ETyped
  <1>2. p \in Seq(Byte) /\ p \in Seq(Nat) /\ <<p>> \in Seq(Payloads)
    <2>1. <<p>> \in Seq(Payloads) /\ 1 \in 1..Len(<<p>>) /\ <<p>>[1] = p
      OBVIOUS
    <2>2. p \in Seq(Byte)
      BY <2>1, FramesOfServer
    <2> QED
      BY <2>1, <2>2, BytesAreNat
  <1> DEFINE s == spoken
             t == spoken'
  <1>3. /\ t \in Seq(Payloads) /\ Len(t) = Len(s) + 1 /\ t[Len(s) + 1] = p
        /\ \A i \in 1..Len(s) : t[i] = s[i]
    BY <1>1, AppendProperties
  <1>4. t = s \o <<p>>
    OBVIOUS
  <1>5. n \in 0..Len(t) /\ n \in 0..Len(s)
    BY <1>1, <1>3
  <1>6. Bodies(t, n) = Bodies(s, n)
    <2>1. Bodies(t, n) \in Seq(Seq(Byte)) /\ Len(Bodies(t, n)) = n
          /\ \A i \in 1..n : Bodies(t, n)[i] = Rest(t[i], 2)
      BY <1>3, <1>5, BodiesAre
    <2>2. Bodies(s, n) \in Seq(Seq(Byte)) /\ Len(Bodies(s, n)) = n
          /\ \A i \in 1..n : Bodies(s, n)[i] = Rest(s[i], 2)
      BY <1>1, <1>5, BodiesAre
    <2>3. \A i \in 1..n : t[i] = s[i]
      BY <1>3, <1>5
    <2> HIDE DEF s, t
    <2> QED
      BY <2>1, <2>2, <2>3, SeqEqual
  <1> DEFINE r == Rest(s, n)
  <1>7. Rest(t, n) = Append(r, p) /\ r \in Seq(Seq(Nat))
    <2>1. Rest(s \o <<p>>, n) = Rest(s, n) \o <<p>>
      BY <1>1, <1>2, <1>5, RestOfConcat
    <2>2. r \in Seq(Payloads)
      BY <1>1, <1>5, RestIs
    <2>3. r \o <<p>> = Append(r, p)
      BY <2>2
    <2>4. r \in Seq(Seq(Nat))
      BY <2>2, FramesOfServer
    <2> QED
      BY <1>4, <2>1, <2>3, <2>4
  <1>8. FlattenSeq(Rest(t, n)) = FlattenSeq(r) \o p
    <2> HIDE DEF r
    <2> QED
      BY <1>2, <1>7, FlattenAppend
  <1>9. over = "no" => (Header(want) \o rx) \o (stream \o p) = FlattenSeq(Rest(t, n))
    <2> SUFFICES ASSUME over = "no"
                 PROVE  (Header(want) \o rx) \o (stream \o p) = FlattenSeq(Rest(t, n))
      OBVIOUS
    <2> DEFINE h == Header(want) \o rx
    <2>1. h \o stream = FlattenSeq(r)
      BY DEF Reads
    <2>2. h \in Seq(Nat)
      <3>1. Header(want) \in Seq(Nat)
        BY <1>1, HeaderType
      <3>2. rx \in Seq(Nat)
        BY <1>1, BytesAreNat
      <3> QED
        BY <3>1, <3>2, ConcatProperties
    <2>3. stream \in Seq(Nat)
      BY <1>1, BytesAreNat
    <2> HIDE DEF h, r
    <2>4. (h \o stream) \o p = h \o (stream \o p)
      BY <1>2, <2>2, <2>3, Associative, SMTT(20)
    <2> QED
      BY <1>8, <2>1, <2>4 DEF h
  <1>10. handed = Bodies(s, n)
    BY DEF Reads
  <1> QED
    BY <1>5, <1>6, <1>9, <1>10 DEF Reads

\* Worker, server and stop.
LEMMA HNextRInv ==
  ASSUME RInv, HNext, UNCHANGED engine
  PROVE  RInv'
  <1>1. HInv'
    BY HNextKeeps DEF RInv
  <1>2. /\ ETyped' /\ RequestsWhole' /\ Idle' = Idle
        /\ UNCHANGED <<rx, want, handed, over>>
    BY EngineStays
  <1>3. CASE pc # "done"
    <2>1. CASE pc' = "done"
      BY <1>1, <1>3, <2>1, OnlyRegister, RegisterReads
    <2>2. CASE pc' # "done"
      <3>1. Idle'
        BY <1>2, <1>3 DEF RInv
      <3>2. OnlyServerEnds'
        BY <3>1 DEF Idle, OnlyServerEnds
      <3> QED
        BY <1>1, <1>2, <2>2, <3>1, <3>2 DEF RInv
    <2> QED
      BY <2>1, <2>2
  <1>4. CASE pc = "done"
    <2>1. PICK n \in 0..Len(spoken) : Reads(n)
      BY <1>4 DEF RInv
    <2>2. spoken \in Seq(Payloads) /\ inbox = "none"
      BY <1>4 DEF RInv, HInv, HTyped, Agreed
    <2>3. ~Worker
      <3> USE <1>4
      <3>1. ~OpenSocket /\ ~Hello /\ ~Auth /\ ~Request /\ ~Greet /\ ~AuthReply /\ ~ReplyHead
        BY DEF OpenSocket, Hello, Auth, Request, Greet, AuthReply, ReplyHead, Got
      <3>2. ~DomainLen /\ ~Addr /\ ~Again /\ ~RelaySocket /\ ~Register
        BY DEF DomainLen, Addr, Again, RelaySocket, Register, Got
      <3>3. ~Recv /\ ~RecvEof /\ ~WaitSlice
        BY DEF Recv, RecvEof, WaitSlice, Reading
      <3> QED
        BY <3>1, <3>2, <3>3, Zenon DEF Worker
    <2>4. ~Answer
      BY <2>2 DEF Answer
    <2>5. CASE Speak
      <3>1. PICK p \in Payloads : stream' = stream \o p /\ spoken' = Append(spoken, p)
        BY <2>5, Zenon DEF Speak
      <3>2. n \in 0..Len(spoken') /\ Reads(n)'
        BY <1>2, <1>4, <2>1, <3>1, SpeakReads
      <3>3. pc' = "done" /\ closed' = closed
        BY <1>4, <2>5 DEF Speak, worker
      <3>4. \A i \in DOMAIN spoken : i \in DOMAIN spoken' /\ spoken'[i] = spoken[i]
        <4>1. p \in Payloads
          OBVIOUS
        <4> QED
          BY <2>2, <3>1, AppendProperties
      <3>5. OnlyServerEnds'
        <4>1. OnlyServerEnds
          BY DEF RInv
        <4>2. (\E i \in DOMAIN spoken : ~Legal(spoken[i]))
                => \E i \in DOMAIN spoken' : ~Legal(spoken'[i])
          BY <3>4, Zenon
        <4> QED
          BY <1>2, <3>3, <4>1, <4>2 DEF OnlyServerEnds
      <3> QED
        BY <1>1, <1>2, <3>2, <3>3, <3>5 DEF RInv
    <2>6. CASE HangUp \/ Stop
      <3>1. /\ pc' = pc /\ stream' = stream /\ spoken' = spoken /\ (closed => closed')
        BY <2>6 DEF HangUp, Stop, worker, server
      <3>2. Reads(n)'
        BY <1>2, <2>1, <3>1 DEF Reads
      <3>3. OnlyServerEnds'
        BY <1>2, <3>1 DEF RInv, OnlyServerEnds
      <3> QED
        BY <1>1, <1>2, <1>4, <3>1, <3>2, <3>3 DEF RInv
    <2> QED
      BY <2>3, <2>4, <2>5, <2>6 DEF HNext, Server
  <1> QED
    BY <1>3, <1>4

-----------------------------------------------------------------------------
(* The engine's reads.                                                      *)

\* Three sequences, end to end.
Chained(x, y, z) == (x \o y) \o z = x \o (y \o z)

\* It does not matter where they are put together.
LEMMA BytesChain == \A x, y, z \in Seq(Nat) : Chained(x, y, z)
  <1> SUFFICES ASSUME NEW x \in Seq(Nat), NEW y \in Seq(Nat), NEW z \in Seq(Nat)
               PROVE  Chained(x, y, z)
    BY Zenon
  <1>1. (x \o y) \o z = x \o (y \o z)
    BY Associative, SMTT(20)
  <1> QED
    BY <1>1, Zenon DEF Chained

\* Four of them: what has been read may be counted to either side.
Regrouped(h, r, x, y) == (h \o (r \o x)) \o y = (h \o r) \o (x \o y)

\* Nor for four.
LEMMA Regroup == \A h, r, x, y \in Seq(Nat) : Regrouped(h, r, x, y)
  <1> SUFFICES ASSUME NEW h \in Seq(Nat), NEW r \in Seq(Nat), NEW x \in Seq(Nat), NEW y \in Seq(Nat)
               PROVE  Regrouped(h, r, x, y)
    BY Zenon
  <1>1. h \o r \in Seq(Nat)
    BY ConcatProperties
  <1>2. Chained(h \o r, x, y) /\ Chained(h, r, x)
    BY <1>1, BytesChain, Zenon
  <1> QED
    BY <1>2, Zenon DEF Chained, Regrouped

\* That many bytes come out of the stream, and what udp_tcp_consume makes of them is
\* right.
LEMMA ReadIsRight ==
  ASSUME RInv, Open, NEW n \in 0..Len(spoken), Reads(n),
         NEW taking \in 0..Least(RxCap - Len(rx), Len(stream)),
         NEW b, b = rx \o SubSeq(stream, 1, taking)
  PROVE  /\ b \in Seq(Byte) /\ Len(b) <= RxCap /\ Len(b) \in Nat
         /\ Rest(stream, taking) \in Seq(Byte)
         /\ Consume(want, b, RxCap - 2) \in Results(b, RxCap - 2)
         /\ Right(Consume(want, b, RxCap - 2), Rest(spoken, n), b, Rest(stream, taking))
         /\ Len(b) = RxCap => \/ Consume(want, b, RxCap - 2).bad
                              \/ Consume(want, b, RxCap - 2).off # 0
  <1>1. /\ rx \in Seq(Byte) /\ Len(rx) <= RxCap /\ want \in None..(RxCap - 2)
        /\ stream \in Seq(Byte) /\ spoken \in Seq(Payloads)
        /\ over = "no"
    BY DEF RInv, ETyped, HInv, HTyped, Open
  <1>2. Len(rx) \in Nat /\ Len(stream) \in Nat /\ RxCap \in Nat /\ RxCap - 2 \in Nat
    BY <1>1, RelayAssumption
  <1>3. taking \in 0..Len(stream) /\ Len(rx) + taking <= RxCap /\ taking \in Nat
    <2>1. Len(rx) <= RxCap
      BY <1>1
    <2> QED
      BY <1>2, <2>1 DEF Least
  <1> DEFINE x == SubSeq(stream, 1, taking)
             y == Rest(stream, taking)
             h == Header(want)
             p == Rest(spoken, n)
             F == FlattenSeq(p)
  <1>4. x \in Seq(Byte) /\ Len(x) = taking /\ x \o y = stream /\ y \in Seq(Byte)
    BY <1>1, <1>3, FirstAndRest, RestIs
  <1>5. h \in Seq(Nat)
    BY <1>1, HeaderType
  <1>6. (h \o rx) \o stream = F
    BY <1>1 DEF Reads
  <1>7. p \in Seq(Payloads)
    BY <1>1, RestIs
  <1>8. b = rx \o x
    OBVIOUS
  <1> HIDE DEF x, y, h, p, F
  <1>9. b \in Seq(Byte) /\ Len(b) = Len(rx) + taking
    BY <1>1, <1>4, <1>8, ConcatProperties
  <1>10. (h \o b) \o y = F
    <2>1. rx \in Seq(Nat) /\ x \in Seq(Nat) /\ y \in Seq(Nat)
      BY <1>1, <1>4, BytesAreNat
    <2>2. Regrouped(h, rx, x, y)
      BY <1>5, <2>1, Regroup, Zenon
    <2>3. (h \o (rx \o x)) \o y = (h \o rx) \o (x \o y)
      BY <2>2, Zenon DEF Regrouped
    <2> QED
      BY <1>4, <1>6, <1>8, <2>3, Zenon
  <1>11. y \in Seq(Nat)
    BY <1>4, BytesAreNat
  <1>12. Right(Consume(want, b, RxCap - 2), p, b, y)
    BY <1>1, <1>7, <1>9, <1>10, <1>11, ConsumeIsRight DEF h, F
  <1>13. Consume(want, b, RxCap - 2) \in Results(b, RxCap - 2)
    BY <1>1, <1>2, <1>9, ConsumeType
  <1>14. Len(b) <= RxCap /\ Len(b) \in Nat
    BY <1>2, <1>3, <1>9
  <1>15. Len(b) = RxCap => \/ Consume(want, b, RxCap - 2).bad
                           \/ Consume(want, b, RxCap - 2).off # 0
    <2> SUFFICES ASSUME Len(b) = RxCap
                 PROVE  Consume(want, b, RxCap - 2).bad \/ Consume(want, b, RxCap - 2).off # 0
      OBVIOUS
    <2>1. Len(b) >= RxCap - 2 + 2
      BY <1>2
    <2> QED
      BY <1>1, <1>2, <1>9, <2>1, ConsumeAdvances
  <1> QED
    BY <1>4, <1>9, <1>12, <1>13, <1>14, <1>15 DEF y, p

\* udp_tcp_read.
LEMMA UdpTcpReadRInv ==
  ASSUME RInv, UdpTcpRead
  PROVE  RInv'
  <1>1. Open /\ pc = "done" /\ over = "no"
    BY DEF UdpTcpRead, Open
  <1>2. PICK n \in 0..Len(spoken) : Reads(n)
    BY <1>1 DEF RInv
  <1>3. PICK taking \in 0..Least(RxCap - Len(rx), Len(stream)) :
           /\ stream' = Rest(stream, taking)
           /\ \/ /\ MeetsEof(taking)
                 /\ over' = "eof" /\ UNCHANGED <<rx, want, handed>>
              \/ LET filled == rx \o SubSeq(stream, 1, taking)
                     c      == Consume(want, filled, RxCap - 2)
                 IN  /\ handed' = handed \o c.frames
                     /\ rx' = Rest(filled, c.off) /\ want' = c.want
                     /\ over' = IF c.bad THEN "violation"
                                ELSE IF c.off = 0 /\ Len(filled) = RxCap THEN "stuck" ELSE "no"
    BY Zenon DEF UdpTcpRead
  <1>4. /\ UNCHANGED <<worker, running, inbox, closed, taken, verdict, spoken>>
        /\ UNCHANGED <<tx, txOff, sent, onWire>>
    BY DEF UdpTcpRead
  <1>5. PICK b : b = rx \o SubSeq(stream, 1, taking)
    OBVIOUS
  <1> DEFINE c == Consume(want, b, RxCap - 2)
             p == Rest(spoken, n)
             y == Rest(stream, taking)
  <1>6. /\ b \in Seq(Byte) /\ Len(b) <= RxCap /\ Len(b) \in Nat /\ y \in Seq(Byte)
        /\ c \in Results(b, RxCap - 2) /\ Right(c, p, b, y)
        /\ Len(b) = RxCap => c.bad \/ c.off # 0
    BY <1>1, <1>2, <1>5, ReadIsRight
  <1>7. \/ MeetsEof(taking) /\ over' = "eof" /\ UNCHANGED <<rx, want, handed>>
        \/ /\ handed' = handed \o c.frames
           /\ rx' = Rest(b, c.off) /\ want' = c.want
           /\ over' = IF c.bad THEN "violation"
                      ELSE IF c.off = 0 /\ Len(b) = RxCap THEN "stuck" ELSE "no"
    BY <1>3, <1>5, Zenon
  <1> HIDE DEF c
  <1>8. HInv'
    BY <1>1, <1>3, <1>4, <1>6, HInvAfterReading DEF RInv
  <1>9. pc' = "done" /\ closed' = closed /\ spoken' = spoken /\ stream' = y
    BY <1>1, <1>3, <1>4 DEF worker
  <1>10. RequestsWhole'
    BY <1>4 DEF RInv, RequestsWhole
  <1>11. /\ tx' \in Seq(Nat) /\ Len(tx') <= TxCap /\ txOff' \in 0..Len(tx')
         /\ sent' \in Seq(Seq(Nat)) /\ onWire' \in Seq(Nat)
    BY <1>4 DEF RInv, ETyped
  <1>12. CASE MeetsEof(taking) /\ over' = "eof" /\ UNCHANGED <<rx, want, handed>>
    <2>1. ETyped'
      BY <1>11, <1>12 DEF RInv, ETyped
    <2>2. Reads(n)'
      BY <1>2, <1>9, <1>12 DEF Reads
    <2>3. OnlyServerEnds'
      BY <1>9, <1>12 DEF MeetsEof, OnlyServerEnds
    <2> QED
      BY <1>2, <1>8, <1>9, <1>10, <2>1, <2>2, <2>3 DEF RInv
  <1>13. CASE /\ handed' = handed \o c.frames
              /\ rx' = Rest(b, c.off) /\ want' = c.want
              /\ over' = IF c.bad THEN "violation"
                         ELSE IF c.off = 0 /\ Len(b) = RxCap THEN "stuck" ELSE "no"
    <2>1. PICK k \in 0..Len(p) :
             /\ c.frames = Bodies(p, k)
             /\ c.bad  => k < Len(p) /\ ~Legal(p[k + 1])
             /\ ~c.bad => Header(c.want) \o Rest(b, c.off) \o y = FlattenSeq(Rest(p, k))
      BY <1>6, Zenon DEF Right
    <2>2. c.off \in 0..Len(b) /\ c.want \in None..(RxCap - 2) /\ c.bad \in BOOLEAN
      BY <1>6 DEF Results
    <2>3. spoken \in Seq(Payloads) /\ Len(spoken) \in Nat
      BY DEF RInv, HInv, HTyped
    <2>4. p \in Seq(Payloads) /\ Len(p) = Len(spoken) - n
          /\ \A i \in 1..(Len(spoken) - n) : p[i] = spoken[n + i]
      BY <2>3, RestIs
    <2>5. k \in 0..(Len(spoken) - n) /\ n + k \in 0..Len(spoken) /\ k \in Nat /\ n \in Nat
      BY <2>3, <2>4
    <2>6. handed' = Bodies(spoken, n + k)
      <3>1. handed = Bodies(spoken, n)
        BY <1>2 DEF Reads
      <3>2. Bodies(spoken, n) \o Bodies(Rest(spoken, n), k) = Bodies(spoken, n + k)
        BY <2>3, <2>5, BodiesOfMore
      <3> QED
        BY <1>13, <2>1, <3>1, <3>2
    <2>7. Rest(p, k) = Rest(spoken, n + k)
      BY <2>3, <2>5, RestOfRest
    <2> HIDE DEF p, y
    <2>8. over' # "stuck" /\ over' \in {"no", "violation"} /\ (over' = "no" => ~c.bad)
          /\ (over' = "violation" => c.bad)
      BY <1>6, <1>13, <2>2
    <2>9. ETyped'
      <3>1. rx' \in Seq(Byte) /\ Len(rx') = Len(b) - c.off
        BY <1>6, <1>13, <2>2, RestIs
      <3>2. Len(rx') <= RxCap
        <4>1. RxCap \in Nat /\ Len(b) \in Nat /\ Len(b) <= RxCap
          BY <1>6, RelayAssumption
        <4> QED
          BY <2>2, <3>1, <4>1
      <3> QED
        BY <1>11, <1>13, <2>2, <2>8, <3>1, <3>2 DEF ETyped
    <2>10. over' = "no" => Header(want') \o rx' \o stream' = FlattenSeq(Rest(spoken', n + k))
      BY <1>9, <1>13, <2>1, <2>7, <2>8
    <2>11. PICK m : m = n + k
      OBVIOUS
    <2>12. Reads(m)'
      BY <1>9, <2>6, <2>10, <2>11 DEF Reads
    <2>13. OnlyServerEnds'
      <3>1. ASSUME over' = "violation"
            PROVE  \E i \in DOMAIN spoken : ~Legal(spoken[i])
        <4>1. k < Len(p) /\ ~Legal(p[k + 1])
          BY <2>1, <2>8, <3>1
        <4>2. k + 1 \in 1..(Len(spoken) - n) /\ n + (k + 1) \in 1..Len(spoken)
          BY <2>3, <2>4, <2>5, <4>1
        <4>3. p[k + 1] = spoken[n + (k + 1)] /\ n + (k + 1) \in DOMAIN spoken
          BY <2>3, <2>4, <4>2
        <4> QED
          BY <4>1, <4>3
      <3> QED
        BY <1>9, <2>8, <3>1 DEF OnlyServerEnds
    <2> QED
      BY <1>8, <1>9, <1>10, <2>5, <2>9, <2>11, <2>12, <2>13 DEF RInv
  <1> QED
    BY <1>7, <1>12, <1>13

-----------------------------------------------------------------------------
(* The engine's writes.                                                     *)

\* What lies behind the first m, from the front of what is left.
LEMMA PartOfRest ==
  ASSUME NEW X, NEW s \in Seq(X), NEW m \in 0..Len(s), NEW k \in 0..(Len(s) - m)
  PROVE  SubSeq(s, m + 1, m + k) = SubSeq(Rest(s, m), 1, k)
  <1> DEFINE r == Rest(s, m)
             a == SubSeq(s, m + 1, m + k)
             z == SubSeq(r, 1, k)
  <1>1. /\ r \in Seq(X) /\ Len(r) = Len(s) - m
        /\ \A i \in 1..(Len(s) - m) : r[i] = s[m + i]
    BY RestIs
  <1>2. /\ a \in Seq(X) /\ Len(a) = k
        /\ \A i \in 1..k : a[i] = s[m + i]
    <2>1. m + 1 \in Int /\ m + k \in Int /\ \A i \in (m + 1)..(m + k) : s[i] \in X
      OBVIOUS
    <2>2. /\ a \in Seq(X) /\ Len(a) = IF m + 1 <= m + k THEN m + k - (m + 1) + 1 ELSE 0
          /\ \A i \in 1..(m + k - (m + 1) + 1) : a[i] = s[m + 1 + i - 1]
      BY <2>1, SubSeqProperties
    <2>3. \A i \in 1..k : i \in 1..(m + k - (m + 1) + 1) /\ m + 1 + i - 1 = m + i
      OBVIOUS
    <2> QED
      BY <2>2, <2>3
  <1> HIDE DEF r, a, z
  <1>3. k \in 0..Len(r)
    BY <1>1
  <1>4. z \in Seq(X) /\ Len(z) = k /\ \A i \in 1..k : z[i] = r[i]
    BY <1>1, <1>3, FirstAndRest DEF z
  <1>5. \A i \in 1..k : i \in 1..(Len(s) - m)
    OBVIOUS
  <1>6. \A i \in 1..k : a[i] = z[i]
    BY <1>1, <1>2, <1>4, <1>5, Zenon
  <1>7. a = z
    BY <1>2, <1>4, <1>6, SeqEqual
  <1> QED
    BY <1>7 DEF a, z, r

\* What waits, as a sequence of its own.
LEMMA Waiting ==
  ASSUME ETyped
  PROVE  /\ Rest(tx, txOff) \in Seq(Nat) /\ Len(Rest(tx, txOff)) = TxLen /\ TxLen \in Nat
         /\ tx \in Seq(Nat) /\ Len(tx) \in Nat /\ txOff \in 0..Len(tx) /\ TxCap \in Nat
  <1>1. tx \in Seq(Nat) /\ txOff \in 0..Len(tx)
    BY DEF ETyped
  <1>2. Rest(tx, txOff) \in Seq(Nat) /\ Len(Rest(tx, txOff)) = Len(tx) - txOff
    BY <1>1, RestIs
  <1> QED
    BY <1>1, <1>2, RelayAssumption DEF TxLen

\* A frame is bytes.
LEMMA FrameType ==
  ASSUME NEW n \in Nat, NEW k \in Nat
  PROVE  Frame([i \in 1..n |-> k]) \in Seq(Nat)
  <1> DEFINE d == [i \in 1..n |-> k]
             h == <<Len(d) \div 256, Len(d) % 256>>
  <1>1. d \in Seq(Nat) /\ Len(d) = n
    OBVIOUS
  <1>2. n \div 256 \in Nat /\ n % 256 \in Nat
    BY TwoBytes
  <1> HIDE DEF d
  <1>3. h \in Seq(Nat)
    BY <1>1, <1>2
  <1> HIDE DEF h
  <1>4. h \o d \in Seq(Nat)
    BY <1>1, <1>3, ConcatProperties
  <1> QED
    BY <1>4, Zenon DEF Frame, h, d

\* Wherever a frame is put, it comes behind what waits.
LEMMA PlacedBehind ==
  ASSUME ETyped, NEW f \in Seq(Nat), TxLen + Len(f) <= TxCap,
         tx' = Placed(f), txOff' = Len(Placed(f)) - TxLen - Len(f)
  PROVE  /\ tx' \in Seq(Nat) /\ Len(tx') <= TxCap /\ txOff' \in 0..Len(tx')
         /\ Rest(tx', txOff') = Rest(tx, txOff) \o f
  <1> DEFINE r == Rest(tx, txOff)
  <1>1. /\ r \in Seq(Nat) /\ Len(r) = TxLen /\ TxLen \in Nat /\ Len(f) \in Nat
        /\ tx \in Seq(Nat) /\ Len(tx) \in Nat /\ txOff \in 0..Len(tx) /\ TxCap \in Nat
    BY Waiting
  <1>2. TxLen = Len(tx) - txOff
    BY DEF TxLen
  <1> HIDE DEF r
  <1>3. CASE txOff + TxLen + Len(f) > TxCap
    <2>1. tx' = r \o f
      BY <1>3, Zenon DEF Placed, r
    <2>2. r \o f \in Seq(Nat) /\ Len(r \o f) = Len(r) + Len(f)
      BY <1>1, ConcatProperties
    <2>3. Placed(f) = r \o f
      BY <2>1, Zenon
    <2>4. txOff' = Len(tx') - TxLen - Len(f) /\ Len(tx') = TxLen + Len(f)
      BY <1>1, <2>2, <2>3
    <2>5. txOff' = 0 /\ Len(tx') <= TxCap /\ Len(tx') \in Nat
      BY <1>1, <2>4
    <2>6. tx' \in Seq(Nat)
      BY <2>1, <2>2
    <2>7. Rest(tx', 0) = tx'
      BY <2>6, RestOfAll
    <2> QED
      BY <2>1, <2>5, <2>6, <2>7 DEF r
  <1>4. CASE ~(txOff + TxLen + Len(f) > TxCap)
    <2>1. tx' = tx \o f /\ Placed(f) = tx \o f
      BY <1>4, Zenon DEF Placed
    <2>2. tx \o f \in Seq(Nat) /\ Len(tx \o f) = Len(tx) + Len(f)
      BY <1>1, ConcatProperties
    <2>3. txOff' = Len(tx') - TxLen - Len(f) /\ Len(tx') = Len(tx) + Len(f)
      BY <2>1, <2>2
    <2>4. txOff' = txOff /\ Len(tx') <= TxCap /\ txOff' \in 0..Len(tx')
      BY <1>1, <1>2, <1>4, <2>3
    <2>5. Rest(tx \o f, txOff) = Rest(tx, txOff) \o f
      BY <1>1, RestOfConcat
    <2> QED
      BY <2>1, <2>2, <2>4, <2>5
  <1> QED
    BY <1>3, <1>4

\* The engine's writes say nothing of what it reads.
LEMMA OnlyWrites ==
  ASSUME RInv, UNCHANGED <<hvars, rx, want, handed>>, ETyped', RequestsWhole',
         pc = "done", over' = over \/ (over' = "eof" /\ closed)
  PROVE  RInv'
  <1>1. /\ UNCHANGED hvars /\ rx' = rx /\ want' = want /\ handed' = handed
        /\ pc' = pc /\ stream' = stream /\ spoken' = spoken /\ closed' = closed
    BY DEF hvars, server, worker
  <1>2. HInv'
    BY <1>1, HInvStays DEF RInv
  <1>3. PICK n \in 0..Len(spoken) : Reads(n)
    BY DEF RInv
  <1>4. Reads(n)'
    BY <1>1, <1>3 DEF Reads
  <1>5. OnlyServerEnds'
    BY <1>1 DEF RInv, OnlyServerEnds
  <1> QED
    BY <1>1, <1>2, <1>3, <1>4, <1>5 DEF RInv

\* A datagram of the App.
LEMMA UdpTcpAppendRInv ==
  ASSUME RInv, NEW n \in Sizes, UdpTcpAppend(n)
  PROVE  RInv'
  <1> DEFINE f == Frame([i \in 1..n |-> Len(sent) + 1])
  <1>1. /\ ETyped /\ sent \in Seq(Seq(Nat)) /\ onWire \in Seq(Nat) /\ RequestsWhole
        /\ n \in Nat /\ Len(sent) + 1 \in Nat
    BY RelayAssumption DEF RInv, ETyped
  <1>2. f \in Seq(Nat)
    BY <1>1, FrameType
  <1>3. /\ pc = "done" /\ UNCHANGED <<hvars, rx, want, handed, onWire, over>>
        /\ \/ UNCHANGED <<tx, txOff, sent>>
           \/ /\ TxLen + Len(f) <= TxCap /\ tx' = Placed(f)
              /\ txOff' = Len(Placed(f)) - TxLen - Len(f) /\ sent' = Append(sent, f)
    BY Zenon DEF UdpTcpAppend, Open
  <1> HIDE DEF f
  <1>4. /\ UNCHANGED <<hvars, rx, want, handed>> /\ rx' = rx /\ want' = want
        /\ onWire' = onWire /\ over' = over
    BY <1>3
  <1>5. CASE UNCHANGED <<tx, txOff, sent>>
    <2>1. ETyped'
      BY <1>1, <1>4, <1>5 DEF ETyped
    <2>2. RequestsWhole'
      BY <1>1, <1>4, <1>5 DEF RequestsWhole
    <2> QED
      BY <1>3, <1>4, <2>1, <2>2, OnlyWrites
  <1>6. CASE /\ TxLen + Len(f) <= TxCap /\ tx' = Placed(f)
             /\ txOff' = Len(Placed(f)) - TxLen - Len(f) /\ sent' = Append(sent, f)
    <2>1. /\ tx' \in Seq(Nat) /\ Len(tx') <= TxCap /\ txOff' \in 0..Len(tx')
          /\ Rest(tx', txOff') = Rest(tx, txOff) \o f
      BY <1>1, <1>2, <1>6, PlacedBehind
    <2>2. sent' \in Seq(Seq(Nat))
      BY <1>1, <1>2, <1>6, AppendProperties
    <2>3. ETyped'
      BY <1>1, <1>4, <2>1, <2>2 DEF ETyped
    <2>4. Rest(tx, txOff) \in Seq(Nat)
      BY <1>1, Waiting
    <2>5. (onWire \o Rest(tx, txOff)) \o f = onWire \o (Rest(tx, txOff) \o f)
      BY <1>1, <1>2, <2>4, BytesChain, Zenon DEF Chained
    <2>6. FlattenSeq(sent') = FlattenSeq(sent) \o f
      BY <1>1, <1>2, <1>6, FlattenAppend
    <2>7. onWire \o Rest(tx, txOff) = FlattenSeq(sent)
      BY <1>1, Zenon DEF RequestsWhole
    <2>8. onWire' \o Rest(tx', txOff') = FlattenSeq(sent')
      BY <1>4, <2>1, <2>5, <2>6, <2>7, Zenon
    <2>9. RequestsWhole'
      BY <2>8, Zenon DEF RequestsWhole
    <2> QED
      BY <1>3, <1>4, <2>3, <2>9, OnlyWrites
  <1> QED
    BY <1>3, <1>5, <1>6

\* What the socket takes.
LEMMA UdpTcpFlushRInv ==
  ASSUME RInv, UdpTcpFlush
  PROVE  RInv'
  <1> DEFINE r == Rest(tx, txOff)
  <1>1. /\ ETyped /\ onWire \in Seq(Nat) /\ RequestsWhole
        /\ r \in Seq(Nat) /\ Len(r) = TxLen /\ TxLen \in Nat
        /\ tx \in Seq(Nat) /\ Len(tx) \in Nat /\ txOff \in 0..Len(tx)
    BY Waiting DEF RInv, ETyped
  <1>2. /\ pc = "done" /\ UNCHANGED <<hvars, rx, want, handed, sent>>
        /\ \/ /\ \E m \in 1..TxLen :
                    /\ onWire' = onWire \o SubSeq(tx, txOff + 1, txOff + m)
                    /\ IF m = TxLen THEN tx' = <<>> /\ txOff' = 0
                                    ELSE txOff' = txOff + m /\ UNCHANGED tx
              /\ UNCHANGED over
           \/ closed /\ over' = "eof" /\ UNCHANGED <<tx, txOff, onWire>>
    BY Zenon DEF UdpTcpFlush, Open
  <1>3. UNCHANGED <<hvars, rx, want, handed>> /\ rx' = rx /\ want' = want /\ sent' = sent
    BY <1>2
  <1>4. CASE closed /\ over' = "eof" /\ UNCHANGED <<tx, txOff, onWire>>
    <2>1. ETyped'
      BY <1>1, <1>3, <1>4 DEF ETyped
    <2>2. RequestsWhole'
      BY <1>1, <1>3, <1>4 DEF RequestsWhole
    <2> QED
      BY <1>2, <1>3, <1>4, <2>1, <2>2, OnlyWrites
  <1>5. ASSUME NEW m \in 1..TxLen, UNCHANGED over,
               onWire' = onWire \o SubSeq(tx, txOff + 1, txOff + m),
               IF m = TxLen THEN tx' = <<>> /\ txOff' = 0
                            ELSE txOff' = txOff + m /\ UNCHANGED tx
        PROVE  RInv'
    <2> DEFINE a == SubSeq(r, 1, m)
               z == Rest(r, m)
    <2>1. m \in 0..Len(r) /\ m \in 0..(Len(tx) - txOff) /\ m \in Nat /\ TxLen = Len(tx) - txOff
      BY <1>1 DEF TxLen
    <2>2. SubSeq(tx, txOff + 1, txOff + m) = a
      BY <1>1, <2>1, PartOfRest
    <2> HIDE DEF r
    <2>3. a \in Seq(Nat) /\ z \in Seq(Nat) /\ a \o z = r
      BY <1>1, <2>1, FirstAndRest, RestIs
    <2>4. /\ tx' \in Seq(Nat) /\ Len(tx') <= TxCap /\ txOff' \in 0..Len(tx')
          /\ Rest(tx', txOff') = z
      <3>1. CASE m = TxLen
        <4>1. tx' = <<>> /\ txOff' = 0
          BY <1>5, <3>1
        <4>2. <<>> \in Seq(Nat) /\ Len(<<>>) = 0 /\ 0 \in 0..0 /\ 0 <= TxCap
          BY <1>1, Waiting
        <4>3. Rest(<<>>, 0) = <<>>
          BY <4>2, RestOfAll
        <4>4. z = <<>>
          <5>1. m = Len(r)
            BY <1>1, <3>1
          <5> QED
            BY <1>1, <5>1, RestOfAll
        <4> QED
          BY <4>1, <4>2, <4>3, <4>4
      <3>2. CASE m # TxLen
        <4>1. tx' = tx /\ txOff' = txOff + m
          BY <1>5, <3>2
        <4>2. Rest(Rest(tx, txOff), m) = Rest(tx, txOff + m)
          BY <1>1, <2>1, RestOfRest
        <4>3. txOff + m \in 0..Len(tx)
          BY <1>1, <2>1
        <4>4. Len(tx) <= TxCap
          BY <1>1 DEF ETyped
        <4> QED
          BY <1>1, <4>1, <4>2, <4>3, <4>4 DEF r
      <3> QED
        BY <3>1, <3>2
    <2> HIDE DEF a, z
    <2>5. onWire' = onWire \o a
      BY <1>5, <2>2
    <2>6. onWire' \in Seq(Nat)
      BY <1>1, <2>3, <2>5, ConcatProperties
    <2>7. ETyped'
      BY <1>1, <1>3, <1>5, <2>4, <2>6 DEF ETyped
    <2>8. (onWire \o a) \o z = onWire \o (a \o z)
      BY <1>1, <2>3, BytesChain, ZenonT(30) DEF Chained
    <2>9. onWire \o r = FlattenSeq(sent)
      BY <1>1, Zenon DEF RequestsWhole, r
    <2>10. onWire' \o Rest(tx', txOff') = FlattenSeq(sent')
      BY <1>3, <2>3, <2>4, <2>5, <2>8, <2>9, Zenon
    <2>11. RequestsWhole'
      BY <2>10, Zenon DEF RequestsWhole
    <2> QED
      BY <1>2, <1>3, <1>5, <2>7, <2>11, OnlyWrites
  <1> HIDE DEF r
  <1> QED
    BY <1>2, <1>4, <1>5, Zenon

-----------------------------------------------------------------------------
(* The theorems.                                                            *)

\* Every step of the conversation.
LEMMA RInvNext ==
  ASSUME RInv, [Next]_vars
  PROVE  RInv'
  <1>1. CASE HNext /\ UNCHANGED engine
    BY <1>1, HNextRInv
  <1>2. CASE UdpTcpRead
    BY <1>2, UdpTcpReadRInv
  <1>3. CASE UdpTcpFlush
    BY <1>3, UdpTcpFlushRInv
  <1>4. ASSUME NEW n \in Sizes, UdpTcpAppend(n) PROVE RInv'
    BY <1>4, UdpTcpAppendRInv
  <1>5. CASE UNCHANGED vars
    <2>1. UNCHANGED hvars /\ UNCHANGED engine
      BY <1>5 DEF vars
    <2>2. /\ pc' = pc /\ stream' = stream /\ spoken' = spoken /\ closed' = closed
      BY <2>1 DEF hvars, server, worker
    <2>3. HInv'
      BY <2>1, HInvStays DEF RInv
    <2>4. /\ ETyped' /\ RequestsWhole' /\ Idle' = Idle
          /\ UNCHANGED <<rx, want, handed, over>>
      BY <2>1, EngineStays
    <2>5. OnlyServerEnds'
      BY <2>2, <2>4 DEF RInv, OnlyServerEnds
    <2>6. CASE pc = "done"
      <3>1. PICK n \in 0..Len(spoken) : Reads(n)
        BY <2>6 DEF RInv
      <3>2. Reads(n)'
        BY <2>2, <2>4, <3>1 DEF Reads
      <3> QED
        BY <2>2, <2>3, <2>4, <2>5, <2>6, <3>1, <3>2 DEF RInv
    <2>7. CASE pc # "done"
      BY <2>2, <2>3, <2>4, <2>5, <2>7 DEF RInv
    <2> QED
      BY <2>6, <2>7
  <1> QED
    BY <1>1, <1>2, <1>3, <1>4, <1>5, Zenon DEF Next

\* The inductive invariant: what has been read of the server's answers and of
\* its frames is where the worker and the engine take it to be.
THEOREM ConversationIsKept == Spec => []RInv
  <1>1. Init => RInv
    BY RInvAtFirst
  <1>2. RInv /\ [Next]_vars => RInv'
    BY RInvNext
  <1> QED
    BY <1>1, <1>2, PTL DEF Spec

\* What the worker reports is what the server did (SE_EVENT_OK, _AUTH_FAILED,
\* _PROTOCOL_ERROR and _NETWORK_ERROR of socks5_handshake), in the negotiation
\* on its own ...
THEOREM HandshakeBlames == HSpec => []BlameIsRight
  <1>1. HInit => HInv
    BY HInvAtFirst
  <1>2. HInv /\ [HNext]_hvars => HInv'
    BY HNextKeeps, HInvStays
  <1>3. HInv => BlameIsRight
    BY HInvBlames
  <1> QED
    BY <1>1, <1>2, <1>3, PTL DEF HSpec

\* ... and with the engine at work behind it.
THEOREM RelayBlames == Spec => []BlameIsRight
  <1>1. RInv => BlameIsRight
    BY HInvBlames DEF RInv
  <1> QED
    BY <1>1, ConversationIsKept, PTL

\* A UDP-in-TCP session ends for what the server did, never for a burst or a
\* buffer that cannot be emptied (udp_tcp_read).
THEOREM ServerEnds == Spec => []OnlyServerEnds
  <1>1. RInv => OnlyServerEnds
    BY DEF RInv
  <1> QED
    BY <1>1, ConversationIsKept, PTL

\* The invariant contains the property of the server's datagrams.
LEMMA RInvReplies ==
  ASSUME RInv
  PROVE  RepliesIntact
  <1> SUFFICES ASSUME event = "ok" PROVE RepliesIntact
    BY DEF RepliesIntact
  <1>1. pc = "done"
    BY DEF RInv, HInv
  <1>2. PICK n \in 0..Len(spoken) : Reads(n)
    BY <1>1 DEF RInv
  <1>3. handed = [i \in 1..n |-> Rest(spoken[i], 2)]
    BY <1>2, Zenon DEF Reads, Bodies
  <1>4. over = "no" => (IF want = None THEN <<>> ELSE <<want \div 256, want % 256>>) \o rx \o stream
                         = FlattenSeq(SubSeq(spoken, n + 1, Len(spoken)))
    BY <1>2, Zenon DEF Reads, Header, Rest
  <1> QED
    BY <1>3, <1>4, Zenon DEF RepliesIntact

\* Both ways, datagrams come out of the TCP connection whole and in order, the
\* first behind the last byte of the negotiation, however TCP and the buffers
\* cut them up (udp_tcp_read, udp_tcp_append, udp_tcp_flush).
THEOREM DatagramsAreWhole == Spec => []DatagramsWhole
  <1>1. RInv => TypeOK
    BY DEF RInv, HInv, HTyped, ETyped, TypeOK, HTypeOK
  <1>2. RInv => RepliesIntact /\ RequestsWhole
    BY RInvReplies DEF RInv
  <1>3. RInv => DatagramsWhole
    BY <1>1, <1>2 DEF DatagramsWhole
  <1> QED
    BY <1>3, ConversationIsKept, PTL

-----------------------------------------------------------------------------
(* Queries over TCP: their frames, and the replies to them.                 *)

\* Two runs of parts, end to end.
LEMMA FlattenConcat ==
  ASSUME NEW X, NEW s \in Seq(Seq(X)), NEW t \in Seq(Seq(X))
  PROVE  FlattenSeq(s \o t) = FlattenSeq(s) \o FlattenSeq(t)
  <1> DEFINE First(n) == SubSeq(t, 1, n)
             G(n) == FlattenSeq(s \o First(n)) = FlattenSeq(s) \o FlattenSeq(First(n))
             S == {n \in Nat : n <= Len(t) => G(n)}
  <1>1. Len(t) \in Nat /\ FlattenSeq(s) \in Seq(X)
    BY FlattenType
  <1>2. G(0)
    <2>1. First(0) = <<>>
      OBVIOUS
    <2>2. s \o <<>> = s /\ FlattenSeq(s) \o <<>> = FlattenSeq(s)
      BY <1>1, ConcatEmptySeq
    <2> QED
      BY <2>1, <2>2, FlattenEmpty
  <1>3. ASSUME NEW n \in Nat, G(n), n + 1 <= Len(t) PROVE G(n + 1)
    <2> DEFINE a == First(n)
               p == t[n + 1]
               fs == FlattenSeq(s)
               fa == FlattenSeq(a)
    <2>1. n \in 0..Len(t) /\ n + 1 \in 0..Len(t) /\ n + 1 \in 1..Len(t) /\ p \in Seq(X)
      BY <1>1, <1>3
    <2>2. a \in Seq(Seq(X)) /\ Len(a) = n /\ \A i \in 1..n : a[i] = t[i]
      BY <2>1, FirstAndRest
    <2>3. /\ First(n + 1) \in Seq(Seq(X)) /\ Len(First(n + 1)) = n + 1
          /\ \A i \in 1..(n + 1) : First(n + 1)[i] = t[i]
      BY <2>1, FirstAndRest
    <2> HIDE DEF a, p
    <2>4. /\ Append(a, p) \in Seq(Seq(X)) /\ Len(Append(a, p)) = n + 1
          /\ Append(a, p)[n + 1] = p /\ \A i \in 1..n : Append(a, p)[i] = a[i]
      <3>1. /\ Append(a, p) \in Seq(Seq(X)) /\ Len(Append(a, p)) = Len(a) + 1
            /\ Append(a, p)[Len(a) + 1] = p /\ \A i \in 1..Len(a) : Append(a, p)[i] = a[i]
        <4>1. a \in Seq(Seq(X)) /\ p \in Seq(X)
          BY <2>1, <2>2
        <4> QED
          BY <4>1, AppendProperties
      <3> QED
        BY <2>2, <3>1
    <2>5. \A i \in 1..(n + 1) : First(n + 1)[i] = Append(a, p)[i]
      BY <2>2, <2>3, <2>4 DEF p
    <2> HIDE DEF First
    <2>6. First(n + 1) = Append(a, p)
      BY <2>3, <2>4, <2>5, SeqEqual
    <2>7. s \o Append(a, p) = Append(s \o a, p) /\ s \o a \in Seq(Seq(X))
      BY <2>1, <2>2
    <2>8. FlattenSeq(Append(a, p)) = fa \o p /\ FlattenSeq(Append(s \o a, p)) = FlattenSeq(s \o a) \o p
      BY <2>1, <2>2, <2>7, FlattenAppend
    <2>9. FlattenSeq(s \o a) = fs \o fa
      BY <1>3 DEF a
    <2>10. fs \in Seq(X) /\ fa \in Seq(X)
      BY <1>1, <2>2, FlattenType
    <2> HIDE DEF fs, fa
    <2>11. (fs \o fa) \o p = fs \o (fa \o p)
      BY <2>1, <2>10, Associative, SMTT(20)
    <2> QED
      BY <2>6, <2>7, <2>8, <2>9, <2>11 DEF fs
  <1> HIDE DEF G
  <1>4. 0 \in S /\ (\A n \in Nat : n \in S => n + 1 \in S)
    <2>1. \A n \in Nat : n + 1 <= Len(t) => n <= Len(t)
      BY <1>1
    <2> QED
      BY <1>2, <1>3, <2>1
  <1>5. \A n \in S : n <= Len(t) => G(n)
    OBVIOUS
  <1> HIDE DEF S
  <1>6. Len(t) \in S
    BY <1>1, <1>4, Induction
  <1>7. G(Len(t))
    BY <1>1, <1>5, <1>6
  <1>8. First(Len(t)) = t
    BY SubSeqFull
  <1> QED
    BY <1>7, <1>8, Zenon DEF G

\* A query's frame is its length and itself.
LEMMA QueryFrame ==
  ASSUME NEW m \in Messages
  PROVE  /\ m \in Seq(Nat) /\ Len(m) \in Nat /\ FrameOf(m) \in Seq(Nat)
         /\ Len(FrameOf(m)) = 2 + Len(m)
         /\ FrameOf(m)[1] * 256 + FrameOf(m)[2] = Len(m)
         /\ Rest(FrameOf(m), 2) = m
  <1>1. m \in Seq(Byte)
    BY DnsTcpAssumption DEF Byte
  <1>2. m \in Seq(Nat) /\ Len(m) \in Nat
    BY <1>1, BytesAreNat
  <1> DEFINE h == <<Len(m) \div 256, Len(m) % 256>>
  <1>3. h \in Seq(Nat) /\ Len(h) = 2 /\ h[1] * 256 + h[2] = Len(m)
    <2>1. PICK w \in Nat : w = Len(m)
      BY <1>2
    <2>2. w \div 256 \in Nat /\ w % 256 \in Nat /\ w = (w \div 256) * 256 + (w % 256)
      BY TwoBytes
    <2> QED
      BY <2>1, <2>2
  <1> HIDE DEF h
  <1>4. /\ h \o m \in Seq(Nat) /\ Len(h \o m) = 2 + Len(m)
        /\ (h \o m)[1] = h[1] /\ (h \o m)[2] = h[2]
    <2>1. /\ h \o m \in Seq(Nat) /\ Len(h \o m) = Len(h) + Len(m)
          /\ \A i \in 1..(Len(h) + Len(m)) : (h \o m)[i] = IF i <= Len(h) THEN h[i] ELSE m[i - Len(h)]
      BY <1>2, <1>3, ConcatProperties, ZenonT(30)
    <2>2. 1 \in 1..(Len(h) + Len(m)) /\ 2 \in 1..(Len(h) + Len(m)) /\ 1 <= Len(h) /\ 2 <= Len(h)
      BY <1>2, <1>3
    <2> QED
      BY <1>3, <2>1, <2>2
  <1>5. Rest(h \o m, 2) = m
    <2>1. 2 \in 0..Len(h)
      BY <1>3
    <2>2. Rest(h \o m, Len(h)) = m
      BY <1>2, <1>3, <2>1, RestOfConcat
    <2> QED
      BY <1>3, <2>2
  <1>6. FrameOf(m) = h \o m
    BY Zenon DEF FrameOf, h
  <1> QED
    BY <1>2, <1>3, <1>4, <1>5, <1>6

\* The frames of the queries a.
FramesOf(a) == [i \in 1..Len(a) |-> FrameOf(a[i])]

\* One frame for each query.
LEMMA FramesAre ==
  ASSUME NEW a \in Seq(Messages)
  PROVE  /\ FramesOf(a) \in Seq(Seq(Nat)) /\ Len(FramesOf(a)) = Len(a)
         /\ \A i \in 1..Len(a) : FramesOf(a)[i] = FrameOf(a[i])
  <1>1. Len(a) \in Nat /\ \A i \in 1..Len(a) : a[i] \in Messages
    OBVIOUS
  <1>2. \A i \in 1..Len(a) : FrameOf(a[i]) \in Seq(Nat)
    BY <1>1, QueryFrame
  <1> DEFINE F(i) == FrameOf(a[i])
             n == Len(a)
  <1>3. FramesOf(a) = [i \in 1..n |-> F(i)]
    BY Zenon DEF FramesOf
  <1>4. \A i \in 1..n : F(i) \in Seq(Nat)
    BY <1>2
  <1>5. n \in Nat
    BY <1>1
  <1> HIDE DEF F, n
  <1>6. /\ [i \in 1..n |-> F(i)] \in Seq(Seq(Nat)) /\ Len([i \in 1..n |-> F(i)]) = n
        /\ \A i \in 1..n : [k \in 1..n |-> F(k)][i] = F(i)
    BY <1>4, <1>5
  <1> QED
    BY <1>3, <1>6, Zenon DEF F, n

\* The frames of what is left of the queries.
LEMMA FramesOfRest ==
  ASSUME NEW a \in Seq(Messages), NEW n \in 0..Len(a)
  PROVE  Rest(FramesOf(a), n) = FramesOf(Rest(a, n))
  <1> DEFINE r == Rest(a, n)
             f == FramesOf(a)
             g == FramesOf(r)
  <1>1. r \in Seq(Messages) /\ Len(r) = Len(a) - n /\ \A i \in 1..(Len(a) - n) : r[i] = a[n + i]
    BY RestIs
  <1> HIDE DEF r
  <1>2. /\ f \in Seq(Seq(Nat)) /\ Len(f) = Len(a)
        /\ \A i \in 1..Len(a) : f[i] = FrameOf(a[i])
    BY FramesAre
  <1>3. /\ g \in Seq(Seq(Nat)) /\ Len(g) = Len(a) - n
        /\ \A i \in 1..(Len(a) - n) : g[i] = FrameOf(r[i])
    BY <1>1, FramesAre
  <1> HIDE DEF f, g
  <1>4. n \in 0..Len(f)
    BY <1>2
  <1>5. /\ Rest(f, n) \in Seq(Seq(Nat)) /\ Len(Rest(f, n)) = Len(a) - n
        /\ \A i \in 1..(Len(a) - n) : Rest(f, n)[i] = f[n + i]
    BY <1>2, <1>4, RestIs
  <1>6. \A i \in 1..(Len(a) - n) : n + i \in 1..Len(a)
    OBVIOUS
  <1>7. \A i \in 1..(Len(a) - n) : Rest(f, n)[i] = g[i]
    BY <1>1, <1>2, <1>3, <1>5, <1>6, Zenon
  <1>8. Rest(f, n) = g
    BY <1>3, <1>5, <1>7, SeqEqual
  <1> QED
    BY <1>8 DEF f, g, r

\* The frames of one query more.
LEMMA FramesOfAppend ==
  ASSUME NEW a \in Seq(Messages), NEW m \in Messages
  PROVE  FramesOf(Append(a, m)) = Append(FramesOf(a), FrameOf(m))
  <1> DEFINE s == Append(a, m)
             f == FramesOf(a)
             g == FramesOf(s)
             x == FrameOf(m)
             t == Append(f, x)
  <1>1. /\ s \in Seq(Messages) /\ Len(s) = Len(a) + 1 /\ s[Len(a) + 1] = m
        /\ \A i \in 1..Len(a) : s[i] = a[i]
    BY AppendProperties
  <1> HIDE DEF s
  <1>2. f \in Seq(Seq(Nat)) /\ Len(f) = Len(a) /\ \A i \in 1..Len(a) : f[i] = FrameOf(a[i])
    BY FramesAre
  <1>3. g \in Seq(Seq(Nat)) /\ Len(g) = Len(s) /\ \A i \in 1..Len(s) : g[i] = FrameOf(s[i])
    BY <1>1, FramesAre
  <1>4. x \in Seq(Nat)
    BY QueryFrame
  <1> HIDE DEF f, g, x
  <1>5. /\ t \in Seq(Seq(Nat)) /\ Len(t) = Len(a) + 1 /\ t[Len(a) + 1] = x
        /\ \A i \in 1..Len(a) : t[i] = f[i]
    BY <1>2, <1>4, AppendProperties
  <1> HIDE DEF t
  <1>6. Len(a) \in Nat
    OBVIOUS
  <1>7. ASSUME NEW i \in 1..(Len(a) + 1) PROVE g[i] = t[i]
    <2>1. g[i] = FrameOf(s[i])
      BY <1>1, <1>3
    <2>2. CASE i = Len(a) + 1
      BY <1>1, <1>5, <2>1, <2>2 DEF x
    <2>3. CASE i # Len(a) + 1
      <3>1. i \in 1..Len(a)
        BY <1>6, <2>3
      <3> QED
        BY <1>1, <1>2, <1>5, <2>1, <3>1
    <2> QED
      BY <2>2, <2>3
  <1>8. Len(g) = Len(t) /\ \A i \in 1..Len(g) : g[i] = t[i]
    BY <1>1, <1>3, <1>5, <1>7
  <1>9. g = t
    BY <1>3, <1>5, <1>8, SeqEqual
  <1> QED
    BY <1>9 DEF s, f, g, x, t

\* The reply to a message, if there is one.
ReplyTo(m) == IF m \in Queries THEN <<m>> ELSE <<>>

\* One or none for each message, and nothing else.
LEMMA RepliesAre ==
  ASSUME NEW a \in Seq(Messages)
  PROVE  /\ [i \in 1..Len(a) |-> ReplyTo(a[i])] \in Seq(Seq(Messages))
         /\ Len([i \in 1..Len(a) |-> ReplyTo(a[i])]) = Len(a)
         /\ \A i \in 1..Len(a) : [k \in 1..Len(a) |-> ReplyTo(a[k])][i] = ReplyTo(a[i])
         /\ RepliesTo(a) = FlattenSeq([i \in 1..Len(a) |-> ReplyTo(a[i])])
         /\ RepliesTo(a) \in Seq(Messages)
  <1>1. Len(a) \in Nat /\ \A i \in 1..Len(a) : a[i] \in Messages
    OBVIOUS
  <1>2. \A m \in Messages : ReplyTo(m) \in Seq(Messages)
    BY DEF ReplyTo
  <1> DEFINE F(i) == ReplyTo(a[i])
             n == Len(a)
             r == [i \in 1..n |-> F(i)]
  <1>3. \A i \in 1..n : F(i) \in Seq(Messages)
    BY <1>1, <1>2
  <1>4. n \in Nat
    BY <1>1
  <1>5. RepliesTo(a) = FlattenSeq(r)
    BY Zenon DEF RepliesTo, ReplyTo
  <1> HIDE DEF F, n
  <1>6. r \in Seq(Seq(Messages)) /\ Len(r) = n /\ \A i \in 1..n : r[i] = F(i)
    BY <1>3, <1>4
  <1> HIDE DEF r
  <1>7. FlattenSeq(r) \in Seq(Messages)
    BY <1>6, FlattenType
  <1> QED
    BY <1>5, <1>6, <1>7, Zenon DEF F, n, r

\* The replies to some messages and to those after them.
LEMMA RepliesConcat ==
  ASSUME NEW a \in Seq(Messages), NEW b \in Seq(Messages)
  PROVE  RepliesTo(a \o b) = RepliesTo(a) \o RepliesTo(b)
  <1> DEFINE c == a \o b
             x == [i \in 1..Len(a) |-> ReplyTo(a[i])]
             y == [i \in 1..Len(b) |-> ReplyTo(b[i])]
             z == [i \in 1..Len(c) |-> ReplyTo(c[i])]
  <1>1. /\ c \in Seq(Messages) /\ Len(c) = Len(a) + Len(b)
        /\ \A i \in 1..(Len(a) + Len(b)) : c[i] = IF i <= Len(a) THEN a[i] ELSE b[i - Len(a)]
    BY ConcatProperties
  <1> HIDE DEF c
  <1>2. /\ x \in Seq(Seq(Messages)) /\ Len(x) = Len(a)
        /\ \A i \in 1..Len(a) : x[i] = ReplyTo(a[i])
        /\ RepliesTo(a) = FlattenSeq(x)
    BY RepliesAre
  <1>3. /\ y \in Seq(Seq(Messages)) /\ Len(y) = Len(b)
        /\ \A i \in 1..Len(b) : y[i] = ReplyTo(b[i])
        /\ RepliesTo(b) = FlattenSeq(y)
    BY RepliesAre
  <1>4. /\ z \in Seq(Seq(Messages)) /\ Len(z) = Len(c)
        /\ \A i \in 1..Len(c) : z[i] = ReplyTo(c[i])
        /\ RepliesTo(c) = FlattenSeq(z)
    BY <1>1, RepliesAre
  <1> HIDE DEF x, y, z
  <1>5. x \in Seq(Seq(Messages)) /\ y \in Seq(Seq(Messages))
    BY <1>2, <1>3
  <1>6. /\ x \o y \in Seq(Seq(Messages)) /\ Len(x \o y) = Len(x) + Len(y)
        /\ \A i \in 1..(Len(x) + Len(y)) : (x \o y)[i] = IF i <= Len(x) THEN x[i] ELSE y[i - Len(x)]
    BY <1>5, ConcatProperties
  <1>7. Len(a) \in Nat /\ Len(b) \in Nat /\ Len(x) = Len(a) /\ Len(y) = Len(b)
    BY <1>2, <1>3
  <1> DEFINE w == x \o y
  <1>8. w \in Seq(Seq(Messages)) /\ Len(w) = Len(a) + Len(b)
    BY <1>6, <1>7
  <1>9. \A i \in 1..(Len(a) + Len(b)) : w[i] = IF i <= Len(a) THEN x[i] ELSE y[i - Len(a)]
    BY <1>6, <1>7
  <1> HIDE DEF w
  <1>10. ASSUME NEW i \in 1..(Len(a) + Len(b)) PROVE z[i] = w[i]
    <2>1. z[i] = ReplyTo(c[i])
      BY <1>1, <1>4
    <2>2. CASE i <= Len(a)
      <3>1. i \in 1..Len(a)
        BY <1>7, <2>2
      <3> QED
        BY <1>1, <1>2, <1>9, <2>1, <2>2, <3>1
    <2>3. CASE ~(i <= Len(a))
      <3>1. i - Len(a) \in 1..Len(b)
        BY <1>7, <2>3
      <3> QED
        BY <1>1, <1>3, <1>9, <2>1, <2>3, <3>1
    <2> QED
      BY <2>2, <2>3
  <1>11. z \in Seq(Seq(Messages)) /\ Len(z) = Len(w) /\ \A i \in 1..Len(z) : z[i] = w[i]
    BY <1>1, <1>4, <1>8, <1>10
  <1>12. z = w
    BY <1>8, <1>11, SeqEqual
  <1>13. FlattenSeq(w) = FlattenSeq(x) \o FlattenSeq(y)
    BY <1>5, FlattenConcat DEF w
  <1> QED
    BY <1>2, <1>3, <1>4, <1>12, <1>13, Zenon DEF c

\* To nothing there is no reply.
LEMMA RepliesToNone == RepliesTo(<<>>) = <<>>
  <1>1. RepliesTo(<<>>) = FlattenSeq([i \in 1..Len(<<>>) |-> ReplyTo(<<>>[i])])
    BY Zenon DEF RepliesTo, ReplyTo
  <1>2. <<>> \in Seq(Messages)
    OBVIOUS
  <1>3. /\ [i \in 1..Len(<<>>) |-> ReplyTo(<<>>[i])] \in Seq(Seq(Messages))
        /\ Len([i \in 1..Len(<<>>) |-> ReplyTo(<<>>[i])]) = Len(<<>>)
    BY <1>2, RepliesAre
  <1> DEFINE r == [i \in 1..Len(<<>>) |-> ReplyTo(<<>>[i])]
  <1> HIDE DEF r
  <1>4. r \in Seq(Seq(Messages)) /\ Len(r) = 0
    BY <1>3 DEF r
  <1>5. r = <<>>
    BY <1>4
  <1> QED
    BY <1>1, <1>5, FlattenEmpty DEF r

-----------------------------------------------------------------------------
(* dns_tcp_scan_frames.                                                     *)

\* One step of the scan at off, with f for the steps to come.
ScanStep(f, b, off) ==
    IF off + 2 > Len(b) THEN [off |-> off, msgs |-> <<>>]
    ELSE IF off + 2 + LengthAt(b, off) > Len(b) THEN [off |-> off, msgs |-> <<>>]
    ELSE [f[off + 2 + LengthAt(b, off)] EXCEPT
            !.msgs = <<SubSeq(b, off + 3, off + 2 + LengthAt(b, off))>> \o @]

\* The two bytes at off are a number.
LEMMA LengthIs ==
  ASSUME NEW b \in Seq(Nat), NEW off \in Nat, off + 2 <= Len(b)
  PROVE  LengthAt(b, off) \in Nat
  <1>1. off + 1 \in 1..Len(b) /\ off + 2 \in 1..Len(b)
    OBVIOUS
  <1>2. b[off + 1] \in Nat /\ b[off + 2] \in Nat
    BY <1>1
  <1> QED
    BY <1>2 DEF LengthAt

\* Where a whole frame at off ends.
LEMMA NextFrame ==
  ASSUME NEW b \in Seq(Nat), NEW off \in 0..Len(b), off + 2 <= Len(b),
         off + 2 + LengthAt(b, off) <= Len(b)
  PROVE  /\ LengthAt(b, off) \in Nat
         /\ off + 2 + LengthAt(b, off) \in 0..Len(b)
         /\ Len(b) - (off + 2 + LengthAt(b, off)) < Len(b) - off
  <1>1. off \in Nat /\ Len(b) \in Nat
    OBVIOUS
  <1>2. PICK l : l = LengthAt(b, off)
    OBVIOUS
  <1>3. l \in Nat
    BY <1>1, <1>2, LengthIs
  <1> QED
    BY <1>1, <1>2, <1>3

\* A step looks only at steps nearer to the end.
LEMMA ScanLooksAhead ==
  ASSUME NEW b \in Seq(Nat), NEW f, NEW g, NEW off \in 0..Len(b),
         \A t \in 0..Len(b) : Len(b) - t < Len(b) - off => f[t] = g[t]
  PROVE  ScanStep(f, b, off) = ScanStep(g, b, off)
  <1>1. CASE off + 2 > Len(b) \/ off + 2 + LengthAt(b, off) > Len(b)
    BY <1>1 DEF ScanStep
  <1>2. CASE ~(off + 2 > Len(b)) /\ ~(off + 2 + LengthAt(b, off) > Len(b))
    <2> DEFINE t == off + 2 + LengthAt(b, off)
    <2>1. Len(b) \in Nat /\ off + 2 <= Len(b)
      BY <1>2
    <2>2. LengthAt(b, off) \in Nat
      BY <2>1, LengthIs
    <2>3. off + 2 + LengthAt(b, off) <= Len(b)
      BY <1>2, <2>1, <2>2
    <2>4. f[t] = g[t]
      BY <2>1, <2>3, NextFrame
    <2> QED
      BY <1>2, <2>4, Zenon DEF ScanStep
  <1> QED
    BY <1>1, <1>2

\* There is such a scan ...
LEMMA ScanExists ==
  ASSUME NEW b \in Seq(Nat)
  PROVE  \E f : f = [off \in 0..Len(b) |-> ScanStep(f, b, off)]
  <1> DEFINE P == 0..Len(b)
             Near(f, n) == \A s \in P : Len(b) - s < n => f[s] = ScanStep(f, b, s)
             G(n) == \E f : Near(f, n)
             S == {n \in Nat : G(n)}
  <1>0. Len(b) \in Nat /\ \A s \in P : Len(b) - s \in Nat /\ Len(b) - s < Len(b) + 1
    OBVIOUS
  <1>1. G(0)
    <2>1. \A s \in P : ~(Len(b) - s < 0)
      BY <1>0
    <2>2. Near(<<>>, 0)
      BY <2>1, Zenon
    <2> QED
      BY <2>2, Zenon
  <1>2. ASSUME NEW n \in Nat, G(n) PROVE G(n + 1)
    <2>1. PICK f : Near(f, n)
      BY <1>2
    <2> DEFINE T(s) == IF Len(b) - s < n THEN f[s] ELSE ScanStep(f, b, s)
               h == [s \in P |-> T(s)]
    <2>2. \A s \in P : h[s] = T(s)
      BY Zenon
    <2> HIDE DEF h
    <2>3. ASSUME NEW s \in P, Len(b) - s < n + 1
          PROVE  h[s] = ScanStep(h, b, s)
      <3>1. ASSUME NEW t \in P, Len(b) - t < Len(b) - s
            PROVE  f[t] = h[t]
        <4>1. Len(b) - t \in Nat /\ Len(b) - s \in Nat
          BY <1>0
        <4>2. Len(b) - t < n
          BY <2>3, <3>1, <4>1
        <4> QED
          BY <2>2, <4>2, Zenon
      <3>2. ScanStep(f, b, s) = ScanStep(h, b, s)
        BY <3>1, ScanLooksAhead
      <3>3. h[s] = ScanStep(f, b, s)
        BY <2>1, <2>2, Zenon
      <3> QED
        BY <3>2, <3>3
    <2>4. Near(h, n + 1)
      BY <2>3, Zenon
    <2> QED
      BY <2>4, Zenon
  <1> HIDE DEF G
  <1>3. 0 \in S /\ \A n \in Nat : n \in S => n + 1 \in S
    BY <1>1, <1>2
  <1>4. \A n \in S : G(n)
    OBVIOUS
  <1> HIDE DEF S
  <1>5. Len(b) + 1 \in S
    <2>1. Len(b) + 1 \in Nat
      BY <1>0
    <2> QED
      BY <1>3, <2>1, Induction
  <1>6. PICK f : Near(f, Len(b) + 1)
    BY <1>4, <1>5, Zenon DEF G
  <1>7. \A s \in P : f[s] = ScanStep(f, b, s)
    BY <1>0, <1>6, Zenon
  <1> DEFINE F == [s \in P |-> f[s]]
  <1>8. \A s \in P : F[s] = f[s]
    BY Zenon
  <1> HIDE DEF F
  <1>9. ASSUME NEW s \in P PROVE ScanStep(F, b, s) = f[s]
    <2>1. ScanStep(F, b, s) = ScanStep(f, b, s)
      BY <1>8, ScanLooksAhead
    <2> QED
      BY <1>7, <2>1
  <1> DEFINE T(s) == ScanStep(F, b, s)
  <1>10. \A s \in P : T(s) = f[s]
    BY <1>9
  <1> HIDE DEF T
  <1>11. F = [s \in P |-> T(s)]
    BY <1>10 DEF F
  <1> QED
    BY <1>11, Zenon DEF T

\* ... and dns_tcp_scan_frames runs it from the beginning.
LEMMA ScanIsLoop ==
  ASSUME NEW b \in Seq(Nat)
  PROVE  \E f : Scan(b) = f[0] /\ \A off \in 0..Len(b) : f[off] = ScanStep(f, b, off)
  <1> DEFINE Is(f) == f = [off \in 0..Len(b) |-> ScanStep(f, b, off)]
             f == CHOOSE g : Is(g)
  <1>1. \E g : Is(g)
    BY ScanExists, Zenon
  <1>2. Scan(b) = (CHOOSE g : Is(g))[0]
    BY Zenon DEF Scan, ScanStep, LengthAt
  <1> HIDE DEF Is
  <1>3. Is(f)
    BY <1>1, Zenon
  <1> HIDE DEF f
  <1> DEFINE T(s) == ScanStep(f, b, s)
  <1>4. f = [off \in 0..Len(b) |-> T(off)]
    BY <1>3, Zenon DEF Is
  <1> HIDE DEF T
  <1>5. \A off \in 0..Len(b) : f[off] = T(off)
    BY <1>4, Zenon
  <1>6. \A off \in 0..Len(b) : f[off] = ScanStep(f, b, off)
    BY <1>5, Zenon DEF T
  <1>7. Scan(b) = f[0]
    BY <1>2 DEF f
  <1> QED
    BY <1>6, <1>7, Zenon

\* The first n, and k more.
LEMMA FirstOfMore ==
  ASSUME NEW X, NEW a \in Seq(X), NEW n \in 0..Len(a), NEW k \in 0..(Len(a) - n)
  PROVE  SubSeq(a, 1, n) \o SubSeq(Rest(a, n), 1, k) = SubSeq(a, 1, n + k)
  <1> DEFINE r == Rest(a, n)
             x == SubSeq(a, 1, n)
             y == SubSeq(r, 1, k)
             z == SubSeq(a, 1, n + k)
             w == x \o y
  <1>1. /\ r \in Seq(X) /\ Len(r) = Len(a) - n
        /\ \A i \in 1..(Len(a) - n) : r[i] = a[n + i]
    BY RestIs
  <1>2. n + k \in 0..Len(a) /\ k \in 0..Len(r) /\ n \in Nat /\ k \in Nat
    BY <1>1
  <1> HIDE DEF r
  <1>3. x \in Seq(X) /\ Len(x) = n /\ \A i \in 1..n : x[i] = a[i]
    BY FirstAndRest
  <1>4. y \in Seq(X) /\ Len(y) = k /\ \A i \in 1..k : y[i] = r[i]
    BY <1>1, <1>2, FirstAndRest
  <1>5. z \in Seq(X) /\ Len(z) = n + k /\ \A i \in 1..(n + k) : z[i] = a[i]
    BY <1>2, FirstAndRest
  <1> HIDE DEF x, y, z
  <1>6. /\ w \in Seq(X) /\ Len(w) = n + k
        /\ \A i \in 1..(n + k) : w[i] = IF i <= n THEN x[i] ELSE y[i - n]
    BY <1>3, <1>4, ConcatProperties
  <1> HIDE DEF w
  <1>7. ASSUME NEW i \in 1..(n + k) PROVE w[i] = z[i]
    <2>1. CASE i <= n
      <3>1. i \in 1..n
        BY <2>1
      <3> QED
        BY <1>3, <1>5, <1>6, <2>1, <3>1
    <2>2. CASE ~(i <= n)
      <3>1. i - n \in 1..k /\ i - n \in 1..(Len(a) - n) /\ n + (i - n) = i
        BY <1>2, <2>2
      <3>2. r[i - n] = a[i]
        BY <1>1, <3>1
      <3> QED
        BY <1>4, <1>5, <1>6, <2>2, <3>1, <3>2
    <2> QED
      BY <2>1, <2>2
  <1>8. w = z
    BY <1>5, <1>6, <1>7, SeqEqual
  <1> QED
    BY <1>8 DEF w, x, y, z, r

\* The tail is what is left behind the first.
LEMMA TailIsRest ==
  ASSUME NEW X, NEW s \in Seq(X), s # <<>>
  PROVE  Tail(s) = Rest(s, 1) /\ 1 \in 0..Len(s) /\ SubSeq(s, 1, 1) = <<s[1]>> /\ s[1] \in X
  <1>1. Len(s) \in Nat /\ 1 \in 1..Len(s) /\ 1 \in 0..Len(s)
    OBVIOUS
  <1>2. /\ Tail(s) \in Seq(X) /\ Len(Tail(s)) = Len(s) - 1
        /\ \A i \in 1..(Len(s) - 1) : Tail(s)[i] = s[i + 1]
    BY <1>1
  <1>3. /\ Rest(s, 1) \in Seq(X) /\ Len(Rest(s, 1)) = Len(s) - 1
        /\ \A i \in 1..(Len(s) - 1) : Rest(s, 1)[i] = s[1 + i]
    BY <1>1, RestIs
  <1>4. \A i \in 1..(Len(s) - 1) : Tail(s)[i] = Rest(s, 1)[i]
    <2>1. \A i \in 1..(Len(s) - 1) : i + 1 = 1 + i
      OBVIOUS
    <2> QED
      BY <1>2, <1>3, <2>1
  <1>5. Tail(s) = Rest(s, 1)
    BY <1>2, <1>3, <1>4, SeqEqual
  <1>6. /\ SubSeq(s, 1, 1) \in Seq(X) /\ Len(SubSeq(s, 1, 1)) = 1
        /\ \A i \in 1..1 : SubSeq(s, 1, 1)[i] = s[i]
    BY <1>1, FirstAndRest
  <1>7. s[1] \in X
    BY <1>1
  <1> DEFINE h == s[1]
             t == SubSeq(s, 1, 1)
  <1>8. t = <<h>>
    <2>1. t \in Seq(X) /\ Len(t) = 1 /\ t[1] = h /\ h \in X
      BY <1>6, <1>7
    <2> HIDE DEF t, h
    <2>2. <<h>> \in Seq(X) /\ Len(<<h>>) = 1 /\ <<h>>[1] = h
      BY <2>1
    <2>3. \A i \in 1..1 : t[i] = <<h>>[i]
      BY <2>1, <2>2
    <2> QED
      BY <2>1, <2>2, <2>3, SeqEqual
  <1> QED
    BY <1>1, <1>5, <1>7, <1>8

\* The stream begins with query m, in b from off to end.
Holds(b, off, end, m) ==
    end = off + 2 + Len(m) /\ LengthAt(b, off) = Len(m) /\ SubSeq(b, off + 3, end) = m

\* A query that has come as far as its length says is the next one.
LEMMA TakesQuery ==
  ASSUME NEW b \in Seq(Nat), NEW z \in Seq(Nat), NEW off \in 0..Len(b), NEW a \in Seq(Messages),
         off + 2 <= Len(b), off + 2 + LengthAt(b, off) <= Len(b),
         Rest(b, off) \o z = FlattenSeq(FramesOf(a))
  PROVE  /\ a # <<>>
         /\ Holds(b, off, off + 2 + LengthAt(b, off), a[1])
         /\ Rest(b, off + 2 + LengthAt(b, off)) \o z = FlattenSeq(FramesOf(Rest(a, 1)))
  <1> DEFINE u == Rest(b, off)
             y == u \o z
             fs == FramesOf(a)
             q == FlattenSeq(Tail(fs))
  <1>1. /\ u \in Seq(Nat) /\ Len(u) = Len(b) - off /\ Len(b) \in Nat
        /\ \A i \in 1..(Len(b) - off) : u[i] = b[off + i]
    BY RestIs
  <1> HIDE DEF u
  <1>2. u[1] = b[off + 1] /\ u[2] = b[off + 2] /\ Len(u) >= 2
    <2>1. 1 \in 1..(Len(b) - off) /\ 2 \in 1..(Len(b) - off)
      BY <1>1
    <2> QED
      BY <1>1, <2>1
  <1>3. /\ y \in Seq(Nat) /\ Len(y) = Len(u) + Len(z) /\ Len(y) > 0
        /\ y[1] = u[1] /\ y[2] = u[2]
    <2>1. /\ y \in Seq(Nat) /\ Len(y) = Len(u) + Len(z)
          /\ \A i \in 1..(Len(u) + Len(z)) : y[i] = IF i <= Len(u) THEN u[i] ELSE z[i - Len(u)]
      BY <1>1, ConcatProperties
    <2> HIDE DEF y
    <2>2. Len(u) \in Nat /\ Len(z) \in Nat
      BY <1>1
    <2>3. 1 \in 1..(Len(u) + Len(z)) /\ 2 \in 1..(Len(u) + Len(z)) /\ 1 <= Len(u) /\ 2 <= Len(u)
      BY <1>2, <2>2
    <2> QED
      BY <2>1, <2>2, <2>3
  <1>4. y = FlattenSeq(fs)
    BY DEF u
  <1>5. /\ fs \in Seq(Seq(Nat)) /\ Len(fs) = Len(a)
        /\ \A i \in 1..Len(a) : fs[i] = FrameOf(a[i])
    BY FramesAre
  <1> HIDE DEF y, fs
  <1>6. fs # <<>> /\ a # <<>>
    <2>1. fs # <<>>
      BY <1>3, <1>4, FlattenEmpty
    <2> QED
      BY <1>5, <2>1
  <1>7. Tail(a) = Rest(a, 1) /\ 1 \in 0..Len(a) /\ a[1] \in Messages /\ 1 \in 1..Len(a)
    BY <1>6, TailIsRest
  <1>8. Tail(fs) = FramesOf(Rest(a, 1)) /\ Tail(fs) \in Seq(Seq(Nat))
    <2>1. Tail(fs) = Rest(fs, 1)
      BY <1>5, <1>6, TailIsRest
    <2>2. Rest(fs, 1) = FramesOf(Rest(a, 1))
      BY <1>7, FramesOfRest DEF fs
    <2>3. Rest(a, 1) \in Seq(Messages)
      BY <1>7, RestIs
    <2>4. FramesOf(Rest(a, 1)) \in Seq(Seq(Nat))
      BY <2>3, FramesAre
    <2> QED
      BY <2>1, <2>2, <2>4
  <1>9. q \in Seq(Nat) /\ y = fs[1] \o q
    <2>1. y = fs[1] \o FlattenSeq(Tail(fs))
      BY <1>4, <1>5, <1>6, FlattenFirst
    <2>2. FlattenSeq(Tail(fs)) \in Seq(Nat)
      BY <1>8, FlattenType
    <2> QED
      BY <2>1, <2>2
  <1> DEFINE m == a[1]
             x == FrameOf(m)
             l == Len(m)
  <1>10. fs[1] = x
    BY <1>5, <1>7
  <1>11. /\ m \in Seq(Nat) /\ l \in Nat /\ x \in Seq(Nat) /\ Len(x) = 2 + l
         /\ x[1] * 256 + x[2] = l /\ Rest(x, 2) = m
    BY <1>7, QueryFrame
  <1> HIDE DEF q, m, x, l
  <1>12. y = x \o q
    BY <1>9, <1>10
  <1>13. y[1] = x[1] /\ y[2] = x[2]
    <2>1. \A i \in 1..(Len(x) + Len(q)) : (x \o q)[i] = IF i <= Len(x) THEN x[i] ELSE q[i - Len(x)]
      BY <1>9, <1>11, ConcatProperties, ZenonT(30)
    <2>2. Len(q) \in Nat /\ Len(x) \in Nat /\ Len(x) = 2 + l /\ l \in Nat
      BY <1>9, <1>11
    <2>3. 1 \in 1..(Len(x) + Len(q)) /\ 2 \in 1..(Len(x) + Len(q)) /\ 1 <= Len(x) /\ 2 <= Len(x)
      BY <2>2
    <2> QED
      BY <1>12, <2>1, <2>3
  <1>14. LengthAt(b, off) = l
    <2>1. b[off + 1] = x[1] /\ b[off + 2] = x[2]
      BY <1>2, <1>3, <1>13
    <2> QED
      BY <1>11, <2>1 DEF LengthAt
  <1>15. Len(x) <= Len(u) /\ off + 2 + l <= Len(b) /\ off + 2 \in Nat /\ off \in Nat
    BY <1>1, <1>11, <1>14
  <1>16. x = SubSeq(u, 1, Len(x)) /\ q = Rest(u, Len(x)) \o z
    <2>1. y = u \o z
      BY DEF y
    <2> QED
      BY <1>1, <1>9, <1>11, <1>12, <1>15, <2>1, TwoCuts, ZenonT(30)
  <1>17. Rest(u, Len(x)) = Rest(b, off + 2 + l)
    <2>1. off \in 0..Len(b) /\ 2 + l \in 0..(Len(b) - off)
      BY <1>1, <1>11, <1>15
    <2>2. Rest(Rest(b, off), 2 + l) = Rest(b, off + (2 + l))
      BY <2>1, RestOfRest
    <2>3. off + (2 + l) = off + 2 + l
      BY <1>11, <1>15
    <2> QED
      BY <1>11, <2>2, <2>3 DEF u
  <1>18. SubSeq(b, off + 3, off + 2 + l) = m
    <2> DEFINE v == Rest(u, Len(x))
    <2>1. Len(x) \in 0..Len(u) /\ 2 \in 0..Len(x) /\ l \in 0..Len(m)
      BY <1>1, <1>11, <1>15 DEF l
    <2>2. u = x \o v /\ v \in Seq(Nat)
      BY <1>1, <1>16, <2>1, FirstAndRest, RestIs
    <2> HIDE DEF v
    <2>3. Rest(u, 2) = m \o v
      <3>1. Rest(x \o v, 2) = Rest(x, 2) \o v
        BY <1>11, <2>1, <2>2, RestOfConcat, ZenonT(30)
      <3> QED
        BY <1>11, <2>2, <3>1
    <2>4. SubSeq(m \o v, 1, l) = m
      <3>1. SubSeq(m \o v, 1, l) = SubSeq(m, 1, l)
        BY <1>11, <2>1, <2>2, RestOfConcat
      <3>2. SubSeq(m, 1, Len(m)) = m
        BY <1>11, SubSeqFull
      <3> QED
        BY <3>1, <3>2 DEF l
    <2>5. Rest(u, 2) = Rest(b, off + 2)
      <3>1. 2 \in 0..(Len(b) - off)
        BY <1>1, <1>2
      <3> QED
        BY <3>1, RestOfRest DEF u
    <2>6. off + 2 \in 0..Len(b) /\ l \in 0..(Len(b) - (off + 2))
      BY <1>1, <1>11, <1>15
    <2>7. SubSeq(b, off + 2 + 1, off + 2 + l) = SubSeq(Rest(b, off + 2), 1, l)
      BY <2>6, PartOfRest
    <2>8. off + 2 + 1 = off + 3
      BY <1>15
    <2> QED
      BY <2>3, <2>4, <2>5, <2>7, <2>8
  <1>19. Holds(b, off, off + 2 + LengthAt(b, off), m)
    BY <1>14, <1>18, Zenon DEF Holds, l
  <1>20. Rest(b, off + 2 + LengthAt(b, off)) \o z = FlattenSeq(FramesOf(Rest(a, 1)))
    BY <1>8, <1>14, <1>16, <1>17, Zenon DEF q
  <1> QED
    BY <1>6, <1>19, <1>20 DEF m

\* What the scan has found at the end of its way through b, when queries a
\* were to come: some of the first of them, and what is left holds the others.
Found(r, a, b, z) ==
    /\ r.off \in 0..Len(b)
    /\ \E k \in 0..Len(a) : /\ r.msgs = SubSeq(a, 1, k)
                            /\ Rest(b, r.off) \o z = FlattenSeq(FramesOf(Rest(a, k)))

\* Nothing has been found yet.
LEMMA NothingFound ==
  ASSUME NEW b, NEW z, NEW off \in 0..Len(b), NEW a \in Seq(Messages),
         Rest(b, off) \o z = FlattenSeq(FramesOf(a))
  PROVE  Found([off |-> off, msgs |-> <<>>], a, b, z)
  <1> DEFINE r == [off |-> off, msgs |-> <<>>]
  <1>1. r.off = off /\ r.msgs = <<>>
    OBVIOUS
  <1>2. 0 \in 0..Len(a) /\ SubSeq(a, 1, 0) = <<>>
    OBVIOUS
  <1>3. Rest(a, 0) = a
    BY RestOfAll
  <1> HIDE DEF r
  <1>4. Found(r, a, b, z)
    BY <1>1, <1>2, <1>3, Zenon DEF Found
  <1> QED
    BY <1>4 DEF r

\* One query, and what has been found behind it.
LEMMA OneMoreFound ==
  ASSUME NEW b, NEW z, NEW a \in Seq(Messages), a # <<>>, NEW r,
         r = [off |-> r.off, msgs |-> r.msgs], Found(r, Rest(a, 1), b, z)
  PROVE  Found([r EXCEPT !.msgs = <<a[1]>> \o @], a, b, z)
  <1> DEFINE s == [r EXCEPT !.msgs = <<a[1]>> \o @]
             t == Rest(a, 1)
  <1>1. SubSeq(a, 1, 1) = <<a[1]>> /\ 1 \in 0..Len(a) /\ a[1] \in Messages
    BY TailIsRest
  <1>2. t \in Seq(Messages) /\ Len(t) = Len(a) - 1
    BY <1>1, RestIs
  <1>3. s.off = r.off /\ s.msgs = <<a[1]>> \o r.msgs
    OBVIOUS
  <1> HIDE DEF s, t
  <1>4. PICK k \in 0..Len(t) : /\ r.msgs = SubSeq(t, 1, k)
                               /\ Rest(b, r.off) \o z = FlattenSeq(FramesOf(Rest(t, k)))
    BY Zenon DEF Found, t
  <1>5. k \in 0..(Len(a) - 1) /\ 1 + k \in 0..Len(a)
    BY <1>2
  <1>6. s.msgs = SubSeq(a, 1, 1 + k)
    <2>1. SubSeq(a, 1, 1) \o SubSeq(Rest(a, 1), 1, k) = SubSeq(a, 1, 1 + k)
      BY <1>1, <1>5, FirstOfMore
    <2> QED
      BY <1>1, <1>3, <1>4, <2>1 DEF t
  <1>7. Rest(t, k) = Rest(a, 1 + k)
    BY <1>1, <1>5, RestOfRest DEF t
  <1>8. s.off \in 0..Len(b)
    BY <1>3, Zenon DEF Found
  <1>9. Rest(b, s.off) \o z = FlattenSeq(FramesOf(Rest(a, 1 + k)))
    BY <1>3, <1>4, <1>7
  <1>10. Found(s, a, b, z)
    BY <1>5, <1>6, <1>8, <1>9, Zenon DEF Found
  <1> QED
    BY <1>10 DEF s

\* The scan from off: what it answers for any queries to come.
Finds(r, b, z, off) ==
    /\ r = [off |-> r.off, msgs |-> r.msgs]
    /\ \A a \in Seq(Messages) :
          Rest(b, off) \o z = FlattenSeq(FramesOf(a)) => Found(r, a, b, z)

\* A query put in front of what was found.
LEMMA PutInFront ==
  ASSUME NEW o, NEW ms, NEW m
  PROVE  [[off |-> o, msgs |-> ms] EXCEPT !.msgs = <<m>> \o @] = [off |-> o, msgs |-> <<m>> \o ms]
  <1> DEFINE x == <<m>> \o ms
  <1>1. [off |-> o, msgs |-> ms].msgs = ms
    OBVIOUS
  <1>2. [[off |-> o, msgs |-> ms] EXCEPT !.msgs = x] = [off |-> o, msgs |-> x]
    <2> HIDE DEF x
    <2> QED
      OBVIOUS
  <1> QED
    BY <1>1, <1>2

\* The scan is right at off when it is right nearer to the end.
LEMMA ScanStepIsRight ==
  ASSUME NEW b \in Seq(Nat), NEW z \in Seq(Nat), NEW f, NEW off \in 0..Len(b),
         \A t \in 0..Len(b) : Len(b) - t < Len(b) - off => Finds(f[t], b, z, t)
  PROVE  Finds(ScanStep(f, b, off), b, z, off)
  <1> DEFINE l == LengthAt(b, off)
             none == [off |-> off, msgs |-> <<>>]
  <1>1. CASE off + 2 > Len(b) \/ off + 2 + l > Len(b)
    <2>1. ScanStep(f, b, off) = none
      BY <1>1 DEF ScanStep
    <2>2. \A a \in Seq(Messages) :
             Rest(b, off) \o z = FlattenSeq(FramesOf(a)) => Found(none, a, b, z)
      BY NothingFound
    <2>3. none = [off |-> none.off, msgs |-> none.msgs]
      OBVIOUS
    <2> HIDE DEF none
    <2> QED
      BY <2>1, <2>2, <2>3, Zenon DEF Finds
  <1>2. CASE ~(off + 2 > Len(b)) /\ ~(off + 2 + l > Len(b))
    <2> DEFINE t == off + 2 + l
               m == SubSeq(b, off + 3, t)
               r == f[t]
               s == [r EXCEPT !.msgs = <<m>> \o @]
    <2>1. ScanStep(f, b, off) = s
      BY <1>2, Zenon DEF ScanStep
    <2>2. off + 2 <= Len(b) /\ t <= Len(b)
      <3>1. Len(b) \in Nat /\ off \in Nat /\ off + 2 <= Len(b)
        BY <1>2
      <3>2. l \in Nat
        BY <3>1, LengthIs
      <3> HIDE DEF l
      <3> QED
        BY <1>2, <3>1, <3>2
    <2>3. Finds(r, b, z, t)
      <3>1. t \in 0..Len(b) /\ Len(b) - t < Len(b) - off
        BY <2>2, NextFrame
      <3> HIDE DEF t
      <3> QED
        BY <3>1
    <2>4. r = [off |-> r.off, msgs |-> r.msgs]
      BY <2>3, Zenon DEF Finds
    <2>5. ASSUME NEW a \in Seq(Messages), Rest(b, off) \o z = FlattenSeq(FramesOf(a))
          PROVE  Found(s, a, b, z)
      <3>1. a # <<>> /\ Holds(b, off, t, a[1]) /\ Rest(b, t) \o z = FlattenSeq(FramesOf(Rest(a, 1)))
        BY <2>2, <2>5, TakesQuery, ZenonT(30)
      <3>2. m = a[1]
        BY <3>1, Zenon DEF Holds
      <3>3. Rest(a, 1) \in Seq(Messages)
        <4>1. 1 \in 0..Len(a)
          BY <3>1
        <4> QED
          BY <4>1, RestIs
      <3> HIDE DEF t, m, r
      <3>4. Found(r, Rest(a, 1), b, z)
        BY <2>3, <3>1, <3>3, Zenon DEF Finds
      <3>5. Found([r EXCEPT !.msgs = <<a[1]>> \o @], a, b, z)
        BY <2>4, <3>1, <3>4, OneMoreFound
      <3> QED
        BY <3>2, <3>5
    <2>6. s = [off |-> s.off, msgs |-> s.msgs]
      <3>1. PICK o, ms : r = [off |-> o, msgs |-> ms]
        BY <2>4, Zenon
      <3> HIDE DEF r, m
      <3>2. s = [off |-> o, msgs |-> <<m>> \o ms]
        BY <3>1, PutInFront, ZenonT(30)
      <3> HIDE DEF s
      <3>3. s.off = o /\ s.msgs = <<m>> \o ms
        BY <3>2
      <3> QED
        BY <3>2, <3>3
    <2> HIDE DEF s
    <2> QED
      BY <2>1, <2>5, <2>6, Zenon DEF Finds
  <1> QED
    BY <1>1, <1>2

\* dns_tcp_scan_frames takes whole queries out of b, in order, and nothing else.
LEMMA ScanIsRight ==
  ASSUME NEW b \in Seq(Nat), NEW z \in Seq(Nat), NEW a \in Seq(Messages),
         b \o z = FlattenSeq(FramesOf(a))
  PROVE  Found(Scan(b), a, b, z)
  <1>1. PICK f : Scan(b) = f[0] /\ \A off \in 0..Len(b) : f[off] = ScanStep(f, b, off)
    BY ScanIsLoop
  <1> DEFINE G(n) == \A off \in 0..Len(b) : Len(b) - off < n => Finds(f[off], b, z, off)
             S == {n \in Nat : G(n)}
  <1>2. Len(b) \in Nat /\ 0 \in 0..Len(b) /\ Len(b) - 0 < Len(b) + 1
        /\ \A off \in 0..Len(b) : Len(b) - off \in Nat
    OBVIOUS
  <1>3. G(0)
    BY <1>2
  <1>4. ASSUME NEW n \in Nat, G(n) PROVE G(n + 1)
    <2> SUFFICES ASSUME NEW off \in 0..Len(b), Len(b) - off < n + 1
                 PROVE  Finds(f[off], b, z, off)
      BY Zenon
    <2>1. ASSUME NEW t \in 0..Len(b), Len(b) - t < Len(b) - off
          PROVE  Finds(f[t], b, z, t)
      <3>1. Len(b) - t < n
        BY <1>2, <2>1
      <3> QED
        BY <1>4, <3>1, Zenon
    <2>2. Finds(ScanStep(f, b, off), b, z, off)
      BY <2>1, ScanStepIsRight
    <2> QED
      BY <1>1, <2>2
  <1> HIDE DEF G
  <1>5. 0 \in S /\ \A n \in Nat : n \in S => n + 1 \in S
    BY <1>3, <1>4
  <1>6. \A n \in S : G(n)
    OBVIOUS
  <1> HIDE DEF S
  <1>7. G(Len(b) + 1)
    <2>1. Len(b) + 1 \in Nat
      BY <1>2
    <2> QED
      BY <1>5, <1>6, <2>1, Induction
  <1>8. Finds(f[0], b, z, 0)
    BY <1>2, <1>7, Zenon DEF G
  <1>9. Rest(b, 0) = b
    BY RestOfAll
  <1> QED
    BY <1>1, <1>8, <1>9, Zenon DEF Finds

\* What a segment brings: of the queries a, n of them answered before, j are
\* now, and behind the last of those in b lie the rest.
Brings(r, b, z, a, n) ==
    /\ b \in Seq(Nat) /\ r.off \in 0..Len(b) /\ r.msgs \in Seq(Messages)
    /\ \E j \in 0..Len(a) :
          /\ Rest(b, r.off) \o z = FlattenSeq(FramesOf(Rest(a, j)))
          /\ RepliesTo(SubSeq(a, 1, n)) \o RepliesTo(r.msgs) = RepliesTo(SubSeq(a, 1, j))

\* dns_tcp_ingest takes up the stream wherever the last segment left it.
LEMMA SegmentIsRight ==
  ASSUME NEW a \in Seq(Messages), NEW x \in Seq(Nat), NEW u \in Seq(Nat), NEW c \in 0..Len(u),
         NEW n \in 0..Len(a), x \o u = FlattenSeq(FramesOf(Rest(a, n)))
  PROVE  Brings(Scan(x \o SubSeq(u, 1, c)), x \o SubSeq(u, 1, c), Rest(u, c), a, n)
  <1> DEFINE p == SubSeq(u, 1, c)
             z == Rest(u, c)
             b == x \o p
             t == Rest(a, n)
             r == Scan(b)
  <1>1. p \in Seq(Nat) /\ p \o z = u
    BY FirstAndRest
  <1>2. z \in Seq(Nat)
    BY RestIs
  <1>3. t \in Seq(Messages) /\ Len(t) = Len(a) - n
    BY RestIs
  <1> HIDE DEF p, z, t
  <1>4. b \o z = x \o u
    <2>1. (x \o p) \o z = x \o (p \o z)
      BY <1>1, <1>2, BytesChain, Zenon DEF Chained
    <2> QED
      BY <1>1, <2>1
  <1>5. b \in Seq(Nat)
    BY <1>1, ConcatProperties
  <1> HIDE DEF b
  <1>6. b \o z = FlattenSeq(FramesOf(t))
    BY <1>4 DEF t
  <1>7. Found(r, t, b, z)
    BY <1>2, <1>3, <1>5, <1>6, ScanIsRight
  <1> HIDE DEF r
  <1>8. PICK k \in 0..Len(t) : /\ r.msgs = SubSeq(t, 1, k)
                               /\ Rest(b, r.off) \o z = FlattenSeq(FramesOf(Rest(t, k)))
    BY <1>7, Zenon DEF Found
  <1>9. r.off \in 0..Len(b)
    BY <1>7, Zenon DEF Found
  <1>10. k \in 0..(Len(a) - n) /\ n + k \in 0..Len(a)
    BY <1>3
  <1>11. r.msgs \in Seq(Messages)
    BY <1>3, <1>8, FirstAndRest
  <1>12. Rest(b, r.off) \o z = FlattenSeq(FramesOf(Rest(a, n + k)))
    BY <1>8, <1>10, RestOfRest DEF t
  <1>13. RepliesTo(SubSeq(a, 1, n)) \o RepliesTo(r.msgs) = RepliesTo(SubSeq(a, 1, n + k))
    <2>1. SubSeq(a, 1, n) \in Seq(Messages)
      BY FirstAndRest
    <2>2. SubSeq(a, 1, n) \o SubSeq(t, 1, k) = SubSeq(a, 1, n + k)
      BY <1>10, FirstOfMore DEF t
    <2>3. RepliesTo(SubSeq(a, 1, n) \o r.msgs) = RepliesTo(SubSeq(a, 1, n)) \o RepliesTo(r.msgs)
      BY <1>11, <2>1, RepliesConcat
    <2> QED
      BY <1>8, <2>2, <2>3
  <1>14. Brings(r, b, z, a, n)
    BY <1>5, <1>9, <1>10, <1>11, <1>12, <1>13, Zenon DEF Brings
  <1> QED
    BY <1>14, Zenon DEF r, b, p, z

\* A query the App adds comes behind what it has not sent.
LEMMA QueryAdded ==
  ASSUME NEW a \in Seq(Messages), NEW m \in Messages, NEW x \in Seq(Nat), NEW u \in Seq(Nat),
         NEW n \in 0..Len(a), x \o u = FlattenSeq(FramesOf(Rest(a, n)))
  PROVE  /\ Append(a, m) \in Seq(Messages) /\ n \in 0..Len(Append(a, m))
         /\ u \o FrameOf(m) \in Seq(Nat)
         /\ x \o (u \o FrameOf(m)) = FlattenSeq(FramesOf(Rest(Append(a, m), n)))
         /\ SubSeq(Append(a, m), 1, n) = SubSeq(a, 1, n)
  <1> DEFINE s == Append(a, m)
             t == Rest(a, n)
             w == FrameOf(m)
             q == <<m>>
  <1>1. s \in Seq(Messages) /\ Len(s) = Len(a) + 1
    BY AppendProperties
  <1>2. n \in 0..Len(s)
    BY <1>1
  <1>3. w \in Seq(Nat)
    BY QueryFrame
  <1>4. t \in Seq(Messages)
    BY RestIs
  <1>5. q \in Seq(Messages)
    OBVIOUS
  <1>6. s = a \o q /\ Append(t, m) = t \o q
    <2> HIDE DEF t
    <2> QED
      BY <1>4, AppendIsConcat
  <1> HIDE DEF s, q, w
  <1>7. Rest(s, n) = Append(t, m) /\ SubSeq(s, 1, n) = SubSeq(a, 1, n)
    BY <1>5, <1>6, RestOfConcat
  <1> HIDE DEF t
  <1>8. FramesOf(Append(t, m)) = Append(FramesOf(t), w)
    BY <1>4, FramesOfAppend DEF w
  <1>9. FlattenSeq(Append(FramesOf(t), w)) = FlattenSeq(FramesOf(t)) \o w
    <2>1. FramesOf(t) \in Seq(Seq(Nat))
      BY <1>4, FramesAre
    <2> QED
      BY <1>3, <2>1, FlattenAppend
  <1>10. (x \o u) \o w = x \o (u \o w)
    BY <1>3, BytesChain, Zenon DEF Chained
  <1>11. x \o (u \o w) = FlattenSeq(FramesOf(Rest(s, n)))
    BY <1>7, <1>8, <1>9, <1>10 DEF t
  <1>12. u \o w \in Seq(Nat)
    BY <1>3, ConcatProperties
  <1> QED
    BY <1>1, <1>2, <1>7, <1>11, <1>12, Zenon DEF s, w

\* A sequence begins with what it was put together from.
LEMMA PrefixOfSum ==
  ASSUME NEW X, NEW x \in Seq(X), NEW y \in Seq(X)
  PROVE  IsPrefix(x, x \o y)
  <1>1. Len(x) \in Nat /\ Len(y) \in Nat /\ Len(x \o y) = Len(x) + Len(y) /\ Len(x) \in 0..Len(x)
    BY ConcatProperties
  <1>2. SubSeq(x \o y, 1, Len(x)) = SubSeq(x, 1, Len(x))
    BY <1>1, RestOfConcat
  <1> QED
    BY <1>1, <1>2 DEF IsPrefix

-----------------------------------------------------------------------------
(* The invariant.                                                           *)

\* What the variables hold.
DTyped ==
    /\ asked \in Seq(Messages) /\ unsent \in Seq(Nat) /\ dnsRx \in Seq(Nat)
    /\ srv \in Seq(Messages) /\ got \in Seq(Messages)
    /\ eof \in BOOLEAN /\ fin \in BOOLEAN

\* n queries have been taken out of the stream and answered.
Reached(n) ==
    /\ n \in 0..Len(asked)
    /\ gone # "rst" => dnsRx \o unsent = FlattenSeq(FramesOf(Rest(asked, n)))
    /\ gone = "no" => got \o srv = RepliesTo(SubSeq(asked, 1, n))
    /\ gone # "no" => IsPrefix(got, RepliesTo(SubSeq(asked, 1, n)))

\* srv_eof is set when nothing is left of the stream, and our FIN follows it as
\* soon as srv_buf is empty.
LastIsLast ==
    /\ fin => eof
    /\ eof => dnsRx = <<>>
    /\ eof /\ gone = "no" /\ srv = <<>> => fin

\* The inductive invariant.
DInv == DTyped /\ (\E n \in Nat : Reached(n)) /\ (MayCut = FALSE => LastIsLast)

\* The parts of the session the queries and answers are in.
Line == <<asked, unsent, dnsRx, srv, eof, fin, gone, got>>

\* They are all the invariant is about.
LEMMA LineKeeps ==
  ASSUME DInv, UNCHANGED Line
  PROVE  DInv'
  BY Zenon DEF DInv, DTyped, Reached, LastIsLast, Line

\* The connection is given up: what has arrived is still an answer to a first
\* part of the queries.
LEMMA ClosedKeeps ==
  ASSUME NEW how \in {"plain", "rst", "idle"}, DInv, gone = "no", Closed(how),
         asked' = asked, unsent' \in Seq(Nat), how # "rst" => unsent' = unsent
  PROVE  DInv'
  <1>1. DTyped /\ (MayCut = FALSE => LastIsLast)
    BY DEF DInv
  <1>2. PICK n \in Nat : Reached(n)
    BY Zenon DEF DInv
  <1>3. gone' = how /\ srv' = <<>> /\ dnsRx' = dnsRx /\ eof' = eof /\ fin' = fin /\ got' = got
    BY DEF Closed
  <1>4. gone' # "no" /\ (gone' # "rst" => unsent' = unsent)
    BY <1>3
  <1>5. DTyped'
    <2>1. srv' \in Seq(Messages)
      BY <1>3
    <2> QED
      BY <1>1, <1>3, <2>1 DEF DTyped
  <1>6. Reached(n)'
    <2>1. got \o srv = RepliesTo(SubSeq(asked, 1, n)) /\ n \in 0..Len(asked)
          /\ dnsRx \o unsent = FlattenSeq(FramesOf(Rest(asked, n)))
      BY <1>2 DEF Reached
    <2>2. IsPrefix(got, got \o srv)
      BY <1>1, PrefixOfSum DEF DTyped
    <2>3. IsPrefix(got', RepliesTo(SubSeq(asked', 1, n)))
      BY <1>3, <2>1, <2>2
    <2>4. gone' # "rst" => dnsRx' \o unsent' = FlattenSeq(FramesOf(Rest(asked', n)))
      BY <1>3, <1>4, <2>1
    <2> QED
      BY <1>4, <2>1, <2>3, <2>4, Zenon DEF Reached
  <1>7. (MayCut = FALSE => LastIsLast)'
    BY <1>1, <1>3, <1>4, Zenon DEF LastIsLast
  <1> QED
    BY <1>2, <1>5, <1>6, <1>7, Zenon DEF DInv

\* flush_tcp_srv_buf passes on what waits, or leaves it; a FIN goes out last.
LEMMA FlushIs ==
  ASSUME NEW waiting \in Seq(Messages), NEW last \in BOOLEAN, NEW w,
         got \in Seq(Messages), fin \in BOOLEAN, FlushOf(waiting, last, w)
  PROVE  /\ srv' \in Seq(Messages) /\ got' \in Seq(Messages) /\ fin' \in BOOLEAN
         /\ got' \o srv' = got \o waiting
         /\ fin' => fin \/ last
         /\ srv' = <<>> => (fin' <=> fin \/ last)
  <1>1. CASE srv' = <<>> /\ got' = got \o waiting /\ fin' = (fin \/ last)
    <2>1. got \o waiting \in Seq(Messages)
      BY ConcatProperties
    <2> DEFINE x == got \o waiting
    <2>2. x \in Seq(Messages)
      BY <2>1
    <2> HIDE DEF x
    <2>3. x \o <<>> = x /\ <<>> \in Seq(Messages)
      BY <2>2, ConcatEmptySeq
    <2>4. got' = x
      BY <1>1 DEF x
    <2>5. got' \o srv' = x
      BY <1>1, <2>3, <2>4
    <2>6. srv' \in Seq(Messages) /\ got' \in Seq(Messages)
      BY <1>1, <2>2, <2>3, <2>4
    <2>7. fin' \in BOOLEAN /\ (fin' <=> fin \/ last)
      BY <1>1, Zenon
    <2> QED
      BY <2>5, <2>6, <2>7, Zenon DEF x
  <1>2. CASE waiting # <<>> /\ srv' = waiting /\ got' = got /\ fin' = fin
    <2>1. srv' \in Seq(Messages) /\ got' \in Seq(Messages) /\ got' \o srv' = got \o waiting
      BY <1>2
    <2>2. srv' # <<>>
      BY <1>2
    <2>3. fin' \in BOOLEAN /\ (fin' => fin \/ last)
      BY <1>2, Zenon
    <2> QED
      BY <2>1, <2>2, <2>3, Zenon
  <1> QED
    BY <1>1, <1>2, Zenon DEF FlushOf

\* Passing on what waits changes nothing else.
LEMMA FlushKeeps ==
  ASSUME NEW w, DInv, gone = "no", FlushOf(srv, eof, w),
         UNCHANGED <<asked, unsent, dnsRx, eof, gone>>
  PROVE  DInv'
  <1>1. DTyped /\ (MayCut = FALSE => LastIsLast)
    BY DEF DInv
  <1>2. PICK n \in Nat : Reached(n)
    BY Zenon DEF DInv
  <1>3. asked' = asked /\ unsent' = unsent /\ dnsRx' = dnsRx /\ eof' = eof /\ gone' = gone
    OBVIOUS
  <1>4. srv \in Seq(Messages) /\ eof \in BOOLEAN /\ got \in Seq(Messages) /\ fin \in BOOLEAN
    BY <1>1 DEF DTyped
  <1>5. /\ srv' \in Seq(Messages) /\ got' \in Seq(Messages) /\ fin' \in BOOLEAN
        /\ got' \o srv' = got \o srv
        /\ fin' => fin \/ eof
        /\ srv' = <<>> => (fin' <=> fin \/ eof)
    BY <1>4, FlushIs
  <1>6. DTyped'
    BY <1>1, <1>3, <1>5, Zenon DEF DTyped
  <1>7. Reached(n)'
    BY <1>2, <1>3, <1>5, Zenon DEF Reached
  <1>8. (MayCut = FALSE => LastIsLast)'
    <2>1. (eof' <=> eof) /\ dnsRx' = dnsRx /\ MayCut' = MayCut
      BY <1>3
    <2>2. MayCut = FALSE => (fin => eof) /\ (eof => dnsRx = <<>>)
      BY <1>1, Zenon DEF LastIsLast
    <2>3. (fin' => fin \/ eof) /\ (srv' = <<>> => (fin' <=> fin \/ eof))
      BY <1>5
    <2> QED
      BY <2>1, <2>2, <2>3, Zenon DEF LastIsLast
  <1> QED
    BY <1>2, <1>6, <1>7, <1>8, Zenon DEF DInv

\* dns_tcp_ingest: the queries that are whole are answered behind the answers
\* that wait, or the connection is given up.
LEMMA IngestKeeps ==
  ASSUME NEW c \in 1..Len(unsent), DInv, gone = "no", ~fin, Ingest(c),
         srv # <<>> /\ ~AtBoundary(c) => MayCut,
         asked' = asked, unsent' = Past(unsent, c)
  PROVE  DInv'
  <1> DEFINE b == dnsRx \o SubSeq(unsent, 1, c)
             z == Rest(unsent, c)
             r == Scan(b)
             more == RepliesTo(r.msgs)
             waiting == srv \o more
             left == Rest(b, r.off)
             last == eof \/ left = <<>>
  <1>1. DTyped /\ (MayCut = FALSE => LastIsLast)
    BY DEF DInv
  <1>2. PICK n \in Nat : Reached(n)
    BY Zenon DEF DInv
  <1>3. asked \in Seq(Messages) /\ unsent \in Seq(Nat) /\ dnsRx \in Seq(Nat)
        /\ srv \in Seq(Messages) /\ got \in Seq(Messages) /\ eof \in BOOLEAN /\ fin \in BOOLEAN
    BY <1>1 DEF DTyped
  <1>4. n \in 0..Len(asked) /\ c \in 0..Len(unsent)
        /\ dnsRx \o unsent = FlattenSeq(FramesOf(Rest(asked, n)))
        /\ got \o srv = RepliesTo(SubSeq(asked, 1, n))
    BY <1>2, <1>3 DEF Reached
  <1>5. Brings(r, b, z, asked, n)
    BY <1>3, <1>4, SegmentIsRight
  <1>6. /\ dnsRx' = left /\ eof' = last
        /\ \/ gone' = "full" /\ srv' = <<>> /\ got' = got /\ fin' = fin
           \/ FlushOf(waiting, last, window') /\ gone' = gone
    BY Zenon DEF Ingest, Left, Emptied, Past, Rest
  <1>7. z \in Seq(Nat) /\ unsent' = z
    <2>1. unsent' = z
      BY Zenon DEF Past, Rest
    <2> QED
      BY <1>3, <1>4, <2>1, RestIs
  <1>8. AtBoundary(c) => r.off = Len(dnsRx) + c
    BY Zenon DEF AtBoundary
  <1>9. Len(b) = Len(dnsRx) + c
    <2>1. SubSeq(unsent, 1, c) \in Seq(Nat) /\ Len(SubSeq(unsent, 1, c)) = c
      BY <1>3, <1>4, FirstAndRest
    <2> DEFINE u == SubSeq(unsent, 1, c)
    <2>2. u \in Seq(Nat)
      BY <2>1
    <2> HIDE DEF u
    <2>3. Len(dnsRx \o u) = Len(dnsRx) + Len(u)
      BY <1>3, <2>2, ConcatProperties
    <2> QED
      BY <2>1, <2>3 DEF u
  <1> HIDE DEF b, z, r
  <1>10. b \in Seq(Nat) /\ r.off \in 0..Len(b) /\ r.msgs \in Seq(Messages)
    BY <1>5, Zenon DEF Brings
  <1>11. PICK j \in 0..Len(asked) :
            /\ Rest(b, r.off) \o z = FlattenSeq(FramesOf(Rest(asked, j)))
            /\ RepliesTo(SubSeq(asked, 1, n)) \o more = RepliesTo(SubSeq(asked, 1, j))
    BY <1>5, Zenon DEF Brings
  <1>12. left \in Seq(Nat)
    BY <1>10, RestIs
  <1>13. more \in Seq(Messages)
    BY <1>10, RepliesAre
  <1>14. left = <<>> \/ left # <<>>
    OBVIOUS
  <1>15. AtBoundary(c) => left = <<>>
    <2>1. Rest(b, Len(b)) = <<>>
      BY <1>10, RestOfAll
    <2> QED
      BY <1>8, <1>9, <2>1
  <1> HIDE DEF more, left
  <1>16. waiting \in Seq(Messages) /\ got \o waiting = RepliesTo(SubSeq(asked, 1, j))
    <2>1. waiting \in Seq(Messages)
      BY <1>3, <1>13, ConcatProperties
    <2>2. (got \o srv) \o more = got \o (srv \o more)
      <3>1. got \in Seq(Messages) /\ srv \in Seq(Messages) /\ more \in Seq(Messages)
        BY <1>3, <1>13
      <3> QED
        BY <3>1, Associative, SMTT(20)
    <2> QED
      BY <1>4, <1>11, <2>1, <2>2
  <1> HIDE DEF waiting
  <1>17. last \in BOOLEAN
    OBVIOUS
  <1>18. MayCut = FALSE => (last => left = <<>>)
    <2>1. CASE srv = <<>>
      <3>1. MayCut = FALSE => ~eof
        BY <1>1, <2>1 DEF LastIsLast
      <3> QED
        BY <3>1
    <2>2. CASE srv # <<>>
      BY <1>15, <2>2
    <2> QED
      BY <2>1, <2>2
  <1>19. dnsRx' = left /\ (eof' <=> last) /\ eof' \in BOOLEAN /\ eof' = last /\ MayCut' = MayCut
    BY <1>6, <1>17
  <1>20. j \in Nat
    OBVIOUS
  <1> HIDE DEF last
  <1>21. dnsRx' \o unsent' = FlattenSeq(FramesOf(Rest(asked', j))) /\ j \in 0..Len(asked')
    BY <1>7, <1>11, <1>19 DEF left
  <1>22. asked' \in Seq(Messages) /\ unsent' \in Seq(Nat) /\ dnsRx' \in Seq(Nat)
    BY <1>3, <1>7, <1>12, <1>19
  <1>23. CASE gone' = "full" /\ srv' = <<>> /\ got' = got /\ fin' = fin
    <2>1. gone' # "no" /\ ~fin' /\ fin' \in BOOLEAN
      BY <1>3, <1>23
    <2>2. srv' \in Seq(Messages) /\ got' \in Seq(Messages)
      BY <1>3, <1>23
    <2>3. DTyped'
      BY <1>19, <1>22, <2>1, <2>2, Zenon DEF DTyped
    <2>4. IsPrefix(got', RepliesTo(SubSeq(asked', 1, j)))
      <3>1. IsPrefix(got, got \o waiting)
        BY <1>3, <1>16, PrefixOfSum
      <3> QED
        BY <1>16, <1>23, <3>1
    <2>5. Reached(j)'
      BY <1>21, <2>1, <2>4, Zenon DEF Reached
    <2>6. (MayCut = FALSE => LastIsLast)'
      BY <1>18, <1>19, <2>1, Zenon DEF LastIsLast
    <2> QED
      BY <1>20, <2>3, <2>5, <2>6, Zenon DEF DInv
  <1>24. CASE FlushOf(waiting, last, window') /\ gone' = gone
    <2>1. /\ srv' \in Seq(Messages) /\ got' \in Seq(Messages) /\ fin' \in BOOLEAN
          /\ got' \o srv' = got \o waiting
          /\ fin' => fin \/ last
          /\ srv' = <<>> => (fin' <=> fin \/ last)
      BY <1>3, <1>16, <1>17, <1>24, FlushIs
    <2>2. gone' = "no"
      BY <1>24
    <2>3. DTyped'
      BY <1>19, <1>22, <2>1, Zenon DEF DTyped
    <2>4. got' \o srv' = RepliesTo(SubSeq(asked', 1, j))
      BY <1>16, <2>1
    <2>5. Reached(j)'
      BY <1>21, <2>2, <2>4, Zenon DEF Reached
    <2>6. (MayCut = FALSE => LastIsLast)'
      BY <1>18, <1>19, <2>1, <2>2, Zenon DEF LastIsLast
    <2> QED
      BY <1>20, <2>3, <2>5, <2>6, Zenon DEF DInv
  <1> QED
    BY <1>6, <1>23, <1>24, Zenon

\* At the beginning nothing has been asked.
LEMMA DnsInitIsRight == DnsInit => DInv
  <1> SUFFICES ASSUME DnsInit PROVE DInv
    OBVIOUS
  <1>1. /\ asked = <<>> /\ unsent = <<>> /\ dnsRx = <<>> /\ srv = <<>> /\ got = <<>>
        /\ eof = FALSE /\ fin = FALSE /\ gone = "no"
    BY DEF DnsInit
  <1>2. DTyped
    <2>1. <<>> \in Seq(Messages) /\ <<>> \in Seq(Nat)
      OBVIOUS
    <2>2. eof \in BOOLEAN /\ fin \in BOOLEAN
      BY <1>1, Zenon
    <2> QED
      BY <1>1, <2>1, <2>2, Zenon DEF DTyped
  <1>3. Reached(0)
    <2>1. <<>> \in Seq(Messages) /\ <<>> \o <<>> = <<>> /\ SubSeq(<<>>, 1, 0) = <<>> /\ 0 \in 0..Len(<<>>)
      OBVIOUS
    <2>2. Rest(asked, 0) = <<>>
      BY <1>1, <2>1, RestOfAll
    <2>3. FramesOf(<<>>) = <<>>
      <3> DEFINE fs == FramesOf(<<>>)
      <3>1. fs \in Seq(Seq(Nat)) /\ Len(fs) = 0
        BY <2>1, FramesAre
      <3> HIDE DEF fs
      <3>2. fs = <<>>
        BY <3>1
      <3> QED
        BY <3>2 DEF fs
    <2>4. dnsRx \o unsent = FlattenSeq(FramesOf(Rest(asked, 0)))
      BY <1>1, <2>1, <2>2, <2>3, FlattenEmpty
    <2>5. got \o srv = RepliesTo(SubSeq(asked, 1, 0))
      BY <1>1, <2>1, RepliesToNone
    <2> QED
      BY <1>1, <2>1, <2>4, <2>5 DEF Reached
  <1>4. LastIsLast
    BY <1>1 DEF LastIsLast
  <1> QED
    BY <1>2, <1>3, <1>4 DEF DInv

\* One more query: it comes behind the others.
LEMMA AppAsksKeeps ==
  ASSUME NEW m \in Messages, DInv, AppAsks(m)
  PROVE  DInv'
  <1>1. DTyped /\ (MayCut = FALSE => LastIsLast)
    BY DEF DInv
  <1>2. PICK n \in Nat : Reached(n)
    BY Zenon DEF DInv
  <1>3. /\ asked' = Append(asked, m) /\ unsent' = unsent \o FrameOf(m) /\ gone = "no"
        /\ dnsRx' = dnsRx /\ srv' = srv /\ eof' = eof /\ fin' = fin /\ gone' = gone /\ got' = got
    BY DEF AppAsks, sess
  <1>4. asked \in Seq(Messages) /\ dnsRx \in Seq(Nat) /\ unsent \in Seq(Nat)
    BY <1>1 DEF DTyped
  <1>5. n \in 0..Len(asked) /\ dnsRx \o unsent = FlattenSeq(FramesOf(Rest(asked, n)))
        /\ got \o srv = RepliesTo(SubSeq(asked, 1, n))
    BY <1>2, <1>3 DEF Reached
  <1>6. /\ asked' \in Seq(Messages) /\ n \in 0..Len(asked') /\ unsent' \in Seq(Nat)
        /\ dnsRx \o unsent' = FlattenSeq(FramesOf(Rest(asked', n)))
        /\ SubSeq(asked', 1, n) = SubSeq(asked, 1, n)
    <2>1. /\ Append(asked, m) \in Seq(Messages) /\ n \in 0..Len(Append(asked, m))
          /\ unsent \o FrameOf(m) \in Seq(Nat)
          /\ dnsRx \o (unsent \o FrameOf(m)) = FlattenSeq(FramesOf(Rest(Append(asked, m), n)))
          /\ SubSeq(Append(asked, m), 1, n) = SubSeq(asked, 1, n)
      BY <1>4, <1>5, QueryAdded
    <2> QED
      BY <1>3, <2>1, Zenon
  <1>7. DTyped'
    BY <1>1, <1>3, <1>6, Zenon DEF DTyped
  <1>8. got' \o srv' = RepliesTo(SubSeq(asked', 1, n)) /\ gone' = "no"
    BY <1>3, <1>5, <1>6
  <1>9. Reached(n)'
    BY <1>3, <1>6, <1>8, Zenon DEF Reached
  <1>10. (MayCut = FALSE => LastIsLast)'
    BY <1>1, <1>3, Zenon DEF LastIsLast
  <1> QED
    BY <1>2, <1>7, <1>9, <1>10, Zenon DEF DInv

\* A segment with data: dns_tcp_ingest, or a RST once our FIN is out.
LEMMA AppSendsKeeps ==
  ASSUME NEW c \in 1..Len(unsent), NEW w, DInv, AppSends(c, w)
  PROVE  DInv'
  <1>1. gone = "no" /\ asked' = asked /\ unsent' = Past(unsent, c)
        /\ ((srv # <<>> /\ ~AtBoundary(c)) => MayCut)
    BY DEF AppSends
  <1>2. CASE fin
    <2>1. Closed("rst")
      BY <1>2, Zenon DEF AppSends
    <2>2. unsent' \in Seq(Nat)
      <3>1. unsent \in Seq(Nat) /\ c \in 0..Len(unsent)
        BY DEF DInv, DTyped
      <3>2. Rest(unsent, c) \in Seq(Nat)
        BY <3>1, RestIs
      <3> QED
        BY <1>1, <3>2, Zenon DEF Past, Rest
    <2> QED
      BY <1>1, <2>1, <2>2, ClosedKeeps
  <1>3. CASE ~fin
    <2>1. Ingest(c)
      BY <1>3, Zenon DEF AppSends
    <2> QED
      BY <1>1, <1>3, <2>1, IngestKeeps
  <1> QED
    BY <1>2, <1>3

\* A bare ACK closes the session or lets more answers out.
LEMMA AppAcksKeeps ==
  ASSUME NEW w, DInv, AppAcks(w)
  PROVE  DInv'
  <1>1. gone = "no" /\ asked' = asked /\ unsent' = unsent /\ unsent \in Seq(Nat)
    BY DEF AppAcks, DInv, DTyped
  <1>2. CASE Closed("plain")
    <2>1. unsent' \in Seq(Nat)
      BY <1>1
    <2> QED
      BY <1>1, <1>2, <2>1, ClosedKeeps
  <1>3. CASE FlushWaiting /\ UNCHANGED <<dnsRx, eof, gone>>
    <2>1. FlushOf(srv, eof, window')
      BY <1>3, Zenon DEF FlushWaiting
    <2> QED
      BY <1>1, <1>3, <2>1, FlushKeeps
  <1> QED
    BY <1>2, <1>3, Zenon DEF AppAcks

\* The App's FIN.
LEMMA AppFinKeeps ==
  ASSUME NEW w, DInv, AppFin(w)
  PROVE  DInv'
  <1>1. gone = "no" /\ asked' = asked /\ unsent' = unsent /\ unsent \in Seq(Nat)
    BY DEF AppFin, DInv, DTyped
  <1>2. CASE Closed("plain")
    <2>1. unsent' \in Seq(Nat)
      BY <1>1
    <2> QED
      BY <1>1, <1>2, <2>1, ClosedKeeps
  <1>3. CASE FlushWaiting /\ UNCHANGED <<dnsRx, eof, gone>>
    <2>1. FlushOf(srv, eof, window')
      BY <1>3, Zenon DEF FlushWaiting
    <2> QED
      BY <1>1, <1>3, <2>1, FlushKeeps
  <1>4. CASE UNCHANGED <<sess, got>>
    <2>1. UNCHANGED Line
      BY <1>1, <1>4 DEF sess, Line
    <2> QED
      BY <2>1, LineKeeps
  <1> QED
    BY <1>2, <1>3, <1>4, Zenon DEF AppFin

\* tcp_flush_all_srv.
LEMMA TunHasRoomKeeps ==
  ASSUME DInv, TunHasRoom
  PROVE  DInv'
  <1>1. /\ gone = "no" /\ srv # <<>> /\ window /\ srv' = <<>> /\ got' = got \o srv
        /\ fin' = (fin \/ eof) /\ UNCHANGED <<asked, unsent, dnsRx, eof, gone>>
    BY DEF TunHasRoom, app
  <1>2. FlushOf(srv, eof, TRUE)
    BY <1>1, Zenon DEF FlushOf
  <1> QED
    BY <1>1, <1>2, FlushKeeps

\* The idle collection.
LEMMA IdleCloseKeeps ==
  ASSUME DInv, IdleClose
  PROVE  DInv'
  <1>1. gone = "no" /\ Closed("idle") /\ asked' = asked /\ unsent' = unsent
    BY DEF IdleClose, app
  <1>2. unsent' \in Seq(Nat)
    BY <1>1 DEF DInv, DTyped
  <1> QED
    BY <1>1, <1>2, ClosedKeeps

\* Every step of the connection keeps the invariant.
LEMMA DnsStep == DInv /\ [DnsNext]_dnsVars => DInv'
  <1> SUFFICES ASSUME DInv, [DnsNext]_dnsVars PROVE DInv'
    OBVIOUS
  <1>1. ASSUME NEW m \in Messages, AppAsks(m) PROVE DInv'
    BY <1>1, AppAsksKeeps
  <1>2. ASSUME NEW c \in 1..Len(unsent), NEW w \in BOOLEAN, AppSends(c, w) PROVE DInv'
    BY <1>2, AppSendsKeeps
  <1>3. ASSUME NEW w \in BOOLEAN, AppAcks(w) PROVE DInv'
    BY <1>3, AppAcksKeeps
  <1>4. ASSUME NEW w \in BOOLEAN, AppFin(w) PROVE DInv'
    BY <1>4, AppFinKeeps
  <1>5. CASE TunHasRoom
    BY <1>5, TunHasRoomKeeps
  <1>6. CASE IdleClose
    BY <1>6, IdleCloseKeeps
  <1>7. CASE UNCHANGED dnsVars
    <2>1. UNCHANGED Line
      BY <1>7 DEF dnsVars, app, sess, Line
    <2> QED
      BY <2>1, LineKeeps
  <1> QED
    BY <1>1, <1>2, <1>3, <1>4, <1>5, <1>6, <1>7, Zenon DEF DnsNext

\* What the invariant says of the queries and their answers.
LEMMA InvAnswers == DInv => AnsweredInOrder
  <1> SUFFICES ASSUME DInv PROVE AnsweredInOrder
    OBVIOUS
  <1>1. PICK n \in Nat : Reached(n)
    BY Zenon DEF DInv
  <1>2. n \in 0..Len(asked)
    BY <1>1 DEF Reached
  <1>3. asked \in Seq(Messages)
    BY DEF DInv, DTyped
  <1>4. SubSeq(AckedFrames, n + 1, Len(asked)) = FramesOf(Rest(asked, n))
    <2>1. DOMAIN asked = 1..Len(asked)
      BY <1>3
    <2>2. AckedFrames = FramesOf(asked)
      BY <2>1, Zenon DEF AckedFrames, FramesOf
    <2>3. Len(FramesOf(asked)) = Len(asked)
      BY <1>3, FramesAre
    <2>4. Rest(FramesOf(asked), n) = FramesOf(Rest(asked, n))
      BY <1>2, <1>3, FramesOfRest
    <2> QED
      BY <2>2, <2>3, <2>4, Zenon DEF Rest
  <1>5. dnsRx \o unsent = FlattenSeq(SubSeq(AckedFrames, n + 1, Len(asked))) \/ gone = "rst"
    BY <1>1, <1>4, Zenon DEF Reached
  <1>6. IF gone = "no" THEN got \o srv = RepliesTo(SubSeq(asked, 1, n))
        ELSE IsPrefix(got, RepliesTo(SubSeq(asked, 1, n)))
    BY <1>1, Zenon DEF Reached
  <1> QED
    BY <1>2, <1>5, <1>6, Zenon DEF AnsweredInOrder

-----------------------------------------------------------------------------
(* The theorems.                                                            *)

\* However the App cuts its stream of queries into segments, and whatever
\* waits for it, the engine answers the queries in order, each once, and
\* holds exactly the part of one that has come (dns_tcp_ingest).
THEOREM QueriesInOrder == DnsSpec => []AnsweredInOrder
  <1>1. DnsSpec => []DInv
    BY DnsInitIsRight, DnsStep, PTL DEF DnsSpec
  <1> QED
    BY <1>1, InvAnswers, PTL

\* Nor is a query cut off by our FIN, unless a segment ends inside it while
\* an answer waits (the case of tcp_sess.c:486 that MayCut adds).
THEOREM QueriesAreAnswered ==
  ASSUME MayCut = FALSE
  PROVE  DnsSpec => []QueriesAnswered
  <1>1. DnsSpec => []DInv
    BY DnsInitIsRight, DnsStep, PTL DEF DnsSpec
  <1>2. DInv => QueriesAnswered
    <2>1. DInv => NoQueryCut
      BY DEF DInv, LastIsLast, NoQueryCut
    <2> QED
      BY <2>1, InvAnswers DEF QueriesAnswered
  <1> QED
    BY <1>1, <1>2, PTL

=============================================================================
