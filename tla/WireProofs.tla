----------------------------- MODULE WireProofs ------------------------------
(***************************************************************************)
(* Proofs about Wire, for payloads, names, lists of options, of headers    *)
(* and of servers of any length a run is given, and about FakeDns, the     *)
(* other component whose state is a table or a message and nothing else.   *)
(*                                                                         *)
(* The properties of Wire are about functions of the input; the invariant  *)
(* is that the input is made of what its subject allows and is no longer   *)
(* than its bound (WireTypeOK, Room).  What is proved of the functions is  *)
(* more general than the properties:                                       *)
(*                                                                         *)
(*   - A ones' complement sum over bytes is the bytes at odd places, times *)
(*     256, and those at even places.  Adding carries back keeps what is   *)
(*     left of a division by 65535, and a complement fills it up to a      *)
(*     multiple: a checksum in the place of two zeros, or behind what it   *)
(*     is of, makes the whole verify (ChecksumVerifies, BehindVerifies).   *)
(*   - A packet is a header that says its length and a segment whose blank *)
(*     word is filled so (SegmentIsGood ... RebuiltIsGood).                *)
(*   - A list of options is walked from one option's start to the next one *)
(*     (ScaleRead).                                                        *)
(*   - In a packet with extension headers, after k hops the walk stands    *)
(*     behind the k-th one; it arrives, runs off what is cut off, or tires *)
(*     (ChainIsParsed).  A Fragment header changes two fields of what is   *)
(*     in front of it, and taking it out puts both back (FragmentIsRead).  *)
(*   - A message to the SOCKS5 server is laid end to end from fields that  *)
(*     say their own lengths (ConnectIsRead, DatagramIsRead, AuthIsRead).  *)
(*   - Routes are intervals, so a block is in one by its number alone      *)
(*     (EachBlockOnce); the servers asked are a front of a list without    *)
(*     repetition that has the network's own in front (AskingInOrder).     *)
(*   - Answers an App may still use stand for their names as long as no    *)
(*     more names than the table has entries are looked up within a TTL    *)
(*     and no soft reset comes in between (TableSoundHolds).               *)
(***************************************************************************)
EXTENDS Wire, FakeDns, FiniteSetTheorems, SequenceTheorems, WellFoundedInduction, TLAPS

LEMMA TypeInvariant == WireSpec => []WireTypeOK
  <1>1. WireInit => WireTypeOK
    BY DEF WireInit, WireTypeOK
  <1>2. WireTypeOK /\ [WireNext]_wireVars => WireTypeOK'
    <2> SUFFICES ASSUME WireTypeOK, [WireNext]_wireVars PROVE WireTypeOK'
      OBVIOUS
    <2>1. CASE UNCHANGED wireVars
      BY <2>1 DEF WireTypeOK, wireVars
    <2>2. ASSUME NEW e \in Alphabet[subject], Grow(e) PROVE WireTypeOK'
      <3>1. input \in Seq(Alphabet[subject]) /\ subject' = subject /\ input' = Append(input, e)
        BY <2>2 DEF WireTypeOK, Grow
      <3>2. input' \in Seq(Alphabet[subject])
        BY <3>1, AppendProperties
      <3> QED
        BY <3>1, <3>2 DEF WireTypeOK
    <2> QED
      BY <2>1, <2>2 DEF WireNext
  <1> QED
    BY <1>1, <1>2, PTL DEF WireSpec

-----------------------------------------------------------------------------
(* Recursion over a first part of the natural numbers.                      *)

\* What holds at 0 and passes on to the next number holds up to N.
LEMMA UpTo ==
  ASSUME NEW N \in Nat, NEW S, 0 \in S, \A n \in 1..N : n - 1 \in S => n \in S
  PROVE  \A n \in 0..N : n \in S
  <1> SUFFICES ASSUME NEW x \in 0..N, x \notin S PROVE FALSE
    OBVIOUS
  <1> DEFINE R == OpToRel(<, Nat)
             T == (0..N) \ S
  <1>1. IsWellFoundedOn(R, Nat)
    BY NatLessThanWellFounded
  <1>2. \A k, m \in Nat : k < m => <<k, m>> \in R
    BY DEF OpToRel
  <1>3. T \subseteq Nat /\ T # {}
    OBVIOUS
  <1> HIDE DEF R, T
  <1>4. PICK m \in T : \A k \in T : ~(<<k, m>> \in R)
    BY <1>1, <1>3, WFMin, Zenon
  <1>5. m \in 0..N /\ m \notin S /\ m # 0
    BY <1>4 DEF T
  <1>6. m \in 1..N /\ m - 1 \in 0..N /\ m - 1 \in Nat /\ m \in Nat /\ m - 1 < m
    BY <1>5
  <1>7. m - 1 \in S
    <2>1. <<m - 1, m>> \in R
      BY <1>2, <1>6
    <2> QED
      BY <1>4, <1>6, <2>1 DEF T
  <1> QED
    BY <1>5, <1>6, <1>7

\* From init, one step for each number.
Runs(f, N, init, step) ==
    f[0] = init /\ \A n \in 1..N : f[n] = step[n][f[n - 1]]

LEMMA RunExists ==
  ASSUME NEW T, NEW N \in Nat, NEW init \in T, NEW step \in [1..N -> [T -> T]]
  PROVE  \E f \in [0..N -> T] : Runs(f, N, init, step)
  <1> DEFINE G(n) == \E f \in [0..n -> T] : Runs(f, n, init, step)
             S == {n \in 0..N : G(n)}
  <1>1. G(0)
    <2> DEFINE f == [i \in 0..0 |-> init]
    <2>1. f \in [0..0 -> T] /\ Runs(f, 0, init, step)
      BY DEF Runs
    <2> QED
      BY <2>1
  <1>2. ASSUME NEW n \in 1..N, G(n - 1) PROVE G(n)
    <2>1. PICK f \in [0..(n - 1) -> T] : Runs(f, n - 1, init, step)
      BY <1>2
    <2>2. n - 1 \in 0..(n - 1) /\ n \in Nat /\ 0 \in 0..(n - 1)
      OBVIOUS
    <2>3. step[n][f[n - 1]] \in T
      BY <2>2
    <2> DEFINE h == [i \in 0..n |-> IF i = n THEN step[n][f[n - 1]] ELSE f[i]]
    <2>4. h \in [0..n -> T]
      BY <2>3
    <2>5. h[0] = init
      BY <2>1, <2>2 DEF Runs
    <2>6. ASSUME NEW i \in 1..n PROVE h[i] = step[i][h[i - 1]]
      <3>1. i - 1 \in 0..n /\ i - 1 # n /\ i \in 0..n
        BY <2>2
      <3>2. h[i - 1] = f[i - 1]
        BY <3>1
      <3>3. CASE i = n
        <4>1. h[i] = step[n][f[n - 1]]
          BY <3>1, <3>3
        <4> HIDE DEF h
        <4> QED
          BY <3>2, <3>3, <4>1
      <3>4. CASE i # n
        <4>1. h[i] = f[i] /\ i \in 1..(n - 1)
          BY <2>2, <3>1, <3>4
        <4> HIDE DEF h
        <4> QED
          BY <2>1, <3>2, <4>1 DEF Runs
      <3> QED
        BY <3>3, <3>4
    <2> HIDE DEF h
    <2> QED
      BY <2>4, <2>5, <2>6 DEF Runs
  <1> HIDE DEF G
  <1>3. 0 \in S /\ \A n \in 1..N : n - 1 \in S => n \in S
    BY <1>1, <1>2
  <1>4. \A n \in S : G(n)
    OBVIOUS
  <1> HIDE DEF S
  <1>5. \A n \in 0..N : n \in S
    BY <1>3, UpTo
  <1>6. N \in 0..N
    OBVIOUS
  <1> QED
    BY <1>4, <1>5, <1>6 DEF G

-----------------------------------------------------------------------------
(* Sums of bytes.                                                           *)

Byte == 0..255

\* f adds up the bytes of d at odd places, counted from 1, or at even ones.
Counts(f, d, odd) ==
    /\ f[0] = 0
    /\ \A n \in 1..Len(d) : f[n] = f[n - 1] + (IF n % 2 = odd THEN d[n] ELSE 0)

Total(d, odd) == (CHOOSE f \in [0..Len(d) -> Nat] : Counts(f, d, odd))[Len(d)]
High(d) == Total(d, 1)
Low(d)  == Total(d, 0)

LEMMA CountsExist ==
  ASSUME NEW d \in Seq(Nat), NEW odd
  PROVE  \E f \in [0..Len(d) -> Nat] : Counts(f, d, odd)
  <1> DEFINE step == [n \in 1..Len(d) |-> [t \in Nat |-> t + (IF n % 2 = odd THEN d[n] ELSE 0)]]
  <1>1. Len(d) \in Nat /\ \A n \in 1..Len(d) : d[n] \in Nat
    OBVIOUS
  <1>2. step \in [1..Len(d) -> [Nat -> Nat]]
    BY <1>1
  <1>3. \A n \in 1..Len(d), t \in Nat : step[n][t] = t + (IF n % 2 = odd THEN d[n] ELSE 0)
    OBVIOUS
  <1> HIDE DEF step
  <1>4. PICK f \in [0..Len(d) -> Nat] : Runs(f, Len(d), 0, step)
    BY <1>1, <1>2, RunExists
  <1>5. \A n \in 1..Len(d) : n - 1 \in 0..Len(d)
    BY <1>1
  <1> QED
    BY <1>3, <1>4, <1>5 DEF Runs, Counts

AlikeUpTo(N, d, e) == N <= Len(d) /\ N <= Len(e) /\ \A n \in 1..N : d[n] = e[n]

SameAt(N, f, g) == f[N] = g[N]

\* Two such functions agree.
LEMMA CountsOne ==
  ASSUME NEW d \in Seq(Nat), NEW odd, NEW f, NEW g, NEW e \in Seq(Nat), NEW N \in Nat,
         AlikeUpTo(N, d, e),
         Counts(f, d, odd), Counts(g, e, odd)
  PROVE  SameAt(N, f, g)
  <1> DEFINE S == {n \in 0..N : f[n] = g[n]}
  <1>1. 0 \in S
    BY DEF Counts
  <1>2. ASSUME NEW n \in 1..N, n - 1 \in S PROVE n \in S
    <2>1. n \in 1..Len(d) /\ n \in 1..Len(e) /\ f[n - 1] = g[n - 1] /\ d[n] = e[n] /\ n \in 0..N
      BY <1>2 DEF AlikeUpTo
    <2> QED
      BY <2>1 DEF Counts
  <1>3. \A n \in S : f[n] = g[n]
    OBVIOUS
  <1> HIDE DEF S
  <1>4. \A n \in 0..N : n \in S
    BY <1>1, <1>2, UpTo
  <1>5. N \in 0..N
    OBVIOUS
  <1> QED
    BY <1>3, <1>4, <1>5 DEF SameAt

LEMMA TotalIs ==
  ASSUME NEW d \in Seq(Nat), NEW odd
  PROVE  \E f \in [0..Len(d) -> Nat] : Counts(f, d, odd) /\ Total(d, odd) = f[Len(d)]
  BY CountsExist, Zenon DEF Total

LEMMA TotalType ==
  ASSUME NEW d \in Seq(Nat), NEW odd
  PROVE  Total(d, odd) \in Nat
  <1>1. PICK f \in [0..Len(d) -> Nat] : Total(d, odd) = f[Len(d)]
    BY TotalIs
  <1>2. Len(d) \in 0..Len(d)
    OBVIOUS
  <1> QED
    BY <1>1, <1>2

LEMMA EvenPlus ==
  ASSUME NEW m \in Nat, NEW n \in Nat, m % 2 = 0
  PROVE  (m + n) % 2 = n % 2
  OBVIOUS

\* Behind an even number of bytes the places keep their parity.
LEMMA TotalConcat ==
  ASSUME NEW a \in Seq(Nat), NEW b \in Seq(Nat), Len(a) % 2 = 0, NEW odd
  PROVE  Total(a \o b, odd) = Total(a, odd) + Total(b, odd)
  <1> DEFINE c == a \o b
             m == Len(a)
  <1>1. /\ c \in Seq(Nat) /\ Len(c) = m + Len(b) /\ m \in Nat /\ Len(b) \in Nat
        /\ \A n \in 1..m : c[n] = a[n]
        /\ \A n \in 1..Len(b) : c[m + n] = b[n]
    <2>1. c \in Seq(Nat) /\ Len(c) = m + Len(b) /\ m \in Nat /\ Len(b) \in Nat
      OBVIOUS
    <2>2. \A n \in 1..m : c[n] = a[n]
      BY <2>1
    <2>3. \A n \in 1..Len(b) : c[m + n] = b[n]
      BY <2>1
    <2> QED
      BY <2>1, <2>2, <2>3
  <1>2. m % 2 = 0
    OBVIOUS
  <1> HIDE DEF c, m
  <1>3. PICK f \in [0..Len(a) -> Nat] : Counts(f, a, odd) /\ Total(a, odd) = f[Len(a)]
    BY TotalIs
  <1>4. PICK g \in [0..Len(b) -> Nat] : Counts(g, b, odd) /\ Total(b, odd) = g[Len(b)]
    BY TotalIs
  <1>5. PICK h \in [0..Len(c) -> Nat] : Counts(h, c, odd) /\ Total(c, odd) = h[Len(c)]
    BY <1>1, TotalIs
  <1>6. h[m] = f[m]
    <2>1. m <= Len(a) /\ m <= Len(c) /\ m \in 0..m /\ Len(a) = m
      BY <1>1 DEF m
    <2>2. \A n \in 1..m : c[n] = a[n]
      BY <1>1
    <2>3. c \in Seq(Nat) /\ a \in Seq(Nat) /\ m \in Nat
      BY <1>1
    <2>5. Counts(h, c, odd)
      BY <1>5
    <2>6. Counts(f, a, odd)
      BY <1>3
    <2>4. AlikeUpTo(m, c, a)
      BY <2>1, <2>2 DEF AlikeUpTo
    <2>7. SameAt(m, h, f)
      BY <2>3, <2>4, <2>5, <2>6, CountsOne
    <2> QED
      BY <2>7 DEF SameAt
  <1> DEFINE S == {n \in 0..Len(b) : h[m + n] = f[m] + g[n]}
  <1>7. \A n \in 0..Len(b) : g[n] \in Nat
    BY <1>4
  <1>8. f[m] \in Nat
    <2>1. m = Len(a) /\ Len(a) \in 0..Len(a)
      BY <1>1 DEF m
    <2> QED
      BY <1>3, <2>1
  <1>9. 0 \in S
    BY <1>1, <1>4, <1>6, <1>8 DEF Counts
  <1>10. ASSUME NEW n \in 1..Len(b), n - 1 \in S PROVE n \in S
    <2>1. PICK k : k = m + n
      OBVIOUS
    <2>2. /\ k \in 1..Len(c) /\ k - 1 = m + (n - 1) /\ n \in 0..Len(b) /\ n - 1 \in 0..Len(b)
          /\ n \in Nat /\ m \in Nat
      BY <1>1, <2>1
    <2>3. k % 2 = n % 2
      BY <1>2, <2>1, <2>2, EvenPlus
    <2>4. h[k - 1] = f[m] + g[n - 1] /\ c[k] = b[n] /\ b[n] \in Nat
      BY <1>1, <1>10, <2>1, <2>2, SMTT(30)
    <2>5. PICK w \in Nat : w = IF n % 2 = odd THEN b[n] ELSE 0
      BY <2>4
    <2>6. h[k] = h[k - 1] + w
      <3>1. h[k] = h[k - 1] + (IF k % 2 = odd THEN c[k] ELSE 0)
        BY <1>5, <2>2, Zenon DEF Counts
      <3> QED
        BY <2>3, <2>4, <2>5, <3>1
    <2>7. g[n] = g[n - 1] + w
      BY <1>4, <2>5, Zenon DEF Counts
    <2>8. g[n - 1] \in Nat
      BY <1>7, <2>2
    <2>9. h[k] = f[m] + g[n]
      <3>1. PICK x \in Nat : x = f[m]
        BY <1>8
      <3>2. PICK y \in Nat : y = g[n - 1]
        BY <2>8
      <3>3. h[k - 1] = x + y
        BY <2>4, <3>1, <3>2
      <3>4. h[k] = (x + y) + w
        BY <2>6, <3>3
      <3>5. g[n] = y + w
        BY <2>7, <3>2
      <3>6. (x + y) + w = x + (y + w)
        BY <2>5, <3>1, <3>2
      <3> QED
        BY <3>1, <3>4, <3>5, <3>6
    <2> QED
      BY <2>1, <2>2, <2>9
  <1>11. \A n \in S : h[m + n] = f[m] + g[n]
    OBVIOUS
  <1> HIDE DEF S
  <1>12. Len(b) \in S
    <2>1. \A n \in 0..Len(b) : n \in S
      BY <1>1, <1>9, <1>10, UpTo
    <2> QED
      BY <1>1, <2>1
  <1> QED
    BY <1>1, <1>3, <1>4, <1>5, <1>11, <1>12 DEF c, m

\* One word.
LEMMA TotalPair ==
  ASSUME NEW x \in Nat, NEW y \in Nat
  PROVE  High(<<x, y>>) = x /\ Low(<<x, y>>) = y
  <1> DEFINE d == <<x, y>>
  <1>1. d \in Seq(Nat) /\ Len(d) = 2 /\ d[1] = x /\ d[2] = y
    OBVIOUS
  <1> HIDE DEF d
  <1>2. PICK f \in [0..Len(d) -> Nat] : Counts(f, d, 1) /\ Total(d, 1) = f[Len(d)]
    BY <1>1, TotalIs
  <1>3. PICK g \in [0..Len(d) -> Nat] : Counts(g, d, 0) /\ Total(d, 0) = g[Len(d)]
    BY <1>1, TotalIs
  <1>4. f[0] = 0 /\ f[1] = f[0] + x /\ f[2] = f[1] + 0
    BY <1>1, <1>2 DEF Counts
  <1>5. g[0] = 0 /\ g[1] = g[0] + 0 /\ g[2] = g[1] + y
    BY <1>1, <1>3 DEF Counts
  <1>6. Total(d, 1) = x /\ Total(d, 0) = y
    BY <1>1, <1>2, <1>3, <1>4, <1>5
  <1> QED
    BY <1>6 DEF d, High, Low

LEMMA TotalEmpty == High(<<>>) = 0 /\ Low(<<>>) = 0
  <1> DEFINE d == <<>>
  <1>1. d \in Seq(Nat) /\ Len(d) = 0
    OBVIOUS
  <1> HIDE DEF d
  <1>2. PICK f \in [0..Len(d) -> Nat] : Counts(f, d, 1) /\ Total(d, 1) = f[Len(d)]
    BY <1>1, TotalIs
  <1>3. PICK g \in [0..Len(d) -> Nat] : Counts(g, d, 0) /\ Total(d, 0) = g[Len(d)]
    BY <1>1, TotalIs
  <1>4. Total(d, 1) = 0 /\ Total(d, 0) = 0
    BY <1>1, <1>2, <1>3 DEF Counts
  <1> QED
    BY <1>4 DEF d, High, Low

-----------------------------------------------------------------------------
(* The sums of checksum.c and of a receiver.                                *)

Accumulates(acc, d, s) ==
    /\ acc[0] = s
    /\ \A n \in 1..Len(d) : acc[n] = acc[n - 1] + (IF n % 2 = 1 THEN d[n] ELSE 256 * d[n])

LEMMA AccumIs ==
  ASSUME NEW d \in Seq(Nat), NEW s \in Nat
  PROVE  \E acc : Accumulates(acc, d, s) /\ accum_swapped(d, s) = acc[Len(d)]
  <1> DEFINE Part(n) == IF n % 2 = 1 THEN d[n] ELSE 256 * d[n]
             Unfold(h) == [n \in 0..Len(d) |-> IF n = 0 THEN s
                                               ELSE h[n - 1] + (IF n % 2 = 1 THEN d[n] ELSE 256 * d[n])]
             step == [n \in 1..Len(d) |-> [t \in Nat |-> t + Part(n)]]
  <1>1. Len(d) \in Nat
    OBVIOUS
  <1>2. \A n \in 1..Len(d) : Part(n) \in Nat
    OBVIOUS
  <1> HIDE DEF Part
  <1>3. step \in [1..Len(d) -> [Nat -> Nat]]
    BY <1>2
  <1>4. \A n \in 1..Len(d), t \in Nat : step[n][t] = t + Part(n)
    OBVIOUS
  <1> HIDE DEF step
  <1>5. PICK f \in [0..Len(d) -> Nat] : Runs(f, Len(d), s, step)
    BY <1>1, <1>3, RunExists
  <1>6. \A n \in 1..Len(d) : f[n] = f[n - 1] + Part(n)
    <2>1. \A n \in 1..Len(d) : n - 1 \in 0..Len(d)
      BY <1>1
    <2> QED
      BY <1>4, <1>5, <2>1 DEF Runs
  <1>7. f = Unfold(f)
    <2>1. ASSUME NEW n \in 0..Len(d)
          PROVE f[n] = IF n = 0 THEN s ELSE f[n - 1] + Part(n)
      <3>1. n # 0 => n \in 1..Len(d)
        BY <1>1
      <3> QED
        BY <1>5, <1>6, <3>1 DEF Runs
    <2> QED
      BY <1>5, <2>1 DEF Part
  <1>8. accum_swapped(d, s) = (CHOOSE h : h = Unfold(h))[Len(d)]
    BY Zenon DEF accum_swapped
  <1>9. \E h : h = Unfold(h)
    BY <1>7, Zenon
  <1>10. PICK acc : acc = Unfold(acc) /\ accum_swapped(d, s) = acc[Len(d)]
    <2> HIDE DEF Unfold
    <2> QED
      BY <1>8, <1>9, Zenon
  <1>11. acc[0] = s
    BY <1>1, <1>10
  <1>12. ASSUME NEW n \in 1..Len(d)
         PROVE acc[n] = acc[n - 1] + (IF n % 2 = 1 THEN d[n] ELSE 256 * d[n])
    <2>1. n \in 0..Len(d) /\ n # 0
      BY <1>1
    <2>2. acc = Unfold(acc)
      BY <1>10
    <2>3. acc[n] = IF n = 0 THEN s ELSE acc[n - 1] + (IF n % 2 = 1 THEN d[n] ELSE 256 * d[n])
      BY <2>1, <2>2, Zenon
    <2> QED
      BY <2>1, <2>3
  <1> QED
    BY <1>10, <1>11, <1>12 DEF Accumulates

\* accum_swapped counts the bytes at even places 256 times.
LEMMA AccumSum ==
  ASSUME NEW d \in Seq(Nat), NEW s \in Nat
  PROVE  accum_swapped(d, s) = s + High(d) + 256 * Low(d)
  <1>1. PICK acc : Accumulates(acc, d, s) /\ accum_swapped(d, s) = acc[Len(d)]
    BY AccumIs
  <1>2. PICK f \in [0..Len(d) -> Nat] : Counts(f, d, 1) /\ Total(d, 1) = f[Len(d)]
    BY TotalIs
  <1>3. PICK g \in [0..Len(d) -> Nat] : Counts(g, d, 0) /\ Total(d, 0) = g[Len(d)]
    BY TotalIs
  <1> DEFINE S == {n \in 0..Len(d) : acc[n] = s + f[n] + 256 * g[n]}
  <1>4. 0 \in S
    BY <1>1, <1>2, <1>3 DEF Accumulates, Counts
  <1>5. ASSUME NEW n \in 1..Len(d), n - 1 \in S PROVE n \in S
    <2>1. n - 1 \in 0..Len(d) /\ n \in 0..Len(d) /\ d[n] \in Nat /\ n \in Nat
      OBVIOUS
    <2>2. PICK x \in Nat : x = f[n - 1]
      BY <2>1
    <2>3. PICK y \in Nat : y = g[n - 1]
      BY <2>1
    <2>4. PICK b \in Nat : b = d[n]
      BY <2>1
    <2>5. acc[n - 1] = s + x + 256 * y
      BY <1>5, <2>2, <2>3
    <2>6. n % 2 = 0 \/ n % 2 = 1
      BY <2>1
    <2>7. CASE n % 2 = 1
      <3>1. acc[n] = acc[n - 1] + b
        BY <1>1, <2>4, <2>7, Zenon DEF Accumulates
      <3>2. f[n] = x + b
        BY <1>2, <2>2, <2>4, <2>7, Zenon DEF Counts
      <3>3. g[n] = y + 0
        <4>1. n % 2 # 0
          BY <2>7
        <4> QED
          BY <1>3, <2>3, <4>1, Zenon DEF Counts
      <3>4. acc[n] = s + f[n] + 256 * g[n]
        BY <2>5, <3>1, <3>2, <3>3
      <3> QED
        BY <2>1, <3>4
    <2>8. CASE n % 2 = 0
      <3>0. n % 2 # 1
        BY <2>8
      <3>1. acc[n] = acc[n - 1] + 256 * b
        BY <1>1, <2>4, <3>0, Zenon DEF Accumulates
      <3>2. f[n] = x + 0
        BY <1>2, <2>2, <3>0, Zenon DEF Counts
      <3>3. g[n] = y + b
        BY <1>3, <2>3, <2>4, <2>8, Zenon DEF Counts
      <3>4. acc[n] = s + f[n] + 256 * g[n]
        BY <2>5, <3>1, <3>2, <3>3
      <3> QED
        BY <2>1, <3>4
    <2> QED
      BY <2>6, <2>7, <2>8
  <1>6. \A n \in S : acc[n] = s + f[n] + 256 * g[n]
    OBVIOUS
  <1>7. Len(d) \in Nat /\ Len(d) \in 0..Len(d)
    OBVIOUS
  <1> HIDE DEF S
  <1>8. \A n \in 0..Len(d) : n \in S
    BY <1>4, <1>5, <1>7, UpTo
  <1> QED
    BY <1>1, <1>2, <1>3, <1>6, <1>7, <1>8 DEF High, Low

SumsUp(sum, d) ==
    /\ sum[0] = 0
    /\ \A n \in 1..Len(d) : sum[n] = sum[n - 1] + (IF n % 2 = 1 THEN 256 * d[n] ELSE d[n])

LEMMA WordSumIs ==
  ASSUME NEW d \in Seq(Nat)
  PROVE  \E sum : SumsUp(sum, d) /\ WordSum(d) = sum[Len(d)]
  <1> DEFINE Part(n) == IF n % 2 = 1 THEN 256 * d[n] ELSE d[n]
             Unfold(h) == [n \in 0..Len(d) |-> IF n = 0 THEN 0
                                               ELSE h[n - 1] + (IF n % 2 = 1 THEN 256 * d[n] ELSE d[n])]
             step == [n \in 1..Len(d) |-> [t \in Nat |-> t + Part(n)]]
  <1>1. Len(d) \in Nat
    OBVIOUS
  <1>2. \A n \in 1..Len(d) : Part(n) \in Nat
    OBVIOUS
  <1> HIDE DEF Part
  <1>3. step \in [1..Len(d) -> [Nat -> Nat]]
    BY <1>2
  <1>4. \A n \in 1..Len(d), t \in Nat : step[n][t] = t + Part(n)
    OBVIOUS
  <1> HIDE DEF step
  <1>5. PICK f \in [0..Len(d) -> Nat] : Runs(f, Len(d), 0, step)
    BY <1>1, <1>3, RunExists
  <1>6. \A n \in 1..Len(d) : f[n] = f[n - 1] + Part(n)
    <2>1. \A n \in 1..Len(d) : n - 1 \in 0..Len(d)
      BY <1>1
    <2> QED
      BY <1>4, <1>5, <2>1 DEF Runs
  <1>7. f = Unfold(f)
    <2>1. ASSUME NEW n \in 0..Len(d)
          PROVE f[n] = IF n = 0 THEN 0 ELSE f[n - 1] + Part(n)
      <3>1. n # 0 => n \in 1..Len(d)
        BY <1>1
      <3> QED
        BY <1>5, <1>6, <3>1 DEF Runs
    <2> QED
      BY <1>5, <2>1 DEF Part
  <1>8. WordSum(d) = (CHOOSE h : h = Unfold(h))[Len(d)]
    BY Zenon DEF WordSum
  <1>9. \E h : h = Unfold(h)
    BY <1>7, Zenon
  <1>10. PICK sum : sum = Unfold(sum) /\ WordSum(d) = sum[Len(d)]
    <2> HIDE DEF Unfold
    <2> QED
      BY <1>8, <1>9, Zenon
  <1>11. sum[0] = 0
    BY <1>1, <1>10
  <1>12. ASSUME NEW n \in 1..Len(d)
         PROVE sum[n] = sum[n - 1] + (IF n % 2 = 1 THEN 256 * d[n] ELSE d[n])
    <2>1. n \in 0..Len(d) /\ n # 0
      BY <1>1
    <2>2. sum = Unfold(sum)
      BY <1>10
    <2>3. sum[n] = IF n = 0 THEN 0 ELSE sum[n - 1] + (IF n % 2 = 1 THEN 256 * d[n] ELSE d[n])
      BY <2>1, <2>2, Zenon
    <2> QED
      BY <2>1, <2>3
  <1> QED
    BY <1>10, <1>11, <1>12 DEF SumsUp

\* A receiver counts the bytes at odd places 256 times.
LEMMA WordSumSum ==
  ASSUME NEW d \in Seq(Nat)
  PROVE  WordSum(d) = 256 * High(d) + Low(d)
  <1>1. PICK sum : SumsUp(sum, d) /\ WordSum(d) = sum[Len(d)]
    BY WordSumIs
  <1>2. PICK f \in [0..Len(d) -> Nat] : Counts(f, d, 1) /\ Total(d, 1) = f[Len(d)]
    BY TotalIs
  <1>3. PICK g \in [0..Len(d) -> Nat] : Counts(g, d, 0) /\ Total(d, 0) = g[Len(d)]
    BY TotalIs
  <1> DEFINE S == {n \in 0..Len(d) : sum[n] = 256 * f[n] + g[n]}
  <1>4. 0 \in S
    BY <1>1, <1>2, <1>3 DEF SumsUp, Counts
  <1>5. ASSUME NEW n \in 1..Len(d), n - 1 \in S PROVE n \in S
    <2>1. n - 1 \in 0..Len(d) /\ n \in 0..Len(d) /\ d[n] \in Nat /\ n \in Nat
      OBVIOUS
    <2>2. PICK x \in Nat : x = f[n - 1]
      BY <2>1
    <2>3. PICK y \in Nat : y = g[n - 1]
      BY <2>1
    <2>4. PICK b \in Nat : b = d[n]
      BY <2>1
    <2>5. sum[n - 1] = 256 * x + y
      BY <1>5, <2>2, <2>3
    <2>6. n % 2 = 0 \/ n % 2 = 1
      BY <2>1
    <2>7. CASE n % 2 = 1
      <3>1. sum[n] = sum[n - 1] + 256 * b
        <4>1. sum[n] = sum[n - 1] + (IF n % 2 = 1 THEN 256 * d[n] ELSE d[n])
          BY <1>1, Zenon DEF SumsUp
        <4> QED
          BY <2>4, <2>7, <4>1
      <3>2. f[n] = x + b
        BY <1>2, <2>2, <2>4, <2>7, Zenon DEF Counts
      <3>3. g[n] = y + 0
        <4>1. n % 2 # 0
          BY <2>7
        <4> QED
          BY <1>3, <2>3, <4>1, Zenon DEF Counts
      <3>4. sum[n] = 256 * f[n] + g[n]
        BY <2>5, <3>1, <3>2, <3>3
      <3> QED
        BY <2>1, <3>4
    <2>8. CASE n % 2 = 0
      <3>0. n % 2 # 1
        BY <2>8
      <3>1. sum[n] = sum[n - 1] + b
        <4>1. sum[n] = sum[n - 1] + (IF n % 2 = 1 THEN 256 * d[n] ELSE d[n])
          BY <1>1, Zenon DEF SumsUp
        <4> QED
          BY <2>4, <3>0, <4>1
      <3>2. f[n] = x + 0
        BY <1>2, <2>2, <3>0, Zenon DEF Counts
      <3>3. g[n] = y + b
        BY <1>3, <2>3, <2>4, <2>8, Zenon DEF Counts
      <3>4. sum[n] = 256 * f[n] + g[n]
        BY <2>5, <3>1, <3>2, <3>3
      <3> QED
        BY <2>1, <3>4
    <2> QED
      BY <2>6, <2>7, <2>8
  <1>6. \A n \in S : sum[n] = 256 * f[n] + g[n]
    OBVIOUS
  <1>7. Len(d) \in Nat /\ Len(d) \in 0..Len(d)
    OBVIOUS
  <1> HIDE DEF S
  <1>8. \A n \in 0..Len(d) : n \in S
    BY <1>4, <1>5, <1>7, UpTo
  <1> QED
    BY <1>1, <1>2, <1>3, <1>6, <1>7, <1>8 DEF High, Low

-----------------------------------------------------------------------------
(* Carries added back.                                                      *)

LEMMA Halves ==
  ASSUME NEW s \in Nat
  PROVE  \E h, l \in Nat : /\ l = s % WordRange /\ h = s \div WordRange
                           /\ l < 65536 /\ s = 65536 * h + l
  BY DEF WordRange

LEMMA SameRest ==
  ASSUME NEW t \in Nat, NEW q \in Nat
  PROVE  (t + 65535 * q) % 65535 = t % 65535
  OBVIOUS

LEMMA SmallRest ==
  ASSUME NEW t \in Nat, t < 65535
  PROVE  t % 65535 = t
  OBVIOUS

LEMMA ModWord ==
  ASSUME NEW s \in Nat
  PROVE  \E r, q \in Nat : r = s % 65535 /\ r < 65535 /\ s = 65535 * q + r
  <1>1. \E q, r \in Nat : s = 65535 * q + r /\ r = s % 65535
    OBVIOUS
  <1>2. s % 65535 < 65535
    OBVIOUS
  <1> QED
    BY <1>1, <1>2

\* The rest of the division by 65535, from 1 on.
Wrapped(s) == ((s - 1) % 65535) + 1
Rest == [s \in Nat |-> IF s < WordRange THEN s ELSE Wrapped(s)]

LEMMA RestStep ==
  ASSUME NEW s \in Nat, s >= WordRange
  PROVE  /\ (s % WordRange) + (s \div WordRange) \in Nat
         /\ (s % WordRange) + (s \div WordRange) < s
         /\ Rest[s] = Rest[(s % WordRange) + (s \div WordRange)]
  <1>1. PICK h, l \in Nat : l = s % WordRange /\ h = s \div WordRange /\ l < 65536 /\ s = 65536 * h + l
    BY Halves
  <1>2. PICK t \in Nat : t = l + h
    OBVIOUS
  <1>3. t < s /\ t >= 1 /\ s = t + 65535 * h /\ t - 1 \in Nat
    BY <1>1, <1>2 DEF WordRange
  <1>4. s - 1 = (t - 1) + 65535 * h
    BY <1>3
  <1>5. (s - 1) % 65535 = (t - 1) % 65535
    BY <1>3, <1>4, SameRest
  <1>6. Rest[s] = Wrapped(s)
    <2>1. ~(s < WordRange)
      BY DEF WordRange
    <2> QED
      BY <2>1, Zenon DEF Rest
  <1>7. Rest[t] = Wrapped(t)
    <2>1. CASE t < WordRange
      <3>1. (t - 1) % 65535 = t - 1
        BY <1>3, <2>1, SmallRest DEF WordRange
      <3> QED
        BY <1>3, <2>1, <3>1 DEF Rest, Wrapped
    <2> QED
      BY <2>1 DEF Rest
  <1> QED
    BY <1>1, <1>2, <1>3, <1>5, <1>6, <1>7 DEF Wrapped

LEMMA FoldedIs ==
  ASSUME NEW sum \in Nat
  PROVE  Folded(sum) = Rest[sum]
  <1> DEFINE Unfold(h) == [s \in Nat |-> IF s < WordRange THEN s ELSE h[(s % WordRange) + (s \div WordRange)]]
  <1>1. Rest = Unfold(Rest)
    <2>1. \A s \in Nat : Rest[s] = IF s < WordRange THEN s ELSE Rest[(s % WordRange) + (s \div WordRange)]
      <3> TAKE s \in Nat
      <3>1. CASE s < WordRange
        BY <3>1 DEF Rest
      <3>2. CASE ~(s < WordRange)
        <4>1. s >= WordRange
          BY <3>2 DEF WordRange
        <4> QED
          BY <3>2, <4>1, RestStep
      <3> QED
        BY <3>1, <3>2
    <2> DEFINE R == Rest
    <2>2. R = [s \in Nat |-> R[s]]
      BY DEF Rest
    <2> HIDE DEF R
    <2> QED
      BY <2>1, <2>2 DEF R
  <1>2. Folded(sum) = (CHOOSE h : h = Unfold(h))[sum]
    BY Zenon DEF Folded
  <1>3. \E h : h = Unfold(h)
    BY <1>1, Zenon
  <1>4. PICK fold : fold = Unfold(fold) /\ Folded(sum) = fold[sum]
    <2> HIDE DEF Unfold
    <2> QED
      BY <1>2, <1>3, Zenon
  <1>5. \A s \in Nat : fold[s] = IF s < WordRange THEN s ELSE fold[(s % WordRange) + (s \div WordRange)]
    BY <1>4, Zenon
  <1> HIDE DEF Unfold
  <1> SUFFICES ASSUME fold[sum] # Rest[sum] PROVE FALSE
    BY <1>4
  <1> DEFINE R == OpToRel(<, Nat)
             T == {s \in Nat : fold[s] # Rest[s]}
  <1>6. IsWellFoundedOn(R, Nat)
    BY NatLessThanWellFounded
  <1>7. \A k, m \in Nat : k < m => <<k, m>> \in R
    BY DEF OpToRel
  <1>8. T \subseteq Nat /\ sum \in T
    OBVIOUS
  <1>9. \A s \in Nat : s \in T <=> fold[s] # Rest[s]
    OBVIOUS
  <1> HIDE DEF R, T
  <1>10. T # {}
    BY <1>8
  <1>11. PICK m \in T : \A k \in T : ~(<<k, m>> \in R)
    BY <1>6, <1>8, <1>10, WFMin, Zenon
  <1>12. m \in Nat /\ fold[m] # Rest[m]
    BY <1>8, <1>9, <1>11
  <1>13. CASE m < WordRange
    <2>1. Rest[m] = m
      BY <1>12, <1>13 DEF Rest
    <2> QED
      BY <1>5, <1>12, <1>13, <2>1
  <1>14. CASE ~(m < WordRange)
    <2>1. PICK k : k = (m % WordRange) + (m \div WordRange)
      OBVIOUS
    <2>2. k \in Nat /\ k < m /\ Rest[m] = Rest[k]
      <3>1. m >= WordRange
        BY <1>12, <1>14 DEF WordRange
      <3> QED
        BY <1>12, <2>1, <3>1, RestStep
    <2>3. fold[m] = fold[k]
      BY <1>5, <1>12, <1>14, <2>1, Zenon
    <2>4. k \notin T
      BY <1>7, <1>11, <1>12, <2>2
    <2> QED
      BY <1>9, <1>12, <2>2, <2>3, <2>4
  <1> QED
    BY <1>13, <1>14

\* The same word, but for carries.
SameWords(s, f, q) ==
    f \in Nat /\ q \in Nat /\ f <= 65535 /\ s = f + 65535 * q

LEMMA FoldedFacts ==
  ASSUME NEW s \in Nat
  PROVE  \E q : SameWords(s, Folded(s), q)
  <1>1. Folded(s) = Rest[s]
    BY FoldedIs
  <1>2. CASE s < WordRange
    <2>1. SameWords(s, s, 0)
      BY <1>2 DEF SameWords, WordRange
    <2>2. Folded(s) = s
      BY <1>1, <1>2 DEF Rest
    <2> QED
      BY <2>1, <2>2
  <1>3. CASE ~(s < WordRange)
    <2>1. Folded(s) = ((s - 1) % 65535) + 1
      BY <1>1, <1>3 DEF Rest, Wrapped
    <2>2. s - 1 \in Nat
      BY <1>3 DEF WordRange
    <2>3. PICK r, q \in Nat : r = (s - 1) % 65535 /\ r < 65535 /\ s - 1 = 65535 * q + r
      BY <2>2, ModWord, SMTT(30)
    <2>4. SameWords(s, r + 1, q)
      BY <2>3 DEF SameWords
    <2> QED
      BY <2>1, <2>3, <2>4
  <1> QED
    BY <1>2, <1>3

\* checksum_finish as two bytes: what is missing to all ones.
Completes(f, x, y) == x \in Nat /\ y \in Nat /\ x + 256 * y = 65535 - f

LEMMA FinishFacts ==
  ASSUME NEW s \in Nat
  PROVE  \E f, q, x, y :
           Word(checksum_finish(s)) = <<x, y>> /\ SameWords(s, f, q) /\ Completes(f, x, y)
  <1>1. PICK f, q : f = Folded(s) /\ SameWords(s, f, q)
    BY FoldedFacts
  <1>2. f \in Nat /\ f <= 65535
    BY <1>1 DEF SameWords
  <1>3. PICK r \in Nat : r = 65535 - f
    BY <1>2
  <1>4. r <= 65535 /\ f % 65536 = f
    BY <1>2, <1>3
  <1>5. PICK x, y \in Nat : x = r % 256 /\ y = r \div 256 /\ r = 256 * y + x
    OBVIOUS
  <1>6. x \in Byte /\ y \in Byte
    BY <1>4, <1>5 DEF Byte
  <1>7. checksum_finish(s) = x * 256 + y
    BY <1>1, <1>3, <1>4, <1>5 DEF checksum_finish
  <1>8. (x * 256 + y) \div 256 = x /\ (x * 256 + y) % 256 = y
    BY <1>6 DEF Byte
  <1>9. Word(checksum_finish(s)) = <<x, y>>
    BY <1>7, <1>8 DEF Word
  <1>10. Completes(f, x, y)
    BY <1>2, <1>3, <1>5 DEF Completes
  <1> QED
    BY <1>1, <1>9, <1>10

-----------------------------------------------------------------------------
(* A checksum among the words it sums up.                                   *)

\* One word among others.
LEMMA WordIn ==
  ASSUME NEW a \in Seq(Nat), NEW c \in Seq(Nat), Len(a) % 2 = 0, NEW x \in Nat, NEW y \in Nat
  PROVE  /\ High(a \o <<x, y>> \o c) = High(a) + x + High(c)
         /\ Low(a \o <<x, y>> \o c) = Low(a) + y + Low(c)
  <1> DEFINE m == <<x, y>>
             b == a \o m
  <1>1. m \in Seq(Nat) /\ Len(m) = 2
    OBVIOUS
  <1>2. High(m) = x /\ Low(m) = y
    BY TotalPair
  <1> HIDE DEF m
  <1>3. b \in Seq(Nat) /\ Len(b) = Len(a) + 2 /\ Len(a) \in Nat
    <2>1. b \in Seq(Nat) /\ Len(b) = Len(a) + Len(m)
      BY <1>1, ConcatProperties
    <2> QED
      BY <1>1, <2>1
  <1>4. Len(b) % 2 = 0
    BY <1>3
  <1>5. High(b) = High(a) + x /\ Low(b) = Low(a) + y
    BY <1>1, <1>2, TotalConcat DEF High, Low
  <1> HIDE DEF b
  <1>6. High(b \o c) = High(b) + High(c) /\ Low(b \o c) = Low(b) + Low(c)
    BY <1>3, <1>4, TotalConcat DEF High, Low
  <1>7. High(a) \in Nat /\ High(c) \in Nat /\ Low(a) \in Nat /\ Low(c) \in Nat
    BY TotalType DEF High, Low
  <1> QED
    BY <1>5, <1>6, <1>7 DEF b, m

\* A checksum of two bytes makes up for the rest of the sum.
Fills(sum, x, y) ==
    x \in Nat /\ y \in Nat /\ \E f, q : SameWords(sum, f, q) /\ Completes(f, x, y)

LEMMA FinishFills ==
  ASSUME NEW sum \in Nat
  PROVE  \E x, y : Word(checksum_finish(sum)) = <<x, y>> /\ Fills(sum, x, y)
  <1>1. PICK f, q, x, y :
           Word(checksum_finish(sum)) = <<x, y>> /\ SameWords(sum, f, q) /\ Completes(f, x, y)
    BY FinishFacts, Zenon
  <1>2. x \in Nat /\ y \in Nat
    BY <1>1 DEF Completes
  <1> QED
    BY <1>1, <1>2, Zenon DEF Fills

LEMMA FillsSum ==
  ASSUME NEW A \in Nat, NEW B \in Nat, NEW x, NEW y, NEW sum, sum = A + 256 * B,
         Fills(sum, x, y), NEW w, w = 256 * (A + x) + (B + y)
  PROVE  w > 0 /\ w % 65535 = 0
  <1>1. PICK f, q : SameWords(sum, f, q) /\ Completes(f, x, y)
    BY Zenon DEF Fills
  <1>2. /\ f \in Nat /\ q \in Nat /\ A + 256 * B = f + 65535 * q
        /\ x \in Nat /\ y \in Nat /\ x + 256 * y = 65535 - f
    BY <1>1 DEF SameWords, Completes
  <1>3. w > 0 /\ w \in Nat
    <2>1. w \in Nat
      BY <1>2
    <2>2. SUFFICES ASSUME w = 0 PROVE FALSE
      BY <2>1
    <2>3. A = 0 /\ B = 0 /\ x = 0 /\ y = 0
      BY <1>2, <2>2
    <2> QED
      BY <1>2, <2>3
  <1>4. PICK k \in Int : k = 256 * (q + 1) - (B + y)
    BY <1>2
  <1>5. w = 65535 * k
    BY <1>2, <1>4
  <1>6. k \in Nat /\ 0 + 65535 * k = w
    BY <1>3, <1>5
  <1>7. w % 65535 = 0 % 65535
    BY <1>6, SameRest
  <1>8. 0 % 65535 = 0
    BY SmallRest
  <1> QED
    BY <1>3, <1>7, <1>8

\* The word checksum_finish makes of a sum begun with the bytes of pre, put in
\* at an odd place where there were zeros, makes the whole verify.
THEOREM ChecksumVerifies ==
  ASSUME NEW pre \in Seq(Nat), Len(pre) % 2 = 0,
         NEW a \in Seq(Nat), Len(a) % 2 = 0, NEW c \in Seq(Nat)
  PROVE  LET sum == accum_swapped(a \o <<0, 0>> \o c, accum_swapped(pre, 0))
         IN Verifies(pre \o (a \o Word(checksum_finish(sum)) \o c))
  <1> DEFINE z == a \o <<0, 0>> \o c
             sum == accum_swapped(z, accum_swapped(pre, 0))
             P == High(pre)  Q == Low(pre)
             E == High(a) + High(c)
             F == Low(a) + Low(c)
  <1>1. P \in Nat /\ Q \in Nat
    BY TotalType DEF High, Low
  <1>2. High(a) \in Nat /\ High(c) \in Nat /\ Low(a) \in Nat /\ Low(c) \in Nat
    BY TotalType DEF High, Low
  <1>3. E \in Nat /\ F \in Nat
    BY <1>2
  <1>4. <<0, 0>> \in Seq(Nat)
    OBVIOUS
  <1>5. z \in Seq(Nat)
    BY <1>4, ConcatProperties
  <1>6. High(z) = E /\ Low(z) = F
    <2>1. High(z) = High(a) + 0 + High(c) /\ Low(z) = Low(a) + 0 + Low(c)
      BY WordIn
    <2> QED
      BY <1>2, <2>1
  <1> HIDE DEF z, E, F
  <1>7. accum_swapped(pre, 0) = P + 256 * Q
    <2>1. accum_swapped(pre, 0) = 0 + P + 256 * Q
      BY AccumSum
    <2> QED
      BY <1>1, <2>1
  <1> HIDE DEF P, Q
  <1>8. sum = (P + E) + 256 * (Q + F)
    <2>1. P + 256 * Q \in Nat
      BY <1>1
    <2>2. sum = (P + 256 * Q) + High(z) + 256 * Low(z)
      BY <1>5, <1>7, <2>1, AccumSum
    <2>3. sum = (P + 256 * Q) + E + 256 * F
      BY <1>6, <2>2
    <2> QED
      BY <1>1, <1>3, <2>3
  <1> HIDE DEF sum
  <1>9. P + E \in Nat /\ Q + F \in Nat /\ sum \in Nat
    BY <1>1, <1>3, <1>8
  <1>10. PICK x, y : Word(checksum_finish(sum)) = <<x, y>> /\ Fills(sum, x, y)
    BY <1>9, FinishFills
  <1>11. x \in Nat /\ y \in Nat
    BY <1>10 DEF Fills
  <1> DEFINE m == a \o <<x, y>> \o c
  <1>12. m \in Seq(Nat)
    <2>1. <<x, y>> \in Seq(Nat)
      BY <1>11
    <2> QED
      BY <2>1, ConcatProperties
  <1>13. High(m) = E + x /\ Low(m) = F + y
    <2>1. High(m) = High(a) + x + High(c) /\ Low(m) = Low(a) + y + Low(c)
      BY <1>11, WordIn
    <2> QED
      BY <1>2, <1>11, <2>1 DEF E, F
  <1> HIDE DEF m
  <1>14. High(pre \o m) = P + High(m) /\ Low(pre \o m) = Q + Low(m)
    BY <1>12, TotalConcat DEF High, Low, P, Q
  <1>15. WordSum(pre \o m) = 256 * ((P + E) + x) + ((Q + F) + y)
    <2>1. pre \o m \in Seq(Nat)
      BY <1>12, ConcatProperties
    <2>2. WordSum(pre \o m) = 256 * (P + (E + x)) + (Q + (F + y))
      BY <1>13, <1>14, <2>1, WordSumSum, Zenon
    <2> QED
      BY <1>1, <1>3, <1>11, <2>2
  <1>16. Verifies(pre \o m)
    <2>1. WordSum(pre \o m) > 0 /\ WordSum(pre \o m) % 65535 = 0
      BY <1>8, <1>9, <1>10, <1>15, FillsSum
    <2> QED
      BY <2>1 DEF Verifies
  <1> QED
    BY <1>10, <1>16, Zenon DEF m, sum, z

-----------------------------------------------------------------------------
(* Parts of what is laid end to end.                                        *)

LEMMA CutMiddle ==
  ASSUME NEW X, NEW a \in Seq(X), NEW b \in Seq(X), NEW c \in Seq(X)
  PROVE  SubSeq(a \o b \o c, Len(a) + 1, Len(a) + Len(b)) = b
  <1> DEFINE s == a \o b \o c
             p == SubSeq(s, Len(a) + 1, Len(a) + Len(b))
  <1>1. Len(a) \in Nat /\ Len(b) \in Nat /\ Len(c) \in Nat
    BY LenProperties
  <1>2. a \o b \in Seq(X) /\ Len(a \o b) = Len(a) + Len(b)
    BY ConcatProperties
  <1>3. s \in Seq(X) /\ Len(s) = Len(a) + Len(b) + Len(c)
    BY <1>2, ConcatProperties
  <1>4. \A i \in 1..Len(b) : s[Len(a) + i] = b[i]
    <2> TAKE i \in 1..Len(b)
    <2>1. Len(a) + i \in 1..(Len(a) + Len(b)) /\ ~(Len(a) + i <= Len(a)) /\ Len(a) + i - Len(a) = i
      BY <1>1
    <2>2. (a \o b)[Len(a) + i] = b[i]
      BY <2>1, ConcatProperties
    <2>3. s[Len(a) + i] = (a \o b)[Len(a) + i]
      BY <1>1, <1>2, <2>1, ConcatProperties
    <2> QED
      BY <2>2, <2>3
  <1> HIDE DEF s
  <1>5. p \in Seq(X) /\ Len(p) = Len(b) /\ \A i \in 1..Len(b) : p[i] = s[Len(a) + i]
    <2>1. \A i \in (Len(a) + 1)..(Len(a) + Len(b)) : s[i] \in X
      BY <1>1, <1>3
    <2>2. Len(a) + Len(b) - (Len(a) + 1) + 1 = Len(b) /\ (Len(a) + 1 <= Len(a) + Len(b) <=> Len(b) # 0)
      BY <1>1
    <2>3. /\ p \in Seq(X) /\ Len(p) = Len(b)
          /\ \A i \in 1..Len(b) : p[i] = s[Len(a) + 1 + i - 1]
      BY <1>1, <2>1, <2>2, SubSeqProperties
    <2>4. \A i \in 1..Len(b) : Len(a) + 1 + i - 1 = Len(a) + i
      BY <1>1
    <2> QED
      BY <2>3, <2>4
  <1> HIDE DEF p
  <1>6. p = b
    BY <1>4, <1>5, SeqEqual
  <1> QED
    BY <1>6 DEF p, s

LEMMA CutEnd ==
  ASSUME NEW X, NEW a \in Seq(X), NEW b \in Seq(X)
  PROVE  From(a \o b, Len(a) + 1) = b
  <1>1. (a \o b) \o <<>> = a \o b /\ a \o b \in Seq(X) /\ Len(a \o b) = Len(a) + Len(b)
    BY ConcatProperties, ConcatEmptySeq
  <1>2. <<>> \in Seq(X)
    OBVIOUS
  <1>3. SubSeq(a \o b \o <<>>, Len(a) + 1, Len(a) + Len(b)) = b
    BY <1>2, CutMiddle
  <1> QED
    BY <1>1, <1>3 DEF From

LEMMA CutFront ==
  ASSUME NEW X, NEW a \in Seq(X), NEW b \in Seq(X)
  PROVE  SubSeq(a \o b, 1, Len(a)) = a
  <1>1. <<>> \in Seq(X) /\ Len(<<>>) = 0 /\ <<>> \o a = a
    BY ConcatEmptySeq
  <1>2. SubSeq(<<>> \o a \o b, Len(<<>>) + 1, Len(<<>>) + Len(a)) = a
    BY <1>1, CutMiddle
  <1>3. Len(a) \in Nat
    OBVIOUS
  <1>4. 0 + 1 = 1 /\ 0 + Len(a) = Len(a)
    BY <1>3
  <1> QED
    BY <1>1, <1>2, <1>4

\* What is put in place of as many elements.
PutAs(a, b, c, w) == Put(a \o b \o c, Len(a) + 1, w) = a \o w \o c

LEMMA PutMiddle ==
  ASSUME NEW a \in Seq(Nat), NEW b \in Seq(Nat), NEW c \in Seq(Nat), NEW w \in Seq(Nat),
         Len(w) = Len(b)
  PROVE  PutAs(a, b, c, w)
  <1> DEFINE s == a \o b \o c
  <1>1. a \o b \in Seq(Nat) /\ b \o c \in Seq(Nat) /\ Len(a \o b) = Len(a) + Len(b)
    BY ConcatProperties
  <1>2. s = a \o (b \o c)
    BY ConcatAssociative
  <1>3. SubSeq(s, 1, Len(a)) = a
    BY <1>1, <1>2, CutFront
  <1>4. From(s, Len(a) + Len(b) + 1) = c
    BY <1>1, CutEnd
  <1>5. Len(a) \in Nat /\ Len(b) \in Nat
    OBVIOUS
  <1>6. (Len(a) + 1) - 1 = Len(a) /\ Len(a) + 1 + Len(w) = Len(a) + Len(b) + 1
    BY <1>5
  <1> HIDE DEF s
  <1>7. Put(s, Len(a) + 1, w) = a \o w \o c
    <2>1. Put(s, Len(a) + 1, w)
            = SubSeq(s, 1, (Len(a) + 1) - 1) \o w \o From(s, Len(a) + 1 + Len(w))
      BY DEF Put
    <2>2. SubSeq(s, 1, (Len(a) + 1) - 1) = a /\ From(s, Len(a) + 1 + Len(w)) = c
      BY <1>3, <1>4, <1>6
    <2> QED
      BY <2>1, <2>2, Zenon
  <1> QED
    BY <1>7 DEF s, PutAs

\* The first elements, one by one.
LEMMA FrontElements ==
  ASSUME NEW X, NEW a \in Seq(X), NEW b \in Seq(X), NEW i \in 1..Len(a)
  PROVE  (a \o b)[i] = a[i]
  BY ConcatProperties

\* ... and the last ones.
LEMMA BackElements ==
  ASSUME NEW X, NEW a \in Seq(X), NEW b \in Seq(X), NEW i \in 1..Len(b)
  PROVE  (a \o b)[Len(a) + i] = b[i]
  <1>1. Len(a) \in Nat /\ Len(b) \in Nat
    OBVIOUS
  <1>2. Len(a) + i \in 1..(Len(a) + Len(b)) /\ ~(Len(a) + i <= Len(a)) /\ (Len(a) + i) - Len(a) = i
    BY <1>1
  <1> QED
    BY <1>2, ConcatProperties

\* s is a and b joined, with a name for each.
Joined(s, a, b) ==
    /\ a \in Seq(Nat) /\ b \in Seq(Nat) /\ s = a \o b
    /\ s \in Seq(Nat) /\ Len(s) = Len(a) + Len(b)

LEMMA Join ==
  ASSUME NEW a \in Seq(Nat), NEW b \in Seq(Nat)
  PROVE  Joined(a \o b, a, b)
  BY ConcatProperties DEF Joined

LEMMA SomeJoined ==
  ASSUME NEW a \in Seq(Nat), NEW b \in Seq(Nat)
  PROVE  \E s : Joined(s, a, b)
  BY Join

LEMMA RegroupRight ==
  ASSUME NEW a, NEW b, NEW c, NEW ab, NEW bc, NEW s,
         Joined(ab, a, b), Joined(bc, b, c), Joined(s, ab, c)
  PROVE  Joined(s, a, bc)
  <1>1. /\ a \in Seq(Nat) /\ b \in Seq(Nat) /\ c \in Seq(Nat) /\ bc \in Seq(Nat)
        /\ s = (a \o b) \o c /\ bc = b \o c
    BY DEF Joined
  <1>2. (a \o b) \o c = a \o (b \o c)
    BY <1>1, ConcatAssociative
  <1>3. s = a \o bc
    BY <1>1, <1>2
  <1> QED
    BY <1>1, <1>3, Join

LEMMA RegroupLeft ==
  ASSUME NEW a, NEW b, NEW c, NEW ab, NEW bc, NEW s,
         Joined(ab, a, b), Joined(bc, b, c), Joined(s, a, bc)
  PROVE  Joined(s, ab, c)
  <1>1. /\ a \in Seq(Nat) /\ b \in Seq(Nat) /\ c \in Seq(Nat) /\ ab \in Seq(Nat)
        /\ s = a \o (b \o c) /\ ab = a \o b
    BY DEF Joined
  <1>2. (a \o b) \o c = a \o (b \o c)
    BY <1>1, ConcatAssociative
  <1>3. s = ab \o c
    BY <1>1, <1>2
  <1> QED
    BY <1>1, <1>3, Join

LEMMA JoinedFront ==
  ASSUME NEW a, NEW b, NEW s, Joined(s, a, b)
  PROVE  SubSeq(s, 1, Len(a)) = a /\ \A i \in 1..Len(a) : s[i] = a[i]
  <1>1. a \in Seq(Nat) /\ b \in Seq(Nat) /\ s = a \o b
    BY DEF Joined
  <1> QED
    BY <1>1, CutFront, FrontElements

Behind(s, n, b) == \A i \in 1..Len(b) : s[n + i] = b[i]

LEMMA JoinedBack ==
  ASSUME NEW a, NEW b, NEW s, Joined(s, a, b)
  PROVE  Behind(s, Len(a), b)
  <1>1. a \in Seq(Nat) /\ b \in Seq(Nat) /\ s = a \o b
    BY DEF Joined
  <1>2. \A i \in 1..Len(b) : (a \o b)[Len(a) + i] = b[i]
    BY <1>1, BackElements
  <1> QED
    BY <1>1, <1>2 DEF Behind

LEMMA JoinedEnd ==
  ASSUME NEW a, NEW b, NEW s, Joined(s, a, b)
  PROVE  From(s, Len(a) + 1) = b
  <1>1. a \in Seq(Nat) /\ b \in Seq(Nat) /\ s = a \o b
    BY DEF Joined
  <1> QED
    BY <1>1, CutEnd

LEMMA JoinedMiddle ==
  ASSUME NEW a, NEW b, NEW c, NEW ab, NEW s, Joined(ab, a, b), Joined(s, ab, c)
  PROVE  SubSeq(s, Len(a) + 1, Len(ab)) = b
  <1>1. /\ a \in Seq(Nat) /\ b \in Seq(Nat) /\ c \in Seq(Nat)
        /\ s = (a \o b) \o c /\ Len(ab) = Len(a) + Len(b)
    BY DEF Joined
  <1> QED
    BY <1>1, CutMiddle

LEMMA JoinedLen ==
  ASSUME NEW a, NEW b, NEW s, Joined(s, a, b)
  PROVE  /\ s \in Seq(Nat) /\ a \in Seq(Nat) /\ b \in Seq(Nat)
         /\ Len(s) \in Nat /\ Len(a) \in Nat /\ Len(b) \in Nat
         /\ Len(s) = Len(a) + Len(b)
  BY DEF Joined

LEMMA AccumNat ==
  ASSUME NEW d \in Seq(Nat), NEW s \in Nat
  PROVE  accum_swapped(d, s) \in Nat
  <1>1. High(d) \in Nat /\ Low(d) \in Nat
    BY TotalType DEF High, Low
  <1>2. accum_swapped(d, s) = s + High(d) + 256 * Low(d)
    BY AccumSum
  <1> QED
    BY <1>1, <1>2

LEMMA NothingSummed == accum_swapped(<<>>, 0) = 0
  <1>1. High(<<>>) = 0 /\ Low(<<>>) = 0
    BY TotalEmpty
  <1>2. <<>> \in Seq(Nat)
    OBVIOUS
  <1>3. accum_swapped(<<>>, 0) = 0 + High(<<>>) + 256 * Low(<<>>)
    BY <1>2, AccumSum
  <1> QED
    BY <1>1, <1>3

-----------------------------------------------------------------------------
(* What stands where.                                                       *)

LEMMA WordType ==
  ASSUME NEW n \in Nat
  PROVE  Word(n) \in Seq(Nat) /\ Len(Word(n)) = 2
  <1>1. n \div 256 \in Nat /\ n % 256 \in Nat
    OBVIOUS
  <1> QED
    BY <1>1 DEF Word

LEMMA BehindCut ==
  ASSUME NEW s \in Seq(Nat), NEW n \in Nat, NEW b \in Seq(Nat), n + Len(b) <= Len(s), Behind(s, n, b)
  PROVE  SubSeq(s, n + 1, n + Len(b)) = b
  <1>1. PICK m \in Nat, l \in Nat : m = Len(b) /\ l = Len(s)
    OBVIOUS
  <1>2. PICK p : p = SubSeq(s, n + 1, n + m)
    OBVIOUS
  <1>3. p \in Seq(Nat) /\ Len(p) = m /\ \A i \in 1..m : p[i] = s[n + i]
    BY <1>1, <1>2, SubSeqProperties
  <1>4. \A i \in 1..m : p[i] = b[i]
    BY <1>1, <1>3 DEF Behind
  <1>5. p = b
    BY <1>1, <1>3, <1>4, SeqEqual
  <1> QED
    BY <1>1, <1>2, <1>5

LEMMA BehindJoined ==
  ASSUME NEW s, NEW a, NEW b, Joined(s, a, b), NEW n \in Nat, NEW p \in Seq(Nat),
         n + Len(p) <= Len(a), Behind(a, n, p)
  PROVE  Behind(s, n, p)
  <1>1. \A i \in 1..Len(a) : s[i] = a[i]
    BY JoinedFront
  <1>2. Len(a) \in Nat
    BY JoinedLen
  <1>3. \A i \in 1..Len(p) : n + i \in 1..Len(a)
    BY <1>2
  <1> QED
    BY <1>1, <1>3 DEF Behind

LEMMA CutJoined ==
  ASSUME NEW s, NEW a, NEW b, Joined(s, a, b), NEW n \in Nat, NEW p \in Seq(Nat),
         n + Len(p) <= Len(a), Behind(a, n, p)
  PROVE  SubSeq(s, n + 1, n + Len(p)) = p
  <1>1. Behind(s, n, p)
    BY BehindJoined
  <1>2. s \in Seq(Nat) /\ n + Len(p) <= Len(s)
    <2>1. /\ s \in Seq(Nat) /\ Len(s) = Len(a) + Len(b) /\ Len(a) \in Nat /\ Len(b) \in Nat
          /\ Len(p) \in Nat
      BY JoinedLen
    <2> QED
      BY <2>1
  <1> QED
    BY <1>1, <1>2, BehindCut

LEMMA JoinedWhole ==
  ASSUME NEW s, NEW a, NEW b, Joined(s, a, b)
  PROVE  Behind(s, 0, a)
  <1>1. \A i \in 1..Len(a) : s[i] = a[i]
    BY JoinedFront
  <1>2. \A i \in 1..Len(a) : 0 + i = i
    BY JoinedLen
  <1> QED
    BY <1>1, <1>2 DEF Behind

-----------------------------------------------------------------------------
(* FlattenSeq.                                                              *)

\* What is laid end to end, part by part.
Sums(g, s) == g[0] = <<>> /\ \A n \in 1..Len(s) : g[n] = g[n - 1] \o s[n]

LEMMA SumsExist ==
  ASSUME NEW s \in Seq(Seq(Nat))
  PROVE  \E g \in [0..Len(s) -> Seq(Nat)] : Sums(g, s)
  <1> DEFINE step == [n \in 1..Len(s) |-> [t \in Seq(Nat) |-> t \o s[n]]]
  <1>1. Len(s) \in Nat /\ <<>> \in Seq(Nat) /\ \A n \in 1..Len(s) : s[n] \in Seq(Nat)
    OBVIOUS
  <1>2. step \in [1..Len(s) -> [Seq(Nat) -> Seq(Nat)]]
    BY <1>1, ConcatProperties
  <1>3. \A n \in 1..Len(s), t \in Seq(Nat) : step[n][t] = t \o s[n]
    OBVIOUS
  <1> HIDE DEF step
  <1>4. PICK g \in [0..Len(s) -> Seq(Nat)] : Runs(g, Len(s), <<>>, step)
    BY <1>1, <1>2, RunExists
  <1>5. \A n \in 1..Len(s) : n - 1 \in 0..Len(s)
    BY <1>1
  <1> QED
    BY <1>3, <1>4, <1>5 DEF Runs, Sums

LEMMA FlattenIsSum ==
  ASSUME NEW s \in Seq(Seq(Nat)), NEW g \in [0..Len(s) -> Seq(Nat)], Sums(g, s)
  PROVE  FlattenSeq(s) = g[Len(s)]
  <1>1. Len(s) \in Nat /\ \A n \in 1..Len(s) : s[n] \in Seq(Nat)
    OBVIOUS
  <1>2. CASE Len(s) = 0
    <2>1. s = <<>>
      BY <1>2
    <2> QED
      BY <1>2, <2>1 DEF FlattenSeq, Sums
  <1>3. CASE Len(s) # 0
    <2> DEFINE Unfold(h) == [i \in 1..Len(s) |-> IF i = 1 THEN s[i] ELSE h[i - 1] \o s[i]]
               G == [i \in 1..Len(s) |-> g[i]]
    <2>1. g[1] = s[1]
      <3>1. 1 \in 1..Len(s) /\ 1 - 1 = 0
        BY <1>1, <1>3
      <3>2. g[1] = <<>> \o s[1]
        BY <3>1 DEF Sums
      <3> QED
        BY <1>1, <3>1, <3>2, ConcatEmptySeq
    <2>2. G = Unfold(G)
      <3> SUFFICES ASSUME NEW i \in 1..Len(s)
                   PROVE  g[i] = IF i = 1 THEN s[i] ELSE G[i - 1] \o s[i]
        OBVIOUS
      <3>1. CASE i # 1
        <4>1. i - 1 \in 1..Len(s)
          BY <1>1, <3>1
        <4> QED
          BY <3>1, <4>1 DEF Sums
      <3> QED
        BY <2>1, <3>1
    <2>3. FlattenSeq(s) = (CHOOSE h : h = Unfold(h))[Len(s)]
      BY <1>3, Zenon DEF FlattenSeq
    <2>4. \E h : h = Unfold(h)
      BY <2>2, Zenon
    <2>5. PICK h : h = Unfold(h) /\ FlattenSeq(s) = h[Len(s)]
      <3> HIDE DEF Unfold
      <3> QED
        BY <2>3, <2>4, Zenon
    <2>6. \A i \in 1..Len(s) : h[i] = IF i = 1 THEN s[i] ELSE h[i - 1] \o s[i]
      BY <2>5, Zenon
    <2> HIDE DEF Unfold, G
    <2> DEFINE S == {n \in 0..Len(s) : n = 0 \/ h[n] = g[n]}
    <2>7. 0 \in S
      BY <1>1
    <2>8. ASSUME NEW n \in 1..Len(s), n - 1 \in S PROVE n \in S
      <3>1. n \in 0..Len(s)
        BY <1>1
      <3>2. CASE n = 1
        BY <2>1, <2>6, <3>1, <3>2
      <3>3. CASE n # 1
        <4>1. h[n - 1] = g[n - 1]
          BY <2>8, <3>3
        <4>2. h[n] = h[n - 1] \o s[n] /\ g[n] = g[n - 1] \o s[n]
          BY <2>6, <3>3 DEF Sums
        <4> QED
          BY <3>1, <4>1, <4>2
      <3> QED
        BY <3>2, <3>3
    <2>9. \A n \in S : n = 0 \/ h[n] = g[n]
      OBVIOUS
    <2> HIDE DEF S
    <2>10. \A n \in 0..Len(s) : n \in S
      BY <1>1, <2>7, <2>8, UpTo
    <2>11. Len(s) \in 0..Len(s)
      BY <1>1
    <2> QED
      BY <1>3, <2>5, <2>9, <2>10, <2>11
  <1> QED
    BY <1>2, <1>3

LEMMA FlattenType ==
  ASSUME NEW s \in Seq(Seq(Nat))
  PROVE  FlattenSeq(s) \in Seq(Nat)
  <1>1. PICK g \in [0..Len(s) -> Seq(Nat)] : Sums(g, s)
    BY SumsExist
  <1>2. FlattenSeq(s) = g[Len(s)]
    BY <1>1, FlattenIsSum
  <1>3. Len(s) \in 0..Len(s)
    OBVIOUS
  <1> QED
    BY <1>2, <1>3

-----------------------------------------------------------------------------
(* Checksums in place.                                                      *)

\* A word in the place of two zeros, everything else as it was.
Filled(got, s, at) ==
    /\ got \in Seq(Nat) /\ Len(got) = Len(s)
    /\ \A i \in 1..Len(s) : i # at /\ i # at + 1 => got[i] = s[i]

Blank(s, at) ==
    /\ s \in Seq(Nat) /\ at \in Nat /\ at % 2 = 1 /\ at + 1 <= Len(s)
    /\ s[at] = 0 /\ s[at + 1] = 0

LEMMA BlankParts ==
  ASSUME NEW s, NEW at, Blank(s, at)
  PROVE  \E a, c : /\ a \in Seq(Nat) /\ c \in Seq(Nat) /\ s = a \o <<0, 0>> \o c
                   /\ Len(a) = at - 1 /\ Len(a) % 2 = 0
  <1>1. PICK n \in Nat : n = Len(s)
    BY DEF Blank
  <1>2. /\ s \in Seq(Nat) /\ at \in 1..n /\ at + 1 \in 1..n /\ s[at] = 0 /\ s[at + 1] = 0
    BY <1>1 DEF Blank
  <1> DEFINE a == SubSeq(s, 1, at - 1)
             c == SubSeq(s, at + 2, n)
             z == <<0, 0>>
  <1>3. a \in Seq(Nat) /\ Len(a) = at - 1 /\ \A i \in 1..(at - 1) : a[i] = s[i]
    BY <1>1, <1>2
  <1>4. c \in Seq(Nat) /\ Len(c) = n - (at + 1) /\ \A i \in 1..(n - (at + 1)) : c[i] = s[(at + 1) + i]
    BY <1>1, <1>2
  <1>5. z \in Seq(Nat) /\ Len(z) = 2 /\ z[1] = 0 /\ z[2] = 0
    OBVIOUS
  <1> HIDE DEF a, c, z
  <1>6. PICK az : Joined(az, a, z)
    BY <1>3, <1>5, SomeJoined
  <1>7. /\ az \in Seq(Nat) /\ Len(az) = at + 1
        /\ \A i \in 1..(at - 1) : az[i] = s[i]
    <2>1. az \in Seq(Nat) /\ Len(az) = Len(a) + Len(z)
      BY <1>6, JoinedLen
    <2>2. \A i \in 1..Len(a) : az[i] = a[i]
      BY <1>6, JoinedFront
    <2> QED
      BY <1>2, <1>3, <1>5, <2>1, <2>2
  <1>8. az[at] = 0 /\ az[at + 1] = 0
    <2>4. Behind(az, Len(a), z)
      BY <1>6, JoinedBack
    <2>1. az[Len(a) + 1] = z[1]
      BY <1>5, <2>4 DEF Behind
    <2>2. az[Len(a) + 2] = z[2]
      BY <1>5, <2>4 DEF Behind
    <2>3. Len(a) + 1 = at /\ Len(a) + 2 = at + 1
      BY <1>2, <1>3
    <2> QED
      BY <1>5, <2>1, <2>2, <2>3
  <1>9. PICK w : Joined(w, az, c)
    BY <1>4, <1>7, SomeJoined
  <1>10. w \in Seq(Nat) /\ Len(w) = n /\ \A i \in 1..(at + 1) : w[i] = az[i]
    <2>1. w \in Seq(Nat) /\ Len(w) = Len(az) + Len(c)
      BY <1>9, JoinedLen
    <2>2. \A i \in 1..Len(az) : w[i] = az[i]
      BY <1>9, JoinedFront
    <2> QED
      BY <1>1, <1>2, <1>4, <1>7, <2>1, <2>2
  <1>11. \A i \in 1..(n - (at + 1)) : w[(at + 1) + i] = c[i]
    <2> TAKE i \in 1..(n - (at + 1))
    <2>1. i \in 1..Len(c)
      BY <1>4
    <2>2. Behind(w, Len(az), c)
      BY <1>9, JoinedBack
    <2> QED
      BY <1>7, <2>1, <2>2 DEF Behind
  <1>12. ASSUME NEW i \in 1..n PROVE w[i] = s[i]
    <2>1. CASE i \in 1..(at - 1)
      BY <1>2, <1>7, <1>10, <2>1
    <2>2. CASE i = at
      BY <1>2, <1>8, <1>10, <2>2
    <2>3. CASE i = at + 1
      BY <1>2, <1>8, <1>10, <2>3
    <2>4. CASE i > at + 1
      <3>1. PICK j \in 1..(n - (at + 1)) : i = (at + 1) + j
        <4>1. i - (at + 1) \in 1..(n - (at + 1)) /\ i = (at + 1) + (i - (at + 1))
          BY <1>1, <1>2, <2>4
        <4> QED
          BY <4>1
      <3> QED
        BY <1>4, <1>11, <3>1
    <2> QED
      BY <1>1, <1>2, <2>1, <2>2, <2>3, <2>4
  <1>13. w = s
    BY <1>1, <1>2, <1>10, <1>12, SeqEqual
  <1>14. (at - 1) % 2 = 0
    BY DEF Blank
  <1> QED
    BY <1>3, <1>4, <1>6, <1>9, <1>13, <1>14 DEF z, Joined

\* The checksum of a part written into it: the part verifies behind what the sum
\* was begun with, and nothing else in it is touched.
LEMMA FilledVerifies ==
  ASSUME NEW pre \in Seq(Nat), Len(pre) % 2 = 0, NEW s, NEW at, Blank(s, at)
  PROVE  LET got == Put(s, at, Word(checksum_finish(accum_swapped(s, accum_swapped(pre, 0)))))
         IN Filled(got, s, at) /\ Verifies(pre \o got)
  <1>1. PICK a, c : /\ a \in Seq(Nat) /\ c \in Seq(Nat) /\ s = a \o <<0, 0>> \o c
                    /\ Len(a) = at - 1 /\ Len(a) % 2 = 0
    BY BlankParts
  <1> DEFINE sum == accum_swapped(s, accum_swapped(pre, 0))
             w == Word(checksum_finish(sum))
             z == <<0, 0>>
             got == Put(s, at, w)
  <1>2. Verifies(pre \o (a \o w \o c))
    BY <1>1, ChecksumVerifies
  <1>3. sum \in Nat
    <2>1. accum_swapped(pre, 0) \in Nat
      BY AccumNat
    <2> QED
      BY <2>1, AccumNat DEF Blank
  <1> HIDE DEF sum
  <1>4. w \in Seq(Nat) /\ Len(w) = 2
    <2>1. PICK x, y : Word(checksum_finish(sum)) = <<x, y>> /\ Fills(sum, x, y)
      BY <1>3, FinishFills
    <2>2. x \in Nat /\ y \in Nat
      BY <2>1 DEF Fills
    <2> QED
      BY <2>1, <2>2
  <1> HIDE DEF w
  <1>5. z \in Seq(Nat) /\ Len(z) = 2
    OBVIOUS
  <1>6. s = a \o z \o c
    BY <1>1
  <1> HIDE DEF z
  <1>7. Put(a \o z \o c, Len(a) + 1, w) = a \o w \o c
    <2>1. Len(w) = Len(z)
      BY <1>4, <1>5
    <2>2. PutAs(a, z, c, w)
      BY <1>1, <1>4, <1>5, <2>1, PutMiddle
    <2> QED
      BY <2>2 DEF PutAs
  <1>8. at \in Nat /\ Len(a) + 1 = at
    BY <1>1 DEF Blank
  <1>9. got = a \o w \o c
    BY <1>6, <1>7, <1>8
  <1>10. Filled(a \o w \o c, a \o z \o c, at)
    <2>1. PICK aw, az : Joined(aw, a, w) /\ Joined(az, a, z)
      BY <1>1, <1>4, <1>5, SomeJoined
    <2>2. /\ aw \in Seq(Nat) /\ az \in Seq(Nat) /\ Len(aw) = at + 1 /\ Len(az) = at + 1
      <3>1. aw \in Seq(Nat) /\ Len(aw) = Len(a) + Len(w)
        BY <2>1, JoinedLen
      <3>2. az \in Seq(Nat) /\ Len(az) = Len(a) + Len(z)
        BY <2>1, JoinedLen
      <3>3. Len(a) + 2 = at + 1
        BY <1>8
      <3> QED
        BY <1>4, <1>5, <3>1, <3>2, <3>3
    <2>3. \A i \in 1..(at - 1) : aw[i] = az[i]
      <3>1. \A i \in 1..Len(a) : aw[i] = a[i] /\ az[i] = a[i]
        BY <2>1, JoinedFront
      <3> QED
        BY <1>8, <3>1
    <2>4. PICK u, v : Joined(u, aw, c) /\ Joined(v, az, c)
      BY <1>1, <2>2, SomeJoined
    <2>5. /\ u \in Seq(Nat) /\ v \in Seq(Nat) /\ Len(u) = (at + 1) + Len(c) /\ Len(v) = (at + 1) + Len(c)
          /\ \A i \in 1..(at + 1) : u[i] = aw[i] /\ v[i] = az[i]
      <3>1. /\ u \in Seq(Nat) /\ v \in Seq(Nat)
            /\ Len(u) = Len(aw) + Len(c) /\ Len(v) = Len(az) + Len(c)
        BY <2>4, JoinedLen
      <3>2. \A i \in 1..Len(aw) : u[i] = aw[i]
        BY <2>4, JoinedFront
      <3>3. \A i \in 1..Len(az) : v[i] = az[i]
        BY <2>4, JoinedFront
      <3> QED
        BY <2>2, <3>1, <3>2, <3>3
    <2>6. \A i \in 1..Len(c) : u[(at + 1) + i] = c[i] /\ v[(at + 1) + i] = c[i]
      <3>1. Behind(u, Len(aw), c) /\ Behind(v, Len(az), c)
        BY <2>4, JoinedBack
      <3> QED
        BY <2>2, <3>1 DEF Behind
    <2>7. ASSUME NEW i \in 1..Len(v), i # at, i # at + 1 PROVE u[i] = v[i]
      <3>1. Len(c) \in Nat
        BY <1>1
      <3>2. CASE i < at
        BY <1>8, <2>3, <2>5, <3>2
      <3>3. CASE ~(i < at)
        <4>1. i - (at + 1) \in 1..Len(c) /\ i = (at + 1) + (i - (at + 1))
          BY <1>8, <2>5, <2>7, <3>1, <3>3
        <4> QED
          BY <2>6, <4>1
      <3> QED
        BY <3>2, <3>3
    <2>8. Filled(u, v, at)
      BY <2>5, <2>7 DEF Filled
    <2>9. u = a \o w \o c /\ v = a \o z \o c
      BY <2>1, <2>4 DEF Joined
    <2> QED
      BY <2>8, <2>9
  <1> QED
    BY <1>2, <1>6, <1>9, <1>10 DEF sum, w

LEMMA BehindFilled ==
  ASSUME NEW got, NEW s \in Seq(Nat), NEW at \in Nat, Filled(got, s, at), NEW n \in Nat, NEW p \in Seq(Nat),
         n + Len(p) <= Len(s), n + Len(p) < at \/ n >= at + 1, Behind(s, n, p)
  PROVE  Behind(got, n, p)
  <1>1. \A i \in 1..Len(p) : n + i \in 1..Len(s) /\ n + i # at /\ n + i # at + 1
    OBVIOUS
  <1> QED
    BY <1>1 DEF Behind, Filled

-----------------------------------------------------------------------------
(* IP headers.                                                              *)

AddressLen(v6) == IF v6 THEN 16 ELSE 4

Header4(h, total, proto, saddr, daddr) ==
    /\ h \in Seq(Nat) /\ Len(h) = 20 /\ h[1] = 69 /\ h[10] = proto /\ Verifies(h)
    /\ Behind(h, 2, Word(total)) /\ Behind(h, 12, saddr) /\ Behind(h, 16, daddr)

LEMMA Header4Is ==
  ASSUME NEW total \in Nat, NEW proto \in Nat, NEW saddr \in Seq(Nat), NEW daddr \in Seq(Nat),
         Len(saddr) = 4, Len(daddr) = 4
  PROVE  Header4(Ip4Header(total, proto, saddr, daddr), total, proto, saddr, daddr)
  <1>1. PICK a, b, w : a = <<69, 0>> /\ b = <<0, 0, 0, 0, 64, proto, 0, 0>> /\ w = Word(total)
    OBVIOUS
  <1>2. a \in Seq(Nat) /\ Len(a) = 2 /\ a[1] = 69
    BY <1>1
  <1>3. /\ b \in Seq(Nat) /\ Len(b) = 8 /\ b[6] = proto /\ b[7] = 0 /\ b[8] = 0
    BY <1>1
  <1>4. w \in Seq(Nat) /\ Len(w) = 2
    BY <1>1, WordType
  <1>5. PICK aw : Joined(aw, a, w)
    BY <1>2, <1>4, SomeJoined
  <1>6. PICK awb : Joined(awb, aw, b)
    BY <1>3, <1>5, SomeJoined, JoinedLen
  <1>7. PICK aws : Joined(aws, awb, saddr)
    BY <1>6, SomeJoined, JoinedLen
  <1>8. PICK h : Joined(h, aws, daddr)
    BY <1>7, SomeJoined, JoinedLen
  <1>9. /\ Len(aw) = 4 /\ Len(awb) = 12 /\ Len(aws) = 16 /\ Len(h) = 20
        /\ aw \in Seq(Nat) /\ awb \in Seq(Nat) /\ aws \in Seq(Nat) /\ h \in Seq(Nat)
    <2>1. aw \in Seq(Nat) /\ Len(aw) = Len(a) + Len(w)
      BY <1>5, JoinedLen
    <2>2. awb \in Seq(Nat) /\ Len(awb) = Len(aw) + Len(b)
      BY <1>6, JoinedLen
    <2>3. aws \in Seq(Nat) /\ Len(aws) = Len(awb) + Len(saddr)
      BY <1>7, JoinedLen
    <2>4. h \in Seq(Nat) /\ Len(h) = Len(aws) + Len(daddr)
      BY <1>8, JoinedLen
    <2> QED
      BY <1>2, <1>3, <1>4, <2>1, <2>2, <2>3, <2>4
  <1>10. h = <<69, 0>> \o Word(total) \o <<0, 0, 0, 0, 64, proto, 0, 0>> \o saddr \o daddr
    BY <1>1, <1>5, <1>6, <1>7, <1>8 DEF Joined
  <1>11. /\ \A i \in 1..4 : awb[i] = aw[i]
         /\ \A i \in 1..12 : aws[i] = awb[i]
         /\ \A i \in 1..16 : h[i] = aws[i]
    <2>1. \A i \in 1..Len(aw) : awb[i] = aw[i]
      BY <1>6, JoinedFront
    <2>2. \A i \in 1..Len(awb) : aws[i] = awb[i]
      BY <1>7, JoinedFront
    <2>3. \A i \in 1..Len(aws) : h[i] = aws[i]
      BY <1>8, JoinedFront
    <2> QED
      BY <1>9, <2>1, <2>2, <2>3
  <1>12. Behind(awb, 4, b)
    BY <1>6, <1>9, JoinedBack
  <1>13. h[1] = 69
    <2>1. \A i \in 1..Len(a) : aw[i] = a[i]
      BY <1>5, JoinedFront
    <2>2. aw[1] = 69
      BY <1>2, <2>1
    <2> QED
      BY <1>11, <2>2
  <1>14. h[10] = proto /\ h[11] = 0 /\ h[12] = 0
    <2>1. awb[4 + 6] = proto /\ awb[4 + 7] = 0 /\ awb[4 + 8] = 0
      BY <1>3, <1>12 DEF Behind
    <2> QED
      BY <1>11, <2>1
  <1>15. Behind(h, 2, w)
    <2>1. Behind(aw, 2, w)
      BY <1>2, <1>5, JoinedBack
    <2>2. 2 \in Nat /\ 2 + Len(w) <= Len(aw) /\ 2 + Len(w) <= Len(awb) /\ 2 + Len(w) <= Len(aws)
      BY <1>4, <1>9
    <2>3. Behind(awb, 2, w)
      BY <1>4, <1>6, <2>1, <2>2, BehindJoined
    <2>4. Behind(aws, 2, w)
      BY <1>4, <1>7, <2>2, <2>3, BehindJoined
    <2> QED
      BY <1>4, <1>8, <2>2, <2>4, BehindJoined
  <1>16. Behind(h, 12, saddr)
    <2>1. Behind(aws, 12, saddr)
      BY <1>7, <1>9, JoinedBack
    <2>2. 12 \in Nat /\ 12 + Len(saddr) <= Len(aws)
      BY <1>9
    <2> QED
      BY <1>8, <2>1, <2>2, BehindJoined
  <1>17. Behind(h, 16, daddr)
    BY <1>8, <1>9, JoinedBack
  <1>18. PICK got : /\ got = Put(h, 11, Word(checksum_finish(accum_swapped(h, accum_swapped(<<>>, 0)))))
                    /\ Filled(got, h, 11) /\ Verifies(<<>> \o got)
    <2>1. Blank(h, 11)
      BY <1>9, <1>14 DEF Blank
    <2>2. <<>> \in Seq(Nat) /\ Len(<<>>) % 2 = 0
      OBVIOUS
    <2> QED
      BY <2>1, <2>2, FilledVerifies
  <1>19. Ip4Header(total, proto, saddr, daddr) = got
    <2>1. accum_swapped(<<>>, 0) = 0
      BY NothingSummed
    <2> QED
      BY <1>10, <1>18, <2>1, Zenon DEF Ip4Header, checksum16
  <1>20. got \in Seq(Nat) /\ Len(got) = 20 /\ got[1] = 69 /\ got[10] = proto
    <2>1. /\ got \in Seq(Nat) /\ Len(got) = Len(h)
          /\ \A i \in 1..Len(h) : i # 11 /\ i # 11 + 1 => got[i] = h[i]
      BY <1>18 DEF Filled
    <2> QED
      BY <1>9, <1>13, <1>14, <2>1
  <1>21. Verifies(got)
    <2>1. <<>> \o got = got
      BY <1>20, ConcatEmptySeq
    <2> QED
      BY <1>18, <2>1
  <1>22. Behind(got, 2, w) /\ Behind(got, 12, saddr) /\ Behind(got, 16, daddr)
    <2>1. /\ 11 \in Nat /\ 2 \in Nat /\ 2 + Len(w) <= Len(h) /\ 2 + Len(w) < 11
          /\ 12 \in Nat /\ 12 + Len(saddr) <= Len(h) /\ 12 >= 11 + 1
          /\ 16 \in Nat /\ 16 + Len(daddr) <= Len(h) /\ 16 >= 11 + 1
      BY <1>4, <1>9
    <2>2. Behind(got, 2, w)
      BY <1>4, <1>9, <1>15, <1>18, <2>1, BehindFilled
    <2>3. Behind(got, 12, saddr)
      BY <1>9, <1>16, <1>18, <2>1, BehindFilled
    <2>4. Behind(got, 16, daddr)
      BY <1>9, <1>17, <1>18, <2>1, BehindFilled
    <2> QED
      BY <2>2, <2>3, <2>4
  <1> QED
    BY <1>1, <1>19, <1>20, <1>21, <1>22 DEF Header4

Header6(h, length, proto, saddr, daddr) ==
    /\ h \in Seq(Nat) /\ Len(h) = 40 /\ h[1] = 96 /\ h[7] = proto
    /\ Behind(h, 4, Word(length)) /\ Behind(h, 8, saddr) /\ Behind(h, 24, daddr)

LEMMA Header6Is ==
  ASSUME NEW length \in Nat, NEW proto \in Nat, NEW hops \in Nat,
         NEW saddr \in Seq(Nat), NEW daddr \in Seq(Nat), Len(saddr) = 16, Len(daddr) = 16
  PROVE  Header6(Ip6Header(length, proto, hops, saddr, daddr), length, proto, saddr, daddr)
  <1>1. PICK a, b, w : a = <<96, 0, 0, 0>> /\ b = <<proto, hops>> /\ w = Word(length)
    OBVIOUS
  <1>2. a \in Seq(Nat) /\ Len(a) = 4 /\ a[1] = 96
    BY <1>1
  <1>3. b \in Seq(Nat) /\ Len(b) = 2 /\ b[1] = proto
    BY <1>1
  <1>4. w \in Seq(Nat) /\ Len(w) = 2
    BY <1>1, WordType
  <1>5. PICK aw : Joined(aw, a, w)
    BY <1>2, <1>4, SomeJoined
  <1>6. PICK awb : Joined(awb, aw, b)
    BY <1>3, <1>5, SomeJoined, JoinedLen
  <1>7. PICK aws : Joined(aws, awb, saddr)
    BY <1>6, SomeJoined, JoinedLen
  <1>8. PICK h : Joined(h, aws, daddr)
    BY <1>7, SomeJoined, JoinedLen
  <1>9. /\ Len(aw) = 6 /\ Len(awb) = 8 /\ Len(aws) = 24 /\ Len(h) = 40
        /\ aw \in Seq(Nat) /\ awb \in Seq(Nat) /\ aws \in Seq(Nat) /\ h \in Seq(Nat)
    <2>1. aw \in Seq(Nat) /\ Len(aw) = Len(a) + Len(w)
      BY <1>5, JoinedLen
    <2>2. awb \in Seq(Nat) /\ Len(awb) = Len(aw) + Len(b)
      BY <1>6, JoinedLen
    <2>3. aws \in Seq(Nat) /\ Len(aws) = Len(awb) + Len(saddr)
      BY <1>7, JoinedLen
    <2>4. h \in Seq(Nat) /\ Len(h) = Len(aws) + Len(daddr)
      BY <1>8, JoinedLen
    <2> QED
      BY <1>2, <1>3, <1>4, <2>1, <2>2, <2>3, <2>4
  <1>10. h = <<96, 0, 0, 0>> \o Word(length) \o <<proto, hops>> \o saddr \o daddr
    BY <1>1, <1>5, <1>6, <1>7, <1>8 DEF Joined
  <1>11. /\ \A i \in 1..6 : awb[i] = aw[i]
         /\ \A i \in 1..8 : aws[i] = awb[i]
         /\ \A i \in 1..24 : h[i] = aws[i]
    <2>1. \A i \in 1..Len(aw) : awb[i] = aw[i]
      BY <1>6, JoinedFront
    <2>2. \A i \in 1..Len(awb) : aws[i] = awb[i]
      BY <1>7, JoinedFront
    <2>3. \A i \in 1..Len(aws) : h[i] = aws[i]
      BY <1>8, JoinedFront
    <2> QED
      BY <1>9, <2>1, <2>2, <2>3
  <1>12. h[1] = 96
    <2>1. \A i \in 1..Len(a) : aw[i] = a[i]
      BY <1>5, JoinedFront
    <2>2. aw[1] = 96
      BY <1>2, <2>1
    <2> QED
      BY <1>11, <2>2
  <1>13. h[7] = proto
    <2>1. Behind(awb, 6, b)
      BY <1>6, <1>9, JoinedBack
    <2>2. awb[6 + 1] = proto
      BY <1>3, <2>1 DEF Behind
    <2> QED
      BY <1>11, <2>2
  <1>14. Behind(h, 4, w)
    <2>1. Behind(aw, 4, w)
      BY <1>2, <1>5, JoinedBack
    <2>2. 4 \in Nat /\ 4 + Len(w) <= Len(aw) /\ 4 + Len(w) <= Len(awb) /\ 4 + Len(w) <= Len(aws)
      BY <1>4, <1>9
    <2>3. Behind(awb, 4, w)
      BY <1>4, <1>6, <2>1, <2>2, BehindJoined
    <2>4. Behind(aws, 4, w)
      BY <1>4, <1>7, <2>2, <2>3, BehindJoined
    <2> QED
      BY <1>4, <1>8, <2>2, <2>4, BehindJoined
  <1>15. Behind(h, 8, saddr)
    <2>1. Behind(aws, 8, saddr)
      BY <1>7, <1>9, JoinedBack
    <2>2. 8 \in Nat /\ 8 + Len(saddr) <= Len(aws)
      BY <1>9
    <2> QED
      BY <1>8, <2>1, <2>2, BehindJoined
  <1>16. Behind(h, 24, daddr)
    BY <1>8, <1>9, JoinedBack
  <1>17. Ip6Header(length, proto, hops, saddr, daddr) = h
    BY <1>10, Zenon DEF Ip6Header
  <1> QED
    BY <1>1, <1>9, <1>12, <1>13, <1>14, <1>15, <1>16, <1>17 DEF Header6

-----------------------------------------------------------------------------
(* The walk along the headers.                                              *)

Walks(walk, pkt, stop) ==
    /\ walk[0] = [nh |-> At(pkt, 6), off |-> 40, prev |-> 6]
    /\ \A h \in 1..(MaxHops - 1) :
         walk[h] = IF walk[h - 1] = Fail \/ walk[h - 1].nh \in stop THEN walk[h - 1]
                   ELSE IF ~Passable(pkt, walk[h - 1].nh, walk[h - 1].off) THEN Fail
                   ELSE [nh |-> At(pkt, walk[h - 1].off),
                         off |-> walk[h - 1].off + ExtLen(pkt, walk[h - 1].nh, walk[h - 1].off),
                         prev |-> walk[h - 1].off]

Outcome(pkt, stop, last) ==
    IF IsV6(pkt) /\ last # Fail /\ last.nh \in stop THEN last ELSE Fail

LEMMA WalkIs ==
  ASSUME NEW pkt, NEW stop
  PROVE  \E walk : Walks(walk, pkt, stop) /\ Walk(pkt, stop) = Outcome(pkt, stop, walk[MaxHops - 1])
  <1> DEFINE After(w) ==
               IF w = Fail \/ w.nh \in stop THEN w
               ELSE IF ~Passable(pkt, w.nh, w.off) THEN Fail
               ELSE [nh |-> At(pkt, w.off), off |-> w.off + ExtLen(pkt, w.nh, w.off), prev |-> w.off]
             start == [nh |-> At(pkt, 6), off |-> 40, prev |-> 6]
             N == MaxHops - 1
             Unfold(f) == [h \in 0..N |-> IF h = 0 THEN start ELSE After(f[h - 1])]
  <1> HIDE DEF After, start
  <1>1. N = 7
    BY DEF MaxHops
  <1>2. \E f : f = Unfold(f)
    <2> DEFINE f == [h \in 0..7 |-> IF h = 0 THEN start
                                  ELSE IF h = 1 THEN After(start)
                                  ELSE IF h = 2 THEN After(After(start))
                                  ELSE IF h = 3 THEN After(After(After(start)))
                                  ELSE IF h = 4 THEN After(After(After(After(start))))
                                  ELSE IF h = 5 THEN After(After(After(After(After(start)))))
                                  ELSE IF h = 6 THEN After(After(After(After(After(After(start))))))
                                  ELSE After(After(After(After(After(After(After(start)))))))]
    <2>1. /\ f[0] = start /\ f[1] = After(f[0]) /\ f[2] = After(f[1]) /\ f[3] = After(f[2])
          /\ f[4] = After(f[3]) /\ f[5] = After(f[4]) /\ f[6] = After(f[5]) /\ f[7] = After(f[6])
      OBVIOUS
    <2>2. f = [h \in 0..7 |-> f[h]]
      OBVIOUS
    <2> HIDE DEF f
    <2>3. ASSUME NEW h \in 0..7 PROVE f[h] = IF h = 0 THEN start ELSE After(f[h - 1])
      <3>1. h \in {0, 1, 2, 3, 4, 5, 6, 7}
        OBVIOUS
      <3> QED
        BY <2>1, <3>1
    <2>4. f = [h \in 0..7 |-> IF h = 0 THEN start ELSE After(f[h - 1])]
      BY <2>2, <2>3, Zenon
    <2>5. f = Unfold(f)
      BY <1>1, <2>4
    <2> QED
      BY <2>5, Zenon
  <1>3. Walk(pkt, stop) = Outcome(pkt, stop, (CHOOSE h : h = Unfold(h))[N])
    BY Zenon DEF Walk, Outcome, After, start
  <1>5. PICK walk : walk = Unfold(walk) /\ Walk(pkt, stop) = Outcome(pkt, stop, walk[N])
    <2> HIDE DEF Unfold
    <2> QED
      BY <1>2, <1>3, Zenon
  <1>6. \A h \in 0..N : walk[h] = IF h = 0 THEN start ELSE After(walk[h - 1])
    <2> HIDE DEF N
    <2> QED
      BY <1>5, Zenon
  <1>7. walk[0] = start /\ \A h \in 1..N : walk[h] = After(walk[h - 1])
    <2>1. 0 \in 0..N /\ \A h \in 1..N : h \in 0..N /\ h # 0
      BY <1>1
    <2> HIDE DEF N
    <2> QED
      BY <1>6, <2>1
  <1>8. Walks(walk, pkt, stop)
    BY <1>7, Zenon DEF Walks, After, start
  <1> QED
    BY <1>5, <1>8

LEMMA FailApart ==
  ASSUME NEW a, NEW b, NEW c
  PROVE  [nh |-> a, off |-> b, prev |-> c] # Fail
  <1>1. DOMAIN [nh |-> a, off |-> b, prev |-> c] # DOMAIN Fail
    BY DEF Fail
  <1> QED
    BY <1>1

\* The transport header stands right behind the IPv6 header.
LEMMA WalkStops ==
  ASSUME NEW pkt, NEW stop, IsV6(pkt), At(pkt, 6) \in stop
  PROVE  Walk(pkt, stop) = [nh |-> At(pkt, 6), off |-> 40, prev |-> 6]
  <1> DEFINE start == [nh |-> At(pkt, 6), off |-> 40, prev |-> 6]
  <1>1. PICK walk : Walks(walk, pkt, stop) /\ Walk(pkt, stop) = Outcome(pkt, stop, walk[MaxHops - 1])
    BY WalkIs
  <1>2. walk[0] = start
    BY <1>1 DEF Walks
  <1>3. start.nh \in stop /\ start # Fail
    <2>1. start.nh = At(pkt, 6)
      OBVIOUS
    <2>2. start # Fail
      BY FailApart
    <2> QED
      BY <2>1, <2>2
  <1>4. MaxHops - 1 = 7
    BY DEF MaxHops
  <1>5. \A h \in 1..7 : walk[h - 1].nh \in stop => walk[h] = walk[h - 1]
    BY <1>1, <1>4, Zenon DEF Walks
  <1> HIDE DEF start
  <1> DEFINE S == {h \in 0..7 : walk[h] = start}
  <1>6. 0 \in S
    BY <1>2
  <1>7. ASSUME NEW h \in 1..7, h - 1 \in S PROVE h \in S
    <2>1. walk[h - 1] = start /\ h \in 0..7
      BY <1>7
    <2>2. walk[h] = start
      BY <1>3, <1>5, <2>1
    <2> QED
      BY <2>1, <2>2
  <1>8. 7 \in S
    <2> HIDE DEF S
    <2>1. \A h \in 0..7 : h \in S
      BY <1>6, <1>7, UpTo
    <2> QED
      BY <2>1
  <1>9. Outcome(pkt, stop, walk[7]) = start
    BY <1>3, <1>8 DEF Outcome
  <1> QED
    BY <1>1, <1>4, <1>9 DEF start

-----------------------------------------------------------------------------
(* Whole packets.                                                           *)

\* A version of IP and two addresses of it.
Ends(v6, saddr, daddr) ==
    /\ v6 \in BOOLEAN /\ saddr \in Seq(Nat) /\ daddr \in Seq(Nat)
    /\ Len(saddr) = AddressLen(v6) /\ Len(daddr) = AddressLen(v6)

\* Bytes that are words.
Evens(p) == p \in Seq(Nat) /\ Len(p) % 2 = 0

LEMMA PseudoType ==
  ASSUME NEW v6, NEW saddr, NEW daddr, Ends(v6, saddr, daddr),
         NEW proto \in Nat, NEW n \in Nat
  PROVE  Evens(Pseudo(v6, saddr, daddr, proto, n))
  <1>6. /\ v6 \in BOOLEAN /\ saddr \in Seq(Nat) /\ daddr \in Seq(Nat)
        /\ Len(saddr) = AddressLen(v6) /\ Len(daddr) = AddressLen(v6)
    BY DEF Ends
  <1>1. PICK w : w = Word(n) /\ w \in Seq(Nat) /\ Len(w) = 2
    BY WordType
  <1>2. PICK sd : Joined(sd, saddr, daddr)
    BY <1>6, SomeJoined
  <1>3. sd \in Seq(Nat) /\ Len(sd) = Len(saddr) + Len(daddr) /\ sd = saddr \o daddr
    BY <1>2 DEF Joined
  <1>4. CASE v6
    <2>1. PICK a, b : a = <<0, 0>> /\ b = <<0, 0, 0, proto>>
      OBVIOUS
    <2>2. a \in Seq(Nat) /\ Len(a) = 2 /\ b \in Seq(Nat) /\ Len(b) = 4
      BY <2>1
    <2>3. PICK aw : Joined(aw, a, w)
      BY <1>1, <2>2, SomeJoined
    <2>4. PICK awb : Joined(awb, aw, b)
      BY <2>2, <2>3, SomeJoined, JoinedLen
    <2>5. PICK p : Joined(p, sd, awb)
      BY <1>3, <2>4, SomeJoined, JoinedLen
    <2>6. Pseudo(v6, saddr, daddr, proto, n) = p
      BY <1>1, <1>3, <1>4, <2>1, <2>3, <2>4, <2>5 DEF Joined, Pseudo
    <2>7. Len(aw) = 4 /\ Len(awb) = 8 /\ Len(sd) = 32 /\ p \in Seq(Nat) /\ Len(p) = 40
      <3>1. Len(aw) = Len(a) + Len(w)
        BY <2>3, JoinedLen
      <3>2. Len(awb) = Len(aw) + Len(b)
        BY <2>4, JoinedLen
      <3>3. p \in Seq(Nat) /\ Len(p) = Len(sd) + Len(awb)
        BY <2>5, JoinedLen
      <3>4. Len(sd) = 32
        BY <1>3, <1>4, <1>6 DEF AddressLen
      <3> QED
        BY <1>1, <2>2, <3>1, <3>2, <3>3, <3>4
    <2>8. 40 % 2 = 0
      OBVIOUS
    <2> QED
      BY <2>6, <2>7, <2>8 DEF Evens
  <1>5. CASE ~v6
    <2>1. PICK a : a = <<0, proto>>
      OBVIOUS
    <2>2. a \in Seq(Nat) /\ Len(a) = 2
      BY <2>1
    <2>3. PICK aw : Joined(aw, a, w)
      BY <1>1, <2>2, SomeJoined
    <2>4. PICK p : Joined(p, sd, aw)
      BY <1>3, <2>3, SomeJoined, JoinedLen
    <2>5. Pseudo(v6, saddr, daddr, proto, n) = p
      BY <1>1, <1>3, <1>5, <2>1, <2>3, <2>4 DEF Joined, Pseudo
    <2>6. Len(aw) = 4 /\ Len(sd) = 8 /\ p \in Seq(Nat) /\ Len(p) = 12
      <3>1. Len(aw) = Len(a) + Len(w)
        BY <2>3, JoinedLen
      <3>2. p \in Seq(Nat) /\ Len(p) = Len(sd) + Len(aw)
        BY <2>4, JoinedLen
      <3>3. Len(sd) = 8
        BY <1>3, <1>5, <1>6 DEF AddressLen
      <3> QED
        BY <1>1, <2>2, <3>1, <3>2, <3>3
    <2>7. 12 % 2 = 0
      OBVIOUS
    <2> QED
      BY <2>5, <2>6, <2>7 DEF Evens
  <1> QED
    BY <1>4, <1>5, <1>6

\* A segment with its checksum in place verifies behind its pseudo-header.
SegmentVerifies(v6, saddr, daddr, proto, seg) ==
    Verifies(Pseudo(v6, saddr, daddr, proto, Len(seg)) \o seg)

LEMMA SummedIs ==
  ASSUME NEW v6, NEW saddr, NEW daddr, Ends(v6, saddr, daddr),
         NEW proto \in Nat, NEW seg, NEW at, Blank(seg, at)
  PROVE  LET got == Summed(v6, saddr, daddr, proto, seg, at)
         IN Filled(got, seg, at) /\ SegmentVerifies(v6, saddr, daddr, proto, got)
  <1>1. PICK n \in Nat : n = Len(seg)
    BY DEF Blank
  <1>2. PICK pre : pre = Pseudo(v6, saddr, daddr, proto, n) /\ pre \in Seq(Nat) /\ Len(pre) % 2 = 0
    BY PseudoType DEF Evens
  <1>3. PICK got : /\ got = Put(seg, at, Word(checksum_finish(accum_swapped(seg, accum_swapped(pre, 0)))))
                   /\ Filled(got, seg, at) /\ Verifies(pre \o got)
    BY <1>2, FilledVerifies
  <1>4. Summed(v6, saddr, daddr, proto, seg, at) = got
    BY <1>1, <1>2, <1>3, Zenon DEF Summed, transport_checksum
  <1>5. Len(got) = n
    BY <1>1, <1>3 DEF Filled
  <1> QED
    BY <1>2, <1>3, <1>4, <1>5 DEF SegmentVerifies

LEMMA GoodMade4 ==
  ASSUME NEW saddr \in Seq(Nat), NEW daddr \in Seq(Nat), Len(saddr) = 4, Len(daddr) = 4,
         NEW proto \in Nat, NEW seg \in Seq(Nat), SegmentVerifies(FALSE, saddr, daddr, proto, seg),
         NEW pkt, Joined(pkt, Ip4Header(20 + Len(seg), proto, saddr, daddr), seg)
  PROVE  GoodPacket(FALSE, saddr, daddr, proto, pkt)
  <1>1. PICK n \in Nat : n = 20 + Len(seg)
    OBVIOUS
  <1>2. PICK h : h = Ip4Header(n, proto, saddr, daddr) /\ Header4(h, n, proto, saddr, daddr)
    BY Header4Is
  <1>3. Joined(pkt, h, seg)
    BY <1>1, <1>2
  <1>4. /\ h \in Seq(Nat) /\ Len(h) = 20 /\ h[1] = 69 /\ h[10] = proto /\ Verifies(h)
        /\ Behind(h, 2, Word(n)) /\ Behind(h, 12, saddr) /\ Behind(h, 16, daddr)
    BY <1>2 DEF Header4
  <1>5. pkt \in Seq(Nat) /\ Len(pkt) = n /\ n >= 20
    <2>1. pkt \in Seq(Nat) /\ Len(pkt) = Len(h) + Len(seg)
      BY <1>3, JoinedLen
    <2> QED
      BY <1>1, <1>4, <2>1
  <1>6. From(pkt, 21) = seg
    <2>1. From(pkt, Len(h) + 1) = seg
      BY <1>3, JoinedEnd
    <2>2. Len(h) + 1 = 21
      BY <1>4
    <2> QED
      BY <2>1, <2>2
  <1>7. SubSeq(pkt, 1, 20) = h
    <2>1. SubSeq(pkt, 1, Len(h)) = h
      BY <1>3, JoinedFront
    <2> QED
      BY <1>4, <2>1
  <1>8. pkt[1] = 69 /\ pkt[10] = proto
    <2>1. \A i \in 1..Len(h) : pkt[i] = h[i]
      BY <1>3, JoinedFront
    <2> QED
      BY <1>4, <2>1
  <1>9. SubSeq(pkt, 3, 4) = Word(n)
    <2>1. PICK w : w = Word(n) /\ w \in Seq(Nat) /\ Len(w) = 2
      BY WordType
    <2>2. 2 \in Nat /\ 2 + Len(w) <= Len(h) /\ 2 + Len(w) <= Len(pkt) /\ 2 + Len(w) = 4 /\ 2 + 1 = 3
      BY <1>4, <1>5, <2>1
    <2>3. Behind(pkt, 2, w)
      BY <1>3, <1>4, <2>1, <2>2, BehindJoined
    <2>4. SubSeq(pkt, 2 + 1, 2 + Len(w)) = w
      BY <1>5, <2>1, <2>2, <2>3, BehindCut
    <2> QED
      BY <2>1, <2>2, <2>4
  <1>10. SubSeq(pkt, 13, 16) = saddr
    <2>1. 12 \in Nat /\ 12 + Len(saddr) <= Len(h) /\ 12 + Len(saddr) = 16 /\ 12 + 1 = 13
      BY <1>4
    <2>2. Behind(h, 12, saddr)
      BY <1>4
    <2>3. SubSeq(pkt, 12 + 1, 12 + Len(saddr)) = saddr
      BY <1>3, <2>1, <2>2, CutJoined
    <2> QED
      BY <2>1, <2>3
  <1>11. SubSeq(pkt, 17, 20) = daddr
    <2>1. 16 \in Nat /\ 16 + Len(daddr) <= Len(h) /\ 16 + Len(daddr) = 20 /\ 16 + 1 = 17
      BY <1>4
    <2>2. Behind(h, 16, daddr)
      BY <1>4
    <2>3. SubSeq(pkt, 16 + 1, 16 + Len(daddr)) = daddr
      BY <1>3, <2>1, <2>2, CutJoined
    <2> QED
      BY <2>1, <2>3
  <1>12. parse_ipv4(pkt) = [proto |-> proto, ihl |-> 20, saddr |-> saddr, daddr |-> daddr]
    <2>1. (69 % 16) * 4 = 20 /\ 69 \div 16 = 4
      OBVIOUS
    <2>2. ~(Len(pkt) < 20) /\ ~(20 > Len(pkt)) /\ ~(20 < 20)
      BY <1>5
    <2> QED
      BY <1>8, <1>10, <1>11, <2>1, <2>2 DEF parse_ipv4
  <1>13. SegmentVerifies(FALSE, saddr, daddr, proto, From(pkt, 21))
    BY <1>6
  <1>14. HeaderLen(FALSE) = 20 /\ 20 + 1 = 21
    BY DEF HeaderLen
  <1> QED
    BY <1>4, <1>5, <1>7, <1>9, <1>12, <1>13, <1>14 DEF GoodPacket, SegmentVerifies

LEMMA GoodMade6 ==
  ASSUME NEW saddr \in Seq(Nat), NEW daddr \in Seq(Nat), Len(saddr) = 16, Len(daddr) = 16,
         NEW proto \in L4,
         NEW seg \in Seq(Nat), SegmentVerifies(TRUE, saddr, daddr, proto, seg),
         NEW h, Header6(h, Len(seg), proto, saddr, daddr), NEW pkt, Joined(pkt, h, seg)
  PROVE  GoodPacket(TRUE, saddr, daddr, proto, pkt)
  <1>1. PICK n \in Nat : n = Len(seg)
    OBVIOUS
  <1>4. /\ h \in Seq(Nat) /\ Len(h) = 40 /\ h[1] = 96 /\ h[7] = proto
        /\ Behind(h, 4, Word(n)) /\ Behind(h, 8, saddr) /\ Behind(h, 24, daddr)
    BY <1>1 DEF Header6
  <1>5. pkt \in Seq(Nat) /\ Len(pkt) >= 40
    <2>1. pkt \in Seq(Nat) /\ Len(pkt) = Len(h) + Len(seg)
      BY JoinedLen
    <2> QED
      BY <1>1, <1>4, <2>1
  <1>6. From(pkt, 41) = seg
    <2>1. From(pkt, Len(h) + 1) = seg
      BY JoinedEnd
    <2>2. Len(h) + 1 = 41
      BY <1>4
    <2> QED
      BY <2>1, <2>2
  <1>8. pkt[1] = 96 /\ pkt[7] = proto
    <2>1. \A i \in 1..Len(h) : pkt[i] = h[i]
      BY JoinedFront
    <2> QED
      BY <1>4, <2>1
  <1>9. SubSeq(pkt, 5, 6) = Word(n)
    <2>1. PICK w : w = Word(n) /\ w \in Seq(Nat) /\ Len(w) = 2
      BY WordType
    <2>2. 4 \in Nat /\ 4 + Len(w) <= Len(h) /\ 4 + Len(w) <= Len(pkt) /\ 4 + Len(w) = 6 /\ 4 + 1 = 5
      BY <1>4, <1>5, <2>1
    <2>3. Behind(pkt, 4, w)
      BY <1>4, <2>1, <2>2, BehindJoined, Zenon
    <2>4. SubSeq(pkt, 4 + 1, 4 + Len(w)) = w
      BY <1>5, <2>1, <2>2, <2>3, BehindCut
    <2> QED
      BY <2>1, <2>2, <2>4
  <1>10. SubSeq(pkt, 9, 24) = saddr
    <2>1. 8 \in Nat /\ 8 + Len(saddr) <= Len(h) /\ 8 + Len(saddr) = 24 /\ 8 + 1 = 9
      BY <1>4
    <2>2. Behind(h, 8, saddr)
      BY <1>4
    <2>3. SubSeq(pkt, 8 + 1, 8 + Len(saddr)) = saddr
      BY <2>1, <2>2, CutJoined
    <2> QED
      BY <2>1, <2>3
  <1>11. SubSeq(pkt, 25, 40) = daddr
    <2>1. 24 \in Nat /\ 24 + Len(daddr) <= Len(h) /\ 24 + Len(daddr) = 40 /\ 24 + 1 = 25
      BY <1>4
    <2>2. Behind(h, 24, daddr)
      BY <1>4
    <2>3. SubSeq(pkt, 24 + 1, 24 + Len(daddr)) = daddr
      BY <2>1, <2>2, CutJoined
    <2> QED
      BY <2>1, <2>3
  <1>12. At(pkt, 0) = 96 /\ At(pkt, 6) = proto
    BY <1>8 DEF At
  <1>13. IsV6(pkt)
    <2>1. 96 \div 16 = 6
      OBVIOUS
    <2> QED
      BY <1>5, <1>12, <2>1 DEF IsV6
  <1>14. parse_ipv6(pkt) = [nh |-> proto, off |-> 40, prev |-> 6]
    BY <1>12, <1>13, WalkStops DEF parse_ipv6
  <1>15. parse_ipv6(pkt) # Fail /\ parse_ipv6(pkt).nh = proto /\ parse_ipv6(pkt).off = 40
    <2>1. parse_ipv6(pkt) # Fail
      BY <1>14, FailApart
    <2> QED
      BY <1>14, <2>1
  <1>16. HeaderLen(TRUE) = 40 /\ 40 + 1 = 41
    BY DEF HeaderLen
  <1> QED
    BY <1>1, <1>6, <1>9, <1>10, <1>11, <1>15, <1>16 DEF GoodPacket, SegmentVerifies

\* What every builder makes: a header of its own, and a segment that verifies.
Made(v6, saddr, daddr, proto, seg, pkt) ==
    /\ GoodPacket(v6, saddr, daddr, proto, pkt)
    /\ pkt \in Seq(Nat) /\ Len(pkt) = HeaderLen(v6) + Len(seg)
    /\ From(pkt, HeaderLen(v6) + 1) = seg

LEMMA GoodMade ==
  ASSUME NEW v6, NEW saddr, NEW daddr, Ends(v6, saddr, daddr),
         NEW proto \in L4, NEW seg \in Seq(Nat), SegmentVerifies(v6, saddr, daddr, proto, seg),
         NEW pkt, pkt = IpHeader(v6, Len(seg), proto, saddr, daddr) \o seg
  PROVE  Made(v6, saddr, daddr, proto, seg, pkt)
  <1>5. /\ v6 \in BOOLEAN /\ saddr \in Seq(Nat) /\ daddr \in Seq(Nat)
        /\ Len(saddr) = AddressLen(v6) /\ Len(daddr) = AddressLen(v6)
    BY DEF Ends
  <1>1. PICK n \in Nat : n = Len(seg)
    OBVIOUS
  <1>2. proto \in Nat
    BY DEF L4
  <1>3. CASE v6
    <2>1. Len(saddr) = 16 /\ Len(daddr) = 16 /\ v6 = TRUE
      BY <1>3, <1>5 DEF AddressLen
    <2>2. PICK h : h = Ip6Header(n, proto, 64, saddr, daddr) /\ Header6(h, n, proto, saddr, daddr)
      BY <1>2, <1>5, <2>1, Header6Is
    <2>3. pkt = h \o seg
      BY <1>1, <1>3, <2>2 DEF IpHeader
    <2>4. h \in Seq(Nat) /\ Len(h) = 40
      BY <2>2 DEF Header6
    <2>5. Joined(pkt, h, seg)
      BY <2>3, <2>4, Join
    <2>6. GoodPacket(TRUE, saddr, daddr, proto, pkt)
      BY <1>1, <1>5, <2>1, <2>2, <2>5, GoodMade6
    <2>7. pkt \in Seq(Nat) /\ Len(pkt) = Len(h) + Len(seg)
      BY <2>5, JoinedLen
    <2>8. From(pkt, Len(h) + 1) = seg
      BY <2>5, JoinedEnd
    <2>9. HeaderLen(v6) = Len(h)
      BY <2>1, <2>4 DEF HeaderLen
    <2> QED
      BY <2>1, <2>6, <2>7, <2>8, <2>9 DEF Made
  <1>4. CASE ~v6
    <2>1. Len(saddr) = 4 /\ Len(daddr) = 4 /\ v6 = FALSE
      BY <1>4, <1>5 DEF AddressLen
    <2>2. PICK h : h = Ip4Header(20 + n, proto, saddr, daddr) /\ Header4(h, 20 + n, proto, saddr, daddr)
      <3>1. 20 + n \in Nat
        OBVIOUS
      <3> QED
        BY <1>2, <1>5, <2>1, <3>1, Header4Is
    <2>3. pkt = h \o seg
      BY <1>1, <1>4, <2>2 DEF IpHeader
    <2>4. h \in Seq(Nat) /\ Len(h) = 20
      BY <2>2 DEF Header4
    <2>5. Joined(pkt, h, seg)
      BY <2>3, <2>4, Join
    <2>6. GoodPacket(FALSE, saddr, daddr, proto, pkt)
      BY <1>1, <1>2, <1>5, <2>1, <2>2, <2>5, GoodMade4
    <2>7. pkt \in Seq(Nat) /\ Len(pkt) = Len(h) + Len(seg)
      BY <2>5, JoinedLen
    <2>8. From(pkt, Len(h) + 1) = seg
      BY <2>5, JoinedEnd
    <2>9. HeaderLen(v6) = Len(h)
      BY <2>1, <2>4 DEF HeaderLen
    <2> QED
      BY <2>1, <2>6, <2>7, <2>8, <2>9 DEF Made
  <1> QED
    BY <1>3, <1>4

-----------------------------------------------------------------------------
(* tcp_packet.c.                                                            *)

LEMMA BlankJoined ==
  ASSUME NEW a, NEW at, Blank(a, at), NEW b, NEW s, Joined(s, a, b)
  PROVE  Blank(s, at)
  <1>1. \A i \in 1..Len(a) : s[i] = a[i]
    BY JoinedFront
  <1>2. /\ s \in Seq(Nat) /\ Len(s) = Len(a) + Len(b) /\ Len(a) \in Nat /\ Len(b) \in Nat
    BY JoinedLen
  <1>3. at \in 1..Len(a) /\ at + 1 \in 1..Len(a)
    BY <1>2 DEF Blank
  <1>4. s[at] = 0 /\ s[at + 1] = 0
    BY <1>1, <1>3 DEF Blank
  <1>5. at \in Nat /\ at % 2 = 1 /\ at + 1 <= Len(s)
    BY <1>2 DEF Blank
  <1> QED
    BY <1>2, <1>4, <1>5 DEF Blank

\* A TCP header in front of its options.
Fields(ports, seq, ack, x, y, win) ==
    /\ ports \in Seq(Nat) /\ seq \in Seq(Nat) /\ ack \in Seq(Nat)
    /\ Len(ports) = 4 /\ Len(seq) = 4 /\ Len(ack) = 4
    /\ x \in Nat /\ y \in Nat /\ win \in Nat

TcpHeader(ports, seq, ack, x, y, win) ==
    ports \o seq \o ack \o <<x, y>> \o Word(win) \o <<0, 0, 0, 0>>

LEMMA TcpHead ==
  ASSUME NEW ports, NEW seq, NEW ack, NEW x, NEW y, NEW win, Fields(ports, seq, ack, x, y, win)
  PROVE  Blank(TcpHeader(ports, seq, ack, x, y, win), 17) /\ Len(TcpHeader(ports, seq, ack, x, y, win)) = 20
  <1>14. /\ ports \in Seq(Nat) /\ seq \in Seq(Nat) /\ ack \in Seq(Nat)
         /\ Len(ports) = 4 /\ Len(seq) = 4 /\ Len(ack) = 4
         /\ x \in Nat /\ y \in Nat /\ win \in Nat
    BY DEF Fields
  <1>1. PICK xy, w, z : xy = <<x, y>> /\ w = Word(win) /\ z = <<0, 0, 0, 0>>
    OBVIOUS
  <1>2. xy \in Seq(Nat) /\ Len(xy) = 2
    BY <1>1, <1>14
  <1>3. w \in Seq(Nat) /\ Len(w) = 2
    BY <1>1, <1>14, WordType
  <1>4. z \in Seq(Nat) /\ Len(z) = 4 /\ z[1] = 0 /\ z[2] = 0
    BY <1>1
  <1>5. PICK a : Joined(a, ports, seq)
    BY <1>14, SomeJoined
  <1>6. PICK b : Joined(b, a, ack)
    BY <1>5, <1>14, SomeJoined, JoinedLen
  <1>7. PICK c : Joined(c, b, xy)
    BY <1>2, <1>6, SomeJoined, JoinedLen
  <1>8. PICK d : Joined(d, c, w)
    BY <1>3, <1>7, SomeJoined, JoinedLen
  <1>9. PICK h : Joined(h, d, z)
    BY <1>4, <1>8, SomeJoined, JoinedLen
  <1>10. Len(d) = 16 /\ Len(h) = 20 /\ h \in Seq(Nat)
    <2>1. Len(a) = Len(ports) + Len(seq)
      BY <1>5, JoinedLen
    <2>2. Len(b) = Len(a) + Len(ack)
      BY <1>6, JoinedLen
    <2>3. Len(c) = Len(b) + Len(xy)
      BY <1>7, JoinedLen
    <2>4. Len(d) = Len(c) + Len(w)
      BY <1>8, JoinedLen
    <2>5. h \in Seq(Nat) /\ Len(h) = Len(d) + Len(z)
      BY <1>9, JoinedLen
    <2> QED
      BY <1>2, <1>3, <1>4, <1>14, <2>1, <2>2, <2>3, <2>4, <2>5
  <1>11. h[17] = 0 /\ h[18] = 0
    <2>1. Behind(h, 16, z)
      BY <1>9, <1>10, JoinedBack
    <2>2. h[16 + 1] = 0 /\ h[16 + 2] = 0
      BY <1>4, <2>1 DEF Behind
    <2> QED
      BY <2>2
  <1>12. Blank(h, 17)
    <2>1. 17 % 2 = 1
      OBVIOUS
    <2> QED
      BY <1>10, <1>11, <2>1 DEF Blank
  <1>13. h = ports \o seq \o ack \o <<x, y>> \o Word(win) \o <<0, 0, 0, 0>>
    BY <1>1, <1>5, <1>6, <1>7, <1>8, <1>9 DEF Joined
  <1> QED
    BY <1>10, <1>12, <1>13 DEF TcpHeader

LEMMA ProtosL4 == 6 \in L4 /\ 17 \in L4 /\ 58 \in L4 /\ 6 \in Nat /\ 17 \in Nat /\ 58 \in Nat
  BY DEF L4

\* A part with a blank checksum becomes a good packet behind its IP header.
LEMMA SegmentMade ==
  ASSUME NEW v6, NEW saddr, NEW daddr, Ends(v6, saddr, daddr),
         NEW proto \in L4, NEW seg, NEW at, Blank(seg, at)
  PROVE  \E pkt, got :
            /\ pkt = IpHeader(v6, Len(seg), proto, saddr, daddr) \o Summed(v6, saddr, daddr, proto, seg, at)
            /\ Made(v6, saddr, daddr, proto, got, pkt) /\ Filled(got, seg, at)
  <1>1. proto \in Nat
    BY DEF L4
  <1>2. PICK got : /\ got = Summed(v6, saddr, daddr, proto, seg, at)
                   /\ Filled(got, seg, at) /\ SegmentVerifies(v6, saddr, daddr, proto, got)
    BY <1>1, SummedIs
  <1>3. got \in Seq(Nat) /\ Len(got) = Len(seg)
    BY <1>2 DEF Filled
  <1>4. PICK pkt : pkt = IpHeader(v6, Len(got), proto, saddr, daddr) \o got
    OBVIOUS
  <1>5. Made(v6, saddr, daddr, proto, got, pkt)
    BY <1>2, <1>3, <1>4, GoodMade
  <1>6. pkt = IpHeader(v6, Len(seg), proto, saddr, daddr) \o Summed(v6, saddr, daddr, proto, seg, at)
    BY <1>2, <1>3, <1>4
  <1> QED
    BY <1>2, <1>5, <1>6

\* Whatever a segment carries and whoever it goes to, what is built is a good
\* packet, or nothing when there is not room enough for all of it
\* (tcp_build_segment).
THEOREM SegmentIsGood ==
  ASSUME NEW v6, NEW saddr, NEW daddr, Ends(v6, saddr, daddr),
         NEW ports, NEW seq, NEW ack, NEW flags, NEW win, Fields(ports, seq, ack, 80, flags, win),
         NEW payload \in Seq(Nat)
  PROVE  \E pkt : /\ GoodPacket(v6, saddr, daddr, 6, pkt)
                  /\ Len(pkt) = HeaderLen(v6) + 20 + Len(payload)
                  /\ \A cap \in Int :
                        tcp_build_segment(v6, saddr, daddr, ports, seq, ack, flags, payload, win, cap)
                          = IF Len(pkt) > cap \/ Len(pkt) > TunMtu THEN NoPacket ELSE pkt
  <1>1. PICK h : h = TcpHeader(ports, seq, ack, 80, flags, win) /\ Blank(h, 17) /\ Len(h) = 20
    BY TcpHead
  <1>2. PICK seg : Joined(seg, h, payload)
    BY <1>1, SomeJoined DEF Blank
  <1>3. Blank(seg, 17)
    BY <1>1, <1>2, BlankJoined
  <1>4. PICK n \in Nat, l \in {20, 40} : n = Len(payload) /\ l = HeaderLen(v6)
    BY DEF HeaderLen
  <1>5. Len(seg) = 20 + n
    <2>1. Len(seg) = Len(h) + Len(payload)
      BY <1>2, JoinedLen
    <2> QED
      BY <1>1, <1>4, <2>1
  <1>6. PICK pkt, got :
           /\ pkt = IpHeader(v6, Len(seg), 6, saddr, daddr) \o Summed(v6, saddr, daddr, 6, seg, 17)
           /\ Made(v6, saddr, daddr, 6, got, pkt) /\ Filled(got, seg, 17)
    BY <1>3, ProtosL4, SegmentMade
  <1>7. Len(pkt) = HeaderLen(v6) + 20 + Len(payload) /\ GoodPacket(v6, saddr, daddr, 6, pkt)
    <2>1. /\ Len(pkt) = HeaderLen(v6) + Len(got) /\ Len(got) = Len(seg)
          /\ GoodPacket(v6, saddr, daddr, 6, pkt)
      BY <1>6 DEF Made, Filled
    <2> QED
      BY <1>4, <1>5, <2>1
  <1>8. seg = ports \o seq \o ack \o <<80, flags>> \o Word(win) \o <<0, 0, 0, 0>> \o payload
    BY <1>1, <1>2 DEF Joined, TcpHeader
  <1>9. ASSUME NEW cap \in Int
        PROVE  tcp_build_segment(v6, saddr, daddr, ports, seq, ack, flags, payload, win, cap)
                 = IF Len(pkt) > cap \/ Len(pkt) > TunMtu THEN NoPacket ELSE pkt
    <2>1. tcp_build_segment(v6, saddr, daddr, ports, seq, ack, flags, payload, win, cap)
            = IF HeaderLen(v6) + 20 + Len(payload) > cap \/ HeaderLen(v6) + 20 + Len(payload) > TunMtu
              THEN NoPacket
              ELSE IpHeader(v6, Len(seg), 6, saddr, daddr) \o Summed(v6, saddr, daddr, 6, seg, 17)
      BY <1>8, Zenon DEF tcp_build_segment
    <2> QED
      BY <1>6, <1>7, <2>1, Zenon
  <1> QED
    BY <1>7, <1>9

\* The same for datagrams (udp_build_packet).
THEOREM DatagramIsGood ==
  ASSUME NEW v6, NEW saddr, NEW daddr, Ends(v6, saddr, daddr),
         NEW ports \in Seq(Nat), Len(ports) = 4, NEW payload \in Seq(Nat)
  PROVE  \E pkt : /\ GoodPacket(v6, saddr, daddr, 17, pkt)
                  /\ Len(pkt) = HeaderLen(v6) + (8 + Len(payload))
                  /\ \A cap \in Int :
                        udp_build_packet(v6, saddr, daddr, ports, payload, cap)
                          = IF Len(pkt) > TunMtu \/ Len(pkt) > cap THEN NoPacket ELSE pkt
  <1>1. PICK n \in Nat, l \in {20, 40} : n = Len(payload) /\ l = HeaderLen(v6)
    BY DEF HeaderLen
  <1>2. PICK w, z : w = Word(8 + n) /\ z = <<0, 0>>
    OBVIOUS
  <1>3. w \in Seq(Nat) /\ Len(w) = 2
    BY <1>2, WordType
  <1>4. z \in Seq(Nat) /\ Len(z) = 2 /\ z[1] = 0 /\ z[2] = 0
    BY <1>2
  <1>5. PICK a : Joined(a, ports, w)
    BY <1>3, SomeJoined
  <1>6. PICK h : Joined(h, a, z)
    BY <1>4, <1>5, SomeJoined, JoinedLen
  <1>7. PICK seg : Joined(seg, h, payload)
    BY <1>6, SomeJoined, JoinedLen
  <1>8. Len(a) = 6 /\ Len(h) = 8 /\ Len(seg) = 8 + n /\ h \in Seq(Nat)
    <2>1. Len(a) = Len(ports) + Len(w)
      BY <1>5, JoinedLen
    <2>2. h \in Seq(Nat) /\ Len(h) = Len(a) + Len(z)
      BY <1>6, JoinedLen
    <2>3. Len(seg) = Len(h) + Len(payload)
      BY <1>7, JoinedLen
    <2> QED
      BY <1>1, <1>3, <1>4, <2>1, <2>2, <2>3
  <1>9. Blank(h, 7)
    <2>1. Behind(h, 6, z)
      BY <1>6, <1>8, JoinedBack
    <2>2. h[6 + 1] = 0 /\ h[6 + 2] = 0
      BY <1>4, <2>1 DEF Behind
    <2>3. 7 % 2 = 1
      OBVIOUS
    <2> QED
      BY <1>8, <2>2, <2>3 DEF Blank
  <1>10. Blank(seg, 7)
    BY <1>7, <1>9, BlankJoined
  <1>11. PICK pkt, got :
           /\ pkt = IpHeader(v6, Len(seg), 17, saddr, daddr) \o Summed(v6, saddr, daddr, 17, seg, 7)
           /\ Made(v6, saddr, daddr, 17, got, pkt) /\ Filled(got, seg, 7)
    BY <1>10, ProtosL4, SegmentMade
  <1>12. /\ Len(pkt) = HeaderLen(v6) + (8 + Len(payload)) /\ GoodPacket(v6, saddr, daddr, 17, pkt)
         /\ Len(pkt) = HeaderLen(v6) + Len(seg)
    <2>1. /\ Len(pkt) = HeaderLen(v6) + Len(got) /\ Len(got) = Len(seg)
          /\ GoodPacket(v6, saddr, daddr, 17, pkt)
      BY <1>11 DEF Made, Filled
    <2> QED
      BY <1>1, <1>8, <2>1
  <1>13. seg = ports \o Word(8 + Len(payload)) \o <<0, 0>> \o payload
    BY <1>1, <1>2, <1>5, <1>6, <1>7 DEF Joined
  <1>14. ASSUME NEW cap \in Int
         PROVE  udp_build_packet(v6, saddr, daddr, ports, payload, cap)
                  = IF Len(pkt) > TunMtu \/ Len(pkt) > cap THEN NoPacket ELSE pkt
    <2>1. udp_build_packet(v6, saddr, daddr, ports, payload, cap)
            = IF HeaderLen(v6) + Len(seg) > TunMtu \/ HeaderLen(v6) + Len(seg) > cap THEN NoPacket
              ELSE IpHeader(v6, Len(seg), 17, saddr, daddr) \o Summed(v6, saddr, daddr, 17, seg, 7)
      BY <1>13, Zenon DEF udp_build_packet
    <2> QED
      BY <1>11, <1>12, <2>1, Zenon
  <1> QED
    BY <1>12, <1>14

-----------------------------------------------------------------------------
(* SOCKS5 messages: an address type, an address, a port and a rest.         *)

\* The bytes in front of an address and the address.
Typed(h, g) ==
    /\ h \in Seq(Nat) /\ g \in Seq(Nat)
    /\ \/ h = <<3, Len(g)>>
       \/ h = <<4>> /\ Len(g) = 16
       \/ h = <<1>> /\ Len(g) = 4

Laid(h, g, port, rest) == h \o g \o port \o rest

Parts(m, h, g, port, rest) ==
    /\ m \in Seq(Nat) /\ Len(m) = Len(h) + Len(g) + Len(port) + Len(rest)
    /\ SubSeq(m, Len(h) + 1, Len(h) + Len(g)) = g
    /\ SubSeq(m, Len(h) + Len(g) + 1, Len(h) + Len(g) + Len(port)) = port
    /\ From(m, Len(h) + Len(g) + Len(port) + 1) = rest
    /\ \A i \in 1..Len(h) : m[i] = h[i]

LEMMA LaidParts ==
  ASSUME NEW h \in Seq(Nat), NEW g \in Seq(Nat), NEW port \in Seq(Nat), NEW rest \in Seq(Nat)
  PROVE  Parts(Laid(h, g, port, rest), h, g, port, rest)
  <1>m. PICK m : m = Laid(h, g, port, rest)
    OBVIOUS
  <1>1. PICK hg : Joined(hg, h, g)
    BY SomeJoined
  <1>2. hg \in Seq(Nat)
    BY <1>1, JoinedLen
  <1>3. PICK hgp : Joined(hgp, hg, port)
    BY <1>2, SomeJoined
  <1>4. hgp \in Seq(Nat)
    BY <1>3, JoinedLen
  <1>5. Joined(m, hgp, rest)
    <2>1. m = hgp \o rest
      BY <1>1, <1>3, <1>m DEF Laid, Joined
    <2> QED
      BY <1>4, <2>1, Join
  <1>6. PICK pr : Joined(pr, port, rest)
    BY SomeJoined
  <1>7. Joined(m, hg, pr)
    BY <1>3, <1>5, <1>6, RegroupRight
  <1>8. pr \in Seq(Nat)
    BY <1>6, JoinedLen
  <1>9. PICK gpr : Joined(gpr, g, pr)
    BY <1>8, SomeJoined
  <1>10. Joined(m, h, gpr)
    BY <1>1, <1>7, <1>9, RegroupRight
  <1>11. SubSeq(m, Len(h) + 1, Len(hg)) = g
    BY <1>1, <1>7, JoinedMiddle
  <1>12. SubSeq(m, Len(hg) + 1, Len(hgp)) = port
    BY <1>3, <1>5, JoinedMiddle
  <1>13. From(m, Len(hgp) + 1) = rest
    BY <1>5, JoinedEnd
  <1>14. \A i \in 1..Len(h) : m[i] = h[i]
    BY <1>10, JoinedFront
  <1>15. Len(hg) = Len(h) + Len(g) /\ Len(hgp) = Len(hg) + Len(port)
    BY <1>1, <1>3, JoinedLen
  <1>16. m \in Seq(Nat) /\ Len(m) = Len(hgp) + Len(rest)
    BY <1>5, JoinedLen
  <1> QED
    BY <1>11, <1>12, <1>13, <1>14, <1>15, <1>16, <1>m DEF Parts

\* The server reads them as they are meant.
LEMMA LaidRead ==
  ASSUME NEW h, NEW g, Typed(h, g), NEW port \in Seq(Nat), Len(port) = 2, NEW rest \in Seq(Nat)
  PROVE  ReadTarget(Laid(h, g, port, rest)) = [address |-> g, port |-> port, rest |-> rest]
  <1> DEFINE end == Len(h) + Len(g)
  <1>m. PICK m : m = Laid(h, g, port, rest)
    OBVIOUS
  <1>1. h \in Seq(Nat) /\ g \in Seq(Nat)
    BY DEF Typed
  <1>2. /\ SubSeq(m, Len(h) + 1, end) = g
        /\ SubSeq(m, end + 1, end + 2) = port
        /\ From(m, end + 2 + 1) = rest
        /\ \A i \in 1..Len(h) : m[i] = h[i]
    <2>2. /\ SubSeq(m, Len(h) + 1, Len(h) + Len(g)) = g
          /\ SubSeq(m, Len(h) + Len(g) + 1, Len(h) + Len(g) + Len(port)) = port
          /\ From(m, Len(h) + Len(g) + Len(port) + 1) = rest
          /\ \A i \in 1..Len(h) : m[i] = h[i]
      <3>1. Parts(m, h, g, port, rest)
        BY <1>1, <1>m, LaidParts
      <3> QED
        BY <3>1 DEF Parts
    <2> QED
      BY <2>2
  <1>3. Len(g) \in Nat
    BY <1>1
  <1>4. CASE h = <<3, Len(g)>>
    <2>1. Len(h) = 2 /\ h[1] = 3 /\ h[2] = Len(g)
      BY <1>4
    <2>2. m[1] = 3 /\ m[2] = Len(g)
      BY <1>2, <2>1
    <2>3. Len(h) + 1 = 3 /\ end = 2 + m[2] /\ end + 2 + 1 = end + 3
      BY <1>3, <2>1, <2>2
    <2>4. SubSeq(m, 3, 2 + m[2]) = g /\ SubSeq(m, 2 + m[2] + 1, 2 + m[2] + 2) = port
          /\ From(m, 2 + m[2] + 3) = rest
      BY <1>2, <2>3
    <2>5. ReadTarget(m) = [address |-> SubSeq(m, 3, 2 + m[2]),
                           port |-> SubSeq(m, 2 + m[2] + 1, 2 + m[2] + 2),
                           rest |-> From(m, 2 + m[2] + 3)]
      BY <2>2 DEF ReadTarget
    <2> QED
      BY <1>m, <2>4, <2>5
  <1>5. CASE h = <<4>> /\ Len(g) = 16
    <2>1. Len(h) = 1 /\ h[1] = 4
      BY <1>5
    <2>2. m[1] = 4
      BY <1>2, <2>1
    <2>3. SubSeq(m, 2, 17) = g /\ SubSeq(m, 18, 19) = port /\ From(m, 20) = rest
      BY <1>2, <1>5, <2>1
    <2>4. ReadTarget(m) = [address |-> SubSeq(m, 2, 17), port |-> SubSeq(m, 18, 19),
                           rest |-> From(m, 20)]
      BY <2>2 DEF ReadTarget
    <2> QED
      BY <1>m, <2>3, <2>4
  <1>6. CASE h = <<1>> /\ Len(g) = 4
    <2>1. Len(h) = 1 /\ h[1] = 1
      BY <1>6
    <2>2. m[1] = 1
      BY <1>2, <2>1
    <2>3. SubSeq(m, 2, 5) = g /\ SubSeq(m, 6, 7) = port /\ From(m, 8) = rest
      BY <1>2, <1>6, <2>1
    <2>4. ReadTarget(m) = [address |-> SubSeq(m, 2, 5), port |-> SubSeq(m, 6, 7),
                           rest |-> From(m, 8)]
      BY <2>2 DEF ReadTarget
    <2> QED
      BY <1>m, <2>3, <2>4
  <1> QED
    BY <1>4, <1>5, <1>6 DEF Typed

\* A name of one byte's length, or an address of either family.
Head1(name, ip) == IF name # <<>> THEN <<3, Len(name)>> ELSE IF Len(ip) = 16 THEN <<4>> ELSE <<1>>

LEMMA TargetIs ==
  ASSUME NEW name \in Seq(Nat), Len(name) <= 255, NEW ip \in Seq(Nat), Len(ip) \in {4, 16},
         NEW port
  PROVE  /\ Target(ip, port, name) = Head1(name, ip) \o Given(name, ip) \o port
         /\ Typed(Head1(name, ip), Given(name, ip))
  <1>1. Len(name) \in Nat /\ Len(name) % 256 = Len(name)
    <2>1. PICK n \in Nat : n = Len(name)
      OBVIOUS
    <2>2. n <= 255
      BY <2>1
    <2>3. n % 256 = n
      BY <2>2
    <2> QED
      BY <2>1, <2>3
  <1>2. Target(ip, port, name) = Head1(name, ip) \o Given(name, ip) \o port
    BY <1>1 DEF Target, Head1, Given
  <1>3. <<3, Len(name)>> \in Seq(Nat) /\ <<4>> \in Seq(Nat) /\ <<1>> \in Seq(Nat)
    BY <1>1
  <1>4. Typed(Head1(name, ip), Given(name, ip))
    BY <1>3 DEF Typed, Head1, Given
  <1> QED
    BY <1>2, <1>4

\* A whole message: three bytes in front.
\* The address begins behind byte o, the port behind byte k.
Places(m, o, k, g, port, rest) ==
    /\ SubSeq(m, o + 1, k) = g /\ SubSeq(m, k + 1, k + 2) = port
    /\ SubSeq(m, k + 3, Len(m)) = rest

Message(m, h, g, port, rest) ==
    /\ From(m, 4) = Laid(h, g, port, rest)
    /\ m \in Seq(Nat) /\ Len(m) = 5 + Len(h) + Len(g) + Len(rest)
    /\ \A i \in 1..Len(h) : m[3 + i] = h[i]
    /\ Places(m, 3 + Len(h), 3 + Len(h) + Len(g), g, port, rest)

LEMMA MessageParts ==
  ASSUME NEW f \in Seq(Nat), Len(f) = 3, NEW h, NEW g, Typed(h, g),
         NEW port \in Seq(Nat), Len(port) = 2, NEW rest \in Seq(Nat),
         NEW m, m = f \o (h \o g \o port) \o rest
  PROVE  Message(m, h, g, port, rest)
  <1>1. h \in Seq(Nat) /\ g \in Seq(Nat)
    BY DEF Typed
  <1>2. PICK hg : Joined(hg, h, g)
    BY <1>1, SomeJoined
  <1>3. hg \in Seq(Nat)
    BY <1>2, JoinedLen
  <1>4. PICK t : Joined(t, hg, port)
    BY <1>3, SomeJoined
  <1>5. t \in Seq(Nat)
    BY <1>4, JoinedLen
  <1>6. PICK tr : Joined(tr, t, rest)
    BY <1>5, SomeJoined
  <1>7. PICK ft : Joined(ft, f, t)
    BY <1>5, SomeJoined
  <1>8. Joined(m, ft, rest)
    <2>1. m = ft \o rest
      BY <1>2, <1>4, <1>7 DEF Joined
    <2>2. ft \in Seq(Nat)
      BY <1>7, JoinedLen
    <2> QED
      BY <2>1, <2>2, Join
  <1>9. Joined(m, f, tr)
    BY <1>6, <1>7, <1>8, RegroupRight
  <1>10. From(m, 4) = tr
    <2>1. From(m, Len(f) + 1) = tr
      BY <1>9, JoinedEnd
    <2> QED
      BY <2>1
  <1>11. tr = Laid(h, g, port, rest)
    BY <1>2, <1>4, <1>6 DEF Laid, Joined
  <1>12. PICK fh : Joined(fh, f, h)
    BY <1>1, SomeJoined
  <1>13. Len(h) \in Nat /\ Len(g) \in Nat /\ Len(rest) \in Nat
    BY <1>1
  <1>14. Len(m) = 5 + Len(h) + Len(g) + Len(rest) /\ m \in Seq(Nat)
    <2>1. Len(hg) = Len(h) + Len(g)
      BY <1>2, JoinedLen
    <2>2. Len(t) = Len(hg) + 2
      BY <1>4, JoinedLen
    <2>3. Len(tr) = Len(t) + Len(rest)
      BY <1>6, JoinedLen
    <2>4. Len(m) = 3 + Len(tr) /\ m \in Seq(Nat)
      BY <1>9, JoinedLen
    <2> QED
      BY <1>13, <2>1, <2>2, <2>3, <2>4
  <1>15. m = Laid(fh, g, port, rest)
    <2>1. PICK fhg : Joined(fhg, f, hg)
      BY <1>3, SomeJoined
    <2>2. Joined(fhg, fh, g)
      BY <1>2, <1>12, <2>1, RegroupLeft
    <2>3. Joined(ft, fhg, port)
      BY <1>4, <1>7, <2>1, RegroupLeft
    <2>4. fhg = fh \o g /\ ft = fhg \o port /\ m = ft \o rest
      BY <1>8, <2>2, <2>3 DEF Joined
    <2> QED
      BY <2>4 DEF Laid
  <1>16. fh \in Seq(Nat) /\ Len(fh) = 3 + Len(h)
    BY <1>12 DEF Joined
  <1>17. Parts(m, fh, g, port, rest)
    BY <1>1, <1>15, <1>16, LaidParts
  <1>18. \A i \in 1..Len(h) : m[3 + i] = h[i]
    <2> TAKE i \in 1..Len(h)
    <2>1. 3 + i \in 1..Len(fh)
      BY <1>13, <1>16
    <2>2. Behind(fh, 3, h)
      <3>1. Behind(fh, Len(f), h)
        BY <1>12, JoinedBack
      <3> QED
        BY <3>1
    <2> QED
      BY <1>17, <2>1, <2>2 DEF Parts, Behind
  <1>19. Places(m, 3 + Len(h), 3 + Len(h) + Len(g), g, port, rest)
    <2>1. /\ SubSeq(m, Len(fh) + 1, Len(fh) + Len(g)) = g
          /\ SubSeq(m, Len(fh) + Len(g) + 1, Len(fh) + Len(g) + 2) = port
          /\ SubSeq(m, Len(fh) + Len(g) + 2 + 1, Len(m)) = rest
      BY <1>17 DEF Parts, From
    <2>2. PICK o \in Nat : o = 3 + Len(h)
      BY <1>13
    <2>3. PICK k \in Nat : k = o + Len(g)
      BY <1>13
    <2>4. Len(fh) = o /\ Len(fh) + Len(g) = k /\ k + 2 + 1 = k + 3
      BY <1>16, <2>2, <2>3
    <2>5. SubSeq(m, o + 1, k) = g /\ SubSeq(m, k + 1, k + 2) = port /\ SubSeq(m, k + 3, Len(m)) = rest
      BY <2>1, <2>4
    <2> QED
      BY <2>2, <2>3, <2>5 DEF Places
  <1> QED
    BY <1>10, <1>11, <1>14, <1>18, <1>19 DEF Message

-----------------------------------------------------------------------------
(* socks5_parse_udp_datagram, case by case.                                 *)

LEMMA ParseShort ==
  ASSUME NEW t, NEW n \in Nat, Len(t) = n, n < 4
  PROVE  socks5_parse_udp_datagram(t, 256) = Malformed
  BY DEF socks5_parse_udp_datagram

LEMMA ParseV4 ==
  ASSUME NEW t, NEW n \in Nat, Len(t) = n, n >= 10, t[4] = 1
  PROVE  socks5_parse_udp_datagram(t, 256)
           = [ip |-> SubSeq(t, 5, 8), domain |-> <<>>, port |-> SubSeq(t, 9, 10),
              payload |-> SubSeq(t, 11, n)]
  BY DEF socks5_parse_udp_datagram

LEMMA ParseV4Short ==
  ASSUME NEW t, NEW n \in Nat, Len(t) = n, n >= 4, n < 10, t[4] = 1
  PROVE  socks5_parse_udp_datagram(t, 256) = Malformed
  BY DEF socks5_parse_udp_datagram

LEMMA ParseV6 ==
  ASSUME NEW t, NEW n \in Nat, Len(t) = n, n >= 22, t[4] = 4
  PROVE  socks5_parse_udp_datagram(t, 256)
           = [ip |-> SubSeq(t, 5, 20), domain |-> <<>>, port |-> SubSeq(t, 21, 22),
              payload |-> SubSeq(t, 23, n)]
  BY DEF socks5_parse_udp_datagram

LEMMA ParseV6Short ==
  ASSUME NEW t, NEW n \in Nat, Len(t) = n, n >= 4, n < 22, t[4] = 4
  PROVE  socks5_parse_udp_datagram(t, 256) = Malformed
  BY DEF socks5_parse_udp_datagram

LEMMA ParseName ==
  ASSUME NEW t, NEW n \in Nat, Len(t) = n, NEW k \in Nat, k <= 255, n >= 7 + k, t[4] = 3, t[5] = k
  PROVE  socks5_parse_udp_datagram(t, 256)
           = [ip |-> <<>>, domain |-> SubSeq(t, 6, 5 + k), port |-> SubSeq(t, 6 + k, 7 + k),
              payload |-> SubSeq(t, 8 + k, n)]
  <1>1. n >= 7 /\ ~(n < 4)
    OBVIOUS
  <1>2. PICK r : r = IF k < 256 - 1 THEN k ELSE 256 - 1
    OBVIOUS
  <1>3. r = k
    <2>1. k < 255 \/ k = 255
      OBVIOUS
    <2> QED
      BY <1>2, <2>1
  <1>4. socks5_parse_udp_datagram(t, 256)
           = [ip |-> <<>>, domain |-> SubSeq(t, 6, 5 + r), port |-> SubSeq(t, (7 + k) - 1, 7 + k),
              payload |-> SubSeq(t, (7 + k) + 1, n)]
    BY <1>1, <1>2 DEF socks5_parse_udp_datagram
  <1>5. (7 + k) - 1 = 6 + k /\ (7 + k) + 1 = 8 + k
    OBVIOUS
  <1> QED
    BY <1>3, <1>4, <1>5

LEMMA ParseNameShort ==
  ASSUME NEW t, NEW n \in Nat, Len(t) = n, NEW k \in Nat, n >= 4, n < 7 + k, t[4] = 3,
         n >= 7 => t[5] = k
  PROVE  socks5_parse_udp_datagram(t, 256) = Malformed
  <1>1. CASE n < 7
    BY <1>1 DEF socks5_parse_udp_datagram
  <1>2. CASE n >= 7
    BY <1>2 DEF socks5_parse_udp_datagram
  <1> QED
    BY <1>1, <1>2

\* The client's own reader takes a datagram apart as it was put together.
Back(h, g, port, rest) ==
    [ip |-> IF h[1] = 3 THEN <<>> ELSE g, domain |-> IF h[1] = 3 THEN g ELSE <<>>,
     port |-> port, payload |-> rest]

LEMMA ParsedIs ==
  ASSUME NEW h, NEW g, Typed(h, g), Len(g) <= 255,
         NEW port, NEW rest \in Seq(Nat), NEW m, Message(m, h, g, port, rest)
  PROVE  socks5_parse_udp_datagram(m, 256) = Back(h, g, port, rest)
  <1>1. PICK k \in Nat : k = Len(g) /\ k <= 255
    BY DEF Typed
  <1>2. PICK r \in Nat : r = Len(rest)
    OBVIOUS
  <1>3. PICK n \in Nat : n = Len(m) /\ n = 5 + Len(h) + k + r
    BY <1>1, <1>2 DEF Message
  <1>4. /\ \A i \in 1..Len(h) : m[3 + i] = h[i]
        /\ Places(m, 3 + Len(h), 3 + Len(h) + k, g, port, rest)
    BY <1>1 DEF Message
  <1>5. CASE h = <<3, Len(g)>>
    <2>1. Len(h) = 2 /\ h[1] = 3 /\ h[2] = k
      BY <1>1, <1>5
    <2>2. m[4] = 3 /\ m[5] = k
      BY <1>4, <2>1
    <2>3. n = 7 + k + r
      BY <1>3, <2>1
    <2>4. Places(m, 5, 5 + k, g, port, rest)
      BY <1>4, <2>1
    <2>5. SubSeq(m, 6, 5 + k) = g /\ SubSeq(m, 6 + k, 7 + k) = port /\ SubSeq(m, 8 + k, n) = rest
      <3>1. 5 + k + 1 = 6 + k /\ 5 + k + 2 = 7 + k /\ 5 + k + 3 = 8 + k /\ 5 + 1 = 6
        OBVIOUS
      <3> QED
        BY <1>3, <2>4, <3>1 DEF Places
    <2>6. n >= 7 + k
      BY <2>3
    <2>7. socks5_parse_udp_datagram(m, 256)
           = [ip |-> <<>>, domain |-> SubSeq(m, 6, 5 + k), port |-> SubSeq(m, 6 + k, 7 + k),
              payload |-> SubSeq(m, 8 + k, n)]
      BY <1>1, <1>3, <2>2, <2>6, ParseName
    <2> QED
      BY <2>1, <2>5, <2>7 DEF Back
  <1>6. CASE h = <<4>> /\ Len(g) = 16
    <2>1. Len(h) = 1 /\ h[1] = 4 /\ k = 16
      BY <1>1, <1>6
    <2>2. m[4] = 4 /\ n >= 22
      BY <1>3, <1>4, <2>1
    <2>3. Places(m, 4, 20, g, port, rest)
      BY <1>4, <2>1
    <2>4. SubSeq(m, 5, 20) = g /\ SubSeq(m, 21, 22) = port /\ SubSeq(m, 23, n) = rest
      BY <1>3, <2>3 DEF Places
    <2>5. socks5_parse_udp_datagram(m, 256)
            = [ip |-> SubSeq(m, 5, 20), domain |-> <<>>, port |-> SubSeq(m, 21, 22),
               payload |-> SubSeq(m, 23, n)]
      BY <1>3, <2>2, ParseV6
    <2>6. Back(h, g, port, rest) = [ip |-> g, domain |-> <<>>, port |-> port, payload |-> rest]
      <3>1. ~(h[1] = 3)
        BY <2>1
      <3> QED
        BY <3>1 DEF Back
    <2> QED
      BY <2>4, <2>5, <2>6
  <1>7. CASE h = <<1>> /\ Len(g) = 4
    <2>1. Len(h) = 1 /\ h[1] = 1 /\ k = 4
      BY <1>1, <1>7
    <2>2. m[4] = 1 /\ n >= 10
      BY <1>3, <1>4, <2>1
    <2>3. Places(m, 4, 8, g, port, rest)
      BY <1>4, <2>1
    <2>4. SubSeq(m, 5, 8) = g /\ SubSeq(m, 9, 10) = port /\ SubSeq(m, 11, n) = rest
      BY <1>3, <2>3 DEF Places
    <2>5. socks5_parse_udp_datagram(m, 256)
            = [ip |-> SubSeq(m, 5, 8), domain |-> <<>>, port |-> SubSeq(m, 9, 10),
               payload |-> SubSeq(m, 11, n)]
      BY <1>3, <2>2, ParseV4
    <2>6. Back(h, g, port, rest) = [ip |-> g, domain |-> <<>>, port |-> port, payload |-> rest]
      <3>1. ~(h[1] = 3)
        BY <2>1
      <3> QED
        BY <3>1 DEF Back
    <2> QED
      BY <2>4, <2>5, <2>6
  <1> QED
    BY <1>5, <1>6, <1>7 DEF Typed

\* What ends before its payload begins is not taken for a datagram.
LEMMA CutOffRefused ==
  ASSUME NEW h, NEW g, Typed(h, g),
         NEW port, NEW rest \in Seq(Nat), NEW m, Message(m, h, g, port, rest),
         NEW n \in Nat, n < Len(m) - Len(rest)
  PROVE  socks5_parse_udp_datagram(SubSeq(m, 1, n), 256) = Malformed
  <1>1. PICK k \in Nat : k = Len(g)
    BY DEF Typed
  <1>2. Len(rest) \in Nat /\ m \in Seq(Nat) /\ Len(m) \in Nat /\ Len(h) \in Nat
    BY DEF Message, Typed
  <1>3. n < 5 + Len(h) + k /\ n <= Len(m)
    BY <1>1, <1>2 DEF Message
  <1>4. \A i \in 1..Len(h) : m[3 + i] = h[i]
    BY DEF Message
  <1>5. PICK t : t = SubSeq(m, 1, n)
    OBVIOUS
  <1>6. Len(t) = n /\ \A i \in 1..n : t[i] = m[i]
    BY <1>2, <1>3, <1>5
  <1>7. CASE n < 4
    BY <1>5, <1>6, <1>7, ParseShort
  <1>8. ASSUME n >= 4 PROVE t[4] = m[4]
    BY <1>6, <1>8
  <1>9. CASE n >= 4 /\ h = <<3, Len(g)>>
    <2>1. Len(h) = 2 /\ h[1] = 3 /\ h[2] = k
      BY <1>1, <1>9
    <2>2. m[4] = 3 /\ m[5] = k
      BY <1>4, <2>1
    <2>3. n >= 7 => t[5] = k
      BY <1>6, <2>2
    <2>4. n < 7 + k
      BY <1>3, <2>1
    <2>5. socks5_parse_udp_datagram(t, 256) = Malformed
      BY <1>6, <1>8, <1>9, <2>2, <2>3, <2>4, ParseNameShort
    <2> QED
      BY <1>5, <2>5
  <1>10. CASE n >= 4 /\ h = <<4>> /\ Len(g) = 16
    <2>1. Len(h) = 1 /\ h[1] = 4 /\ k = 16
      BY <1>1, <1>10
    <2>2. m[4] = 4 /\ n < 22
      BY <1>3, <1>4, <2>1
    <2>3. socks5_parse_udp_datagram(t, 256) = Malformed
      BY <1>6, <1>8, <1>10, <2>2, ParseV6Short
    <2> QED
      BY <1>5, <2>3
  <1>11. CASE n >= 4 /\ h = <<1>> /\ Len(g) = 4
    <2>1. Len(h) = 1 /\ h[1] = 1 /\ k = 4
      BY <1>1, <1>11
    <2>2. m[4] = 1 /\ n < 10
      BY <1>3, <1>4, <2>1
    <2>3. socks5_parse_udp_datagram(t, 256) = Malformed
      BY <1>6, <1>8, <1>11, <2>2, ParseV4Short
    <2> QED
      BY <1>5, <2>3
  <1>12. n < 4 \/ n >= 4
    OBVIOUS
  <1> QED
    BY <1>7, <1>9, <1>10, <1>11, <1>12 DEF Typed

LEMMA AllCutOffRefused ==
  ASSUME NEW h, NEW g, Typed(h, g),
         NEW port, NEW rest \in Seq(Nat), NEW m, Message(m, h, g, port, rest)
  PROVE  \A n \in 0..(Len(m) - Len(rest) - 1) :
            socks5_parse_udp_datagram(SubSeq(m, 1, n), 256) = Malformed
  <1> TAKE n \in 0..(Len(m) - Len(rest) - 1)
  <1>1. Len(m) \in Nat /\ Len(rest) \in Nat
    BY DEF Message
  <1>2. n \in Nat /\ n < Len(m) - Len(rest)
    BY <1>1
  <1> QED
    BY <1>2, CutOffRefused, Zenon

-----------------------------------------------------------------------------
(* What the SOCKS5 server reads is what was meant.                          *)

LEMMA NotNothing ==
  ASSUME NEW m, Len(m) > 0
  PROVE  m # Nothing
  BY DEF Nothing

LEMMA IpLen ==
  ASSUME NEW ip \in Seq(Nat), Len(ip) \in {4, 16}
  PROVE  \E k \in Nat : k = Len(ip) /\ k <= 16
  <1>1. PICK k \in Nat : k = Len(ip)
    OBVIOUS
  <1>2. k = 4 \/ k = 16
    BY <1>1
  <1>3. k <= 16
    BY <1>2
  <1> QED
    BY <1>1, <1>3

\* The request is m, where there is room for it.
RequestMade(m, f, ip, port, name, rest) ==
    /\ Len(m) \in Nat /\ Len(m) > 0 /\ Len(m) <= 262 + Len(rest)
    /\ \A cap \in Int : Request(f, ip, port, name, rest, cap) = IF Len(m) <= cap THEN m ELSE Nothing

\* A request with a name that fits its length byte, and as much room as it needs.
LEMMA RequestIs ==
  ASSUME NEW name \in Seq(Nat), Len(name) <= 255, NEW ip \in Seq(Nat), Len(ip) \in {4, 16},
         NEW port \in Seq(Nat), Len(port) = 2, NEW rest \in Seq(Nat),
         NEW f \in Seq(Nat), Len(f) = 3, NEW h, h = Head1(name, ip), NEW g, g = Given(name, ip)
  PROVE  Typed(h, g) /\ \E m : Message(m, h, g, port, rest) /\ RequestMade(m, f, ip, port, name, rest)
  <1>1. Target(ip, port, name) = h \o g \o port /\ Typed(h, g)
    BY TargetIs, Zenon
  <1>2. PICK m : m = f \o (h \o g \o port) \o rest
    OBVIOUS
  <1>3. Message(m, h, g, port, rest)
    BY <1>1, <1>2, MessageParts
  <1>4. \A cap \in Int : Request(f, ip, port, name, rest, cap) = IF Len(m) <= cap THEN m ELSE Nothing
    BY <1>1, <1>2 DEF Request, Addressable, Fits
  <1>5. Len(m) = 5 + Len(h) + Len(g) + Len(rest)
    BY <1>3 DEF Message
  <1>6. Len(rest) \in Nat /\ Len(name) \in Nat
    OBVIOUS
  <1>7. Len(h) \in Nat /\ Len(g) \in Nat /\ Len(h) + Len(g) <= 257
    <2>1. CASE name # <<>>
      <3>1. h = <<3, Len(name)>> /\ g = name
        BY <2>1 DEF Head1, Given
      <3>2. Len(h) = 2
        BY <3>1
      <3> QED
        BY <1>6, <3>1, <3>2
    <2>2. CASE name = <<>>
      <3>1. h \in {<<4>>, <<1>>} /\ g = ip
        BY <2>2 DEF Head1, Given
      <3>2. Len(h) = 1
        BY <3>1
      <3>3. PICK k \in Nat : k = Len(g) /\ k <= 16
        <4>1. g = ip
          BY <3>1
        <4> QED
          BY <4>1, IpLen
      <3>4. 1 + k \in Nat /\ 1 + k <= 257
        BY <3>3
      <3> QED
        BY <3>2, <3>3, <3>4
    <2> QED
      BY <2>1, <2>2
  <1>8. Len(m) \in Nat /\ Len(m) > 0 /\ Len(m) <= 262 + Len(rest)
    BY <1>5, <1>6, <1>7
  <1>9. RequestMade(m, f, ip, port, name, rest)
    BY <1>4, <1>8 DEF RequestMade
  <1> QED
    BY <1>1, <1>3, <1>9

\* A name longer than its length byte says is refused.
LEMMA LongRefused ==
  ASSUME NEW name, Len(name) > 255, NEW ip, NEW port, NEW rest, NEW f, NEW cap, Len(name) \in Nat
  PROVE  Request(f, ip, port, name, rest, cap) = Nothing
  BY DEF Request, Addressable

\* A CONNECT request is read as the name, or the address where there is no
\* name, and the port it was made for; it is refused when the name is longer
\* than 255 bytes or there is a byte less room than it takes
\* (socks5_build_connect_request).
THEOREM ConnectIsRead ==
  ASSUME NEW name \in Seq(Nat), NEW ip \in Seq(Nat), Len(ip) \in {4, 16},
         NEW port \in Seq(Nat), Len(port) = 2
  PROVE  ConnectRead(name, ip, port)
  <1>0. Len(name) \in Nat
    OBVIOUS
  <1>1. CASE Len(name) > 255
    BY <1>0, <1>1, LongRefused DEF ConnectRead, socks5_build_connect_request
  <1>2. CASE ~(Len(name) > 255)
    <2>1. Len(name) <= 255 /\ <<>> \in Seq(Nat) /\ Len(<<>>) = 0
      BY <1>0, <1>2
    <2>2. <<5, 1, 0>> \in Seq(Nat) /\ Len(<<5, 1, 0>>) = 3
      OBVIOUS
    <2>3. PICK h, g : h = Head1(name, ip) /\ g = Given(name, ip)
      OBVIOUS
    <2>4. Typed(h, g) /\ \E m : Message(m, h, g, port, <<>>)
                                /\ RequestMade(m, <<5, 1, 0>>, ip, port, name, <<>>)
      BY <2>1, <2>2, <2>3, RequestIs
    <2>5. PICK m : Message(m, h, g, port, <<>>) /\ RequestMade(m, <<5, 1, 0>>, ip, port, name, <<>>)
      BY <2>4
    <2>6. Len(m) \in Nat /\ Len(m) > 0 /\ Len(m) <= 262
      BY <2>1, <2>5 DEF RequestMade
    <2>7. \A cap \in Int : socks5_build_connect_request(ip, port, name, cap)
                              = IF Len(m) <= cap THEN m ELSE Nothing
      BY <2>5 DEF RequestMade, socks5_build_connect_request
    <2>8. socks5_build_connect_request(ip, port, name, 262) = m
      BY <2>6, <2>7
    <2>9. socks5_build_connect_request(ip, port, name, Len(m) - 1) = Nothing
      <3>1. Len(m) - 1 \in Int /\ ~(Len(m) <= Len(m) - 1)
        BY <2>6
      <3> QED
        BY <2>7, <3>1
    <2>10. From(m, 4) = Laid(h, g, port, <<>>)
      BY <2>5 DEF Message
    <2>11. ReadTarget(From(m, 4)) = [address |-> g, port |-> port, rest |-> <<>>]
      <3>1. PICK e \in Seq(Nat) : e = <<>>
        BY <2>1
      <3>2. ReadTarget(Laid(h, g, port, e)) = [address |-> g, port |-> port, rest |-> e]
        BY <2>4, LaidRead
      <3> QED
        BY <2>10, <3>1, <3>2
    <2> QED
      BY <1>2, <2>3, <2>8, <2>9, <2>11 DEF ConnectRead
  <1> QED
    BY <1>1, <1>2

LEMMA HighByte ==
  ASSUME NEW k \in Nat, k < WordRange
  PROVE  (k \div 256) % 256 = k \div 256
  <1>1. PICK q, r \in Nat : q = k \div 256 /\ k = 256 * q + r
    OBVIOUS
  <1>2. q < 256
    BY <1>1 DEF WordRange
  <1>3. q % 256 = q
    BY <1>2
  <1> QED
    BY <1>1, <1>3

LEMMA FrameIs ==
  ASSUME NEW ip, NEW port, NEW name, NEW payload, NEW cap, NEW c, c = cap - 2, NEW m,
         m = socks5_build_udp_datagram(ip, port, name, payload, c)
  PROVE  socks5_build_udp_frame(ip, port, name, payload, cap)
           = IF m = Nothing THEN Nothing
             ELSE <<(Len(m) \div 256) % 256, Len(m) % 256>> \o m
  BY DEF socks5_build_udp_frame

Datagram(m, ip, port, name, payload) ==
    \A cap \in Int : socks5_build_udp_datagram(ip, port, name, payload, cap)
                       = IF Len(m) <= cap THEN m ELSE Nothing

\* A frame is a datagram's length and the datagram.
FrameOf(m, ip, port, name, payload) ==
    /\ socks5_build_udp_frame(ip, port, name, payload, Len(m) + 2) = Word(Len(m)) \o m
    /\ socks5_build_udp_frame(ip, port, name, payload, Len(m) + 1) = Nothing

LEMMA FrameMade ==
  ASSUME NEW m, NEW ip, NEW port, NEW name, NEW payload, Datagram(m, ip, port, name, payload),
         m # Nothing, NEW k \in Nat, k = Len(m), k < WordRange
  PROVE  FrameOf(m, ip, port, name, payload)
  <1>1. (k \div 256) % 256 = k \div 256
    BY HighByte
  <1>2. \A cap \in Int : socks5_build_udp_datagram(ip, port, name, payload, cap)
                           = IF k <= cap THEN m ELSE Nothing
    BY DEF Datagram
  <1>3. socks5_build_udp_datagram(ip, port, name, payload, k) = m
    <2>1. k \in Int /\ k <= k
      OBVIOUS
    <2> QED
      BY <1>2, <2>1
  <1>4. k = (k + 2) - 2
    OBVIOUS
  <1>5. socks5_build_udp_frame(ip, port, name, payload, k + 2)
          = <<(k \div 256) % 256, k % 256>> \o m
    BY <1>3, <1>4, FrameIs
  <1>6. PICK c \in Int : c = (k + 1) - 2
    OBVIOUS
  <1>7. socks5_build_udp_datagram(ip, port, name, payload, c) = Nothing
    <2>1. ~(k <= c)
      BY <1>6
    <2> QED
      BY <1>2, <2>1
  <1>8. socks5_build_udp_frame(ip, port, name, payload, k + 1) = Nothing
    BY <1>6, <1>7 DEF socks5_build_udp_frame
  <1> QED
    BY <1>1, <1>5, <1>8 DEF Word, FrameOf

\* A datagram is read as the name or address, the port and the payload it was
\* made for, by the server and by the client's own reader; the frame of a TCP
\* relay is its length and the datagram; a byte less room and it is refused;
\* and what is cut off before the payload is not taken for one
\* (socks5_build_udp_datagram, socks5_build_udp_frame, socks5_parse_udp_datagram).
THEOREM DatagramIsRead ==
  ASSUME NEW name \in Seq(Nat), NEW ip \in Seq(Nat), Len(ip) \in {4, 16},
         NEW port \in Seq(Nat), Len(port) = 2, NEW payload \in Seq(Nat),
         Len(payload) + 262 < WordRange
  PROVE  DatagramRead(name, ip, port, payload)
  <1>0. Len(name) \in Nat /\ Len(payload) \in Nat
    OBVIOUS
  <1>1. CASE Len(name) > 255
    BY <1>0, <1>1, LongRefused DEF DatagramRead, socks5_build_udp_datagram
  <1>2. CASE ~(Len(name) > 255)
    <2> DEFINE z == <<0, 0, 0>>
    <2>1. z \in Seq(Nat) /\ Len(z) = 3
      OBVIOUS
    <2>2. PICK h, g : h = Head1(name, ip) /\ g = Given(name, ip)
      OBVIOUS
    <2> HIDE DEF z
    <2>3. Len(name) <= 255
      BY <1>0, <1>2
    <2>4. Typed(h, g) /\ \E m : Message(m, h, g, port, payload) /\ RequestMade(m, z, ip, port, name, payload)
      BY <2>1, <2>2, <2>3, RequestIs
    <2>5. PICK m : Message(m, h, g, port, payload) /\ RequestMade(m, z, ip, port, name, payload)
      BY <2>4
    <2>6. Len(m) \in Nat /\ Len(m) > 0 /\ Len(m) <= 262 + Len(payload) /\ m # Nothing
      BY <2>5, NotNothing DEF RequestMade
    <2>7. \A cap \in Int : socks5_build_udp_datagram(ip, port, name, payload, cap)
                              = IF Len(m) <= cap THEN m ELSE Nothing
      BY <2>5 DEF RequestMade, socks5_build_udp_datagram, z
    <2>8. socks5_build_udp_datagram(ip, port, name, payload, 262 + Len(payload)) = m
      BY <1>0, <2>6, <2>7
    <2>9. PICK k \in Nat : k = Len(m) /\ k < WordRange
      BY <1>0, <2>6 DEF WordRange
    <2>10. Datagram(m, ip, port, name, payload)
      BY <2>7 DEF Datagram
    <2>11. FrameOf(m, ip, port, name, payload)
      BY <2>6, <2>9, <2>10, FrameMade
    <2>13. From(m, 4) = Laid(h, g, port, payload)
      BY <2>5 DEF Message
    <2>14. ReadTarget(From(m, 4)) = [address |-> g, port |-> port, rest |-> payload]
      BY <2>4, <2>13, LaidRead
    <2>15. Len(g) <= 255
      <3>1. g = name \/ g = ip
        BY <2>2 DEF Given
      <3>2. Len(ip) <= 255
        <4>1. PICK l \in Nat : l = Len(ip) /\ l <= 16
          BY IpLen
        <4> QED
          BY <4>1
      <3> QED
        BY <2>3, <3>1, <3>2
    <2>16. socks5_parse_udp_datagram(m, 256) = Back(h, g, port, payload)
      BY <2>4, <2>5, <2>15, ParsedIs
    <2>17. /\ Given(name, Back(h, g, port, payload).ip) = Given(name, ip)
           /\ Back(h, g, port, payload).domain = name
           /\ Back(h, g, port, payload).port = port
           /\ Back(h, g, port, payload).payload = payload
      <3>1. CASE name # <<>>
        <4>1. h = <<3, Len(name)>> /\ g = name
          BY <2>2, <3>1 DEF Head1, Given
        <4>2. h[1] = 3
          BY <4>1
        <4> QED
          BY <3>1, <4>1, <4>2 DEF Back, Given
      <3>2. CASE name = <<>>
        <4>1. h \in {<<4>>, <<1>>} /\ g = ip
          BY <2>2, <3>2 DEF Head1, Given
        <4>2. ~(h[1] = 3)
          BY <4>1
        <4> QED
          BY <3>2, <4>1, <4>2 DEF Back, Given
      <3> QED
        BY <3>1, <3>2
    <2>18. \A n \in 0..(Len(m) - Len(payload) - 1) :
              socks5_parse_udp_datagram(SubSeq(m, 1, n), 256) = Malformed
      BY <2>4, <2>5, AllCutOffRefused
    <2> HIDE DEF z
    <2>19. ReadTarget(From(m, 4))
             = [address |-> Given(name, ip), port |-> port, rest |-> payload]
      BY <2>2, <2>14
    <2>20. PICK back : back = socks5_parse_udp_datagram(m, 256)
      OBVIOUS
    <2>21. /\ Given(name, back.ip) = Given(name, ip) /\ back.domain = name
           /\ back.port = port /\ back.payload = payload
      BY <2>16, <2>17, <2>20
    <2> QED
      BY <1>2, <2>8, <2>11, <2>18, <2>19, <2>20, <2>21, ZenonT(40) DEF DatagramRead, FrameOf
  <1> QED
    BY <1>1, <1>2

\* Name and password are found where their lengths say, and the message ends
\* with the password; one of them longer than 255 bytes, or a byte less room,
\* and it is refused (socks5_build_auth).
THEOREM AuthIsRead ==
  ASSUME NEW user \in Seq(Nat), NEW pass \in Seq(Nat)
  PROVE  AuthRead(user, pass)
  <1>0. PICK u, p \in Nat : u = Len(user) /\ p = Len(pass)
    OBVIOUS
  <1>1. CASE u > 255 \/ p > 255
    <2>1. socks5_build_auth(user, pass, 513) = Nothing
      BY <1>0, <1>1 DEF socks5_build_auth, Addressable
    <2> QED
      BY <1>0, <1>1, <2>1 DEF AuthRead
  <1>2. CASE ~(u > 255 \/ p > 255)
    <2>1. u <= 255 /\ p <= 255 /\ u % 256 = u /\ p % 256 = p
      <3>1. u <= 255 /\ p <= 255
        BY <1>2
      <3>2. u % 256 = u
        BY <3>1
      <3>3. p % 256 = p
        BY <3>1
      <3> QED
        BY <3>1, <3>2, <3>3
    <2>20. PICK a : a = <<1, u>>
      OBVIOUS
    <2>21. PICK b : b = <<p>>
      OBVIOUS
    <2>2. a = <<1, u>> /\ a \in Seq(Nat) /\ Len(a) = 2 /\ a[1] = 1 /\ a[2] = u
      BY <2>20
    <2>3. b = <<p>> /\ b \in Seq(Nat) /\ Len(b) = 1 /\ b[1] = p
      BY <2>21
    <2>4. PICK au : Joined(au, a, user)
      BY <2>2, SomeJoined
    <2>5. PICK aub : Joined(aub, au, b)
      BY <2>3, <2>4, SomeJoined DEF Joined
    <2>6. PICK m : Joined(m, aub, pass)
      BY <2>5, SomeJoined DEF Joined
    <2>7. Len(au) = 2 + u /\ Len(aub) = 3 + u /\ Len(m) = 3 + u + p
      BY <1>0, <2>2, <2>3, <2>4, <2>5, <2>6 DEF Joined
    <2>8. m = <<1, u>> \o user \o <<p>> \o pass
      BY <2>2, <2>3, <2>4, <2>5, <2>6 DEF Joined
    <2>9. PICK bp : Joined(bp, b, pass)
      BY <2>3, SomeJoined
    <2>10. Joined(m, au, bp)
      BY <2>5, <2>6, <2>9, RegroupRight
    <2>11. SubSeq(m, 3, 2 + u) = user
      <3>1. SubSeq(m, Len(a) + 1, Len(au)) = user
        BY <2>4, <2>10, JoinedMiddle
      <3> QED
        BY <2>2, <2>7, <3>1
    <2>12. From(m, 4 + u) = pass
      <3>1. From(m, Len(aub) + 1) = pass
        BY <2>6, JoinedEnd
      <3>2. Len(aub) + 1 = 4 + u
        BY <2>7
      <3> QED
        BY <3>1, <3>2
    <2>13. m[2] = u
      <3>1. \A i \in 1..Len(au) : m[i] = au[i]
        BY <2>10, JoinedFront
      <3>2. \A i \in 1..Len(a) : au[i] = a[i]
        BY <2>4, JoinedFront
      <3>3. 2 \in 1..Len(a) /\ 2 \in 1..Len(au)
        BY <2>2, <2>7
      <3> QED
        BY <2>2, <3>1, <3>2, <3>3
    <2>14. m[3 + u] = p
      <3>1. \A i \in 1..Len(aub) : m[i] = aub[i]
        BY <2>6, JoinedFront
      <3>2. Behind(aub, Len(au), b)
        BY <2>5, JoinedBack
      <3>3. 3 + u \in 1..Len(aub) /\ 3 + u = Len(au) + 1 /\ 1 \in 1..Len(b)
        BY <2>3, <2>7
      <3>4. aub[Len(au) + 1] = b[1]
        BY <3>2, <3>3 DEF Behind
      <3> QED
        BY <2>3, <3>1, <3>3, <3>4
    <2>15. SubSeq(m, 4 + u, 3 + u + p) = pass
      BY <2>7, <2>12 DEF From
    <2>16. socks5_build_auth(user, pass, 513) = m
      <3>1. Len(m) <= 513
        BY <2>1, <2>7
      <3> QED
        BY <1>0, <2>1, <2>8, <3>1 DEF socks5_build_auth, Addressable, Fits
    <2>17. socks5_build_auth(user, pass, Len(m) - 1) = Nothing
      <3>1. ~(Len(m) <= Len(m) - 1)
        BY <2>7
      <3> QED
        BY <1>0, <2>1, <2>8, <3>1 DEF socks5_build_auth, Addressable, Fits
    <2>18. ~(Len(user) > 255 \/ Len(pass) > 255)
      BY <1>0, <1>2
    <2>19. /\ SubSeq(m, 3, 2 + m[2]) = user
           /\ SubSeq(m, 4 + m[2], 3 + m[2] + m[3 + m[2]]) = pass
           /\ Len(m) = 3 + m[2] + m[3 + m[2]]
      BY <2>7, <2>11, <2>13, <2>14, <2>15
    <2> QED
      BY <2>16, <2>17, <2>18, <2>19, ZenonT(40) DEF AuthRead
  <1> QED
    BY <1>1, <1>2

-----------------------------------------------------------------------------
(* SocksRead.                                                               *)

\* Any name is a sequence of bytes.
LEMMA NameType ==
  ASSUME WireTypeOK, subject = "name"
  PROVE  Name \in Seq(Nat)
  <1> DEFINE part == [i \in DOMAIN input |-> [j \in 1..input[i] |-> 97]]
  <1>1. input \in Seq(Nat)
    <2>1. Alphabet["name"] = Chunks
      BY DEF Alphabet
    <2>2. input \in Seq(Chunks) /\ Chunks \subseteq Nat
      BY <2>1, WireAssumption DEF WireTypeOK
    <2> QED
      BY <2>2, SeqMonotonic
  <1>2. DOMAIN input = 1..Len(input) /\ Len(input) \in Nat
    BY <1>1
  <1>3. ASSUME NEW i \in 1..Len(input) PROVE [j \in 1..input[i] |-> 97] \in Seq(Nat)
    <2>1. input[i] \in Nat
      BY <1>1
    <2> QED
      BY <2>1
  <1>4. part \in Seq(Seq(Nat))
    <2>1. part = [i \in 1..Len(input) |-> part[i]] /\ \A i \in 1..Len(input) : part[i] \in Seq(Nat)
      BY <1>2, <1>3
    <2> HIDE DEF part
    <2>2. part \in [1..Len(input) -> Seq(Nat)]
      BY <2>1
    <2> QED
      BY <1>2, <2>2
  <1> QED
    BY <1>4, FlattenType DEF Name

\* A name of any length reaches the server whole or is refused, nothing is
\* written past the room there is, and a datagram cut off is not taken for one
\* (socks5_codec.c).
THEOREM SocksReadHolds == WireSpec => []SocksRead
  <1>1. WireTypeOK => SocksRead
    <2> SUFFICES ASSUME WireTypeOK, subject = "name" PROVE SocksRead
      BY DEF SocksRead
    <2>1. Name \in Seq(Nat)
      BY NameType
    <2> DEFINE v4 == <<8, 8, 4, 4>>
               v6 == [i \in 1..16 |-> i]
               long == [i \in 1..300 |-> 3]
               http == <<0, 80>>
               https == <<1, 187>>
               one == <<1>>
               five == <<5>>
               none == <<>>
    <2>2. v4 \in Seq(Nat) /\ Len(v4) = 4 /\ v6 \in Seq(Nat) /\ Len(v6) = 16
      OBVIOUS
    <2>3. http \in Seq(Nat) /\ Len(http) = 2 /\ https \in Seq(Nat) /\ Len(https) = 2
      OBVIOUS
    <2>4. one \in Seq(Nat) /\ none \in Seq(Nat) /\ Len(none) = 0 /\ five \in Seq(Nat) /\ Len(five) = 1
      OBVIOUS
    <2>5. long \in Seq(Nat) /\ Len(long) = 300
      OBVIOUS
    <2> HIDE DEF v4, v6, long, http, https, one, five, none
    <2>6. ASSUME NEW ip \in {v4, v6} PROVE ip \in Seq(Nat) /\ Len(ip) \in {4, 16}
      BY <2>2
    <2>7. \A ip \in {v4, v6} : ConnectRead(Name, ip, http)
      BY <2>1, <2>3, <2>6, ConnectIsRead
    <2>8. ASSUME NEW payload \in {none, five, long}
          PROVE  payload \in Seq(Nat) /\ Len(payload) + 262 < WordRange
      <3>1. payload \in Seq(Nat) /\ Len(payload) \in 0..300
        <4>1. CASE payload = none
          BY <2>4, <4>1
        <4>2. CASE payload = five
          BY <2>4, <4>2
        <4>3. CASE payload = long
          BY <2>5, <4>3
        <4> QED
          BY <2>8, <4>1, <4>2, <4>3
      <3>2. \A k \in 0..300 : k + 262 < WordRange
        BY DEF WordRange
      <3> QED
        BY <3>1, <3>2
    <2>9. \A ip \in {v4, v6}, payload \in {none, five, long} : DatagramRead(Name, ip, https, payload)
      BY <2>1, <2>3, <2>6, <2>8, DatagramIsRead
    <2>10. AuthRead(Name, one) /\ AuthRead(none, Name)
      BY <2>1, <2>4, AuthIsRead
    <2> QED
      BY <2>7, <2>9, <2>10 DEF SocksRead, v4, v6, long, http, https, one, five, none
  <1> QED
    BY <1>1, TypeInvariant, PTL

\* A checksum behind the words it is of makes them verify, carries that arise
\* in adding carries back among them (checksum16).
THEOREM BehindVerifies ==
  ASSUME NEW a \in Seq(Nat), Len(a) % 2 = 0
  PROVE  Verifies(a \o Word(checksum16(a)))
  <1>1. PICK e : e = <<>>
    OBVIOUS
  <1>2. e \in Seq(Nat) /\ Len(e) = 0 /\ 0 % 2 = 0
    BY <1>1
  <1>3. Verifies(e \o (a \o Word(checksum_finish(accum_swapped(a \o <<0, 0>> \o e, accum_swapped(e, 0)))) \o e))
    BY <1>2, ChecksumVerifies
  <1>4. accum_swapped(e, 0) = 0
    BY <1>1, NothingSummed
  <1>5. a \o <<0, 0>> \o e \in Seq(Nat)
    <2>1. <<0, 0>> \in Seq(Nat)
      OBVIOUS
    <2> QED
      BY <1>2, <2>1, ConcatProperties
  <1>6. accum_swapped(a \o <<0, 0>> \o e, 0) = accum_swapped(a, 0)
    <2>1. High(a \o <<0, 0>> \o e) = High(a) + 0 + High(e) /\ Low(a \o <<0, 0>> \o e) = Low(a) + 0 + Low(e)
      <3>1. e \in Seq(Nat) /\ 0 \in Nat
        BY <1>2
      <3> QED
        BY <3>1, WordIn
    <2>2. High(e) = 0 /\ Low(e) = 0
      BY <1>1, TotalEmpty
    <2>3. High(a) \in Nat /\ Low(a) \in Nat
      BY TotalType DEF High, Low
    <2>4. /\ accum_swapped(a \o <<0, 0>> \o e, 0) = 0 + High(a \o <<0, 0>> \o e) + 256 * Low(a \o <<0, 0>> \o e)
          /\ accum_swapped(a, 0) = 0 + High(a) + 256 * Low(a)
      BY <1>5, AccumSum
    <2> QED
      BY <2>1, <2>2, <2>3, <2>4
  <1>7. PICK w : w = Word(checksum16(a))
    OBVIOUS
  <1>8. w = Word(checksum_finish(accum_swapped(a \o <<0, 0>> \o e, accum_swapped(e, 0))))
    BY <1>4, <1>6, <1>7, Zenon DEF checksum16
  <1>9. w \in Seq(Nat)
    <2>1. accum_swapped(a, 0) \in Nat
      BY AccumNat
    <2>2. PICK x, y : Word(checksum_finish(accum_swapped(a, 0))) = <<x, y>> /\ Fills(accum_swapped(a, 0), x, y)
      BY <2>1, FinishFills
    <2>3. x \in Nat /\ y \in Nat
      BY <2>2 DEF Fills
    <2>4. w = <<x, y>>
      BY <1>7, <2>2 DEF checksum16
    <2> QED
      BY <2>3, <2>4
  <1>10. e \o (a \o w \o e) = a \o w
    <2>1. a \o w \in Seq(Nat)
      BY <1>9, ConcatProperties
    <2> QED
      BY <1>1, <2>1, ConcatEmptySeq
  <1> QED
    BY <1>3, <1>7, <1>8, <1>10

\* The checksum of any word among others verifies.
THEOREM SumsVerifyHolds == WireSpec => []SumsVerify
  <1>1. WireTypeOK => SumsVerify
    <2> SUFFICES ASSUME WireTypeOK, subject = "block", input # <<>>, NEW b \in 0..255,
                        NEW data, data = <<input[1], b, 255, 255, 255, 255>>
                 PROVE  Verifies(data \o Word(checksum16(data)))
      BY ZenonT(40) DEF SumsVerify
    <2>1. input \in Seq(0..255)
      BY DEF WireTypeOK, Alphabet
    <2>2. PICK x : x = input[1] /\ x \in Nat
      <3>1. Len(input) \in Nat /\ Len(input) # 0
        BY <2>1, EmptySeq
      <3>2. 1 \in 1..Len(input)
        BY <3>1
      <3>3. input[1] \in 0..255
        BY <2>1, <3>2, ElementOfSeq
      <3>4. \A x \in 0..255 : x \in Nat
        OBVIOUS
      <3> QED
        BY <3>3, <3>4
    <2>3. data \in Seq(Nat) /\ Len(data) = 6
      BY <2>2
    <2>4. 6 % 2 = 0
      OBVIOUS
    <2> QED
      BY <2>3, <2>4, BehindVerifies, Zenon
  <1> QED
    BY <1>1, TypeInvariant, PTL

\* Each part stands behind those before it.
LEMMA PartsStand ==
  ASSUME NEW s \in Seq(Seq(Nat)), NEW g \in [0..Len(s) -> Seq(Nat)], Sums(g, s), NEW i \in 1..Len(s)
  PROVE  /\ Len(g[i]) = Len(g[i - 1]) + Len(s[i])
         /\ \A n \in i..Len(s) : Behind(g[n], Len(g[i - 1]), s[i]) /\ Len(g[i]) <= Len(g[n])
  <1>1. /\ Len(s) \in Nat /\ i \in Nat /\ i - 1 \in 0..Len(s) /\ i \in 0..Len(s)
        /\ \A n \in 1..Len(s) : s[n] \in Seq(Nat) /\ n - 1 \in 0..Len(s) /\ n \in 0..Len(s)
    OBVIOUS
  <1>2. \A n \in 1..Len(s) : Joined(g[n], g[n - 1], s[n])
    <2>1. \A n \in 1..Len(s) : g[n] = g[n - 1] \o s[n] /\ g[n - 1] \in Seq(Nat)
      BY <1>1 DEF Sums
    <2> QED
      BY <1>1, <2>1, Join
  <1>3. \A n \in 1..Len(s) : Len(g[n]) = Len(g[n - 1]) + Len(s[n]) /\ Len(g[n - 1]) \in Nat /\ Len(s[n]) \in Nat
    BY <1>2, JoinedLen
  <1> DEFINE S == {n \in 0..Len(s) : n >= i => Behind(g[n], Len(g[i - 1]), s[i]) /\ Len(g[i]) <= Len(g[n])}
  <1>4. 0 \in S
    BY <1>1
  <1>5. ASSUME NEW n \in 1..Len(s), n - 1 \in S PROVE n \in S
    <2>1. CASE n < i
      BY <1>1, <2>1
    <2>2. CASE n = i
      <3>1. Behind(g[i], Len(g[i - 1]), s[i])
        BY <1>2, JoinedBack
      <3>2. Len(g[i]) <= Len(g[i])
        BY <1>3
      <3> QED
        BY <1>1, <2>2, <3>1, <3>2
    <2>3. CASE n > i
      <3>1. Behind(g[n - 1], Len(g[i - 1]), s[i]) /\ Len(g[i]) <= Len(g[n - 1])
        BY <1>1, <1>5, <2>3
      <3>2. PICK a, p, m : a = g[n - 1] /\ p = s[i] /\ m = Len(g[i - 1])
        OBVIOUS
      <3>3. /\ m \in Nat /\ p \in Seq(Nat) /\ Behind(a, m, p) /\ Joined(g[n], a, s[n])
            /\ m + Len(p) <= Len(a)
        BY <1>1, <1>2, <1>3, <3>1, <3>2
      <3>4. Behind(g[n], m, p)
        BY <3>3, BehindJoined
      <3>5. Len(g[i]) <= Len(g[n])
        <4>1. Len(g[n]) = Len(g[n - 1]) + Len(s[n]) /\ Len(s[n]) \in Nat /\ Len(g[n - 1]) \in Nat
          BY <1>3
        <4>2. Len(g[i]) \in Nat
          BY <1>1
        <4>3. PICK x, y, z : x = Len(g[n - 1]) /\ y = Len(s[n]) /\ z = Len(g[i])
          OBVIOUS
        <4>4. x \in Nat /\ y \in Nat /\ z \in Nat /\ z <= x /\ Len(g[n]) = x + y
          BY <3>1, <4>1, <4>2, <4>3
        <4>5. z <= x + y
          BY <4>4
        <4> QED
          BY <4>3, <4>4, <4>5, Zenon
      <3> QED
        BY <1>1, <3>2, <3>4, <3>5
    <2> QED
      BY <1>1, <2>1, <2>2, <2>3
  <1>6. \A n \in S : n >= i => Behind(g[n], Len(g[i - 1]), s[i]) /\ Len(g[i]) <= Len(g[n])
    OBVIOUS
  <1> HIDE DEF S
  <1>7. \A n \in 0..Len(s) : n \in S
    BY <1>1, <1>4, <1>5, UpTo
  <1>8. \A n \in i..Len(s) : n \in 0..Len(s) /\ n >= i
    BY <1>1
  <1> QED
    BY <1>3, <1>6, <1>7, <1>8

-----------------------------------------------------------------------------
(* The App's window scale.                                                  *)

\* The option at w.o is looked at.
Reads(v, w, opts) ==
    v = IF w.o + 1 > Len(opts) \/ opts[w.o] = 0 THEN w
        ELSE IF opts[w.o] = 1 THEN [w EXCEPT !.o = @ + 1]
        ELSE [o |-> IF OptionLen(opts, w.o) < 2 THEN Len(opts) + 1
                    ELSE w.o + OptionLen(opts, w.o),
              ws |-> IF opts[w.o] = 3 /\ w.o + 2 <= Len(opts) THEN opts[w.o + 2] ELSE w.ws]

Place == [o : Nat \ {0}, ws : Nat]

ReadsOn(walk, opts) ==
    /\ walk[0] = [o |-> 1, ws |-> 0] /\ \A n \in 0..Len(opts) : walk[n] \in Place
    /\ \A n \in 1..Len(opts) : Reads(walk[n], walk[n - 1], opts)

LEMMA ScaleIs ==
  ASSUME NEW opts \in Seq(Nat)
  PROVE  \E walk : ReadsOn(walk, opts) /\ tcp_parse_window_scale(opts) = walk[Len(opts)].ws
  <1> DEFINE After(w) ==
               IF w.o + 1 > Len(opts) \/ opts[w.o] = 0 THEN w
               ELSE IF opts[w.o] = 1 THEN [w EXCEPT !.o = @ + 1]
               ELSE [o |-> IF OptionLen(opts, w.o) < 2 THEN Len(opts) + 1
                           ELSE w.o + OptionLen(opts, w.o),
                     ws |-> IF opts[w.o] = 3 /\ w.o + 2 <= Len(opts) THEN opts[w.o + 2] ELSE w.ws]
             start == [o |-> 1, ws |-> 0]
             N == Len(opts)
             Unfold(f) == [n \in 0..N |-> IF n = 0 THEN start ELSE After(f[n - 1])]
             step == [n \in 1..N |-> [w \in Place |-> After(w)]]
  <1>1. N \in Nat /\ start \in Place
    BY DEF Place
  <1>2. ASSUME NEW w \in Place PROVE After(w) \in Place
    <2>1. w.o \in Nat /\ w.o # 0 /\ w.ws \in Nat
      BY DEF Place
    <2>2. CASE w.o + 1 > Len(opts) \/ opts[w.o] = 0
      BY <2>2
    <2>3. CASE ~(w.o + 1 > Len(opts) \/ opts[w.o] = 0) /\ opts[w.o] = 1
      <3>1. After(w) = [w EXCEPT !.o = @ + 1]
        BY <2>3, Zenon
      <3>2. [w EXCEPT !.o = @ + 1] \in Place
        BY <2>1 DEF Place
      <3> QED
        BY <3>1, <3>2
    <2>4. CASE ~(w.o + 1 > Len(opts) \/ opts[w.o] = 0) /\ opts[w.o] # 1
      <3>1. PICK o2, ws2 : /\ o2 = (IF OptionLen(opts, w.o) < 2 THEN Len(opts) + 1
                                    ELSE w.o + OptionLen(opts, w.o))
                           /\ ws2 = (IF opts[w.o] = 3 /\ w.o + 2 <= Len(opts) THEN opts[w.o + 2] ELSE w.ws)
        OBVIOUS
      <3>2. OptionLen(opts, w.o) \in Nat
        <4>1. w.o + 1 \in 1..Len(opts)
          BY <2>1, <2>4
        <4> QED
          BY <4>1 DEF OptionLen
      <3>3. o2 \in Nat \ {0}
        BY <2>1, <3>1, <3>2
      <3>4. ws2 \in Nat
        BY <2>1, <3>1
      <3>5. After(w) = [o |-> o2, ws |-> ws2]
        BY <2>4, <3>1, Zenon
      <3> QED
        BY <3>3, <3>4, <3>5 DEF Place
    <2> QED
      BY <2>2, <2>3, <2>4
  <1> HIDE DEF After
  <1>3. step \in [1..N -> [Place -> Place]]
    BY <1>2
  <1>4. \A n \in 1..N, w \in Place : step[n][w] = After(w)
    OBVIOUS
  <1> HIDE DEF step, start, N
  <1>5. PICK f \in [0..N -> Place] : Runs(f, N, start, step)
    BY <1>1, <1>3, RunExists
  <1>6. ASSUME NEW n \in 1..N PROVE f[n] = After(f[n - 1])
    <2>1. n - 1 \in 0..N
      BY <1>1
    <2> QED
      BY <1>4, <1>5, <2>1 DEF Runs
  <1>7. f = Unfold(f)
    <2>1. ASSUME NEW n \in 0..N PROVE f[n] = IF n = 0 THEN start ELSE After(f[n - 1])
      <3>1. n # 0 => n \in 1..N
        BY <1>1
      <3> QED
        BY <1>5, <1>6, <3>1 DEF Runs
    <2>2. f = [n \in 0..N |-> f[n]]
      BY <1>5
    <2> QED
      BY <2>1, <2>2, Zenon
  <1>8. tcp_parse_window_scale(opts) = (CHOOSE h : h = Unfold(h))[N].ws
    BY Zenon DEF tcp_parse_window_scale, After, start, N
  <1>9. \E h : h = Unfold(h)
    BY <1>7, Zenon
  <1>10. PICK walk : walk = Unfold(walk) /\ tcp_parse_window_scale(opts) = walk[N].ws
    <2> HIDE DEF Unfold
    <2> QED
      BY <1>8, <1>9, Zenon
  <1>11. \A n \in 0..N : walk[n] = IF n = 0 THEN start ELSE After(walk[n - 1])
    BY <1>10, Zenon
  <1>12. walk[0] = start /\ \A n \in 1..N : walk[n] = After(walk[n - 1])
    <2>1. 0 \in 0..N /\ \A n \in 1..N : n \in 0..N /\ n # 0
      BY <1>1
    <2> QED
      BY <1>11, <2>1
  <1>13. \A n \in 0..N : walk[n] \in Place
    <2> DEFINE S == {n \in 0..N : walk[n] \in Place}
    <2>1. 0 \in S
      BY <1>1, <1>12
    <2>2. ASSUME NEW n \in 1..N, n - 1 \in S PROVE n \in S
      <3>1. n \in 0..N /\ walk[n - 1] \in Place
        BY <1>1, <2>2
      <3> QED
        BY <1>2, <1>12, <3>1
    <2>3. \A n \in S : walk[n] \in Place
      OBVIOUS
    <2> HIDE DEF S
    <2>4. \A n \in 0..N : n \in S
      BY <1>1, <2>1, <2>2, UpTo
    <2> QED
      BY <2>3, <2>4
  <1>14. \A n \in 1..N : Reads(walk[n], walk[n - 1], opts)
    BY <1>12, Zenon DEF After, Reads
  <1>15. ReadsOn(walk, opts)
    BY <1>12, <1>13, <1>14 DEF ReadsOn, start, N
  <1> QED
    BY <1>10, <1>15 DEF N

Wanted == {"scale2", "scale7"}
Done(w, opts) == w.o + 1 > Len(opts) \/ opts[w.o] = 0

LEMMA OptionParts ==
  /\ Option["nop"] = <<1>> /\ Option["mss"] = <<2, 4, 5, 180>>
  /\ Option["scale2"] = <<3, 3, 2>> /\ Option["scale7"] = <<3, 3, 7>>
  /\ Option["end"] = <<0>> /\ Option["bad"] = <<8, 1>> /\ Option["cut"] = <<3, 3>>
  BY DEF Option

LEMMA OptionType ==
  ASSUME NEW x \in Options4
  PROVE  Option[x] \in Seq(Nat) /\ Len(Option[x]) > 0
  <1>1. <<1>> \in Seq(Nat) /\ Len(<<1>>) = 1 /\ <<0>> \in Seq(Nat) /\ Len(<<0>>) = 1
    OBVIOUS
  <1>2. <<8, 1>> \in Seq(Nat) /\ Len(<<8, 1>>) = 2 /\ <<3, 3>> \in Seq(Nat) /\ Len(<<3, 3>>) = 2
    OBVIOUS
  <1>3. <<2, 4, 5, 180>> \in Seq(Nat) /\ Len(<<2, 4, 5, 180>>) = 4
    OBVIOUS
  <1>4. /\ <<3, 3, 2>> \in Seq(Nat) /\ Len(<<3, 3, 2>>) = 3
        /\ <<3, 3, 7>> \in Seq(Nat) /\ Len(<<3, 3, 7>>) = 3
    OBVIOUS
  <1>5. CASE x = "nop"
    BY <1>1, <1>5, OptionParts
  <1>6. CASE x = "mss"
    BY <1>3, <1>6, OptionParts
  <1>7. CASE x = "scale2"
    BY <1>4, <1>7, OptionParts
  <1>8. CASE x = "scale7"
    BY <1>4, <1>8, OptionParts
  <1>9. CASE x = "end"
    BY <1>1, <1>9, OptionParts
  <1>10. CASE x = "bad"
    BY <1>2, <1>10, OptionParts
  <1>11. CASE x = "cut"
    BY <1>2, <1>11, OptionParts
  <1> QED
    BY <1>5, <1>6, <1>7, <1>8, <1>9, <1>10, <1>11 DEF Options4

\* One step takes the walk to the next option, and a window scale from the
\* present one.
LEMMA OptionStep ==
  ASSUME NEW opts \in Seq(Nat), NEW n \in Nat, NEW x \in Options4 \ {"end", "bad", "cut"},
         Behind(opts, n, Option[x]), n + Len(Option[x]) <= Len(opts),
         NEW w \in Place, w.o = n + 1, NEW v, Reads(v, w, opts)
  PROVE  /\ v.ws = IF x \in Wanted THEN Option[x][3] ELSE w.ws
         /\ v.o = n + Len(Option[x]) + 1 \/ (n + Len(Option[x]) = Len(opts) /\ v.o = Len(opts))
  <1>1. PICK l \in Nat : l = Len(opts)
    OBVIOUS
  <1>2. \A i \in 1..Len(Option[x]) : opts[n + i] = Option[x][i]
    BY DEF Behind
  <1>3. x \in {"nop", "mss", "scale2", "scale7"}
    BY DEF Options4
  <1>4. w.o = n + 1 /\ OptionLen(opts, w.o) = opts[n + 2]
    <2>1. (n + 1) + 1 = n + 2
      OBVIOUS
    <2> QED
      BY <2>1 DEF OptionLen
  <1>5. CASE x = "nop"
    <2>1. opts[n + 1] = 1 /\ Len(Option[x]) = 1 /\ n + 1 <= l /\ x \notin Wanted
      <3>1. Option[x] = <<1>>
        BY <1>5, OptionParts
      <3>2. Len(Option[x]) = 1 /\ Option[x][1] = 1 /\ 1 \in 1..Len(Option[x])
        BY <3>1
      <3> QED
        BY <1>1, <1>2, <1>5, <3>2 DEF Wanted
    <2>2. CASE n + 2 > l
      <3>1. v = w
        BY <1>1, <1>4, <2>2 DEF Reads
      <3> QED
        BY <1>1, <1>4, <2>1, <2>2, <3>1
    <2>3. CASE ~(n + 2 > l)
      <3>1. v = [w EXCEPT !.o = @ + 1]
        BY <1>1, <1>4, <2>1, <2>3 DEF Reads
      <3>2. v.ws = w.ws /\ v.o = w.o + 1
        BY <3>1 DEF Place
      <3> QED
        BY <1>4, <2>1, <3>2
    <2> QED
      BY <2>2, <2>3
  <1>6. CASE x = "mss"
    <2>1. /\ opts[n + 1] = 2 /\ opts[n + 2] = 4 /\ Len(Option[x]) = 4 /\ n + 4 <= l /\ x \notin Wanted
      <3>1. Option[x] = <<2, 4, 5, 180>>
        BY <1>6, OptionParts
      <3>2. /\ Len(Option[x]) = 4 /\ Option[x][1] = 2 /\ Option[x][2] = 4
            /\ 1 \in 1..Len(Option[x]) /\ 2 \in 1..Len(Option[x])
        BY <3>1
      <3> QED
        BY <1>1, <1>2, <1>6, <3>2 DEF Wanted
    <2>2. v = [o |-> n + 5, ws |-> w.ws]
      <3>1. (n + 1) + 4 = n + 5 /\ ~((n + 1) + 1 > l)
        BY <1>1, <2>1
      <3> QED
        BY <1>1, <1>4, <2>1, <3>1 DEF Reads
    <2> QED
      BY <2>1, <2>2
  <1>7. CASE x \in Wanted
    <2>1. /\ opts[n + 1] = 3 /\ opts[n + 2] = 3 /\ opts[n + 3] = Option[x][3]
          /\ Len(Option[x]) = 3 /\ n + 3 <= l
      <3>1. Option[x] = <<3, 3, 2>> \/ Option[x] = <<3, 3, 7>>
        BY <1>7, OptionParts, Zenon DEF Wanted
      <3>3. Len(Option[x]) = 3 /\ Option[x][1] = 3 /\ Option[x][2] = 3
        <4>1. PICK y : y = Option[x]
          OBVIOUS
        <4>2. CASE y = <<3, 3, 2>>
          BY <4>1, <4>2
        <4>3. CASE y = <<3, 3, 7>>
          BY <4>1, <4>3
        <4> QED
          BY <3>1, <4>1, <4>2, <4>3
      <3>2. /\ Len(Option[x]) = 3 /\ Option[x][1] = 3 /\ Option[x][2] = 3
            /\ 1 \in 1..Len(Option[x]) /\ 2 \in 1..Len(Option[x]) /\ 3 \in 1..Len(Option[x])
        BY <3>3
      <3> QED
        BY <1>1, <1>2, <3>2
    <2>2. v = [o |-> n + 4, ws |-> Option[x][3]]
      <3>1. (n + 1) + 3 = n + 4 /\ ~((n + 1) + 1 > l) /\ (n + 1) + 2 = n + 3 /\ (n + 1) + 2 <= l
        BY <1>1, <2>1
      <3> QED
        BY <1>1, <1>4, <2>1, <3>1 DEF Reads
    <2> QED
      BY <1>7, <2>1, <2>2
  <1> QED
    BY <1>3, <1>5, <1>6, <1>7 DEF Wanted

\* The end of the list, an option of no length and one cut off end the walk.
LEMMA StopStep ==
  ASSUME NEW opts \in Seq(Nat), NEW n \in Nat, NEW x \in {"end", "bad", "cut"},
         Behind(opts, n, Option[x]), n + Len(Option[x]) <= Len(opts),
         x = "cut" => n + Len(Option[x]) = Len(opts),
         NEW w \in Place, w.o = n + 1, NEW v, Reads(v, w, opts)
  PROVE  v.ws = w.ws /\ Done(v, opts)
  <1>1. PICK l \in Nat : l = Len(opts)
    OBVIOUS
  <1>2. \A i \in 1..Len(Option[x]) : opts[n + i] = Option[x][i]
    BY DEF Behind
  <1>4. w.o = n + 1 /\ OptionLen(opts, w.o) = opts[n + 2]
    <2>1. (n + 1) + 1 = n + 2
      OBVIOUS
    <2> QED
      BY <2>1 DEF OptionLen
  <1>5. CASE x = "end"
    <2>1. opts[n + 1] = 0
      <3>1. Option[x] = <<0>>
        BY <1>5, OptionParts
      <3>2. Option[x][1] = 0 /\ 1 \in 1..Len(Option[x])
        BY <3>1
      <3> QED
        BY <1>2, <3>2
    <2>2. v = w
      BY <1>4, <2>1 DEF Reads
    <2> QED
      BY <1>4, <2>1, <2>2 DEF Done
  <1>6. CASE x = "bad"
    <2>1. opts[n + 1] = 8 /\ opts[n + 2] = 1
      <3>1. Option[x] = <<8, 1>>
        BY <1>6, OptionParts
      <3>2. Option[x][1] = 8 /\ Option[x][2] = 1 /\ 1 \in 1..Len(Option[x]) /\ 2 \in 1..Len(Option[x])
        BY <3>1
      <3> QED
        BY <1>2, <3>2
    <2>2. v = w \/ v = [o |-> l + 1, ws |-> w.ws]
      BY <1>1, <1>4, <2>1 DEF Reads
    <2>3. v = w => w.o + 1 > l
      <3> SUFFICES ASSUME v = w, ~(w.o + 1 > l) PROVE FALSE
        OBVIOUS
      <3>1. v = [o |-> l + 1, ws |-> w.ws]
        BY <1>1, <1>4, <2>1 DEF Reads
      <3>2. v.o = l + 1
        BY <3>1
      <3> QED
        BY <1>1, <1>4, <3>2
    <2>4. CASE v = w
      BY <1>1, <2>3, <2>4 DEF Done
    <2>5. CASE v = [o |-> l + 1, ws |-> w.ws]
      <3>1. v.o = l + 1 /\ v.ws = w.ws
        BY <2>5
      <3> QED
        BY <1>1, <3>1 DEF Done
    <2> QED
      BY <2>2, <2>4, <2>5
  <1>7. CASE x = "cut"
    <2>1. opts[n + 1] = 3 /\ opts[n + 2] = 3 /\ n + 2 = l
      <3>1. Option[x] = <<3, 3>>
        BY <1>7, OptionParts
      <3>2. /\ Option[x][1] = 3 /\ Option[x][2] = 3 /\ 1 \in 1..Len(Option[x]) /\ 2 \in 1..Len(Option[x])
            /\ Len(Option[x]) = 2
        BY <3>1
      <3> QED
        BY <1>1, <1>2, <1>7, <3>2
    <2>2. v = [o |-> n + 4, ws |-> w.ws]
      <3>1. (n + 1) + 3 = n + 4 /\ ~((n + 1) + 1 > l) /\ ~((n + 1) + 2 <= l)
        BY <1>1, <2>1
      <3> QED
        BY <1>1, <1>4, <2>1, <3>1 DEF Reads
    <2>3. v.o = n + 4 /\ v.ws = w.ws
      BY <2>2
    <2> QED
      BY <1>1, <2>1, <2>3 DEF Done
  <1> QED
    BY <1>5, <1>6, <1>7

\* Where it is done the walk stays.
LEMMA DoneStays ==
  ASSUME NEW opts \in Seq(Nat), NEW walk, ReadsOn(walk, opts), NEW k \in 0..Len(opts), Done(walk[k], opts)
  PROVE  walk[Len(opts)] = walk[k]
  <1>1. Len(opts) \in Nat
    OBVIOUS
  <1> DEFINE S == {n \in 0..Len(opts) : n >= k => walk[n] = walk[k]}
  <1>2. 0 \in S
    BY <1>1
  <1>3. ASSUME NEW n \in 1..Len(opts), n - 1 \in S PROVE n \in S
    <2>1. n \in 0..Len(opts)
      BY <1>1
    <2>2. CASE n <= k
      BY <2>1, <2>2
    <2>3. CASE n > k
      <3>1. walk[n - 1] = walk[k]
        BY <1>3, <2>3
      <3>2. Reads(walk[n], walk[n - 1], opts)
        BY DEF ReadsOn
      <3>3. walk[n] = walk[k]
        BY <3>1, <3>2, Zenon DEF Reads, Done
      <3> QED
        BY <2>1, <3>3
    <2> QED
      BY <2>2, <2>3
  <1> HIDE DEF S
  <1>4. \A n \in 0..Len(opts) : n \in S
    BY <1>1, <1>2, <1>3, UpTo
  <1>5. Len(opts) \in S
    BY <1>1, <1>4
  <1> QED
    BY <1>5 DEF S

-----------------------------------------------------------------------------
(* What is left of a sequence, and what is written over a part of it.       *)

LEMMA FromIs ==
  ASSUME NEW s \in Seq(Nat), NEW n \in Nat, n <= Len(s)
  PROVE  /\ From(s, n + 1) \in Seq(Nat) /\ Len(From(s, n + 1)) = Len(s) - n
         /\ \A i \in 1..(Len(s) - n) : From(s, n + 1)[i] = s[n + i]
  <1>3. PICK l \in Nat : l = Len(s)
    OBVIOUS
  <1>1. PICK p : l = Len(s) /\ p = SubSeq(s, n + 1, l) /\ From(s, n + 1) = p
    BY <1>3 DEF From
  <1>2. p \in Seq(Nat) /\ Len(p) = l - n /\ \A i \in 1..(l - n) : p[i] = s[n + i]
    BY <1>1, SubSeqProperties
  <1> QED
    BY <1>1, <1>2

LEMMA BehindFrom ==
  ASSUME NEW s \in Seq(Nat), NEW n \in Nat, NEW b \in Seq(Nat), n + Len(b) = Len(s), Behind(s, n, b)
  PROVE  From(s, n + 1) = b
  <1>1. n + Len(b) <= Len(s)
    OBVIOUS
  <1>2. SubSeq(s, n + 1, n + Len(b)) = b
    BY <1>1, BehindCut
  <1> QED
    BY <1>2 DEF From

\* What stands behind a place in what is left.
LEMMA BehindFromOn ==
  ASSUME NEW s \in Seq(Nat), NEW n \in Nat, n <= Len(s), NEW b \in Seq(Nat), NEW k \in Nat,
         k + Len(b) <= Len(s) - n, Behind(From(s, n + 1), k, b)
  PROVE  Behind(s, n + k, b)
  <1>6. PICK l \in Nat, m \in Nat : l = Len(s) /\ m = Len(b)
    OBVIOUS
  <1>1. PICK p : l = Len(s) /\ m = Len(b) /\ p = From(s, n + 1)
    BY <1>6
  <1>2. \A i \in 1..(l - n) : p[i] = s[n + i]
    BY <1>1, FromIs
  <1>3. \A i \in 1..m : k + i \in 1..(l - n) /\ n + (k + i) = (n + k) + i
    BY <1>1
  <1>4. \A i \in 1..m : p[k + i] = b[i]
    BY <1>1 DEF Behind
  <1>5. \A i \in 1..m : s[(n + k) + i] = b[i]
    BY <1>2, <1>3, <1>4
  <1> QED
    BY <1>1, <1>5 DEF Behind

\* w over the elements of s behind the first n.
Over(got, s, n, w) ==
    /\ got \in Seq(Nat) /\ Len(got) = Len(s) /\ Behind(got, n, w)
    /\ \A i \in 1..Len(s) : i <= n \/ i > n + Len(w) => got[i] = s[i]

LEMMA PutIs ==
  ASSUME NEW s \in Seq(Nat), NEW n \in Nat, NEW w \in Seq(Nat), n + Len(w) <= Len(s)
  PROVE  Over(Put(s, n + 1, w), s, n, w)
  <1>1. PICK l \in Nat, m \in Nat : l = Len(s) /\ m = Len(w) /\ n + m <= l
    OBVIOUS
  <1>2. PICK a, c : a = SubSeq(s, 1, n) /\ c = From(s, (n + m) + 1)
    OBVIOUS
  <1>3. a \in Seq(Nat) /\ Len(a) = n /\ \A i \in 1..n : a[i] = s[i]
    BY <1>1, <1>2, SubSeqProperties
  <1>4. c \in Seq(Nat) /\ Len(c) = l - (n + m) /\ \A i \in 1..(l - (n + m)) : c[i] = s[(n + m) + i]
    <2>1. PICK k \in Nat : k = n + m /\ k <= Len(s)
      BY <1>1
    <2>2. c \in Seq(Nat) /\ Len(c) = Len(s) - k /\ \A i \in 1..(Len(s) - k) : c[i] = s[k + i]
      BY <1>2, <2>1, FromIs
    <2> QED
      BY <1>1, <2>1, <2>2
  <1>5. PICK aw : Joined(aw, a, w)
    BY <1>3, SomeJoined
  <1>6. /\ aw \in Seq(Nat) /\ Len(aw) = n + m /\ Behind(aw, n, w) /\ \A i \in 1..n : aw[i] = s[i]
    <2>1. aw \in Seq(Nat) /\ Len(aw) = Len(a) + Len(w)
      BY <1>5, JoinedLen
    <2>2. Behind(aw, Len(a), w)
      BY <1>5, JoinedBack
    <2>3. \A i \in 1..Len(a) : aw[i] = a[i]
      BY <1>5, JoinedFront
    <2> QED
      BY <1>1, <1>3, <2>1, <2>2, <2>3
  <1>7. PICK got : Joined(got, aw, c)
    BY <1>4, <1>6, SomeJoined
  <1>8. got \in Seq(Nat) /\ Len(got) = l
    <2>1. got \in Seq(Nat) /\ Len(got) = Len(aw) + Len(c)
      BY <1>7, JoinedLen
    <2> QED
      BY <1>1, <1>4, <1>6, <2>1
  <1>9. \A i \in 1..(n + m) : got[i] = aw[i]
    <2>1. \A i \in 1..Len(aw) : got[i] = aw[i]
      BY <1>7, JoinedFront
    <2> QED
      BY <1>6, <2>1
  <1>10. Behind(got, n, w)
    <2>1. \A i \in 1..m : n + i \in 1..(n + m)
      BY <1>1
    <2>2. \A i \in 1..m : got[n + i] = w[i]
      BY <1>1, <1>6, <1>9, <2>1 DEF Behind
    <2> QED
      BY <1>1, <2>2 DEF Behind
  <1>11. ASSUME NEW i \in 1..l, i <= n \/ i > n + m PROVE got[i] = s[i]
    <2>1. CASE i <= n
      <3>1. i \in 1..n /\ i \in 1..(n + m)
        BY <1>1, <2>1
      <3> QED
        BY <1>6, <1>9, <3>1
    <2>2. CASE i > n + m
      <3>1. PICK j : j = i - (n + m)
        OBVIOUS
      <3>2. j \in 1..(l - (n + m)) /\ i = (n + m) + j
        BY <1>1, <2>2, <3>1
      <3>3. Behind(got, Len(aw), c)
        BY <1>7, JoinedBack
      <3>4. got[(n + m) + j] = c[j]
        BY <1>4, <1>6, <3>2, <3>3 DEF Behind
      <3> QED
        BY <1>4, <3>2, <3>4
    <2> QED
      BY <1>11, <2>1, <2>2
  <1>12. Put(s, n + 1, w) = got
    <2>1. (n + 1) - 1 = n /\ n + 1 + Len(w) = (n + m) + 1
      BY <1>1
    <2>2. Put(s, n + 1, w) = SubSeq(s, 1, (n + 1) - 1) \o w \o From(s, n + 1 + Len(w))
      BY DEF Put
    <2>3. Put(s, n + 1, w) = a \o w \o c
      BY <1>2, <2>1, <2>2
    <2> QED
      BY <1>5, <1>7, <2>3 DEF Joined
  <1> QED
    BY <1>1, <1>8, <1>10, <1>11, <1>12 DEF Over

\* ... leaves what stands elsewhere.
LEMMA BehindOver ==
  ASSUME NEW got, NEW s \in Seq(Nat), NEW n \in Nat, NEW w \in Seq(Nat), Over(got, s, n, w),
         NEW k \in Nat, NEW p \in Seq(Nat), k + Len(p) <= Len(s),
         k + Len(p) <= n \/ k >= n + Len(w), Behind(s, k, p)
  PROVE  Behind(got, k, p)
  <1>1. PICK m \in Nat, j \in Nat, l \in Nat : m = Len(w) /\ j = Len(p) /\ l = Len(s)
    OBVIOUS
  <1>2. \A i \in 1..j : k + i \in 1..l /\ (k + i <= n \/ k + i > n + m)
    BY <1>1
  <1>3. \A i \in 1..j : got[k + i] = s[k + i]
    BY <1>1, <1>2 DEF Over
  <1> QED
    BY <1>1, <1>3 DEF Behind

\* The value of the last of the first i options that is wanted.
LastWanted(kinds, i, value) ==
    \/ (\A j \in 1..i : kinds[j] \notin Wanted) /\ value = 0
    \/ \E m \in 1..i : /\ kinds[m] \in Wanted /\ value = Option[kinds[m]][3]
                       /\ \A j \in 1..i : j > m => kinds[j] \notin Wanted

LEMMA LastWantedOn ==
  ASSUME NEW kinds, NEW i \in Nat, i > 0, NEW v, LastWanted(kinds, i - 1, v),
         NEW u, u = IF kinds[i] \in Wanted THEN Option[kinds[i]][3] ELSE v
  PROVE  LastWanted(kinds, i, u)
  <1>1. \A j \in 1..i : j = i \/ j \in 1..(i - 1)
    OBVIOUS
  <1>2. i \in 1..i /\ \A j \in 1..(i - 1) : j \in 1..i
    OBVIOUS
  <1>3. CASE kinds[i] \in Wanted
    <2>1. \A j \in 1..i : j > i => kinds[j] \notin Wanted
      OBVIOUS
    <2> QED
      BY <1>2, <1>3, <2>1 DEF LastWanted
  <1>4. CASE kinds[i] \notin Wanted
    <2>1. u = v
      BY <1>4
    <2>2. CASE (\A j \in 1..(i - 1) : kinds[j] \notin Wanted) /\ v = 0
      BY <1>1, <1>4, <2>1, <2>2 DEF LastWanted
    <2>3. CASE \E m \in 1..(i - 1) : /\ kinds[m] \in Wanted /\ v = Option[kinds[m]][3]
                                     /\ \A j \in 1..(i - 1) : j > m => kinds[j] \notin Wanted
      <3>1. PICK m \in 1..(i - 1) : /\ kinds[m] \in Wanted /\ v = Option[kinds[m]][3]
                                    /\ \A j \in 1..(i - 1) : j > m => kinds[j] \notin Wanted
        BY <2>3
      <3>2. m \in 1..i
        BY <1>2
      <3>3. \A j \in 1..i : j > m => kinds[j] \notin Wanted
        BY <1>1, <1>4, <3>1
      <3> QED
        BY <2>1, <3>1, <3>2, <3>3 DEF LastWanted
    <2> QED
      BY <2>2, <2>3 DEF LastWanted
  <1> QED
    BY <1>3, <1>4

\* The window scale read from any list of options in which nothing follows one
\* that is cut off: that of the last one before the end of the list, or before
\* one of no length (tcp_parse_window_scale).
THEOREM ScaleRead ==
  ASSUME NEW kinds \in Seq(Options4),
         \A i \in 1..Len(kinds) : kinds[i] = "cut" => i = Len(kinds),
         NEW k \in 0..Len(kinds),
         \A i \in 1..k : kinds[i] \notin {"end", "bad", "cut"},
         k < Len(kinds) => kinds[k + 1] \in {"end", "bad", "cut"}
  PROVE  LastWanted(kinds, k, tcp_parse_window_scale(FlattenSeq([i \in DOMAIN kinds |-> Option[kinds[i]]])))
  <1> DEFINE parts == [i \in DOMAIN kinds |-> Option[kinds[i]]]
             K == Len(kinds)
  <1>1. K \in Nat /\ DOMAIN kinds = 1..K /\ \A i \in 1..K : kinds[i] \in Options4
    OBVIOUS
  <1>2. parts \in Seq(Seq(Nat)) /\ Len(parts) = K /\ \A i \in 1..K : parts[i] = Option[kinds[i]]
    <2>1. \A i \in 1..K : Option[kinds[i]] \in Seq(Nat)
      BY <1>1, OptionType
    <2>2. parts = [i \in 1..K |-> Option[kinds[i]]]
      BY <1>1
    <2> HIDE DEF K
    <2> QED
      BY <1>1, <2>1, <2>2
  <1> HIDE DEF parts, K
  <1>3. PICK g \in [0..K -> Seq(Nat)] : Sums(g, parts) /\ FlattenSeq(parts) = g[K]
    BY <1>2, SumsExist, FlattenIsSum
  <1>4. PICK opts : opts = g[K] /\ opts \in Seq(Nat)
    <2>1. K \in 0..K
      BY <1>1
    <2> QED
      BY <1>3, <2>1
  <1>5. g[0] = <<>> /\ Len(g[0]) = 0
    BY <1>3 DEF Sums
  <1>6. \A i \in 1..K : /\ Len(g[i]) = Len(g[i - 1]) + Len(parts[i]) /\ Len(parts[i]) > 0
                        /\ Len(g[i - 1]) \in Nat /\ Len(parts[i]) \in Nat /\ Len(g[i]) \in Nat
                        /\ Behind(opts, Len(g[i - 1]), parts[i]) /\ Len(g[i]) <= Len(opts)
    <2> TAKE i \in 1..K
    <2>1. i - 1 \in 0..K /\ i \in 0..K /\ K \in i..K
      BY <1>1
    <2>2. Len(g[i]) = Len(g[i - 1]) + Len(parts[i])
      BY <1>2, <1>3, PartsStand
    <2>3. Behind(g[K], Len(g[i - 1]), parts[i]) /\ Len(g[i]) <= Len(g[K])
      BY <1>2, <1>3, <2>1, PartsStand
    <2>4. Len(parts[i]) > 0 /\ Len(parts[i]) \in Nat
      <3>1. PICK x, p : x = kinds[i] /\ p = parts[i]
        OBVIOUS
      <3>2. x \in Options4 /\ p = Option[x]
        BY <1>1, <1>2, <3>1
      <3>3. p \in Seq(Nat) /\ Len(p) > 0
        BY <3>2, OptionType
      <3> QED
        BY <3>1, <3>3
    <2>5. Len(g[i - 1]) \in Nat /\ Len(g[i]) \in Nat
      BY <1>3, <2>1
    <2> QED
      BY <1>4, <2>2, <2>3, <2>4, <2>5
  <1>7. PICK L \in Nat : L = Len(opts)
    BY <1>4
  <1>8. \A i \in 0..K : i <= Len(g[i]) /\ Len(g[i]) <= L /\ Len(g[i]) \in Nat
    <2> DEFINE S == {i \in 0..K : i <= Len(g[i])}
    <2>1. 0 \in S
      BY <1>1, <1>5
    <2>2. ASSUME NEW i \in 1..K, i - 1 \in S PROVE i \in S
      <3>1. PICK x, y : x = Len(g[i - 1]) /\ y = Len(parts[i])
        OBVIOUS
      <3>5. i - 1 <= x /\ i \in Int
        BY <1>1, <2>2, <3>1
      <3>2. x \in Nat /\ y \in Nat /\ y > 0 /\ Len(g[i]) = x + y /\ i - 1 <= x /\ i \in Int
        BY <1>6, <3>1, <3>5
      <3>3. i <= x + y
        BY <3>2
      <3>4. i \in 0..K
        BY <1>1
      <3> QED
        BY <3>2, <3>3, <3>4
    <2>3. \A i \in S : i <= Len(g[i])
      OBVIOUS
    <2> HIDE DEF S
    <2>4. \A i \in 0..K : i \in S
      BY <1>1, <2>1, <2>2, UpTo
    <2>5. \A i \in 0..K : i = 0 \/ i \in 1..K
      BY <1>1
    <2>6. Len(g[0]) <= L /\ Len(g[0]) \in Nat
      BY <1>5, <1>7
    <2>7. \A i \in 1..K : Len(g[i]) <= L /\ Len(g[i]) \in Nat
      BY <1>6, <1>7
    <2>8. \A i \in 0..K : Len(g[i]) <= L /\ Len(g[i]) \in Nat
      BY <2>5, <2>6, <2>7
    <2> QED
      BY <2>3, <2>4, <2>8
  <1>9. PICK walk : ReadsOn(walk, opts) /\ tcp_parse_window_scale(opts) = walk[L].ws
    BY <1>4, <1>7, ScaleIs
  <1>10. K <= L
    <2>1. K \in 0..K
      BY <1>1
    <2>2. K <= Len(g[K])
      BY <1>8, <2>1
    <2> QED
      BY <1>4, <1>7, <2>2
  <1>11. k \in Nat /\ k <= K /\ k \in 0..L /\ \A i \in 1..k : i \in 1..K /\ i - 1 \in 0..k
    <2>1. k \in 0..K
      BY DEF K
    <2>2. k \in Nat /\ k <= K
      BY <1>1, <2>1
    <2>3. k \in 0..L
      BY <1>1, <1>7, <1>10, <2>2
    <2>4. \A i \in 1..k : i \in 1..K /\ i - 1 \in 0..k
      BY <1>1, <2>2
    <2> QED
      BY <2>2, <2>3, <2>4
  <1> DEFINE Here(i) == /\ LastWanted(kinds, i, walk[i].ws)
                        /\ walk[i].o = Len(g[i]) + 1 \/ (Len(g[i]) = L /\ walk[i].o = L)
             S == {i \in 0..k : Here(i)}
  <1>12. 0 \in S
    <2>1. walk[0].o = 1 /\ walk[0].ws = 0
      BY <1>9 DEF ReadsOn
    <2>2. LastWanted(kinds, 0, 0)
      BY DEF LastWanted
    <2> QED
      BY <1>5, <1>11, <2>1, <2>2
  <1>13. ASSUME NEW i \in 1..k, i - 1 \in S PROVE i \in S
    <2>1. /\ i \in 1..K /\ i \in 0..k /\ i \in 1..L /\ i - 1 \in 0..L /\ i \in Nat /\ i > 0
          /\ i - 1 \in 0..k
      BY <1>10, <1>11
    <2>2. PICK n, part, w, v : n = Len(g[i - 1]) /\ part = parts[i] /\ w = walk[i - 1] /\ v = walk[i]
      OBVIOUS
    <2>3. /\ n \in Nat /\ Len(part) \in Nat /\ Len(part) > 0 /\ Len(g[i]) = n + Len(part)
          /\ Behind(opts, n, part) /\ n + Len(part) <= L /\ part = Option[kinds[i]]
      BY <1>2, <1>6, <1>7, <2>1, <2>2
    <2>4. LastWanted(kinds, i - 1, w.ws) /\ (w.o = n + 1 \/ (n = L /\ w.o = L))
      BY <1>13, <2>2
    <2>5. w.o = n + 1
      BY <2>3, <2>4
    <2>6. w \in Place /\ Reads(v, w, opts)
      BY <1>7, <1>9, <2>1, <2>2 DEF ReadsOn
    <2>7. kinds[i] \in Options4 \ {"end", "bad", "cut"}
      BY <1>1, <2>1
    <2>8. PICK x : x = kinds[i]
      OBVIOUS
    <2>9. /\ x \in Options4 \ {"end", "bad", "cut"} /\ Behind(opts, n, Option[x])
          /\ n + Len(Option[x]) <= Len(opts)
      BY <1>7, <2>3, <2>7, <2>8
    <2>13. opts \in Seq(Nat) /\ n \in Nat /\ w \in Place /\ w.o = n + 1 /\ Reads(v, w, opts)
      BY <1>4, <2>3, <2>5, <2>6
    <2>10. /\ v.ws = IF x \in Wanted THEN Option[x][3] ELSE w.ws
           /\ v.o = n + Len(Option[x]) + 1 \/ (n + Len(Option[x]) = Len(opts) /\ v.o = Len(opts))
      BY <2>9, <2>13, OptionStep
    <2>11. LastWanted(kinds, i, v.ws)
      BY <2>1, <2>4, <2>8, <2>10, LastWantedOn
    <2>12. v.o = Len(g[i]) + 1 \/ (Len(g[i]) = L /\ v.o = L)
      BY <1>7, <2>3, <2>8, <2>10
    <2> QED
      BY <2>1, <2>2, <2>11, <2>12
  <1>14. Here(k)
    <2>1. \A i \in S : Here(i)
      OBVIOUS
    <2> HIDE DEF S, Here
    <2>2. \A i \in 0..k : i \in S
      BY <1>11, <1>12, <1>13, UpTo
    <2>3. k \in 0..k
      BY <1>11
    <2> QED
      BY <2>1, <2>2, <2>3
  <1>15. LastWanted(kinds, k, walk[L].ws)
    <2>1. CASE k = K
      <3>1. Len(g[k]) = L
        BY <1>4, <1>7, <2>1
      <3>2. walk[k].o = L + 1 \/ walk[k].o = L
        BY <1>14, <3>1
      <3>3. Done(walk[k], opts)
        BY <1>7, <3>2 DEF Done
      <3>4. walk[L] = walk[k]
        BY <1>4, <1>7, <1>9, <1>11, <3>3, DoneStays
      <3> QED
        BY <1>14, <3>4
    <2>2. CASE k < K
      <3>1. PICK i, n, x, w, v : /\ i = k + 1 /\ n = Len(g[k]) /\ x = kinds[i] /\ w = walk[k] /\ v = walk[i]
        OBVIOUS
      <3>2. i \in 1..K /\ i \in 1..L /\ i \in 0..L /\ i - 1 = k
        BY <1>1, <1>10, <1>11, <2>2, <3>1
      <3>3. /\ n \in Nat /\ Behind(opts, n, Option[x]) /\ Len(g[i]) = n + Len(Option[x])
            /\ Len(Option[x]) \in Nat /\ Len(Option[x]) > 0 /\ n + Len(Option[x]) <= L
        BY <1>2, <1>6, <1>7, <3>1, <3>2, Zenon
      <3>4. w.o = n + 1
        <4>1. w.o = n + 1 \/ (n = L /\ w.o = L)
          BY <1>14, <3>1
        <4>2. PICK y : y = Len(Option[x])
          OBVIOUS
        <4>3. n # L
          <5>1. y \in Nat /\ y > 0 /\ n + y <= L
            BY <3>3, <4>2
          <5> QED
            BY <1>7, <3>3, <5>1
        <4> QED
          BY <4>1, <4>3
      <3>5. x \in {"end", "bad", "cut"}
        BY <2>2, <3>1 DEF K
      <3>6. x = "cut" => n + Len(Option[x]) = Len(opts)
        <4> SUFFICES ASSUME x = "cut" PROVE n + Len(Option[x]) = Len(opts)
          OBVIOUS
        <4>1. i = K
          BY <3>1, <3>2 DEF K
        <4> QED
          BY <1>4, <3>3, <4>1
      <3>7. w \in Place /\ Reads(v, w, opts)
        BY <1>7, <1>9, <1>11, <3>1, <3>2 DEF ReadsOn
      <3>8. n + Len(Option[x]) <= Len(opts)
        BY <1>7, <3>3
      <3>9. v.ws = w.ws /\ Done(v, opts)
        BY <1>4, <3>3, <3>4, <3>5, <3>6, <3>7, <3>8, StopStep
      <3>10. walk[L] = walk[i]
        BY <1>4, <1>7, <1>9, <3>1, <3>2, <3>9, DoneStays, Zenon
      <3> QED
        BY <1>14, <3>1, <3>9, <3>10
    <2> QED
      BY <1>1, <1>11, <2>1, <2>2
  <1> QED
    BY <1>3, <1>4, <1>9, <1>15 DEF parts

(* Least elements, and with them the choices of fake_dns_alloc.            *)

Less == {p \in Nat \X Nat : p[1] < p[2]}

LEMMA LeastExists ==
  ASSUME NEW T, T \subseteq Nat, T # {}
  PROVE  \E x \in T : \A y \in T : x <= y
<1>1. IsWellFoundedOn(Less, Nat)
  BY NatLessThanWellFounded DEF OpToRel, Less
<1>2. PICK x \in T : \A y \in T : ~ (<<y, x>> \in Less)
  BY <1>1, WFMin
<1>3. ASSUME NEW y \in T PROVE x <= y
  <2>1. x \in Nat /\ y \in Nat
    OBVIOUS
  <2>2. ~(y < x)
    BY <1>2, <2>1 DEF Less
  <2> QED
    BY <2>1, <2>2
<1> QED
  BY <1>3

\* Nothing follows an option that is cut off.
CutLast == subject = "options" => \A i \in 1..Len(input) : input[i] = "cut" => i = Len(input)

LEMMA NothingBehindCut == WireSpec => []CutLast
  <1>1. WireInit => CutLast
    BY DEF WireInit, CutLast
  <1>2. WireTypeOK /\ CutLast /\ [WireNext]_wireVars => CutLast'
    <2> SUFFICES ASSUME WireTypeOK, CutLast, [WireNext]_wireVars PROVE CutLast'
      OBVIOUS
    <2>1. CASE UNCHANGED wireVars
      BY <2>1 DEF CutLast, wireVars
    <2>2. ASSUME NEW e \in Alphabet[subject], Grow(e), subject = "options" PROVE CutLast'
      <3>1. /\ input \in Seq(Alphabet[subject]) /\ subject' = subject /\ input' = Append(input, e)
            /\ input # <<>> => Last(input) # "cut"
        BY <2>2 DEF WireTypeOK, Grow, GoesOn
      <3>2. PICK n \in Nat : n = Len(input)
        BY <3>1
      <3>3. Len(input') = n + 1 /\ \A i \in 1..n : input'[i] = input[i]
        BY <3>1, <3>2, AppendProperties
      <3>4. \A i \in 1..n : input[i] # "cut"
        <4> SUFFICES ASSUME NEW i \in 1..n, input[i] = "cut" PROVE FALSE
          OBVIOUS
        <4>1. i = n
          BY <2>2, <3>2 DEF CutLast
        <4>2. Last(input) = "cut" /\ input # <<>>
          BY <3>1, <3>2, <4>1 DEF Last
        <4> QED
          BY <3>1, <4>2
      <3>5. \A i \in 1..(n + 1) : i = n + 1 \/ i \in 1..n
        BY <3>2
      <3>6. \A i \in 1..Len(input') : input'[i] = "cut" => i = Len(input')
        BY <3>3, <3>4, <3>5
      <3> QED
        BY <3>6 DEF CutLast
    <2>3. ASSUME NEW e \in Alphabet[subject], Grow(e), subject # "options" PROVE CutLast'
      BY <2>3 DEF CutLast, Grow
    <2> QED
      BY <2>1, <2>2, <2>3 DEF WireNext
  <1> QED
    BY <1>1, <1>2, TypeInvariant, PTL DEF WireSpec

LEMMA LeastIs ==
  ASSUME NEW T, T \subseteq Nat, T # {}
  PROVE  Min(T) \in T /\ \A y \in T : Min(T) <= y
  <1>1. \E x \in T : \A y \in T : x <= y
    BY LeastExists
  <1> QED
    BY <1>1 DEF Min

\* How many options stand in front of what ends the list.
LEMMA StandingIs ==
  ASSUME WireTypeOK, subject = "options"
  PROVE  \E k \in 0..Len(input) :
            /\ \A i \in 1..k : input[i] \notin {"end", "bad", "cut"}
            /\ k < Len(input) => input[k + 1] \in {"end", "bad", "cut"}
            /\ DOMAIN Standing = 1..k /\ \A i \in 1..k : Standing[i] = input[i]
  <1> DEFINE ends == {"end", "bad", "cut"}
             stops == {i \in DOMAIN input : input[i] \in ends}
  <1>1. Standing = IF stops = {} THEN input ELSE SubSeq(input, 1, Min(stops) - 1)
    BY DEF Standing
  <1>5. input \in Seq(Options4)
    BY DEF WireTypeOK, Alphabet
  <1>2. PICK n \in Nat : n = Len(input) /\ DOMAIN input = 1..n
    BY <1>5
  <1>3. CASE stops = {}
    <2>1. n \in 0..n /\ n \in 0..Len(input) /\ ~(n < Len(input))
      BY <1>2
    <2>2. \A i \in 1..n : input[i] \notin ends
      BY <1>2, <1>3
    <2>3. Standing = input
      BY <1>1, <1>3
    <2> QED
      BY <1>2, <2>1, <2>2, <2>3
  <1>4. CASE stops # {}
    <2>1. stops \subseteq Nat /\ stops \subseteq 1..n /\ \A i \in 1..n : input[i] \in ends <=> i \in stops
      BY <1>2
    <2> HIDE DEF stops
    <2>2. PICK m : m = Min(stops) /\ m \in stops /\ \A y \in stops : m <= y
      BY <1>4, <2>1, LeastIs
    <2>3. PICK k : k = m - 1
      OBVIOUS
    <2>4. m \in 1..n /\ k \in 0..n /\ k < n /\ k + 1 = m /\ k \in 0..Len(input) /\ k \in Nat
      BY <1>2, <2>1, <2>2, <2>3
    <2>5. input[k + 1] \in ends
      BY <2>1, <2>2, <2>4
    <2>6. \A i \in 1..k : i \in 1..n /\ ~(m <= i)
      BY <2>4
    <2>7. \A i \in 1..k : input[i] \notin ends
      BY <2>1, <2>2, <2>6
    <2>8. Standing = SubSeq(input, 1, k)
      BY <1>1, <1>4, <2>2, <2>3
    <2>11. PICK p : p = SubSeq(input, 1, k)
      OBVIOUS
    <2>9. p \in Seq(Options4) /\ Len(p) = k /\ \A i \in 1..k : p[i] = input[i]
      BY <1>2, <1>5, <2>4, <2>11
    <2>10. DOMAIN p = 1..k
      BY <2>9
    <2> QED
      BY <2>4, <2>5, <2>7, <2>8, <2>9, <2>10, <2>11
  <1> QED
    BY <1>3, <1>4

\* The window scale is the last one a receiver takes notice of, in every list
\* of options (tcp_parse_window_scale).
THEOREM OptionsReadHolds == WireSpec => []OptionsRead
  <1>1. WireTypeOK /\ CutLast => OptionsRead
    <2> SUFFICES ASSUME WireTypeOK, CutLast, subject = "options"
                 PROVE  LET scales == {i \in DOMAIN Standing : Standing[i] \in Wanted}
                        IN tcp_parse_window_scale(FlattenSeq([i \in DOMAIN input |-> Option[input[i]]]))
                             = IF scales = {} THEN 0 ELSE Option[Standing[Max(scales)]][3]
      BY Zenon DEF OptionsRead, Wanted
    <2> DEFINE scales == {i \in DOMAIN Standing : Standing[i] \in Wanted}
               ws == tcp_parse_window_scale(FlattenSeq([i \in DOMAIN input |-> Option[input[i]]]))
    <2>1. PICK k \in 0..Len(input) :
            /\ \A i \in 1..k : input[i] \notin {"end", "bad", "cut"}
            /\ k < Len(input) => input[k + 1] \in {"end", "bad", "cut"}
            /\ DOMAIN Standing = 1..k /\ \A i \in 1..k : Standing[i] = input[i]
      BY StandingIs
    <2>2. input \in Seq(Options4)
      BY DEF WireTypeOK, Alphabet
    <2>3. \A i \in 1..Len(input) : input[i] = "cut" => i = Len(input)
      BY DEF CutLast
    <2>4. LastWanted(input, k, ws)
      BY <2>1, <2>2, <2>3, ScaleRead
    <2> HIDE DEF ws
    <2>5. \A i \in 1..k : i \in scales <=> input[i] \in Wanted
      BY <2>1
    <2>6. scales \subseteq 1..k /\ \A i \in scales : Standing[i] = input[i]
      BY <2>1
    <2> HIDE DEF scales
    <2>7. CASE (\A j \in 1..k : input[j] \notin Wanted) /\ ws = 0
      <3>1. scales = {}
        BY <2>5, <2>6, <2>7
      <3> QED
        BY <2>7, <3>1 DEF ws, scales
    <2>8. ASSUME NEW m \in 1..k, input[m] \in Wanted, ws = Option[input[m]][3],
                 \A j \in 1..k : j > m => input[j] \notin Wanted
          PROVE  ws = IF scales = {} THEN 0 ELSE Option[Standing[Max(scales)]][3]
      <3>1. m \in scales
        BY <2>5, <2>8
      <3>2. \A y \in scales : m >= y
        <4>1. \A y \in scales : y \in 1..k /\ input[y] \in Wanted
          BY <2>5, <2>6
        <4> QED
          BY <2>8, <4>1
      <3>3. \A x, y \in scales : x >= y /\ y >= x => x = y
        BY <2>6
      <3>4. Max(scales) = m
        BY <3>1, <3>2, <3>3 DEF Max
      <3>5. Standing[m] = input[m]
        BY <2>6, <3>1
      <3> QED
        BY <2>8, <3>1, <3>4, <3>5
    <2> QED
      BY <2>4, <2>7, <2>8 DEF LastWanted, ws, scales
  <1> QED
    BY <1>1, TypeInvariant, NothingBehindCut, PTL

\* The options of a SYN-ACK: the App finds the window scale in them.
LEMMA OwnScaleRead ==
  ASSUME NEW hi \in Nat, NEW lo \in Nat, NEW wscale \in Nat, NEW opts,
         opts = <<2, 4, hi, lo, 1, 1, 3, 3, wscale, 0, 0, 0>>
  PROVE  tcp_parse_window_scale(opts) = wscale
  <1>1. opts \in Seq(Nat) /\ Len(opts) = 12
    OBVIOUS
  <1>2. /\ opts[1] = 2 /\ opts[2] = 4 /\ opts[5] = 1 /\ opts[6] = 1 /\ opts[7] = 3 /\ opts[8] = 3
        /\ opts[9] = wscale /\ opts[10] = 0
    OBVIOUS
  <1>3. PICK walk : ReadsOn(walk, opts) /\ tcp_parse_window_scale(opts) = walk[Len(opts)].ws
    BY <1>1, ScaleIs
  <1>4. /\ walk[0] = [o |-> 1, ws |-> 0]
        /\ Reads(walk[1], walk[0], opts) /\ Reads(walk[2], walk[1], opts)
        /\ Reads(walk[3], walk[2], opts) /\ Reads(walk[4], walk[3], opts)
    <2>1. walk[0] = [o |-> 1, ws |-> 0] /\ \A n \in 1..12 : Reads(walk[n], walk[n - 1], opts)
      BY <1>1, <1>3 DEF ReadsOn
    <2> QED
      BY <2>1
  <1>5. \A a, b \in Nat : [o |-> a, ws |-> b].o = a /\ [o |-> a, ws |-> b].ws = b
    OBVIOUS
  <1>6. OptionLen(opts, 1) = 4 /\ OptionLen(opts, 7) = 3
    BY <1>2 DEF OptionLen
  <1>7. walk[1] = [o |-> 5, ws |-> 0]
    <2>1. PICK w, v : w = walk[0] /\ v = walk[1] /\ w.o = 1 /\ w.ws = 0 /\ Reads(v, w, opts)
      BY <1>4
    <2>2. v = [o |-> 5, ws |-> 0]
      BY <1>1, <1>2, <1>6, <2>1 DEF Reads
    <2> QED
      BY <2>1, <2>2
  <1>8. walk[2] = [o |-> 6, ws |-> 0]
    <2>1. PICK w, v : w = [o |-> 5, ws |-> 0] /\ v = walk[2] /\ w.o = 5 /\ w.ws = 0 /\ Reads(v, w, opts)
      BY <1>4, <1>7
    <2>2. v = [w EXCEPT !.o = @ + 1]
      BY <1>1, <1>2, <2>1 DEF Reads
    <2> QED
      BY <2>1, <2>2
  <1>9. walk[3] = [o |-> 7, ws |-> 0]
    <2>1. PICK w, v : w = [o |-> 6, ws |-> 0] /\ v = walk[3] /\ w.o = 6 /\ w.ws = 0 /\ Reads(v, w, opts)
      BY <1>4, <1>8
    <2>2. v = [w EXCEPT !.o = @ + 1]
      BY <1>1, <1>2, <2>1 DEF Reads
    <2> QED
      BY <2>1, <2>2
  <1>10. walk[4] = [o |-> 10, ws |-> wscale]
    <2>1. PICK w, v : w = [o |-> 7, ws |-> 0] /\ v = walk[4] /\ w.o = 7 /\ w.ws = 0 /\ Reads(v, w, opts)
      BY <1>4, <1>9
    <2>2. v = [o |-> 10, ws |-> wscale]
      BY <1>1, <1>2, <1>6, <2>1 DEF Reads
    <2> QED
      BY <2>1, <2>2
  <1>11. Done(walk[4], opts)
    BY <1>2, <1>10 DEF Done
  <1>12. walk[Len(opts)] = walk[4]
    <2>1. 4 \in 0..Len(opts)
      BY <1>1
    <2> QED
      BY <1>1, <1>3, <1>11, <2>1, DoneStays
  <1> QED
    BY <1>3, <1>10, <1>12

\* The window scale in the options of a packet.
ScaleSaid(v6, pkt, wscale) == tcp_parse_window_scale(From(pkt, HeaderLen(v6) + 21)) = wscale

\* What is built whenever there is room for it.
SynAckBuilt(v6, saddr, daddr, ports, isn, ack, win, mss, wscale, pkt) ==
    \A cap \in Int : tcp_build_synack(v6, saddr, daddr, ports, isn, ack, win, mss, wscale, cap)
                        = IF Len(pkt) > cap THEN NoPacket ELSE pkt

\* The SYN-ACK is a good packet and offers the engine's window scale
\* (tcp_build_synack).
THEOREM SynAckIsGood ==
  ASSUME NEW v6, NEW saddr, NEW daddr, Ends(v6, saddr, daddr),
         NEW ports, NEW isn, NEW ack, NEW win, Fields(ports, isn, ack, 128, 18, win),
         NEW mss \in Nat, NEW wscale \in Nat
  PROVE  \E pkt : /\ GoodPacket(v6, saddr, daddr, 6, pkt) /\ Len(pkt) = HeaderLen(v6) + 32
                  /\ ScaleSaid(v6, pkt, wscale)
                  /\ SynAckBuilt(v6, saddr, daddr, ports, isn, ack, win, mss, wscale, pkt)
  <1>1. PICK h : h = TcpHeader(ports, isn, ack, 128, 18, win) /\ Blank(h, 17) /\ Len(h) = 20
    BY TcpHead
  <1>2. PICK a, w, b : a = <<2, 4>> /\ w = Word(mss) /\ b = <<1, 1, 3, 3, wscale, 0, 0, 0>>
    OBVIOUS
  <1>3. PICK hi \in Nat, lo \in Nat : w = <<hi, lo>>
    <2>1. mss \div 256 \in Nat /\ mss % 256 \in Nat
      OBVIOUS
    <2> QED
      BY <1>2, <2>1 DEF Word
  <1>4. PICK opts : opts = <<2, 4, hi, lo, 1, 1, 3, 3, wscale, 0, 0, 0>>
    OBVIOUS
  <1>5. opts \in Seq(Nat) /\ Len(opts) = 12
    BY <1>4
  <1>7. h \in Seq(Nat) /\ a \in Seq(Nat) /\ w \in Seq(Nat) /\ b \in Seq(Nat)
    BY <1>1, <1>2, <1>3 DEF Blank
  <1>6. (a \o w) \o b = opts
    <2>1. PICK aw : Joined(aw, a, w)
      BY <1>7, SomeJoined
    <2>2. PICK s : Joined(s, aw, b)
      BY <1>7, <2>1, SomeJoined, JoinedLen
    <2>3. Len(a) = 2 /\ a[1] = 2 /\ a[2] = 4 /\ Len(w) = 2 /\ w[1] = hi /\ w[2] = lo /\ Len(b) = 8
      BY <1>2, <1>3
    <2>4. Len(aw) = 4 /\ aw[1] = 2 /\ aw[2] = 4 /\ aw[3] = hi /\ aw[4] = lo
      <3>1. Len(aw) = Len(a) + Len(w)
        BY <2>1, JoinedLen
      <3>2. \A m \in 1..Len(a) : aw[m] = a[m]
        BY <2>1, JoinedFront
      <3>3. Behind(aw, 2, w)
        BY <2>1, <2>3, JoinedBack
      <3>4. aw[2 + 1] = hi /\ aw[2 + 2] = lo
        BY <2>3, <3>3 DEF Behind
      <3> QED
        BY <2>3, <3>1, <3>2, <3>4
    <2>5. s \in Seq(Nat) /\ Len(s) = 12 /\ \A m \in 1..4 : s[m] = aw[m]
      <3>1. s \in Seq(Nat) /\ Len(s) = Len(aw) + Len(b)
        BY <2>2, JoinedLen
      <3>2. \A m \in 1..Len(aw) : s[m] = aw[m]
        BY <2>2, JoinedFront
      <3> QED
        BY <2>3, <2>4, <3>1, <3>2
    <2>6. \A m \in 1..8 : s[4 + m] = b[m]
      <3>1. Behind(s, 4, b)
        BY <2>2, <2>4, JoinedBack
      <3> QED
        BY <2>3, <3>1 DEF Behind
    <2>7. \A m \in 1..8 : b[m] = opts[4 + m]
      <3> TAKE m \in 1..8
      <3>1. m \in {1, 2, 3, 4, 5, 6, 7, 8}
        OBVIOUS
      <3> QED
        BY <1>2, <1>4, <3>1
    <2>8. opts[1] = 2 /\ opts[2] = 4 /\ opts[3] = hi /\ opts[4] = lo
      BY <1>4
    <2>9. ASSUME NEW m \in 1..12 PROVE s[m] = opts[m]
      <3>1. CASE m \in 1..4
        <4>1. m \in {1, 2, 3, 4}
          BY <3>1
        <4> QED
          BY <2>4, <2>5, <2>8, <3>1, <4>1
      <3>2. CASE ~(m \in 1..4)
        <4>1. m - 4 \in 1..8 /\ 4 + (m - 4) = m
          BY <3>2
        <4> QED
          BY <2>6, <2>7, <4>1
      <3> QED
        BY <3>1, <3>2
    <2>10. s = opts
      BY <1>5, <2>5, <2>9, SeqEqual
    <2> QED
      BY <2>1, <2>2, <2>10 DEF Joined
  <1>8. PICK seg : Joined(seg, h, opts)
    BY <1>5, <1>7, SomeJoined
  <1>9. Blank(seg, 17) /\ Len(seg) = 32 /\ Behind(seg, 20, opts) /\ seg \in Seq(Nat)
    <2>1. Len(seg) = Len(h) + Len(opts) /\ seg \in Seq(Nat)
      BY <1>8, JoinedLen
    <2>2. Behind(seg, Len(h), opts)
      BY <1>8, JoinedBack
    <2>3. Blank(seg, 17)
      BY <1>1, <1>8, BlankJoined
    <2>4. Len(seg) = 32
      <3>1. Len(h) = 20 /\ Len(opts) = 12
        BY <1>1, <1>5
      <3> QED
        BY <2>1, <3>1
    <2>5. Behind(seg, 20, opts)
      BY <1>1, <2>2
    <2> QED
      BY <2>1, <2>3, <2>4, <2>5
  <1>10. PICK pkt, got :
           /\ pkt = IpHeader(v6, Len(seg), 6, saddr, daddr) \o Summed(v6, saddr, daddr, 6, seg, 17)
           /\ Made(v6, saddr, daddr, 6, got, pkt) /\ Filled(got, seg, 17)
    BY <1>9, ProtosL4, SegmentMade
  <1>11. PICK l \in {20, 40} : l = HeaderLen(v6) /\ l \in Nat
    BY DEF HeaderLen
  <1>12. /\ Len(pkt) = l + 32 /\ pkt \in Seq(Nat) /\ From(pkt, l + 1) = got
         /\ GoodPacket(v6, saddr, daddr, 6, pkt)
    BY <1>9, <1>10, <1>11 DEF Made, Filled
  <1>13. Behind(got, 20, opts)
    <2>1. 17 \in Nat /\ 20 \in Nat /\ 20 + Len(opts) <= Len(seg) /\ 20 >= 17 + 1
      BY <1>5, <1>9
    <2> QED
      BY <1>5, <1>9, <1>10, <2>1, BehindFilled
  <1>14. Behind(pkt, l + 20, opts)
    <2>1. l \in Nat /\ 20 \in Nat /\ l <= Len(pkt) /\ 20 + Len(opts) <= Len(pkt) - l
      BY <1>5, <1>11, <1>12
    <2>2. Behind(From(pkt, l + 1), 20, opts) /\ pkt \in Seq(Nat)
      BY <1>12, <1>13
    <2> QED
      BY <1>5, <2>1, <2>2, BehindFromOn
  <1>15. From(pkt, l + 21) = opts
    <2>3. l + 20 \in Nat /\ (l + 20) + 12 = l + 32 /\ (l + 20) + 1 = l + 21
      BY <1>11
    <2>1. l + 20 \in Nat /\ (l + 20) + Len(opts) = Len(pkt) /\ pkt \in Seq(Nat) /\ (l + 20) + 1 = l + 21
      BY <1>5, <1>12, <2>3
    <2>2. From(pkt, (l + 20) + 1) = opts
      BY <1>5, <1>14, <2>1, BehindFrom
    <2> QED
      BY <2>1, <2>2
  <1>16. tcp_parse_window_scale(From(pkt, HeaderLen(v6) + 21)) = wscale
    BY <1>4, <1>11, <1>15, OwnScaleRead
  <1>17. seg = ports \o isn \o ack \o <<128, 18>> \o Word(win) \o <<0, 0, 0, 0>>
                 \o <<2, 4>> \o Word(mss) \o <<1, 1, 3, 3, wscale, 0, 0, 0>>
    <2>1. PICK ha, hw : Joined(ha, h, a) /\ Joined(hw, ha, w)
      <3>1. PICK ha : Joined(ha, h, a)
        BY <1>7, SomeJoined
      <3> QED
        BY <1>7, <3>1, SomeJoined, JoinedLen
    <2>2. PICK s : Joined(s, hw, b)
      BY <1>7, <2>1, SomeJoined, JoinedLen
    <2>3. PICK aw : Joined(aw, a, w)
      BY <1>7, SomeJoined
    <2>4. Joined(hw, h, aw)
      BY <2>1, <2>3, RegroupRight
    <2>5. Joined(opts, aw, b)
      BY <1>6, <1>7, <2>3, Join, JoinedLen DEF Joined
    <2>6. Joined(s, h, opts)
      BY <2>2, <2>4, <2>5, RegroupRight
    <2>7. s = seg
      BY <1>8, <2>6 DEF Joined
    <2>8. s = h \o a \o w \o b
      BY <2>1, <2>2 DEF Joined
    <2> QED
      BY <1>1, <1>2, <2>7, <2>8 DEF TcpHeader
  <1>18. ASSUME NEW cap \in Int
         PROVE  tcp_build_synack(v6, saddr, daddr, ports, isn, ack, win, mss, wscale, cap)
                  = IF Len(pkt) > cap THEN NoPacket ELSE pkt
    <2>1. tcp_build_synack(v6, saddr, daddr, ports, isn, ack, win, mss, wscale, cap)
            = IF HeaderLen(v6) + 32 > cap THEN NoPacket
              ELSE IpHeader(v6, 32, 6, saddr, daddr) \o Summed(v6, saddr, daddr, 6, seg, 17)
      BY <1>17, Zenon DEF tcp_build_synack
    <2>2. pkt = IpHeader(v6, 32, 6, saddr, daddr) \o Summed(v6, saddr, daddr, 6, seg, 17)
      BY <1>9, <1>10
    <2>3. HeaderLen(v6) + 32 = Len(pkt)
      BY <1>11, <1>12
    <2> QED
      BY <2>1, <2>2, <2>3, Zenon
  <1> QED
    BY <1>11, <1>12, <1>16, <1>18 DEF ScaleSaid, SynAckBuilt

-----------------------------------------------------------------------------
(* icmp_packet.c and ip4_reasm_rebuild: parts of what came, changed in place. *)

\* The checksum of a header of its own (checksum16).
Checked(got, s, at) == Filled(got, s, at) /\ Verifies(got)

LEMMA SelfChecked ==
  ASSUME NEW s, NEW at, Blank(s, at)
  PROVE  Checked(Put(s, at, Word(checksum16(s))), s, at)
  <1>5. PICK e : e = <<>>
    OBVIOUS
  <1>1. e = <<>> /\ e \in Seq(Nat) /\ Len(e) % 2 = 0
    BY <1>5
  <1>2. PICK got : /\ got = Put(s, at, Word(checksum_finish(accum_swapped(s, accum_swapped(e, 0)))))
                   /\ Filled(got, s, at) /\ Verifies(e \o got)
    BY <1>1, FilledVerifies
  <1>3. Put(s, at, Word(checksum16(s))) = got
    <2>1. accum_swapped(e, 0) = 0
      BY <1>1, NothingSummed
    <2> QED
      BY <1>2, <2>1, Zenon DEF checksum16
  <1>4. e \o got = got
    <2>1. got \in Seq(Nat)
      BY <1>2 DEF Filled
    <2> QED
      BY <1>1, <2>1, ConcatEmptySeq
  <1> QED
    BY <1>2, <1>3, <1>4 DEF Checked

LEMMA BehindBoth ==
  ASSUME NEW s, NEW n \in Nat, NEW ab, NEW a, NEW b, Joined(ab, a, b), Behind(s, n, ab)
  PROVE  Behind(s, n, a) /\ Behind(s, n + Len(a), b)
  <1>1. PICK k \in Nat, m \in Nat : k = Len(a) /\ m = Len(b)
    BY JoinedLen
  <1>2. Len(ab) = k + m
    BY <1>1, JoinedLen
  <1>3. \A i \in 1..k : s[n + i] = a[i]
    <2>1. \A i \in 1..k : ab[i] = a[i]
      BY <1>1, JoinedFront
    <2>2. \A i \in 1..k : i \in 1..(k + m)
      BY <1>1
    <2> QED
      BY <1>2, <2>1, <2>2 DEF Behind
  <1>4. \A i \in 1..m : s[(n + k) + i] = b[i]
    <2>1. Behind(ab, Len(a), b)
      BY JoinedBack
    <2>2. \A i \in 1..m : ab[k + i] = b[i]
      BY <1>1, <2>1 DEF Behind
    <2>3. \A i \in 1..m : k + i \in 1..(k + m) /\ n + (k + i) = (n + k) + i
      BY <1>1
    <2>4. \A i \in 1..m : s[n + (k + i)] = ab[k + i]
      BY <1>2, <2>3 DEF Behind
    <2> QED
      BY <2>2, <2>3, <2>4
  <1> QED
    BY <1>1, <1>3, <1>4 DEF Behind

LEMMA TailSame ==
  ASSUME NEW r \in Seq(Nat), NEW q \in Seq(Nat), Len(r) = Len(q), NEW n \in Nat, n <= Len(r),
         \A i \in 1..Len(r) : i > n => r[i] = q[i]
  PROVE  From(r, n + 1) = From(q, n + 1)
  <1>1. PICK l \in Nat : l = Len(r) /\ l = Len(q)
    OBVIOUS
  <1>2. PICK x, y : x = From(r, n + 1) /\ y = From(q, n + 1)
    OBVIOUS
  <1>3. x \in Seq(Nat) /\ Len(x) = l - n /\ \A i \in 1..(l - n) : x[i] = r[n + i]
    BY <1>1, <1>2, FromIs, Zenon
  <1>4. y \in Seq(Nat) /\ Len(y) = l - n /\ \A i \in 1..(l - n) : y[i] = q[n + i]
    BY <1>1, <1>2, FromIs, Zenon
  <1>5. \A i \in 1..(l - n) : n + i \in 1..l /\ n + i > n
    BY <1>1
  <1>6. \A i \in 1..(l - n) : x[i] = y[i]
    BY <1>1, <1>3, <1>4, <1>5
  <1>7. x = y
    BY <1>3, <1>4, <1>6, SeqEqual
  <1> QED
    BY <1>2, <1>7

\* An IPv4 header with options.
Heading4(h, ihl, proto, saddr, daddr) ==
    /\ h \in Seq(Nat) /\ ihl \in Nat /\ Len(h) = ihl /\ ihl >= 20
    /\ h[1] \div 16 = 4 /\ (h[1] % 16) * 4 = ihl /\ h[10] = proto
    /\ saddr \in Seq(Nat) /\ daddr \in Seq(Nat) /\ Len(saddr) = 4 /\ Len(daddr) = 4
    /\ Behind(h, 12, saddr) /\ Behind(h, 16, daddr)

LEMMA HeadingParsed ==
  ASSUME NEW h, NEW ihl, NEW proto, NEW saddr, NEW daddr, Heading4(h, ihl, proto, saddr, daddr),
         NEW seg, NEW pkt, Joined(pkt, h, seg)
  PROVE  parse_ipv4(pkt) = [proto |-> proto, ihl |-> ihl, saddr |-> saddr, daddr |-> daddr]
  <1>1. /\ h \in Seq(Nat) /\ ihl \in Nat /\ Len(h) = ihl /\ ihl >= 20
        /\ h[1] \div 16 = 4 /\ (h[1] % 16) * 4 = ihl /\ h[10] = proto
        /\ saddr \in Seq(Nat) /\ daddr \in Seq(Nat) /\ Len(saddr) = 4 /\ Len(daddr) = 4
        /\ Behind(h, 12, saddr) /\ Behind(h, 16, daddr)
    BY DEF Heading4
  <1>2. pkt[1] = h[1] /\ pkt[10] = h[10]
    <2>1. \A i \in 1..Len(h) : pkt[i] = h[i]
      BY JoinedFront
    <2>2. 1 \in 1..Len(h) /\ 10 \in 1..Len(h)
      BY <1>1
    <2> QED
      BY <2>1, <2>2
  <1>3. ~(Len(pkt) < 20) /\ ~(ihl > Len(pkt)) /\ ~(ihl < 20)
    <2>1. Len(pkt) = Len(h) + Len(seg) /\ Len(seg) \in Nat
      BY JoinedLen
    <2> QED
      BY <1>1, <2>1
  <1>4. SubSeq(pkt, 13, 16) = saddr
    <2>1. 12 \in Nat /\ 12 + Len(saddr) <= Len(h) /\ 12 + Len(saddr) = 16 /\ 12 + 1 = 13
      BY <1>1
    <2>2. Behind(h, 12, saddr) /\ saddr \in Seq(Nat)
      BY <1>1
    <2>3. SubSeq(pkt, 12 + 1, 12 + Len(saddr)) = saddr
      BY <2>1, <2>2, CutJoined
    <2> QED
      BY <2>1, <2>3
  <1>5. SubSeq(pkt, 17, 20) = daddr
    <2>1. 16 \in Nat /\ 16 + Len(daddr) <= Len(h) /\ 16 + Len(daddr) = 20 /\ 16 + 1 = 17
      BY <1>1
    <2>2. Behind(h, 16, daddr) /\ daddr \in Seq(Nat)
      BY <1>1
    <2>3. SubSeq(pkt, 16 + 1, 16 + Len(daddr)) = daddr
      BY <2>1, <2>2, CutJoined
    <2> QED
      BY <2>1, <2>3
  <1>6. pkt[1] \div 16 = 4 /\ (pkt[1] % 16) * 4 = ihl /\ pkt[10] = proto
    BY <1>1, <1>2
  <1> QED
    BY <1>3, <1>4, <1>5, <1>6, Zenon DEF parse_ipv4

\* The first bytes of a packet.
LEMMA FrontIs ==
  ASSUME NEW s \in Seq(Nat), NEW n \in Nat, n <= Len(s)
  PROVE  /\ SubSeq(s, 1, n) \in Seq(Nat) /\ Len(SubSeq(s, 1, n)) = n
         /\ \A i \in 1..n : SubSeq(s, 1, n)[i] = s[i]
  OBVIOUS

\* A request turned into its answer: a type of its own, and no checksum yet.
Turned(m, m0) ==
    /\ Blank(m, 3) /\ Len(m) = Len(m0)
    /\ \A i \in 1..Len(m0) : i > 4 => m[i] = m0[i]

LEMMA TurnedIs ==
  ASSUME NEW m0 \in Seq(Nat), 4 <= Len(m0), NEW t \in Nat
  PROVE  Turned(Put(Put(m0, 1, <<t>>), 3, <<0, 0>>), m0)
  <1>1. PICK o, z, n : o = <<t>> /\ z = <<0, 0>> /\ n = Len(m0)
    OBVIOUS
  <1>2. o \in Seq(Nat) /\ Len(o) = 1 /\ z \in Seq(Nat) /\ Len(z) = 2 /\ z[1] = 0 /\ z[2] = 0
    BY <1>1
  <1>3. n \in Nat /\ 4 <= n
    BY <1>1
  <1>4. PICK m1, m2 : m1 = Put(m0, 1, o) /\ m2 = Put(m1, 3, z)
    OBVIOUS
  <1>5. Over(m1, m0, 0, o)
    <2>1. 0 \in Nat /\ 0 + Len(o) <= Len(m0) /\ 0 + 1 = 1
      BY <1>1, <1>2, <1>3
    <2>2. Over(Put(m0, 0 + 1, o), m0, 0, o)
      BY <1>2, <2>1, PutIs
    <2> QED
      BY <1>4, <2>1, <2>2
  <1>6. m1 \in Seq(Nat) /\ Len(m1) = n
    BY <1>1, <1>5 DEF Over
  <1>7. Over(m2, m1, 2, z)
    <2>1. 2 \in Nat /\ 2 + Len(z) <= Len(m1) /\ 2 + 1 = 3
      BY <1>2, <1>3, <1>6
    <2>2. Over(Put(m1, 2 + 1, z), m1, 2, z)
      BY <1>2, <1>6, <2>1, PutIs
    <2> QED
      BY <1>4, <2>1, <2>2
  <1>8. m2 \in Seq(Nat) /\ Len(m2) = n /\ Behind(m2, 2, z)
    BY <1>6, <1>7 DEF Over
  <1>9. Blank(m2, 3)
    <2>1. m2[2 + 1] = z[1] /\ m2[2 + 2] = z[2]
      BY <1>2, <1>8 DEF Behind
    <2>2. 3 % 2 = 1
      OBVIOUS
    <2> QED
      BY <1>2, <1>3, <1>8, <2>1, <2>2 DEF Blank
  <1>10. ASSUME NEW i \in 1..n, i > 4 PROVE m2[i] = m0[i]
    <2>1. m2[i] = m1[i]
      <3>1. i > 2 + Len(z) /\ i \in 1..Len(m1)
        BY <1>2, <1>6, <1>10
      <3> QED
        BY <1>7, <3>1 DEF Over
    <2>2. m1[i] = m0[i]
      <3>1. i > 0 + Len(o) /\ i \in 1..Len(m0)
        BY <1>1, <1>2, <1>10
      <3> QED
        BY <1>5, <3>1 DEF Over
    <2> QED
      BY <2>1, <2>2
  <1> QED
    BY <1>1, <1>4, <1>8, <1>9, <1>10 DEF Turned

\* A ping behind an IPv4 header of ihl bytes.
Ping4(req, ihl) ==
    /\ ihl \in Nat /\ req \in Seq(Nat) /\ ihl >= 20 /\ ihl + 8 <= Len(req) /\ Len(req) <= TunMtu
    /\ req[1] \div 16 = 4 /\ (req[1] % 16) * 4 = ihl /\ req[10] = 1

\* The answer to a ping is the ping with its addresses exchanged, and both its
\* checksums verify, however long its header (icmp4_build_echo_reply).
THEOREM EchoReply4IsGood ==
  ASSUME NEW req, NEW ihl, Ping4(req, ihl), NEW saddr, NEW daddr, Ends(FALSE, saddr, daddr),
         NEW cap \in Int, Len(req) <= cap
  PROVE  LET r == icmp4_build_echo_reply(req, ihl, saddr, daddr, cap) IN
         /\ parse_ipv4(r) = [proto |-> 1, ihl |-> ihl, saddr |-> saddr, daddr |-> daddr]
         /\ Verifies(SubSeq(r, 1, ihl)) /\ Verifies(From(r, ihl + 1))
         /\ From(r, ihl + 5) = From(req, ihl + 5)
  <1>0. /\ ihl \in Nat /\ req \in Seq(Nat) /\ ihl >= 20 /\ ihl + 8 <= Len(req) /\ Len(req) <= TunMtu
        /\ req[1] \div 16 = 4 /\ (req[1] % 16) * 4 = ihl /\ req[10] = 1
        /\ saddr \in Seq(Nat) /\ daddr \in Seq(Nat) /\ Len(saddr) = 4 /\ Len(daddr) = 4
    BY DEF Ping4, Ends, AddressLen
  <1> USE <1>0
  <1>1. PICK l \in Nat : l = Len(req)
    OBVIOUS
  <1>2. PICK h0, m0 : h0 = SubSeq(req, 1, ihl) /\ m0 = From(req, ihl + 1)
    OBVIOUS
  <1>3. h0 \in Seq(Nat) /\ Len(h0) = ihl /\ \A i \in 1..ihl : h0[i] = req[i]
    <2>1. ihl <= Len(req)
      BY <1>1
    <2> QED
      BY <1>2, <2>1, FrontIs
  <1>4. m0 \in Seq(Nat) /\ Len(m0) = l - ihl /\ \A i \in 1..(l - ihl) : m0[i] = req[ihl + i]
    <2>1. ihl <= Len(req)
      BY <1>1
    <2> QED
      BY <1>1, <1>2, <2>1, FromIs
  <1>5. PICK sd : Joined(sd, saddr, daddr)
    BY SomeJoined
  <1>6. sd \in Seq(Nat) /\ Len(sd) = 8 /\ sd = saddr \o daddr
    BY <1>5 DEF Joined
  <1>7. PICK hop, z, h1, h2, h3, got :
           /\ hop = <<64>> /\ z = <<0, 0>> /\ h1 = Put(h0, 13, sd) /\ h2 = Put(h1, 9, hop)
           /\ h3 = Put(h2, 11, z) /\ got = Put(h3, 11, Word(checksum16(h3)))
    OBVIOUS
  <1>8. /\ hop \in Seq(Nat) /\ Len(hop) = 1 /\ z \in Seq(Nat) /\ Len(z) = 2 /\ z[1] = 0 /\ z[2] = 0
    BY <1>7
  <1>9. Over(h1, h0, 12, sd)
    <2>1. 12 \in Nat /\ 12 + Len(sd) <= Len(h0) /\ 12 + 1 = 13
      BY <1>3, <1>6
    <2>2. Over(Put(h0, 12 + 1, sd), h0, 12, sd)
      BY <1>3, <1>6, <2>1, PutIs
    <2> QED
      BY <1>7, <2>1, <2>2
  <1>10. h1 \in Seq(Nat) /\ Len(h1) = ihl
    BY <1>3, <1>9 DEF Over
  <1>11. Over(h2, h1, 8, hop)
    <2>1. 8 \in Nat /\ 8 + Len(hop) <= Len(h1) /\ 8 + 1 = 9
      BY <1>8, <1>10
    <2>2. Over(Put(h1, 8 + 1, hop), h1, 8, hop)
      BY <1>8, <1>10, <2>1, PutIs
    <2> QED
      BY <1>7, <2>1, <2>2
  <1>12. h2 \in Seq(Nat) /\ Len(h2) = ihl
    BY <1>10, <1>11 DEF Over
  <1>13. Over(h3, h2, 10, z)
    <2>1. 10 \in Nat /\ 10 + Len(z) <= Len(h2) /\ 10 + 1 = 11
      BY <1>8, <1>12
    <2>2. Over(Put(h2, 10 + 1, z), h2, 10, z)
      BY <1>8, <1>12, <2>1, PutIs
    <2> QED
      BY <1>7, <2>1, <2>2
  <1>14. h3 \in Seq(Nat) /\ Len(h3) = ihl /\ Blank(h3, 11)
    <2>1. h3 \in Seq(Nat) /\ Len(h3) = ihl /\ Behind(h3, 10, z)
      BY <1>12, <1>13 DEF Over
    <2>2. h3[10 + 1] = z[1] /\ h3[10 + 2] = z[2]
      BY <1>8, <2>1 DEF Behind
    <2>3. 11 % 2 = 1
      OBVIOUS
    <2> QED
      BY <1>8, <2>1, <2>2, <2>3 DEF Blank
  <1>15. Filled(got, h3, 11) /\ Verifies(got)
    BY <1>7, <1>14, SelfChecked DEF Checked
  <1>16. got \in Seq(Nat) /\ Len(got) = ihl
    BY <1>14, <1>15 DEF Filled
  <1>17. got[1] = req[1] /\ got[10] = 1
    <2>1. /\ h1[1] = h0[1] /\ h1[10] = h0[10]
      BY <1>3, <1>9 DEF Over
    <2>2. h2[1] = h1[1] /\ h2[10] = h1[10]
      BY <1>8, <1>10, <1>11 DEF Over
    <2>3. h3[1] = h2[1] /\ h3[10] = h2[10]
      BY <1>8, <1>12, <1>13 DEF Over
    <2>4. got[1] = h3[1] /\ got[10] = h3[10]
      <3>1. /\ 1 \in 1..Len(h3) /\ 1 # 11 /\ 1 # 11 + 1
            /\ 10 \in 1..Len(h3) /\ 10 # 11 /\ 10 # 11 + 1
        BY <1>14
      <3> QED
        BY <1>15, <3>1 DEF Filled
    <2>5. h0[1] = req[1] /\ h0[10] = req[10]
      <3>1. 1 \in 1..ihl /\ 10 \in 1..ihl
        OBVIOUS
      <3> QED
        BY <1>3, <3>1
    <2> QED
      BY <2>1, <2>2, <2>3, <2>4, <2>5
  <1>18. Behind(got, 12, sd)
    <2>1. Behind(h1, 12, sd)
      BY <1>9 DEF Over
    <2>2. /\ 12 \in Nat /\ 8 \in Nat /\ 10 \in Nat /\ 11 \in Nat /\ 12 + Len(sd) <= ihl
          /\ 12 >= 8 + Len(hop) /\ 12 >= 10 + Len(z) /\ 12 >= 11 + 1
      BY <1>6, <1>8
    <2>3. Behind(h2, 12, sd)
      <3>1. 12 + Len(sd) <= Len(h1)
        BY <1>10, <2>2
      <3> QED
        BY <1>6, <1>8, <1>10, <1>11, <2>1, <2>2, <3>1, BehindOver
    <2>4. Behind(h3, 12, sd)
      <3>1. 12 + Len(sd) <= Len(h2)
        BY <1>12, <2>2
      <3> QED
        BY <1>6, <1>8, <1>12, <1>13, <2>2, <2>3, <3>1, BehindOver
    <2>5. 12 + Len(sd) <= Len(h3)
      BY <1>14, <2>2
    <2> QED
      BY <1>6, <1>14, <1>15, <2>2, <2>4, <2>5, BehindFilled
  <1>19. Behind(got, 12, saddr) /\ Behind(got, 16, daddr)
    <2>1. 12 \in Nat /\ 12 + Len(saddr) = 16
      OBVIOUS
    <2>2. Behind(got, 12, saddr) /\ Behind(got, 12 + Len(saddr), daddr)
      BY <1>5, <1>18, <2>1, BehindBoth
    <2> QED
      BY <2>1, <2>2
  <1>20. Heading4(got, ihl, 1, saddr, daddr)
    BY <1>16, <1>17, <1>19 DEF Heading4
  <1>21. PICK m2, mo : m2 = Put(Put(m0, 1, <<0>>), 3, <<0, 0>>) /\ mo = Put(m2, 3, Word(checksum16(m2)))
    OBVIOUS
  <1>22. Turned(m2, m0)
    <2>1. 4 <= Len(m0)
      BY <1>1, <1>4
    <2> QED
      BY <1>4, <1>21, <2>1, TurnedIs
  <1>25. m2 \in Seq(Nat) /\ Len(m2) = l - ihl /\ Blank(m2, 3)
    BY <1>4, <1>22 DEF Turned, Blank
  <1>26. Filled(mo, m2, 3) /\ Verifies(mo)
    BY <1>21, <1>25, SelfChecked DEF Checked
  <1>27. mo \in Seq(Nat) /\ Len(mo) = l - ihl
    BY <1>25, <1>26 DEF Filled
  <1>28. ASSUME NEW i \in 1..(l - ihl), i > 4 PROVE mo[i] = req[ihl + i]
    <2>1. mo[i] = m2[i]
      <3>1. i # 3 /\ i # 3 + 1
        BY <1>1, <1>28
      <3>2. Len(m2) = l - ihl
        BY <1>25
      <3>3. i \in 1..Len(m2)
        BY <1>28, <3>2
      <3> QED
        BY <1>26, <3>1, <3>3 DEF Filled
    <2>2. m2[i] = m0[i]
      <3>1. Len(m0) = l - ihl
        BY <1>4
      <3>2. i \in 1..Len(m0) /\ i > 4
        BY <1>28, <3>1
      <3> QED
        BY <1>22, <3>2 DEF Turned
    <2> QED
      BY <1>4, <2>1, <2>2
  <1>29. PICK r : Joined(r, got, mo)
    BY <1>16, <1>27, SomeJoined
  <1>30. icmp4_build_echo_reply(req, ihl, saddr, daddr, cap) = r
    <2>1. ~(ihl < 20 \/ ihl + 8 > Len(req) \/ Len(req) > cap \/ Len(req) > TunMtu)
      BY <1>1 DEF TunMtu
    <2>2. r = got \o mo
      BY <1>29 DEF Joined
    <2> QED
      BY <1>2, <1>6, <1>7, <1>21, <2>1, <2>2, Zenon DEF icmp4_build_echo_reply
  <1>31. parse_ipv4(r) = [proto |-> 1, ihl |-> ihl, saddr |-> saddr, daddr |-> daddr]
    BY <1>20, <1>29, HeadingParsed
  <1>32. SubSeq(r, 1, ihl) = got /\ From(r, ihl + 1) = mo
    BY <1>16, <1>29, JoinedFront, JoinedEnd
  <1>33. From(r, (ihl + 4) + 1) = From(req, (ihl + 4) + 1)
    <2>1. r \in Seq(Nat) /\ Len(r) = l
      <3>1. r \in Seq(Nat) /\ Len(r) = Len(got) + Len(mo)
        BY <1>29, JoinedLen
      <3> QED
        BY <1>1, <1>16, <1>27, <3>1
    <2>2. ASSUME NEW i \in 1..l, i > ihl + 4 PROVE r[i] = req[i]
      <3>1. PICK j : j = i - ihl
        OBVIOUS
      <3>2. j \in 1..(l - ihl) /\ j > 4 /\ ihl + j = i
        BY <1>1, <2>2, <3>1
      <3>3. Behind(r, ihl, mo)
        BY <1>16, <1>29, JoinedBack
      <3>4. r[ihl + j] = mo[j]
        BY <1>27, <3>2, <3>3 DEF Behind
      <3> QED
        BY <1>28, <3>2, <3>4
    <2>3. ihl + 4 \in Nat /\ ihl + 4 <= Len(r) /\ Len(r) = Len(req)
      BY <1>1, <2>1
    <2>4. \A i \in 1..Len(r) : i > ihl + 4 => r[i] = req[i]
      BY <2>1, <2>2
    <2> QED
      BY <2>1, <2>3, <2>4, TailSame
  <1>34. (ihl + 4) + 1 = ihl + 5
    OBVIOUS
  <1> QED
    BY <1>15, <1>26, <1>30, <1>31, <1>32, <1>33, <1>34

\* A ping straight behind an IPv6 header that says its length.
Ping6(req) ==
    /\ req \in Seq(Nat) /\ 48 <= Len(req) /\ Len(req) <= TunMtu
    /\ req[1] = 96 /\ req[7] = 58 /\ SubSeq(req, 5, 6) = Word(Len(req) - 40)

\* The answer to a ping over IPv6, which is good whatever the ping carries
\* (icmp6_build_echo_reply).
THEOREM EchoReply6IsGood ==
  ASSUME NEW req, Ping6(req), NEW saddr, NEW daddr, Ends(TRUE, saddr, daddr)
  PROVE  \E pkt : /\ GoodPacket(TRUE, saddr, daddr, 58, pkt)
                  /\ Len(pkt) = Len(req) /\ From(pkt, 45) = From(req, 45)
                  /\ \A cap \in Int : icmp6_build_echo_reply(req, saddr, daddr, cap)
                                        = IF Len(req) > cap THEN NoPacket ELSE pkt
  <1>0. req \in Seq(Nat)
    BY DEF Ping6
  <1>1. PICK l \in Nat, n \in Nat : l = Len(req) /\ l = n + 40 /\ n >= 8
    <2>1. Len(req) \in Nat /\ 48 <= Len(req)
      BY <1>0 DEF Ping6
    <2>2. Len(req) - 40 \in Nat /\ Len(req) = (Len(req) - 40) + 40 /\ Len(req) - 40 >= 8
      BY <2>1
    <2> QED
      BY <2>1, <2>2
  <1>2. /\ saddr \in Seq(Nat) /\ daddr \in Seq(Nat) /\ Len(saddr) = 16 /\ Len(daddr) = 16
    BY DEF Ends, AddressLen
  <1>3. PICK h0, m0 : h0 = SubSeq(req, 1, 40) /\ m0 = From(req, 41)
    OBVIOUS
  <1>4. h0 \in Seq(Nat) /\ Len(h0) = 40 /\ \A i \in 1..40 : h0[i] = req[i]
    <2>1. 40 \in Nat /\ 40 <= Len(req)
      BY <1>1
    <2> QED
      BY <1>0, <1>3, <2>1, FrontIs
  <1>5. m0 \in Seq(Nat) /\ Len(m0) = n /\ \A i \in 1..n : m0[i] = req[40 + i]
    <2>1. 40 \in Nat /\ 40 <= Len(req)
      BY <1>1
    <2>2. /\ From(req, 40 + 1) \in Seq(Nat) /\ Len(From(req, 40 + 1)) = Len(req) - 40
          /\ \A i \in 1..(Len(req) - 40) : From(req, 40 + 1)[i] = req[40 + i]
      BY <1>0, <2>1, FromIs
    <2>3. 40 + 1 = 41 /\ Len(req) - 40 = n
      BY <1>1
    <2> QED
      BY <1>3, <2>2, <2>3
  <1>6. PICK sd : Joined(sd, saddr, daddr)
    BY <1>2, SomeJoined
  <1>7. sd \in Seq(Nat) /\ Len(sd) = 32 /\ sd = saddr \o daddr
    BY <1>2, <1>6 DEF Joined
  <1>8. PICK hop, h1, h, w : /\ hop = <<64>> /\ h1 = Put(h0, 9, sd) /\ h = Put(h1, 8, hop)
                             /\ w = Word(n)
    OBVIOUS
  <1>9. hop \in Seq(Nat) /\ Len(hop) = 1 /\ w \in Seq(Nat) /\ Len(w) = 2
    <2>1. w \in Seq(Nat) /\ Len(w) = 2
      BY <1>8, WordType
    <2> QED
      BY <1>8, <2>1
  <1>10. Over(h1, h0, 8, sd)
    <2>1. 8 \in Nat /\ 8 + Len(sd) <= Len(h0) /\ 8 + 1 = 9
      BY <1>4, <1>7
    <2>2. Over(Put(h0, 8 + 1, sd), h0, 8, sd)
      BY <1>4, <1>7, <2>1, PutIs
    <2> QED
      BY <1>8, <2>1, <2>2
  <1>11. h1 \in Seq(Nat) /\ Len(h1) = 40
    BY <1>4, <1>10 DEF Over
  <1>12. Over(h, h1, 7, hop)
    <2>1. 7 \in Nat /\ 7 + Len(hop) <= Len(h1) /\ 7 + 1 = 8
      BY <1>9, <1>11
    <2>2. Over(Put(h1, 7 + 1, hop), h1, 7, hop)
      BY <1>9, <1>11, <2>1, PutIs
    <2> QED
      BY <1>8, <2>1, <2>2
  <1>13. h \in Seq(Nat) /\ Len(h) = 40
    BY <1>11, <1>12 DEF Over
  <1>14. h[1] = 96 /\ h[7] = 58
    <2>1. 1 \in 1..40 /\ 7 \in 1..40 /\ 1 <= 8 /\ 7 <= 8 /\ 1 <= 7 /\ 7 <= 7
      OBVIOUS
    <2>2. h0[1] = 96 /\ h0[7] = 58
      BY <1>4, <2>1 DEF Ping6
    <2>3. h1[1] = h0[1] /\ h1[7] = h0[7]
      BY <1>4, <1>10, <2>1 DEF Over
    <2>4. h[1] = h1[1] /\ h[7] = h1[7]
      BY <1>11, <1>12, <2>1 DEF Over
    <2> QED
      BY <2>2, <2>3, <2>4
  <1>15. Behind(h, 8, saddr) /\ Behind(h, 24, daddr)
    <2>1. Behind(h1, 8, sd)
      BY <1>10 DEF Over
    <2>2. 8 \in Nat /\ 7 \in Nat /\ 8 + Len(sd) <= Len(h1) /\ 8 >= 7 + Len(hop)
      BY <1>7, <1>9, <1>11
    <2>3. Behind(h, 8, sd)
      BY <1>7, <1>9, <1>11, <1>12, <2>1, <2>2, BehindOver
    <2>4. Behind(h, 8, saddr) /\ Behind(h, 8 + Len(saddr), daddr)
      BY <1>6, <2>2, <2>3, BehindBoth
    <2>5. 8 + Len(saddr) = 24
      BY <1>2
    <2> QED
      BY <2>4, <2>5
  <1>16. Behind(h, 4, w)
    <2>1. SubSeq(req, 5, 6) = w
      <3>1. Len(req) - 40 = n
        BY <1>1
      <3> QED
        BY <1>8, <3>1 DEF Ping6
    <2>2. w[1] = req[5] /\ w[2] = req[6]
      <3>1. 5 \in 1..Len(req) /\ 6 \in 1..Len(req)
        BY <1>1
      <3>2. SubSeq(req, 5, 6)[1] = req[5] /\ SubSeq(req, 5, 6)[2] = req[6]
        BY <1>0, <3>1
      <3> QED
        BY <2>1, <3>2
    <2>3. 5 \in 1..40 /\ 6 \in 1..40 /\ 5 <= 8 /\ 6 <= 8 /\ 5 <= 7 /\ 6 <= 7
      OBVIOUS
    <2>4. h0[5] = req[5] /\ h0[6] = req[6]
      BY <1>4, <2>3
    <2>5. h1[5] = h0[5] /\ h1[6] = h0[6]
      BY <1>4, <1>10, <2>3 DEF Over
    <2>6. h[5] = h1[5] /\ h[6] = h1[6]
      BY <1>11, <1>12, <2>3 DEF Over
    <2>7. h[4 + 1] = w[1] /\ h[4 + 2] = w[2]
      BY <2>2, <2>4, <2>5, <2>6
    <2>8. \A i \in 1..Len(w) : i = 1 \/ i = 2
      BY <1>9
    <2> QED
      BY <2>7, <2>8 DEF Behind
  <1>17. PICK m : m = Put(Put(m0, 1, <<129>>), 3, <<0, 0>>) /\ Turned(m, m0)
    <2>1. 4 <= Len(m0) /\ 129 \in Nat
      BY <1>1, <1>5
    <2> QED
      BY <1>5, <2>1, TurnedIs
  <1>18. PICK seg : /\ seg = Summed(TRUE, saddr, daddr, 58, m, 3)
                    /\ Filled(seg, m, 3) /\ SegmentVerifies(TRUE, saddr, daddr, 58, seg)
    <2>1. Blank(m, 3)
      BY <1>17 DEF Turned
    <2> QED
      BY <2>1, ProtosL4, SummedIs
  <1>19. seg \in Seq(Nat) /\ Len(seg) = n /\ Len(m) = n
    <2>1. Len(m) = n
      BY <1>5, <1>17 DEF Turned
    <2> QED
      BY <1>18, <2>1 DEF Filled
  <1>20. PICK pkt : Joined(pkt, h, seg)
    BY <1>13, <1>19, SomeJoined
  <1>21. GoodPacket(TRUE, saddr, daddr, 58, pkt)
    <2>1. Header6(h, Len(seg), 58, saddr, daddr)
      BY <1>8, <1>13, <1>14, <1>15, <1>16, <1>19 DEF Header6
    <2> QED
      BY <1>2, <1>18, <1>19, <1>20, <2>1, ProtosL4, GoodMade6
  <1>22. pkt \in Seq(Nat) /\ Len(pkt) = l
    <2>1. pkt \in Seq(Nat) /\ Len(pkt) = Len(h) + Len(seg)
      BY <1>20, JoinedLen
    <2> QED
      BY <1>1, <1>13, <1>19, <2>1
  <1>23. From(pkt, 44 + 1) = From(req, 44 + 1)
    <2>1. ASSUME NEW i \in 1..l, i > 44 PROVE pkt[i] = req[i]
      <3>1. PICK j : j = i - 40
        OBVIOUS
      <3>2. j \in 1..n /\ j > 4 /\ 40 + j = i /\ j # 3 /\ j # 3 + 1
        BY <1>1, <2>1, <3>1
      <3>3. Behind(pkt, 40, seg)
        BY <1>13, <1>20, JoinedBack
      <3>4. pkt[40 + j] = seg[j]
        BY <1>19, <3>2, <3>3 DEF Behind
      <3>5. seg[j] = m[j]
        BY <1>18, <1>19, <3>2 DEF Filled
      <3>6. m[j] = m0[j]
        BY <1>5, <1>17, <3>2 DEF Turned
      <3> QED
        BY <1>5, <3>2, <3>4, <3>5, <3>6
    <2>2. 44 \in Nat /\ 44 <= Len(pkt) /\ Len(pkt) = Len(req)
      BY <1>1, <1>22
    <2>3. \A i \in 1..Len(pkt) : i > 44 => pkt[i] = req[i]
      BY <1>22, <2>1
    <2> QED
      BY <1>0, <1>22, <2>2, <2>3, TailSame
  <1>24. ASSUME NEW cap \in Int
         PROVE  icmp6_build_echo_reply(req, saddr, daddr, cap) = IF Len(req) > cap THEN NoPacket ELSE pkt
    <2>1. ~(Len(req) < 48) /\ ~(Len(req) > TunMtu)
      BY <1>0 DEF Ping6, TunMtu
    <2>2. pkt = h \o seg
      BY <1>20 DEF Joined
    <2> QED
      BY <1>3, <1>7, <1>8, <1>17, <1>18, <2>1, <2>2, Zenon DEF icmp6_build_echo_reply
  <1>25. 44 + 1 = 45
    OBVIOUS
  <1> QED
    BY <1>1, <1>21, <1>22, <1>23, <1>24, <1>25

\* A neighbour advertisement is good whoever asks (icmp6_build_na).
THEOREM AdvertisementIsGood ==
  ASSUME NEW target, NEW from, Ends(TRUE, target, from)
  PROVE  \E pkt : /\ GoodPacket(TRUE, target, from, 58, pkt) /\ Len(pkt) = 64
                  /\ \A cap \in Int : icmp6_build_na(target, from, cap)
                                        = IF cap < 64 THEN NoPacket ELSE pkt
  <1>1. /\ target \in Seq(Nat) /\ from \in Seq(Nat) /\ Len(target) = 16 /\ Len(from) = 16
    BY DEF Ends, AddressLen
  <1>2. PICK a : a = <<136, 0, 0, 0, 96, 0, 0, 0>>
    OBVIOUS
  <1>3. a \in Seq(Nat) /\ Len(a) = 8 /\ a[3] = 0 /\ a[4] = 0
    BY <1>2
  <1>4. Blank(a, 3)
    <2>1. 3 % 2 = 1 /\ 3 + 1 <= 8
      OBVIOUS
    <2> QED
      BY <1>3, <2>1 DEF Blank
  <1>5. PICK m : Joined(m, a, target)
    BY <1>1, <1>3, SomeJoined
  <1>6. Blank(m, 3) /\ Len(m) = 24
    <2>1. Len(m) = Len(a) + Len(target)
      BY <1>5, JoinedLen
    <2> QED
      BY <1>1, <1>3, <1>4, <1>5, <2>1, BlankJoined
  <1>7. PICK seg : /\ seg = Summed(TRUE, target, from, 58, m, 3)
                   /\ Filled(seg, m, 3) /\ SegmentVerifies(TRUE, target, from, 58, seg)
    BY <1>6, ProtosL4, SummedIs
  <1>8. seg \in Seq(Nat) /\ Len(seg) = 24
    BY <1>6, <1>7 DEF Filled
  <1>9. PICK h : h = Ip6Header(24, 58, 255, target, from) /\ Header6(h, 24, 58, target, from)
    <2>1. 24 \in Nat /\ 255 \in Nat
      OBVIOUS
    <2> QED
      BY <1>1, <2>1, ProtosL4, Header6Is
  <1>10. h \in Seq(Nat) /\ Len(h) = 40
    BY <1>9 DEF Header6
  <1>11. PICK pkt : Joined(pkt, h, seg)
    BY <1>8, <1>10, SomeJoined
  <1>12. GoodPacket(TRUE, target, from, 58, pkt)
    <2>1. Header6(h, Len(seg), 58, target, from)
      BY <1>8, <1>9
    <2> QED
      BY <1>1, <1>7, <1>8, <1>11, <2>1, ProtosL4, GoodMade6
  <1>13. Len(pkt) = 64
    <2>1. Len(pkt) = Len(h) + Len(seg)
      BY <1>11, JoinedLen
    <2> QED
      BY <1>8, <1>10, <2>1
  <1>14. pkt = h \o seg /\ m = a \o target
    BY <1>5, <1>11 DEF Joined
  <1>15. \A cap \in Int : icmp6_build_na(target, from, cap) = IF cap < 64 THEN NoPacket ELSE pkt
    BY <1>2, <1>7, <1>9, <1>14, Zenon DEF icmp6_build_na
  <1> QED
    BY <1>12, <1>13, <1>15

LEMMA SmallRemains ==
  ASSUME NEW t \in Nat, t < WordRange
  PROVE  t % WordRange = t
  BY DEF WordRange

\* The header of a packet put together again says its length and verifies, and
\* the payload follows it (ip4_reasm_rebuild).
THEOREM RebuiltIsGood ==
  ASSUME NEW hdr \in Seq(Nat), NEW payload \in Seq(Nat), 20 <= Len(hdr),
         NEW cap \in Int, Len(hdr) + Len(payload) <= cap
  PROVE  LET r == ip4_reasm_rebuild(hdr, payload, cap) IN
         /\ Len(r) = Len(hdr) + Len(payload)
         /\ Verifies(SubSeq(r, 1, Len(hdr))) /\ SubSeq(r, 3, 4) = Word(Len(r) % WordRange)
         /\ From(r, Len(hdr) + 1) = payload
  <1>1. PICK k \in Nat, n \in Nat : k = Len(hdr) /\ n = Len(hdr) + Len(payload)
    OBVIOUS
  <1>2. PICK t \in Nat : t = n % WordRange
    BY DEF WordRange
  <1>3. PICK w, z : w = Word(t) /\ z = <<0, 0>>
    OBVIOUS
  <1>4. w \in Seq(Nat) /\ Len(w) = 2
    BY <1>3, WordType
  <1>5. z \in Seq(Nat) /\ Len(z) = 2 /\ z[1] = 0 /\ z[2] = 0
    BY <1>3
  <1>6. PICK h1, h2, h3, got : /\ h1 = Put(hdr, 3, w) /\ h2 = Put(h1, 7, z) /\ h3 = Put(h2, 11, z)
                               /\ got = Put(h3, 11, Word(checksum16(h3)))
    OBVIOUS
  <1>7. Over(h1, hdr, 2, w)
    <2>1. 2 \in Nat /\ 2 + Len(w) <= Len(hdr) /\ 2 + 1 = 3
      BY <1>4
    <2>2. Over(Put(hdr, 2 + 1, w), hdr, 2, w)
      BY <1>4, <2>1, PutIs
    <2> QED
      BY <1>6, <2>1, <2>2
  <1>8. h1 \in Seq(Nat) /\ Len(h1) = k
    BY <1>1, <1>7 DEF Over
  <1>9. Over(h2, h1, 6, z)
    <2>1. 6 \in Nat /\ 6 + Len(z) <= Len(h1) /\ 6 + 1 = 7
      BY <1>1, <1>5, <1>8
    <2>2. Over(Put(h1, 6 + 1, z), h1, 6, z)
      BY <1>5, <1>8, <2>1, PutIs
    <2> QED
      BY <1>6, <2>1, <2>2
  <1>10. h2 \in Seq(Nat) /\ Len(h2) = k
    BY <1>8, <1>9 DEF Over
  <1>11. Over(h3, h2, 10, z)
    <2>1. 10 \in Nat /\ 10 + Len(z) <= Len(h2) /\ 10 + 1 = 11
      BY <1>1, <1>5, <1>10
    <2>2. Over(Put(h2, 10 + 1, z), h2, 10, z)
      BY <1>5, <1>10, <2>1, PutIs
    <2> QED
      BY <1>6, <2>1, <2>2
  <1>12. h3 \in Seq(Nat) /\ Len(h3) = k /\ Behind(h3, 10, z)
    BY <1>10, <1>11 DEF Over
  <1>13. Blank(h3, 11)
    <2>1. h3[10 + 1] = z[1] /\ h3[10 + 2] = z[2]
      BY <1>5, <1>12 DEF Behind
    <2>2. 11 % 2 = 1
      OBVIOUS
    <2> QED
      BY <1>1, <1>5, <1>12, <2>1, <2>2 DEF Blank
  <1>14. Filled(got, h3, 11) /\ Verifies(got)
    BY <1>6, <1>13, SelfChecked DEF Checked
  <1>15. got \in Seq(Nat) /\ Len(got) = k
    BY <1>12, <1>14 DEF Filled
  <1>16. Behind(got, 2, w)
    <2>1. /\ 2 \in Nat /\ 6 \in Nat /\ 10 \in Nat /\ 11 \in Nat /\ 2 + Len(w) <= k
          /\ 2 + Len(w) <= 6 /\ 2 + Len(w) <= 10 /\ 2 + Len(w) < 11
      BY <1>1, <1>4
    <2>2. Behind(h1, 2, w)
      BY <1>7 DEF Over
    <2>3. Behind(h2, 2, w)
      <3>1. 2 + Len(w) <= Len(h1)
        BY <1>8, <2>1
      <3> QED
        BY <1>4, <1>5, <1>8, <1>9, <2>1, <2>2, <3>1, BehindOver
    <2>4. Behind(h3, 2, w)
      <3>1. 2 + Len(w) <= Len(h2)
        BY <1>10, <2>1
      <3> QED
        BY <1>4, <1>5, <1>10, <1>11, <2>1, <2>3, <3>1, BehindOver
    <2>5. 2 + Len(w) <= Len(h3)
      BY <1>12, <2>1
    <2> QED
      BY <1>4, <1>12, <1>14, <2>1, <2>4, <2>5, BehindFilled
  <1>17. PICK r : Joined(r, got, payload)
    BY <1>15, SomeJoined
  <1>18. Len(r) = n /\ r = got \o payload
    <2>1. Len(r) = Len(got) + Len(payload)
      BY <1>17, JoinedLen
    <2> QED
      BY <1>1, <1>15, <1>17, <2>1 DEF Joined
  <1>19. SubSeq(r, 1, k) = got /\ From(r, k + 1) = payload
    BY <1>15, <1>17, JoinedFront, JoinedEnd
  <1>20. SubSeq(r, 3, 4) = w
    <2>1. 2 \in Nat /\ 2 + Len(w) <= Len(got) /\ 2 + 1 = 3 /\ 2 + Len(w) = 4
      BY <1>1, <1>4, <1>15
    <2>2. SubSeq(r, 2 + 1, 2 + Len(w)) = w
      BY <1>4, <1>16, <1>17, <2>1, CutJoined
    <2> QED
      BY <2>1, <2>2
  <1>21. ip4_reasm_rebuild(hdr, payload, cap) = r
    <2>1. ~(Len(hdr) < 20) /\ ~(Len(hdr) + Len(payload) > cap)
      OBVIOUS
    <2>2. Word((Len(hdr) + Len(payload)) % WordRange) = w
      BY <1>1, <1>2, <1>3, Zenon
    <2> QED
      BY <1>3, <1>6, <1>18, <2>1, <2>2, Zenon DEF ip4_reasm_rebuild
  <1>22. Word(Len(r) % WordRange) = w
    BY <1>2, <1>3, <1>18, Zenon
  <1> QED
    BY <1>1, <1>14, <1>18, <1>19, <1>20, <1>21, <1>22, Zenon

-----------------------------------------------------------------------------
(* Every packet of every payload a run may hold.                            *)

Room == Len(input) <= MaxInput[subject]

LEMMA RoomKept == WireSpec => []Room
  <1>1. WireInit => Room
    <2> SUFFICES ASSUME WireInit PROVE Room
      OBVIOUS
    <2>1. PICK e : e = <<>>
      OBVIOUS
    <2>2. Len(input) = 0 /\ subject \in DOMAIN Alphabet
      BY <2>1 DEF WireInit
    <2>3. MaxInput[subject] \in Nat
      BY <2>2, WireAssumption
    <2> QED
      BY <2>2, <2>3 DEF Room
  <1>2. WireTypeOK /\ Room /\ [WireNext]_wireVars => Room'
    <2> SUFFICES ASSUME WireTypeOK, Room, [WireNext]_wireVars PROVE Room'
      OBVIOUS
    <2>1. CASE UNCHANGED wireVars
      BY <2>1 DEF Room, wireVars
    <2>2. ASSUME NEW e \in Alphabet[subject], Grow(e) PROVE Room'
      <3>1. /\ input \in Seq(Alphabet[subject]) /\ subject' = subject /\ input' = Append(input, e)
            /\ Len(input) < MaxInput[subject] /\ MaxInput[subject] \in Nat
        BY <2>2, WireAssumption DEF WireTypeOK, Grow
      <3>2. Len(input') = Len(input) + 1 /\ Len(input) \in Nat
        BY <3>1, AppendProperties
      <3> QED
        BY <3>1, <3>2 DEF Room
    <2> QED
      BY <2>1, <2>2 DEF WireNext
  <1> QED
    BY <1>1, <1>2, TypeInvariant, PTL DEF WireSpec

\* A payload of bytes that fits the MTU with any header.
Carried == input \in Seq(Nat) /\ Len(input) <= 4000

LEMMA PayloadCarried ==
  ASSUME WireTypeOK, Room, subject = "payload"
  PROVE  Carried
  <1>1. input \in Seq(Bytes)
    BY DEF WireTypeOK, Alphabet
  <1>2. Bytes \subseteq Nat
    <2>1. \A b \in 0..255 : b \in Nat
      OBVIOUS
    <2> QED
      BY <2>1, WireAssumption
  <1>3. input \in Seq(Nat) /\ Len(input) \in Nat
    <2>1. input \in Seq(Nat)
      BY <1>1, <1>2, SeqMonotonic
    <2> QED
      BY <2>1
  <1>4. MaxInput[subject] \in Nat /\ MaxInput[subject] <= 4000
    <2>1. "payload" \in DOMAIN Alphabet
      BY DEF Alphabet
    <2> QED
      BY <2>1, WireAssumption
  <1> QED
    BY <1>3, <1>4 DEF Carried, Room

LEMMA ZerosIs ==
  ASSUME NEW n \in Nat
  PROVE  Zeros(n) \in Seq(Nat) /\ Len(Zeros(n)) = n
  <1>1. PICK z : z = [i \in 1..n |-> 0]
    OBVIOUS
  <1>2. z \in Seq(Nat) /\ Len(z) = n
    BY <1>1
  <1> QED
    BY <1>1, <1>2 DEF Zeros

LEMMA EndsOfBoth ==
  ASSUME NEW v6 \in BOOLEAN
  PROVE  Ends(v6, Source(v6), Dest(v6))
  <1>1. CASE v6
    <2>1. PICK a, z, t : a = <<253, 0>> /\ z = Zeros(13) /\ t = <<2>>
      OBVIOUS
    <2>2. a \in Seq(Nat) /\ Len(a) = 2 /\ t \in Seq(Nat) /\ Len(t) = 1
      BY <2>1
    <2>3. z \in Seq(Nat) /\ Len(z) = 13
      BY <2>1, ZerosIs
    <2>4. PICK az : Joined(az, a, z)
      BY <2>2, <2>3, SomeJoined
    <2>5. PICK s : Joined(s, az, t)
      BY <2>2, <2>4, SomeJoined, JoinedLen
    <2>6. Source(v6) = s
      BY <1>1, <2>1, <2>4, <2>5 DEF Source, Joined
    <2>7. s \in Seq(Nat) /\ Len(s) = 16
      <3>1. Len(az) = Len(a) + Len(z)
        BY <2>4, JoinedLen
      <3>2. s \in Seq(Nat) /\ Len(s) = Len(az) + Len(t)
        BY <2>5, JoinedLen
      <3> QED
        BY <2>2, <2>3, <3>1, <3>2
    <2>8. PICK d : d = [i \in 1..16 |-> 255]
      OBVIOUS
    <2>9. d \in Seq(Nat) /\ Len(d) = 16 /\ Dest(v6) = d
      BY <1>1, <2>8 DEF Dest
    <2>10. AddressLen(v6) = 16
      BY <1>1 DEF AddressLen
    <2> QED
      BY <2>6, <2>7, <2>9, <2>10 DEF Ends
  <1>2. CASE ~v6
    <2>1. PICK s, d : s = <<10, 8, 0, 2>> /\ d = <<255, 255, 255, 255>>
      OBVIOUS
    <2>2. s \in Seq(Nat) /\ Len(s) = 4 /\ d \in Seq(Nat) /\ Len(d) = 4
      BY <2>1
    <2>3. Source(v6) = s /\ Dest(v6) = d /\ AddressLen(v6) = 4
      BY <1>2, <2>1 DEF Source, Dest, AddressLen
    <2> QED
      BY <2>2, <2>3 DEF Ends
  <1> QED
    BY <1>1, <1>2

LEMMA PaddedIs ==
  ASSUME Carried
  PROVE  Padded(4) \in Seq(Nat) /\ Len(Padded(4)) = 4
  <1>1. input \in Seq(Nat)
    BY DEF Carried
  <1>2. PICK z : z = Zeros(4) /\ z \in Seq(Nat) /\ Len(z) = 4
    BY ZerosIs
  <1>3. PICK s : Joined(s, input, z)
    BY <1>1, <1>2, SomeJoined
  <1>4. s \in Seq(Nat) /\ 4 <= Len(s)
    <2>1. s \in Seq(Nat) /\ Len(s) = Len(input) + Len(z) /\ Len(input) \in Nat
      BY <1>3, JoinedLen
    <2> QED
      BY <1>2, <2>1
  <1>5. SubSeq(s, 1, 4) \in Seq(Nat) /\ Len(SubSeq(s, 1, 4)) = 4
    BY <1>4, FrontIs
  <1> QED
    BY <1>2, <1>3, <1>5 DEF Padded, Joined

LEMMA TcpIsGood ==
  ASSUME Carried, NEW v6 \in BOOLEAN
  PROVE  TcpGood(v6)
  <1>1. PICK n \in Nat, l \in {20, 40} : n = Len(input) /\ n <= 4000 /\ l = HeaderLen(v6)
    BY DEF Carried, HeaderLen
  <1>2. Ends(v6, Source(v6), Dest(v6))
    BY EndsOfBoth
  <1> DEFINE ports == <<1, 187, 156, 64>>
             seq == Padded(4)
             ack == <<255, 255, 255, 255>>
             mss == 1400
             ws == 10
             win == 64
  <1>4. ports \in Seq(Nat) /\ Len(ports) = 4 /\ ack \in Seq(Nat) /\ Len(ack) = 4
    OBVIOUS
  <1>5. seq \in Seq(Nat) /\ Len(seq) = 4
    BY PaddedIs
  <1>6. input \in Seq(Nat) /\ mss \in Nat /\ ws \in Nat /\ win \in Nat
    BY DEF Carried
  <1> HIDE DEF ports, seq, ack, mss, ws, win
  <1>13. Fields(ports, seq, ack, 80, 24, 64) /\ Fields(ports, seq, ack, 128, 18, win)
    BY <1>4, <1>5, <1>6 DEF Fields
  <1>7. PICK pkt : /\ GoodPacket(v6, Source(v6), Dest(v6), 6, pkt)
                   /\ Len(pkt) = HeaderLen(v6) + 20 + Len(input)
                   /\ \A cap \in Int :
                         tcp_build_segment(v6, Source(v6), Dest(v6), ports, seq, ack, 24, input, 64, cap)
                           = IF Len(pkt) > cap \/ Len(pkt) > TunMtu THEN NoPacket ELSE pkt
    BY <1>2, <1>6, <1>13, SegmentIsGood
  <1>8. /\ tcp_build_segment(v6, Source(v6), Dest(v6), ports, seq, ack, 24, input, 64, TunMtu) = pkt
        /\ tcp_build_segment(v6, Source(v6), Dest(v6), ports, seq, ack, 24, input, 64, Len(pkt)) = pkt
        /\ tcp_build_segment(v6, Source(v6), Dest(v6), ports, seq, ack, 24, input, 64, Len(pkt) - 1) = NoPacket
    <2>1. /\ Len(pkt) \in Int /\ TunMtu \in Int /\ Len(pkt) - 1 \in Int
          /\ ~(Len(pkt) > TunMtu) /\ ~(Len(pkt) > Len(pkt)) /\ Len(pkt) > Len(pkt) - 1
      BY <1>1, <1>7 DEF TunMtu
    <2> QED
      BY <1>7, <2>1, Zenon
  <1>9. LET Build(cap) == tcp_build_segment(v6, Source(v6), Dest(v6), <<1, 187, 156, 64>>, Padded(4),
                                           <<255, 255, 255, 255>>, 24, input, 64, cap)
        IN Good(v6, 6, Build)
    BY <1>7, <1>8, ZenonT(40) DEF Good, ports, seq, ack
  <1>10. PICK syn : /\ GoodPacket(v6, Source(v6), Dest(v6), 6, syn) /\ Len(syn) = HeaderLen(v6) + 32
                    /\ ScaleSaid(v6, syn, ws)
                    /\ SynAckBuilt(v6, Source(v6), Dest(v6), ports, seq, ack, win, mss, ws, syn)
    <2>1. Fields(ports, seq, ack, 128, 18, win)
      BY <1>13
    <2>2. mss \in Nat
      BY <1>6
    <2>3. ws \in Nat
      BY <1>6
    <2> QED
      BY <1>2, <2>1, <2>2, <2>3, SynAckIsGood
  <1>11. /\ tcp_build_synack(v6, Source(v6), Dest(v6), ports, seq, ack, win, mss, ws, TunMtu) = syn
         /\ tcp_build_synack(v6, Source(v6), Dest(v6), ports, seq, ack, win, mss, ws, Len(syn)) = syn
         /\ tcp_build_synack(v6, Source(v6), Dest(v6), ports, seq, ack, win, mss, ws, Len(syn) - 1) = NoPacket
    <2>1. /\ Len(syn) \in Int /\ TunMtu \in Int /\ Len(syn) - 1 \in Int
          /\ ~(Len(syn) > TunMtu) /\ ~(Len(syn) > Len(syn)) /\ Len(syn) > Len(syn) - 1
      BY <1>1, <1>10 DEF TunMtu
    <2> QED
      BY <1>10, <2>1, Zenon DEF SynAckBuilt
  <1>12. LET Build(cap) == tcp_build_synack(v6, Source(v6), Dest(v6), <<1, 187, 156, 64>>, Padded(4),
                                           <<255, 255, 255, 255>>, 64, mss, ws, cap)
         IN Good(v6, 6, Build)
    <2>1. GoodPacket(v6, Source(v6), Dest(v6), 6, syn)
      BY <1>10
    <2> QED
      BY <1>11, <2>1, ZenonT(40) DEF Good, ports, seq, ack, win
  <1>14. LET Build(cap) == tcp_build_synack(v6, Source(v6), Dest(v6), <<1, 187, 156, 64>>, Padded(4),
                                           <<255, 255, 255, 255>>, 64, mss, ws, cap)
         IN tcp_parse_window_scale(From(Build(TunMtu), HeaderLen(v6) + 21)) = ws
    <2>1. ScaleSaid(v6, syn, ws)
      BY <1>10
    <2> QED
      BY <1>11, <2>1, ZenonT(40) DEF ScaleSaid, ports, seq, ack, win
  <1> QED
    BY <1>9, <1>12, <1>14, ZenonT(40) DEF TcpGood, mss, ws

LEMMA UdpIsGood ==
  ASSUME Carried, NEW v6 \in BOOLEAN
  PROVE  UdpGood(v6)
  <1>1. PICK n \in Nat, l \in {20, 40} : n = Len(input) /\ n <= 4000 /\ l = HeaderLen(v6)
    BY DEF Carried, HeaderLen
  <1>2. Ends(v6, Source(v6), Dest(v6))
    BY EndsOfBoth
  <1> DEFINE ports == <<0, 53, 156, 64>>
  <1>3. ports \in Seq(Nat) /\ Len(ports) = 4
    OBVIOUS
  <1> HIDE DEF ports
  <1>4. input \in Seq(Nat)
    BY DEF Carried
  <1>5. PICK pkt : /\ GoodPacket(v6, Source(v6), Dest(v6), 17, pkt)
                   /\ Len(pkt) = HeaderLen(v6) + (8 + Len(input))
                   /\ \A cap \in Int :
                         udp_build_packet(v6, Source(v6), Dest(v6), ports, input, cap)
                           = IF Len(pkt) > TunMtu \/ Len(pkt) > cap THEN NoPacket ELSE pkt
    BY <1>2, <1>3, <1>4, DatagramIsGood
  <1>6. /\ udp_build_packet(v6, Source(v6), Dest(v6), ports, input, TunMtu) = pkt
        /\ udp_build_packet(v6, Source(v6), Dest(v6), ports, input, Len(pkt)) = pkt
        /\ udp_build_packet(v6, Source(v6), Dest(v6), ports, input, Len(pkt) - 1) = NoPacket
    <2>1. /\ Len(pkt) \in Int /\ TunMtu \in Int /\ Len(pkt) - 1 \in Int
          /\ ~(Len(pkt) > TunMtu) /\ ~(Len(pkt) > Len(pkt)) /\ Len(pkt) > Len(pkt) - 1
      BY <1>1, <1>5 DEF TunMtu
    <2> QED
      BY <1>5, <2>1, Zenon
  <1> QED
    BY <1>5, <1>6, Zenon DEF UdpGood, Good, ports

LEMMA Echo4Is ==
  ASSUME Carried, NEW words \in 0..2
  PROVE  /\ Echo4(words) \in Seq(Nat) /\ Len(Echo4(words)) = 28 + 4 * words + Len(input)
         /\ Echo4(words)[1] = 69 + words /\ Echo4(words)[10] = 1
  <1>1. input \in Seq(Nat) /\ words \in Nat
    BY DEF Carried
  <1>2. PICK a, w, b, z, c :
           /\ a = <<69 + words, 0>> /\ w = Word(28 + 4 * words + Len(input))
           /\ b = <<0, 0, 0, 0, 9, 1, 0, 0>> /\ z = Zeros(4 * words) /\ c = <<8, 0, 1, 2, 3, 4, 5, 6>>
    OBVIOUS
  <1>3. a \in Seq(Nat) /\ Len(a) = 2 /\ a[1] = 69 + words
    BY <1>1, <1>2
  <1>4. w \in Seq(Nat) /\ Len(w) = 2
    <2>1. 28 + 4 * words + Len(input) \in Nat
      BY <1>1
    <2> QED
      BY <1>2, <2>1, WordType
  <1>5. b \in Seq(Nat) /\ Len(b) = 8 /\ b[6] = 1 /\ c \in Seq(Nat) /\ Len(c) = 8
    BY <1>2
  <1>6. z \in Seq(Nat) /\ Len(z) = 4 * words
    <2>1. 4 * words \in Nat
      BY <1>1
    <2> QED
      BY <1>2, <2>1, ZerosIs
  <1>7. PICK d, s : /\ d = Dest(FALSE) /\ d \in Seq(Nat) /\ Len(d) = 4
                    /\ s = Source(FALSE) /\ s \in Seq(Nat) /\ Len(s) = 4
    <2>1. Ends(FALSE, Source(FALSE), Dest(FALSE))
      BY EndsOfBoth
    <2> QED
      BY <2>1 DEF Ends, AddressLen
  <1>8. PICK e1 : Joined(e1, a, w)
    BY <1>3, <1>4, SomeJoined
  <1>9. PICK e2 : Joined(e2, e1, b)
    BY <1>5, <1>8, SomeJoined, JoinedLen
  <1>10. PICK e3 : Joined(e3, e2, d)
    BY <1>7, <1>9, SomeJoined, JoinedLen
  <1>11. PICK e4 : Joined(e4, e3, s)
    BY <1>7, <1>10, SomeJoined, JoinedLen
  <1>12. PICK e5 : Joined(e5, e4, z)
    BY <1>6, <1>11, SomeJoined, JoinedLen
  <1>13. PICK e6 : Joined(e6, e5, c)
    BY <1>5, <1>12, SomeJoined, JoinedLen
  <1>14. PICK e : Joined(e, e6, input)
    BY <1>1, <1>13, SomeJoined, JoinedLen
  <1>15. Len(e1) = 4 /\ Len(e2) = 12 /\ Len(e3) = 16 /\ Len(e4) = 20
    <2>1. Len(e1) = Len(a) + Len(w)
      BY <1>8, JoinedLen
    <2>2. Len(e2) = Len(e1) + Len(b)
      BY <1>9, JoinedLen
    <2>3. Len(e3) = Len(e2) + Len(d)
      BY <1>10, JoinedLen
    <2>4. Len(e4) = Len(e3) + Len(s)
      BY <1>11, JoinedLen
    <2> QED
      BY <1>3, <1>4, <1>5, <1>7, <2>1, <2>2, <2>3, <2>4
  <1>16. Len(e5) = 20 + 4 * words /\ Len(e6) = 28 + 4 * words /\ e \in Seq(Nat)
         /\ Len(e) = 28 + 4 * words + Len(input)
    <2>1. Len(e5) = Len(e4) + Len(z)
      BY <1>12, JoinedLen
    <2>2. Len(e6) = Len(e5) + Len(c)
      BY <1>13, JoinedLen
    <2>3. e \in Seq(Nat) /\ Len(e) = Len(e6) + Len(input)
      BY <1>14, JoinedLen
    <2> QED
      BY <1>1, <1>5, <1>6, <1>15, <2>1, <2>2, <2>3
  <1>17. e2[1] = 69 + words /\ e2[10] = 1
    <2>1. e1[1] = a[1]
      BY <1>3, <1>8, JoinedFront
    <2>2. e2[1] = e1[1]
      <3>1. \A i \in 1..Len(e1) : e2[i] = e1[i]
        BY <1>9, JoinedFront
      <3> QED
        BY <1>15, <3>1
    <2>3. Behind(e2, 4, b)
      BY <1>9, <1>15, JoinedBack
    <2>4. e2[4 + 6] = b[6]
      BY <1>5, <2>3 DEF Behind
    <2> QED
      BY <1>3, <1>5, <2>1, <2>2, <2>4
  <1>18. \A i \in {1, 10} : e[i] = e2[i]
    <2>1. \A i \in 1..Len(e2) : e3[i] = e2[i]
      BY <1>10, JoinedFront
    <2>2. \A i \in 1..Len(e3) : e4[i] = e3[i]
      BY <1>11, JoinedFront
    <2>3. \A i \in 1..Len(e4) : e5[i] = e4[i]
      BY <1>12, JoinedFront
    <2>4. \A i \in 1..Len(e5) : e6[i] = e5[i]
      BY <1>13, JoinedFront
    <2>5. \A i \in 1..Len(e6) : e[i] = e6[i]
      BY <1>14, JoinedFront
    <2>6. \A i \in {1, 10} : /\ i \in 1..Len(e2) /\ i \in 1..Len(e3) /\ i \in 1..Len(e4)
                             /\ i \in 1..Len(e5) /\ i \in 1..Len(e6)
      BY <1>1, <1>15, <1>16
    <2> QED
      BY <2>1, <2>2, <2>3, <2>4, <2>5, <2>6
  <1>19. Echo4(words) = e
    BY <1>2, <1>7, <1>8, <1>9, <1>10, <1>11, <1>12, <1>13, <1>14 DEF Echo4, Joined
  <1> QED
    BY <1>16, <1>17, <1>18, <1>19

LEMMA Icmp4IsGood ==
  ASSUME Carried, NEW words \in 0..2
  PROVE  Icmp4Good(words) /\ RebuiltGood(words)
  <1>1. PICK n \in Nat, ihl \in Nat : n = Len(input)
                                      /\ n <= 4000 /\ ihl = 20 + 4 * words /\ ihl <= 28 /\ ihl >= 20
    BY DEF Carried
  <1> DEFINE req == Echo4(words)
  <1>2. /\ req \in Seq(Nat) /\ Len(req) = ihl + 8 + n
        /\ req[1] = 69 + words /\ req[10] = 1
    <2>1. ihl + 8 + n = 28 + 4 * words + Len(input)
      BY <1>1
    <2> QED
      BY <2>1, Echo4Is
  <1> HIDE DEF req
  <1>3. req[1] \div 16 = 4 /\ (req[1] % 16) * 4 = ihl
    <2>1. words = 0 \/ words = 1 \/ words = 2
      OBVIOUS
    <2>2. 69 \div 16 = 4 /\ 70 \div 16 = 4 /\ 71 \div 16 = 4 /\ 69 % 16 = 5 /\ 70 % 16 = 6 /\ 71 % 16 = 7
      OBVIOUS
    <2>3. \/ words = 0 /\ req[1] = 69 /\ ihl = 20
          \/ words = 1 /\ req[1] = 70 /\ ihl = 24
          \/ words = 2 /\ req[1] = 71 /\ ihl = 28
      BY <1>1, <1>2, <2>1
    <2> QED
      BY <2>2, <2>3
  <1> DEFINE saddr == Source(FALSE)
             daddr == Dest(FALSE)
  <1>4. Ends(FALSE, saddr, daddr)
    BY EndsOfBoth
  <1> HIDE DEF saddr, daddr
  <1>5. ihl + 8 <= Len(req) /\ Len(req) <= TunMtu /\ TunMtu \in Int /\ Len(req) <= TunMtu
    BY <1>1, <1>2 DEF TunMtu
  <1> DEFINE r == icmp4_build_echo_reply(req, ihl, saddr, daddr, TunMtu)
  <1>7. /\ parse_ipv4(r) = [proto |-> 1, ihl |-> ihl, saddr |-> saddr, daddr |-> daddr]
        /\ Verifies(SubSeq(r, 1, ihl)) /\ Verifies(From(r, ihl + 1))
        /\ From(r, ihl + 5) = From(req, ihl + 5)
    <2>1. Ping4(req, ihl)
      BY <1>1, <1>2, <1>3, <1>5 DEF Ping4
    <2> QED
      BY <1>4, <1>5, <2>1, EchoReply4IsGood
  <1>8. Icmp4Good(words)
    <2> HIDE DEF r
    <2>1. /\ parse_ipv4(r) = [proto |-> 1, ihl |-> 20 + 4 * words, saddr |-> saddr, daddr |-> daddr]
          /\ Verifies(SubSeq(r, 1, 20 + 4 * words)) /\ Verifies(From(r, 20 + 4 * words + 1))
          /\ From(r, 20 + 4 * words + 5) = From(req, 20 + 4 * words + 5)
      BY <1>1, <1>7
    <2>2. r = icmp4_build_echo_reply(req, 20 + 4 * words, saddr, daddr, TunMtu)
      BY <1>1 DEF r
    <2> QED
      BY <2>1, <2>2, Zenon DEF Icmp4Good, req, saddr, daddr
  <1>9. PICK hdr : hdr = SubSeq(req, 1, ihl) /\ hdr \in Seq(Nat) /\ Len(hdr) = ihl
    <2>1. ihl <= Len(req)
      BY <1>1, <1>5
    <2> QED
      BY <1>2, <2>1, FrontIs
  <1>10. PICK b : b = ip4_reasm_rebuild(hdr, input, TunMtu)
    OBVIOUS
  <1>11. /\ Len(b) = ihl + n
         /\ Verifies(SubSeq(b, 1, ihl)) /\ SubSeq(b, 3, 4) = Word(Len(b) % WordRange)
         /\ From(b, ihl + 1) = input
    <2>1. input \in Seq(Nat)
      BY DEF Carried
    <2>2. Len(hdr) + Len(input) <= TunMtu /\ 20 <= Len(hdr)
      BY <1>1, <1>9 DEF TunMtu
    <2>3. /\ Len(b) = Len(hdr) + Len(input)
          /\ Verifies(SubSeq(b, 1, Len(hdr))) /\ SubSeq(b, 3, 4) = Word(Len(b) % WordRange)
          /\ From(b, Len(hdr) + 1) = input
      BY <1>5, <1>9, <1>10, <2>1, <2>2, RebuiltIsGood
    <2> QED
      BY <1>1, <1>9, <2>3
  <1>12. Len(b) % WordRange = Len(b)
    <2>1. Len(b) \in Nat /\ Len(b) < WordRange
      BY <1>1, <1>11 DEF WordRange
    <2> QED
      BY <2>1, SmallRemains
  <1>13. ihl + 1 = 21 + 4 * words
    BY <1>1
  <1>14. b = ip4_reasm_rebuild(SubSeq(Echo4(words), 1, 20 + 4 * words), input, TunMtu)
    BY <1>1, <1>9, <1>10 DEF req
  <1>15. /\ Verifies(SubSeq(b, 1, 20 + 4 * words)) /\ SubSeq(b, 3, 4) = Word(Len(b))
         /\ From(b, 21 + 4 * words) = input
    BY <1>1, <1>11, <1>12, <1>13
  <1>16. RebuiltGood(words)
    BY <1>14, <1>15, Zenon DEF RebuiltGood
  <1> QED
    BY <1>8, <1>16

LEMMA Echo6Is ==
  ASSUME Carried
  PROVE  Ping6(Echo6) /\ Len(Echo6) = 48 + Len(input)
  <1>1. PICK n \in Nat : n = Len(input) /\ n <= 4000
    BY DEF Carried
  <1>2. input \in Seq(Nat)
    BY DEF Carried
  <1>3. PICK s, d : /\ s = Source(TRUE) /\ d = Dest(TRUE)
                    /\ s \in Seq(Nat) /\ d \in Seq(Nat) /\ Len(s) = 16 /\ Len(d) = 16
    <2>1. Ends(TRUE, Source(TRUE), Dest(TRUE))
      BY EndsOfBoth
    <2> QED
      BY <2>1 DEF Ends, AddressLen
  <1>4. PICK h : h = Ip6Header(8 + n, 58, 9, d, s) /\ Header6(h, 8 + n, 58, d, s)
    <2>1. 8 + n \in Nat /\ 58 \in Nat /\ 9 \in Nat
      OBVIOUS
    <2> QED
      BY <1>3, <2>1, Header6Is
  <1>5. h \in Seq(Nat) /\ Len(h) = 40 /\ h[1] = 96 /\ h[7] = 58 /\ Behind(h, 4, Word(8 + n))
    BY <1>4 DEF Header6
  <1>15. PICK c : c = <<128, 0, 1, 2, 3, 4, 5, 6>>
    OBVIOUS
  <1>6. c = <<128, 0, 1, 2, 3, 4, 5, 6>> /\ c \in Seq(Nat) /\ Len(c) = 8
    BY <1>15
  <1>7. PICK e1 : Joined(e1, h, c)
    BY <1>5, <1>6, SomeJoined
  <1>8. PICK e : Joined(e, e1, input)
    BY <1>2, <1>7, SomeJoined, JoinedLen
  <1>9. Len(e1) = 48 /\ e \in Seq(Nat) /\ Len(e) = 48 + n
    <2>1. Len(e1) = Len(h) + Len(c)
      BY <1>7, JoinedLen
    <2>2. e \in Seq(Nat) /\ Len(e) = Len(e1) + Len(input)
      BY <1>8, JoinedLen
    <2> QED
      BY <1>1, <1>5, <1>6, <2>1, <2>2
  <1>10. e[1] = 96 /\ e[7] = 58
    <2>1. \A i \in 1..Len(h) : e1[i] = h[i]
      BY <1>7, JoinedFront
    <2>2. \A i \in 1..Len(e1) : e[i] = e1[i]
      BY <1>8, JoinedFront
    <2>3. 1 \in 1..Len(h) /\ 7 \in 1..Len(h) /\ 1 \in 1..Len(e1) /\ 7 \in 1..Len(e1)
      BY <1>5, <1>9
    <2>4. h[1] = 96 /\ h[7] = 58
      BY <1>5
    <2>5. e1[1] = h[1] /\ e1[7] = h[7]
      BY <2>1, <2>3
    <2>6. e[1] = e1[1] /\ e[7] = e1[7]
      BY <2>2, <2>3
    <2> QED
      BY <2>4, <2>5, <2>6
  <1>11. SubSeq(e, 5, 6) = Word(8 + n)
    <2>1. PICK w : w = Word(8 + n) /\ w \in Seq(Nat) /\ Len(w) = 2
      <3>1. 8 + n \in Nat
        OBVIOUS
      <3> QED
        BY <3>1, WordType
    <2>2. 4 \in Nat /\ 4 + Len(w) <= Len(h) /\ 4 + Len(w) <= Len(e1) /\ 4 + 1 = 5 /\ 4 + Len(w) = 6
      <3>1. Len(w) = 2 /\ Len(h) = 40 /\ Len(e1) = 48
        BY <1>5, <1>9, <2>1
      <3> QED
        BY <3>1
    <2>3. Behind(h, 4, w)
      BY <1>5, <2>1
    <2>4. Behind(e1, 4, w)
      BY <1>7, <2>1, <2>2, <2>3, BehindJoined
    <2>5. SubSeq(e, 4 + 1, 4 + Len(w)) = w
      BY <1>8, <2>1, <2>2, <2>4, CutJoined
    <2> QED
      BY <2>1, <2>2, <2>5
  <1>12. Echo6 = e
    BY <1>1, <1>3, <1>4, <1>6, <1>7, <1>8 DEF Echo6, Joined
  <1>13. 48 <= Len(e) /\ Len(e) <= TunMtu /\ Len(e) - 40 = 8 + n
    BY <1>1, <1>9 DEF TunMtu
  <1>14. Ping6(e)
    BY <1>9, <1>10, <1>11, <1>13, Zenon DEF Ping6
  <1> QED
    BY <1>1, <1>9, <1>12, <1>14

LEMMA Icmp6IsGood ==
  ASSUME Carried
  PROVE  Icmp6Good
  <1> DEFINE s == Source(TRUE)
             d == Dest(TRUE)
             req == Echo6
  <1>1. Ends(TRUE, s, d)
    BY EndsOfBoth
  <1>2. Ping6(req) /\ Len(req) = 48 + Len(input)
    BY Echo6Is
  <1> HIDE DEF s, d, req
  <1>3. Len(input) \in Nat /\ Len(input) <= 4000
    BY DEF Carried
  <1>4. PICK pkt : /\ GoodPacket(TRUE, s, d, 58, pkt)
                   /\ Len(pkt) = Len(req) /\ From(pkt, 45) = From(req, 45)
                   /\ \A cap \in Int : icmp6_build_echo_reply(req, s, d, cap)
                                         = IF Len(req) > cap THEN NoPacket ELSE pkt
    BY <1>1, <1>2, EchoReply6IsGood, Zenon
  <1>5. /\ icmp6_build_echo_reply(req, s, d, TunMtu) = pkt
        /\ icmp6_build_echo_reply(req, s, d, Len(pkt)) = pkt
        /\ icmp6_build_echo_reply(req, s, d, Len(pkt) - 1) = NoPacket
    <2>1. /\ Len(pkt) \in Int /\ TunMtu \in Int /\ Len(pkt) - 1 \in Int
          /\ ~(Len(req) > TunMtu) /\ ~(Len(req) > Len(pkt)) /\ Len(req) > Len(pkt) - 1
      BY <1>2, <1>3, <1>4 DEF TunMtu
    <2> QED
      BY <1>4, <2>1, Zenon
  <1>6. LET Build(cap) == icmp6_build_echo_reply(Echo6, Source(TRUE), Dest(TRUE), cap)
        IN Good(TRUE, 58, Build) /\ From(Build(TunMtu), 45) = From(Echo6, 45)
    BY <1>4, <1>5, Zenon DEF Good, s, d, req
  <1>7. PICK na : /\ GoodPacket(TRUE, s, d, 58, na)
                  /\ \A cap \in Int : icmp6_build_na(s, d, cap) = IF cap < 64 THEN NoPacket ELSE na
    BY <1>1, AdvertisementIsGood
  <1>8. icmp6_build_na(s, d, 64) = na /\ icmp6_build_na(s, d, 63) = NoPacket
    <2>1. 64 \in Int /\ 63 \in Int /\ ~(64 < 64) /\ 63 < 64
      OBVIOUS
    <2> QED
      BY <1>7, <2>1, Zenon
  <1> QED
    BY <1>6, <1>7, <1>8, Zenon DEF Icmp6Good, s, d

\* Whatever a packet carries, its lengths and checksums are those a receiver
\* computes, on every builder and for every payload that fits the MTU.
THEOREM PacketsVerifyHolds == WireSpec => []PacketsVerify
  <1>1. WireTypeOK /\ Room => PacketsVerify
    <2> SUFFICES ASSUME WireTypeOK, Room, subject = "payload"
                 PROVE  /\ \A v6 \in BOOLEAN : TcpGood(v6) /\ UdpGood(v6)
                        /\ \A words \in 0..2 : Icmp4Good(words) /\ RebuiltGood(words)
                        /\ Icmp6Good
      BY Zenon DEF PacketsVerify
    <2>1. Carried
      BY PayloadCarried
    <2> QED
      BY <2>1, TcpIsGood, UdpIsGood, Icmp4IsGood, Icmp6IsGood
  <1> QED
    BY <1>1, TypeInvariant, RoomKept, PTL

-----------------------------------------------------------------------------
(* Chains of extension headers.                                             *)

Plain == {"hop", "dest", "auth"}
Kinds == {"hop", "dest", "auth", "frag"}
Takes == [hop |-> 8, dest |-> 16, auth |-> 12, frag |-> 8]

LEMMA KindFacts ==
  /\ Type["hop"] = 0 /\ Type["dest"] = 60 /\ Type["auth"] = 51 /\ Type["frag"] = 44
  /\ Takes["hop"] = 8 /\ Takes["dest"] = 16 /\ Takes["auth"] = 12 /\ Takes["frag"] = 8
  BY DEF Type, Takes, Auth, Fragment

LEMMA Stuffed ==
  ASSUME NEW b \in Nat, NEW n \in Nat
  PROVE  <<b>> \o Zeros(n) \in Seq(Nat) /\ Len(<<b>> \o Zeros(n)) = n + 1 /\ (<<b>> \o Zeros(n))[1] = b
  <1>1. PICK a, z : a = <<b>> /\ z = Zeros(n)
    OBVIOUS
  <1>2. a \in Seq(Nat) /\ Len(a) = 1 /\ a[1] = b
    BY <1>1
  <1>3. z \in Seq(Nat) /\ Len(z) = n
    BY <1>1, ZerosIs
  <1>4. PICK s : Joined(s, a, z)
    BY <1>2, <1>3, SomeJoined
  <1>5. s \in Seq(Nat) /\ Len(s) = n + 1
    <2>1. s \in Seq(Nat) /\ Len(s) = Len(a) + Len(z)
      BY <1>4, JoinedLen
    <2> QED
      BY <1>2, <1>3, <2>1
  <1>6. s[1] = b
    <2>1. \A i \in 1..Len(a) : s[i] = a[i]
      BY <1>4, JoinedFront
    <2> QED
      BY <1>2, <2>1
  <1>7. s = <<b>> \o Zeros(n)
    BY <1>1, <1>4 DEF Joined
  <1> QED
    BY <1>5, <1>6, <1>7

LEMMA BodyIs ==
  ASSUME NEW k \in Kinds
  PROVE  /\ Body[k] \in Seq(Nat) /\ Len(Body[k]) + 1 = Takes[k]
         /\ Takes[k] \in Nat /\ Takes[k] >= 8 /\ Takes[k] <= 16
         /\ k \in Plain => Body[k][1] = IF k = "hop" THEN 0 ELSE 1
  <1>1. CASE k = "hop"
    <2>1. Body[k] = <<0>> \o Zeros(6) /\ Takes[k] = 8
      BY <1>1 DEF Body, Takes
    <2>2. <<0>> \o Zeros(6) \in Seq(Nat) /\ Len(<<0>> \o Zeros(6)) = 6 + 1 /\ (<<0>> \o Zeros(6))[1] = 0
      <3>1. 0 \in Nat /\ 6 \in Nat
        OBVIOUS
      <3> QED
        BY <3>1, Stuffed
    <2>3. Body[k] \in Seq(Nat) /\ Len(Body[k]) = 7 /\ Body[k][1] = 0
      BY <2>1, <2>2
    <2> QED
      BY <1>1, <2>1, <2>3
  <1>2. CASE k = "dest"
    <2>1. Body[k] = <<1>> \o Zeros(14) /\ Takes[k] = 16
      BY <1>2 DEF Body, Takes
    <2>2. <<1>> \o Zeros(14) \in Seq(Nat) /\ Len(<<1>> \o Zeros(14)) = 14 + 1 /\ (<<1>> \o Zeros(14))[1] = 1
      <3>1. 1 \in Nat /\ 14 \in Nat
        OBVIOUS
      <3> QED
        BY <3>1, Stuffed
    <2>3. Body[k] \in Seq(Nat) /\ Len(Body[k]) = 15 /\ Body[k][1] = 1
      BY <2>1, <2>2
    <2> QED
      BY <1>2, <2>1, <2>3
  <1>3. CASE k = "auth"
    <2>1. Body[k] = <<1>> \o Zeros(10) /\ Takes[k] = 12
      BY <1>3 DEF Body, Takes
    <2>2. <<1>> \o Zeros(10) \in Seq(Nat) /\ Len(<<1>> \o Zeros(10)) = 10 + 1 /\ (<<1>> \o Zeros(10))[1] = 1
      <3>1. 1 \in Nat /\ 10 \in Nat
        OBVIOUS
      <3> QED
        BY <3>1, Stuffed
    <2>3. Body[k] \in Seq(Nat) /\ Len(Body[k]) = 11 /\ Body[k][1] = 1
      BY <2>1, <2>2
    <2> QED
      BY <1>3, <2>1, <2>3
  <1>4. CASE k = "frag"
    <2>1. PICK f : f = <<0, 0, 1, 9, 9, 9, 9>>
      OBVIOUS
    <2>2. f \in Seq(Nat) /\ Len(f) = 7
      BY <2>1
    <2>3. Body[k] = f /\ Takes[k] = 8
      BY <1>4, <2>1 DEF Body, Takes
    <2>4. k \notin Plain
      BY <1>4 DEF Plain
    <2>5. Body[k] \in Seq(Nat) /\ Len(Body[k]) = 7
      BY <2>2, <2>3, Zenon
    <2>6. Takes[k] \in Nat /\ Takes[k] >= 8 /\ Takes[k] <= 16
      BY <2>3
    <2> QED
      BY <2>3, <2>4, <2>5, <2>6
  <1> QED
    BY <1>1, <1>2, <1>3, <1>4 DEF Kinds

\* Where the headers of a packet that may be cut off stand; at[i] is the end of
\* the i-th.
LaidOut(pkt, kinds, at) ==
    /\ kinds \in Seq(Kinds) /\ at \in [0..Len(kinds) -> Nat] /\ at[0] = 40
    /\ \A i \in 1..Len(kinds) : at[i] = at[i - 1] + Takes[kinds[i]]
    /\ IsV6(pkt) /\ Len(pkt) \in Nat /\ At(pkt, 6) = TypeAt(kinds, 1)
    /\ \A i \in 1..Len(kinds) :
          at[i - 1] + 8 <= Len(pkt) => /\ At(pkt, at[i - 1]) = TypeAt(kinds, i + 1)
                                       /\ At(pkt, at[i - 1] + 1) = Body[kinds[i]][1]

\* Behind the k-th header.
Where(kinds, at, k) ==
    [nh |-> TypeAt(kinds, k + 1), off |-> at[k], prev |-> IF k = 0 THEN 6 ELSE at[k - 1]]

LEMMA LenRead ==
  ASSUME NEW pkt, NEW off, NEW k \in Plain, At(pkt, off + 1) = Body[k][1]
  PROVE  ExtLen(pkt, Type[k], off) = Takes[k]
  <1>1. k \in Kinds
    BY DEF Plain, Kinds
  <1>2. At(pkt, off + 1) = IF k = "hop" THEN 0 ELSE 1
    BY <1>1, BodyIs
  <1>3. Auth = 51 /\ 0 # 51 /\ 60 # 51 /\ (0 + 1) * 8 = 8 /\ (1 + 1) * 8 = 16 /\ (1 + 2) * 4 = 12
    BY DEF Auth
  <1> QED
    BY <1>2, <1>3, KindFacts DEF ExtLen, Plain

\* One header more, if the packet holds it.
LEMMA OneOn ==
  ASSUME NEW pkt, NEW kinds, NEW at, LaidOut(pkt, kinds, at), NEW i \in 1..Len(kinds), kinds[i] \in Plain
  PROVE  LET nh == TypeAt(kinds, i) IN
         /\ Passable(pkt, nh, at[i - 1]) <=> at[i] <= Len(pkt)
         /\ at[i] <= Len(pkt) =>
              [nh |-> At(pkt, at[i - 1]), off |-> at[i - 1] + ExtLen(pkt, nh, at[i - 1]), prev |-> at[i - 1]]
                = Where(kinds, at, i)
  <1>1. PICK k : k = kinds[i] /\ k \in Plain /\ k \in Kinds
    BY DEF Plain, Kinds
  <1>2. PICK a, e, l : a = at[i - 1] /\ e = at[i] /\ l = Len(pkt)
    OBVIOUS
  <1>3. a \in Nat /\ e \in Nat /\ l \in Nat /\ e = a + Takes[k] /\ Takes[k] \in Nat /\ Takes[k] >= 8
    <2>1. /\ kinds \in Seq(Kinds) /\ at \in [0..Len(kinds) -> Nat] /\ Len(pkt) \in Nat
          /\ at[i] = at[i - 1] + Takes[kinds[i]]
      BY DEF LaidOut
    <2>2. i \in 0..Len(kinds) /\ i - 1 \in 0..Len(kinds)
      BY <2>1
    <2> QED
      BY <1>1, <1>2, <2>1, <2>2, BodyIs
  <1>4. TypeAt(kinds, i) = Type[k]
    <2>1. i <= Len(kinds)
      BY DEF LaidOut
    <2> QED
      BY <1>1, <2>1 DEF TypeAt
  <1>5. Type[k] \in Options \cup {Auth}
    BY <1>1, KindFacts DEF Plain, Options, Auth
  <1>6. ASSUME a + 8 <= l
        PROVE  ExtLen(pkt, Type[k], a) = Takes[k] /\ At(pkt, a) = TypeAt(kinds, i + 1)
    <2>1. At(pkt, a) = TypeAt(kinds, i + 1) /\ At(pkt, a + 1) = Body[k][1]
      BY <1>1, <1>2, <1>6 DEF LaidOut
    <2> QED
      BY <1>1, <2>1, LenRead
  <1>7. Passable(pkt, Type[k], a) <=> e <= l
    <2>1. CASE a + 8 <= l
      <3>1. ExtLen(pkt, Type[k], a) = Takes[k]
        BY <1>6, <2>1
      <3>2. Takes[k] >= 8 /\ (a + Takes[k] <= l <=> e <= l)
        BY <1>3
      <3> QED
        BY <1>2, <1>5, <2>1, <3>1, <3>2 DEF Passable
    <2>2. CASE ~(a + 8 <= l)
      <3>1. ~(e <= l)
        BY <1>3, <2>2
      <3> QED
        BY <1>2, <2>2, <3>1 DEF Passable
    <2> QED
      BY <2>1, <2>2
  <1>8. ASSUME e <= l
        PROVE  [nh |-> At(pkt, a), off |-> a + ExtLen(pkt, Type[k], a), prev |-> a] = Where(kinds, at, i)
    <2>1. a + 8 <= l
      BY <1>3, <1>8
    <2>2. ExtLen(pkt, Type[k], a) = Takes[k] /\ At(pkt, a) = TypeAt(kinds, i + 1)
      BY <1>6, <2>1
    <2>3. i # 0
      BY DEF LaidOut
    <2> QED
      BY <1>2, <1>3, <2>2, <2>3 DEF Where
  <1> QED
    BY <1>2, <1>4, <1>7, <1>8

Stops == {L4, L4 \cup {Fragment}}

LEMMA StopFacts ==
  ASSUME NEW stop \in Stops
  PROVE  /\ \A k \in Plain : Type[k] \notin stop
         /\ 17 \in stop
  BY KindFacts DEF Stops, L4, Fragment, Plain

\* A step of the walk.
Goes(v, w, pkt, stop) ==
    v = IF w = Fail \/ w.nh \in stop THEN w
        ELSE IF ~Passable(pkt, w.nh, w.off) THEN Fail
        ELSE [nh |-> At(pkt, w.off), off |-> w.off + ExtLen(pkt, w.nh, w.off), prev |-> w.off]

LEMMA WalkGoes ==
  ASSUME NEW walk, NEW pkt, NEW stop, Walks(walk, pkt, stop)
  PROVE  \A h \in 1..7 : Goes(walk[h], walk[h - 1], pkt, stop)
  <1>1. MaxHops - 1 = 7
    BY DEF MaxHops
  <1>2. \A h \in 1..(MaxHops - 1) : Goes(walk[h], walk[h - 1], pkt, stop)
    BY Zenon DEF Walks, Goes
  <1> QED
    BY <1>1, <1>2

\* Once it has ended, well or badly, it stays where it is.
LEMMA WalkStays ==
  ASSUME NEW walk, NEW pkt, NEW stop, Walks(walk, pkt, stop), NEW k \in 0..7,
         walk[k] = Fail \/ walk[k].nh \in stop
  PROVE  walk[7] = walk[k]
  <1> DEFINE S == {h \in 0..7 : h >= k => walk[h] = walk[k]}
  <1>1. 0 \in S
    OBVIOUS
  <1>2. ASSUME NEW h \in 1..7, h - 1 \in S PROVE h \in S
    <2>1. CASE h <= k
      BY <2>1
    <2>2. CASE h > k
      <3>1. h - 1 >= k /\ h \in 0..7
        BY <2>2
      <3>2. walk[h - 1] = walk[k]
        BY <1>2, <3>1
      <3>3. Goes(walk[h], walk[h - 1], pkt, stop)
        BY WalkGoes
      <3>4. walk[h] = walk[h - 1]
        BY <3>2, <3>3, Zenon DEF Goes
      <3> QED
        BY <3>1, <3>2, <3>4
    <2> QED
      BY <2>1, <2>2
  <1>3. \A h \in S : h >= k => walk[h] = walk[k]
    OBVIOUS
  <1> HIDE DEF S
  <1>4. \A h \in 0..7 : h \in S
    BY <1>1, <1>2, UpTo
  <1>5. 7 \in S /\ 7 >= k
    BY <1>4
  <1> QED
    BY <1>3, <1>5

\* The walk has come behind the k-th header.
LEMMA WalkComes ==
  ASSUME NEW pkt, NEW kinds, NEW at, LaidOut(pkt, kinds, at), NEW stop \in Stops,
         NEW walk, Walks(walk, pkt, stop), NEW k \in 0..7, k <= Len(kinds),
         \A j \in 1..k : kinds[j] \in Plain /\ at[j] <= Len(pkt)
  PROVE  walk[k] = Where(kinds, at, k)
  <1> DEFINE S == {h \in 0..7 : h <= k => walk[h] = Where(kinds, at, h)}
  <1>1. 0 \in S
    <2>1. walk[0] = [nh |-> At(pkt, 6), off |-> 40, prev |-> 6]
      BY DEF Walks
    <2>2. At(pkt, 6) = TypeAt(kinds, 1) /\ at[0] = 40 /\ 0 + 1 = 1
      BY DEF LaidOut
    <2>3. walk[0] = Where(kinds, at, 0)
      BY <2>1, <2>2 DEF Where
    <2> QED
      BY <2>3
  <1>2. ASSUME NEW h \in 1..7, h - 1 \in S PROVE h \in S
    <2>1. CASE ~(h <= k)
      BY <2>1
    <2>2. CASE h <= k
      <3>1. /\ h \in 0..7 /\ h \in 1..k /\ h - 1 <= k /\ h - 1 + 1 = h /\ h \in Nat
        BY <2>2
      <3>2. h \in 1..Len(kinds)
        BY <3>1 DEF LaidOut
      <3>3. PICK w : w = walk[h - 1] /\ w = Where(kinds, at, h - 1)
        BY <1>2, <3>1
      <3>4. w.nh = TypeAt(kinds, h) /\ w.off = at[h - 1] /\ w # Fail
        <4>1. w.nh = TypeAt(kinds, (h - 1) + 1) /\ w.off = at[h - 1]
          BY <3>3 DEF Where
        <4>2. (h - 1) + 1 = h
          BY <3>1
        <4>3. w # Fail
          BY <3>3, FailApart DEF Where
        <4> QED
          BY <4>1, <4>2, <4>3
      <3>5. w.nh \notin stop
        <4>1. TypeAt(kinds, h) = Type[kinds[h]] /\ kinds[h] \in Plain
          <5>1. h <= Len(kinds)
            BY <3>2 DEF LaidOut
          <5> QED
            BY <3>1, <5>1 DEF TypeAt
        <4> QED
          BY <3>4, <4>1, StopFacts
      <3>6. /\ Passable(pkt, TypeAt(kinds, h), at[h - 1])
            /\ [nh |-> At(pkt, at[h - 1]), off |-> at[h - 1] + ExtLen(pkt, TypeAt(kinds, h), at[h - 1]),
                prev |-> at[h - 1]] = Where(kinds, at, h)
        <4>1. kinds[h] \in Plain /\ at[h] <= Len(pkt)
          BY <3>1
        <4> QED
          BY <3>2, <4>1, OneOn
      <3>7. Goes(walk[h], w, pkt, stop)
        BY <3>3, WalkGoes
      <3>8. walk[h] = [nh |-> At(pkt, w.off), off |-> w.off + ExtLen(pkt, w.nh, w.off), prev |-> w.off]
        BY <3>4, <3>5, <3>6, <3>7, Zenon DEF Goes
      <3>9. walk[h] = Where(kinds, at, h)
        BY <3>4, <3>6, <3>8, Zenon
      <3> QED
        BY <3>1, <3>9
    <2> QED
      BY <2>1, <2>2
  <1>3. \A h \in S : h <= k => walk[h] = Where(kinds, at, h)
    OBVIOUS
  <1> HIDE DEF S
  <1>4. \A h \in 0..7 : h \in S
    BY <1>1, <1>2, UpTo
  <1>5. k \in S /\ k <= k
    BY <1>4
  <1> QED
    BY <1>3, <1>5

\* A walk that comes to a header it looks for returns where it stands, ...
LEMMA WalkFinds ==
  ASSUME NEW pkt, NEW kinds, NEW at, LaidOut(pkt, kinds, at), NEW stop \in Stops,
         NEW k \in 0..7, k <= Len(kinds),
         \A j \in 1..k : kinds[j] \in Plain /\ at[j] <= Len(pkt), TypeAt(kinds, k + 1) \in stop
  PROVE  Walk(pkt, stop) = Where(kinds, at, k)
  <1>1. PICK walk : Walks(walk, pkt, stop) /\ Walk(pkt, stop) = Outcome(pkt, stop, walk[MaxHops - 1])
    BY WalkIs
  <1>2. PICK w : w = walk[k] /\ w = Where(kinds, at, k)
    BY <1>1, WalkComes
  <1>3. w.nh \in stop /\ w # Fail
    <2>1. w.nh = TypeAt(kinds, k + 1)
      BY <1>2 DEF Where
    <2>2. w # Fail
      BY <1>2, FailApart DEF Where
    <2> QED
      BY <2>1, <2>2
  <1>4. walk[7] = w
    BY <1>1, <1>2, <1>3, WalkStays
  <1>5. IsV6(pkt) /\ MaxHops - 1 = 7
    BY DEF LaidOut, MaxHops
  <1> QED
    BY <1>1, <1>2, <1>3, <1>4, <1>5, Zenon DEF Outcome

\* ... one that comes to a header that is cut off fails, ...
LEMMA WalkBreaks ==
  ASSUME NEW pkt, NEW kinds, NEW at, LaidOut(pkt, kinds, at), NEW stop \in Stops,
         NEW k \in 1..7, k <= Len(kinds),
         \A j \in 1..k : kinds[j] \in Plain, \A j \in 1..(k - 1) : at[j] <= Len(pkt), at[k] > Len(pkt)
  PROVE  Walk(pkt, stop) = Fail
  <1>1. PICK walk : Walks(walk, pkt, stop) /\ Walk(pkt, stop) = Outcome(pkt, stop, walk[MaxHops - 1])
    BY WalkIs
  <1>2. PICK w : w = walk[k - 1] /\ w = Where(kinds, at, k - 1)
    <2>1. k - 1 \in 0..7 /\ k - 1 <= Len(kinds) /\ \A j \in 1..(k - 1) : j \in 1..k
      BY DEF LaidOut
    <2>2. \A j \in 1..(k - 1) : kinds[j] \in Plain /\ at[j] <= Len(pkt)
      BY <2>1
    <2>3. walk[k - 1] = Where(kinds, at, k - 1)
      BY <1>1, <2>1, <2>2, WalkComes
    <2> QED
      BY <2>3
  <1>3. k \in 1..Len(kinds) /\ k \in 1..k /\ (k - 1) + 1 = k
    BY DEF LaidOut
  <1>4. w.nh = TypeAt(kinds, k) /\ w.off = at[k - 1] /\ w # Fail
    <2>1. w.nh = TypeAt(kinds, (k - 1) + 1) /\ w.off = at[k - 1]
      BY <1>2 DEF Where
    <2>2. w # Fail
      BY <1>2, FailApart DEF Where
    <2> QED
      BY <1>3, <2>1, <2>2
  <1>5. w.nh \notin stop
    <2>1. TypeAt(kinds, k) = Type[kinds[k]] /\ kinds[k] \in Plain
      BY <1>3 DEF TypeAt
    <2> QED
      BY <1>4, <2>1, StopFacts
  <1>6. ~Passable(pkt, TypeAt(kinds, k), at[k - 1])
    <2>1. ~(at[k] <= Len(pkt))
      <3>1. at \in [0..Len(kinds) -> Nat] /\ Len(pkt) \in Nat /\ k \in 0..Len(kinds)
        BY <1>3 DEF LaidOut
      <3> QED
        BY <3>1
    <2> QED
      BY <1>3, <2>1, OneOn
  <1>7. Goes(walk[k], w, pkt, stop)
    BY <1>1, <1>2, WalkGoes
  <1>8. walk[k] = Fail
    BY <1>4, <1>5, <1>6, <1>7, Zenon DEF Goes
  <1>9. walk[7] = Fail
    <2>1. k \in 0..7
      OBVIOUS
    <2> QED
      BY <1>1, <1>8, <2>1, WalkStays
  <1>10. MaxHops - 1 = 7
    BY DEF MaxHops
  <1> QED
    BY <1>1, <1>9, <1>10, Zenon DEF Outcome

\* ... and so does one that has gone past as many as it may.
LEMMA WalkTires ==
  ASSUME NEW pkt, NEW kinds, NEW at, LaidOut(pkt, kinds, at), NEW stop \in Stops,
         8 <= Len(kinds), \A j \in 1..8 : kinds[j] \in Plain,
         \A j \in 1..7 : at[j] <= Len(pkt)
  PROVE  Walk(pkt, stop) = Fail
  <1>1. PICK walk : Walks(walk, pkt, stop) /\ Walk(pkt, stop) = Outcome(pkt, stop, walk[MaxHops - 1])
    BY WalkIs
  <1>2. PICK w : w = walk[7] /\ w = Where(kinds, at, 7)
    <2>1. 7 \in 0..7 /\ 7 <= Len(kinds) /\ \A j \in 1..7 : j \in 1..8
      BY DEF LaidOut
    <2>2. walk[7] = Where(kinds, at, 7)
      BY <1>1, <2>1, WalkComes
    <2> QED
      BY <2>2
  <1>3. w.nh \notin stop
    <2>1. w.nh = TypeAt(kinds, 7 + 1)
      BY <1>2 DEF Where
    <2>2. TypeAt(kinds, 8) = Type[kinds[8]] /\ kinds[8] \in Plain /\ 7 + 1 = 8
      BY DEF TypeAt
    <2> QED
      BY <2>1, <2>2, StopFacts
  <1>4. MaxHops - 1 = 7
    BY DEF MaxHops
  <1> QED
    BY <1>1, <1>2, <1>3, <1>4, Zenon DEF Outcome

-----------------------------------------------------------------------------
(* A packet with a chain, as it is laid out.                                *)

Eight == <<1, 2, 3, 4, 5, 6, 7, 8>>
HeaderParts(kinds) == [i \in DOMAIN kinds |-> <<TypeAt(kinds, i + 1)>> \o Body[kinds[i]]]

\* A header of kind k with t as the type of what follows it.
PartIs(s, t, k) ==
    s \in Seq(Nat) /\ s = <<t>> \o Body[k] /\ Len(s) = Takes[k] /\ s[1] = t /\ s[2] = Body[k][1]

LEMMA OnePart ==
  ASSUME NEW t \in Nat, NEW k \in Kinds
  PROVE  PartIs(<<t>> \o Body[k], t, k)
  <1>1. PICK a, b : a = <<t>> /\ b = Body[k]
    OBVIOUS
  <1>2. a \in Seq(Nat) /\ Len(a) = 1 /\ a[1] = t
    BY <1>1
  <1>3. b \in Seq(Nat) /\ Len(b) + 1 = Takes[k] /\ Takes[k] \in Nat /\ Takes[k] >= 8
    BY <1>1, BodyIs
  <1>4. PICK s : Joined(s, a, b)
    BY <1>2, <1>3, SomeJoined
  <1>5. s \in Seq(Nat) /\ Len(s) = Takes[k]
    <2>1. s \in Seq(Nat) /\ Len(s) = Len(a) + Len(b) /\ Len(b) \in Nat
      BY <1>4, JoinedLen
    <2> QED
      BY <1>2, <1>3, <2>1
  <1>6. s[1] = t
    <2>1. \A i \in 1..Len(a) : s[i] = a[i]
      BY <1>4, JoinedFront
    <2> QED
      BY <1>2, <2>1
  <1>7. s[2] = b[1]
    <2>1. Behind(s, Len(a), b)
      BY <1>4, JoinedBack
    <2>2. 1 \in 1..Len(b) /\ 1 + 1 = 2
      BY <1>3
    <2> QED
      BY <1>2, <2>1, <2>2 DEF Behind
  <1>8. s = <<t>> \o Body[k]
    BY <1>1, <1>4 DEF Joined
  <1> QED
    BY <1>1, <1>5, <1>6, <1>7, <1>8 DEF PartIs

LEMMA TypeAtNat ==
  ASSUME NEW kinds \in Seq(Kinds), NEW i \in Nat, i >= 1
  PROVE  TypeAt(kinds, i) \in Nat
  <1>1. \A k \in Kinds : Type[k] \in Nat
    BY KindFacts DEF Kinds
  <1>2. CASE i <= Len(kinds)
    <2>1. kinds[i] \in Kinds
      BY <1>2
    <2> QED
      BY <1>1, <1>2, <2>1 DEF TypeAt
  <1>3. CASE ~(i <= Len(kinds))
    BY <1>3 DEF TypeAt
  <1> QED
    BY <1>2, <1>3

LEMMA PartsAre ==
  ASSUME NEW kinds \in Seq(Kinds)
  PROVE  /\ HeaderParts(kinds) \in Seq(Seq(Nat)) /\ Len(HeaderParts(kinds)) = Len(kinds)
         /\ \A i \in 1..Len(kinds) : PartIs(HeaderParts(kinds)[i], TypeAt(kinds, i + 1), kinds[i])
  <1>1. PICK n \in Nat : n = Len(kinds) /\ DOMAIN kinds = 1..n
    OBVIOUS
  <1>2. \A i \in 1..n : HeaderParts(kinds)[i] = <<TypeAt(kinds, i + 1)>> \o Body[kinds[i]]
    BY <1>1 DEF HeaderParts
  <1>3. \A i \in 1..n : kinds[i] \in Kinds /\ i + 1 \in Nat /\ i + 1 >= 1
    BY <1>1
  <1>4. \A i \in 1..n : PartIs(HeaderParts(kinds)[i], TypeAt(kinds, i + 1), kinds[i])
    <2>1. ASSUME NEW i \in 1..n
          PROVE  PartIs(<<TypeAt(kinds, i + 1)>> \o Body[kinds[i]], TypeAt(kinds, i + 1), kinds[i])
      <3>1. TypeAt(kinds, i + 1) \in Nat /\ kinds[i] \in Kinds
        BY <1>3, TypeAtNat
      <3> QED
        BY <3>1, OnePart
    <2> QED
      BY <1>2, <2>1
  <1>5. HeaderParts(kinds) \in [1..n -> Seq(Nat)]
    <2>1. \A i \in 1..n : (<<TypeAt(kinds, i + 1)>> \o Body[kinds[i]]) \in Seq(Nat)
      BY <1>2, <1>4 DEF PartIs
    <2> QED
      BY <1>1, <2>1 DEF HeaderParts
  <1>6. HeaderParts(kinds) \in Seq(Seq(Nat)) /\ Len(HeaderParts(kinds)) = n
    BY <1>5
  <1> QED
    BY <1>1, <1>4, <1>6

\* whole is a packet with these headers: h, their concatenation g[n], and eight
\* bytes behind it.
Holds(whole, kinds, g, h, rest) ==
    /\ kinds \in Seq(Kinds) /\ g \in [0..Len(kinds) -> Seq(Nat)] /\ Sums(g, HeaderParts(kinds))
    /\ Joined(rest, g[Len(kinds)], Eight) /\ Joined(whole, h, rest)
    /\ h = Ip6Header(Len(rest), TypeAt(kinds, 1), 64, Zeros(16), Zeros(16))

LEMMA EightIs == Eight \in Seq(Nat) /\ Len(Eight) = 8
  BY DEF Eight

LEMMA HeadIs ==
  ASSUME NEW n \in Nat, NEW t \in Nat
  PROVE  Header6(Ip6Header(n, t, 64, Zeros(16), Zeros(16)), n, t, Zeros(16), Zeros(16))
  <1>1. PICK z : z = Zeros(16)
    OBVIOUS
  <1>2. z \in Seq(Nat) /\ Len(z) = 16
    <2>1. 16 \in Nat
      OBVIOUS
    <2> QED
      BY <1>1, <2>1, ZerosIs
  <1>3. 64 \in Nat
    OBVIOUS
  <1> QED
    BY <1>1, <1>2, <1>3, Header6Is

LEMMA ChainedHolds ==
  ASSUME NEW kinds \in Seq(Kinds)
  PROVE  \E g, h, rest : Holds(Chained(kinds), kinds, g, h, rest) /\ Chain(kinds) = g[Len(kinds)]
  <1>1. PICK g \in [0..Len(HeaderParts(kinds)) -> Seq(Nat)] : Sums(g, HeaderParts(kinds))
    BY PartsAre, SumsExist
  <1>2. Chain(kinds) = g[Len(kinds)]
    <2>1. FlattenSeq(HeaderParts(kinds)) = g[Len(kinds)]
      BY <1>1, PartsAre, FlattenIsSum
    <2> QED
      BY <2>1, Zenon DEF Chain, HeaderParts
  <1>3. g \in [0..Len(kinds) -> Seq(Nat)]
    BY <1>1, PartsAre, Zenon
  <1>4. g[Len(kinds)] \in Seq(Nat)
    BY <1>3
  <1>5. PICK rest : Joined(rest, g[Len(kinds)], Eight)
    BY <1>4, EightIs, SomeJoined
  <1>6. rest \in Seq(Nat) /\ Len(rest) \in Nat /\ TypeAt(kinds, 1) \in Nat
    <2>1. rest \in Seq(Nat) /\ Len(rest) \in Nat
      BY <1>5, JoinedLen
    <2>2. 1 \in Nat /\ 1 >= 1
      OBVIOUS
    <2> QED
      BY <2>1, <2>2, TypeAtNat
  <1>7. PICK h : h = Ip6Header(Len(rest), TypeAt(kinds, 1), 64, Zeros(16), Zeros(16))
    OBVIOUS
  <1>8. h \in Seq(Nat)
    BY <1>6, <1>7, HeadIs DEF Header6
  <1>9. PICK whole : Joined(whole, h, rest)
    BY <1>6, <1>8, SomeJoined
  <1>10. Chained(kinds) = whole
    <2>1. rest = Chain(kinds) \o <<1, 2, 3, 4, 5, 6, 7, 8>> /\ whole = h \o rest
      BY <1>2, <1>5, <1>9 DEF Joined, Eight
    <2> QED
      BY <1>7, <2>1, Zenon DEF Chained
  <1>11. Holds(whole, kinds, g, h, rest)
    BY <1>1, <1>3, <1>5, <1>7, <1>9 DEF Holds
  <1> QED
    BY <1>2, <1>10, <1>11

LEMMA BehindLater ==
  ASSUME NEW s, NEW a, NEW b, Joined(s, a, b), NEW n \in Nat, NEW p \in Seq(Nat),
         n + Len(p) <= Len(b), Behind(b, n, p)
  PROVE  Behind(s, Len(a) + n, p)
  <1>1. PICK k \in Nat, m \in Nat, l \in Nat : k = Len(a) /\ m = Len(b) /\ l = Len(p)
    BY JoinedLen
  <1>2. \A i \in 1..m : s[k + i] = b[i]
    <2>1. Behind(s, Len(a), b)
      BY JoinedBack
    <2> QED
      BY <1>1, <2>1 DEF Behind
  <1>3. \A i \in 1..l : n + i \in 1..m /\ (k + n) + i = k + (n + i)
    BY <1>1
  <1>4. \A i \in 1..l : b[n + i] = p[i]
    BY <1>1 DEF Behind
  <1>5. \A i \in 1..l : s[(k + n) + i] = p[i]
    BY <1>2, <1>3, <1>4
  <1> QED
    BY <1>1, <1>5 DEF Behind

\* Sizes.
LEMMA HoldsLens ==
  ASSUME NEW whole, NEW kinds, NEW g, NEW h, NEW rest, Holds(whole, kinds, g, h, rest)
  PROVE  /\ whole \in Seq(Nat) /\ h \in Seq(Nat) /\ rest \in Seq(Nat) /\ Len(h) = 40
         /\ g[Len(kinds)] \in Seq(Nat) /\ Len(g[Len(kinds)]) \in Nat
         /\ Len(rest) = Len(g[Len(kinds)]) + 8
         /\ Len(whole) = 40 + (Len(g[Len(kinds)]) + 8)
  <1>1. PICK c : c = g[Len(kinds)]
    OBVIOUS
  <1>2. Joined(rest, c, Eight) /\ Joined(whole, h, rest)
    BY <1>1 DEF Holds
  <1>3. c \in Seq(Nat) /\ rest \in Seq(Nat) /\ Len(c) \in Nat /\ Len(rest) = Len(c) + 8 /\ Len(rest) \in Nat
    BY <1>2, EightIs, JoinedLen
  <1>4. h \in Seq(Nat) /\ Len(h) = 40
    <2>1. h = Ip6Header(Len(rest), TypeAt(kinds, 1), 64, Zeros(16), Zeros(16)) /\ kinds \in Seq(Kinds)
      BY DEF Holds
    <2>2. 1 \in Nat /\ 1 >= 1
      OBVIOUS
    <2>3. TypeAt(kinds, 1) \in Nat
      BY <2>1, <2>2, TypeAtNat
    <2> QED
      BY <1>3, <2>1, <2>3, HeadIs DEF Header6
  <1>5. whole \in Seq(Nat) /\ Len(whole) = Len(h) + Len(rest)
    BY <1>2, JoinedLen
  <1>6. Len(whole) = 40 + (Len(c) + 8)
    BY <1>3, <1>4, <1>5
  <1> QED
    BY <1>1, <1>3, <1>4, <1>5, <1>6

\* Where each of the headers stands.
LEMMA HeaderStands ==
  ASSUME NEW whole, NEW kinds, NEW g, NEW h, NEW rest, Holds(whole, kinds, g, h, rest),
         NEW i \in 1..Len(kinds)
  PROVE  /\ Behind(whole, 40 + Len(g[i - 1]), HeaderParts(kinds)[i])
         /\ Len(g[i - 1]) \in Nat /\ Len(g[i]) = Len(g[i - 1]) + Takes[kinds[i]]
         /\ Len(g[i]) <= Len(g[Len(kinds)])
  <1>1. /\ kinds \in Seq(Kinds) /\ g \in [0..Len(kinds) -> Seq(Nat)] /\ Sums(g, HeaderParts(kinds))
        /\ Joined(rest, g[Len(kinds)], Eight) /\ Joined(whole, h, rest)
    BY DEF Holds
  <1>2. /\ HeaderParts(kinds) \in Seq(Seq(Nat)) /\ Len(HeaderParts(kinds)) = Len(kinds)
        /\ PartIs(HeaderParts(kinds)[i], TypeAt(kinds, i + 1), kinds[i])
    BY <1>1, PartsAre
  <1>3. PICK p, n, c, q : p = HeaderParts(kinds)[i] /\ n = Len(g[i - 1]) /\ c = g[Len(kinds)] /\ q = Len(g[i])
    OBVIOUS
  <1>4. p \in Seq(Nat) /\ Len(p) = Takes[kinds[i]]
    BY <1>2, <1>3 DEF PartIs
  <1>5. n \in Nat
    <2>1. i - 1 \in 0..Len(kinds)
      BY <1>1
    <2> QED
      BY <1>1, <1>3, <2>1
  <1>6. q = n + Len(p) /\ Behind(c, n, p) /\ q <= Len(c)
    <2>1. i \in 1..Len(HeaderParts(kinds)) /\ Len(kinds) \in i..Len(HeaderParts(kinds))
      BY <1>1, <1>2
    <2>2. g \in [0..Len(HeaderParts(kinds)) -> Seq(Nat)]
      BY <1>1, <1>2, Zenon
    <2>3. /\ Len(g[i]) = Len(g[i - 1]) + Len(HeaderParts(kinds)[i])
          /\ \A m \in i..Len(HeaderParts(kinds)) :
                Behind(g[m], Len(g[i - 1]), HeaderParts(kinds)[i]) /\ Len(g[i]) <= Len(g[m])
      BY <1>1, <1>2, <2>1, <2>2, PartsStand
    <2> QED
      BY <1>3, <2>1, <2>3, Zenon
  <1>7. Joined(rest, c, Eight) /\ n + Len(p) <= Len(c)
    BY <1>1, <1>3, <1>6
  <1>8. Behind(rest, n, p)
    BY <1>4, <1>5, <1>6, <1>7, BehindJoined
  <1>9. n + Len(p) <= Len(rest) /\ Len(h) = 40
    <2>1. Len(rest) = Len(c) + 8 /\ Len(c) \in Nat /\ Len(h) = 40
      BY <1>3, HoldsLens
    <2>2. Len(p) \in Nat
      BY <1>4
    <2> QED
      BY <1>5, <1>7, <2>1, <2>2
  <1>10. Behind(whole, 40 + n, p)
    BY <1>1, <1>4, <1>5, <1>8, <1>9, BehindLater
  <1> QED
    BY <1>3, <1>4, <1>5, <1>6, <1>10

\* The same packet cut off behind its IPv6 header.
LEMMA CutLaid ==
  ASSUME NEW whole, NEW kinds, NEW g, NEW h, NEW rest, Holds(whole, kinds, g, h, rest),
         NEW m \in Nat, 40 <= m, m <= Len(whole)
  PROVE  LaidOut(SubSeq(whole, 1, m), kinds, [i \in 0..Len(kinds) |-> 40 + Len(g[i])])
  <1>1. PICK pkt, at : pkt = SubSeq(whole, 1, m) /\ at = [i \in 0..Len(kinds) |-> 40 + Len(g[i])]
    OBVIOUS
  <1>2. /\ kinds \in Seq(Kinds) /\ g \in [0..Len(kinds) -> Seq(Nat)] /\ Sums(g, HeaderParts(kinds))
        /\ Joined(whole, h, rest) /\ whole \in Seq(Nat)
    BY HoldsLens DEF Holds
  <1>3. Len(pkt) = m /\ \A p \in 1..m : pkt[p] = whole[p]
    BY <1>1, <1>2, FrontIs
  <1>4. \A i \in 0..Len(kinds) : at[i] = 40 + Len(g[i]) /\ Len(g[i]) \in Nat
    BY <1>1, <1>2
  <1>5. at \in [0..Len(kinds) -> Nat] /\ at[0] = 40
    <2>1. at \in [0..Len(kinds) -> Nat]
      <3>1. \A i \in 0..Len(kinds) : 40 + Len(g[i]) \in Nat
        BY <1>4
      <3> QED
        BY <1>1, <3>1
    <2>2. 0 \in 0..Len(kinds)
      BY <1>2
    <2>3. g[0] = <<>>
      BY <1>2 DEF Sums
    <2>4. Len(g[0]) = 0
      BY <2>3
    <2> QED
      BY <1>4, <2>1, <2>2, <2>4
  <1>6. \A i \in 1..Len(kinds) : /\ Len(g[i]) = Len(g[i - 1]) + Takes[kinds[i]]
                                 /\ Takes[kinds[i]] \in Nat /\ Takes[kinds[i]] >= 8
                                 /\ i \in 0..Len(kinds) /\ i - 1 \in 0..Len(kinds)
    <2>1. ASSUME NEW i \in 1..Len(kinds)
          PROVE  /\ Len(g[i]) = Len(g[i - 1]) + Takes[kinds[i]]
                 /\ Takes[kinds[i]] \in Nat /\ Takes[kinds[i]] >= 8
      <3>1. kinds[i] \in Kinds
        BY <1>2
      <3> QED
        BY <3>1, HeaderStands, BodyIs
    <2>2. \A i \in 1..Len(kinds) : i \in 0..Len(kinds) /\ i - 1 \in 0..Len(kinds)
      BY <1>2
    <2> QED
      BY <2>1, <2>2
  <1>7. \A i \in 1..Len(kinds) : at[i] = at[i - 1] + Takes[kinds[i]]
    <2>1. ASSUME NEW i \in 1..Len(kinds) PROVE at[i] = at[i - 1] + Takes[kinds[i]]
      <3>1. PICK x, y, z : x = Len(g[i]) /\ y = Len(g[i - 1]) /\ z = Takes[kinds[i]]
        OBVIOUS
      <3>2. x = y + z /\ y \in Nat /\ z \in Nat /\ at[i] = 40 + x /\ at[i - 1] = 40 + y
        BY <1>4, <1>6, <3>1
      <3>3. 40 + x = (40 + y) + z
        BY <3>2
      <3> QED
        BY <3>1, <3>2, <3>3
    <2> QED
      BY <2>1
  <1>8. h[1] = 96 /\ h[7] = TypeAt(kinds, 1)
    <2>1. Len(rest) \in Nat
      BY HoldsLens
    <2>2. h = Ip6Header(Len(rest), TypeAt(kinds, 1), 64, Zeros(16), Zeros(16))
      BY DEF Holds
    <2>3. 1 \in Nat /\ 1 >= 1
      OBVIOUS
    <2>4. TypeAt(kinds, 1) \in Nat
      BY <1>2, <2>3, TypeAtNat
    <2> QED
      BY <2>1, <2>2, <2>4, HeadIs DEF Header6
  <1>9. pkt[1] = 96 /\ pkt[7] = TypeAt(kinds, 1)
    <2>1. Len(h) = 40
      BY HoldsLens
    <2>2. \A p \in 1..Len(h) : whole[p] = h[p]
      BY <1>2, JoinedFront
    <2>3. 1 \in 1..Len(h) /\ 7 \in 1..Len(h)
      BY <2>1
    <2>4. 1 \in 1..m /\ 7 \in 1..m
      OBVIOUS
    <2>5. whole[1] = 96 /\ whole[7] = TypeAt(kinds, 1)
      BY <1>8, <2>2, <2>3
    <2>6. pkt[1] = whole[1] /\ pkt[7] = whole[7]
      BY <1>3, <2>4
    <2> QED
      BY <2>5, <2>6
  <1>10. IsV6(pkt) /\ At(pkt, 6) = TypeAt(kinds, 1)
    <2>1. 0 + 1 = 1 /\ 6 + 1 = 7 /\ 96 \div 16 = 6
      OBVIOUS
    <2>2. At(pkt, 0) = 96 /\ At(pkt, 6) = TypeAt(kinds, 1)
      BY <1>9, <2>1 DEF At
    <2> QED
      BY <1>3, <2>1, <2>2 DEF IsV6
  <1>11. ASSUME NEW i \in 1..Len(kinds), at[i - 1] + 8 <= m
         PROVE  /\ At(pkt, at[i - 1]) = TypeAt(kinds, i + 1)
                /\ At(pkt, at[i - 1] + 1) = Body[kinds[i]][1]
    <2>1. PICK a, p : a = at[i - 1] /\ p = HeaderParts(kinds)[i]
      OBVIOUS
    <2>2. a = 40 + Len(g[i - 1]) /\ a \in Nat
      BY <1>4, <1>6, <2>1
    <2>3. Behind(whole, a, p)
      BY <2>1, <2>2, HeaderStands
    <2>4. p[1] = TypeAt(kinds, i + 1) /\ p[2] = Body[kinds[i]][1] /\ Len(p) = Takes[kinds[i]]
      BY <1>2, <2>1, PartsAre DEF PartIs
    <2>5. 1 \in 1..Len(p) /\ 2 \in 1..Len(p)
      BY <1>6, <2>4
    <2>6. whole[a + 1] = p[1] /\ whole[a + 2] = p[2]
      BY <2>3, <2>5 DEF Behind
    <2>7. a + 1 \in 1..m /\ a + 2 \in 1..m /\ a + 1 + 1 = a + 2
      BY <1>11, <2>1, <2>2
    <2>8. pkt[a + 1] = whole[a + 1] /\ pkt[a + 2] = whole[a + 2]
      BY <1>3, <2>7
    <2> QED
      BY <2>1, <2>4, <2>6, <2>7, <2>8 DEF At
  <1>12. LaidOut(pkt, kinds, at)
    BY <1>2, <1>3, <1>5, <1>7, <1>10, <1>11 DEF LaidOut
  <1> QED
    BY <1>1, <1>12

LEMMA WholeFront ==
  ASSUME NEW s \in Seq(Nat)
  PROVE  SubSeq(s, 1, Len(s)) = s
  <1>1. Len(s) \in Nat /\ Len(s) <= Len(s)
    OBVIOUS
  <1>2. PICK r : r = SubSeq(s, 1, Len(s))
    OBVIOUS
  <1>3. r \in Seq(Nat) /\ Len(r) = Len(s) /\ \A i \in 1..Len(s) : r[i] = s[i]
    BY <1>1, <1>2, FrontIs
  <1>4. r = s
    BY <1>3, SeqEqual
  <1> QED
    BY <1>2, <1>4

-----------------------------------------------------------------------------
(* A packet with a chain of headers, cut off anywhere.                      *)

LEMMA PlainKinds ==
  ASSUME NEW kinds \in Seq(Plain)
  PROVE  kinds \in Seq(Kinds) /\ \A i \in 1..Len(kinds) : kinds[i] \in Plain
  <1>1. Plain \subseteq Kinds
    BY DEF Plain, Kinds
  <1>2. \A i \in 1..Len(kinds) : kinds[i] \in Plain
    OBVIOUS
  <1>3. kinds \in [1..Len(kinds) -> Kinds] /\ Len(kinds) \in Nat
    BY <1>1, <1>2
  <1>4. kinds \in Seq(Kinds)
    BY <1>3
  <1> QED
    BY <1>2, <1>4

LEMMA ShortFails ==
  ASSUME NEW pkt, NEW stop, ~IsV6(pkt)
  PROVE  Walk(pkt, stop) = Fail
  <1>1. PICK walk : Walk(pkt, stop) = Outcome(pkt, stop, walk[MaxHops - 1])
    BY WalkIs
  <1> QED
    BY <1>1, Zenon DEF Outcome

\* The walk along it: it succeeds if the packet reaches the end of the chain
\* and the chain is no longer than the code will follow.
WalkedTo(w, end) == w # Fail /\ w.nh = 17 /\ w.off = end

LEMMA ChainWalked ==
  ASSUME NEW kinds \in Seq(Plain), NEW n \in Nat, n <= Len(Chained(kinds)), NEW stop \in Stops
  PROVE  LET w   == Walk(SubSeq(Chained(kinds), 1, n), stop)
             end == 40 + Len(Chain(kinds))
         IN IF Len(kinds) < 8 /\ n >= end THEN WalkedTo(w, end) ELSE w = Fail
  <1>1. kinds \in Seq(Kinds) /\ \A i \in 1..Len(kinds) : kinds[i] \in Plain
    BY PlainKinds
  <1>2. PICK g, h, rest : Holds(Chained(kinds), kinds, g, h, rest) /\ Chain(kinds) = g[Len(kinds)]
    BY <1>1, ChainedHolds
  <1>3. PICK whole, N, end, at :
           /\ whole = Chained(kinds) /\ N = Len(kinds) /\ end = 40 + Len(Chain(kinds))
           /\ at = [i \in 0..Len(kinds) |-> 40 + Len(g[i])]
    OBVIOUS
  <1>4. whole \in Seq(Nat) /\ N \in Nat /\ end \in Nat /\ end = 40 + Len(g[N]) /\ end <= Len(whole)
    <2>1. /\ whole \in Seq(Nat) /\ Len(g[N]) \in Nat
          /\ Len(whole) = 40 + (Len(g[N]) + 8)
      BY <1>2, <1>3, HoldsLens
    <2> QED
      BY <1>2, <1>3, <2>1
  <1>5. PICK pkt : pkt = SubSeq(whole, 1, n)
    OBVIOUS
  <1>6. Len(pkt) = n
    BY <1>3, <1>4, <1>5, FrontIs
  <1>7. CASE n < 40
    <2>1. ~IsV6(pkt)
      BY <1>6, <1>7 DEF IsV6
    <2>2. Walk(pkt, stop) = Fail
      BY <2>1, ShortFails
    <2>3. ~(n >= end)
      <3>1. Len(g[N]) \in Nat
        BY <1>2, <1>3, HoldsLens
      <3> QED
        BY <1>4, <1>7, <3>1
    <2> QED
      BY <1>3, <1>5, <2>2, <2>3
  <1>8. CASE n >= 40
    <2>1. LaidOut(pkt, kinds, at)
      BY <1>2, <1>3, <1>5, <1>8, CutLaid
    <2>2. at \in [0..N -> Nat] /\ at[0] = 40
      BY <1>3, <2>1 DEF LaidOut
    <2>3. at[N] = end
      <3>1. N \in 0..N
        BY <1>4
      <3> QED
        BY <1>3, <1>4, <3>1
    <2>4. \A j \in 1..N : at[j] <= end /\ at[j] \in Nat
      <3>1. ASSUME NEW j \in 1..N PROVE at[j] <= end /\ at[j] \in Nat
        <4>1. Len(g[j]) <= Len(g[N])
          BY <1>2, <1>3, HeaderStands
        <4>2. j \in 0..N
          OBVIOUS
        <4>3. at[j] = 40 + Len(g[j]) /\ at[j] \in Nat
          BY <1>3, <2>2, <4>2
        <4>4. Len(g[j]) \in Nat /\ Len(g[N]) \in Nat
          <5>1. g \in [0..N -> Seq(Nat)]
            BY <1>2, <1>3 DEF Holds
          <5>2. N \in 0..N
            BY <1>4
          <5> QED
            BY <4>2, <5>1, <5>2
        <4> QED
          BY <1>4, <4>1, <4>3, <4>4
      <3> QED
        BY <3>1
    <2>5. \A j \in 1..N : kinds[j] \in Plain
      BY <1>1, <1>3
    <2>6. CASE N < 8 /\ n >= end
      <3>1. N \in 0..7 /\ N <= Len(kinds)
        <4>1. N \in 0..7 /\ N <= N
          BY <1>4, <2>6
        <4> QED
          BY <1>3, <4>1
      <3>2. \A j \in 1..N : kinds[j] \in Plain /\ at[j] <= Len(pkt)
        BY <1>4, <1>6, <2>4, <2>5, <2>6
      <3>3. TypeAt(kinds, N + 1) = 17
        <4>1. ~(N + 1 <= Len(kinds))
          BY <1>3, <1>4
        <4> QED
          BY <4>1 DEF TypeAt
      <3>4. TypeAt(kinds, N + 1) \in stop
        BY <3>3, StopFacts
      <3>5. Walk(pkt, stop) = Where(kinds, at, N)
        BY <2>1, <3>1, <3>2, <3>4, WalkFinds
      <3>6. Where(kinds, at, N) # Fail
        BY FailApart DEF Where
      <3>7. Where(kinds, at, N).nh = 17 /\ Where(kinds, at, N).off = end
        BY <2>3, <3>3 DEF Where
      <3>8. WalkedTo(Walk(pkt, stop), end)
        BY <3>5, <3>6, <3>7, Zenon DEF WalkedTo
      <3> QED
        BY <1>3, <1>5, <2>6, <3>8
    <2>7. CASE N >= 8 /\ n >= end
      <3>1. 8 <= Len(kinds) /\ \A j \in 1..8 : j \in 1..N
        BY <1>3, <1>4, <2>7
      <3>2. \A j \in 1..8 : kinds[j] \in Plain
        BY <2>5, <3>1
      <3>3. \A j \in 1..7 : at[j] <= Len(pkt)
        <4>1. \A j \in 1..7 : j \in 1..8
          OBVIOUS
        <4> QED
          BY <1>4, <1>6, <2>4, <2>7, <3>1, <4>1
      <3>4. Walk(pkt, stop) = Fail
        BY <2>1, <3>1, <3>2, <3>3, WalkTires
      <3>5. ~(N < 8)
        BY <1>4, <2>7
      <3> QED
        BY <1>3, <1>5, <3>4, <3>5
    <2>8. CASE ~(n >= end)
      <3> DEFINE T == {j \in 1..N : at[j] > n}
      <3>1. T \subseteq Nat /\ T # {}
        <4>1. N # 0
          BY <1>4, <1>8, <2>2, <2>3, <2>8
        <4>2. N \in 1..N
          BY <1>4, <4>1
        <4>3. at[N] > n
          BY <1>4, <2>3, <2>8
        <4>4. N \in T
          BY <4>2, <4>3
        <4> QED
          BY <4>4
      <3>2. PICK k \in T : \A y \in T : k <= y
        BY <3>1, LeastExists
      <3>3. k \in 1..N /\ at[k] > n
        BY <3>2
      <3>4. \A j \in 1..N : j < k => at[j] <= n
        <4>1. ASSUME NEW j \in 1..N, j < k PROVE at[j] <= n
          <5>1. j \notin T
            BY <3>2, <4>1
          <5>2. ~(at[j] > n)
            BY <5>1
          <5>3. at[j] \in Nat
            BY <2>4
          <5> QED
            BY <5>2, <5>3
        <4> QED
          BY <4>1
      <3> HIDE DEF T
      <3>5. CASE k <= 7
        <4>1. k \in 1..7 /\ k <= Len(kinds) /\ \A j \in 1..k : j \in 1..N
          BY <1>3, <3>3, <3>5
        <4>2. \A j \in 1..k : kinds[j] \in Plain
          BY <2>5, <4>1
        <4>3. \A j \in 1..(k - 1) : at[j] <= Len(pkt)
          <5>1. \A j \in 1..(k - 1) : j \in 1..N /\ j < k
            <6>1. k \in 1..N
              BY <3>3
            <6> QED
              BY <1>4, <6>1
          <5> QED
            BY <1>6, <3>4, <5>1
        <4>4. at[k] > Len(pkt)
          BY <1>6, <3>3
        <4>5. Walk(pkt, stop) = Fail
          BY <2>1, <4>1, <4>2, <4>3, <4>4, WalkBreaks
        <4> QED
          BY <1>3, <1>5, <2>8, <4>5
      <3>6. CASE k > 7
        <4>1. 8 <= Len(kinds) /\ \A j \in 1..8 : j \in 1..N
          BY <1>3, <3>3, <3>6
        <4>2. \A j \in 1..8 : kinds[j] \in Plain
          BY <2>5, <4>1
        <4>3. \A j \in 1..7 : at[j] <= Len(pkt)
          <5>1. \A j \in 1..7 : j \in 1..N /\ j < k
            <6>1. k \in 1..N
              BY <3>3
            <6> QED
              BY <1>4, <3>6, <6>1
          <5> QED
            BY <1>6, <3>4, <5>1
        <4>4. Walk(pkt, stop) = Fail
          BY <2>1, <4>1, <4>2, <4>3, WalkTires
        <4> QED
          BY <1>3, <1>5, <2>8, <4>4
      <3> QED
        BY <3>3, <3>5, <3>6
    <2> QED
      BY <1>4, <2>6, <2>7, <2>8
  <1> QED
    BY <1>7, <1>8

\* A chain of up to seven headers is followed to the transport header, in a
\* packet cut off behind any of its bytes; a longer one, or one cut off in
\* front of the transport header, is refused (parse_ipv6).
THEOREM ChainIsParsed ==
  ASSUME NEW kinds \in Seq(Plain), NEW n \in Nat, n <= Len(Chained(kinds))
  PROVE  CutRead(kinds, n)
  <1>1. L4 \in Stops /\ MaxHops = 8
    BY DEF Stops, MaxHops
  <1>2. PICK w, end : /\ w = Walk(SubSeq(Chained(kinds), 1, n), L4) /\ end = 40 + Len(Chain(kinds))
                      /\ IF Len(kinds) < 8 /\ n >= end THEN WalkedTo(w, end) ELSE w = Fail
    BY <1>1, ChainWalked
  <1>3. parse_ipv6(SubSeq(Chained(kinds), 1, n)) = w
    BY <1>2 DEF parse_ipv6
  <1> QED
    BY <1>1, <1>2, <1>3, Zenon DEF WalkedTo, CutRead

\* In a packet with no Fragment header none is found, however its other headers
\* are ordered; one with more headers than are followed is refused
\* (ipv6_find_fragment).
THEOREM UnfragmentedIsSeen ==
  ASSUME NEW kinds \in Seq(Plain)
  PROVE  ipv6_find_fragment(Chained(kinds)) = IF Len(kinds) < MaxHops THEN NoFragment ELSE Fail
  <1>1. PICK whole, end : whole = Chained(kinds) /\ end = 40 + Len(Chain(kinds))
    OBVIOUS
  <1>2. whole \in Seq(Nat) /\ Len(whole) \in Nat /\ Len(whole) >= end /\ Len(whole) <= Len(whole)
    <2>1. kinds \in Seq(Kinds)
      BY PlainKinds
    <2>2. PICK g, h, rest : Holds(whole, kinds, g, h, rest) /\ Chain(kinds) = g[Len(kinds)]
      BY <1>1, <2>1, ChainedHolds
    <2>3. whole \in Seq(Nat) /\ Len(g[Len(kinds)]) \in Nat /\ Len(whole) = 40 + (Len(g[Len(kinds)]) + 8)
      BY <2>2, HoldsLens
    <2> QED
      BY <1>1, <2>2, <2>3
  <1>3. L4 \cup {Fragment} \in Stops /\ MaxHops = 8 /\ Fragment # 17
    BY DEF Stops, MaxHops, Fragment
  <1>4. SubSeq(whole, 1, Len(whole)) = whole
    BY <1>2, WholeFront
  <1>5. PICK w : /\ w = Walk(SubSeq(whole, 1, Len(whole)), L4 \cup {Fragment})
                 /\ IF Len(kinds) < 8 /\ Len(whole) >= end THEN WalkedTo(w, end) ELSE w = Fail
    BY <1>1, <1>2, <1>3, ChainWalked
  <1>6. w = Walk(whole, L4 \cup {Fragment})
    BY <1>4, <1>5
  <1>7. CASE Len(kinds) < 8
    <2>1. w # Fail /\ w.nh # Fragment
      BY <1>2, <1>3, <1>5, <1>7 DEF WalkedTo
    <2>2. ipv6_find_fragment(whole) = NoFragment
      BY <1>6, <2>1, Zenon DEF ipv6_find_fragment
    <2> QED
      BY <1>1, <1>3, <1>7, <2>2
  <1>8. CASE ~(Len(kinds) < 8)
    <2>1. w = Fail
      BY <1>5, <1>8
    <2>2. ipv6_find_fragment(whole) = Fail
      BY <1>6, <2>1, Zenon DEF ipv6_find_fragment
    <2> QED
      BY <1>1, <1>3, <1>8, <2>2
  <1> QED
    BY <1>7, <1>8

-----------------------------------------------------------------------------
(* The same chain with a Fragment header in it.                             *)

\* kk is kinds with a Fragment header as its i-th.
Inserted(kk, kinds, i) ==
    /\ kk \in Seq(Kinds) /\ kinds \in Seq(Kinds) /\ Len(kk) = Len(kinds) + 1
    /\ i \in 1..(Len(kinds) + 1) /\ kk[i] = "frag"
    /\ \A j \in 1..(i - 1) : kk[j] = kinds[j]
    /\ \A j \in i..Len(kinds) : kk[j + 1] = kinds[j]

LEMMA InsertedIs ==
  ASSUME NEW kinds \in Seq(Kinds), NEW i \in 1..(Len(kinds) + 1)
  PROVE  Inserted(InsertAt(kinds, i, "frag"), kinds, i)
  <1>1. PICK n \in Nat : n = Len(kinds)
    OBVIOUS
  <1>2. PICK a, c, f : a = SubSeq(kinds, 1, i - 1) /\ c = SubSeq(kinds, i, n) /\ f = <<"frag">>
    OBVIOUS
  <1>3. a \in Seq(Kinds) /\ Len(a) = i - 1 /\ \A j \in 1..(i - 1) : a[j] = kinds[j]
    BY <1>1, <1>2
  <1>4. c \in Seq(Kinds) /\ Len(c) = n - i + 1 /\ \A j \in 1..(n - i + 1) : c[j] = kinds[i - 1 + j]
    BY <1>1, <1>2
  <1>5. f \in Seq(Kinds) /\ Len(f) = 1 /\ f[1] = "frag"
    BY <1>2 DEF Kinds
  <1>6. PICK af, kk : af = a \o f /\ kk = af \o c
    OBVIOUS
  <1>7. af \in Seq(Kinds) /\ Len(af) = i /\ kk \in Seq(Kinds) /\ Len(kk) = n + 1
    <2>1. af \in Seq(Kinds) /\ Len(af) = Len(a) + Len(f)
      BY <1>3, <1>5, <1>6, ConcatProperties
    <2>2. Len(af) = i
      BY <1>1, <1>3, <1>5, <2>1
    <2>3. kk \in Seq(Kinds) /\ Len(kk) = Len(af) + Len(c)
      BY <1>4, <1>6, <2>1, ConcatProperties
    <2>4. Len(kk) = n + 1
      BY <1>1, <1>4, <2>2, <2>3
    <2> QED
      BY <2>1, <2>2, <2>3, <2>4
  <1>8. \A j \in 1..(i - 1) : kk[j] = kinds[j]
    <2>1. ASSUME NEW j \in 1..(i - 1) PROVE kk[j] = kinds[j]
      <3>1. j \in 1..Len(a) /\ j \in 1..Len(af)
        BY <1>1, <1>3, <1>7
      <3>2. af[j] = a[j] /\ kk[j] = af[j]
        BY <1>3, <1>4, <1>5, <1>6, <1>7, <3>1, FrontElements
      <3> QED
        BY <1>3, <3>2
    <2> QED
      BY <2>1
  <1>9. kk[i] = "frag"
    <2>1. i \in 1..Len(af) /\ 1 \in 1..Len(f) /\ Len(a) + 1 = i
      BY <1>1, <1>3, <1>5, <1>7
    <2>2. af[Len(a) + 1] = f[1]
      BY <1>3, <1>5, <1>6, <2>1, BackElements
    <2>3. kk[i] = af[i]
      BY <1>4, <1>6, <1>7, <2>1, FrontElements
    <2> QED
      BY <1>5, <2>1, <2>2, <2>3
  <1>10. \A j \in i..n : kk[j + 1] = kinds[j]
    <2>1. ASSUME NEW j \in i..n PROVE kk[j + 1] = kinds[j]
      <3>1. PICK m : m = j - i + 1
        OBVIOUS
      <3>2. m \in 1..Len(c) /\ m \in 1..(n - i + 1) /\ Len(af) + m = j + 1 /\ i - 1 + m = j
        BY <1>1, <1>4, <1>7, <3>1
      <3>3. kk[Len(af) + m] = c[m]
        <4>1. af \in Seq(Kinds) /\ c \in Seq(Kinds) /\ m \in 1..Len(c)
          BY <1>4, <1>7, <3>2
        <4>2. (af \o c)[Len(af) + m] = c[m]
          BY <4>1, BackElements
        <4> QED
          BY <1>6, <4>2
      <3>4. c[m] = kinds[i - 1 + m]
        BY <1>4, <3>2
      <3> QED
        BY <3>2, <3>3, <3>4
    <2> QED
      BY <2>1
  <1>11. InsertAt(kinds, i, "frag") = kk
    BY <1>1, <1>2, <1>6, Zenon DEF InsertAt
  <1> QED
    BY <1>1, <1>7, <1>8, <1>9, <1>10, <1>11 DEF Inserted

LEMMA InsertedTypes ==
  ASSUME NEW kk, NEW kinds, NEW i, Inserted(kk, kinds, i)
  PROVE  /\ TypeAt(kk, i) = 44
         /\ \A j \in 1..(i - 1) : TypeAt(kk, j) = TypeAt(kinds, j)
         /\ \A j \in i..(Len(kinds) + 1) : TypeAt(kk, j + 1) = TypeAt(kinds, j)
  <1>1. PICK n \in Nat : n = Len(kinds) /\ Len(kk) = n + 1 /\ i \in 1..(n + 1)
    BY DEF Inserted
  <1>2. /\ kk[i] = "frag"
        /\ \A j \in 1..(i - 1) : kk[j] = kinds[j]
        /\ \A j \in i..n : kk[j + 1] = kinds[j]
    BY <1>1 DEF Inserted
  <1>3. TypeAt(kk, i) = 44
    BY <1>1, <1>2, KindFacts DEF TypeAt
  <1>4. ASSUME NEW j \in 1..(i - 1) PROVE TypeAt(kk, j) = TypeAt(kinds, j)
    <2>1. j <= n /\ j <= n + 1
      BY <1>1
    <2> QED
      BY <1>1, <1>2, <2>1 DEF TypeAt
  <1>5. ASSUME NEW j \in i..(n + 1) PROVE TypeAt(kk, j + 1) = TypeAt(kinds, j)
    <2>1. CASE j <= n
      <3>1. j \in i..n /\ j + 1 <= n + 1
        BY <1>1, <2>1
      <3> QED
        BY <1>1, <1>2, <2>1, <3>1 DEF TypeAt
    <2>2. CASE ~(j <= n)
      <3>1. ~(j + 1 <= n + 1)
        BY <1>1, <2>2
      <3> QED
        BY <1>1, <2>2, <3>1 DEF TypeAt
    <2> QED
      BY <2>1, <2>2
  <1> QED
    BY <1>1, <1>3, <1>4, <1>5

\* The parts of the two.
LEMMA InsertedParts ==
  ASSUME NEW kk, NEW kinds, NEW i, Inserted(kk, kinds, i)
  PROVE  /\ \A j \in 1..(i - 2) : HeaderParts(kk)[j] = HeaderParts(kinds)[j]
         /\ i > 1 => PartIs(HeaderParts(kk)[i - 1], 44, kinds[i - 1])
         /\ PartIs(HeaderParts(kk)[i], TypeAt(kinds, i), "frag")
         /\ \A j \in i..Len(kinds) : HeaderParts(kk)[j + 1] = HeaderParts(kinds)[j]
  <1>1. PICK n \in Nat : n = Len(kinds) /\ Len(kk) = n + 1 /\ i \in 1..(n + 1)
    BY DEF Inserted
  <1>2. /\ kk \in Seq(Kinds) /\ kinds \in Seq(Kinds) /\ kk[i] = "frag"
        /\ \A j \in 1..(i - 1) : kk[j] = kinds[j]
        /\ \A j \in i..n : kk[j + 1] = kinds[j]
    BY <1>1 DEF Inserted
  <1>3. /\ TypeAt(kk, i) = 44
        /\ \A j \in 1..(i - 1) : TypeAt(kk, j) = TypeAt(kinds, j)
        /\ \A j \in i..(n + 1) : TypeAt(kk, j + 1) = TypeAt(kinds, j)
    BY <1>1, InsertedTypes
  <1>4. /\ \A j \in 1..n : PartIs(HeaderParts(kinds)[j], TypeAt(kinds, j + 1), kinds[j])
        /\ \A j \in 1..(n + 1) : PartIs(HeaderParts(kk)[j], TypeAt(kk, j + 1), kk[j])
    BY <1>1, <1>2, PartsAre
  <1>5. ASSUME NEW j \in 1..(i - 2) PROVE HeaderParts(kk)[j] = HeaderParts(kinds)[j]
    <2>1. j \in 1..n /\ j \in 1..(n + 1) /\ j \in 1..(i - 1) /\ j + 1 \in 1..(i - 1)
      BY <1>1
    <2>2. /\ HeaderParts(kinds)[j] = <<TypeAt(kinds, j + 1)>> \o Body[kinds[j]]
          /\ HeaderParts(kk)[j] = <<TypeAt(kk, j + 1)>> \o Body[kk[j]]
      BY <1>4, <2>1 DEF PartIs
    <2>3. kk[j] = kinds[j] /\ TypeAt(kk, j + 1) = TypeAt(kinds, j + 1)
      BY <1>2, <1>3, <2>1
    <2> QED
      BY <2>2, <2>3
  <1>6. ASSUME i > 1 PROVE PartIs(HeaderParts(kk)[i - 1], 44, kinds[i - 1])
    <2>1. i - 1 \in 1..(n + 1) /\ i - 1 \in 1..(i - 1) /\ (i - 1) + 1 = i
      BY <1>1, <1>6
    <2>2. PartIs(HeaderParts(kk)[i - 1], TypeAt(kk, (i - 1) + 1), kk[i - 1])
      BY <1>4, <2>1
    <2>3. kk[i - 1] = kinds[i - 1] /\ TypeAt(kk, (i - 1) + 1) = 44
      BY <1>2, <1>3, <2>1
    <2> QED
      BY <2>2, <2>3
  <1>7. PartIs(HeaderParts(kk)[i], TypeAt(kinds, i), "frag")
    <2>1. i \in i..(n + 1)
      BY <1>1
    <2>2. PartIs(HeaderParts(kk)[i], TypeAt(kk, i + 1), kk[i])
      BY <1>1, <1>4
    <2> QED
      BY <1>2, <1>3, <2>1, <2>2
  <1>8. ASSUME NEW j \in i..n PROVE HeaderParts(kk)[j + 1] = HeaderParts(kinds)[j]
    <2>1. j \in 1..n /\ j + 1 \in 1..(n + 1) /\ j + 1 \in i..(n + 1)
      BY <1>1
    <2>2. /\ HeaderParts(kinds)[j] = <<TypeAt(kinds, j + 1)>> \o Body[kinds[j]]
          /\ HeaderParts(kk)[j + 1] = <<TypeAt(kk, (j + 1) + 1)>> \o Body[kk[j + 1]]
      BY <1>4, <2>1 DEF PartIs
    <2>3. kk[j + 1] = kinds[j] /\ TypeAt(kk, (j + 1) + 1) = TypeAt(kinds, j + 1)
      BY <1>2, <1>3, <2>1
    <2> QED
      BY <2>2, <2>3
  <1> QED
    BY <1>1, <1>5, <1>6, <1>7, <1>8

\* Sums of the same parts are the same.
LEMMA SumsAgree ==
  ASSUME NEW s \in Seq(Seq(Nat)), NEW t \in Seq(Seq(Nat)), NEW g, NEW u, Sums(g, s), Sums(u, t),
         NEW N \in Nat, AlikeUpTo(N, s, t)
  PROVE  SameAt(N, g, u)
  <1> DEFINE S == {n \in 0..N : g[n] = u[n]}
  <1>1. 0 \in S
    BY DEF Sums
  <1>2. ASSUME NEW n \in 1..N, n - 1 \in S PROVE n \in S
    <2>1. n \in 1..Len(s) /\ n \in 1..Len(t) /\ s[n] = t[n] /\ n \in 0..N
      BY DEF AlikeUpTo
    <2>2. g[n - 1] = u[n - 1]
      BY <1>2
    <2>3. g[n] = g[n - 1] \o s[n] /\ u[n] = u[n - 1] \o t[n]
      BY <2>1 DEF Sums
    <2> QED
      BY <2>1, <2>2, <2>3
  <1>3. \A n \in S : g[n] = u[n]
    OBVIOUS
  <1> HIDE DEF S
  <1>4. \A n \in 0..N : n \in S
    BY <1>1, <1>2, UpTo
  <1>5. N \in 0..N
    OBVIOUS
  <1> QED
    BY <1>3, <1>4, <1>5 DEF SameAt

\* r is what follows the first m parts of s.
TailOf(r, s, m) ==
    /\ r \in Seq(Seq(Nat)) /\ s \in Seq(Seq(Nat)) /\ m \in Nat /\ Len(s) = m + Len(r)
    /\ \A n \in 1..Len(r) : r[n] = s[m + n]

LEMMA SumsSplit ==
  ASSUME NEW s, NEW g \in [0..Len(s) -> Seq(Nat)], Sums(g, s), NEW r, NEW m, TailOf(r, s, m),
         NEW b \in [0..Len(r) -> Seq(Nat)], Sums(b, r)
  PROVE  Joined(g[Len(s)], g[m], b[Len(r)])
  <1>10. r \in Seq(Seq(Nat)) /\ m \in Nat /\ Len(s) = m + Len(r)
    BY DEF TailOf
  <1>1. PICK l \in Nat : /\ l = Len(r) /\ m \in Nat /\ Len(s) = m + l
                         /\ \A n \in 1..l : r[n] = s[m + n] /\ r[n] \in Seq(Nat)
    <2>1. \A n \in 1..Len(r) : r[n] = s[m + n]
      BY DEF TailOf
    <2>2. Len(r) \in Nat /\ \A n \in 1..Len(r) : r[n] \in Seq(Nat)
      BY <1>10
    <2> QED
      BY <1>10, <2>1, <2>2
  <1>2. \A n \in 0..l : m + n \in 0..Len(s)
    BY <1>1
  <1>3. g[m] \in Seq(Nat) /\ \A n \in 0..l : b[n] \in Seq(Nat) /\ g[m + n] \in Seq(Nat)
    <2>1. m + 0 = m /\ 0 \in 0..l
      BY <1>1
    <2> QED
      BY <1>1, <1>2, <2>1
  <1> DEFINE S == {n \in 0..l : g[m + n] = g[m] \o b[n]}
  <1>4. 0 \in S
    <2>1. b[0] = <<>> /\ m + 0 = m
      BY <1>1 DEF Sums
    <2>2. g[m] \o <<>> = g[m]
      BY <1>3, ConcatEmptySeq
    <2>3. g[m + 0] = g[m] \o b[0] /\ 0 \in 0..l
      BY <1>1, <2>1, <2>2
    <2> QED
      BY <2>3
  <1>5. ASSUME NEW n \in 1..l, n - 1 \in S PROVE n \in S
    <2>1. n \in 0..l /\ n - 1 \in 0..l /\ m + n \in 1..Len(s) /\ n \in 1..Len(r)
      BY <1>1
    <2>2. g[m + n] = g[m + (n - 1)] \o r[n]
      <3>1. \A k \in 1..Len(s) : g[k] = g[k - 1] \o s[k]
        BY DEF Sums
      <3>2. g[m + n] = g[(m + n) - 1] \o s[m + n]
        BY <2>1, <3>1
      <3>3. (m + n) - 1 = m + (n - 1) /\ s[m + n] = r[n]
        BY <1>1
      <3> QED
        BY <3>2, <3>3
    <2>3. b[n] = b[n - 1] \o r[n]
      BY <2>1 DEF Sums
    <2>4. g[m + (n - 1)] = g[m] \o b[n - 1]
      BY <1>5
    <2>5. PICK a, c, d : a = g[m] /\ c = b[n - 1] /\ d = r[n]
      OBVIOUS
    <2>6. a \in Seq(Nat) /\ c \in Seq(Nat) /\ d \in Seq(Nat)
      BY <1>1, <1>3, <2>1, <2>5
    <2>7. (a \o c) \o d = a \o (c \o d)
      BY <2>6, ConcatAssociative
    <2>8. g[m + n] = g[m] \o b[n]
      BY <2>2, <2>3, <2>4, <2>5, <2>7, Zenon
    <2> QED
      BY <2>1, <2>8
  <1>6. \A n \in S : g[m + n] = g[m] \o b[n]
    OBVIOUS
  <1> HIDE DEF S
  <1>7. \A n \in 0..l : n \in S
    BY <1>4, <1>5, UpTo
  <1>8. l \in S /\ l \in 0..l
    BY <1>7
  <1>9. g[Len(s)] = g[m] \o b[Len(r)]
    BY <1>1, <1>6, <1>8
  <1>11. g[m] \in Seq(Nat) /\ b[Len(r)] \in Seq(Nat)
    BY <1>1, <1>3, <1>8
  <1> QED
    BY <1>9, <1>11, Join

-----------------------------------------------------------------------------
(* What the reassembly has before the Fragment header, and what it should.  *)

\* All of a header but its length and the type of what follows.
HeadRest(h) == \A q \in 1..40 : q \notin {5, 6, 7} => h[q] = IF q = 1 THEN 96 ELSE IF q = 8 THEN 64 ELSE 0

LEMMA HeadMore ==
  ASSUME NEW n \in Nat, NEW t \in Nat
  PROVE  HeadRest(Ip6Header(n, t, 64, Zeros(16), Zeros(16)))
  <1>1. PICK a, w, b, z : a = <<96, 0, 0, 0>> /\ w = Word(n) /\ b = <<t, 64>> /\ z = Zeros(16)
    OBVIOUS
  <1>2. a \in Seq(Nat) /\ Len(a) = 4 /\ a[1] = 96 /\ a[2] = 0 /\ a[3] = 0 /\ a[4] = 0
    BY <1>1
  <1>3. b \in Seq(Nat) /\ Len(b) = 2 /\ b[2] = 64
    BY <1>1
  <1>4. w \in Seq(Nat) /\ Len(w) = 2
    BY <1>1, WordType
  <1>5. z \in Seq(Nat) /\ Len(z) = 16
    <2>1. 16 \in Nat
      OBVIOUS
    <2> QED
      BY <1>1, <2>1, ZerosIs
  <1>6. \A i \in 1..16 : z[i] = 0
    BY <1>1 DEF Zeros
  <1>7. PICK aw : Joined(aw, a, w)
    BY <1>2, <1>4, SomeJoined
  <1>8. aw \in Seq(Nat) /\ Len(aw) = 6
    <2>1. aw \in Seq(Nat) /\ Len(aw) = Len(a) + Len(w)
      BY <1>7, JoinedLen
    <2> QED
      BY <1>2, <1>4, <2>1
  <1>9. PICK awb : Joined(awb, aw, b)
    BY <1>3, <1>8, SomeJoined
  <1>10. awb \in Seq(Nat) /\ Len(awb) = 8
    <2>1. awb \in Seq(Nat) /\ Len(awb) = Len(aw) + Len(b)
      BY <1>9, JoinedLen
    <2> QED
      BY <1>3, <1>8, <2>1
  <1>11. PICK awz : Joined(awz, awb, z)
    BY <1>5, <1>10, SomeJoined
  <1>12. awz \in Seq(Nat) /\ Len(awz) = 24
    <2>1. awz \in Seq(Nat) /\ Len(awz) = Len(awb) + Len(z)
      BY <1>11, JoinedLen
    <2> QED
      BY <1>5, <1>10, <2>1
  <1>13. PICK h : Joined(h, awz, z)
    BY <1>5, <1>12, SomeJoined
  <1>14. Ip6Header(n, t, 64, Zeros(16), Zeros(16)) = h
    <2>1. h = <<96, 0, 0, 0>> \o Word(n) \o <<t, 64>> \o z \o z
      BY <1>1, <1>7, <1>9, <1>11, <1>13 DEF Joined
    <2> QED
      BY <1>1, <2>1, Zenon DEF Ip6Header
  <1>15. /\ \A i \in 1..4 : aw[i] = a[i]
         /\ \A i \in 1..6 : awb[i] = aw[i]
         /\ \A i \in 1..8 : awz[i] = awb[i]
         /\ \A i \in 1..24 : h[i] = awz[i]
    <2>1. \A i \in 1..Len(a) : aw[i] = a[i]
      BY <1>7, JoinedFront
    <2>2. \A i \in 1..Len(aw) : awb[i] = aw[i]
      BY <1>9, JoinedFront
    <2>3. \A i \in 1..Len(awb) : awz[i] = awb[i]
      BY <1>11, JoinedFront
    <2>4. \A i \in 1..Len(awz) : h[i] = awz[i]
      BY <1>13, JoinedFront
    <2> QED
      BY <1>2, <1>8, <1>10, <1>12, <2>1, <2>2, <2>3, <2>4
  <1>16. h[1] = 96 /\ h[2] = 0 /\ h[3] = 0 /\ h[4] = 0
    BY <1>2, <1>15
  <1>17. h[8] = 64
    <2>1. Behind(awb, 6, b)
      BY <1>8, <1>9, JoinedBack
    <2>2. 2 \in 1..Len(b) /\ 6 + 2 = 8
      BY <1>3
    <2>3. awb[8] = 64
      BY <1>3, <2>1, <2>2 DEF Behind
    <2> QED
      BY <1>15, <2>3
  <1>18. \A i \in 1..16 : h[8 + i] = 0 /\ h[24 + i] = 0
    <2>1. Behind(awz, 8, z) /\ Behind(h, 24, z)
      BY <1>10, <1>11, <1>12, <1>13, JoinedBack
    <2>2. \A i \in 1..16 : awz[8 + i] = 0 /\ h[24 + i] = 0
      BY <1>5, <1>6, <2>1 DEF Behind
    <2>3. \A i \in 1..16 : 8 + i \in 1..24
      OBVIOUS
    <2> QED
      BY <1>15, <2>2, <2>3
  <1>19. ASSUME NEW q \in 1..40, q \notin {5, 6, 7}
         PROVE  h[q] = IF q = 1 THEN 96 ELSE IF q = 8 THEN 64 ELSE 0
    <2>1. CASE q \in {1, 2, 3, 4, 8}
      BY <1>16, <1>17, <2>1
    <2>2. CASE q \in 9..24
      <3>1. q - 8 \in 1..16 /\ 8 + (q - 8) = q
        BY <2>2
      <3>2. h[q] = 0
        BY <1>18, <3>1
      <3> QED
        BY <2>2, <3>2
    <2>3. CASE q \in 25..40
      <3>1. q - 24 \in 1..16 /\ 24 + (q - 24) = q
        BY <2>3
      <3>2. h[q] = 0
        BY <1>18, <3>1
      <3> QED
        BY <2>3, <3>2
    <2>4. q \in {1, 2, 3, 4, 8} \/ q \in 9..24 \/ q \in 25..40
      BY <1>19
    <2> QED
      BY <2>1, <2>2, <2>3, <2>4
  <1>20. HeadRest(h)
    BY <1>19 DEF HeadRest
  <1> QED
    BY <1>14, <1>20

\* x2 is x but for the length and the byte at p.
Fronts(x2, x, p, n, t) ==
    /\ x \in Seq(Nat) /\ x2 \in Seq(Nat) /\ Len(x2) = Len(x) /\ 40 <= Len(x)
    /\ n \in Nat /\ t \in Nat /\ p \in 7..Len(x)
    /\ \A q \in 1..Len(x) : q \notin {5, 6} /\ q # p => x2[q] = x[q]
    /\ Behind(x, 4, Word(n)) /\ x[p] = t

LEMMA FrontRepaired ==
  ASSUME NEW x2, NEW x, NEW p, NEW n, NEW t, Fronts(x2, x, p, n, t)
  PROVE  Put(Put(x2, 5, Word(n)), p, <<t>>) = x
  <1>17. PICK w, v : w = Word(n) /\ v = <<t>>
    OBVIOUS
  <1>18. PICK l \in Nat, k \in Nat : l = Len(x) /\ k + 1 = p /\ k >= 6 /\ k + 1 <= l
    <2>1. Len(x) \in Nat /\ p \in 7..Len(x)
      BY DEF Fronts
    <2>2. p - 1 \in Nat /\ (p - 1) + 1 = p /\ p - 1 >= 6 /\ (p - 1) + 1 <= Len(x)
      BY <2>1
    <2> QED
      BY <2>1, <2>2
  <1>1. l = Len(x) /\ k + 1 = p /\ k >= 6 /\ k + 1 <= l /\ w = Word(n) /\ v = <<t>>
    BY <1>17, <1>18
  <1>2. /\ x \in Seq(Nat) /\ x2 \in Seq(Nat) /\ Len(x2) = l /\ 40 <= l
        /\ \A q \in 1..l : q \notin {5, 6} /\ q # p => x2[q] = x[q]
        /\ Behind(x, 4, w) /\ x[p] = t
    BY <1>1 DEF Fronts
  <1>3. w \in Seq(Nat) /\ Len(w) = 2
    BY <1>1, WordType DEF Fronts
  <1>4. v \in Seq(Nat) /\ Len(v) = 1 /\ v[1] = t
    BY <1>1 DEF Fronts
  <1>5. PICK y : y = Put(x2, 4 + 1, w) /\ Over(y, x2, 4, w)
    <2>1. 4 \in Nat /\ 4 + Len(w) <= Len(x2)
      BY <1>2, <1>3
    <2> QED
      BY <1>2, <1>3, <2>1, PutIs
  <1>6. y \in Seq(Nat) /\ Len(y) = l
    BY <1>2, <1>5 DEF Over
  <1>7. PICK z : z = Put(y, k + 1, v) /\ Over(z, y, k, v)
    <2>1. k + Len(v) <= Len(y)
      BY <1>1, <1>4, <1>6
    <2> QED
      BY <1>4, <1>6, <2>1, PutIs
  <1>8. z \in Seq(Nat) /\ Len(z) = l
    BY <1>6, <1>7 DEF Over
  <1>9. z[p] = t
    <2>1. z[k + 1] = v[1]
      <3>1. Behind(z, k, v) /\ 1 \in 1..Len(v)
        BY <1>4, <1>7 DEF Over
      <3> QED
        BY <3>1 DEF Behind
    <2> QED
      BY <1>1, <1>4, <2>1
  <1>10. \A q \in 1..l : q # p => z[q] = y[q]
    <2>1. \A q \in 1..l : q # p => q \in 1..Len(y) /\ (q <= k \/ q > k + Len(v))
      BY <1>1, <1>4, <1>6
    <2> QED
      BY <1>7, <2>1 DEF Over
  <1>11. \A q \in 1..l : q \notin {5, 6} => y[q] = x2[q]
    <2>1. \A q \in 1..l : q \notin {5, 6} => q \in 1..Len(x2) /\ (q <= 4 \/ q > 4 + Len(w))
      BY <1>2, <1>3
    <2> QED
      BY <1>5, <2>1 DEF Over
  <1>12. y[5] = x[5] /\ y[6] = x[6]
    <2>1. Behind(y, 4, w) /\ 1 \in 1..Len(w) /\ 2 \in 1..Len(w) /\ 4 + 1 = 5 /\ 4 + 2 = 6
      BY <1>3, <1>5 DEF Over
    <2>2. y[5] = w[1] /\ y[6] = w[2]
      BY <2>1 DEF Behind
    <2>3. x[5] = w[1] /\ x[6] = w[2]
      BY <1>2, <2>1 DEF Behind
    <2> QED
      BY <2>2, <2>3
  <1>13. \A q \in 1..l : z[q] = x[q]
    <2>1. ASSUME NEW q \in 1..l PROVE z[q] = x[q]
      <3>1. CASE q = p
        BY <1>2, <1>9, <3>1
      <3>2. CASE q # p /\ q \in {5, 6}
        BY <1>10, <1>12, <3>2
      <3>3. CASE q # p /\ q \notin {5, 6}
        BY <1>2, <1>10, <1>11, <3>3
      <3> QED
        BY <3>1, <3>2, <3>3
    <2> QED
      BY <2>1
  <1>14. z = x
    BY <1>1, <1>2, <1>8, <1>13, SeqEqual
  <1>15. Put(x2, 5, Word(n)) = y
    <2>1. 4 + 1 = 5
      OBVIOUS
    <2> QED
      BY <1>1, <1>5, <2>1
  <1>16. Put(y, p, <<t>>) = z
    BY <1>1, <1>7
  <1> QED
    BY <1>14, <1>15, <1>16

\* The headers in front of the new one are as they were, but for the type the
\* last of them says.
Alike(a2, a, p) ==
    /\ a \in Seq(Nat) /\ a2 \in Seq(Nat) /\ Len(a2) = Len(a)
    /\ \A q \in 1..Len(a) : q # p => a2[q] = a[q]

LEMMA InsertedFront ==
  ASSUME NEW kk, NEW kinds, NEW i, Inserted(kk, kinds, i), i > 1,
         NEW g \in [0..Len(kinds) -> Seq(Nat)], Sums(g, HeaderParts(kinds)),
         NEW u \in [0..Len(kk) -> Seq(Nat)], Sums(u, HeaderParts(kk))
  PROVE  /\ Alike(u[i - 1], g[i - 1], Len(g[i - 2]) + 1)
         /\ Len(u[i - 2]) = Len(g[i - 2]) /\ Len(g[i - 2]) \in Nat
         /\ Len(g[i - 2]) + 1 \in 1..Len(g[i - 1])
         /\ g[i - 1][Len(g[i - 2]) + 1] = TypeAt(kinds, i)
  <1>1. PICK n \in Nat : n = Len(kinds) /\ Len(kk) = n + 1 /\ i \in 1..(n + 1)
    BY DEF Inserted
  <1>2. PICK s, t : s = HeaderParts(kinds) /\ t = HeaderParts(kk)
    OBVIOUS
  <1>3. /\ s \in Seq(Seq(Nat)) /\ Len(s) = n /\ t \in Seq(Seq(Nat)) /\ Len(t) = n + 1
    BY <1>1, <1>2, PartsAre DEF Inserted
  <1>4. i \in Nat /\ i - 2 \in Nat /\ i - 2 \in 0..n /\ i - 1 \in 1..n /\ i - 2 = (i - 1) - 1
    BY <1>1
  <1>5. u[i - 2] = g[i - 2]
    <2>1. \A j \in 1..(i - 2) : t[j] = s[j]
      BY <1>2, InsertedParts
    <2>2. AlikeUpTo(i - 2, s, t)
      BY <1>3, <1>4, <2>1 DEF AlikeUpTo
    <2>3. SameAt(i - 2, g, u)
      BY <1>2, <1>3, <1>4, <2>2, SumsAgree
    <2> QED
      BY <2>3 DEF SameAt
  <1>6. PICK a, b, b2, k : a = g[i - 2] /\ b = s[i - 1] /\ b2 = t[i - 1] /\ k = kinds[i - 1]
    OBVIOUS
  <1>7. a \in Seq(Nat) /\ Len(a) \in Nat
    <2>1. i - 2 \in 0..Len(kinds)
      BY <1>1, <1>4
    <2>2. g[i - 2] \in Seq(Nat)
      BY <2>1
    <2> QED
      BY <1>6, <2>2
  <1>8. PartIs(b, TypeAt(kinds, i), k) /\ PartIs(b2, 44, k) /\ k \in Kinds
    <2>1. kinds \in Seq(Kinds) /\ i - 1 \in 1..Len(kinds) /\ (i - 1) + 1 = i
      BY <1>1, <1>4 DEF Inserted
    <2>2. PartIs(b, TypeAt(kinds, (i - 1) + 1), k)
      BY <1>2, <1>6, <2>1, PartsAre
    <2>3. PartIs(b2, 44, k)
      BY <1>2, <1>6, InsertedParts
    <2> QED
      BY <1>6, <2>1, <2>2, <2>3
  <1>9. g[i - 1] = a \o b /\ u[i - 1] = a \o b2
    <2>1. i - 1 \in 1..Len(s) /\ i - 1 \in 1..Len(t)
      BY <1>3, <1>4
    <2>2. g[i - 1] = g[(i - 1) - 1] \o s[i - 1] /\ u[i - 1] = u[(i - 1) - 1] \o t[i - 1]
      BY <1>2, <2>1 DEF Sums
    <2> QED
      BY <1>4, <1>5, <1>6, <2>2
  <1>10. /\ b \in Seq(Nat) /\ b2 \in Seq(Nat) /\ b = <<TypeAt(kinds, i)>> \o Body[k] /\ b2 = <<44>> \o Body[k]
         /\ Len(b) = Takes[k] /\ Len(b2) = Takes[k] /\ b[1] = TypeAt(kinds, i)
    BY <1>8 DEF PartIs
  <1>11. PICK l \in Nat, m \in Nat : l = Len(a) /\ m = Takes[k] /\ m >= 8
    BY <1>7, <1>8, BodyIs
  <1>12. \A q \in 1..m : q # 1 => b[q] = b2[q]
    <2>1. PICK e, e2, d : e = <<TypeAt(kinds, i)>> /\ e2 = <<44>> /\ d = Body[k]
      OBVIOUS
    <2>2. d \in Seq(Nat) /\ Len(d) + 1 = m
      BY <1>8, <1>11, <2>1, BodyIs
    <2>3. e \in Seq(Nat) /\ Len(e) = 1 /\ e2 \in Seq(Nat) /\ Len(e2) = 1
      <3>1. TypeAt(kinds, i) \in Nat
        <4>1. i \in Nat /\ i >= 1 /\ kinds \in Seq(Kinds)
          BY <1>4 DEF Inserted
        <4> QED
          BY <4>1, TypeAtNat
      <3> QED
        BY <2>1, <3>1
    <2>4. Joined(b, e, d) /\ Joined(b2, e2, d)
      BY <1>10, <2>1, <2>2, <2>3, Join
    <2>5. Behind(b, 1, d) /\ Behind(b2, 1, d)
      BY <2>3, <2>4, JoinedBack
    <2>6. ASSUME NEW q \in 1..m, q # 1 PROVE b[q] = b2[q]
      <3>1. q - 1 \in 1..Len(d) /\ 1 + (q - 1) = q
        BY <2>2, <2>6
      <3>2. b[1 + (q - 1)] = d[q - 1] /\ b2[1 + (q - 1)] = d[q - 1]
        BY <2>5, <3>1 DEF Behind
      <3> QED
        BY <3>1, <3>2
    <2> QED
      BY <2>6
  <1>13. PICK ab, ab2 : ab = g[i - 1] /\ ab2 = u[i - 1] /\ Joined(ab, a, b) /\ Joined(ab2, a, b2)
    BY <1>7, <1>9, <1>10, Join
  <1>14. ab \in Seq(Nat) /\ ab2 \in Seq(Nat) /\ Len(ab) = l + m /\ Len(ab2) = l + m
    <2>1. ab \in Seq(Nat) /\ Len(ab) = Len(a) + Len(b)
      BY <1>13, JoinedLen
    <2>2. ab2 \in Seq(Nat) /\ Len(ab2) = Len(a) + Len(b2)
      BY <1>13, JoinedLen
    <2> QED
      BY <1>10, <1>11, <2>1, <2>2
  <1>15. \A q \in 1..l : ab[q] = a[q] /\ ab2[q] = a[q]
    <2>1. \A q \in 1..Len(a) : ab[q] = a[q]
      BY <1>13, JoinedFront
    <2>2. \A q \in 1..Len(a) : ab2[q] = a[q]
      BY <1>13, JoinedFront
    <2> QED
      BY <1>11, <2>1, <2>2
  <1>16. \A q \in 1..m : ab[l + q] = b[q] /\ ab2[l + q] = b2[q]
    <2>1. Behind(ab, l, b)
      BY <1>11, <1>13, JoinedBack
    <2>2. Behind(ab2, l, b2)
      BY <1>11, <1>13, JoinedBack
    <2> QED
      BY <1>10, <1>11, <2>1, <2>2 DEF Behind
  <1>17. ASSUME NEW q \in 1..(l + m), q # l + 1 PROVE ab2[q] = ab[q]
    <2>1. CASE q <= l
      <3>1. q \in 1..l
        BY <2>1
      <3> QED
        BY <1>15, <3>1
    <2>2. CASE q > l
      <3>1. q - l \in 1..m /\ q - l # 1 /\ l + (q - l) = q
        BY <1>17, <2>2
      <3>2. ab[l + (q - l)] = b[q - l] /\ ab2[l + (q - l)] = b2[q - l] /\ b[q - l] = b2[q - l]
        BY <1>12, <1>16, <3>1
      <3> QED
        BY <3>1, <3>2
    <2> QED
      BY <2>1, <2>2
  <1>18. Alike(ab2, ab, l + 1)
    BY <1>14, <1>17 DEF Alike
  <1>19. l + 1 \in 1..Len(ab) /\ ab[l + 1] = TypeAt(kinds, i)
    <2>1. 1 \in 1..m
      BY <1>11
    <2>2. ab[l + 1] = b[1]
      BY <1>16, <2>1
    <2>3. l + 1 \in 1..(l + m)
      BY <1>11
    <2> QED
      BY <1>10, <1>14, <2>2, <2>3
  <1> QED
    BY <1>5, <1>6, <1>11, <1>13, <1>18, <1>19

\* The packet with the new header and the one without: x and what follows it,
\* x2 and the new header and the same.
Spliced(cut, whole, x2, x, f, tail, p, n, t) ==
    /\ Joined(whole, x, tail) /\ PartIs(f, t, "frag")
    /\ \E ft : Joined(ft, f, tail) /\ Joined(cut, x2, ft)
    /\ Fronts(x2, x, p, n, t) /\ Len(whole) = 40 + n

PlaceOf(u, i) == (IF i = 1 THEN 6 ELSE 40 + Len(u[i - 2])) + 1

LEMMA FrontsAre ==
  ASSUME NEW kk, NEW kinds, NEW i, Inserted(kk, kinds, i),
         NEW whole, NEW g, NEW h, NEW rest, Holds(whole, kinds, g, h, rest),
         NEW cut, NEW u, NEW h2, NEW rest2, Holds(cut, kk, u, h2, rest2),
         NEW x, Joined(x, h, g[i - 1]), NEW x2, Joined(x2, h2, u[i - 1])
  PROVE  Fronts(x2, x, PlaceOf(u, i), Len(rest), TypeAt(kinds, i))
  <1>1. /\ kinds \in Seq(Kinds) /\ g \in [0..Len(kinds) -> Seq(Nat)] /\ Sums(g, HeaderParts(kinds))
        /\ kk \in Seq(Kinds) /\ u \in [0..Len(kk) -> Seq(Nat)] /\ Sums(u, HeaderParts(kk))
    BY DEF Holds
  <1>2. PICK n \in Nat : n = Len(kinds) /\ Len(kk) = n + 1 /\ i \in 1..(n + 1)
    BY DEF Inserted
  <1>3. Len(rest) \in Nat /\ Len(rest2) \in Nat /\ Len(h) = 40 /\ Len(h2) = 40
    <2>1. rest \in Seq(Nat) /\ Len(h) = 40
      BY HoldsLens
    <2>2. rest2 \in Seq(Nat) /\ Len(h2) = 40
      BY HoldsLens
    <2> QED
      BY <2>1, <2>2
  <1>4. TypeAt(kinds, 1) \in Nat /\ TypeAt(kk, 1) \in Nat /\ TypeAt(kinds, i) \in Nat
    <2>1. 1 \in Nat /\ 1 >= 1 /\ i \in Nat /\ i >= 1
      BY <1>2
    <2> QED
      BY <1>1, <2>1, TypeAtNat
  <1>5. /\ HeadRest(h) /\ h[7] = TypeAt(kinds, 1) /\ Behind(h, 4, Word(Len(rest)))
        /\ HeadRest(h2) /\ h2[7] = TypeAt(kk, 1)
    <2>1. /\ h = Ip6Header(Len(rest), TypeAt(kinds, 1), 64, Zeros(16), Zeros(16))
          /\ h2 = Ip6Header(Len(rest2), TypeAt(kk, 1), 64, Zeros(16), Zeros(16))
      BY DEF Holds
    <2>2. h[7] = TypeAt(kinds, 1) /\ Behind(h, 4, Word(Len(rest)))
      BY <1>3, <1>4, <2>1, HeadIs DEF Header6
    <2>3. h2[7] = TypeAt(kk, 1)
      BY <1>3, <1>4, <2>1, HeadIs DEF Header6
    <2>4. HeadRest(h) /\ HeadRest(h2)
      BY <1>3, <1>4, <2>1, HeadMore
    <2> QED
      BY <2>2, <2>3, <2>4
  <1>6. \A q \in 1..40 : q \notin {5, 6, 7} => h2[q] = h[q]
    <2>1. HeadRest(h) /\ HeadRest(h2)
      BY <1>5
    <2>2. \A q \in 1..40 : q \notin {5, 6, 7} => h[q] = IF q = 1 THEN 96 ELSE IF q = 8 THEN 64 ELSE 0
      BY <2>1 DEF HeadRest
    <2>3. \A q \in 1..40 : q \notin {5, 6, 7} => h2[q] = IF q = 1 THEN 96 ELSE IF q = 8 THEN 64 ELSE 0
      BY <2>1 DEF HeadRest
    <2> QED
      BY <2>2, <2>3
  <1>7. PICK a, a2 : a = g[i - 1] /\ a2 = u[i - 1]
    OBVIOUS
  <1>8. a \in Seq(Nat) /\ a2 \in Seq(Nat) /\ Len(a) = Len(a2)
    <2>1. CASE i = 1
      <3>1. a = <<>> /\ a2 = <<>>
        <4>1. g[0] = <<>> /\ u[0] = <<>> /\ i - 1 = 0
          BY <1>1, <2>1 DEF Sums
        <4> QED
          BY <1>7, <4>1
      <3> QED
        BY <3>1
    <2>2. CASE i > 1
      BY <1>1, <1>7, <2>2, InsertedFront DEF Alike
    <2> QED
      BY <1>2, <2>1, <2>2
  <1>9. PICK l \in Nat : l = Len(a) /\ l = Len(a2)
    BY <1>8
  <1>10. Joined(x, h, a) /\ Joined(x2, h2, a2)
    BY <1>7
  <1>11. x \in Seq(Nat) /\ x2 \in Seq(Nat) /\ Len(x) = 40 + l /\ Len(x2) = 40 + l /\ h \in Seq(Nat)
    <2>1. x \in Seq(Nat) /\ Len(x) = Len(h) + Len(a) /\ h \in Seq(Nat)
      BY <1>10, JoinedLen
    <2>2. x2 \in Seq(Nat) /\ Len(x2) = Len(h2) + Len(a2)
      BY <1>10, JoinedLen
    <2> QED
      BY <1>3, <1>9, <2>1, <2>2
  <1>12. \A q \in 1..40 : x[q] = h[q] /\ x2[q] = h2[q]
    <2>1. \A q \in 1..Len(h) : x[q] = h[q]
      BY <1>10, JoinedFront
    <2>2. \A q \in 1..Len(h2) : x2[q] = h2[q]
      BY <1>10, JoinedFront
    <2> QED
      BY <1>3, <2>1, <2>2
  <1>13. \A q \in 1..l : x[40 + q] = a[q] /\ x2[40 + q] = a2[q]
    <2>1. Behind(x, 40, a)
      BY <1>3, <1>10, JoinedBack
    <2>2. Behind(x2, 40, a2)
      BY <1>3, <1>10, JoinedBack
    <2> QED
      BY <1>9, <2>1, <2>2 DEF Behind
  <1>14. Behind(x, 4, Word(Len(rest)))
    <2>1. PICK w : w = Word(Len(rest))
      OBVIOUS
    <2>4. w \in Seq(Nat) /\ Len(w) = 2
      BY <1>3, <2>1, WordType
    <2>2. w \in Seq(Nat) /\ Len(w) = 2 /\ 4 \in Nat /\ 4 + Len(w) <= Len(h)
      BY <1>3, <2>4
    <2>3. Behind(x, 4, w)
      BY <1>5, <1>10, <2>1, <2>2, BehindJoined
    <2> QED
      BY <2>1, <2>3
  <1>15. CASE i = 1
    <2>1. PlaceOf(u, i) = 7
      BY <1>15 DEF PlaceOf
    <2>2. l = 0
      <3>1. g[0] = <<>> /\ i - 1 = 0
        BY <1>1, <1>15 DEF Sums
      <3>2. a = <<>>
        BY <1>7, <3>1
      <3> QED
        BY <1>9, <3>2
    <2>3. \A q \in 1..Len(x) : q \notin {5, 6} /\ q # 7 => x2[q] = x[q]
      <3>1. ASSUME NEW q \in 1..Len(x), q \notin {5, 6}, q # 7 PROVE x2[q] = x[q]
        <4>1. q \in 1..40 /\ q \notin {5, 6, 7}
          BY <1>11, <2>2, <3>1
        <4>2. h2[q] = h[q]
          BY <1>6, <4>1
        <4>3. x[q] = h[q] /\ x2[q] = h2[q]
          BY <1>12, <4>1
        <4> QED
          BY <4>2, <4>3
      <3> QED
        BY <3>1
    <2>4. 7 \in 7..Len(x) /\ 40 <= Len(x) /\ 7 \in 1..40
      BY <1>11, <2>2
    <2>5. x[7] = TypeAt(kinds, i)
      BY <1>5, <1>12, <1>15, <2>4
    <2> QED
      BY <1>3, <1>4, <1>11, <1>14, <2>1, <2>3, <2>4, <2>5 DEF Fronts
  <1>16. CASE i > 1
    <2>1. PICK m \in Nat : m = Len(g[i - 2]) /\ m = Len(u[i - 2])
      BY <1>1, <1>16, InsertedFront
    <2>2. Alike(a2, a, m + 1) /\ m + 1 \in 1..l /\ a[m + 1] = TypeAt(kinds, i)
      <3>1. /\ Alike(u[i - 1], g[i - 1], Len(g[i - 2]) + 1)
            /\ Len(g[i - 2]) + 1 \in 1..Len(g[i - 1])
            /\ g[i - 1][Len(g[i - 2]) + 1] = TypeAt(kinds, i)
        <4>1. Alike(u[i - 1], g[i - 1], Len(g[i - 2]) + 1)
          BY <1>1, <1>16, InsertedFront, SMTT(30)
        <4>2. Len(g[i - 2]) + 1 \in 1..Len(g[i - 1])
          BY <1>1, <1>16, InsertedFront, SMTT(30)
        <4>3. g[i - 1][Len(g[i - 2]) + 1] = TypeAt(kinds, i)
          BY <1>1, <1>16, InsertedFront, SMTT(30)
        <4> QED
          BY <4>1, <4>2, <4>3
      <3>2. Len(g[i - 2]) = m /\ g[i - 1] = a /\ u[i - 1] = a2 /\ Len(a) = l
        BY <1>7, <1>9, <2>1
      <3> QED
        BY <3>1, <3>2, Zenon
    <2>3. PlaceOf(u, i) = 40 + (m + 1)
      <3>1. i # 1
        BY <1>16
      <3>2. PlaceOf(u, i) = (40 + m) + 1
        BY <2>1, <3>1 DEF PlaceOf
      <3> QED
        BY <3>2
    <2>4. h2[7] = h[7]
      <3>1. 1 \in 1..(i - 1)
        BY <1>2, <1>16
      <3>2. TypeAt(kk, 1) = TypeAt(kinds, 1)
        BY <3>1, InsertedTypes
      <3> QED
        BY <1>5, <3>2
    <2>5. \A q \in 1..40 : q \notin {5, 6} => x2[q] = x[q]
      BY <1>6, <1>12, <2>4
    <2>6. \A q \in 1..l : q # m + 1 => x2[40 + q] = x[40 + q]
      BY <1>9, <1>13, <2>2 DEF Alike
    <2>7. ASSUME NEW q \in 1..Len(x), q \notin {5, 6}, q # 40 + (m + 1) PROVE x2[q] = x[q]
      <3>1. CASE q <= 40
        <4>1. q \in 1..40
          BY <3>1
        <4> QED
          BY <2>5, <2>7, <4>1
      <3>2. CASE q > 40
        <4>1. q - 40 \in 1..l /\ q - 40 # m + 1 /\ 40 + (q - 40) = q
          BY <1>11, <2>7, <3>2
        <4>2. x2[40 + (q - 40)] = x[40 + (q - 40)]
          BY <2>6, <4>1
        <4> QED
          BY <4>1, <4>2
      <3> QED
        BY <3>1, <3>2
    <2>8. 40 + (m + 1) \in 7..Len(x) /\ 40 <= Len(x)
      BY <1>11, <2>2
    <2>9. x[40 + (m + 1)] = TypeAt(kinds, i)
      BY <1>13, <2>2
    <2> QED
      BY <1>3, <1>4, <1>11, <1>14, <2>3, <2>7, <2>8, <2>9 DEF Fronts
  <1> QED
    BY <1>2, <1>15, <1>16

LEMMA SplicedIs ==
  ASSUME NEW kk, NEW kinds, NEW i, Inserted(kk, kinds, i),
         NEW whole, NEW g, NEW h, NEW rest, Holds(whole, kinds, g, h, rest),
         NEW cut, NEW u, NEW h2, NEW rest2, Holds(cut, kk, u, h2, rest2)
  PROVE  \E x2, x, f, tail :
            /\ Spliced(cut, whole, x2, x, f, tail, PlaceOf(u, i), Len(rest), TypeAt(kinds, i))
            /\ Len(x2) = 40 + Len(u[i - 1])
  <1>1. /\ kinds \in Seq(Kinds) /\ g \in [0..Len(kinds) -> Seq(Nat)] /\ Sums(g, HeaderParts(kinds))
        /\ kk \in Seq(Kinds) /\ u \in [0..Len(kk) -> Seq(Nat)] /\ Sums(u, HeaderParts(kk))
        /\ Joined(rest, g[Len(kinds)], Eight) /\ Joined(whole, h, rest)
        /\ Joined(rest2, u[Len(kk)], Eight) /\ Joined(cut, h2, rest2)
    BY DEF Holds
  <1>2. PICK n \in Nat : n = Len(kinds) /\ Len(kk) = n + 1 /\ i \in 1..(n + 1)
    BY DEF Inserted
  <1>3. PICK s, t : s = HeaderParts(kinds) /\ t = HeaderParts(kk)
    OBVIOUS
  <1>4. s \in Seq(Seq(Nat)) /\ Len(s) = n /\ t \in Seq(Seq(Nat)) /\ Len(t) = n + 1
    BY <1>1, <1>2, <1>3, PartsAre
  <1>5. PICK r : r = [j \in 1..(n + 1 - i) |-> s[(i - 1) + j]]
    OBVIOUS
  <1>6. r \in Seq(Seq(Nat)) /\ Len(r) = n + 1 - i /\ \A j \in 1..(n + 1 - i) : r[j] = s[(i - 1) + j]
    <2>1. \A j \in 1..(n + 1 - i) : (i - 1) + j \in 1..Len(s)
      BY <1>2, <1>4
    <2>2. \A j \in 1..(n + 1 - i) : s[(i - 1) + j] \in Seq(Nat)
      BY <1>4, <2>1
    <2>3. n + 1 - i \in Nat
      BY <1>2
    <2>4. r \in [1..(n + 1 - i) -> Seq(Nat)]
      BY <1>5, <2>2
    <2> QED
      BY <1>5, <2>3, <2>4
  <1>7. TailOf(r, s, i - 1)
    <2>1. i - 1 \in Nat /\ Len(s) = (i - 1) + Len(r)
      BY <1>2, <1>4, <1>6
    <2>2. \A j \in 1..Len(r) : r[j] = s[(i - 1) + j]
      BY <1>6
    <2> QED
      BY <1>4, <1>6, <2>1, <2>2 DEF TailOf
  <1>8. TailOf(r, t, i)
    <2>1. i \in Nat /\ Len(t) = i + Len(r)
      BY <1>2, <1>4, <1>6
    <2>2. \A j \in i..n : t[j + 1] = s[j]
      BY <1>2, <1>3, InsertedParts
    <2>3. \A j \in 1..Len(r) : (i - 1) + j \in i..n /\ ((i - 1) + j) + 1 = i + j
      BY <1>2, <1>6
    <2>4. \A j \in 1..Len(r) : t[((i - 1) + j) + 1] = s[(i - 1) + j]
      BY <2>2, <2>3
    <2>5. \A j \in 1..Len(r) : r[j] = t[i + j]
      BY <1>6, <2>3, <2>4
    <2> QED
      BY <1>4, <1>6, <2>1, <2>5 DEF TailOf
  <1>9. PICK b \in [0..Len(r) -> Seq(Nat)] : Sums(b, r)
    BY <1>6, SumsExist
  <1>10. PICK c : c = b[Len(r)] /\ c \in Seq(Nat)
    <2>1. Len(r) \in 0..Len(r)
      BY <1>6
    <2> QED
      BY <1>9, <2>1
  <1>11. g \in [0..Len(s) -> Seq(Nat)] /\ u \in [0..Len(t) -> Seq(Nat)] /\ Sums(g, s) /\ Sums(u, t)
    BY <1>1, <1>2, <1>3, <1>4, Zenon
  <1>12. Joined(g[Len(kinds)], g[i - 1], c)
    <2>1. Joined(g[Len(s)], g[i - 1], b[Len(r)])
      BY <1>7, <1>9, <1>11, SumsSplit
    <2> QED
      BY <1>2, <1>4, <1>10, <2>1, Zenon
  <1>13. Joined(u[Len(kk)], u[i], c)
    <2>1. Joined(u[Len(t)], u[i], b[Len(r)])
      BY <1>8, <1>9, <1>11, SumsSplit
    <2> QED
      BY <1>2, <1>4, <1>10, <2>1, Zenon
  <1>14. PICK tail : Joined(tail, c, Eight)
    BY <1>10, EightIs, SomeJoined
  <1>15. Joined(rest, g[i - 1], tail)
    BY <1>1, <1>12, <1>14, RegroupRight
  <1>16. Joined(rest2, u[i], tail)
    BY <1>1, <1>13, <1>14, RegroupRight
  <1>17. PICK f : f = t[i] /\ PartIs(f, TypeAt(kinds, i), "frag")
    BY <1>3, InsertedParts
  <1>18. f \in Seq(Nat) /\ g[i - 1] \in Seq(Nat) /\ u[i - 1] \in Seq(Nat)
    <2>1. i - 1 \in 0..Len(kinds) /\ i - 1 \in 0..Len(kk)
      BY <1>2
    <2> QED
      BY <1>1, <1>17, <2>1 DEF PartIs
  <1>19. Joined(u[i], u[i - 1], f)
    <2>1. i \in 1..Len(t)
      BY <1>2, <1>4
    <2>2. u[i] = u[i - 1] \o t[i]
      BY <1>11, <2>1 DEF Sums
    <2> QED
      BY <1>17, <1>18, <2>2, Join
  <1>20. tail \in Seq(Nat)
    BY <1>14, JoinedLen
  <1>21. PICK ft : Joined(ft, f, tail)
    BY <1>18, <1>20, SomeJoined
  <1>22. Joined(rest2, u[i - 1], ft)
    BY <1>16, <1>19, <1>21, RegroupRight
  <1>23. h \in Seq(Nat) /\ h2 \in Seq(Nat)
    BY HoldsLens
  <1>24. PICK x : Joined(x, h, g[i - 1])
    BY <1>18, <1>23, SomeJoined
  <1>25. PICK x2 : Joined(x2, h2, u[i - 1])
    BY <1>18, <1>23, SomeJoined
  <1>26. Joined(whole, x, tail)
    BY <1>1, <1>15, <1>24, RegroupLeft
  <1>27. Joined(cut, x2, ft)
    BY <1>1, <1>22, <1>25, RegroupLeft
  <1>28. Fronts(x2, x, PlaceOf(u, i), Len(rest), TypeAt(kinds, i))
    BY <1>24, <1>25, FrontsAre
  <1>29. Len(x2) = 40 + Len(u[i - 1])
    <2>1. Len(x2) = Len(h2) + Len(u[i - 1])
      BY <1>25, JoinedLen
    <2>2. Len(h2) = 40
      BY HoldsLens
    <2> QED
      BY <2>1, <2>2
  <1>30. Len(whole) = 40 + Len(rest)
    <2>1. Len(rest) = Len(g[Len(kinds)]) + 8 /\ Len(whole) = 40 + (Len(g[Len(kinds)]) + 8)
      BY HoldsLens
    <2> QED
      BY <2>1
  <1>31. Spliced(cut, whole, x2, x, f, tail, PlaceOf(u, i), Len(rest), TypeAt(kinds, i))
    BY <1>17, <1>21, <1>26, <1>27, <1>28, <1>30, Zenon DEF Spliced
  <1> QED
    BY <1>29, <1>31

\* The packet rebuilt is the one that was fragmented.
Fitting(n) == ~(n > MaxLength)

Rebuildable(pre, k, t, payload, cap, n) ==
    /\ n = Len(pre) - 40 + Len(payload) /\ Fitting(n) /\ t \in Nat
    /\ ~(Len(pre) < 40) /\ ~(k >= Len(pre)) /\ ~(Len(pre) + Len(payload) > cap)

RebuiltBy(pre, k, t, payload, cap, n) ==
    ip6_reasm_rebuild(pre, k, t, payload, cap) = Put(Put(pre, 5, Word(n)), k + 1, <<t>>) \o payload

LEMMA Rebuilds ==
  ASSUME NEW pre, NEW k, NEW t, NEW payload, NEW cap, NEW n, Rebuildable(pre, k, t, payload, cap, n)
  PROVE  RebuiltBy(pre, k, t, payload, cap, n)
  BY Zenon DEF ip6_reasm_rebuild, Fitting, Rebuildable, RebuiltBy

LEMMA RebuildsIt ==
  ASSUME NEW cut, NEW whole, NEW x2, NEW x, NEW f, NEW tail, NEW p, NEW n, NEW t,
         Spliced(cut, whole, x2, x, f, tail, p, n, t), Fitting(n)
  PROVE  /\ ip6_reasm_rebuild(SubSeq(cut, 1, Len(x2)), p - 1, t, From(cut, (Len(x2) + 8) + 1), Len(whole))
            = whole
         /\ Behind(cut, Len(x2), f) /\ Len(x2) + 8 <= Len(cut) /\ Len(cut) \in Nat
  <1>1. PICK ft : Joined(ft, f, tail) /\ Joined(cut, x2, ft)
    BY DEF Spliced
  <1>2. /\ Joined(whole, x, tail) /\ PartIs(f, t, "frag") /\ Fronts(x2, x, p, n, t) /\ Len(whole) = 40 + n
    BY DEF Spliced
  <1>3. f \in Seq(Nat) /\ Len(f) = 8
    BY <1>2, KindFacts DEF PartIs
  <1>4. /\ x \in Seq(Nat) /\ x2 \in Seq(Nat) /\ Len(x2) = Len(x) /\ 40 <= Len(x) /\ Len(x) \in Nat
        /\ n \in Nat /\ t \in Nat /\ p \in 7..Len(x)
    BY <1>2 DEF Fronts
  <1>5. PICK l \in Nat, m \in Nat : l = Len(x2) /\ m = Len(tail) /\ l + m = 40 + n
    <2>1. Len(whole) = Len(x) + Len(tail) /\ Len(tail) \in Nat
      BY <1>2, JoinedLen
    <2> QED
      BY <1>2, <1>4, <2>1
  <1>6. SubSeq(cut, 1, Len(x2)) = x2
    BY <1>1, JoinedFront
  <1>7. PICK xf : Joined(xf, x2, f)
    BY <1>3, <1>4, SomeJoined
  <1>8. Joined(cut, xf, tail)
    BY <1>1, <1>7, RegroupLeft
  <1>9. Len(xf) = Len(x2) + 8
    BY <1>3, <1>7, JoinedLen
  <1>10. From(cut, (Len(x2) + 8) + 1) = tail
    BY <1>8, <1>9, JoinedEnd
  <1>11. /\ ~(l < 40) /\ ~(p - 1 >= l) /\ l - 40 + m = n /\ ~(l + m > Len(whole))
         /\ (p - 1) + 1 = p
    BY <1>2, <1>4, <1>5
  <1>12. Put(Put(x2, 5, Word(n)), p, <<t>>) = x
    BY <1>2, FrontRepaired
  <1>13. x \o tail = whole
    BY <1>2 DEF Joined
  <1>14. ip6_reasm_rebuild(x2, p - 1, t, tail, Len(whole)) = whole
    <2>1. PICK k : k = p - 1 /\ k + 1 = p /\ ~(k >= l)
      BY <1>11
    <2>2. /\ ~(Len(x2) < 40) /\ ~(k >= Len(x2)) /\ n = Len(x2) - 40 + Len(tail)
          /\ ~(Len(x2) + Len(tail) > Len(whole))
      BY <1>5, <1>11, <2>1
    <2>3. ip6_reasm_rebuild(x2, k, t, tail, Len(whole)) = Put(Put(x2, 5, Word(n)), k + 1, <<t>>) \o tail
      <3>1. Rebuildable(x2, k, t, tail, Len(whole), n)
        BY <1>4, <2>2, Zenon DEF Rebuildable
      <3>2. RebuiltBy(x2, k, t, tail, Len(whole), n)
        BY <3>1, Rebuilds
      <3> QED
        BY <3>2, Zenon DEF RebuiltBy
    <2>4. ip6_reasm_rebuild(x2, k, t, tail, Len(whole)) = whole
      BY <1>12, <1>13, <2>1, <2>3, Zenon
    <2> QED
      BY <2>1, <2>4
  <1>15. Behind(cut, Len(x2), f)
    <2>1. Behind(xf, Len(x2), f)
      BY <1>7, JoinedBack
    <2>2. Len(x2) \in Nat /\ Len(x2) + Len(f) <= Len(xf)
      BY <1>3, <1>5, <1>9
    <2> QED
      BY <1>3, <1>8, <2>1, <2>2, BehindJoined
  <1>16. Len(x2) + 8 <= Len(cut) /\ Len(cut) \in Nat
    <2>1. Len(cut) = Len(xf) + Len(tail) /\ Len(cut) \in Nat
      BY <1>8, JoinedLen
    <2> QED
      BY <1>5, <1>9, <2>1
  <1> QED
    BY <1>6, <1>10, <1>14, <1>15, <1>16

-----------------------------------------------------------------------------
(* The Fragment header is found and taken out again.                        *)

LEMMA FragmentBytes ==
  ASSUME NEW f, NEW t, PartIs(f, t, "frag")
  PROVE  Len(f) = 8 /\ f[1] = t /\ f[3] = 0 /\ f[4] = 1
  <1>1. f = <<t>> \o Body["frag"] /\ Len(f) = 8 /\ f[1] = t
    BY KindFacts DEF PartIs
  <1>2. PICK b : b = <<0, 0, 1, 9, 9, 9, 9>>
    OBVIOUS
  <1>3. b = Body["frag"] /\ b \in Seq(Nat) /\ Len(b) = 7 /\ b[2] = 0 /\ b[3] = 1
    BY <1>2 DEF Body
  <1>4. f = <<t>> \o b
    BY <1>1, <1>3
  <1>5. PICK a : a = <<t>>
    OBVIOUS
  <1>6. a \in Seq(Nat) /\ Len(a) = 1
    <2>1. f \in Seq(Nat) /\ 1 \in 1..Len(f)
      BY <1>1 DEF PartIs
    <2>2. t \in Nat
      BY <1>1, <2>1
    <2> QED
      BY <1>5, <2>2
  <1>7. f[1 + 2] = b[2] /\ f[1 + 3] = b[3]
    <2>1. Joined(f, a, b)
      BY <1>3, <1>4, <1>5, <1>6, Join
    <2>2. Behind(f, 1, b)
      BY <1>6, <2>1, JoinedBack
    <2>3. 2 \in 1..Len(b) /\ 3 \in 1..Len(b)
      BY <1>3
    <2> QED
      BY <2>2, <2>3 DEF Behind
  <1> QED
    BY <1>1, <1>3, <1>7

\* What is said of it.
Said(f, t, off, prev) ==
    f = [next_hdr |-> t, frag_off |-> 0, mf |-> TRUE, frag_data_off |-> off + 8, pre_frag_len |-> off,
         patch_off |-> prev]

LEMMA FragmentSaid ==
  ASSUME NEW pkt, NEW w, w = Walk(pkt, L4 \cup {Fragment}), w # Fail, w.nh = Fragment,
         w.off \in Nat, Len(pkt) \in Nat, w.off + 8 <= Len(pkt),
         NEW f, NEW t, PartIs(f, t, "frag"), Behind(pkt, w.off, f)
  PROVE  Said(ipv6_find_fragment(pkt), t, w.off, w.prev)
  <1>1. Len(f) = 8 /\ f[1] = t /\ f[3] = 0 /\ f[4] = 1
    BY FragmentBytes
  <1>2. PICK o \in Nat : o = w.off
    OBVIOUS
  <1>3. pkt[o + 1] = t /\ pkt[o + 3] = 0 /\ pkt[o + 4] = 1
    <2>1. 1 \in 1..Len(f) /\ 3 \in 1..Len(f) /\ 4 \in 1..Len(f)
      BY <1>1
    <2> QED
      BY <1>1, <1>2, <2>1 DEF Behind
  <1>4. At(pkt, w.off) = t /\ At(pkt, w.off + 2) = 0 /\ At(pkt, w.off + 3) = 1
    <2>1. o + 2 + 1 = o + 3 /\ o + 3 + 1 = o + 4
      BY <1>2
    <2> QED
      BY <1>2, <1>3, <2>1 DEF At
  <1>5. PICK ff : ff = At(pkt, w.off + 2) * 256 + At(pkt, w.off + 3)
    OBVIOUS
  <1>6. ff = 1
    BY <1>4, <1>5
  <1>7. (ff \div 8) * 8 = 0 /\ ff % 2 = 1
    BY <1>6
  <1>8. ~(w.off + 8 > Len(pkt))
    OBVIOUS
  <1>9. ipv6_find_fragment(pkt)
          = [next_hdr |-> At(pkt, w.off), frag_off |-> (ff \div 8) * 8, mf |-> ff % 2 = 1,
             frag_data_off |-> w.off + 8, pre_frag_len |-> w.off, patch_off |-> w.prev]
    BY <1>5, <1>8, Zenon DEF ipv6_find_fragment
  <1>10. (ff % 2 = 1) = TRUE
    BY <1>7
  <1> QED
    BY <1>4, <1>7, <1>9, <1>10, Zenon DEF Said

LEMMA SaidApart ==
  ASSUME NEW f, NEW t, NEW off, NEW prev, Said(f, t, off, prev)
  PROVE  f \notin {Fail, NoFragment} /\ f.mf /\ f.frag_off = 0
         /\ f.next_hdr = t /\ f.frag_data_off = off + 8 /\ f.pre_frag_len = off /\ f.patch_off = prev
  <1>1. DOMAIN f # DOMAIN Fail /\ DOMAIN f # DOMAIN NoFragment
    BY DEF Said, Fail, NoFragment
  <1>2. f.mf = TRUE
    BY DEF Said
  <1>3. f.frag_off = 0 /\ f.next_hdr = t /\ f.frag_data_off = off + 8 /\ f.pre_frag_len = off
        /\ f.patch_off = prev
    BY DEF Said
  <1> QED
    BY <1>1, <1>2, <1>3

\* A Fragment header is found at any of the first eight places in a chain, and
\* the packet rebuilt without it, from what stands in front of it and what it
\* carries, is the packet that was fragmented (ipv6_find_fragment,
\* ip6_reasm_rebuild).
THEOREM FragmentIsRead ==
  ASSUME NEW kinds \in Seq(Plain), NEW i \in 1..(Len(kinds) + 1), Fitting(Len(Chain(kinds)) + 8)
  PROVE  FragmentRead(kinds, i)
  <1>1. kinds \in Seq(Kinds) /\ \A j \in 1..Len(kinds) : kinds[j] \in Plain
    BY PlainKinds
  <1>2. PICK kk : kk = InsertAt(kinds, i, "frag") /\ Inserted(kk, kinds, i)
    BY <1>1, InsertedIs
  <1>3. kk \in Seq(Kinds) /\ \A j \in 1..(i - 1) : kk[j] = kinds[j]
    BY <1>2 DEF Inserted
  <1>4. PICK n \in Nat : n = Len(kinds) /\ Len(kk) = n + 1 /\ i \in 1..(n + 1)
    BY <1>2 DEF Inserted
  <1>5. PICK whole, g, h, rest : /\ whole = Chained(kinds) /\ Holds(whole, kinds, g, h, rest)
                                 /\ Chain(kinds) = g[Len(kinds)]
    BY <1>1, ChainedHolds
  <1>6. PICK cut, u, h2, rest2 : cut = Chained(kk) /\ Holds(cut, kk, u, h2, rest2)
    BY <1>3, ChainedHolds
  <1>7. PICK x2, x, f, tail :
           /\ Spliced(cut, whole, x2, x, f, tail, PlaceOf(u, i), Len(rest), TypeAt(kinds, i))
           /\ Len(x2) = 40 + Len(u[i - 1])
    BY <1>2, <1>5, <1>6, SplicedIs
  <1>8. Fitting(Len(rest))
    <2>1. Len(rest) = Len(g[Len(kinds)]) + 8
      BY <1>5, HoldsLens
    <2> QED
      BY <1>5, <2>1
  <1>9. PICK p, t, off : p = PlaceOf(u, i) /\ t = TypeAt(kinds, i) /\ off = Len(x2)
    OBVIOUS
  <1>10. /\ ip6_reasm_rebuild(SubSeq(cut, 1, off), p - 1, t, From(cut, (off + 8) + 1), Len(whole)) = whole
         /\ Behind(cut, off, f) /\ off + 8 <= Len(cut) /\ Len(cut) \in Nat
    BY <1>7, <1>8, <1>9, RebuildsIt
  <1>11. PartIs(f, t, "frag") /\ off \in Nat /\ 40 <= off
    <2>1. PartIs(f, t, "frag") /\ Fronts(x2, x, p, Len(rest), t)
      BY <1>7, <1>9 DEF Spliced
    <2>2. x2 \in Seq(Nat) /\ Len(x2) = Len(x) /\ 40 <= Len(x)
      BY <2>1 DEF Fronts
    <2> QED
      BY <1>9, <2>1, <2>2
  <1>12. PICK at : at = [j \in 0..Len(kk) |-> 40 + Len(u[j])]
    OBVIOUS
  <1>13. LaidOut(cut, kk, at)
    <2>1. cut \in Seq(Nat)
      BY <1>6, HoldsLens
    <2>2. SubSeq(cut, 1, Len(cut)) = cut
      BY <2>1, WholeFront
    <2>3. Len(cut) \in Nat /\ 40 <= Len(cut) /\ Len(cut) <= Len(cut)
      BY <1>10, <1>11
    <2>4. LaidOut(SubSeq(cut, 1, Len(cut)), kk, at)
      BY <1>6, <1>12, <2>3, CutLaid
    <2> QED
      BY <2>2, <2>4
  <1>14. \A j \in 1..(i - 1) : kk[j] \in Plain
    <2>1. \A j \in 1..(i - 1) : j \in 1..Len(kinds)
      BY <1>4
    <2> QED
      BY <1>1, <1>3, <2>1
  <1>15. \A j \in 1..(i - 1) : at[j] <= Len(cut)
    <2>1. ASSUME NEW j \in 1..(i - 1) PROVE at[j] <= Len(cut)
      <3>1. j \in 1..Len(kk) /\ j \in 0..Len(kk)
        BY <1>4
      <3>2. Len(u[j]) <= Len(u[Len(kk)])
        BY <1>6, <3>1, HeaderStands
      <3>3. Len(cut) = 40 + (Len(u[Len(kk)]) + 8) /\ Len(u[Len(kk)]) \in Nat
        BY <1>6, HoldsLens
      <3>4. Len(u[j]) \in Nat
        <4>1. u \in [0..Len(kk) -> Seq(Nat)]
          BY <1>6 DEF Holds
        <4> QED
          BY <3>1, <4>1
      <3>5. at[j] = 40 + Len(u[j])
        BY <1>12, <3>1
      <3> QED
        BY <3>2, <3>3, <3>4, <3>5
    <2> QED
      BY <2>1
  <1>16. L4 \cup {Fragment} \in Stops /\ Fragment = 44 /\ Fragment \in L4 \cup {Fragment} /\ MaxHops = 8
    BY DEF Stops, Fragment, MaxHops
  <1>17. CASE i <= 8
    <2>1. PICK k \in 0..7 : k = i - 1 /\ k <= Len(kk) /\ k + 1 = i
      BY <1>4, <1>17
    <2>2. \A j \in 1..k : kk[j] \in Plain /\ at[j] <= Len(cut)
      BY <1>14, <1>15, <2>1
    <2>3. TypeAt(kk, k + 1) = 44
      BY <1>2, <2>1, InsertedTypes
    <2>4. TypeAt(kk, k + 1) \in L4 \cup {Fragment}
      BY <1>16, <2>3
    <2>5. PICK w : w = Walk(cut, L4 \cup {Fragment}) /\ w = Where(kk, at, k)
      BY <1>13, <1>16, <2>1, <2>2, <2>4, WalkFinds
    <2>6. w.nh = Fragment /\ w.off = at[k] /\ w # Fail /\ w.prev = IF k = 0 THEN 6 ELSE at[k - 1]
      <3>1. w.nh = TypeAt(kk, k + 1) /\ w.off = at[k] /\ w.prev = IF k = 0 THEN 6 ELSE at[k - 1]
        BY <2>5 DEF Where
      <3>2. w # Fail
        BY <2>5, FailApart DEF Where
      <3> QED
        BY <1>16, <2>3, <3>1, <3>2
    <2>7. w.off = off
      <3>1. k \in 0..Len(kk)
        BY <1>4, <2>1
      <3>2. at[k] = 40 + Len(u[k])
        BY <1>12, <3>1
      <3> QED
        BY <1>7, <1>9, <2>1, <2>6, <3>2
    <2>8. w.prev = p - 1
      <3>1. CASE k = 0
        <4>1. i = 1
          BY <2>1, <3>1
        <4>2. p = 6 + 1
          BY <1>9, <4>1 DEF PlaceOf
        <4> QED
          BY <2>6, <3>1, <4>2
      <3>2. CASE k # 0
        <4>1. k - 1 \in 0..Len(kk) /\ i # 1 /\ i - 2 = k - 1
          BY <1>4, <2>1, <3>2
        <4>2. at[k - 1] = 40 + Len(u[k - 1]) /\ at[k - 1] \in Nat
          <5>1. at \in [0..Len(kk) -> Nat]
            BY <1>13 DEF LaidOut
          <5> QED
            BY <1>12, <4>1, <5>1
        <4>3. p = (40 + Len(u[i - 2])) + 1
          BY <1>9, <4>1 DEF PlaceOf
        <4>4. p = at[k - 1] + 1
          BY <4>1, <4>2, <4>3
        <4> QED
          BY <2>6, <3>2, <4>2, <4>4
      <3> QED
        BY <3>1, <3>2
    <2>9. PICK fr : fr = ipv6_find_fragment(cut) /\ Said(fr, t, off, p - 1)
      <3>1. w.off \in Nat /\ w.off + 8 <= Len(cut) /\ Behind(cut, w.off, f)
        BY <1>10, <1>11, <2>7
      <3>2. Said(ipv6_find_fragment(cut), t, w.off, w.prev)
        BY <1>10, <1>11, <2>5, <2>6, <3>1, FragmentSaid
      <3> QED
        BY <2>7, <2>8, <3>2
    <2>10. /\ fr \notin {Fail, NoFragment} /\ fr.mf /\ fr.frag_off = 0
           /\ fr.next_hdr = t /\ fr.frag_data_off = off + 8 /\ fr.pre_frag_len = off /\ fr.patch_off = p - 1
      BY <2>9, SaidApart
    <2>11. ip6_reasm_rebuild(SubSeq(cut, 1, fr.pre_frag_len), fr.patch_off, fr.next_hdr,
                             From(cut, fr.frag_data_off + 1), Len(whole)) = whole
      BY <1>10, <2>10, Zenon
    <2>12. ~(i > MaxHops)
      BY <1>4, <1>16, <1>17
    <2> QED
      BY <1>2, <1>5, <1>6, <2>9, <2>10, <2>11, <2>12, Zenon DEF FragmentRead
  <1>18. CASE i > 8
    <2>1. 8 <= Len(kk) /\ \A j \in 1..8 : j \in 1..(i - 1)
      BY <1>4, <1>18
    <2>2. \A j \in 1..8 : kk[j] \in Plain
      BY <1>14, <2>1
    <2>3. \A j \in 1..7 : at[j] <= Len(cut)
      <3>1. \A j \in 1..7 : j \in 1..8
        OBVIOUS
      <3> QED
        BY <1>15, <2>1, <3>1
    <2>4. Walk(cut, L4 \cup {Fragment}) = Fail
      BY <1>13, <1>16, <2>1, <2>2, <2>3, WalkTires
    <2>5. ipv6_find_fragment(cut) = Fail
      BY <2>4, Zenon DEF ipv6_find_fragment
    <2>6. i > MaxHops
      BY <1>16, <1>18
    <2> QED
      BY <1>2, <1>6, <2>5, <2>6, Zenon DEF FragmentRead
  <1> QED
    BY <1>4, <1>17, <1>18

\* A chain takes at most sixteen bytes for each of its headers.
LEMMA ChainLength ==
  ASSUME NEW kinds \in Seq(Kinds)
  PROVE  Len(Chain(kinds)) \in Nat /\ Len(Chain(kinds)) <= 16 * Len(kinds)
  <1>1. PICK g, h, rest : Holds(Chained(kinds), kinds, g, h, rest) /\ Chain(kinds) = g[Len(kinds)]
    BY ChainedHolds
  <1>2. PICK n \in Nat : n = Len(kinds)
    OBVIOUS
  <1>3. g \in [0..n -> Seq(Nat)] /\ Sums(g, HeaderParts(kinds))
    BY <1>1, <1>2 DEF Holds
  <1> DEFINE S == {m \in 0..n : Len(g[m]) \in Nat /\ Len(g[m]) <= 16 * m}
  <1>4. 0 \in S
    <2>1. g[0] = <<>>
      BY <1>3 DEF Sums
    <2>2. Len(g[0]) = 0
      BY <2>1
    <2> QED
      BY <1>2, <2>2
  <1>5. ASSUME NEW m \in 1..n, m - 1 \in S PROVE m \in S
    <2>1. kinds[m] \in Kinds /\ m \in 1..Len(kinds)
      BY <1>2
    <2>2. Len(g[m]) = Len(g[m - 1]) + Takes[kinds[m]] /\ Len(g[m - 1]) \in Nat
      BY <1>1, <2>1, HeaderStands
    <2>3. PICK a \in Nat, k \in Nat : a = Len(g[m - 1]) /\ k = Takes[kinds[m]] /\ k <= 16
      BY <2>1, <2>2, BodyIs
    <2>4. a <= 16 * (m - 1)
      BY <1>5, <2>3
    <2>5. a + k <= 16 * m /\ a + k \in Nat
      BY <1>2, <2>3, <2>4
    <2>6. Len(g[m]) = a + k
      BY <2>2, <2>3
    <2> QED
      BY <1>2, <2>5, <2>6
  <1>6. \A m \in S : Len(g[m]) \in Nat /\ Len(g[m]) <= 16 * m
    OBVIOUS
  <1> HIDE DEF S
  <1>7. \A m \in 0..n : m \in S
    BY <1>2, <1>4, <1>5, UpTo
  <1>8. n \in S
    BY <1>7
  <1> QED
    BY <1>1, <1>2, <1>6, <1>8

\* The input, when it is a chain of headers.
LEMMA HeadersCarried ==
  ASSUME WireTypeOK, Room, subject = "headers"
  PROVE  input \in Seq(Plain) /\ Fitting(Len(Chain(input)) + 8)
  <1>1. input \in Seq(Plain)
    BY DEF WireTypeOK, Alphabet, Plain
  <1>2. Len(input) \in Nat /\ Len(input) <= MaxInput[subject]
    BY <1>1 DEF Room
  <1>3. MaxInput[subject] \in Nat /\ MaxInput[subject] <= 4000
    <2>1. "headers" \in DOMAIN Alphabet
      BY DEF Alphabet
    <2> QED
      BY <2>1, WireAssumption
  <1>4. Len(input) <= 4000
    BY <1>2, <1>3
  <1>5. Len(Chain(input)) \in Nat /\ Len(Chain(input)) <= 16 * Len(input)
    BY <1>1, PlainKinds, ChainLength
  <1>6. Len(Chain(input)) + 8 <= 64008
    BY <1>2, <1>4, <1>5
  <1>7. Fitting(Len(Chain(input)) + 8)
    BY <1>5, <1>6 DEF Fitting, MaxLength
  <1> QED
    BY <1>1, <1>7

\* Every chain of headers is read as it is meant (ChainsRead).
THEOREM ChainsReadHolds == WireSpec => []ChainsRead
  <1>1. ASSUME WireTypeOK, Room PROVE ChainsRead
    <2>1. SUFFICES ASSUME subject = "headers"
                   PROVE  /\ \A n \in 0..Len(Chained(input)) : CutRead(input, n)
                          /\ ipv6_find_fragment(Chained(input))
                                = IF Len(input) < MaxHops THEN NoFragment ELSE Fail
                          /\ \A i \in 1..(Len(input) + 1) : FragmentRead(input, i)
      BY DEF ChainsRead
    <2>2. input \in Seq(Plain) /\ Fitting(Len(Chain(input)) + 8)
      BY <1>1, <2>1, HeadersCarried
    <2>3. ASSUME NEW n \in 0..Len(Chained(input)) PROVE CutRead(input, n)
      <3>1. Len(Chained(input)) \in Nat
        <4>1. input \in Seq(Kinds)
          BY <2>2, PlainKinds
        <4>2. PICK g, h, rest : Holds(Chained(input), input, g, h, rest)
          BY <4>1, ChainedHolds
        <4>3. Chained(input) \in Seq(Nat)
          BY <4>2, HoldsLens
        <4> QED
          BY <4>3
      <3>2. n \in Nat /\ n <= Len(Chained(input))
        BY <3>1
      <3> QED
        BY <2>2, <3>2, ChainIsParsed
    <2>4. ipv6_find_fragment(Chained(input)) = IF Len(input) < MaxHops THEN NoFragment ELSE Fail
      BY <2>2, UnfragmentedIsSeen
    <2>5. \A i \in 1..(Len(input) + 1) : FragmentRead(input, i)
      BY <2>2, FragmentIsRead
    <2> QED
      BY <2>3, <2>4, <2>5
  <1> QED
    BY <1>1, TypeInvariant, RoomKept, PTL

\* What the Apps' stack sends is read as it is laid out, what the engine sends
\* is what it should be (PacketsRight).
THEOREM PacketsRightHolds == WireSpec => []PacketsRight
  <1>1. ChainsRead /\ OptionsRead /\ PacketsVerify /\ SumsVerify => PacketsRight
    BY DEF PacketsRight
  <1> QED
    BY <1>1, ChainsReadHolds, OptionsReadHolds, PacketsVerifyHolds, SumsVerifyHolds, PTL

-----------------------------------------------------------------------------
(* What is asked outside the tunnel.                                        *)

Addresses == {s.ip : s \in Servers}

\* A list of addresses, none of them twice; one list at the head of another.
Once(got) == got \in Seq(Addresses) /\ \A a, b \in 1..Len(got) : got[a] = got[b] => a = b
Heads(first, all) == Len(first) <= Len(all) /\ \A i \in 1..Len(first) : all[i] = first[i]

LEMMA AddedKeeps ==
  ASSUME NEW got, Once(got), NEW ip \in Addresses
  PROVE  /\ Once(Added(got, ip)) /\ Heads(got, Added(got, ip))
         /\ ToSet(Added(got, ip)) = ToSet(got) \cup {ip}
  <1>1. got \in Seq(Addresses) /\ DOMAIN got = 1..Len(got) /\ Len(got) \in Nat
    BY DEF Once
  <1>2. ToSet(got) = {got[i] : i \in 1..Len(got)}
    BY <1>1 DEF ToSet
  <1>3. CASE Contains(got, ip)
    <2>1. ip \in ToSet(got)
      BY <1>2, <1>3 DEF Contains
    <2>2. Added(got, ip) = got
      BY <1>3 DEF Added
    <2>3. Heads(got, got)
      BY <1>1 DEF Heads
    <2> QED
      BY <2>1, <2>2, <2>3
  <1>4. CASE ~Contains(got, ip)
    <2> DEFINE to == Append(got, ip)
    <2>1. /\ to \in Seq(Addresses) /\ Len(to) = Len(got) + 1 /\ to[Len(got) + 1] = ip
          /\ \A i \in 1..Len(got) : to[i] = got[i]
      BY <1>1, AppendProperties
    <2>2. Added(got, ip) = to
      BY <1>4 DEF Added
    <2> HIDE DEF to
    <2>3. DOMAIN to = 1..Len(to)
      BY <2>1
    <2>4. ToSet(to) = {to[i] : i \in 1..Len(to)}
      BY <2>3 DEF ToSet
    <2>5. \A i \in 1..Len(to) : i \in 1..Len(got) \/ i = Len(got) + 1
      BY <1>1, <2>1
    <2>6. \A i \in 1..Len(got) : i \in 1..Len(to)
      BY <1>1, <2>1
    <2>7. Len(got) + 1 \in 1..Len(to)
      BY <1>1, <2>1
    <2>8. ToSet(to) = ToSet(got) \cup {ip}
      BY <1>2, <2>1, <2>4, <2>5, <2>6, <2>7
    <2>9. \A i \in 1..Len(got) : got[i] # ip
      BY <1>4 DEF Contains
    <2>10. ASSUME NEW a \in 1..Len(to), NEW b \in 1..Len(to), to[a] = to[b] PROVE a = b
      BY <2>1, <2>5, <2>9, <2>10 DEF Once
    <2>11. Once(to)
      BY <2>1, <2>10 DEF Once
    <2>12. Heads(got, to)
      BY <1>1, <2>1 DEF Heads
    <2> QED
      BY <2>2, <2>8, <2>11, <2>12
  <1> QED
    BY <1>3, <1>4

Kept(s) == s.literal /\ ~isLinkLocalV6(s)

LEMMA KeptIs ==
  \A s \in Servers : s.ip \in Addresses /\ (Kept(s) <=> s.ip \notin {"l", "n"})
  <1> DEFINE a == Listed("a", TRUE, 0)
             b == Listed("b", TRUE, 8193)
             l == Listed("l", TRUE, 65152)
             m == Listed("n", FALSE, 0)
  <1>1. a.ip = "a" /\ Kept(a)
    BY DEF isLinkLocalV6, Listed, Kept
  <1>2. b.ip = "b" /\ Kept(b)
    BY DEF isLinkLocalV6, Listed, Kept
  <1>3. l.ip = "l" /\ ~Kept(l)
    BY DEF isLinkLocalV6, Listed, Kept
  <1>4. m.ip = "n" /\ ~Kept(m)
    BY DEF Listed, Kept
  <1>5. Servers = {a, b, l, m}
    BY DEF Servers
  <1> HIDE DEF a, b, l, m
  <1> SUFFICES ASSUME NEW s \in Servers
               PROVE  Kept(s) <=> s.ip \notin {"l", "n"}
    BY DEF Addresses
  <1>6. CASE s = a
    <2>1. "a" \notin {"l", "n"}
      OBVIOUS
    <2> QED
      BY <1>1, <1>6, <2>1
  <1>7. CASE s = b
    <2>1. "b" \notin {"l", "n"}
      OBVIOUS
    <2> QED
      BY <1>2, <1>7, <2>1
  <1>8. CASE s = l
    BY <1>3, <1>8
  <1>9. CASE s = m
    BY <1>4, <1>9
  <1> QED
    BY <1>5, <1>6, <1>7, <1>8, <1>9

LEMMA NormalizeRuns ==
  ASSUME NEW servers \in Seq(Servers)
  PROVE  \E got : /\ got[0] = <<>> /\ normalize(servers) = got[Len(servers)]
                  /\ \A n \in 1..Len(servers) :
                        got[n] = IF Kept(servers[n]) THEN Added(got[n - 1], servers[n].ip)
                                 ELSE got[n - 1]
  <1> DEFINE Unfold(h) == [n \in 0..Len(servers) |->
                              IF n = 0 THEN <<>>
                              ELSE IF servers[n].literal /\ ~isLinkLocalV6(servers[n])
                                   THEN Added(h[n - 1], servers[n].ip) ELSE h[n - 1]]
             step == [n \in 1..Len(servers) |-> [t \in Seq(Addresses) |->
                        IF Kept(servers[n]) THEN Added(t, servers[n].ip) ELSE t]]
  <1>1. Len(servers) \in Nat /\ <<>> \in Seq(Addresses) /\ \A n \in 1..Len(servers) : servers[n] \in Servers
    OBVIOUS
  <1>2. ASSUME NEW n \in 1..Len(servers), NEW t \in Seq(Addresses)
        PROVE  (IF Kept(servers[n]) THEN Added(t, servers[n].ip) ELSE t) \in Seq(Addresses)
    <2>1. servers[n].ip \in Addresses
      BY <1>1, KeptIs
    <2>2. Append(t, servers[n].ip) \in Seq(Addresses)
      BY <2>1, AppendProperties
    <2> QED
      BY <2>2 DEF Added
  <1>3. step \in [1..Len(servers) -> [Seq(Addresses) -> Seq(Addresses)]]
    BY <1>2
  <1>4. \A n \in 1..Len(servers), t \in Seq(Addresses) :
           step[n][t] = IF Kept(servers[n]) THEN Added(t, servers[n].ip) ELSE t
    OBVIOUS
  <1> HIDE DEF step
  <1>5. PICK f \in [0..Len(servers) -> Seq(Addresses)] : Runs(f, Len(servers), <<>>, step)
    BY <1>1, <1>3, RunExists
  <1>6. ASSUME NEW n \in 1..Len(servers)
        PROVE f[n] = IF Kept(servers[n]) THEN Added(f[n - 1], servers[n].ip) ELSE f[n - 1]
    <2>1. n - 1 \in 0..Len(servers)
      BY <1>1
    <2> QED
      BY <1>4, <1>5, <2>1 DEF Runs
  <1>7. f = Unfold(f)
    <2>1. ASSUME NEW n \in 0..Len(servers)
          PROVE f[n] = IF n = 0 THEN <<>>
                       ELSE IF Kept(servers[n]) THEN Added(f[n - 1], servers[n].ip) ELSE f[n - 1]
      <3>1. n # 0 => n \in 1..Len(servers)
        BY <1>1
      <3> QED
        BY <1>5, <1>6, <3>1 DEF Runs
    <2>2. f = [n \in 0..Len(servers) |-> f[n]]
      BY <1>5
    <2> QED
      BY <2>1, <2>2, Zenon DEF Kept
  <1>8. normalize(servers) = (CHOOSE h : h = Unfold(h))[Len(servers)]
    BY Zenon DEF normalize
  <1>9. \E h : h = Unfold(h)
    BY <1>7, Zenon
  <1>10. PICK got : got = Unfold(got) /\ normalize(servers) = got[Len(servers)]
    <2> HIDE DEF Unfold
    <2> QED
      BY <1>8, <1>9, Zenon
  <1>11. got[0] = <<>>
    BY <1>1, <1>10
  <1>12. ASSUME NEW n \in 1..Len(servers)
         PROVE got[n] = IF Kept(servers[n]) THEN Added(got[n - 1], servers[n].ip) ELSE got[n - 1]
    <2>1. n \in 0..Len(servers) /\ n # 0
      BY <1>1
    <2>2. got = Unfold(got)
      BY <1>10
    <2>3. got[n] = IF n = 0 THEN <<>>
                   ELSE IF Kept(servers[n]) THEN Added(got[n - 1], servers[n].ip) ELSE got[n - 1]
      BY <2>1, <2>2, Zenon DEF Kept
    <2> QED
      BY <2>1, <2>3
  <1> QED
    BY <1>10, <1>11, <1>12

LEMMA NormalizeIs ==
  ASSUME NEW servers \in Seq(Servers)
  PROVE  Once(normalize(servers)) /\ ToSet(normalize(servers)) = Usable(servers)
  <1> DEFINE Of(n) == {servers[i].ip : i \in {j \in 1..n : Kept(servers[j])}}
  <1>1. /\ Len(servers) \in Nat /\ DOMAIN servers = 1..Len(servers)
        /\ \A n \in 1..Len(servers) : servers[n] \in Servers
    OBVIOUS
  <1>2. PICK got : /\ got[0] = <<>> /\ normalize(servers) = got[Len(servers)]
                   /\ \A n \in 1..Len(servers) :
                        got[n] = IF Kept(servers[n]) THEN Added(got[n - 1], servers[n].ip)
                                 ELSE got[n - 1]
    BY NormalizeRuns
  <1> DEFINE S == {n \in 0..Len(servers) : Once(got[n]) /\ ToSet(got[n]) = Of(n)}
  <1>3. 0 \in S
    <2>1. Once(<<>>) /\ ToSet(<<>>) = {}
      BY DEF Once, ToSet
    <2>2. Of(0) = {}
      OBVIOUS
    <2> QED
      BY <1>1, <1>2, <2>1, <2>2
  <1>4. ASSUME NEW n \in 1..Len(servers), n - 1 \in S PROVE n \in S
    <2>1. n \in 0..Len(servers) /\ n - 1 \in 0..Len(servers) /\ servers[n].ip \in Addresses
      BY <1>1, KeptIs
    <2>2. \A j \in 1..n : j = n \/ j \in 1..(n - 1)
      BY <1>1
    <2>3. \A j \in 1..(n - 1) : j \in 1..n
      BY <1>1
    <2>4. n \in 1..n
      BY <1>1
    <2>5. Of(n) = Of(n - 1) \cup (IF Kept(servers[n]) THEN {servers[n].ip} ELSE {})
      BY <2>2, <2>3, <2>4
    <2> HIDE DEF Of
    <2>6. Once(got[n - 1]) /\ ToSet(got[n - 1]) = Of(n - 1)
      BY <1>4
    <2>7. got[n] = IF Kept(servers[n]) THEN Added(got[n - 1], servers[n].ip) ELSE got[n - 1]
      BY <1>2
    <2>8. CASE Kept(servers[n])
      <3>1. PICK t, ip : t = got[n - 1] /\ ip = servers[n].ip
        OBVIOUS
      <3>2. Once(t) /\ ip \in Addresses /\ ToSet(t) = Of(n - 1)
        BY <2>1, <2>6, <3>1
      <3>3. Once(Added(t, ip)) /\ ToSet(Added(t, ip)) = ToSet(t) \cup {ip}
        BY <3>2, AddedKeeps
      <3> QED
        BY <2>1, <2>5, <2>7, <2>8, <3>1, <3>2, <3>3
    <2>9. CASE ~Kept(servers[n])
      BY <2>1, <2>5, <2>6, <2>7, <2>9
    <2> QED
      BY <2>8, <2>9
  <1>5. \A n \in S : Once(got[n]) /\ ToSet(got[n]) = Of(n)
    OBVIOUS
  <1> HIDE DEF S
  <1>6. \A n \in 0..Len(servers) : n \in S
    BY <1>1, <1>3, <1>4, UpTo
  <1>7. Len(servers) \in 0..Len(servers)
    BY <1>1
  <1>8. Once(normalize(servers)) /\ ToSet(normalize(servers)) = Of(Len(servers))
    BY <1>2, <1>5, <1>6, <1>7
  <1>9. Of(Len(servers)) = Usable(servers)
    <2>1. \A i \in 1..Len(servers) : Kept(servers[i]) <=> servers[i].ip \notin {"l", "n"}
      BY <1>1, KeptIs
    <2>2. ToSet(servers) = {servers[i] : i \in 1..Len(servers)}
      BY <1>1 DEF ToSet
    <2> QED
      BY <2>1, <2>2 DEF Usable
  <1> QED
    BY <1>8, <1>9

\* The first list, then what the second one adds, as it grows.
Plans(seen, first, then, candidates) ==
    /\ seen[0] = first
    /\ \A n \in 1..Len(then) : seen[n] = Added(seen[n - 1], then[n])
    /\ candidates = [i \in DOMAIN seen[Len(then)] |->
                       [server |-> seen[Len(then)][i], fallback |-> i > Len(first)]]

\* The servers in the order in which they are asked.
LEMMA PlanRuns ==
  ASSUME NEW underlying \in Seq(Servers), NEW configured \in Seq(Servers)
  PROVE  \E seen : Plans(seen, normalize(underlying), normalize(configured), plan(underlying, configured))
  <1> DEFINE first == normalize(underlying)
             then == normalize(configured)
  <1>2. first \in Seq(Addresses) /\ then \in Seq(Addresses)
    BY NormalizeIs DEF Once
  <1> HIDE DEF first, then
  <1> DEFINE Unfold(h) == [n \in 0..Len(then) |-> IF n = 0 THEN first ELSE Added(h[n - 1], then[n])]
             step == [n \in 1..Len(then) |-> [t \in Seq(Addresses) |-> Added(t, then[n])]]
  <1>3. Len(then) \in Nat /\ \A n \in 1..Len(then) : then[n] \in Addresses
    BY <1>2
  <1>4. ASSUME NEW n \in 1..Len(then), NEW t \in Seq(Addresses)
        PROVE  Added(t, then[n]) \in Seq(Addresses)
    <2>1. Append(t, then[n]) \in Seq(Addresses)
      BY <1>3, AppendProperties
    <2> QED
      BY <2>1 DEF Added
  <1>5. step \in [1..Len(then) -> [Seq(Addresses) -> Seq(Addresses)]]
    BY <1>4
  <1>6. \A n \in 1..Len(then), t \in Seq(Addresses) : step[n][t] = Added(t, then[n])
    OBVIOUS
  <1> HIDE DEF step
  <1>7. PICK f \in [0..Len(then) -> Seq(Addresses)] : Runs(f, Len(then), first, step)
    BY <1>2, <1>3, <1>5, RunExists
  <1>8. ASSUME NEW n \in 1..Len(then) PROVE f[n] = Added(f[n - 1], then[n])
    <2>1. n - 1 \in 0..Len(then)
      BY <1>3
    <2> QED
      BY <1>6, <1>7, <2>1 DEF Runs
  <1>9. f = Unfold(f)
    <2>1. ASSUME NEW n \in 0..Len(then)
          PROVE f[n] = IF n = 0 THEN first ELSE Added(f[n - 1], then[n])
      <3>1. n # 0 => n \in 1..Len(then)
        BY <1>3
      <3> QED
        BY <1>7, <1>8, <3>1 DEF Runs
    <2>2. f = [n \in 0..Len(then) |-> f[n]]
      BY <1>7
    <2> QED
      BY <2>1, <2>2, Zenon
  <1> DEFINE Planned(all) == [i \in DOMAIN all |-> [server |-> all[i], fallback |-> i > Len(first)]]
  <1>10. plan(underlying, configured) = Planned((CHOOSE h : h = Unfold(h))[Len(then)])
    BY Zenon DEF plan, first, then
  <1>11. \E h : h = Unfold(h)
    BY <1>9, Zenon
  <1>12. PICK seen : /\ seen = Unfold(seen)
                     /\ plan(underlying, configured) = Planned(seen[Len(then)])
    <2> HIDE DEF Unfold, Planned
    <2> QED
      BY <1>10, <1>11, Zenon
  <1>13. seen[0] = first
    BY <1>3, <1>12
  <1>14. ASSUME NEW n \in 1..Len(then) PROVE seen[n] = Added(seen[n - 1], then[n])
    <2>1. n \in 0..Len(then) /\ n # 0
      BY <1>3
    <2>2. seen = Unfold(seen)
      BY <1>12
    <2>3. seen[n] = IF n = 0 THEN first ELSE Added(seen[n - 1], then[n])
      BY <2>1, <2>2, Zenon
    <2> QED
      BY <2>1, <2>3
  <1>15. plan(underlying, configured)
           = [i \in DOMAIN seen[Len(then)] |->
                [server |-> seen[Len(then)][i], fallback |-> i > Len(first)]]
    BY <1>12, Zenon
  <1>16. Plans(seen, first, then, plan(underlying, configured))
    BY <1>13, <1>14, <1>15, Zenon DEF Plans
  <1> QED
    BY <1>16 DEF first, then

LEMMA PlanIs ==
  ASSUME NEW underlying \in Seq(Servers), NEW configured \in Seq(Servers)
  PROVE  \E all, first :
            /\ Once(all) /\ Once(first) /\ Heads(first, all) /\ ToSet(first) = Usable(underlying)
            /\ ToSet(all) = Usable(underlying) \cup Usable(configured)
            /\ plan(underlying, configured)
                 = [i \in DOMAIN all |-> [server |-> all[i], fallback |-> i > Len(first)]]
  <1>13. PICK seen, first, then : /\ first = normalize(underlying) /\ then = normalize(configured)
                                 /\ Plans(seen, first, then, plan(underlying, configured))
    BY PlanRuns
  <1>1. /\ first = normalize(underlying) /\ then = normalize(configured)
        /\ seen[0] = first
        /\ \A n \in 1..Len(then) : seen[n] = Added(seen[n - 1], then[n])
        /\ plan(underlying, configured)
             = [i \in DOMAIN seen[Len(then)] |->
                  [server |-> seen[Len(then)][i], fallback |-> i > Len(first)]]
    BY <1>13, Zenon DEF Plans
  <1>2. /\ Once(first) /\ ToSet(first) = Usable(underlying)
        /\ Once(then) /\ ToSet(then) = Usable(configured)
    BY <1>1, NormalizeIs
  <1>3. /\ Len(then) \in Nat /\ DOMAIN then = 1..Len(then)
        /\ \A n \in 1..Len(then) : then[n] \in Addresses
    BY <1>2 DEF Once
  <1> DEFINE Of(n) == ToSet(first) \cup {then[i] : i \in 1..n}
             Fine(t, n) == Once(t) /\ Heads(first, t) /\ ToSet(t) = Of(n)
             S == {n \in 0..Len(then) : Fine(seen[n], n)}
  <1>4. 0 \in S
    <2>1. Of(0) = ToSet(first)
      OBVIOUS
    <2>2. Heads(first, first)
      BY <1>2 DEF Heads, Once
    <2>3. 0 \in 0..Len(then)
      BY <1>3
    <2> QED
      BY <1>1, <1>2, <2>1, <2>2, <2>3
  <1>5. ASSUME NEW n \in 1..Len(then), n - 1 \in S PROVE n \in S
    <2>1. n \in 0..Len(then) /\ n - 1 \in 0..Len(then)
      BY <1>3
    <2>2. PICK t, ip : t = seen[n - 1] /\ ip = then[n]
      OBVIOUS
    <2>3. Fine(t, n - 1) /\ ip \in Addresses /\ seen[n] = Added(t, ip)
      BY <1>1, <1>3, <1>5, <2>2
    <2>4. Of(n) = Of(n - 1) \cup {ip}
      <3>1. \A j \in 1..n : j = n \/ j \in 1..(n - 1)
        BY <1>3
      <3>2. \A j \in 1..(n - 1) : j \in 1..n
        BY <1>3
      <3>3. n \in 1..n
        BY <1>3
      <3> QED
        BY <2>2, <3>1, <3>2, <3>3
    <2> HIDE DEF Of
    <2>5. /\ Once(Added(t, ip)) /\ Heads(t, Added(t, ip))
          /\ ToSet(Added(t, ip)) = ToSet(t) \cup {ip}
      BY <2>3, AddedKeeps
    <2>6. PICK to : to = Added(t, ip)
      OBVIOUS
    <2>7. Heads(first, to)
      <3>1. Heads(first, t) /\ Heads(t, to)
        BY <2>3, <2>5, <2>6
      <3>2. Len(first) \in Nat /\ Len(t) \in Nat /\ Len(to) \in Nat
        BY <1>2, <2>3, <2>5, <2>6 DEF Once
      <3>3. Len(first) <= Len(to)
        BY <3>1, <3>2 DEF Heads
      <3>4. \A i \in 1..Len(first) : i \in 1..Len(t)
        BY <3>1, <3>2 DEF Heads
      <3> QED
        BY <3>1, <3>3, <3>4 DEF Heads
    <2>8. Fine(to, n)
      BY <2>3, <2>4, <2>5, <2>6, <2>7
    <2> QED
      BY <2>1, <2>3, <2>6, <2>8
  <1>6. \A n \in S : Fine(seen[n], n)
    OBVIOUS
  <1> HIDE DEF S
  <1>7. Len(then) \in S
    <2>1. \A n \in 0..Len(then) : n \in S
      BY <1>3, <1>4, <1>5, UpTo
    <2>2. Len(then) \in 0..Len(then)
      BY <1>3
    <2> QED
      BY <2>1, <2>2
  <1>8. PICK all : all = seen[Len(then)]
    OBVIOUS
  <1>9. Fine(all, Len(then))
    BY <1>6, <1>7, <1>8
  <1>10. Of(Len(then)) = Usable(underlying) \cup Usable(configured)
    <2>1. ToSet(then) = {then[i] : i \in 1..Len(then)}
      BY <1>3 DEF ToSet
    <2> QED
      BY <1>2, <2>1
  <1>11. plan(underlying, configured)
           = [i \in DOMAIN all |-> [server |-> all[i], fallback |-> i > Len(first)]]
    BY <1>1, <1>8, Zenon
  <1> QED
    BY <1>2, <1>9, <1>10, <1>11

\* Whichever servers answer, each is asked once, the configured ones only when
\* none of the network's own answers, and the last one asked answers if any
\* usable one does: for all lists of servers (DnsCandidates.kt and
\* resolveHostOutsideTunnel).
THEOREM AskingInOrder ==
  ASSUME NEW underlying \in Seq(Servers), NEW configured \in Seq(Servers), NEW answering
  PROVE  InOrder(underlying, configured, answering)
  <1>1. PICK all, first :
            /\ Once(all) /\ Once(first) /\ Heads(first, all) /\ ToSet(first) = Usable(underlying)
            /\ ToSet(all) = Usable(underlying) \cup Usable(configured)
            /\ plan(underlying, configured)
                 = [i \in DOMAIN all |-> [server |-> all[i], fallback |-> i > Len(first)]]
    BY PlanIs
  <1>2. PICK cs : cs = plan(underlying, configured)
    OBVIOUS
  <1>3. /\ Len(all) \in Nat /\ DOMAIN all = 1..Len(all) /\ DOMAIN cs = 1..Len(all)
        /\ \A i \in 1..Len(all) : cs[i].server = all[i] /\ (cs[i].fallback <=> i > Len(first))
    <2>1. Len(all) \in Nat /\ DOMAIN all = 1..Len(all)
      BY <1>1 DEF Once
    <2>2. cs = [i \in 1..Len(all) |-> [server |-> all[i], fallback |-> i > Len(first)]]
      BY <1>1, <1>2, <2>1, Zenon
    <2>3. DOMAIN cs = 1..Len(all)
      BY <2>2, Zenon
    <2>4. \A i \in 1..Len(all) : cs[i] = [server |-> all[i], fallback |-> i > Len(first)]
      BY <2>2, Zenon
    <2>5. ASSUME NEW i \in 1..Len(all)
          PROVE  cs[i].server = all[i] /\ (cs[i].fallback <=> i > Len(first))
      <3>1. PICK c, x, b : c = cs[i] /\ x = all[i] /\ b = (i > Len(first))
        OBVIOUS
      <3>2. c = [server |-> x, fallback |-> b]
        BY <2>4, <3>1, Zenon
      <3>3. c.server = x /\ c.fallback = b
        BY <3>2
      <3> QED
        BY <3>1, <3>3, Zenon
    <2> QED
      BY <2>1, <2>3, <2>5
  <1>4. Len(first) \in Nat /\ DOMAIN first = 1..Len(first) /\ Len(first) <= Len(all)
    BY <1>1 DEF Once, Heads
  <1>5. cs \in Seq({cs[i] : i \in 1..Len(all)}) /\ Len(cs) = Len(all)
    BY <1>1, <1>2, <1>3
  <1>6. PICK last \in 0..Len(all) :
           /\ Asked(cs, answering) = SubSeq(cs, 1, last)
           /\ (\E i \in 1..Len(all) : all[i] \in answering) => last > 0 /\ all[last] \in answering
           /\ \A i \in 1..Len(all) : all[i] \in answering => last <= i
    <2> DEFINE answers == {i \in DOMAIN cs : cs[i].server \in answering}
    <2>1. answers = {i \in 1..Len(all) : all[i] \in answering}
      BY <1>3
    <2>2. CASE answers = {}
      <3>1. Asked(cs, answering) = cs
        BY <2>2, Zenon DEF Asked
      <3>2. SubSeq(cs, 1, Len(all)) = cs
        BY <1>5
      <3>3. Len(all) \in 0..Len(all)
        BY <1>3
      <3> QED
        BY <2>1, <2>2, <3>1, <3>2, <3>3
    <2>3. CASE answers # {}
      <3> DEFINE Lowest(i) == i \in answers /\ \A j \in answers : i <= j
      <3>1. \E i : Lowest(i)
        <4>1. answers \subseteq Nat
          BY <2>1
        <4>2. \E i \in answers : \A j \in answers : i <= j
          BY <2>3, <4>1, LeastExists
        <4> QED
          BY <4>2
      <3>2. Asked(cs, answering) = SubSeq(cs, 1, CHOOSE i \in answers : \A j \in answers : i <= j)
        BY <2>3, Zenon DEF Asked
      <3>3. PICK i : Lowest(i) /\ Asked(cs, answering) = SubSeq(cs, 1, i)
        BY <3>1, <3>2
      <3>4. i \in 1..Len(all) /\ all[i] \in answering
        BY <2>1, <3>3
      <3>5. \A j \in 1..Len(all) : all[j] \in answering => i <= j
        BY <2>1, <3>3
      <3>6. i \in 0..Len(all) /\ i > 0
        BY <1>3, <3>4
      <3> QED
        BY <3>3, <3>4, <3>5, <3>6
    <2> QED
      BY <2>2, <2>3
  <1>7. PICK asked : asked = Asked(plan(underlying, configured), answering)
    OBVIOUS
  <1>8. /\ asked \in Seq({cs[i] : i \in 1..Len(all)}) /\ Len(asked) = last
        /\ \A i \in 1..last : asked[i] = cs[i]
    <2>1. asked = SubSeq(cs, 1, last)
      BY <1>2, <1>6, <1>7
    <2>2. 1 \in 1..(Len(cs) + 1) /\ last \in 0..Len(cs)
      BY <1>5
    <2> QED
      BY <1>5, <2>1, <2>2
  <1>9. DOMAIN asked = 1..last /\ \A i \in 1..last : i \in 1..Len(all)
    BY <1>3, <1>8
  <1>10. PICK names : names = [i \in DOMAIN asked |-> asked[i].server]
    OBVIOUS
  <1>11. names \in Seq(Addresses) /\ Len(names) = last /\ \A i \in 1..last : names[i] = all[i]
    <2>1. names = [i \in 1..last |-> all[i]]
      BY <1>3, <1>8, <1>9, <1>10
    <2>2. \A i \in 1..last : all[i] \in Addresses
      BY <1>1, <1>9 DEF Once
    <2> QED
      BY <2>1, <2>2
  <1>12. IsInjective(names)
    BY <1>1, <1>9, <1>11, SMTT(30) DEF IsInjective, Once
  <1>13. ToSet(names) \subseteq ToSet(all)
    BY <1>3, <1>9, <1>11 DEF ToSet
  <1>14. ASSUME NEW i \in DOMAIN asked, asked[i].fallback PROVE Usable(underlying) \cap answering = {}
    <2> SUFFICES ASSUME NEW ip \in Usable(underlying) \cap answering PROVE FALSE
      OBVIOUS
    <2>1. PICK j \in 1..Len(first) : first[j] = ip
      BY <1>1, <1>4 DEF ToSet
    <2>2. j \in 1..Len(all) /\ all[j] = ip
      BY <1>1, <1>3, <1>4, <2>1 DEF Heads
    <2>3. last <= j
      BY <1>6, <2>2
    <2>4. i > Len(first) /\ i <= last
      BY <1>3, <1>8, <1>9, <1>14
    <2> QED
      BY <1>4, <1>9, <1>14, <2>1, <2>3, <2>4
  <1>15. ASSUME ToSet(all) \cap answering # {} PROVE asked # <<>> /\ Last(names) \in answering
    <2>1. \E i \in 1..Len(all) : all[i] \in answering
      BY <1>3, <1>15 DEF ToSet
    <2>2. last > 0 /\ all[last] \in answering
      BY <1>6, <2>1
    <2> QED
      BY <1>8, <1>9, <1>11, <2>2 DEF Last
  <1> QED
    BY <1>1, <1>7, <1>10, <1>12, <1>13, <1>14, <1>15, Zenon DEF InOrder

-----------------------------------------------------------------------------
(* Routes.                                                                  *)

\* The blocks of each route.
LEMMA Ranges ==
  ASSUME NEW k \in Nat
  PROVE  /\ (Covers(Route(1, 0, 8), k) <=> 256 <= k /\ k <= 511)
         /\ (Covers(Route(2, 0, 7), k) <=> 512 <= k /\ k <= 1023)
         /\ (Covers(Route(4, 0, 6), k) <=> 1024 <= k /\ k <= 2047)
         /\ (Covers(Route(8, 0, 7), k) <=> 2048 <= k /\ k <= 2559)
         /\ (Covers(Route(11, 0, 8), k) <=> 2816 <= k /\ k <= 3071)
         /\ (Covers(Route(12, 0, 6), k) <=> 3072 <= k /\ k <= 4095)
         /\ (Covers(Route(16, 0, 4), k) <=> 4096 <= k /\ k <= 8191)
         /\ (Covers(Route(32, 0, 3), k) <=> 8192 <= k /\ k <= 16383)
         /\ (Covers(Route(64, 0, 3), k) <=> 16384 <= k /\ k <= 24575)
         /\ (Covers(Route(96, 0, 4), k) <=> 24576 <= k /\ k <= 28671)
         /\ (Covers(Route(112, 0, 5), k) <=> 28672 <= k /\ k <= 30719)
         /\ (Covers(Route(120, 0, 6), k) <=> 30720 <= k /\ k <= 31743)
         /\ (Covers(Route(124, 0, 7), k) <=> 31744 <= k /\ k <= 32255)
         /\ (Covers(Route(126, 0, 8), k) <=> 32256 <= k /\ k <= 32511)
         /\ (Covers(Route(128, 0, 3), k) <=> 32768 <= k /\ k <= 40959)
         /\ (Covers(Route(160, 0, 5), k) <=> 40960 <= k /\ k <= 43007)
         /\ (Covers(Route(168, 0, 8), k) <=> 43008 <= k /\ k <= 43263)
         /\ (Covers(Route(169, 0, 9), k) <=> 43264 <= k /\ k <= 43391)
         /\ (Covers(Route(169, 128, 10), k) <=> 43392 <= k /\ k <= 43455)
         /\ (Covers(Route(169, 192, 11), k) <=> 43456 <= k /\ k <= 43487)
         /\ (Covers(Route(169, 224, 12), k) <=> 43488 <= k /\ k <= 43503)
         /\ (Covers(Route(169, 240, 13), k) <=> 43504 <= k /\ k <= 43511)
         /\ (Covers(Route(169, 248, 14), k) <=> 43512 <= k /\ k <= 43515)
         /\ (Covers(Route(169, 252, 15), k) <=> 43516 <= k /\ k <= 43517)
         /\ (Covers(Route(169, 255, 16), k) <=> 43519 <= k /\ k <= 43519)
         /\ (Covers(Route(170, 0, 7), k) <=> 43520 <= k /\ k <= 44031)
         /\ (Covers(Route(172, 0, 12), k) <=> 44032 <= k /\ k <= 44047)
         /\ (Covers(Route(172, 32, 11), k) <=> 44064 <= k /\ k <= 44095)
         /\ (Covers(Route(172, 64, 10), k) <=> 44096 <= k /\ k <= 44159)
         /\ (Covers(Route(172, 128, 9), k) <=> 44160 <= k /\ k <= 44287)
         /\ (Covers(Route(173, 0, 8), k) <=> 44288 <= k /\ k <= 44543)
         /\ (Covers(Route(174, 0, 7), k) <=> 44544 <= k /\ k <= 45055)
         /\ (Covers(Route(176, 0, 4), k) <=> 45056 <= k /\ k <= 49151)
         /\ (Covers(Route(192, 0, 9), k) <=> 49152 <= k /\ k <= 49279)
         /\ (Covers(Route(192, 128, 11), k) <=> 49280 <= k /\ k <= 49311)
         /\ (Covers(Route(192, 160, 13), k) <=> 49312 <= k /\ k <= 49319)
         /\ (Covers(Route(192, 169, 16), k) <=> 49321 <= k /\ k <= 49321)
         /\ (Covers(Route(192, 170, 15), k) <=> 49322 <= k /\ k <= 49323)
         /\ (Covers(Route(192, 172, 14), k) <=> 49324 <= k /\ k <= 49327)
         /\ (Covers(Route(192, 176, 12), k) <=> 49328 <= k /\ k <= 49343)
         /\ (Covers(Route(192, 192, 10), k) <=> 49344 <= k /\ k <= 49407)
         /\ (Covers(Route(193, 0, 8), k) <=> 49408 <= k /\ k <= 49663)
         /\ (Covers(Route(194, 0, 7), k) <=> 49664 <= k /\ k <= 50175)
         /\ (Covers(Route(196, 0, 6), k) <=> 50176 <= k /\ k <= 51199)
         /\ (Covers(Route(200, 0, 5), k) <=> 51200 <= k /\ k <= 53247)
         /\ (Covers(Route(208, 0, 4), k) <=> 53248 <= k /\ k <= 57343)
  <1>1. Covers(Route(1, 0, 8), k) <=> 256 <= k /\ k <= 511
    BY DEF Covers, Route, Size
  <1>2. Covers(Route(2, 0, 7), k) <=> 512 <= k /\ k <= 1023
    BY DEF Covers, Route, Size
  <1>3. Covers(Route(4, 0, 6), k) <=> 1024 <= k /\ k <= 2047
    BY DEF Covers, Route, Size
  <1>4. Covers(Route(8, 0, 7), k) <=> 2048 <= k /\ k <= 2559
    BY DEF Covers, Route, Size
  <1>5. Covers(Route(11, 0, 8), k) <=> 2816 <= k /\ k <= 3071
    BY DEF Covers, Route, Size
  <1>6. Covers(Route(12, 0, 6), k) <=> 3072 <= k /\ k <= 4095
    BY DEF Covers, Route, Size
  <1>7. Covers(Route(16, 0, 4), k) <=> 4096 <= k /\ k <= 8191
    BY DEF Covers, Route, Size
  <1>8. Covers(Route(32, 0, 3), k) <=> 8192 <= k /\ k <= 16383
    BY DEF Covers, Route, Size
  <1>9. Covers(Route(64, 0, 3), k) <=> 16384 <= k /\ k <= 24575
    BY DEF Covers, Route, Size
  <1>10. Covers(Route(96, 0, 4), k) <=> 24576 <= k /\ k <= 28671
    BY DEF Covers, Route, Size
  <1>11. Covers(Route(112, 0, 5), k) <=> 28672 <= k /\ k <= 30719
    BY DEF Covers, Route, Size
  <1>12. Covers(Route(120, 0, 6), k) <=> 30720 <= k /\ k <= 31743
    BY DEF Covers, Route, Size
  <1>13. Covers(Route(124, 0, 7), k) <=> 31744 <= k /\ k <= 32255
    BY DEF Covers, Route, Size
  <1>14. Covers(Route(126, 0, 8), k) <=> 32256 <= k /\ k <= 32511
    BY DEF Covers, Route, Size
  <1>15. Covers(Route(128, 0, 3), k) <=> 32768 <= k /\ k <= 40959
    BY DEF Covers, Route, Size
  <1>16. Covers(Route(160, 0, 5), k) <=> 40960 <= k /\ k <= 43007
    BY DEF Covers, Route, Size
  <1>17. Covers(Route(168, 0, 8), k) <=> 43008 <= k /\ k <= 43263
    BY DEF Covers, Route, Size
  <1>18. Covers(Route(169, 0, 9), k) <=> 43264 <= k /\ k <= 43391
    BY DEF Covers, Route, Size
  <1>19. Covers(Route(169, 128, 10), k) <=> 43392 <= k /\ k <= 43455
    BY DEF Covers, Route, Size
  <1>20. Covers(Route(169, 192, 11), k) <=> 43456 <= k /\ k <= 43487
    BY DEF Covers, Route, Size
  <1>21. Covers(Route(169, 224, 12), k) <=> 43488 <= k /\ k <= 43503
    BY DEF Covers, Route, Size
  <1>22. Covers(Route(169, 240, 13), k) <=> 43504 <= k /\ k <= 43511
    BY DEF Covers, Route, Size
  <1>23. Covers(Route(169, 248, 14), k) <=> 43512 <= k /\ k <= 43515
    BY DEF Covers, Route, Size
  <1>24. Covers(Route(169, 252, 15), k) <=> 43516 <= k /\ k <= 43517
    BY DEF Covers, Route, Size
  <1>25. Covers(Route(169, 255, 16), k) <=> 43519 <= k /\ k <= 43519
    BY DEF Covers, Route, Size
  <1>26. Covers(Route(170, 0, 7), k) <=> 43520 <= k /\ k <= 44031
    BY DEF Covers, Route, Size
  <1>27. Covers(Route(172, 0, 12), k) <=> 44032 <= k /\ k <= 44047
    BY DEF Covers, Route, Size
  <1>28. Covers(Route(172, 32, 11), k) <=> 44064 <= k /\ k <= 44095
    BY DEF Covers, Route, Size
  <1>29. Covers(Route(172, 64, 10), k) <=> 44096 <= k /\ k <= 44159
    BY DEF Covers, Route, Size
  <1>30. Covers(Route(172, 128, 9), k) <=> 44160 <= k /\ k <= 44287
    BY DEF Covers, Route, Size
  <1>31. Covers(Route(173, 0, 8), k) <=> 44288 <= k /\ k <= 44543
    BY DEF Covers, Route, Size
  <1>32. Covers(Route(174, 0, 7), k) <=> 44544 <= k /\ k <= 45055
    BY DEF Covers, Route, Size
  <1>33. Covers(Route(176, 0, 4), k) <=> 45056 <= k /\ k <= 49151
    BY DEF Covers, Route, Size
  <1>34. Covers(Route(192, 0, 9), k) <=> 49152 <= k /\ k <= 49279
    BY DEF Covers, Route, Size
  <1>35. Covers(Route(192, 128, 11), k) <=> 49280 <= k /\ k <= 49311
    BY DEF Covers, Route, Size
  <1>36. Covers(Route(192, 160, 13), k) <=> 49312 <= k /\ k <= 49319
    BY DEF Covers, Route, Size
  <1>37. Covers(Route(192, 169, 16), k) <=> 49321 <= k /\ k <= 49321
    BY DEF Covers, Route, Size
  <1>38. Covers(Route(192, 170, 15), k) <=> 49322 <= k /\ k <= 49323
    BY DEF Covers, Route, Size
  <1>39. Covers(Route(192, 172, 14), k) <=> 49324 <= k /\ k <= 49327
    BY DEF Covers, Route, Size
  <1>40. Covers(Route(192, 176, 12), k) <=> 49328 <= k /\ k <= 49343
    BY DEF Covers, Route, Size
  <1>41. Covers(Route(192, 192, 10), k) <=> 49344 <= k /\ k <= 49407
    BY DEF Covers, Route, Size
  <1>42. Covers(Route(193, 0, 8), k) <=> 49408 <= k /\ k <= 49663
    BY DEF Covers, Route, Size
  <1>43. Covers(Route(194, 0, 7), k) <=> 49664 <= k /\ k <= 50175
    BY DEF Covers, Route, Size
  <1>44. Covers(Route(196, 0, 6), k) <=> 50176 <= k /\ k <= 51199
    BY DEF Covers, Route, Size
  <1>45. Covers(Route(200, 0, 5), k) <=> 51200 <= k /\ k <= 53247
    BY DEF Covers, Route, Size
  <1>46. Covers(Route(208, 0, 4), k) <=> 53248 <= k /\ k <= 57343
    BY DEF Covers, Route, Size
  <1> QED
    BY <1>1, <1>2, <1>3, <1>4, <1>5, <1>6, <1>7, <1>8, <1>9, <1>10, <1>11, <1>12, <1>13, <1>14,
       <1>15, <1>16, <1>17, <1>18, <1>19, <1>20, <1>21, <1>22, <1>23, <1>24, <1>25, <1>26, <1>27,
       <1>28, <1>29, <1>30, <1>31, <1>32, <1>33, <1>34, <1>35, <1>36, <1>37, <1>38, <1>39, <1>40,
       <1>41, <1>42, <1>43, <1>44, <1>45, <1>46

LEMMA OneRoute ==
  ASSUME NEW k \in Nat, NEW r \in V4, NEW s \in V4, Covers(r, k), Covers(s, k)
  PROVE  r = s
  BY Ranges, SMTT(100) DEF V4

LEMMA LocalUncovered ==
  ASSUME NEW a \in 0..255, NEW b \in 0..255
  PROVE  Local(a, b) <=> \A r \in V4 : ~Covers(r, a * 256 + b)
  <1>1. PICK k \in Nat : k = a * 256 + b
    OBVIOUS
  <1>2. Local(a, b) <=> \A r \in V4 : ~Covers(r, k)
    BY <1>1, Ranges, SMTT(100) DEF V4, Local
  <1> QED
    BY <1>1, <1>2

\* Every public block is in just one route and no local block is in any
\* (LanRoutes.V4).
THEOREM EachBlockOnce ==
  ASSUME NEW a \in 0..255, NEW b \in 0..255
  PROVE  Cardinality({r \in V4 : Covers(r, a * 256 + b)}) = IF Local(a, b) THEN 0 ELSE 1
  <1> DEFINE over == {r \in V4 : Covers(r, a * 256 + b)}
  <1>1. CASE Local(a, b)
    <2>1. over = {}
      BY <1>1, LocalUncovered, Zenon
    <2> QED
      BY <1>1, <2>1, FS_EmptySet, SMTT(30)
  <1>2. CASE ~Local(a, b)
    <2>1. PICK s \in V4 : Covers(s, a * 256 + b)
      BY <1>2, LocalUncovered, Zenon
    <2>2. PICK k \in Nat : k = a * 256 + b
      OBVIOUS
    <2>3. \A r \in V4 : Covers(r, k) => r = s
      BY <2>1, <2>2, OneRoute
    <2>4. over = {s}
      BY <2>1, <2>2, <2>3
    <2>5. Cardinality({s}) = 1
      BY FS_Singleton
    <2> QED
      BY <1>2, <2>4, <2>5
  <1> QED
    BY <1>1, <1>2

\* What is kept outside the tunnel: the local network, all of it and nothing
\* else, and the look-up of the server's name, shown to as few as can be.
THEOREM OutsideExactHolds == WireSpec => []OutsideExact
  <1>1. WireTypeOK => RoutesExact
    <2> SUFFICES ASSUME WireTypeOK, subject = "block", input # <<>>, NEW b \in 0..255
                 PROVE  Cardinality({r \in V4 : Covers(r, input[1] * 256 + b)})
                          = IF Local(input[1], b) THEN 0 ELSE 1
      BY DEF RoutesExact
    <2>1. Alphabet["block"] = 0..255
      BY DEF Alphabet
    <2>2. input \in Seq(0..255)
      BY <2>1 DEF WireTypeOK
    <2>3. input[1] \in 0..255
      <3>1. Len(input) \in Nat /\ Len(input) # 0
        BY <2>2, EmptySeq
      <3>2. 1 \in 1..Len(input)
        BY <3>1
      <3> QED
        BY <2>2, <3>2, ElementOfSeq
    <2> QED
      BY <2>3, EachBlockOnce, Zenon
  <1>2. WireTypeOK => AskedInOrder
    <2> SUFFICES ASSUME WireTypeOK, subject = "servers", NEW k \in 0..Len(input), NEW answering
                 PROVE  InOrder(SubSeq(input, 1, k), From(input, k + 1), answering)
      BY DEF AskedInOrder
    <2>1. Alphabet["servers"] = Servers
      BY DEF Alphabet
    <2>2. input \in Seq(Servers)
      BY <2>1 DEF WireTypeOK
    <2>3. SubSeq(input, 1, k) \in Seq(Servers)
      BY <2>2
    <2>4. From(input, k + 1) \in Seq(Servers)
      BY <2>2 DEF From
    <2> QED
      BY <2>3, <2>4, AskingInOrder
  <1> QED
    BY <1>1, <1>2, TypeInvariant, PTL DEF OutsideExact

-----------------------------------------------------------------------------
(* The table of fake addresses (FakeDns): what is added to the invariant.   *)

Entry == [in_use: BOOLEAN, domain: Names \cup {NoName}, age: 0..(Idle + 1)]

Quiet == "crowd" \notin Hard /\ "reset" \notin Hard

\* An answer's entry is not older than the answer: what is evicted, an entry
\* older than a TTL, nobody uses.
Younger == \A c \in cached : entries[c.slot].age <= c.age

\* What OneEntryPerName says, without counting.
Alone == \A i, j \in Slots : Used(i) /\ Used(j) /\ entries[i].domain = entries[j].domain => i = j

DnsInv == TypeOK /\ Alone /\ AnswersStand /\ Younger

LEMMA SlotsNat == Slots \subseteq Nat /\ Slots # {} /\ Entries \in Nat \ {0}
  BY FakeDnsAssumption DEF Slots

LEMMA FirstIn ==
  ASSUME NEW S, S \subseteq Slots, S # {}
  PROVE  First(S) \in S
<1>1. \E i \in S : \A j \in S : i <= j
  BY LeastExists, SlotsNat
<1> QED
  BY <1>1 DEF First

LEMMA FreeChoice ==
  ASSUME TypeOK, Free # {}
  PROVE  (CHOOSE i \in Free : \A j \in Free : Distance(i) <= Distance(j)) \in Free
<1> DEFINE T == {Distance(i) : i \in Free}
<1>1. \A i \in Free : Distance(i) \in Nat
  BY SlotsNat DEF Distance, Free, TypeOK, Slots
<1>2. T \subseteq Nat /\ T # {}
  BY <1>1
<1>3. \E x \in T : \A y \in T : x <= y
  BY <1>2, LeastExists
<1>4. \E i \in Free : \A j \in Free : Distance(i) <= Distance(j)
  BY <1>3
<1> QED
  BY <1>4

LEMMA OldestExists ==
  ASSUME TypeOK
  PROVE  Oldest # {} /\ Oldest \subseteq Slots
<1> DEFINE T == {Idle + 1 - entries[i].age : i \in Slots}
<1>1. \A i \in Slots : entries[i].age \in 0..(Idle + 1)
  BY DEF TypeOK
<1>2. \A i \in Slots : Idle + 1 - entries[i].age \in Nat
  BY <1>1, FakeDnsAssumption
<1>3. T \subseteq Nat /\ T # {}
  BY <1>2, SlotsNat
<1>4. \E x \in T : \A y \in T : x <= y
  BY <1>3, LeastExists
<1>5. PICK i \in Slots : \A j \in Slots : Idle + 1 - entries[i].age <= Idle + 1 - entries[j].age
  BY <1>4
<1>6. \A j \in Slots : entries[j].age <= entries[i].age
  BY <1>1, <1>5, FakeDnsAssumption
<1> QED
  BY <1>6 DEF Oldest

\* The entry a new name gets is one that nobody uses any more, as long as one
\* entry at least is free or older than a TTL.
LEMMA FreshIsUnused ==
  ASSUME DnsInv, \E i \in Slots : ~Used(i) \/ entries[i].age > Ttl
  PROVE  Fresh \in Slots /\ \A c \in cached : c.slot # Fresh
<1> USE DEF DnsInv
<1>1. CASE Free # {}
  <2>1. Fresh \in Free
    BY <1>1, FreeChoice DEF Fresh
  <2> QED
    BY <2>1, FakeDnsAssumption DEF Free, AnswersStand, Younger, TypeOK
<1>2. CASE Free = {}
  <2>1. Fresh \in Oldest
    BY <1>2, OldestExists, FirstIn DEF Fresh
  <2>2. Fresh \in Slots /\ \A j \in Slots : entries[j].age <= entries[Fresh].age
    BY <2>1 DEF Oldest
  <2>3. PICK i \in Slots : ~Used(i) \/ entries[i].age > Ttl
    OBVIOUS
  <2>4. entries[i].age > Ttl
    BY <1>2, <2>3 DEF Free
  <2>5. entries[Fresh].age > Ttl
    BY <2>2, <2>4, FakeDnsAssumption DEF TypeOK
  <2> QED
    BY <2>2, <2>5, FakeDnsAssumption DEF Younger, TypeOK
<1> QED
  BY <1>1, <1>2

-----------------------------------------------------------------------------
(* Every step keeps the table and the answers together.                    *)

LEMMA CountAlone ==
  ASSUME NEW S, \A i, j \in S : i = j
  PROVE  Cardinality(S) <= 1
<1>1. CASE S = {}
  BY <1>1, FS_EmptySet
<1>2. CASE S # {}
  <2>1. PICK i \in S : TRUE
    BY <1>2
  <2>2. S = {i}
    BY <2>1
  <2>3. Cardinality(S) = 1
    BY <2>2, FS_Singleton
  <2> QED
    BY <2>3
<1> QED
  BY <1>1, <1>2

LEMMA AloneIsOneEntry ==
  ASSUME Alone
  PROVE  OneEntryPerName
<1> SUFFICES ASSUME NEW n \in Names PROVE Cardinality(Holding(n)) <= 1
  BY DEF OneEntryPerName
<1>1. \A i, j \in Holding(n) : i = j
  BY DEF Holding, Alone
<1> QED
  BY <1>1, CountAlone

\* fake_dns_alloc leaves the name in the one entry SlotFor names, touches no
\* other, and takes the entry from no other name's answer.
LEMMA AllocStep ==
  ASSUME DnsInv, NEW n \in Names, Alloc(n),
         Holding(n) = {} => \E i \in Slots : ~Used(i) \/ entries[i].age > Ttl
  PROVE  /\ SlotFor(n) \in Slots /\ next' \in Slots /\ entries' \in [Slots -> Entry]
         /\ LET e == entries'[SlotFor(n)] IN e.in_use /\ e.domain = n /\ e.age = 0
         /\ \A i \in Slots \ {SlotFor(n)} : entries'[i] = entries[i]
         /\ \A i \in Slots : Used(i) /\ entries[i].domain = n => i = SlotFor(n)
         /\ \A c \in cached : c.slot = SlotFor(n) => c.name = n
<1> USE DEF DnsInv
<1>1. CASE Holding(n) # {}
  <2>1. SlotFor(n) \in Holding(n)
    BY <1>1, FirstIn DEF SlotFor, Holding
  <2>2. SlotFor(n) \in Slots /\ Used(SlotFor(n)) /\ entries[SlotFor(n)].domain = n
    BY <2>1 DEF Holding
  <2>3. entries' = [entries EXCEPT ![SlotFor(n)].age = 0] /\ next' = next
    BY <1>1 DEF Alloc, Touch
  <2>4. entries' \in [Slots -> Entry]
    BY <2>2, <2>3, FakeDnsAssumption DEF TypeOK, Entry
  <2>5. LET e == entries'[SlotFor(n)] IN e.in_use /\ e.domain = n /\ e.age = 0
    BY <2>2, <2>3 DEF TypeOK, Used
  <2>6. \A i \in Slots \ {SlotFor(n)} : entries'[i] = entries[i]
    BY <2>3 DEF TypeOK
  <2>7. \A i \in Slots : Used(i) /\ entries[i].domain = n => i = SlotFor(n)
    BY <2>2 DEF Alone
  <2>8. \A c \in cached : c.slot = SlotFor(n) => c.name = n
    BY <2>2 DEF AnswersStand
  <2> QED
    BY <2>2, <2>3, <2>4, <2>5, <2>6, <2>7, <2>8 DEF TypeOK
<1>2. CASE Holding(n) = {}
  <2>1. SlotFor(n) = Fresh /\ Fresh \in Slots /\ \A c \in cached : c.slot # Fresh
    BY <1>2, FreshIsUnused DEF SlotFor
  <2>2. entries' = [entries EXCEPT ![SlotFor(n)] = [in_use |-> TRUE, domain |-> n, age |-> 0]]
    BY <1>2 DEF Alloc
  <2>3. [in_use |-> TRUE, domain |-> n, age |-> 0] \in Entry
    BY FakeDnsAssumption DEF Entry
  <2>4. entries' \in [Slots -> Entry]
    BY <2>1, <2>2, <2>3 DEF TypeOK, Entry
  <2>5. next' = (SlotFor(n) + 1) % Entries
    BY <1>2 DEF Alloc
  <2>6. next' \in Slots
    BY <2>1, <2>5, SlotsNat DEF Slots
  <2> QED
    BY <1>2, <2>1, <2>2, <2>4, <2>6 DEF Holding, TypeOK
<1> QED
  BY <1>1, <1>2

LEMMA QueryKeeps ==
  ASSUME Quiet, DnsInv, NEW n \in Names, NEW fam \in {4, 6}, NEW via \in {"udp", "tcp"},
         Query(n, fam, via)
  PROVE  DnsInv'
<1> DEFINE s == SlotFor(n)
           kept == {c \in cached : c.name # n \/ c.fam # fam}
           answer == [name |-> n, fam |-> fam, slot |-> s, age |-> 0]
<1> USE DEF DnsInv
<1>1. Holding(n) = {} => \E i \in Slots : ~Used(i) \/ entries[i].age > Ttl
  BY FakeDnsAssumption DEF Quiet, Query, TypeOK
<1>2. Alloc(n)
  BY DEF Query
<1>3. /\ s \in Slots /\ next' \in Slots /\ entries' \in [Slots -> Entry]
      /\ entries'[s].in_use /\ entries'[s].domain = n /\ entries'[s].age = 0
      /\ \A i \in Slots \ {s} : entries'[i] = entries[i]
      /\ \A i \in Slots : Used(i) /\ entries[i].domain = n => i = s
      /\ \A c \in cached : c.slot = s => c.name = n
  BY <1>1, <1>2, AllocStep
<1>4. cached' = kept \cup {answer} /\ flows' = flows /\ out' = out
  BY DEF Query
<1> HIDE DEF s
<1>5. TypeOK'
  <2>1. answer \in [name: Names, fam: {4, 6}, slot: Slots, age: 0..Ttl]
    BY <1>3, FakeDnsAssumption
  <2> QED
    BY <1>3, <1>4, <2>1 DEF TypeOK, Entry
<1>6. Alone'
  BY <1>3 DEF Alone, Used
<1>7. AnswersStand' /\ Younger'
  <2> SUFFICES ASSUME NEW c \in cached'
               PROVE  /\ entries'[c.slot].in_use /\ entries'[c.slot].domain = c.name
                      /\ entries'[c.slot].age <= c.age
    BY DEF AnswersStand, Younger, Used
  <2>1. CASE c = answer
    BY <1>3, <2>1
  <2>2. CASE c \in kept /\ c.slot = s
    BY <1>3, <2>2 DEF TypeOK
  <2>3. CASE c \in kept /\ c.slot # s
    BY <1>3, <2>3 DEF TypeOK, AnswersStand, Younger, Used
  <2> QED
    BY <1>4, <2>1, <2>2, <2>3
<1> QED
  BY <1>5, <1>6, <1>7

\* Only an entry's age is set back: a lookup.
LEMMA TouchKeeps ==
  ASSUME DnsInv, NEW i \in Slots, UNCHANGED entries \/ Touch(i), UNCHANGED <<next, cached>>
  PROVE  /\ entries' \in [Slots -> Entry]
         /\ next' \in Slots
         /\ cached' \subseteq [name: Names, fam: {4, 6}, slot: Slots, age: 0..Ttl]
         /\ Alone' /\ AnswersStand' /\ Younger'
<1> USE DEF DnsInv
<1>1. entries' \in [Slots -> Entry]
  BY FakeDnsAssumption DEF TypeOK, Touch, Entry
<1>2. \A j \in Slots : /\ entries'[j].in_use = entries[j].in_use
                       /\ entries'[j].domain = entries[j].domain
                       /\ entries'[j].age \in 0..(Idle + 1) /\ entries'[j].age <= entries[j].age
  BY <1>1, FakeDnsAssumption DEF TypeOK, Touch, Entry
<1>3. Alone'
  BY <1>2 DEF Alone, Used
<1>4. AnswersStand' /\ Younger'
  <2> SUFFICES ASSUME NEW c \in cached
               PROVE  /\ entries'[c.slot].in_use /\ entries'[c.slot].domain = c.name
                      /\ entries'[c.slot].age <= c.age
    BY DEF AnswersStand, Younger, Used
  <2>1. c.slot \in Slots /\ c.age \in 0..Ttl /\ entries[c.slot].age \in 0..(Idle + 1)
    BY DEF TypeOK
  <2> QED
    BY <1>2, <2>1, FakeDnsAssumption DEF AnswersStand, Younger, Used
<1> QED
  BY <1>1, <1>3, <1>4 DEF TypeOK

\* The name of an entry, and with it what a session is given.
LEMMA DomainType ==
  ASSUME TypeOK, NEW i \in Slots
  PROVE  Domain(i) \in Names \cup {NoName}
  BY DEF TypeOK, Domain

LEMMA ConnectKeeps ==
  ASSUME DnsInv, NEW c \in cached, Connect(c)
  PROVE  DnsInv'
<1>1. c.slot \in Slots /\ c.name \in Names
  BY DEF DnsInv, TypeOK
<1>2. UNCHANGED <<next, cached>> /\ (UNCHANGED entries \/ Touch(c.slot)) /\ flows' = flows
  BY DEF Connect, TouchIfUsed
<1>3. out' \in [what: {"none", "connect", "reply", "lost"}, asked: Names \cup {NoName},
                got: Names \cup {NoName}]
  BY <1>1, DomainType DEF Connect, DnsInv
<1> QED
  BY <1>1, <1>2, <1>3, TouchKeeps DEF DnsInv, TypeOK, Entry

LEMMA SendKeeps ==
  ASSUME DnsInv, NEW c \in cached, Send(c)
  PROVE  DnsInv'
<1> DEFINE flow == [name |-> c.name, fam |-> c.fam, slot |-> c.slot,
                    domain |-> Domain(c.slot), age |-> 0]
<1>1. c \in [name: Names, fam: {4, 6}, slot: Slots, age: 0..Ttl]
  BY DEF DnsInv, TypeOK
<1>2. UNCHANGED <<next, cached>> /\ (UNCHANGED entries \/ Touch(c.slot)) /\ out' = out
  BY DEF Send, TouchIfUsed
<1>3. flow \in [name: Names, fam: {4, 6}, slot: Slots, domain: Names \cup {NoName}, age: 0..Ttl]
  BY <1>1, DomainType, FakeDnsAssumption DEF DnsInv
<1>4. flows' = flows \cup {flow}
  BY DEF Send
<1> HIDE DEF flow
<1> QED
  BY <1>1, <1>2, <1>3, <1>4, TouchKeeps DEF DnsInv, TypeOK, Entry

LEMMA ReplyKeeps ==
  ASSUME DnsInv, NEW f \in flows, Reply(f)
  PROVE  DnsInv'
<1> DEFINE S == WithWord(f.domain)
<1>1. f.name \in Names /\ flows' \subseteq flows /\ UNCHANGED <<next, cached>>
  BY DEF DnsInv, TypeOK, Reply
<1>2. \E i \in Slots : UNCHANGED entries \/ Touch(i)
  <2>1. CASE S = {}
    BY <2>1, SlotsNat DEF Reply
  <2>2. CASE S # {}
    <3>1. First(S) \in Slots
      BY <2>2, FirstIn DEF WithWord
    <3> QED
      BY <2>2, <3>1 DEF Reply
  <2> QED
    BY <2>1, <2>2
<1>3. out' \in [what: {"none", "connect", "reply", "lost"}, asked: Names \cup {NoName},
                got: Names \cup {NoName}]
  <2>1. CASE S = {}
    BY <1>1, <2>1 DEF Reply
  <2>2. CASE S # {}
    <3>1. First(S) \in Slots
      BY <2>2, FirstIn DEF WithWord
    <3>2. entries[First(S)].domain \in Names \cup {NoName}
      BY <3>1 DEF DnsInv, TypeOK
    <3> QED
      BY <1>1, <2>2, <3>2 DEF Reply
  <2> QED
    BY <2>1, <2>2
<1> QED
  BY <1>1, <1>2, <1>3, TouchKeeps DEF DnsInv, TypeOK, Entry

\* Time passes for entries and answers alike, and an answer is gone when an
\* entry's age can no longer grow.
LEMMA TickKeeps ==
  ASSUME DnsInv, Tick
  PROVE  DnsInv'
<1> USE DEF DnsInv
<1>1. \A i \in Slots : /\ entries[i] \in Entry
                       /\ Age(entries[i].age, Idle + 1) \in 0..(Idle + 1)
                       /\ Age(entries[i].age, Idle + 1) <= entries[i].age + 1
  BY FakeDnsAssumption DEF TypeOK, Age, Entry
<1>2. entries' \in [Slots -> Entry]
  BY <1>1 DEF Tick, Entry
<1>3. \A i \in Slots : /\ entries'[i].in_use = entries[i].in_use
                       /\ entries'[i].domain = entries[i].domain
                       /\ entries'[i].age \in 0..(Idle + 1)
                       /\ entries'[i].age <= entries[i].age + 1
  BY <1>1, FakeDnsAssumption DEF Tick, Entry
<1>4. cached' = {[c EXCEPT !.age = @ + 1] : c \in {d \in cached : d.age < Ttl}}
  BY DEF Tick
<1>5. cached' \subseteq [name: Names, fam: {4, 6}, slot: Slots, age: 0..Ttl]
  BY <1>4, FakeDnsAssumption DEF TypeOK
<1>6. flows' \subseteq [name: Names, fam: {4, 6}, slot: Slots, domain: Names \cup {NoName}, age: 0..Ttl]
  BY FakeDnsAssumption DEF TypeOK, Tick
<1>7. Alone'
  BY <1>3 DEF Alone, Used
<1>8. AnswersStand' /\ Younger'
  <2> SUFFICES ASSUME NEW c \in cached, c.age < Ttl, NEW d, d = [c EXCEPT !.age = @ + 1]
               PROVE  /\ entries'[d.slot].in_use /\ entries'[d.slot].domain = d.name
                      /\ entries'[d.slot].age <= d.age
    BY <1>4 DEF AnswersStand, Younger, Used
  <2>1. c \in [name: Names, fam: {4, 6}, slot: Slots, age: 0..Ttl]
    BY DEF TypeOK
  <2>2. d.slot = c.slot /\ d.name = c.name /\ d.age = c.age + 1
    BY <2>1
  <2>3. entries[c.slot].in_use /\ entries[c.slot].domain = c.name /\ entries[c.slot].age <= c.age
    BY DEF AnswersStand, Younger, Used
  <2> QED
    <3>1. c.slot \in Slots /\ c.age \in Nat
      BY <2>1, FakeDnsAssumption
    <3>2. /\ entries'[c.slot].in_use = entries[c.slot].in_use
          /\ entries'[c.slot].domain = entries[c.slot].domain
          /\ entries'[c.slot].age \in Nat /\ entries'[c.slot].age <= entries[c.slot].age + 1
      BY <1>3, <3>1, FakeDnsAssumption
    <3>3. entries[c.slot].age \in Nat
      BY <1>1, <3>1, FakeDnsAssumption DEF Entry
    <3>4. entries'[c.slot].age <= c.age + 1
      BY <2>3, <3>1, <3>2, <3>3
    <3> QED
      BY <2>2, <2>3, <3>2, <3>4
<1> QED
  BY <1>2, <1>5, <1>6, <1>7, <1>8 DEF TypeOK, Tick, Entry

-----------------------------------------------------------------------------
\* Names and addresses belong together, whatever the names, the size of the
\* table and the times, unless more names than entries are looked up within a
\* TTL or the table is wiped while Apps hold answers from it (fake_dns_alloc,
\* fake_dns_lookup, engine_soft_reset).
THEOREM TableSoundHolds ==
  ASSUME Quiet
  PROVE  Spec => []TableSound
<1>1. Init => DnsInv
  <2> SUFFICES ASSUME Init PROVE DnsInv
    OBVIOUS
  <2>1. TypeOK
    BY SlotsNat, FakeDnsAssumption DEF Init, TypeOK, Empty, None, Slots
  <2>2. Alone /\ AnswersStand /\ Younger
    BY DEF Init, Alone, AnswersStand, Younger, Used, Empty
  <2> QED
    BY <2>1, <2>2 DEF DnsInv
<1>2. DnsInv /\ [Next]_vars => DnsInv'
  <2> SUFFICES ASSUME DnsInv, [Next]_vars PROVE DnsInv'
    OBVIOUS
  <2>1. CASE \E n \in Names, fam \in {4, 6}, via \in {"udp", "tcp"} : Query(n, fam, via)
    BY <2>1, QueryKeeps
  <2>2. CASE \E c \in cached : Connect(c) \/ Send(c)
    BY <2>2, ConnectKeeps, SendKeeps
  <2>3. CASE \E f \in flows : Reply(f)
    BY <2>3, ReplyKeeps
  <2>4. CASE SoftReset
    <3>1. cached = {} /\ cached' = {} /\ flows' = {} /\ out' = out
      BY <2>4 DEF SoftReset, Quiet
    <3>2. entries' = [i \in Slots |-> Empty] /\ next' = 0
      BY <2>4 DEF SoftReset
    <3>3. TypeOK'
      BY <3>1, <3>2, SlotsNat, FakeDnsAssumption DEF DnsInv, TypeOK, Empty, Slots
    <3> QED
      BY <3>1, <3>2, <3>3 DEF DnsInv, Alone, AnswersStand, Younger, Used, Empty
  <2>5. CASE Tick
    BY <2>5, TickKeeps
  <2>6. CASE UNCHANGED vars
    <3>1. TypeOK'
      BY <2>6 DEF vars, DnsInv, TypeOK
    <3>2. Alone' /\ AnswersStand' /\ Younger'
      BY <2>6 DEF vars, DnsInv, Alone, AnswersStand, Younger, Used
    <3> QED
      BY <3>1, <3>2 DEF DnsInv
  <2> QED
    BY <2>1, <2>2, <2>3, <2>4, <2>5, <2>6 DEF Next
<1>3. DnsInv => TableSound
  BY AloneIsOneEntry DEF DnsInv, TableSound
<1> QED
  BY <1>1, <1>2, <1>3, PTL DEF Spec

=============================================================================
