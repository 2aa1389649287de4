-------------------------- MODULE TcpStreamProofs --------------------------
(***************************************************************************)
(* The two byte streams of a TCP connection for buffers, windows, segments *)
(* and sequence numbers of any size.                                       *)
(*                                                                         *)
(* A handler of the code is a chain of calls, and so is the argument: for  *)
(* each operator of TcpStream from sessions to sessions one lemma says     *)
(* which fields it leaves alone and what it does to each part of the       *)
(* invariant; a step is the chain of its calls.  A part that fails in one  *)
(* of the hard cases is stated as an implication from the absence of that  *)
(* case, so that one invariant serves all instances.                       *)
(***************************************************************************)
EXTENDS TcpStream, SequenceTheorems, TLAPS

\* How a session can end.
Ends == {"open", "quiet", "reset", "fatal", "by_app"}

\* The session, its socket and its two peers, field by field.
Session ==
    [fd : BOOLEAN, state : {0, 1}, closed : BOOLEAN, end : Ends,
     want_out : BOOLEAN, srv_in_off : BOOLEAN,
     app_win : Nat, app_acked : 0..(Mod - 1),
     app_next : 0..(Mod - 1), srv_next : 0..(Mod - 1),
     app_fin : BOOLEAN, srv_eof : BOOLEAN, srv_fin_sent : BOOLEAN,
     app_buf : Seq(Nat), app_off : Nat, srv_buf : Seq(Nat), srv_off : Nat,
     tun_want_out : BOOLEAN, rst_seq : Nat,
     added : BOOLEAN, events : SUBSET {"in", "out"}, sndq : Seq(Nat), rcvq : Seq(Nat),
     shut : BOOLEAN, got : Nat, down : Nat, peer : {"open", "eof", "err"},
     est : BOOLEAN, sent : Nat, fin : BOOLEAN, rcvd : Nat, eof : BOOLEAN,
     promise : Nat]

\* Every buffer within its capacity, and the App promised no more room than there is.
Typed(r) ==
    /\ r \in Session
    /\ r.app_off + Len(r.app_buf) <= AppCap
    /\ r.srv_off + Len(r.srv_buf) <= SrvCap
    /\ Len(r.sndq) <= SndCap
    /\ r.promise <= AppCap - Len(r.app_buf)
    /\ r.closed = (r.end # "open")

\* The fields an operator of one side leaves alone.
SameSent(r, s) ==
    /\ s.app_buf = r.app_buf
    /\ s.sndq = r.sndq /\ s.got = r.got /\ s.shut = r.shut
    /\ s.app_next = r.app_next /\ s.app_fin = r.app_fin
    /\ s.sent = r.sent /\ s.fin = r.fin

\* ... and not the room promised either.
SameUp(r, s) ==
    SameSent(r, s) /\ s.app_off = r.app_off /\ s.promise = r.promise

\* The download, except for where srv_buf lies in its array ...
SameRead(r, s) ==
    /\ s.srv_buf = r.srv_buf /\ s.srv_next = r.srv_next
    /\ s.rcvq = r.rcvq /\ s.down = r.down /\ s.rcvd = r.rcvd
    /\ s.srv_eof = r.srv_eof /\ s.srv_fin_sent = r.srv_fin_sent /\ s.eof = r.eof

\* ... and with it.
SameDown(r, s) ==
    SameRead(r, s) /\ s.srv_off = r.srv_off /\ s.tun_want_out = r.tun_want_out

\* The connection itself and what the App said of its window.
SameLink(r, s) ==
    /\ s.fd = r.fd /\ s.state = r.state /\ s.added = r.added
    /\ s.peer = r.peer /\ s.est = r.est
    /\ s.app_win = r.app_win /\ s.app_acked = r.app_acked

\* The end of the session.
SameEnd(r, s) == s.closed = r.closed /\ s.end = r.end /\ s.rst_seq = r.rst_seq

\* The registration of the socket says what the flags say.
Heard(r) ==
    r.added => /\ r.fd
               /\ "in" \in r.events <=> ~r.srv_in_off
               /\ "out" \in r.events <=> r.want_out

\* A flag that counts for one number, as FIN and SYN do.
Bit(b) == IF b THEN 1 ELSE 0
\* q holds the bytes behind the first from ones.
Run(q, from) == \A i \in 1..Len(q) : q[i] = from + i

-----------------------------------------------------------------------------
\* The assumption on the constants, field by field.
LEMMA Sizes ==
    /\ AppCap \in Nat \ {0} /\ SrvCap \in Nat \ {0} /\ SndCap \in Nat \ {0}
    /\ Mss \in Nat \ {0} /\ Chunk \in Nat \ {0} /\ WinUnit \in Nat \ {0}
    /\ AppIsn \in 0..(Mod - 1) /\ SrvIsn \in 0..(Mod - 1)
    /\ MaxUp \in Nat /\ MaxDown \in Nat /\ Mod \in Nat /\ SrvCap >= 2
    /\ Mod > 2 * (MaxUp + 2) /\ Mod > 2 * (MaxDown + 2)
    /\ SegLens \subseteq Nat /\ Wins \subseteq 0..(Mod - Mss)
  BY TcpStreamAssumption

\* A number that is at most one turn away is brought back by one turn.
LEMMA SmallMod ==
    ASSUME NEW x \in Int, -Mod <= x, x < 2 * Mod
    PROVE  x % Mod = IF x < 0 THEN x + Mod ELSE IF x < Mod THEN x ELSE x - Mod
  BY TcpStreamAssumption

\* A sequence number is its own remainder.
LEMMA ModSelf ==
    ASSUME NEW x \in 0..(Mod - 1)
    PROVE  x % Mod = x /\ (x + 0) % Mod = x
  BY Sizes

\* Counting on from a sequence number counts on from the number behind it.
LEMMA ModPlus ==
    ASSUME NEW x \in Nat, NEW m \in Nat, x + m < 2 * Mod
    PROVE  ((x % Mod) + m) % Mod = (x + m) % Mod
  <1>0. Mod \in Nat \ {0} /\ x < 2 * Mod
    BY Sizes
  <1>1. x % Mod = IF x < Mod THEN x ELSE x - Mod
    BY <1>0, SmallMod
  <1>2. CASE x < Mod
    BY <1>0, <1>1, <1>2
  <1>3. CASE ~(x < Mod)
    <2>1. (x % Mod) + m = x + m - Mod /\ 0 <= x + m - Mod /\ x + m - Mod < Mod
      BY <1>0, <1>1, <1>3
    <2>2. (x + m - Mod) % Mod = x + m - Mod
      BY <1>0, <2>1, SmallMod
    <2>3. (x + m) % Mod = x + m - Mod
      BY <1>0, <1>3, SmallMod
    <2> QED
      BY <2>1, <2>2, <2>3
  <1> QED
    BY <1>2, <1>3

\* The distance of two sequence numbers is the distance of the counts.
LEMMA ModMinus ==
    ASSUME NEW y \in 0..Mod, NEW d \in 0..(Mod - 1)
    PROVE  (((y + d) % Mod) - (y % Mod)) % Mod = d
  <1>0. Mod \in Nat \ {0}
    BY Sizes
  <1>1. (y + d) % Mod = IF y + d < Mod THEN y + d ELSE y + d - Mod
    BY <1>0, SmallMod
  <1>2. y % Mod = IF y < Mod THEN y ELSE 0
    BY <1>0, SmallMod
  <1>3. d % Mod = d /\ (d - Mod) % Mod = d
    BY <1>0, SmallMod
  <1>4. \/ ((y + d) % Mod) - (y % Mod) = d
        \/ ((y + d) % Mod) - (y % Mod) = d - Mod
    BY <1>0, <1>1, <1>2
  <1> QED
    BY <1>3, <1>4

\* Every remainder is a sequence number.
LEMMA ModRange ==
    ASSUME NEW x \in Int
    PROVE  x % Mod \in 0..(Mod - 1)
  BY TcpStreamAssumption

\* The advertised window is at most the free room.
LEMMA RoundDown ==
    ASSUME NEW n \in Nat
    PROVE  /\ (n \div WinUnit) * WinUnit \in Nat
           /\ (n \div WinUnit) * WinUnit <= n
  BY TcpStreamAssumption

\* Whole segments that cover d bytes exceed it by less than one segment.
LEMMA RoundUp ==
    ASSUME NEW d \in Nat \ {0}
    PROVE  /\ ((d + Mss - 1) \div Mss) * Mss \in Nat
           /\ ((d + Mss - 1) \div Mss) * Mss >= d
           /\ ((d + Mss - 1) \div Mss) * Mss < d + Mss
  BY TcpStreamAssumption

\* A sequence cut in two after n elements.
LEMMA Cut ==
    ASSUME NEW q \in Seq(Nat), NEW n \in 0..Len(q)
    PROVE  /\ Rest(q, n) \in Seq(Nat)
           /\ Len(Rest(q, n)) = Len(q) - n
           /\ \A i \in 1..(Len(q) - n) : Rest(q, n)[i] = q[n + i]
           /\ SubSeq(q, 1, n) \in Seq(Nat)
           /\ Len(SubSeq(q, 1, n)) = n
           /\ \A i \in 1..n : SubSeq(q, 1, n)[i] = q[i]
           /\ n = 0 => Rest(q, n) = q
           /\ Rest(q, n) = <<>> <=> n = Len(q)
  <1> DEFINE u == SubSeq(q, n + 1, Len(q))
             v == SubSeq(q, 1, n)
  <1>1. /\ u \in Seq(Nat) /\ Len(u) = Len(q) - n
        /\ \A i \in 1..(Len(q) - n) : u[i] = q[n + i]
    OBVIOUS
  <1>2. v \in Seq(Nat) /\ Len(v) = n /\ \A i \in 1..n : v[i] = q[i]
    OBVIOUS
  <1>3. ASSUME n = 0  PROVE u = q
    BY <1>3
  <1>4. u = <<>> <=> n = Len(q)
    <2>1. u # <<>> => Len(u) \in Nat \ {0}
      BY <1>1, EmptySeq, Zenon
    <2>2. u = <<>> => Len(u) = 0
      BY EmptySeq, Zenon
    <2>3. Len(q) \in Nat
      OBVIOUS
    <2> HIDE DEF u
    <2> QED
      BY <1>1, <2>1, <2>2, <2>3
  <1> HIDE DEF u, v
  <1> QED
    BY <1>1, <1>2, <1>3, <1>4 DEF Rest, u, v

\* The lower of two numbers is at most each of them.
LEMMA LowerOf ==
    ASSUME NEW a \in Nat, NEW b \in Nat
    PROVE  Lower(a, b) \in Nat /\ Lower(a, b) <= a /\ Lower(a, b) <= b
  BY DEF Lower

\* A sequence joined from two.
LEMMA Joined ==
    ASSUME NEW s \in Seq(Nat), NEW t \in Seq(Nat)
    PROVE  /\ s \o t \in Seq(Nat)
           /\ Len(s \o t) = Len(s) + Len(t)
           /\ \A i \in 1..Len(s) : (s \o t)[i] = s[i]
           /\ \A i \in 1..Len(t) : (s \o t)[Len(s) + i] = t[i]
  OBVIOUS

\* A run of bytes cut in two is two runs.
LEMMA RunCut ==
    ASSUME NEW q \in Seq(Nat), NEW n \in 0..Len(q), NEW from \in Nat, Run(q, from)
    PROVE  Run(SubSeq(q, 1, n), from) /\ Run(Rest(q, n), from + n)
  <1>1. Run(SubSeq(q, 1, n), from)
    BY Cut DEF Run
  <1>2. \A i \in 1..(Len(q) - n) : Rest(q, n)[i] = q[n + i] /\ n + i \in 1..Len(q)
    BY Cut
  <1>3. Len(Rest(q, n)) = Len(q) - n /\ Len(q) \in Nat
    BY Cut
  <1>4. Run(Rest(q, n), from + n)
    BY <1>2, <1>3 DEF Run
  <1> QED
    BY <1>1, <1>4

\* Two runs that meet are one.
LEMMA RunJoined ==
    ASSUME NEW s \in Seq(Nat), NEW t \in Seq(Nat), NEW from \in Nat,
           Run(s, from), Run(t, from + Len(s))
    PROVE  Run(s \o t, from)
  BY Joined DEF Run

\* ... and a run is the sequence of those bytes.
LEMMA RunIsBytes ==
    ASSUME NEW s \in Seq(Nat), NEW t \in Seq(Nat), NEW from \in Nat,
           Run(s, from), Run(t, from + Len(s))
    PROVE  s \o t = Bytes(from, Len(s) + Len(t))
  <1>1. Run(s \o t, from)
    BY RunJoined
  <1>2. /\ s \o t \in Seq(Nat)
        /\ Len(s \o t) = Len(s) + Len(t)
    BY Joined
  <1> DEFINE u == s \o t
  <1>3. u = [i \in 1..Len(u) |-> u[i]]
    BY <1>2, LenProperties
  <1>4. \A i \in 1..Len(u) : u[i] = from + i
    BY <1>1 DEF Run
  <1> HIDE DEF u
  <1>5. u = [i \in 1..Len(u) |-> from + i]
    BY <1>3, <1>4
  <1> QED
    BY <1>2, <1>5 DEF Bytes, u

-----------------------------------------------------------------------------

\* The types of the fields, one by one.
LEMMA Fields ==
    ASSUME NEW r, Typed(r)
    PROVE  /\ r.app_off \in Nat /\ r.srv_off \in Nat /\ r.promise \in Nat
           /\ r.app_win \in Nat /\ r.app_acked \in 0..(Mod - 1)
           /\ r.app_next \in 0..(Mod - 1) /\ r.srv_next \in 0..(Mod - 1)
           /\ r.app_buf \in Seq(Nat) /\ r.srv_buf \in Seq(Nat)
           /\ r.sndq \in Seq(Nat) /\ r.rcvq \in Seq(Nat)
           /\ Len(r.app_buf) \in Nat /\ Len(r.srv_buf) \in Nat
           /\ Len(r.sndq) \in Nat /\ Len(r.rcvq) \in Nat
           /\ r.got \in Nat /\ r.down \in Nat /\ r.sent \in Nat /\ r.rcvd \in Nat
           /\ r.state \in {0, 1}
  BY SMTT(30) DEF Typed, Session

\* set_srv_events: the registration follows the flags.
LEMMA SetEvents ==
    ASSUME NEW r, Typed(r)
    PROVE  LET s == set_srv_events(r)
           IN  /\ Typed(s)
               /\ SameUp(r, s) /\ SameDown(r, s) /\ SameLink(r, s) /\ SameEnd(r, s)
               /\ s.srv_in_off = r.srv_in_off /\ s.want_out = r.want_out
               /\ (r.added => r.fd) => Heard(s)
  <1> DEFINE E == (IF r.srv_in_off THEN {} ELSE {"in"}) \cup (IF r.want_out THEN {"out"} ELSE {})
  <1>1. E \in SUBSET {"in", "out"} /\ ("in" \in E <=> ~r.srv_in_off) /\ ("out" \in E <=> r.want_out)
    OBVIOUS
  <1>2. set_srv_events(r) = IF ~r.fd \/ ~r.added THEN r ELSE [r EXCEPT !.events = E]
    BY DEF set_srv_events
  <1> HIDE DEF E
  <1>3. CASE ~r.fd \/ ~r.added
    BY <1>2, <1>3 DEF Heard, SameUp, SameSent, SameDown, SameRead, SameLink, SameEnd
  <1>4. CASE ~(~r.fd \/ ~r.added)
    <2> DEFINE s == [r EXCEPT !.events = E]
    <2>1. s \in Session
      BY <1>1 DEF Typed, Session
    <2>2. /\ SameUp(r, s) /\ SameDown(r, s) /\ SameLink(r, s) /\ SameEnd(r, s)
          /\ s.srv_in_off = r.srv_in_off /\ s.want_out = r.want_out
      BY DEF Typed, Session, SameUp, SameSent, SameDown, SameRead, SameLink, SameEnd
    <2>3. s.events = E
      BY DEF Typed, Session
    <2> QED
      BY <1>1, <1>2, <1>4, <2>1, <2>2, <2>3 DEF Typed, Heard, SameUp, SameSent, SameDown, SameRead, SameLink, SameEnd
  <1> QED
    BY <1>3, <1>4

\* set_srv_out.
LEMMA SetOut ==
    ASSUME NEW r, Typed(r), NEW on \in BOOLEAN
    PROVE  LET s == set_srv_out(r, on)
           IN  /\ Typed(s)
               /\ SameUp(r, s) /\ SameDown(r, s) /\ SameLink(r, s) /\ SameEnd(r, s)
               /\ s.srv_in_off = r.srv_in_off /\ s.want_out = on
               /\ Heard(r) => Heard(s)
  <1> DEFINE t == [r EXCEPT !.want_out = on]
  <1>1. /\ Typed(t)
        /\ SameUp(r, t) /\ SameDown(r, t) /\ SameLink(r, t) /\ SameEnd(r, t)
        /\ t.srv_in_off = r.srv_in_off /\ t.want_out = on
    BY ZenonT(60) DEF Typed, Session, SameUp, SameSent, SameDown, SameRead, SameLink, SameEnd
  <1> HIDE DEF t
  <1>2. CASE r.want_out = on
    BY <1>2 DEF set_srv_out, SameUp, SameSent, SameDown, SameRead, SameLink, SameEnd
  <1>3. CASE r.want_out # on
    <2>1. set_srv_out(r, on) = set_srv_events(t)
      BY <1>3 DEF set_srv_out, t
    <2> QED
      BY <1>1, <2>1, SetEvents DEF Heard, SameUp, SameSent, SameDown, SameRead, SameLink, SameEnd
  <1> QED
    BY <1>2, <1>3

\* set_srv_in.
LEMMA SetIn ==
    ASSUME NEW r, Typed(r), NEW on \in BOOLEAN
    PROVE  LET s == set_srv_in(r, on)
           IN  /\ Typed(s)
               /\ SameUp(r, s) /\ SameDown(r, s) /\ SameLink(r, s) /\ SameEnd(r, s)
               /\ s.srv_in_off = ~on /\ s.want_out = r.want_out
               /\ Heard(r) => Heard(s)
  <1> DEFINE off == ~on
             t == [r EXCEPT !.srv_in_off = off]
  <1>0. off \in BOOLEAN
    OBVIOUS
  <1> HIDE DEF off
  <1>1. /\ Typed(t)
        /\ SameUp(r, t) /\ SameDown(r, t) /\ SameLink(r, t) /\ SameEnd(r, t)
        /\ t.srv_in_off = off /\ t.want_out = r.want_out
    BY ZenonT(60), <1>0 DEF Typed, Session, SameUp, SameSent, SameDown, SameRead, SameLink, SameEnd
  <1> HIDE DEF t
  <1>2. CASE r.srv_in_off = ~on
    BY <1>2 DEF set_srv_in, off, SameUp, SameSent, SameDown, SameRead, SameLink, SameEnd
  <1>3. CASE r.srv_in_off # ~on
    <2>1. set_srv_in(r, on) = set_srv_events(t)
      BY <1>3 DEF set_srv_in, t, off
    <2> QED
      BY <1>1, <2>1, SetEvents DEF Heard, off, SameUp, SameSent, SameDown, SameRead, SameLink, SameEnd
  <1> QED
    BY <1>2, <1>3

\* close_tcp_session touches neither stream.
LEMMA Close ==
    ASSUME NEW r, Typed(r), NEW end \in Ends \ {"open"}
    PROVE  LET s == close_tcp_session(r, end)
           IN  /\ Typed(s) /\ s.closed
               /\ SameUp(r, s) /\ SameDown(r, s) /\ SameLink(r, s)
               /\ s.srv_in_off = r.srv_in_off /\ s.want_out = r.want_out
               /\ Heard(r) => Heard(s)
  <1> DEFINE t == [r EXCEPT !.closed = TRUE, !.end = end, !.rst_seq = r.srv_next]
  <1>1. t \in Session
    <2>1. r.srv_next \in Nat
      BY Sizes DEF Typed, Session
    <2> QED
      BY <2>1 DEF Typed, Session
  <1>2. /\ t.closed /\ t.end = end
        /\ SameUp(r, t) /\ SameDown(r, t) /\ SameLink(r, t)
        /\ t.srv_in_off = r.srv_in_off /\ t.want_out = r.want_out /\ t.events = r.events
    BY DEF Typed, Session, SameUp, SameSent, SameDown, SameRead, SameLink
  <1> HIDE DEF t
  <1>3. close_tcp_session(r, end) = IF r.closed THEN r ELSE t
    BY DEF close_tcp_session, t
  <1>4. CASE r.closed
    BY <1>3, <1>4 DEF SameUp, SameSent, SameDown, SameRead, SameLink
  <1>5. CASE ~r.closed
    BY ZenonT(60), <1>1, <1>2, <1>3, <1>5 DEF Typed, Ends, Heard, SameUp, SameSent, SameDown, SameRead, SameLink
  <1> QED
    BY <1>4, <1>5

\* send_tcp_ack promises no more room than there is.
LEMMA SendAck ==
    ASSUME NEW r, Typed(r)
    PROVE  LET s == send_tcp_ack(r)
           IN  /\ Typed(s)
               /\ SameSent(r, s) /\ SameDown(r, s) /\ SameLink(r, s) /\ SameEnd(r, s)
               /\ s.app_off = r.app_off /\ s.srv_in_off = r.srv_in_off /\ s.want_out = r.want_out
               /\ Heard(r) => Heard(s)
  <1> DEFINE w == WinBytes(r)
  <1>1. w \in Nat /\ w <= AppCap - Len(r.app_buf)
    <2>1. AppCap - Len(r.app_buf) \in Nat
      BY SMTT(30), Sizes DEF Typed, Session
    <2> QED
      BY <2>1, RoundDown DEF WinBytes
  <1> DEFINE p == IF w > r.promise THEN w ELSE r.promise
             t == [r EXCEPT !.promise = p]
  <1>2. send_tcp_ack(r) = t
    BY DEF send_tcp_ack
  <1> HIDE DEF w
  <1>3. p \in Nat /\ p <= AppCap - Len(r.app_buf)
    BY <1>1 DEF Typed, Session
  <1> HIDE DEF p
  <1>4. t \in Session /\ t.promise = p
    BY <1>3 DEF Typed, Session
  <1>5. /\ SameSent(r, t) /\ SameDown(r, t) /\ SameLink(r, t) /\ SameEnd(r, t)
        /\ t.srv_in_off = r.srv_in_off /\ t.want_out = r.want_out /\ t.events = r.events
        /\ t.app_off = r.app_off
    BY DEF Typed, Session, SameSent, SameDown, SameRead, SameLink, SameEnd
  <1> HIDE DEF t
  <1> QED
    BY <1>2, <1>3, <1>4, <1>5 DEF Typed, Heard, SameSent, SameDown, SameRead, SameLink, SameEnd

-----------------------------------------------------------------------------
\* Data moved to the front of srv_buf is the same data.
LEMMA Compacted ==
    ASSUME NEW r, Typed(r)
    PROVE  LET s == CompactHalf(r)
           IN  /\ Typed(s)
               /\ SameUp(r, s) /\ SameRead(r, s) /\ SameLink(r, s) /\ SameEnd(r, s)
               /\ s.srv_in_off = r.srv_in_off /\ s.want_out = r.want_out
               /\ s.tun_want_out = r.tun_want_out
               /\ Heard(r) => Heard(s)
  <1> DEFINE t == [r EXCEPT !.srv_off = 0]
  <1>1. t \in Session
    BY DEF Typed, Session
  <1>2. /\ SameUp(r, t) /\ SameRead(r, t) /\ SameLink(r, t) /\ SameEnd(r, t)
        /\ t.srv_in_off = r.srv_in_off /\ t.want_out = r.want_out /\ t.events = r.events
        /\ t.tun_want_out = r.tun_want_out /\ t.srv_off = 0
    BY DEF Typed, Session, SameUp, SameSent, SameRead, SameLink, SameEnd
  <1> HIDE DEF t
  <1>3. CompactHalf(r) = IF r.srv_off >= SrvCap \div 2 THEN t ELSE r
    BY DEF CompactHalf, t
  <1>4. Typed(t)
    <2>1. r.srv_off \in Nat /\ Len(r.srv_buf) \in Nat
      BY Fields
    <2>2. t.srv_off + Len(t.srv_buf) <= SrvCap
      BY <1>2, <2>1, Sizes DEF Typed, SameRead
    <2> QED
      BY <1>1, <1>2, <2>2 DEF Typed, SameUp, SameSent, SameEnd
  <1>5. Heard(r) => Heard(t)
    BY <1>2 DEF Heard, SameLink
  <1>6. CASE r.srv_off >= SrvCap \div 2
    BY <1>2, <1>3, <1>4, <1>5, <1>6
  <1>7. CASE ~(r.srv_off >= SrvCap \div 2)
    BY <1>3, <1>7 DEF SameUp, SameSent, SameRead, SameLink, SameEnd
  <1> QED
    BY <1>6, <1>7

\* Reading is resumed unless there is still data to write.
LEMMA Resumed ==
    ASSUME NEW r, Typed(r)
    PROVE  LET s == ResumeSrv(r)
           IN  /\ Typed(s)
               /\ SameUp(r, s) /\ SameDown(r, s) /\ SameLink(r, s) /\ SameEnd(r, s)
               /\ s.want_out = r.want_out
               /\ s.srv_in_off => r.srv_in_off /\ s.srv_buf # <<>>
               /\ Heard(r) => Heard(s)
  <1>1. 0 < SrvCap \div 2
    BY Sizes
  <1>2. CASE r.srv_in_off /\ Len(r.srv_buf) < SrvCap \div 2
    <2>1. ResumeSrv(r) = set_srv_in(r, TRUE)
      BY <1>2 DEF ResumeSrv
    <2> QED
      BY <2>1, SetIn
  <1>3. CASE ~(r.srv_in_off /\ Len(r.srv_buf) < SrvCap \div 2)
    <2>1. ResumeSrv(r) = r
      BY <1>3 DEF ResumeSrv
    <2>2. r.srv_in_off => r.srv_buf # <<>>
      BY <1>1, <1>3
    <2> QED
      BY <2>1, <2>2 DEF SameUp, SameSent, SameDown, SameRead, SameLink, SameEnd
  <1> QED
    BY <1>2, <1>3

\* The FIN goes out behind the last byte.
LEMMA FinToAppOnce ==
    ASSUME NEW r, Typed(r), NEW ok \in BOOLEAN
    PROVE  LET s == FinToApp(r, ok)
           IN  /\ Typed(s)
               /\ SameUp(r, s) /\ SameLink(r, s) /\ SameEnd(r, s)
               /\ s.srv_buf = r.srv_buf /\ s.srv_next = r.srv_next /\ s.rcvq = r.rcvq
               /\ s.down = r.down /\ s.rcvd = r.rcvd /\ s.srv_eof = r.srv_eof
               /\ s.srv_in_off = r.srv_in_off /\ s.want_out = r.want_out
               /\ s.tun_want_out = r.tun_want_out
               /\ s.srv_fin_sent <=> r.srv_fin_sent \/ (r.srv_eof /\ r.srv_buf = <<>>)
               /\ s.eof => r.eof \/ s.srv_fin_sent
               /\ Heard(r) => Heard(s)
  <1> DEFINE e == ok /\ r.est
             t == [r EXCEPT !.srv_fin_sent = TRUE, !.eof = e]
  <1>0. e \in BOOLEAN
    OBVIOUS
  <1> HIDE DEF e
  <1>1. t \in Session
    BY <1>0 DEF Typed, Session
  <1>2. /\ SameUp(r, t) /\ SameLink(r, t) /\ SameEnd(r, t)
        /\ t.srv_in_off = r.srv_in_off /\ t.want_out = r.want_out /\ t.events = r.events
        /\ t.tun_want_out = r.tun_want_out /\ t.srv_off = r.srv_off
        /\ t.srv_fin_sent = TRUE
    BY <1>0 DEF Typed, Session, SameUp, SameSent, SameLink, SameEnd
  <1>3. /\ t.srv_buf = r.srv_buf /\ t.srv_next = r.srv_next /\ t.rcvq = r.rcvq
        /\ t.down = r.down /\ t.rcvd = r.rcvd /\ t.srv_eof = r.srv_eof
    BY DEF Typed, Session
  <1> HIDE DEF t
  <1>4. FinToApp(r, ok) = IF r.srv_eof /\ r.srv_buf = <<>> /\ ~r.srv_fin_sent THEN t ELSE r
    BY DEF FinToApp, t, e
  <1>5. Typed(t)
    BY <1>1, <1>2, <1>3 DEF Typed, Session, SameUp, SameSent, SameEnd
  <1>6. Heard(r) => Heard(t)
    BY <1>2 DEF Heard, SameLink
  <1>7. CASE r.srv_eof /\ r.srv_buf = <<>> /\ ~r.srv_fin_sent
    BY <1>2, <1>3, <1>4, <1>5, <1>6, <1>7
  <1>8. CASE ~(r.srv_eof /\ r.srv_buf = <<>> /\ ~r.srv_fin_sent)
    BY <1>4, <1>8 DEF SameUp, SameSent, SameLink, SameEnd
  <1> QED
    BY <1>7, <1>8

\* As much is sent as the window admits, in whole segments.
LEMMA Sends ==
    ASSUME NEW r, Typed(r)
    PROVE  /\ InFlight(r) \in 0..(Mod - 1)
           /\ Sendable(r) \in 0..Len(r.srv_buf)
           /\ Sendable(r) < Len(r.srv_buf) /\ ~WindowFull(r) =>
                /\ Sendable(r) >= r.app_win - InFlight(r)
                /\ Sendable(r) < r.app_win - InFlight(r) + Mss
           /\ Sendable(r) = 0 /\ r.srv_buf # <<>> => WindowFull(r)
  <1>1. InFlight(r) \in 0..(Mod - 1)
    <2>1. r.srv_next - r.app_acked \in Int
      BY Fields, Sizes
    <2> QED
      BY <2>1, ModRange DEF InFlight
  <1>2. r.srv_buf \in Seq(Nat) /\ r.app_win \in Nat
    BY Fields
  <1>3. Len(r.srv_buf) \in Nat /\ (r.srv_buf # <<>> => Len(r.srv_buf) > 0)
    BY <1>2, EmptySeq, LenProperties
  <1>4. CASE WindowFull(r)
    BY <1>1, <1>3, <1>4 DEF Sendable
  <1>5. CASE ~WindowFull(r)
    <2> DEFINE d == r.app_win - InFlight(r)
               k == ((d + Mss - 1) \div Mss) * Mss
    <2>1. d \in Nat \ {0}
      BY <1>1, <1>2, <1>5, Sizes DEF WindowFull
    <2>2. Sendable(r) = Lower(Len(r.srv_buf), k)
      BY <1>5 DEF Sendable
    <2> HIDE DEF d
    <2>3. k \in Nat /\ k >= d /\ k < d + Mss
      BY <2>1, RoundUp
    <2> HIDE DEF k
    <2>4. /\ Sendable(r) \in 0..Len(r.srv_buf)
          /\ Sendable(r) < Len(r.srv_buf) => Sendable(r) >= d /\ Sendable(r) < d + Mss
          /\ Sendable(r) = 0 => Len(r.srv_buf) = 0
      BY <1>3, <2>1, <2>2, <2>3, Sizes DEF Lower
    <2> QED
      BY <1>1, <1>3, <2>4 DEF d
  <1> QED
    BY <1>4, <1>5

\* What flush_tcp_srv_buf does to the download: m bytes move to the App.
Moved(r, s, m) ==
    /\ s.srv_buf = Rest(r.srv_buf, m)
    /\ s.srv_next = (r.srv_next + m) % Mod
    /\ s.rcvd = IF r.est THEN r.rcvd + m ELSE r.rcvd

\* The window the App has opened; Mod stands for none known yet.
Open(r) ==
    /\ r.app_win \in Wins \cup {Mod}
    /\ r.app_win = Mod => InFlight(r) + Len(r.srv_buf) <= Mod

\* s is r after some of srv_buf, and perhaps the FIN, went to the App.
Pumped(r, s) ==
    /\ SameUp(r, s) /\ SameLink(r, s) /\ SameEnd(r, s) /\ s.want_out = r.want_out
    /\ s.rcvq = r.rcvq /\ s.down = r.down /\ s.srv_eof = r.srv_eof
    /\ \E m \in 0..Len(r.srv_buf) : Moved(r, s, m)
    /\ s.srv_fin_sent => r.srv_fin_sent \/ (r.srv_eof /\ s.srv_buf = <<>>)
    /\ r.srv_fin_sent => s.srv_fin_sent
    /\ s.eof => r.eof \/ s.srv_fin_sent

\* flush_tcp_srv_buf: a front part of srv_buf goes out, and what is left waits
\* for the window or the TUN.  The window is compared with the bytes in flight,
\* which this is about: with whole segments it may be passed, never by so much
\* that the count wraps and the window looks open again.
LEMMA FlushSrv ==
    ASSUME NEW r, Typed(r), NEW ok \in BOOLEAN
    PROVE  LET s == flush_tcp_srv_buf(r, ok)
           IN  /\ Typed(s)
               /\ Pumped(r, s)
               /\ r.srv_eof /\ s.srv_buf = <<>> => s.srv_fin_sent
               /\ s.srv_in_off => r.srv_in_off /\ s.srv_buf # <<>>
               /\ Heard(r) => Heard(s)
               /\ Open(r) /\ s.srv_buf # <<>> => WindowFull(s) \/ s.tun_want_out
  <1> DEFINE n == Sendable(r)
             left == Rest(r.srv_buf, n)
             sent == [r EXCEPT !.srv_next = (@ + n) % Mod, !.srv_buf = left,
                               !.srv_off = IF left = <<>> THEN 0 ELSE @ + n,
                               !.rcvd = IF r.est THEN @ + n ELSE @]
             held == [r EXCEPT !.tun_want_out = TRUE]
             s == flush_tcp_srv_buf(r, ok)
  <1>1. s = IF n > 0 /\ ~ok THEN held
            ELSE FinToApp(ResumeSrv(CompactHalf(sent)), ok)
    BY DEF flush_tcp_srv_buf
  <1>2. n \in 0..Len(r.srv_buf) /\ n \in Nat
    BY Fields, Sends
  <1>3. /\ left \in Seq(Nat) /\ Len(left) = Len(r.srv_buf) - n
        /\ left = <<>> <=> n = Len(r.srv_buf)
        /\ n = 0 => left = r.srv_buf
    BY <1>2, Fields, Cut
  <1>4. (r.srv_next + n) % Mod \in 0..(Mod - 1)
    <2>1. r.srv_next + n \in Int
      BY <1>2, Fields
    <2> QED
      BY <2>1, ModRange
  <1>5. CASE n > 0 /\ ~ok
    <2>1. s = held
      BY <1>1, <1>5
    <2>2. held \in Session
      BY DEF Typed, Session
    <2>3. /\ SameUp(r, held) /\ SameRead(r, held) /\ SameLink(r, held) /\ SameEnd(r, held)
          /\ held.srv_off = r.srv_off /\ held.want_out = r.want_out
          /\ held.srv_in_off = r.srv_in_off /\ held.events = r.events
          /\ held.tun_want_out
      BY DEF Typed, Session, SameUp, SameSent, SameRead, SameLink, SameEnd
    <2> HIDE DEF n, left, sent, held, s
    <2>4. Typed(held)
      BY <2>2, <2>3 DEF Typed, SameUp, SameSent, SameRead, SameEnd
    <2>5. held.srv_buf # <<>>
      BY <1>2, <1>3, <1>5, <2>3 DEF SameRead
    <2>6. Moved(r, held, 0)
      <3>0. /\ r.srv_buf \in Seq(Nat) /\ 0 \in 0..Len(r.srv_buf)
            /\ r.srv_next \in 0..(Mod - 1) /\ Mod \in Nat \ {0}
        BY Fields, Sizes
      <3>1. Rest(r.srv_buf, 0) = r.srv_buf
        BY <3>0, Cut
      <3>2. r.srv_next + 0 = r.srv_next /\ r.srv_next % Mod = r.srv_next
        BY <3>0, SmallMod
      <3> QED
        BY <2>3, <3>0, <3>1, <3>2, Fields DEF Moved, SameRead
    <2>7. Heard(r) => Heard(held)
      BY <2>3 DEF Heard, SameLink
    <2>8. 0 \in 0..Len(r.srv_buf)
      BY Fields
    <2> QED
      BY <2>1, <2>3, <2>4, <2>5, <2>6, <2>7, <2>8 DEF SameRead, Pumped, s
  <1>6. CASE ~(n > 0 /\ ~ok)
    <2> HIDE DEF n
    <2> HIDE DEF left
    <2> DEFINE off == IF left = <<>> THEN 0 ELSE r.srv_off + n
               next == (r.srv_next + n) % Mod
               got == IF r.est THEN r.rcvd + n ELSE r.rcvd
    <2>1. off \in Nat /\ off + Len(left) <= SrvCap /\ got \in Nat
      <3>1. /\ r.srv_off \in Nat /\ r.rcvd \in Nat /\ Len(r.srv_buf) \in Nat
            /\ SrvCap \in Nat /\ n \in Nat /\ n <= Len(r.srv_buf)
            /\ r.srv_off + Len(r.srv_buf) <= SrvCap
        BY <1>2, Fields, Sizes DEF Typed
      <3>2. got \in Nat
        BY <3>1
      <3>3. CASE left = <<>>
        <4>1. off = 0 /\ Len(left) = 0
          BY <1>3, <3>1, <3>3
        <4> QED
          BY <3>1, <3>2, <4>1
      <3>4. CASE left # <<>>
        <4>1. off = r.srv_off + n /\ Len(left) = Len(r.srv_buf) - n
          BY <1>3, <3>4
        <4> HIDE DEF off
        <4> QED
          BY <3>1, <3>2, <4>1
      <3> QED
        BY <3>3, <3>4
    <2>2. sent = [r EXCEPT !.srv_next = next, !.srv_buf = left, !.srv_off = off, !.rcvd = got]
      BY DEF Typed, Session
    <2>0. next \in 0..(Mod - 1)
      BY <1>4
    <2> HIDE DEF off, next, got, sent
    <2>3. sent \in Session
      BY ZenonT(60), <1>3, <2>0, <2>1, <2>2 DEF Typed, Session
    <2>4. /\ SameUp(r, sent) /\ SameLink(r, sent) /\ SameEnd(r, sent)
          /\ sent.want_out = r.want_out /\ sent.srv_in_off = r.srv_in_off
          /\ sent.events = r.events
      BY <2>2 DEF Typed, Session, SameUp, SameSent, SameLink, SameEnd
    <2>5. /\ sent.rcvq = r.rcvq /\ sent.down = r.down /\ sent.srv_eof = r.srv_eof
          /\ sent.srv_fin_sent = r.srv_fin_sent /\ sent.eof = r.eof
          /\ sent.srv_next = next /\ sent.srv_buf = left /\ sent.srv_off = off
          /\ sent.rcvd = got
      BY <2>2 DEF Typed, Session
    <2>6. Typed(sent)
      BY <2>1, <2>3, <2>4, <2>5 DEF Typed, SameUp, SameSent, SameEnd
    <2>7. Heard(r) => Heard(sent)
      BY <2>4 DEF Heard, SameLink
    <2> DEFINE a == CompactHalf(sent)
               b == ResumeSrv(a)
    <2>8. s = FinToApp(b, ok)
      BY <1>1, <1>6
    <2> HIDE DEF s
    <2>9. /\ Typed(a)
          /\ SameUp(sent, a) /\ SameRead(sent, a) /\ SameLink(sent, a) /\ SameEnd(sent, a)
          /\ a.srv_in_off = sent.srv_in_off /\ a.want_out = sent.want_out
          /\ Heard(sent) => Heard(a)
      BY <2>6, Compacted
    <2> HIDE DEF a
    <2>10. /\ Typed(b)
           /\ SameUp(a, b) /\ SameRead(a, b) /\ SameLink(a, b) /\ SameEnd(a, b)
           /\ b.want_out = a.want_out
           /\ b.srv_in_off => a.srv_in_off /\ b.srv_buf # <<>>
           /\ Heard(a) => Heard(b)
      BY <2>9, Resumed DEF SameDown
    <2> HIDE DEF b
    <2>11. /\ Typed(s)
           /\ SameUp(b, s) /\ SameLink(b, s) /\ SameEnd(b, s)
           /\ s.srv_buf = b.srv_buf /\ s.srv_next = b.srv_next /\ s.rcvq = b.rcvq
           /\ s.down = b.down /\ s.rcvd = b.rcvd /\ s.srv_eof = b.srv_eof
           /\ s.srv_in_off = b.srv_in_off /\ s.want_out = b.want_out
           /\ s.srv_fin_sent <=> b.srv_fin_sent \/ (b.srv_eof /\ b.srv_buf = <<>>)
           /\ s.eof => b.eof \/ s.srv_fin_sent
           /\ Heard(b) => Heard(s)
      BY <2>8, <2>10, FinToAppOnce
    <2>12. SameUp(r, s) /\ SameLink(r, s) /\ SameEnd(r, s) /\ s.want_out = r.want_out
      BY <2>4, <2>9, <2>10, <2>11 DEF SameUp, SameSent, SameLink, SameEnd
    <2>13. /\ s.rcvq = r.rcvq /\ s.down = r.down /\ s.srv_eof = r.srv_eof
           /\ s.srv_buf = left /\ s.srv_next = next /\ s.rcvd = got
           /\ b.srv_fin_sent = r.srv_fin_sent /\ b.srv_eof = r.srv_eof /\ b.eof = r.eof
      BY <2>5, <2>9, <2>10, <2>11 DEF SameRead
    <2>14. Moved(r, s, n)
      BY <2>13 DEF Moved, left, next, got
    <2>15. s.srv_in_off => r.srv_in_off /\ s.srv_buf # <<>>
      BY <2>4, <2>9, <2>10, <2>11
    <2>16. Heard(r) => Heard(s)
      BY <2>4, <2>7, <2>9, <2>10, <2>11 DEF SameLink
    <2>17. ASSUME Open(r), s.srv_buf # <<>>  PROVE WindowFull(s)
      <3>1. s.app_win = r.app_win /\ s.app_acked = r.app_acked
        BY <2>12 DEF SameLink
      <3>2. n < Len(r.srv_buf)
        BY <1>2, <1>3, <2>13, <2>17, Fields
      <3>3. InFlight(r) \in 0..(Mod - 1)
        BY Sends
      <3>4. CASE WindowFull(r)
        <4>1. n = 0
          BY <3>4 DEF n, Sendable
        <4>2. s.srv_next = r.srv_next
          <5>1. r.srv_next \in 0..(Mod - 1) /\ Mod \in Nat \ {0} /\ r.srv_next + 0 = r.srv_next
            BY Fields, Sizes
          <5>2. r.srv_next % Mod = r.srv_next
            BY <5>1, SmallMod
          <5> QED
            BY <2>13, <4>1, <5>1, <5>2 DEF next
        <4> QED
          BY <3>1, <3>4, <4>2 DEF WindowFull, InFlight
      <3>5. CASE ~WindowFull(r)
        <4>1. n >= r.app_win - InFlight(r) /\ n < r.app_win - InFlight(r) + Mss
          BY <3>2, <3>5, Sends DEF n
        <4>2. r.app_win # Mod
          BY <2>17, <3>2, <3>3, <4>1, <1>2, Fields, Sizes DEF Open
        <4>3. r.app_win \in Nat /\ r.app_win + Mss <= Mod
          <5>1. r.app_win \in Wins
            BY <2>17, <4>2 DEF Open
          <5>2. r.app_win \in 0..(Mod - Mss)
            BY <5>1, Sizes
          <5> QED
            BY <5>2, Sizes
        <4>4. InFlight(r) + n < Mod
          BY <3>3, <4>1, <4>3, <1>2, Sizes
        <4>5. InFlight(s) = InFlight(r) + n
          <5>1. InFlight(s) = (next - r.app_acked) % Mod
            BY <2>13, <3>1 DEF InFlight
          <5>2. r.srv_next \in 0..(Mod - 1) /\ r.app_acked \in 0..(Mod - 1) /\ Mod \in Nat \ {0}
            BY Fields, Sizes
          <5>3. r.srv_next + n < 2 * Mod
            BY <1>2, <3>3, <4>4, <5>2
          <5>4. next = IF r.srv_next + n < Mod THEN r.srv_next + n ELSE r.srv_next + n - Mod
            BY <1>2, <5>2, <5>3, SmallMod DEF next
          <5>5. InFlight(r) = IF r.srv_next < r.app_acked THEN r.srv_next - r.app_acked + Mod
                              ELSE r.srv_next - r.app_acked
            BY <5>2, SmallMod DEF InFlight
          <5>6. next \in 0..(Mod - 1)
            BY <1>4 DEF next
          <5>7. (next - r.app_acked) % Mod =
                  IF next < r.app_acked THEN next - r.app_acked + Mod ELSE next - r.app_acked
            BY <5>2, <5>6, SmallMod
          <5>8. InFlight(r) + n < Mod /\ n \in Nat
            BY <1>2, <4>4
          <5>9. CASE r.srv_next + n < Mod
            <6>1. next = r.srv_next + n
              BY <5>4, <5>9
            <6> QED
              BY <5>1, <5>2, <5>5, <5>7, <5>8, <6>1
          <5>10. CASE ~(r.srv_next + n < Mod)
            <6>1. next = r.srv_next + n - Mod
              BY <5>4, <5>10
            <6> QED
              BY <5>1, <5>2, <5>5, <5>7, <5>8, <5>10, <6>1
          <5> QED
            BY <5>9, <5>10
        <4> QED
          BY <1>2, <3>1, <3>3, <4>1, <4>3, <4>5 DEF WindowFull
      <3> QED
        BY <3>4, <3>5
    <2> QED
      BY <1>2, <2>11, <2>12, <2>13, <2>14, <2>15, <2>16, <2>17 DEF Pumped, s
  <1> QED
    BY <1>5, <1>6

-----------------------------------------------------------------------------
\* The download as it is always found.
FinNotLate(r) == ~r.closed /\ r.srv_eof /\ ~r.srv_fin_sent => r.srv_buf # <<>>

\* Reading is paused only while there is data to write.
Held(r) == r.srv_in_off => r.srv_buf # <<>>

\* The App has named a window, or has not acknowledged anything yet.
FirstWin(r) ==
    /\ r.app_win \in Wins \cup {Mod}
    /\ r.app_win = Mod => r.app_acked = (SrvIsn + 1) % Mod

\* Data for the App waits for its window or for room in the TUN.
Waits(r) == r.closed \/ r.srv_buf = <<>> \/ WindowFull(r) \/ r.tun_want_out

\* The bytes received, in srv_buf and in the socket are those the server sent,
\* and the FIN stands behind them.
Down(r) ==
    /\ Run(r.srv_buf, r.rcvd) /\ Run(r.rcvq, r.rcvd + Len(r.srv_buf))
    /\ r.rcvd + Len(r.srv_buf) + Len(r.rcvq) = r.down /\ r.down <= MaxDown
    /\ r.srv_next = (SrvIsn + 1 + r.rcvd) % Mod
    /\ r.srv_eof => r.peer # "open" /\ r.rcvq = <<>>
    /\ r.srv_fin_sent => r.srv_eof /\ r.srv_buf = <<>>
    /\ r.eof => r.srv_fin_sent
    /\ r.srv_buf # <<>> => r.est
    /\ r.state = 1 /\ ~r.closed => r.est

\* As long as the App has named no window, what is in flight and what is held
\* fit into the sequence numbers.
LEMMA DownOpen ==
    ASSUME NEW r, Typed(r), Down(r), FirstWin(r)
    PROVE  Open(r)
  <1>1. /\ r.rcvd \in Nat /\ Len(r.srv_buf) \in Nat /\ Len(r.rcvq) \in Nat /\ r.down \in Nat
        /\ SrvIsn \in 0..(Mod - 1) /\ Mod \in Nat \ {0} /\ MaxDown \in Nat
        /\ Mod > 2 * (MaxDown + 2)
        /\ r.rcvd + Len(r.srv_buf) + Len(r.rcvq) = r.down /\ r.down <= MaxDown
    BY Fields, Sizes DEF Down
  <1>2. ASSUME r.app_win = Mod
        PROVE  InFlight(r) = r.rcvd
    <2> DEFINE y == SrvIsn + 1
    <2>1. y \in 0..Mod /\ r.rcvd \in 0..(Mod - 1)
      BY <1>1
    <2>2. InFlight(r) = (((y + r.rcvd) % Mod) - (y % Mod)) % Mod
      BY <1>2 DEF InFlight, Down, FirstWin
    <2> HIDE DEF y
    <2> QED
      BY <2>1, <2>2, ModMinus
  <1> QED
    BY SMTT(30), <1>1, <1>2 DEF Open, FirstWin

\* Sending a part of srv_buf keeps the download intact.
LEMMA DownPumped ==
    ASSUME NEW r, NEW s, Typed(r), Typed(s), Down(r), Pumped(r, s)
    PROVE  Down(s)
  <1>1. PICK m \in 0..Len(r.srv_buf) : Moved(r, s, m)
    BY DEF Pumped
  <1>2. /\ r.srv_buf \in Seq(Nat) /\ r.rcvq \in Seq(Nat) /\ r.rcvd \in Nat /\ m \in Nat
        /\ Len(r.srv_buf) \in Nat /\ Len(r.rcvq) \in Nat /\ m <= Len(r.srv_buf)
        /\ SrvIsn \in 0..(Mod - 1) /\ Mod \in Nat \ {0} /\ MaxDown \in Nat
        /\ Mod > 2 * (MaxDown + 2)
    BY <1>1, Fields, Sizes
  <1>3. /\ s.srv_buf = Rest(r.srv_buf, m)
        /\ Len(s.srv_buf) = Len(r.srv_buf) - m
        /\ Run(s.srv_buf, r.rcvd + m)
        /\ r.srv_buf = <<>> => m = 0 /\ s.srv_buf = <<>>
    <2>1. s.srv_buf = Rest(r.srv_buf, m) /\ Run(r.srv_buf, r.rcvd)
      BY <1>1 DEF Moved, Down
    <2>2. Run(Rest(r.srv_buf, m), r.rcvd + m)
      BY <1>1, <1>2, <2>1, RunCut
    <2>3. Len(Rest(r.srv_buf, m)) = Len(r.srv_buf) - m /\ (m = 0 => Rest(r.srv_buf, m) = r.srv_buf)
      BY <1>1, <1>2, Cut
    <2>4. r.srv_buf = <<>> => m = 0
      BY <1>2, EmptySeq
    <2> QED
      BY <2>1, <2>2, <2>3, <2>4
  <1>4. s.rcvd = r.rcvd + m
    BY <1>1, <1>2, <1>3 DEF Moved, Down
  <1>5. r.rcvd + Len(r.srv_buf) + Len(r.rcvq) = r.down /\ r.down <= MaxDown
    BY DEF Down
  <1>6. s.srv_next = (SrvIsn + 1 + s.rcvd) % Mod
    <2> DEFINE x == SrvIsn + 1 + r.rcvd
    <2>1. x \in Nat /\ x + m < 2 * Mod
      BY <1>2, <1>5
    <2>2. s.srv_next = ((x % Mod) + m) % Mod
      BY <1>1 DEF Moved, Down
    <2>3. SrvIsn + 1 + s.rcvd = x + m
      BY <1>2, <1>4
    <2>4. ((x % Mod) + m) % Mod = (x + m) % Mod
      BY <1>2, <2>1, ModPlus
    <2> QED
      BY <2>2, <2>3, <2>4
  <1>7. /\ s.rcvq = r.rcvq /\ s.down = r.down /\ s.srv_eof = r.srv_eof /\ s.peer = r.peer
        /\ s.est = r.est /\ s.state = r.state /\ s.closed = r.closed
    BY DEF Pumped, SameLink, SameEnd
  <1>8. Run(s.rcvq, s.rcvd + Len(s.srv_buf))
    <2>1. s.rcvd + Len(s.srv_buf) = r.rcvd + Len(r.srv_buf)
      BY <1>2, <1>3, <1>4
    <2> QED
      BY <1>7, <2>1 DEF Down
  <1>9. s.rcvd + Len(s.srv_buf) + Len(s.rcvq) = s.down /\ s.down <= MaxDown
    BY <1>2, <1>3, <1>4, <1>5, <1>7
  <1>10. /\ s.srv_fin_sent => s.srv_eof /\ s.srv_buf = <<>>
         /\ s.eof => s.srv_fin_sent
    BY <1>3, <1>7 DEF Pumped, Down
  <1>11. Run(s.srv_buf, s.rcvd)
    BY <1>3, <1>4
  <1> QED
    BY <1>3, <1>6, <1>7, <1>8, <1>9, <1>10, <1>11 DEF Down

\* Nothing sent is a case of sending a part.
LEMMA PumpedRefl ==
    ASSUME NEW r, Typed(r)
    PROVE  Pumped(r, r)
  <1>0. /\ r.srv_buf \in Seq(Nat) /\ 0 \in 0..Len(r.srv_buf) /\ r.rcvd \in Nat
        /\ r.srv_next \in 0..(Mod - 1) /\ Mod \in Nat \ {0}
    BY Fields, Sizes
  <1>1. Rest(r.srv_buf, 0) = r.srv_buf
    BY <1>0, Cut
  <1>2. (r.srv_next + 0) % Mod = r.srv_next
    BY <1>0, ModSelf
  <1>3. Moved(r, r, 0)
    BY <1>0, <1>1, <1>2 DEF Moved
  <1> QED
    BY <1>0, <1>3 DEF Pumped, SameUp, SameSent, SameLink, SameEnd

\* flush_tcp_srv_buf as it is called wherever srv_buf may be empty.
LEMMA FlushIfAny ==
    ASSUME NEW r, Typed(r), NEW ok \in BOOLEAN
    PROVE  LET s == FlushSrvIfAny(r, ok)
           IN  /\ Typed(s)
               /\ Pumped(r, s)
               /\ FinNotLate(r) => FinNotLate(s)
               /\ Held(r) => Held(s)
               /\ Heard(r) => Heard(s)
               /\ Open(r) => Waits(s)
  <1>1. CASE r.srv_buf = <<>>
    BY <1>1, PumpedRefl DEF FlushSrvIfAny, Waits
  <1>2. CASE r.srv_buf # <<>>
    <2>1. FlushSrvIfAny(r, ok) = flush_tcp_srv_buf(r, ok)
      BY <1>2 DEF FlushSrvIfAny
    <2> QED
      BY <2>1, FlushSrv DEF FinNotLate, Held, Waits, Pumped, SameEnd
  <1> QED
    BY <1>1, <1>2

\* One turn of the recv loop of tcp_handle_event.
LEMMA Received ==
    ASSUME NEW r0, Typed(r0), NEW ok \in BOOLEAN
    PROVE  LET x == RecvOnce(r0, ok)
               s == x.r
           IN  /\ Typed(s) /\ x.go \in BOOLEAN
               /\ SameUp(r0, s) /\ SameLink(r0, s) /\ s.want_out = r0.want_out
               /\ r0.closed => s.closed
               /\ x.go => s.closed = r0.closed
               /\ FinNotLate(r0) => FinNotLate(s)
               /\ Held(r0) => Held(s)
               /\ Heard(r0) => Heard(s)
               /\ Down(r0) /\ ~r0.closed /\ r0.state = 1 => Down(s)
               /\ Down(r0) /\ FirstWin(r0) /\ ~r0.closed /\ r0.state = 1 /\ Waits(r0) => Waits(s)
  <1> DEFINE r == CompactHalf(r0)
             used == r.srv_off + Len(r.srv_buf)
             n == Lower(Lower(SrvCap - used, Chunk), Len(r.rcvq))
             t == [r EXCEPT !.srv_buf = @ \o SubSeq(r.rcvq, 1, n), !.rcvq = Rest(@, n)]
             e == [r EXCEPT !.srv_eof = TRUE]
             x == RecvOnce(r0, ok)
  <1>1. x = IF used >= SrvCap
            THEN [go |-> FALSE, r |-> IF r.srv_buf = <<>> THEN close_tcp_session(r, "reset")
                                      ELSE set_srv_in(r, FALSE)]
            ELSE IF n > 0 THEN [go |-> TRUE, r |-> flush_tcp_srv_buf(t, ok)]
            ELSE [go |-> FALSE,
                  r |-> CASE r.peer = "open" -> r
                          [] r.peer = "eof"  -> flush_tcp_srv_buf(e, ok)
                          [] r.peer = "err"  -> close_tcp_session(r, "reset")]
    BY DEF RecvOnce
  <1>2. /\ Typed(r)
        /\ SameUp(r0, r) /\ SameRead(r0, r) /\ SameLink(r0, r) /\ SameEnd(r0, r)
        /\ r.srv_in_off = r0.srv_in_off /\ r.want_out = r0.want_out
        /\ r.tun_want_out = r0.tun_want_out
        /\ Heard(r0) => Heard(r)
    BY Compacted
  <1> HIDE DEF r
  <1>3. /\ FinNotLate(r0) => FinNotLate(r)
        /\ Held(r0) => Held(r)
        /\ Down(r0) => Down(r)
        /\ FirstWin(r0) => FirstWin(r)
        /\ Waits(r0) => Waits(r)
    BY <1>2 DEF FinNotLate, Held, Down, FirstWin, Waits, WindowFull, InFlight,
                SameRead, SameLink, SameEnd
  <1>4. /\ used \in Nat /\ used <= SrvCap /\ r.srv_buf \in Seq(Nat) /\ r.rcvq \in Seq(Nat)
        /\ Len(r.srv_buf) \in Nat /\ Len(r.rcvq) \in Nat
        /\ r.peer \in {"open", "eof", "err"}
        /\ SrvCap \in Nat /\ Chunk \in Nat \ {0}
    <2>1. r.peer \in {"open", "eof", "err"} /\ r.srv_off + Len(r.srv_buf) <= SrvCap
      BY <1>2 DEF Typed, Session
    <2> QED
      BY <1>2, <2>1, Fields, Sizes
  <1>5. CASE used >= SrvCap
    <2>1. CASE r.srv_buf = <<>>
      <3>1. x.r = close_tcp_session(r, "reset") /\ x.go = FALSE
        BY <1>1, <1>5, <2>1
      <3> HIDE DEF x
      <3>2. /\ Typed(x.r) /\ x.r.closed
            /\ SameUp(r, x.r) /\ SameDown(r, x.r) /\ SameLink(r, x.r)
            /\ x.r.srv_in_off = r.srv_in_off /\ x.r.want_out = r.want_out
            /\ Heard(r) => Heard(x.r)
        BY <1>2, <3>1, Close DEF Ends
      <3>3. /\ SameUp(r0, x.r) /\ SameLink(r0, x.r)
            /\ FinNotLate(x.r) /\ Waits(x.r)
            /\ Held(r) => Held(x.r)
            /\ Down(r) => Down(x.r)
        BY <1>2, <3>2 DEF SameUp, SameSent, SameDown, SameRead, SameLink,
                          FinNotLate, Waits, Held, Down
      <3> QED
        BY <1>2, <1>3, <3>1, <3>2, <3>3 DEF x
    <2>2. CASE r.srv_buf # <<>>
      <3>1. x.r = set_srv_in(r, FALSE) /\ x.go = FALSE
        BY <1>1, <1>5, <2>2
      <3> HIDE DEF x
      <3>2. /\ Typed(x.r)
            /\ SameUp(r, x.r) /\ SameDown(r, x.r) /\ SameLink(r, x.r) /\ SameEnd(r, x.r)
            /\ x.r.want_out = r.want_out
            /\ Heard(r) => Heard(x.r)
        BY <1>2, <3>1, SetIn
      <3>3. /\ SameUp(r0, x.r) /\ SameLink(r0, x.r) /\ x.r.closed = r0.closed
            /\ FinNotLate(x.r) /\ Held(x.r)
            /\ Waits(r) => Waits(x.r)
            /\ Down(r) => Down(x.r)
        BY <1>2, <2>2, <3>2 DEF SameUp, SameSent, SameDown, SameRead, SameLink, SameEnd,
                          FinNotLate, Waits, WindowFull, InFlight, Held, Down
      <3>4. r.fd = r0.fd
        BY <1>2 DEF SameLink
      <3> QED
        BY <1>2, <1>3, <3>1, <3>2, <3>3, <3>4 DEF x
    <2> QED
      BY <2>1, <2>2
  <1>6. CASE used < SrvCap /\ n > 0
    <2>1. x.r = flush_tcp_srv_buf(t, ok) /\ x.go = TRUE
      BY <1>1, <1>4, <1>6
    <2>2. n \in 0..Len(r.rcvq) /\ n <= SrvCap - used /\ n \in Nat
      BY <1>4, <1>6 DEF Lower
    <2> HIDE DEF n, x
    <2> DEFINE buf == r.srv_buf \o SubSeq(r.rcvq, 1, n)
               rest == Rest(r.rcvq, n)
    <2>3. /\ buf \in Seq(Nat) /\ rest \in Seq(Nat)
          /\ Len(buf) = Len(r.srv_buf) + n /\ Len(rest) = Len(r.rcvq) - n
      <3>1. /\ SubSeq(r.rcvq, 1, n) \in Seq(Nat) /\ Len(SubSeq(r.rcvq, 1, n)) = n
            /\ rest \in Seq(Nat) /\ Len(rest) = Len(r.rcvq) - n
        BY <1>4, <2>2, Cut
      <3> QED
        BY <1>4, <3>1, Joined
    <2>4. t = [r EXCEPT !.srv_buf = buf, !.rcvq = rest]
      BY <1>2 DEF Typed, Session
    <2> HIDE DEF t
    <2>5. /\ Run(r.srv_buf, r.rcvd) /\ Run(r.rcvq, r.rcvd + Len(r.srv_buf)) /\ r.rcvd \in Nat
          => Run(buf, r.rcvd) /\ Run(rest, r.rcvd + Len(buf))
      <3> SUFFICES ASSUME Run(r.srv_buf, r.rcvd), Run(r.rcvq, r.rcvd + Len(r.srv_buf)),
                          r.rcvd \in Nat
                   PROVE  Run(buf, r.rcvd) /\ Run(rest, r.rcvd + Len(buf))
        OBVIOUS
      <3>1. r.rcvd + Len(r.srv_buf) \in Nat
        BY <1>4
      <3>2. /\ Run(SubSeq(r.rcvq, 1, n), r.rcvd + Len(r.srv_buf))
            /\ Run(rest, r.rcvd + Len(r.srv_buf) + n)
        BY <1>4, <2>2, <3>1, RunCut
      <3>3. SubSeq(r.rcvq, 1, n) \in Seq(Nat)
        BY <1>4, <2>2, Cut
      <3>4. Run(buf, r.rcvd)
        BY <1>4, <3>2, <3>3, RunJoined
      <3> HIDE DEF buf, rest
      <3>5. r.rcvd + Len(buf) = r.rcvd + Len(r.srv_buf) + n
        BY <1>4, <2>2, <2>3
      <3> QED
        BY <3>2, <3>4, <3>5
    <2> HIDE DEF buf, rest
    <2>6. t \in Session
      BY ZenonT(60), <1>2, <2>3, <2>4 DEF Typed, Session
    <2>7. /\ SameUp(r, t) /\ SameLink(r, t) /\ SameEnd(r, t)
          /\ t.srv_in_off = r.srv_in_off /\ t.want_out = r.want_out /\ t.events = r.events
          /\ t.tun_want_out = r.tun_want_out /\ t.srv_off = r.srv_off
      BY <1>2, <2>4 DEF Typed, Session, SameUp, SameSent, SameLink, SameEnd
    <2>8. /\ t.srv_buf = buf /\ t.rcvq = rest
          /\ t.srv_next = r.srv_next /\ t.down = r.down /\ t.rcvd = r.rcvd
          /\ t.srv_eof = r.srv_eof /\ t.srv_fin_sent = r.srv_fin_sent /\ t.eof = r.eof
      BY <1>2, <2>4 DEF Typed, Session
    <2>9. Typed(t)
      <3>1. t.srv_off + Len(t.srv_buf) <= SrvCap
        <4>1. t.srv_off \in Nat /\ t.srv_off = r.srv_off
          BY <1>2, <2>7, Fields
        <4> QED
          BY <1>4, <2>2, <2>3, <2>8, <4>1
      <3> QED
        BY <1>2, <2>6, <2>7, <3>1 DEF Typed, SameUp, SameSent, SameEnd
    <2>10. Heard(r) => Heard(t)
      BY <2>7 DEF Heard, SameLink
    <2>11. ASSUME Down(r), ~r.closed, r.state = 1  PROVE Down(t)
      <3>1. /\ Run(r.srv_buf, r.rcvd) /\ Run(r.rcvq, r.rcvd + Len(r.srv_buf)) /\ r.rcvd \in Nat
            /\ r.rcvd + Len(r.srv_buf) + Len(r.rcvq) = r.down /\ r.down <= MaxDown
            /\ r.srv_next = (SrvIsn + 1 + r.rcvd) % Mod
            /\ r.eof => r.srv_fin_sent
            /\ r.est
        BY <1>2, <2>11, Fields DEF Down
      <3>2. ~r.srv_eof /\ ~r.srv_fin_sent
        <4>1. r.rcvq # <<>>
          BY <1>4, <1>6, <2>2, EmptySeq
        <4> QED
          BY <2>11, <4>1 DEF Down
      <3>3. t.rcvd + Len(t.srv_buf) + Len(t.rcvq) = t.down
        <4>1. t.rcvd = r.rcvd /\ t.down = r.down /\ r.rcvd \in Nat
          BY <2>8, <3>1
        <4>2. Len(t.srv_buf) = Len(r.srv_buf) + n /\ Len(t.rcvq) = Len(r.rcvq) - n
          BY <2>3, <2>8
        <4>3. r.rcvd + Len(r.srv_buf) + Len(r.rcvq) = r.down
          BY <3>1
        <4> QED
          BY SMTT(30), <1>4, <2>2, <4>1, <4>2, <4>3
      <3>4. t.est /\ t.closed = r.closed /\ t.state = r.state
        BY <2>7, <3>1 DEF SameLink, SameEnd
      <3> QED
        BY <2>5, <2>8, <3>1, <3>2, <3>3, <3>4 DEF Down
    <2>12. FirstWin(r) => FirstWin(t)
      BY <2>7 DEF FirstWin, SameLink
    <2> DEFINE s == x.r
    <2>13. /\ Typed(s)
           /\ Pumped(t, s)
           /\ t.srv_eof /\ s.srv_buf = <<>> => s.srv_fin_sent
           /\ s.srv_in_off => t.srv_in_off /\ s.srv_buf # <<>>
           /\ Heard(t) => Heard(s)
           /\ Open(t) /\ s.srv_buf # <<>> => WindowFull(s) \/ s.tun_want_out
      BY <2>1, <2>9, FlushSrv
    <2> HIDE DEF s
    <2>14. /\ SameUp(r0, s) /\ SameLink(r0, s) /\ s.want_out = r0.want_out
           /\ s.closed = r0.closed /\ s.fd = r0.fd /\ t.fd = r0.fd
           /\ r.closed = r0.closed /\ r.state = r0.state
      BY <1>2, <2>7, <2>13 DEF Pumped, SameUp, SameSent, SameLink, SameEnd
    <2>15. FinNotLate(s) /\ Held(s)
      BY <2>13 DEF FinNotLate, Held, Pumped
    <2>16. Down(r0) /\ ~r0.closed /\ r0.state = 1 => Down(s)
      BY <1>3, <2>9, <2>11, <2>13, <2>14, DownPumped
    <2>17. Down(r0) /\ FirstWin(r0) /\ ~r0.closed /\ r0.state = 1 => Waits(s)
      BY <1>3, <2>9, <2>11, <2>12, <2>13, <2>14, DownOpen DEF Waits
    <2> QED
      BY <1>2, <2>1, <2>10, <2>13, <2>14, <2>15, <2>16, <2>17 DEF s, x
  <1>7. CASE used < SrvCap /\ ~(n > 0)
    <2>1. Len(r.rcvq) = 0
      BY <1>4, <1>7 DEF Lower
    <2>2. r.rcvq = <<>>
      BY <1>4, <2>1, EmptySeq
    <2>3. ~(used >= SrvCap)
      BY <1>4, <1>7
    <2>4. CASE r.peer = "open"
      <3>1. x.r = r /\ x.go = FALSE
        BY <1>1, <1>7, <2>3, <2>4
      <3> HIDE DEF x
      <3>2. r.closed = r0.closed
        BY <1>2 DEF SameEnd
      <3> QED
        BY <1>2, <1>3, <3>1, <3>2 DEF x
    <2>5. CASE r.peer = "err"
      <3>1. x.r = close_tcp_session(r, "reset") /\ x.go = FALSE
        BY <1>1, <1>7, <2>3, <2>5
      <3> HIDE DEF x
      <3>2. /\ Typed(x.r) /\ x.r.closed
            /\ SameUp(r, x.r) /\ SameDown(r, x.r) /\ SameLink(r, x.r)
            /\ x.r.srv_in_off = r.srv_in_off /\ x.r.want_out = r.want_out
            /\ Heard(r) => Heard(x.r)
        BY <1>2, <3>1, Close DEF Ends
      <3>3. /\ SameUp(r0, x.r) /\ SameLink(r0, x.r)
            /\ FinNotLate(x.r) /\ Waits(x.r)
            /\ Held(r) => Held(x.r)
            /\ Down(r) => Down(x.r)
        BY <1>2, <3>2 DEF SameUp, SameSent, SameDown, SameRead, SameLink,
                          FinNotLate, Waits, Held, Down
      <3> QED
        BY <1>2, <1>3, <3>1, <3>2, <3>3 DEF x
    <2>6. CASE r.peer = "eof"
      <3>1. x.r = flush_tcp_srv_buf(e, ok) /\ x.go = FALSE
        BY <1>1, <1>7, <2>3, <2>6
      <3> HIDE DEF x
      <3>2. /\ SameUp(r, e) /\ SameLink(r, e) /\ SameEnd(r, e)
            /\ e.srv_in_off = r.srv_in_off /\ e.want_out = r.want_out /\ e.events = r.events
            /\ e.tun_want_out = r.tun_want_out /\ e.srv_off = r.srv_off
        BY <1>2 DEF Typed, Session, SameUp, SameSent, SameLink, SameEnd
      <3>3. /\ e.srv_buf = r.srv_buf /\ e.rcvq = r.rcvq
            /\ e.srv_next = r.srv_next /\ e.down = r.down /\ e.rcvd = r.rcvd
            /\ e.srv_eof = TRUE /\ e.srv_fin_sent = r.srv_fin_sent /\ e.eof = r.eof
        BY <1>2 DEF Typed, Session
      <3>4. e \in Session
        BY <1>2 DEF Typed, Session
      <3> HIDE DEF e
      <3>5. Typed(e)
        BY <1>2, <3>2, <3>3, <3>4 DEF Typed, SameUp, SameSent, SameEnd
      <3>6. /\ Heard(r) => Heard(e)
            /\ Down(r) => Down(e)
            /\ FirstWin(r) => FirstWin(e)
        BY <2>2, <2>6, <3>2, <3>3 DEF Heard, Down, FirstWin, SameLink, SameEnd
      <3> DEFINE s == x.r
      <3>7. /\ Typed(s)
            /\ Pumped(e, s)
            /\ e.srv_eof /\ s.srv_buf = <<>> => s.srv_fin_sent
            /\ s.srv_in_off => e.srv_in_off /\ s.srv_buf # <<>>
            /\ Heard(e) => Heard(s)
            /\ Open(e) /\ s.srv_buf # <<>> => WindowFull(s) \/ s.tun_want_out
        BY <3>1, <3>5, FlushSrv
      <3> HIDE DEF s
      <3>8. /\ SameUp(r0, s) /\ SameLink(r0, s) /\ s.want_out = r0.want_out
            /\ s.closed = r0.closed /\ e.fd = r0.fd
        BY <1>2, <3>2, <3>7 DEF Pumped, SameUp, SameSent, SameLink, SameEnd
      <3>9. FinNotLate(s) /\ Held(s)
        BY <3>3, <3>7 DEF FinNotLate, Held
      <3>10. Down(r0) => Down(s)
        BY <1>3, <3>5, <3>6, <3>7, DownPumped
      <3>11. Down(r0) /\ FirstWin(r0) => Waits(s)
        BY <1>3, <3>5, <3>6, <3>7, DownOpen DEF Waits
      <3> QED
        BY <1>2, <3>1, <3>6, <3>7, <3>8, <3>9, <3>10, <3>11 DEF s, x
    <2> QED
      BY <1>4, <2>4, <2>5, <2>6
  <1> QED
    BY <1>4, <1>5, <1>6, <1>7

-----------------------------------------------------------------------------
\* The upload as it is always found.
Up(r) ==
    /\ Run(r.sndq, r.got) /\ Run(r.app_buf, r.got + Len(r.sndq))
    /\ r.app_next = (AppIsn + 1 + Accepted(r) + Bit(r.app_fin)) % Mod
    /\ Accepted(r) <= r.sent /\ r.sent <= MaxUp
    /\ r.app_fin => r.fin /\ Accepted(r) = r.sent
    /\ r.shut => r.app_fin /\ r.app_buf = <<>>
    /\ ~r.est => r.sent = 0 /\ ~r.fin

\* Data for the server asks for EPOLLOUT.
OutWanted(r) == ~r.closed /\ r.app_buf # <<>> => r.want_out

\* SHUT_WR follows the last byte at once.
HalfClosed(r) == ~r.closed /\ r.app_fin /\ r.app_buf = <<>> => r.shut

\* What flush_tcp_app_buf does to the upload: n bytes move to the socket.
Pushed(r, s) ==
    /\ SameDown(r, s) /\ SameLink(r, s) /\ s.srv_in_off = r.srv_in_off
    /\ s.app_next = r.app_next /\ s.app_fin = r.app_fin
    /\ s.got = r.got /\ s.sent = r.sent /\ s.fin = r.fin
    /\ \E n \in 0..Len(r.app_buf) :
         s.sndq = r.sndq \o SubSeq(r.app_buf, 1, n) /\ s.app_buf = Rest(r.app_buf, n)
    /\ s.shut => r.shut \/ (r.app_fin /\ s.app_buf = <<>>)
    /\ r.shut => s.shut
    /\ r.closed => s.closed

\* Nothing sent is a case of sending a part.
LEMMA PushedRefl ==
    ASSUME NEW r, Typed(r)
    PROVE  Pushed(r, r)
  <1>1. r.app_buf \in Seq(Nat) /\ 0 \in 0..Len(r.app_buf) /\ r.sndq \in Seq(Nat)
    BY Fields
  <1>2. Rest(r.app_buf, 0) = r.app_buf
    BY <1>1, Cut
  <1>3. r.sndq \o SubSeq(r.app_buf, 1, 0) = r.sndq
    <2>1. SubSeq(r.app_buf, 1, 0) = <<>>
      BY SubSeqEmpty
    <2> QED
      BY <1>1, <2>1, ConcatEmptySeq
  <1> QED
    BY <1>1, <1>2, <1>3 DEF Pushed, SameDown, SameRead, SameLink

\* What moves into the socket stays counted.
LEMMA AcceptedPushed ==
    ASSUME NEW r, NEW s, Typed(r), Typed(s), Pushed(r, s)
    PROVE  Accepted(s) = Accepted(r)
  <1>1. PICK n \in 0..Len(r.app_buf) :
          s.sndq = r.sndq \o SubSeq(r.app_buf, 1, n) /\ s.app_buf = Rest(r.app_buf, n)
    BY DEF Pushed
  <1>2. /\ r.app_buf \in Seq(Nat) /\ r.sndq \in Seq(Nat) /\ r.got \in Nat /\ n \in Nat
        /\ Len(r.app_buf) \in Nat /\ Len(r.sndq) \in Nat /\ n <= Len(r.app_buf)
    BY <1>1, Fields
  <1>3. /\ SubSeq(r.app_buf, 1, n) \in Seq(Nat) /\ Len(SubSeq(r.app_buf, 1, n)) = n
        /\ Len(Rest(r.app_buf, n)) = Len(r.app_buf) - n
    BY <1>1, <1>2, Cut
  <1>4. Len(s.sndq) = Len(r.sndq) + n
    BY ZenonT(60), <1>1, <1>2, <1>3, Joined
  <1>5. Len(s.app_buf) = Len(r.app_buf) - n /\ s.got = r.got
    BY <1>1, <1>3 DEF Pushed
  <1> QED
    BY <1>2, <1>4, <1>5 DEF Accepted

\* Sending a part of app_buf keeps the upload intact.
LEMMA UpPushed ==
    ASSUME NEW r, NEW s, Typed(r), Typed(s), Up(r), Pushed(r, s)
    PROVE  Up(s)
  <1>1. PICK n \in 0..Len(r.app_buf) :
          s.sndq = r.sndq \o SubSeq(r.app_buf, 1, n) /\ s.app_buf = Rest(r.app_buf, n)
    BY DEF Pushed
  <1>2. /\ r.app_buf \in Seq(Nat) /\ r.sndq \in Seq(Nat) /\ r.got \in Nat /\ n \in Nat
        /\ Len(r.app_buf) \in Nat /\ Len(r.sndq) \in Nat /\ n <= Len(r.app_buf)
    BY <1>1, Fields
  <1> DEFINE head == SubSeq(r.app_buf, 1, n)
             left == Rest(r.app_buf, n)
  <1>3. /\ head \in Seq(Nat) /\ Len(head) = n
        /\ left \in Seq(Nat) /\ Len(left) = Len(r.app_buf) - n
    BY <1>1, <1>2, Cut
  <1>4. Run(r.sndq, r.got) /\ Run(r.app_buf, r.got + Len(r.sndq)) /\ r.got + Len(r.sndq) \in Nat
    BY <1>2 DEF Up
  <1>5. Run(head, r.got + Len(r.sndq)) /\ Run(left, r.got + Len(r.sndq) + n)
    BY <1>1, <1>2, <1>4, RunCut
  <1>6. r.app_buf = <<>> => left = <<>>
    <2>1. r.app_buf = <<>> => n = 0
      BY <1>2, EmptySeq
    <2> QED
      BY <1>1, <1>2, <2>1, Cut
  <1> HIDE DEF head, left
  <1>7. s.sndq = r.sndq \o head /\ s.app_buf = left
    BY <1>1 DEF head, left
  <1>8. Run(s.sndq, r.got) /\ Len(s.sndq) = Len(r.sndq) + n
    <2>1. Run(r.sndq \o head, r.got)
      BY <1>2, <1>3, <1>4, <1>5, RunJoined
    <2>2. Len(r.sndq \o head) = Len(r.sndq) + Len(head)
      BY <1>2, <1>3, Joined
    <2> QED
      BY <1>3, <1>7, <2>1, <2>2
  <1>9. r.got + Len(s.sndq) = r.got + Len(r.sndq) + n
    BY <1>2, <1>8
  <1>10. Run(s.app_buf, r.got + Len(s.sndq))
    BY <1>5, <1>7, <1>9
  <1>11. Accepted(s) = Accepted(r)
    BY AcceptedPushed
  <1> QED
    BY <1>6, <1>7, <1>8, <1>10, <1>11 DEF Up, Pushed, SameLink

\* flush_tcp_app_buf: a front part of app_buf goes to the socket; what is left
\* asks for EPOLLOUT, and behind the last byte of an App that closed goes SHUT_WR.
LEMMA FlushApp ==
    ASSUME NEW r, Typed(r)
    PROVE  LET s == flush_tcp_app_buf(r)
           IN  /\ Typed(s)
               /\ Pushed(r, s)
               /\ Heard(r) => Heard(s)
               /\ r.fd => OutWanted(s) /\ HalfClosed(s)
               /\ s.want_out => r.want_out \/ r.fd
               /\ ~r.fd => s = r
  <1> DEFINE n == Lower(Len(r.app_buf), SndCap - Len(r.sndq))
             left == Rest(r.app_buf, n)
             sndq == r.sndq \o SubSeq(r.app_buf, 1, n)
             off == IF left = <<>> THEN 0 ELSE r.app_off + n
             moved == [r EXCEPT !.sndq = @ \o SubSeq(r.app_buf, 1, n), !.app_buf = left,
                                !.app_off = IF left = <<>> THEN 0 ELSE @ + n]
             m2 == [r EXCEPT !.sndq = sndq, !.app_buf = left, !.app_off = off]
             next == IF left = <<>> THEN Drained(moved) ELSE WaitWritable(moved)
             dead == [r EXCEPT !.closed = TRUE, !.end = "fatal"]
             s == flush_tcp_app_buf(r)
  <1>1. s = IF ~r.fd THEN r
            ELSE IF r.peer = "err" /\ r.app_buf # <<>> THEN dead
            ELSE IF n > 0 /\ r.state = 1 THEN send_tcp_ack(next) ELSE next
    BY DEF flush_tcp_app_buf
  <1>2. CASE ~r.fd
    BY <1>1, <1>2, PushedRefl
  <1>3. CASE r.fd /\ r.peer = "err" /\ r.app_buf # <<>>
    <2>1. s = dead
      BY <1>1, <1>3
    <2>2. dead \in Session
      BY DEF Typed, Session, Ends
    <2>3. /\ SameUp(r, dead) /\ SameDown(r, dead) /\ SameLink(r, dead)
          /\ dead.srv_in_off = r.srv_in_off /\ dead.want_out = r.want_out
          /\ dead.events = r.events /\ dead.closed = TRUE /\ dead.end = "fatal"
      BY DEF Typed, Session, SameUp, SameSent, SameDown, SameRead, SameLink
    <2> HIDE DEF dead, s
    <2>4. Typed(dead)
      BY <2>2, <2>3 DEF Typed, SameUp, SameSent, SameDown, SameRead
    <2>5. Pushed(r, dead)
      BY <2>3, PushedRefl DEF Pushed, SameUp, SameSent
    <2> QED
      BY <1>3, <2>1, <2>3, <2>4, <2>5 DEF s, Heard, SameLink, OutWanted, HalfClosed
  <1>4. CASE r.fd /\ ~(r.peer = "err" /\ r.app_buf # <<>>)
    <2>1. s = IF n > 0 /\ r.state = 1 THEN send_tcp_ack(next) ELSE next
      BY <1>1, <1>4
    <2>2. /\ r.app_buf \in Seq(Nat) /\ r.sndq \in Seq(Nat) /\ r.app_off \in Nat
          /\ Len(r.app_buf) \in Nat /\ Len(r.sndq) \in Nat /\ r.promise \in Nat
          /\ SndCap \in Nat /\ AppCap \in Nat /\ Len(r.sndq) <= SndCap
          /\ r.app_off + Len(r.app_buf) <= AppCap /\ r.promise <= AppCap - Len(r.app_buf)
      BY Fields, Sizes DEF Typed
    <2>3. n \in 0..Len(r.app_buf) /\ n \in Nat /\ n <= SndCap - Len(r.sndq)
      <3>1. SndCap - Len(r.sndq) \in Nat
        BY <2>2
      <3> QED
        <4> DEFINE a == Len(r.app_buf)
                   b == SndCap - Len(r.sndq)
        <4>1. a \in Nat /\ b \in Nat /\ n = Lower(a, b)
          BY <2>2, <3>1
        <4> HIDE DEF n, a, b
        <4>2. n \in Nat /\ n <= a /\ n <= b
          BY <4>1, LowerOf
        <4> QED
          BY <4>1, <4>2 DEF a, b
    <2>4. moved = m2
      BY DEF Typed, Session
    <2> HIDE DEF n, s
    <2>5. /\ left \in Seq(Nat) /\ Len(left) = Len(r.app_buf) - n
          /\ left = <<>> <=> n = Len(r.app_buf)
          /\ SubSeq(r.app_buf, 1, n) \in Seq(Nat) /\ Len(SubSeq(r.app_buf, 1, n)) = n
      BY <2>2, <2>3, Cut
    <2>6. sndq \in Seq(Nat) /\ Len(sndq) = Len(r.sndq) + n
      BY <2>2, <2>5, Joined
    <2>7. Pushed(r, r)
      BY PushedRefl
    <2> HIDE DEF moved
    <2> USE DEF m2
    <2>8. \E k \in 0..Len(r.app_buf) :
            sndq = r.sndq \o SubSeq(r.app_buf, 1, k) /\ left = Rest(r.app_buf, k)
      BY <2>3
    <2> HIDE DEF left, sndq
    <2>9. off \in Nat /\ off + Len(left) <= AppCap
      <3>1. CASE left = <<>>
        BY <2>2, <2>3, <2>5, <3>1
      <3>2. CASE left # <<>>
        <4>1. off = r.app_off + n /\ Len(left) = Len(r.app_buf) - n
          BY <2>5, <3>2
        <4> HIDE DEF off
        <4> QED
          BY SMTT(30), <2>2, <2>3, <4>1
      <3> QED
        BY <3>1, <3>2
    <2> HIDE DEF off
    <2>10. m2 \in Session
      BY <2>5, <2>6, <2>9 DEF Typed, Session
    <2>11. /\ m2.app_buf = left /\ m2.sndq = sndq /\ m2.app_off = off /\ m2.promise = r.promise
           /\ SameDown(r, m2) /\ SameLink(r, m2) /\ SameEnd(r, m2)
           /\ m2.srv_in_off = r.srv_in_off /\ m2.want_out = r.want_out /\ m2.events = r.events
           /\ m2.app_next = r.app_next /\ m2.app_fin = r.app_fin /\ m2.shut = r.shut
           /\ m2.got = r.got /\ m2.sent = r.sent /\ m2.fin = r.fin
      BY DEF Typed, Session, SameDown, SameRead, SameLink, SameEnd
    <2> HIDE DEF m2
    <2>12. Typed(m2)
      <3>1. Len(m2.sndq) <= SndCap /\ m2.promise <= AppCap - Len(m2.app_buf)
        <4>1. Len(m2.sndq) = Len(r.sndq) + n /\ Len(m2.app_buf) = Len(r.app_buf) - n
          BY <2>5, <2>6, <2>11
        <4>2. m2.promise = r.promise
          BY <2>11
        <4> QED
          <5>1. Len(r.sndq) \in Nat /\ Len(r.app_buf) \in Nat /\ r.promise \in Nat
            BY <2>2
          <5>2. Len(r.sndq) + n <= SndCap
            BY <2>2, <2>3, <5>1
          <5>3. r.promise <= AppCap - (Len(r.app_buf) - n)
            <6>1. \A cap, len, k, p \in Nat : p <= cap - len => p <= cap - (len - k)
              OBVIOUS
            <6>2. AppCap \in Nat /\ n \in Nat /\ r.promise <= AppCap - Len(r.app_buf)
              BY <2>2, <2>3
            <6> QED
              BY <5>1, <6>1, <6>2
          <5> QED
            BY <4>1, <4>2, <5>2, <5>3
      <3> QED
        BY <2>9, <2>10, <2>11, <3>1 DEF Typed, SameDown, SameRead, SameEnd
    <2>13. Pushed(r, m2)
      BY <2>8, <2>11 DEF Pushed, SameEnd
    <2>14. Heard(r) => Heard(m2)
      BY <2>11 DEF Heard, SameLink
    <2>15. next = IF left = <<>> THEN Drained(m2) ELSE WaitWritable(m2)
      BY <2>4
    <2> HIDE DEF next
    <2>16. /\ Typed(next) /\ Pushed(r, next)
           /\ Heard(r) => Heard(next)
           /\ OutWanted(next) /\ HalfClosed(next)
      <3>1. CASE left = <<>>
        <4> DEFINE sh == m2.shut \/ m2.app_fin
                   d == [m2 EXCEPT !.shut = sh]
        <4>1. next = set_srv_out(d, FALSE)
          BY <2>12, <2>15, <3>1 DEF Drained, Typed, Session
        <4>2. sh \in BOOLEAN
          OBVIOUS
        <4>3. sh <=> (m2.shut \/ m2.app_fin)
          OBVIOUS
        <4> HIDE DEF sh
        <4>4. d \in Session
          BY <2>12, <4>2 DEF Typed, Session
        <4>5. /\ d.app_buf = m2.app_buf /\ d.sndq = m2.sndq /\ d.app_off = m2.app_off
              /\ d.promise = m2.promise
              /\ SameDown(m2, d) /\ SameLink(m2, d) /\ SameEnd(m2, d)
              /\ d.srv_in_off = m2.srv_in_off /\ d.want_out = m2.want_out
              /\ d.events = m2.events
              /\ d.app_next = m2.app_next /\ d.app_fin = m2.app_fin /\ d.shut = sh
              /\ d.got = m2.got /\ d.sent = m2.sent /\ d.fin = m2.fin
          BY <2>12 DEF Typed, Session, SameDown, SameRead, SameLink, SameEnd
        <4> HIDE DEF d
        <4>6. Typed(d)
          BY <2>12, <4>4, <4>5 DEF Typed, SameDown, SameRead, SameEnd
        <4>7. Heard(m2) => Heard(d)
          BY <4>5 DEF Heard, SameLink
        <4>8. Pushed(r, d)
          BY ZenonT(60), <2>11, <2>13, <3>1, <4>3, <4>5 DEF Pushed, SameDown, SameRead, SameLink, SameEnd
        <4>9. /\ Typed(next)
              /\ SameUp(d, next) /\ SameDown(d, next) /\ SameLink(d, next) /\ SameEnd(d, next)
              /\ next.srv_in_off = d.srv_in_off /\ next.want_out = FALSE
              /\ Heard(d) => Heard(next)
          BY <4>1, <4>6, SetOut
        <4>10. Pushed(r, next)
          BY ZenonT(60), <4>8, <4>9 DEF Pushed, SameUp, SameSent, SameDown, SameRead, SameLink, SameEnd
        <4>11. OutWanted(next) /\ HalfClosed(next)
          BY <2>11, <3>1, <4>3, <4>5, <4>9 DEF OutWanted, HalfClosed, SameUp, SameSent
        <4> QED
          BY <2>14, <4>7, <4>9, <4>10, <4>11
      <3>2. CASE left # <<>>
        <4>1. next = set_srv_out(m2, TRUE)
          BY <2>15, <3>2 DEF WaitWritable
        <4>2. /\ Typed(next)
              /\ SameUp(m2, next) /\ SameDown(m2, next) /\ SameLink(m2, next)
              /\ SameEnd(m2, next)
              /\ next.srv_in_off = m2.srv_in_off /\ next.want_out = TRUE
              /\ Heard(m2) => Heard(next)
          BY <2>12, <4>1, SetOut
        <4>3. Pushed(r, next)
          BY <2>13, <4>2 DEF Pushed, SameUp, SameSent, SameDown, SameRead, SameLink, SameEnd
        <4>4. OutWanted(next) /\ HalfClosed(next)
          BY <2>11, <3>2, <4>2 DEF OutWanted, HalfClosed, SameUp, SameSent
        <4> QED
          BY <2>14, <4>2, <4>3, <4>4
      <3> QED
        BY <3>1, <3>2
    <2>17. CASE s = next
      BY <1>4, <2>16, <2>17 DEF s
    <2>18. CASE s = send_tcp_ack(next)
      <3>1. /\ Typed(s)
            /\ SameSent(next, s) /\ SameDown(next, s) /\ SameLink(next, s) /\ SameEnd(next, s)
            /\ s.srv_in_off = next.srv_in_off /\ s.want_out = next.want_out
            /\ Heard(next) => Heard(s)
        BY <2>16, <2>18, SendAck
      <3>2. Pushed(r, s)
        BY <2>16, <3>1 DEF Pushed, SameSent, SameDown, SameRead, SameLink, SameEnd
      <3>3. OutWanted(s) /\ HalfClosed(s)
        BY <2>16, <3>1 DEF OutWanted, HalfClosed, SameSent, SameEnd
      <3> QED
        BY <1>4, <2>16, <3>1, <3>2, <3>3 DEF s
    <2> QED
      BY <2>1, <2>17, <2>18
  <1> QED
    BY <1>2, <1>3, <1>4

\* app_buf_reserve: bytes for which there is room at all find it at the end.
LEMMA Reserved ==
    ASSUME NEW r, Typed(r), NEW k \in Nat
    PROVE  LET s == app_buf_reserve(r, k)
           IN  /\ Typed(s)
               /\ SameSent(r, s) /\ SameDown(r, s) /\ SameLink(r, s) /\ SameEnd(r, s)
               /\ s.srv_in_off = r.srv_in_off /\ s.want_out = r.want_out
               /\ s.promise = r.promise
               /\ Heard(r) => Heard(s)
               /\ Len(r.app_buf) + k <= AppCap => Fits(s, k)
  <1> DEFINE t == [r EXCEPT !.app_off = 0]
  <1>1. t \in Session
    BY DEF Typed, Session
  <1>2. /\ SameSent(r, t) /\ SameDown(r, t) /\ SameLink(r, t) /\ SameEnd(r, t)
        /\ t.srv_in_off = r.srv_in_off /\ t.want_out = r.want_out /\ t.events = r.events
        /\ t.promise = r.promise /\ t.app_off = 0
    BY DEF Typed, Session, SameSent, SameDown, SameRead, SameLink, SameEnd
  <1> HIDE DEF t
  <1>3. app_buf_reserve(r, k) = IF r.app_off >= AppCap \div 2 \/ ~Fits(r, k) THEN t ELSE r
    BY DEF app_buf_reserve, t
  <1>4. /\ r.app_off \in Nat /\ Len(r.app_buf) \in Nat /\ AppCap \in Nat
        /\ r.app_off + Len(r.app_buf) <= AppCap
        /\ t.app_buf = r.app_buf
    BY <1>2, Fields, Sizes DEF Typed, SameSent
  <1>5. t.app_off + Len(t.app_buf) <= AppCap
    BY <1>2, <1>4
  <1>6. Typed(t)
    BY <1>1, <1>2, <1>5 DEF Typed, SameSent, SameDown, SameRead, SameEnd
  <1>7. Heard(r) => Heard(t)
    BY <1>2 DEF Heard, SameLink
  <1>8. Len(r.app_buf) + k <= AppCap => Fits(t, k)
    BY <1>2, <1>4 DEF Fits
  <1>9. CASE r.app_off >= AppCap \div 2 \/ ~Fits(r, k)
    BY <1>2, <1>3, <1>6, <1>7, <1>8, <1>9
  <1>10. CASE ~(r.app_off >= AppCap \div 2 \/ ~Fits(r, k))
    BY <1>3, <1>10 DEF SameSent, SameDown, SameRead, SameLink, SameEnd
  <1> QED
    BY <1>9, <1>10

\* What app_buf_accept leaves alone.
Taken(r, s) ==
    /\ SameDown(r, s) /\ SameLink(r, s) /\ s.srv_in_off = r.srv_in_off
    /\ s.app_fin = r.app_fin /\ s.got = r.got /\ s.sent = r.sent /\ s.fin = r.fin
    /\ r.closed => s.closed

\* The App sent n bytes, data, and they are the next ones it has sent.
NextSent(r, data) ==
    ~r.app_fin /\ Run(data, Accepted(r)) /\ Accepted(r) + Len(data) <= r.sent

\* Bytes behind the accepted ones keep the upload intact.
LEMMA UpAppended ==
    ASSUME NEW r, Typed(r), NEW s, Typed(s), NEW data \in Seq(Nat),
           Up(r), NextSent(r, data), ~r.app_fin,
           s.sndq = r.sndq, s.got = r.got, s.sent = r.sent, s.fin = r.fin, s.est = r.est,
           s.app_fin = r.app_fin, s.shut = r.shut,
           s.app_buf = r.app_buf \o data,
           s.app_next = (r.app_next + Len(data)) % Mod
    PROVE  Up(s)
  <1>1. /\ r.app_buf \in Seq(Nat) /\ r.sndq \in Seq(Nat) /\ r.got \in Nat /\ Len(data) \in Nat
        /\ Len(r.app_buf) \in Nat /\ Len(r.sndq) \in Nat /\ r.sent \in Nat
        /\ Mod \in Nat \ {0} /\ AppIsn \in 0..(Mod - 1) /\ MaxUp \in Nat
        /\ Mod > 2 * (MaxUp + 2)
    BY Fields, Sizes
  <1>2. Len(s.app_buf) = Len(r.app_buf) + Len(data)
    BY <1>1, Joined
  <1>3. Accepted(r) \in Nat /\ Accepted(s) = Accepted(r) + Len(data)
    BY <1>1, <1>2 DEF Accepted
  <1>4. Accepted(r) = r.got + Len(r.sndq) + Len(r.app_buf)
    BY DEF Accepted
  <1>5. Run(s.app_buf, s.got + Len(s.sndq))
    <2>1. Run(r.app_buf, r.got + Len(r.sndq)) /\ r.got + Len(r.sndq) \in Nat
      BY <1>1 DEF Up
    <2>2. Run(data, r.got + Len(r.sndq) + Len(r.app_buf))
      BY <1>4 DEF NextSent
    <2> QED
      BY <1>1, <2>1, <2>2, RunJoined
  <1>6. s.app_next = (AppIsn + 1 + Accepted(s) + Bit(s.app_fin)) % Mod
    <2>1. r.app_next = (AppIsn + 1 + Accepted(r) + 0) % Mod
      BY DEF Up, Bit
    <2>2. AppIsn + 1 + Accepted(r) + 0 \in Nat
      BY <1>1, <1>3
    <2>3. AppIsn + 1 + Accepted(r) + 0 + Len(data) < 2 * Mod
      <3>1. Accepted(r) + Len(data) <= r.sent /\ r.sent <= MaxUp
        BY DEF NextSent, Up
      <3> QED
        BY <1>1, <1>3, <3>1
    <2>4. s.app_next = (AppIsn + 1 + Accepted(r) + 0 + Len(data)) % Mod
      BY <1>1, <2>1, <2>2, <2>3, ModPlus
    <2>5. AppIsn + 1 + Accepted(r) + 0 + Len(data) = AppIsn + 1 + Accepted(s) + 0
      BY <1>1, <1>3
    <2>6. Bit(s.app_fin) = 0
      BY DEF Bit
    <2> QED
      BY <2>4, <2>5, <2>6
  <1>7. Accepted(s) <= s.sent /\ s.sent <= MaxUp
    BY <1>3 DEF NextSent, Up
  <1> QED
    BY <1>5, <1>6, <1>7 DEF Up

\* app_buf_accept takes a segment whole or not at all.
LEMMA AcceptedData ==
    ASSUME NEW r0, Typed(r0), NEW data \in Seq(Nat)
    PROVE  LET s == app_buf_accept(r0, data)
           IN  /\ Typed(s) /\ Taken(r0, s)
               /\ Heard(r0) => Heard(s)
               /\ s.want_out => r0.want_out \/ r0.fd \/ r0.state = 1
               /\ r0.state = 1 /\ OutWanted(r0) => OutWanted(s)
               /\ Up(r0) /\ NextSent(r0, data) => Up(s)
  <1> DEFINE n == Len(data)
             r1 == app_buf_reserve(r0, n)
             r2 == IF Fits(r1, n) THEN r1 ELSE flush_tcp_app_buf(r1)
             r3 == app_buf_reserve(r2, n)
             in0 == [r3 EXCEPT !.app_buf = @ \o data, !.app_next = (@ + n) % Mod,
                               !.promise = IF @ > n THEN @ - n ELSE 0]
             in == send_tcp_ack(in0)
             s == app_buf_accept(r0, data)
  <1>1. s = IF r2.closed THEN r2
            ELSE IF ~Fits(r3, n) THEN send_tcp_ack(r3)
            ELSE IF r3.state = 1 THEN set_srv_out(in, TRUE) ELSE in
    BY DEF app_buf_accept
  <1>2. n \in Nat
    OBVIOUS
  <1> HIDE DEF n, s
  <1>3. /\ Typed(r1)
        /\ SameSent(r0, r1) /\ SameDown(r0, r1) /\ SameLink(r0, r1) /\ SameEnd(r0, r1)
        /\ r1.srv_in_off = r0.srv_in_off /\ r1.want_out = r0.want_out
        /\ Heard(r0) => Heard(r1)
    BY <1>2, Reserved
  <1> HIDE DEF r1
  <1>4. /\ Typed(r2) /\ Pushed(r1, r2)
        /\ Heard(r1) => Heard(r2)
        /\ r2.want_out => r1.want_out \/ r1.fd
        /\ OutWanted(r1) => OutWanted(r2)
    <2>1. CASE Fits(r1, n)
      BY <1>3, <2>1, PushedRefl
    <2>2. CASE ~Fits(r1, n)
      <3>1. r2 = flush_tcp_app_buf(r1)
        BY <2>2
      <3> HIDE DEF r2
      <3>2. /\ Typed(r2) /\ Pushed(r1, r2)
            /\ Heard(r1) => Heard(r2)
            /\ r1.fd => OutWanted(r2)
            /\ r2.want_out => r1.want_out \/ r1.fd
            /\ ~r1.fd => r2 = r1
        BY <1>3, <3>1, FlushApp
      <3> QED
        BY <3>2
    <2> QED
      BY <2>1, <2>2
  <1> HIDE DEF r2
  <1>5. /\ Typed(r3)
        /\ SameSent(r2, r3) /\ SameDown(r2, r3) /\ SameLink(r2, r3) /\ SameEnd(r2, r3)
        /\ r3.srv_in_off = r2.srv_in_off /\ r3.want_out = r2.want_out
        /\ r3.promise = r2.promise
        /\ Heard(r2) => Heard(r3)
    BY <1>2, <1>4, Reserved
  <1> HIDE DEF r3
  <1>6. Taken(r0, r2) /\ Taken(r0, r3)
    BY <1>3, <1>4, <1>5 DEF Taken, Pushed, SameSent, SameDown, SameRead, SameLink, SameEnd
  <1>7. /\ Up(r0) => Up(r1)
        /\ Up(r1) => Up(r2)
        /\ Up(r2) => Up(r3)
    <2>1. Up(r0) => Up(r1)
      BY <1>3 DEF Up, Accepted, SameSent, SameLink
    <2>2. Up(r1) => Up(r2)
      BY <1>3, <1>4, UpPushed
    <2>3. Up(r2) => Up(r3)
      BY <1>5 DEF Up, Accepted, SameSent, SameLink
    <2> QED
      BY <2>1, <2>2, <2>3
  <1>8. OutWanted(r0) => OutWanted(r1)
    BY <1>3 DEF OutWanted, SameSent, SameEnd
  <1>9. /\ r3.want_out => r0.want_out \/ r0.fd
        /\ r3.state = r0.state
        /\ OutWanted(r2) => OutWanted(r3)
    BY <1>3, <1>4, <1>5, <1>6 DEF OutWanted, SameSent, SameLink, SameEnd, Taken
  <1>10. CASE r2.closed
    BY <1>1, <1>3, <1>4, <1>5, <1>6, <1>7, <1>8, <1>9, <1>10 DEF s
  <1>11. CASE ~r2.closed /\ ~Fits(r3, n)
    <2>1. s = send_tcp_ack(r3)
      BY <1>1, <1>11
    <2>2. /\ Typed(s)
          /\ SameSent(r3, s) /\ SameDown(r3, s) /\ SameLink(r3, s) /\ SameEnd(r3, s)
          /\ s.srv_in_off = r3.srv_in_off /\ s.want_out = r3.want_out
          /\ Heard(r3) => Heard(s)
      BY <1>5, <2>1, SendAck
    <2>3. Taken(r0, s)
      BY <1>6, <2>2 DEF Taken, SameSent, SameDown, SameRead, SameLink, SameEnd
    <2>4. Up(r3) => Up(s)
      BY <2>2 DEF Up, Accepted, SameSent, SameLink
    <2>5. OutWanted(r3) => OutWanted(s)
      BY <2>2 DEF OutWanted, SameSent, SameEnd
    <2> QED
      BY <1>3, <1>4, <1>5, <1>7, <1>8, <1>9, <2>2, <2>3, <2>4, <2>5 DEF s
  <1>12. CASE ~r2.closed /\ Fits(r3, n)
    <2> DEFINE p == IF r3.promise > n THEN r3.promise - n ELSE 0
               buf == r3.app_buf \o data
               next == (r3.app_next + n) % Mod
               t == [r3 EXCEPT !.app_buf = buf, !.app_next = next, !.promise = p]
    <2>1. in0 = t
      BY <1>5 DEF Typed, Session
    <2>2. /\ r3.app_buf \in Seq(Nat) /\ Len(r3.app_buf) \in Nat /\ r3.app_off \in Nat
          /\ r3.promise \in Nat /\ AppCap \in Nat /\ r3.app_next \in Nat
          /\ r3.promise <= AppCap - Len(r3.app_buf)
          /\ r3.app_off + Len(r3.app_buf) + n <= AppCap
      BY <1>5, <1>12, Fields, Sizes DEF Typed, Fits
    <2>3. buf \in Seq(Nat) /\ Len(buf) = Len(r3.app_buf) + n
      BY <2>2, Joined DEF n
    <2>4. next \in 0..(Mod - 1)
      <3>1. r3.app_next + n \in Int
        BY <1>2, <2>2
      <3> QED
        BY <3>1, ModRange
    <2>5. p \in Nat /\ p <= AppCap - (Len(r3.app_buf) + n)
      BY <1>2, <2>2
    <2> HIDE DEF p, buf, next
    <2>6. t \in Session
      BY ZenonT(60), <1>5, <2>3, <2>4, <2>5 DEF Typed, Session
    <2>7. /\ t.app_buf = buf /\ t.app_next = next /\ t.promise = p /\ t.app_off = r3.app_off
          /\ SameDown(r3, t) /\ SameLink(r3, t) /\ SameEnd(r3, t)
          /\ t.srv_in_off = r3.srv_in_off /\ t.want_out = r3.want_out /\ t.events = r3.events
          /\ t.app_fin = r3.app_fin /\ t.shut = r3.shut /\ t.sndq = r3.sndq
          /\ t.got = r3.got /\ t.sent = r3.sent /\ t.fin = r3.fin
      BY <1>5 DEF Typed, Session, SameDown, SameRead, SameLink, SameEnd
    <2> HIDE DEF t, in0
    <2>8. Typed(t)
      <3>1. /\ t.app_off + Len(t.app_buf) <= AppCap
            /\ t.promise <= AppCap - Len(t.app_buf)
        <4>1. t.app_off + Len(t.app_buf) = r3.app_off + Len(r3.app_buf) + n
          <5>1. t.app_off = r3.app_off /\ Len(t.app_buf) = Len(r3.app_buf) + n
            BY <2>3, <2>7
          <5>2. r3.app_off \in Nat /\ Len(r3.app_buf) \in Nat
            BY <2>2
          <5> QED
            BY <1>2, <5>1, <5>2
        <4>2. Len(t.app_buf) = Len(r3.app_buf) + n
          BY <2>3, <2>7
        <4> QED
          BY <2>2, <2>5, <2>7, <4>1, <4>2
      <3> QED
        BY <1>5, <2>6, <2>7, <3>1 DEF Typed, SameDown, SameRead, SameEnd
    <2>9. /\ Taken(r0, t)
          /\ Heard(r3) => Heard(t)
      BY <1>6, <2>7 DEF Taken, Heard, SameDown, SameRead, SameLink, SameEnd
    <2>10. Up(r0) /\ NextSent(r0, data) => Up(t)
      <3> SUFFICES ASSUME Up(r0), NextSent(r0, data)  PROVE Up(t)
        OBVIOUS
      <3>1. Up(r2) /\ Up(r3)
        BY <1>7
      <3>2. Accepted(r2) = Accepted(r1) /\ Accepted(r1) = Accepted(r0)
            /\ Accepted(r3) = Accepted(r2)
        <4>1. Accepted(r1) = Accepted(r0) /\ Accepted(r3) = Accepted(r2)
          BY <1>3, <1>5 DEF Accepted, SameSent
        <4>2. Accepted(r2) = Accepted(r1)
          BY <1>3, <1>4, AcceptedPushed
        <4> QED
          BY <4>1, <4>2
      <3>3. NextSent(r3, data) /\ ~r3.app_fin
        BY <1>6, <3>2 DEF NextSent, Taken
      <3> QED
        BY <1>5, <2>7, <2>8, <3>1, <3>3, UpAppended DEF n, buf, next, SameLink
    <2>11. in = send_tcp_ack(t)
      BY <2>1
    <2> HIDE DEF in
    <2>12. /\ Typed(in)
           /\ SameSent(t, in) /\ SameDown(t, in) /\ SameLink(t, in) /\ SameEnd(t, in)
           /\ in.srv_in_off = t.srv_in_off /\ in.want_out = t.want_out
           /\ Heard(t) => Heard(in)
      BY <2>8, <2>11, SendAck
    <2>13. /\ Taken(r0, in)
           /\ Up(t) => Up(in)
      BY <2>9, <2>12 DEF Taken, Up, Accepted, SameSent, SameDown, SameRead, SameLink, SameEnd
    <2>14. CASE r3.state # 1
      <3>1. s = in
        BY <1>1, <1>12, <2>14
      <3> QED
        BY <1>3, <1>4, <1>5, <1>9, <2>7, <2>9, <2>10, <2>12, <2>13, <2>14, <3>1 DEF s
    <2>15. CASE r3.state = 1
      <3>1. s = set_srv_out(in, TRUE)
        BY <1>1, <1>12, <2>15
      <3>2. /\ Typed(s)
            /\ SameUp(in, s) /\ SameDown(in, s) /\ SameLink(in, s) /\ SameEnd(in, s)
            /\ s.srv_in_off = in.srv_in_off /\ s.want_out = TRUE
            /\ Heard(in) => Heard(s)
        BY <2>12, <3>1, SetOut
      <3>3. /\ Taken(r0, s)
            /\ Up(in) => Up(s)
        BY <2>13, <3>2 DEF Taken, Up, Accepted, SameUp, SameSent, SameDown, SameRead,
                           SameLink, SameEnd
      <3>4. OutWanted(s)
        BY <3>2 DEF OutWanted
      <3> QED
        BY <1>3, <1>4, <1>5, <1>9, <2>9, <2>10, <2>12, <2>13, <2>15, <3>2, <3>3, <3>4 DEF s
    <2> QED
      BY <2>14, <2>15
  <1> QED
    BY <1>10, <1>11, <1>12

\* The FIN branch of tcp_handle_packet.
LEMMA FinTaken ==
    ASSUME NEW r, Typed(r)
    PROVE  LET s == FinFromApp(r)
           IN  /\ Typed(s)
               /\ SameDown(r, s) /\ SameLink(r, s)
               /\ s.srv_in_off = r.srv_in_off /\ s.want_out = r.want_out
               /\ s.app_buf = r.app_buf /\ s.app_fin
               /\ r.closed => s.closed
               /\ Heard(r) => Heard(s)
               /\ r.fd => HalfClosed(s)
               /\ Up(r) /\ ~r.app_fin /\ r.fin /\ Accepted(r) = r.sent => Up(s)
  <1> DEFINE next == (r.app_next + 1) % Mod
             f0 == [r EXCEPT !.app_next = next, !.app_fin = TRUE]
             f == send_tcp_ack(f0)
             h == [f EXCEPT !.shut = TRUE]
             g == IF f.app_buf = <<>> /\ f.fd THEN h ELSE f
             s == FinFromApp(r)
  <1>1. s = IF g.srv_eof /\ g.srv_buf = <<>> THEN close_tcp_session(g, "quiet") ELSE g
    <2>1. f0 = [r EXCEPT !.app_next = (@ + 1) % Mod, !.app_fin = TRUE]
      BY DEF Typed, Session
    <2> HIDE DEF f0
    <2> QED
      BY <2>1 DEF FinFromApp
  <1>2. next \in 0..(Mod - 1)
    <2>1. r.app_next + 1 \in Int
      BY Fields
    <2> QED
      BY <2>1, ModRange
  <1> HIDE DEF next
  <1>3. f0 \in Session
    BY <1>2 DEF Typed, Session
  <1>4. /\ f0.app_next = next /\ f0.app_fin = TRUE
        /\ f0.app_buf = r.app_buf /\ f0.app_off = r.app_off /\ f0.promise = r.promise
        /\ f0.sndq = r.sndq /\ f0.got = r.got /\ f0.shut = r.shut
        /\ f0.sent = r.sent /\ f0.fin = r.fin
        /\ SameDown(r, f0) /\ SameLink(r, f0) /\ SameEnd(r, f0)
        /\ f0.srv_in_off = r.srv_in_off /\ f0.want_out = r.want_out /\ f0.events = r.events
    BY DEF Typed, Session, SameDown, SameRead, SameLink, SameEnd
  <1> HIDE DEF f0, s
  <1>5. Typed(f0)
    BY <1>3, <1>4 DEF Typed, SameDown, SameRead, SameEnd
  <1>6. Heard(r) => Heard(f0)
    BY <1>4 DEF Heard, SameLink
  <1>7. Up(r) /\ ~r.app_fin /\ r.fin /\ Accepted(r) = r.sent => Up(f0)
    <2> SUFFICES ASSUME Up(r), ~r.app_fin, r.fin, Accepted(r) = r.sent
                 PROVE  Up(f0)
      OBVIOUS
    <2>1. Accepted(f0) = Accepted(r) /\ Accepted(r) \in Nat
      BY <1>4, Fields DEF Accepted
    <2>2. f0.app_next = (AppIsn + 1 + Accepted(f0) + Bit(f0.app_fin)) % Mod
      <3>1. r.app_next = (AppIsn + 1 + Accepted(r) + 0) % Mod
        BY DEF Up, Bit
      <3>2. /\ AppIsn + 1 + Accepted(r) + 0 \in Nat
            /\ AppIsn + 1 + Accepted(r) + 0 + 1 < 2 * Mod
        <4>1. r.sent <= MaxUp
          BY DEF Up
        <4> QED
          BY <2>1, <4>1, Fields, Sizes
      <3>3. next = (AppIsn + 1 + Accepted(r) + 0 + 1) % Mod
        BY <3>1, <3>2, ModPlus DEF next
      <3>4. AppIsn + 1 + Accepted(r) + 0 + 1 = AppIsn + 1 + Accepted(r) + 1
        BY <2>1, Sizes
      <3> QED
        BY <1>4, <2>1, <3>3, <3>4 DEF Bit
    <2> QED
      BY <1>4, <2>1, <2>2 DEF Up, SameLink
  <1>8. /\ Typed(f)
        /\ SameSent(f0, f) /\ SameDown(f0, f) /\ SameLink(f0, f) /\ SameEnd(f0, f)
        /\ f.srv_in_off = f0.srv_in_off /\ f.want_out = f0.want_out
        /\ Heard(f0) => Heard(f)
    BY <1>5, SendAck
  <1> HIDE DEF f
  <1>9. /\ SameDown(r, f) /\ SameLink(r, f) /\ SameEnd(r, f)
        /\ f.srv_in_off = r.srv_in_off /\ f.want_out = r.want_out
        /\ f.app_buf = r.app_buf /\ f.app_fin = TRUE
        /\ Up(f0) => Up(f)
    BY <1>4, <1>8 DEF Up, Accepted, SameSent, SameDown, SameRead, SameLink, SameEnd
  <1>10. /\ Typed(g)
         /\ SameDown(r, g) /\ SameLink(r, g) /\ SameEnd(r, g)
         /\ g.srv_in_off = r.srv_in_off /\ g.want_out = r.want_out
         /\ g.app_buf = r.app_buf /\ g.app_fin = TRUE
         /\ Up(f) => Up(g)
         /\ Heard(f) => Heard(g)
         /\ r.fd => HalfClosed(g)
    <2>1. CASE f.app_buf = <<>> /\ f.fd
      <3>1. g = h
        BY <2>1
      <3>2. h \in Session
        BY <1>8 DEF Typed, Session
      <3>3. /\ SameDown(f, h) /\ SameLink(f, h) /\ SameEnd(f, h)
            /\ h.srv_in_off = f.srv_in_off /\ h.want_out = f.want_out /\ h.events = f.events
            /\ h.app_buf = f.app_buf /\ h.app_fin = f.app_fin /\ h.shut = TRUE
            /\ h.app_off = f.app_off /\ h.promise = f.promise /\ h.app_next = f.app_next
            /\ h.sndq = f.sndq /\ h.got = f.got /\ h.sent = f.sent /\ h.fin = f.fin
        BY <1>8 DEF Typed, Session, SameDown, SameRead, SameLink, SameEnd
      <3> HIDE DEF g, h
      <3>4. Typed(h)
        BY <1>8, <3>2, <3>3 DEF Typed, SameDown, SameRead, SameEnd
      <3>5. Up(f) => Up(h)
        BY <1>9, <2>1, <3>3 DEF Up, Accepted, SameLink
      <3>6. Heard(f) => Heard(h)
        BY <3>3 DEF Heard, SameLink
      <3>7. SameDown(r, h) /\ SameLink(r, h) /\ SameEnd(r, h)
        BY <1>9, <3>3 DEF SameDown, SameRead, SameLink, SameEnd
      <3> QED
        BY <1>9, <3>1, <3>3, <3>4, <3>5, <3>6, <3>7 DEF HalfClosed
    <2>2. CASE ~(f.app_buf = <<>> /\ f.fd)
      <3>1. g = f
        BY <2>2
      <3> HIDE DEF g
      <3>2. r.fd => HalfClosed(f)
        BY <1>9, <2>2 DEF HalfClosed, SameLink
      <3> QED
        BY <1>8, <1>9, <3>1, <3>2
    <2> QED
      BY <2>1, <2>2
  <1> HIDE DEF g
  <1>11. CASE g.srv_eof /\ g.srv_buf = <<>>
    <2>1. s = close_tcp_session(g, "quiet")
      BY <1>1, <1>11
    <2>2. /\ Typed(s) /\ s.closed
          /\ SameUp(g, s) /\ SameDown(g, s) /\ SameLink(g, s)
          /\ s.srv_in_off = g.srv_in_off /\ s.want_out = g.want_out
          /\ Heard(g) => Heard(s)
      BY <1>10, <2>1, Close DEF Ends
    <2>3. Up(g) => Up(s)
      BY <2>2 DEF Up, Accepted, SameUp, SameSent, SameLink
    <2>4. SameDown(r, s) /\ SameLink(r, s) /\ s.app_buf = r.app_buf /\ s.app_fin
      BY <1>10, <2>2 DEF SameUp, SameSent, SameDown, SameRead, SameLink
    <2> QED
      BY <1>6, <1>7, <1>8, <1>9, <1>10, <2>2, <2>3, <2>4 DEF s, HalfClosed
  <1>12. CASE ~(g.srv_eof /\ g.srv_buf = <<>>)
    <2>1. s = g
      BY <1>1, <1>12
    <2> QED
      BY <1>6, <1>7, <1>8, <1>9, <1>10, <2>1 DEF s, SameEnd
  <1> QED
    BY <1>11, <1>12

-----------------------------------------------------------------------------
\* What every call of the engine keeps, whatever the case.
Stays(r, s) ==
    /\ Heard(r) => Heard(s)
    /\ Held(r) => Held(s)
    /\ FinNotLate(r) => FinNotLate(s)
    /\ r.srv_buf = <<>> => s.srv_buf = <<>>
    /\ s.want_out => r.want_out \/ r.fd \/ r.state = 1
    /\ r.closed => s.closed
    /\ s.fd = r.fd /\ s.state = r.state /\ s.added = r.added /\ s.peer = r.peer

\* Writing to the App keeps it ...
LEMMA StaysPumped ==
    ASSUME NEW r, NEW s, Typed(r), Pumped(r, s), Heard(r) => Heard(s),
           Held(r) => Held(s), FinNotLate(r) => FinNotLate(s)
    PROVE  /\ Stays(r, s)
           /\ Up(r) => Up(s)
           /\ OutWanted(r) => OutWanted(s)
           /\ HalfClosed(r) => HalfClosed(s)
  <1>1. PICK m \in 0..Len(r.srv_buf) : Moved(r, s, m)
    BY DEF Pumped
  <1>2. r.srv_buf = <<>> => s.srv_buf = <<>>
    <2>1. r.srv_buf = <<>> => m = 0
      BY <1>1, EmptySeq
    <2>2. m = 0 => Rest(r.srv_buf, m) = r.srv_buf
      BY <1>1, Fields, Cut
    <2> QED
      BY <1>1, <2>1, <2>2 DEF Moved
  <1> QED
    BY <1>2 DEF Stays, Pumped, Up, Accepted, OutWanted, HalfClosed,
                SameUp, SameSent, SameLink, SameEnd

\* ... and so does whatever leaves the download alone.
LEMMA StaysPushed ==
    ASSUME NEW r, NEW s, Heard(r) => Heard(s), s.want_out => r.want_out \/ r.fd \/ r.state = 1,
           SameDown(r, s), SameLink(r, s), s.srv_in_off = r.srv_in_off, r.closed => s.closed
    PROVE  Stays(r, s) /\ (Down(r) => Down(s))
  BY DEF Stays, Down, Held, FinNotLate, SameDown, SameRead, SameLink

\* A packet of the App: a segment, its SYN or a RST.
Packet(g) ==
    /\ g.data \in Seq(Nat) /\ g.fin \in BOOLEAN
    /\ g.ack \in 0..(Mod - 1) /\ g.win \in Nat

\* The App's TCP keeps to its numbering: a segment that is in order carries
\* the bytes behind the accepted ones, and a FIN stands behind the last byte.
Proper(r, g) ==
    /\ g.kind = "syn" => ~r.est
    /\ g.kind \notin {"syn", "rst"} /\ g.seq = r.app_next =>
         /\ g.data # <<>> => NextSent(r, g.data)
         /\ g.fin => g.data = <<>> /\ ~r.app_fin /\ r.fin /\ Accepted(r) = r.sent

\* The window and the acknowledgement of a packet are taken first.
Noted(r0, win, acked) == [r0 EXCEPT !.app_win = win, !.app_acked = acked]

\* Taking the window and the acknowledgement disturbs neither stream.
LEMMA Acknowledged ==
    ASSUME NEW r0, Typed(r0), NEW g, Packet(g), NEW acked \in {r0.app_acked, g.ack},
           NEW r, r = Noted(r0, g.win, acked)
    PROVE  /\ Typed(r)
           /\ SameUp(r0, r) /\ SameDown(r0, r) /\ SameEnd(r0, r)
           /\ r.est = r0.est /\ r.app_win = g.win
           /\ Stays(r0, r)
           /\ r.want_out = r0.want_out
           /\ Up(r0) => Up(r)
           /\ Down(r0) => Down(r)
  <1>1. acked \in 0..(Mod - 1) /\ g.win \in Nat
    BY Fields DEF Packet
  <1>2. r \in Session
    BY ZenonT(60), <1>1 DEF Noted, Typed, Session
  <1>3. /\ SameUp(r0, r) /\ SameDown(r0, r) /\ SameEnd(r0, r)
        /\ r.fd = r0.fd /\ r.state = r0.state /\ r.added = r0.added
        /\ r.peer = r0.peer /\ r.est = r0.est /\ r.app_win = g.win
        /\ r.srv_in_off = r0.srv_in_off /\ r.want_out = r0.want_out /\ r.events = r0.events
    BY DEF Noted, Typed, Session, SameUp, SameSent, SameDown, SameRead, SameEnd
  <1>4. Typed(r)
    BY <1>2, <1>3 DEF Typed, SameUp, SameSent, SameDown, SameRead, SameEnd
  <1>5. Stays(r0, r)
    BY <1>3 DEF Stays, Heard, Held, FinNotLate, SameDown, SameRead, SameEnd
  <1>6. (Up(r0) => Up(r)) /\ (Down(r0) => Down(r))
    BY <1>3 DEF Up, Accepted, Down, SameUp, SameSent, SameDown, SameRead, SameEnd
  <1> QED
    BY <1>3, <1>4, <1>5, <1>6

\* The session with the payload of a segment in order taken ...
Taking(r, g) == IF g.data = <<>> THEN r ELSE app_buf_accept(r, g.data)
\* ... and with its FIN.
Heeding(r, g) == IF g.fin THEN FinFromApp(Taking(r, g)) ELSE Taking(r, g)

\* What a segment in order leaves, before srv_buf is flushed.
LEMMA Heeded ==
    ASSUME NEW r, Typed(r), NEW g, Packet(g)
    PROVE  LET s == Heeding(r, g)
           IN  /\ Typed(s) /\ Stays(r, s) /\ s.est = r.est
               /\ s.app_win = r.app_win /\ s.app_acked = r.app_acked
               /\ Down(r) => Down(s)
               /\ r.state = 1 /\ OutWanted(r) => OutWanted(s)
               /\ (g.data # <<>> => ~r.app_fin)
                  => (HalfClosed(r) /\ (g.fin => r.fd) => HalfClosed(s))
               /\ Up(r) /\ (g.data # <<>> => NextSent(r, g.data))
                  /\ (g.fin => g.data = <<>> /\ ~r.app_fin /\ r.fin /\ Accepted(r) = r.sent)
                  => Up(s)
  <1> DEFINE t == Taking(r, g)
             s == Heeding(r, g)
  <1>1. /\ Typed(t) /\ Stays(r, t) /\ t.est = r.est /\ t.fd = r.fd
        /\ t.app_win = r.app_win /\ t.app_acked = r.app_acked
        /\ Down(r) => Down(t)
        /\ r.state = 1 /\ OutWanted(r) => OutWanted(t)
        /\ (g.data # <<>> => ~r.app_fin) => (HalfClosed(r) => HalfClosed(t))
        /\ Up(r) /\ (g.data # <<>> => NextSent(r, g.data)) => Up(t)
        /\ g.data = <<>> => t = r
    <2>1. CASE g.data = <<>>
      BY <2>1 DEF Taking, Stays
    <2>2. CASE g.data # <<>>
      <3>1. t = app_buf_accept(r, g.data)
        BY <2>2 DEF Taking
      <3> HIDE DEF t
      <3>2. g.data \in Seq(Nat)
        BY DEF Packet
      <3>3. /\ Typed(t) /\ Taken(r, t)
            /\ Heard(r) => Heard(t)
            /\ t.want_out => r.want_out \/ r.fd \/ r.state = 1
            /\ r.state = 1 /\ OutWanted(r) => OutWanted(t)
            /\ Up(r) /\ NextSent(r, g.data) => Up(t)
        BY <3>1, <3>2, AcceptedData
      <3>4. Stays(r, t) /\ (Down(r) => Down(t))
        BY <3>3, StaysPushed DEF Taken
      <3> QED
        BY <2>2, <3>3, <3>4 DEF Taken, SameLink, HalfClosed
    <2> QED
      BY <2>1, <2>2
  <1> HIDE DEF t
  <1>2. CASE ~g.fin
    <2>1. s = t
      BY <1>2 DEF Heeding, t
    <2> HIDE DEF s
    <2> QED
      BY <1>1, <1>2, <2>1 DEF s
  <1>3. CASE g.fin
    <2>1. s = FinFromApp(t)
      BY <1>3 DEF Heeding, t
    <2> HIDE DEF s
    <2>2. /\ Typed(s)
          /\ SameDown(t, s) /\ SameLink(t, s)
          /\ s.srv_in_off = t.srv_in_off /\ s.want_out = t.want_out
          /\ s.app_buf = t.app_buf /\ s.app_fin
          /\ t.closed => s.closed
          /\ Heard(t) => Heard(s)
          /\ t.fd => HalfClosed(s)
          /\ Up(t) /\ ~t.app_fin /\ t.fin /\ Accepted(t) = t.sent => Up(s)
      BY <1>1, <2>1, FinTaken
    <2>3. Stays(t, s) /\ (Down(t) => Down(s))
      BY <2>2, StaysPushed
    <2>4. Stays(r, s)
      BY <1>1, <2>3 DEF Stays
    <2>5. OutWanted(t) => OutWanted(s)
      BY <2>2 DEF OutWanted
    <2>6. s.est = t.est /\ s.app_win = t.app_win /\ s.app_acked = t.app_acked
      BY <2>2 DEF SameLink
    <2> QED
      BY <1>1, <1>3, <2>2, <2>3, <2>4, <2>5, <2>6 DEF s
  <1> QED
    BY <1>2, <1>3

\* One call after another.
LEMMA StaysTrans ==
    ASSUME NEW r, NEW s, NEW t, Stays(r, s), Stays(s, t)
    PROVE  Stays(r, t)
  BY DEF Stays

\* flush_tcp_srv_buf keeps every part of the invariant.
LEMMA FlushKeeps ==
    ASSUME NEW r, Typed(r), NEW ok \in BOOLEAN
    PROVE  LET s == FlushSrvIfAny(r, ok)
           IN  /\ Typed(s) /\ Stays(r, s)
               /\ s.est = r.est /\ s.closed = r.closed
               /\ s.app_win = r.app_win /\ s.app_acked = r.app_acked
               /\ Up(r) => Up(s)
               /\ Down(r) => Down(s)
               /\ OutWanted(r) => OutWanted(s)
               /\ HalfClosed(r) => HalfClosed(s)
  <1> DEFINE s == FlushSrvIfAny(r, ok)
  <1>1. /\ Typed(s) /\ Pumped(r, s)
        /\ FinNotLate(r) => FinNotLate(s)
        /\ Held(r) => Held(s)
        /\ Heard(r) => Heard(s)
    BY FlushIfAny
  <1> HIDE DEF s
  <1>2. /\ Stays(r, s)
        /\ Up(r) => Up(s)
        /\ OutWanted(r) => OutWanted(s)
        /\ HalfClosed(r) => HalfClosed(s)
    BY <1>1, StaysPumped
  <1>3. Down(r) => Down(s)
    BY <1>1, DownPumped
  <1> QED
    BY <1>1, <1>2, <1>3 DEF s, Pumped, SameLink, SameEnd

\* close_tcp_session keeps every part of the invariant.
LEMMA CloseKeeps ==
    ASSUME NEW r, Typed(r), NEW end \in Ends \ {"open"}
    PROVE  LET s == close_tcp_session(r, end)
           IN  /\ Typed(s) /\ Stays(r, s) /\ s.closed
               /\ Up(r) => Up(s)
               /\ Down(r) => Down(s)
  <1> DEFINE s == close_tcp_session(r, end)
  <1>1. /\ Typed(s) /\ s.closed
        /\ SameUp(r, s) /\ SameDown(r, s) /\ SameLink(r, s)
        /\ s.srv_in_off = r.srv_in_off /\ s.want_out = r.want_out
        /\ Heard(r) => Heard(s)
    BY Close
  <1> HIDE DEF s
  <1>2. Stays(r, s) /\ (Down(r) => Down(s))
    BY <1>1, StaysPushed
  <1>3. Up(r) => Up(s)
    BY <1>1 DEF Up, Accepted, SameUp, SameSent, SameLink
  <1> QED
    BY <1>1, <1>2, <1>3 DEF s

\* tcp_handle_packet, whatever the packet.
LEMMA Handled ==
    ASSUME NEW r0, Typed(r0), NEW g, Packet(g), NEW ok \in BOOLEAN
    PROVE  LET s == tcp_handle_packet(r0, g, ok)
           IN  /\ Typed(s) /\ Stays(r0, s)
               /\ s.closed \/ s.app_win = g.win
               /\ g.kind = "rst" => s.closed
               /\ s.est = r0.est \/ g.kind = "syn"
               /\ (g.kind = "syn" => ~r0.est) /\ Down(r0) => Down(s)
               /\ r0.state = 1 /\ OutWanted(r0) => OutWanted(s)
               /\ Proper(r0, g) /\ HalfClosed(r0) /\ (g.fin => r0.fd) => HalfClosed(s)
               /\ Proper(r0, g) /\ Up(r0) => Up(s)
  <1> DEFINE acked == IF SeqGt(g.ack, r0.app_acked) THEN g.ack ELSE r0.app_acked
             r == [r0 EXCEPT !.app_win = g.win, !.app_acked = acked]
             syn == [r EXCEPT !.est = ok /\ r.state = 0]
             s == tcp_handle_packet(r0, g, ok)
  <1>1. s = IF g.kind = "syn" THEN syn
            ELSE IF g.kind = "rst" THEN close_tcp_session(r, "by_app")
            ELSE IF OutOfOrder(r, g) THEN FlushSrvIfAny(send_tcp_ack(r), ok)
            ELSE IF PostFin(r, g)
            THEN close_tcp_session(r, IF g.data = <<>> THEN "quiet" ELSE "reset")
            ELSE IF g.data = <<>> /\ ~g.fin THEN FlushSrvIfAny(r, ok)
            ELSE FlushSrvIfAny(Heeding(r, g), ok)
    <2>1. r = [r0 EXCEPT !.app_win = g.win,
                         !.app_acked = IF SeqGt(g.ack, @) THEN g.ack ELSE @]
      BY DEF Typed, Session
    <2> HIDE DEF r
    <2> QED
      BY <2>1 DEF tcp_handle_packet, Heeding, Taking
  <1>2. acked \in {r0.app_acked, g.ack}
    OBVIOUS
  <1>0. r = Noted(r0, g.win, acked)
    BY DEF Noted
  <1> HIDE DEF acked, s, r
  <1>3. /\ Typed(r)
        /\ SameUp(r0, r) /\ SameDown(r0, r) /\ SameEnd(r0, r)
        /\ r.est = r0.est /\ r.app_win = g.win
        /\ Stays(r0, r)
        /\ r.want_out = r0.want_out
        /\ Up(r0) => Up(r)
        /\ Down(r0) => Down(r)
    BY <1>0, <1>2, Acknowledged
  <1>4. /\ OutWanted(r0) => OutWanted(r)
        /\ HalfClosed(r0) => HalfClosed(r)
        /\ Proper(r0, g) => Proper(r, g)
        /\ r.fd = r0.fd /\ r.state = r0.state
    BY <1>3 DEF OutWanted, HalfClosed, Proper, NextSent, Accepted, SameUp, SameSent, SameEnd, Stays
  <1>5. CASE g.kind = "syn"
    <2>1. s = syn
      BY <1>1, <1>5
    <2> DEFINE e == ok /\ r.state = 0
    <2>2. e \in BOOLEAN
      OBVIOUS
    <2> HIDE DEF e
    <2>3. s = [r EXCEPT !.est = e]
      BY <2>1 DEF e
    <2>4. s \in Session
      BY ZenonT(60), <1>3, <2>2, <2>3 DEF Typed, Session
    <2>5. /\ SameUp(r, s) /\ SameDown(r, s) /\ SameEnd(r, s)
          /\ s.fd = r.fd /\ s.state = r.state /\ s.added = r.added
          /\ s.peer = r.peer /\ s.app_win = r.app_win
          /\ s.srv_in_off = r.srv_in_off /\ s.want_out = r.want_out /\ s.events = r.events
      BY <1>3, <2>3 DEF Typed, Session, SameUp, SameSent, SameDown, SameRead, SameEnd
    <2>6. Typed(s)
      BY <1>3, <2>4, <2>5 DEF Typed, SameUp, SameSent, SameDown, SameRead, SameEnd
    <2>7. Stays(r, s)
      BY <2>5 DEF Stays, Heard, Held, FinNotLate, SameDown, SameRead, SameEnd
    <2>8. Stays(r0, s)
      BY <1>3, <2>7, StaysTrans
    <2>9. /\ OutWanted(r) => OutWanted(s)
          /\ HalfClosed(r) => HalfClosed(s)
      BY <2>5 DEF OutWanted, HalfClosed, SameUp, SameSent, SameEnd
    <2>10. ~r.est /\ Down(r) => Down(s)
      BY <1>5, <2>5 DEF Down, SameDown, SameRead, SameEnd
    <2>11. Proper(r, g) /\ Up(r) => Up(s)
      BY <1>5, <2>5 DEF Proper, Up, Accepted, SameUp, SameSent
    <2> QED
      BY <1>3, <1>4, <1>5, <2>5, <2>6, <2>8, <2>9, <2>10, <2>11 DEF s
  <1>6. ASSUME NEW end \in Ends \ {"open"}, s = close_tcp_session(r, end), g.kind # "syn"
        PROVE  /\ Typed(s) /\ Stays(r0, s) /\ s.closed /\ s.est = r0.est
               /\ Up(r0) => Up(s)
               /\ Down(r0) => Down(s)
    <2>1. /\ Typed(s) /\ Stays(r, s) /\ s.closed
          /\ Up(r) => Up(s)
          /\ Down(r) => Down(s)
      BY <1>3, <1>6, CloseKeeps
    <2>2. s.est = r.est
      BY <1>3, <1>6, Close DEF SameLink
    <2> QED
      BY <1>3, <2>1, <2>2, StaysTrans
  <1>7. CASE g.kind = "rst"
    <2>1. s = close_tcp_session(r, "by_app") /\ g.kind # "syn"
      BY <1>1, <1>7
    <2>2. "by_app" \in Ends \ {"open"}
      BY DEF Ends
    <2> QED
      BY <1>6, <2>1, <2>2 DEF s, OutWanted, HalfClosed
  <1>8. CASE g.kind \notin {"syn", "rst"}
    <2>1. CASE OutOfOrder(r, g)
      <3> DEFINE a == send_tcp_ack(r)
      <3>1. s = FlushSrvIfAny(a, ok)
        BY <1>1, <1>8, <2>1
      <3>2. /\ Typed(a)
            /\ SameSent(r, a) /\ SameDown(r, a) /\ SameLink(r, a) /\ SameEnd(r, a)
            /\ a.srv_in_off = r.srv_in_off /\ a.want_out = r.want_out
            /\ Heard(r) => Heard(a)
        BY <1>3, SendAck
      <3> HIDE DEF a
      <3>3. /\ Stays(r, a)
            /\ Down(r) => Down(a)
            /\ Up(r) => Up(a)
            /\ OutWanted(r) => OutWanted(a)
            /\ HalfClosed(r) => HalfClosed(a)
        <4>1. Stays(r, a) /\ (Down(r) => Down(a))
          BY <3>2, StaysPushed DEF SameEnd
        <4> QED
          BY <3>2, <4>1 DEF Up, Accepted, OutWanted, HalfClosed, SameSent, SameLink, SameEnd
      <3>4. /\ Typed(s) /\ Stays(a, s)
            /\ s.est = a.est /\ s.app_win = a.app_win
            /\ Up(a) => Up(s)
            /\ Down(a) => Down(s)
            /\ OutWanted(a) => OutWanted(s)
            /\ HalfClosed(a) => HalfClosed(s)
        BY <3>1, <3>2, FlushKeeps
      <3>5. Stays(r0, s)
        BY <1>3, <3>3, <3>4, StaysTrans
      <3> QED
        BY <1>3, <1>4, <1>8, <3>2, <3>3, <3>4, <3>5 DEF s, SameLink
    <2>2. CASE ~OutOfOrder(r, g) /\ PostFin(r, g)
      <3> DEFINE end == IF g.data = <<>> THEN "quiet" ELSE "reset"
      <3>1. s = close_tcp_session(r, end) /\ g.kind # "syn"
        BY <1>1, <1>8, <2>2
      <3>2. end \in Ends \ {"open"}
        BY DEF Ends
      <3> HIDE DEF end
      <3> QED
        BY <1>6, <3>1, <3>2 DEF s, OutWanted, HalfClosed
    <2>3. CASE ~OutOfOrder(r, g) /\ ~PostFin(r, g) /\ g.data = <<>> /\ ~g.fin
      <3>1. s = FlushSrvIfAny(r, ok)
        BY <1>1, <1>8, <2>3
      <3>2. /\ Typed(s) /\ Stays(r, s)
            /\ s.est = r.est /\ s.app_win = r.app_win
            /\ Up(r) => Up(s)
            /\ Down(r) => Down(s)
            /\ OutWanted(r) => OutWanted(s)
            /\ HalfClosed(r) => HalfClosed(s)
        BY <1>3, <3>1, FlushKeeps
      <3>3. Stays(r0, s)
        BY <1>3, <3>2, StaysTrans
      <3> QED
        BY <1>3, <1>4, <1>8, <3>2, <3>3 DEF s
    <2>4. CASE ~OutOfOrder(r, g) /\ ~PostFin(r, g) /\ ~(g.data = <<>> /\ ~g.fin)
      <3> DEFINE h == Heeding(r, g)
      <3>1. s = FlushSrvIfAny(h, ok)
        BY <1>1, <1>8, <2>4
      <3>2. Proper(r, g) =>
              /\ g.data # <<>> => NextSent(r, g.data)
              /\ g.fin => g.data = <<>> /\ ~r.app_fin /\ r.fin /\ Accepted(r) = r.sent
              /\ g.data # <<>> => ~r.app_fin
        BY <1>8, <2>4 DEF Proper, OutOfOrder, NextSent
      <3>3. /\ Typed(h) /\ Stays(r, h) /\ h.est = r.est
            /\ h.app_win = r.app_win
            /\ Down(r) => Down(h)
            /\ r.state = 1 /\ OutWanted(r) => OutWanted(h)
            /\ (g.data # <<>> => ~r.app_fin)
               => (HalfClosed(r) /\ (g.fin => r.fd) => HalfClosed(h))
            /\ Up(r) /\ (g.data # <<>> => NextSent(r, g.data))
               /\ (g.fin => g.data = <<>> /\ ~r.app_fin /\ r.fin /\ Accepted(r) = r.sent)
               => Up(h)
        BY <1>3, Heeded
      <3> HIDE DEF h
      <3>4. /\ Typed(s) /\ Stays(h, s)
            /\ s.est = h.est /\ s.app_win = h.app_win
            /\ Up(h) => Up(s)
            /\ Down(h) => Down(s)
            /\ OutWanted(h) => OutWanted(s)
            /\ HalfClosed(h) => HalfClosed(s)
        BY <3>1, <3>3, FlushKeeps
      <3>5. Stays(r0, s)
        BY <1>3, <3>3, <3>4, StaysTrans
      <3> QED
        BY <1>3, <1>4, <1>8, <3>2, <3>3, <3>4, <3>5 DEF s
    <2> QED
      BY <2>1, <2>2, <2>3, <2>4
  <1> QED
    BY <1>5, <1>7, <1>8

\* tcp_flush_all: what is left afterwards waits for something.
LEMMA FlushedAll ==
    ASSUME NEW r, Typed(r), NEW ok \in BOOLEAN
    PROVE  LET s == tcp_flush_all(r, ok)
           IN  /\ Typed(s) /\ Stays(r, s) /\ s.est = r.est
               /\ s.app_win = r.app_win /\ s.app_acked = r.app_acked
               /\ Up(r) => Up(s)
               /\ Down(r) => Down(s)
               /\ r.state = 1 /\ r.fd => OutWanted(s)
               /\ HalfClosed(r) => HalfClosed(s)
               /\ (r.state = 0 => r.srv_buf = <<>>) => Waits(s)
  <1> DEFINE off == [r EXCEPT !.tun_want_out = FALSE]
             d == FlushSrvIfAny(r, ok)
             a == IF d.app_buf = <<>> THEN d ELSE flush_tcp_app_buf(d)
             want == d.srv_buf # <<>>
             on == [a EXCEPT !.tun_want_out = want]
             s == tcp_flush_all(r, ok)
  <1>1. s = IF r.closed \/ r.state = 0 THEN off ELSE on
    BY DEF tcp_flush_all
  <1> HIDE DEF s
  <1>2. ASSUME NEW t, Typed(t), NEW w \in BOOLEAN
        PROVE  LET u == [t EXCEPT !.tun_want_out = w]
               IN  /\ Typed(u) /\ Stays(t, u) /\ u.est = t.est /\ u.closed = t.closed
                   /\ u.app_win = t.app_win /\ u.app_acked = t.app_acked
                   /\ u.srv_buf = t.srv_buf /\ u.tun_want_out = w
                   /\ Up(t) => Up(u)
                   /\ Down(t) => Down(u)
                   /\ OutWanted(t) => OutWanted(u)
                   /\ HalfClosed(t) => HalfClosed(u)
    <2> DEFINE u == [t EXCEPT !.tun_want_out = w]
    <2>1. u \in Session
      BY <1>2 DEF Typed, Session
    <2>2. /\ SameUp(t, u) /\ SameRead(t, u) /\ SameLink(t, u) /\ SameEnd(t, u)
          /\ u.srv_off = t.srv_off /\ u.tun_want_out = w
          /\ u.srv_in_off = t.srv_in_off /\ u.want_out = t.want_out /\ u.events = t.events
      BY <1>2 DEF Typed, Session, SameUp, SameSent, SameRead, SameLink, SameEnd
    <2> HIDE DEF u
    <2>3. Typed(u)
      BY <1>2, <2>1, <2>2 DEF Typed, SameUp, SameSent, SameRead, SameEnd
    <2>4. Stays(t, u)
      BY <2>2 DEF Stays, Heard, Held, FinNotLate, SameRead, SameLink, SameEnd
    <2>5. /\ Up(t) => Up(u)
          /\ Down(t) => Down(u)
          /\ OutWanted(t) => OutWanted(u)
          /\ HalfClosed(t) => HalfClosed(u)
      BY <2>2 DEF Up, Accepted, Down, OutWanted, HalfClosed,
                  SameUp, SameSent, SameRead, SameLink, SameEnd
    <2> QED
      BY <2>2, <2>3, <2>4, <2>5 DEF u, SameLink, SameEnd, SameRead
  <1>3. CASE r.closed \/ r.state = 0
    <2>1. s = off
      BY <1>1, <1>3
    <2>2. /\ Typed(s) /\ Stays(r, s) /\ s.est = r.est /\ s.closed = r.closed
          /\ s.app_win = r.app_win /\ s.app_acked = r.app_acked
          /\ s.srv_buf = r.srv_buf
          /\ Up(r) => Up(s)
          /\ Down(r) => Down(s)
          /\ HalfClosed(r) => HalfClosed(s)
      BY <1>2, <2>1
    <2> QED
      BY <1>3, <2>2 DEF s, OutWanted, Waits
  <1>4. CASE ~(r.closed \/ r.state = 0)
    <2>1. s = on
      BY <1>1, <1>4
    <2>2. /\ Typed(d) /\ Stays(r, d)
          /\ d.est = r.est /\ d.closed = r.closed
          /\ d.app_win = r.app_win /\ d.app_acked = r.app_acked
          /\ Up(r) => Up(d)
          /\ Down(r) => Down(d)
          /\ OutWanted(r) => OutWanted(d)
          /\ HalfClosed(r) => HalfClosed(d)
      BY FlushKeeps
    <2> HIDE DEF d
    <2>3. /\ Typed(a) /\ Stays(d, a) /\ a.est = d.est
          /\ a.app_win = d.app_win /\ a.app_acked = d.app_acked
          /\ a.srv_buf = d.srv_buf
          /\ Up(d) => Up(a)
          /\ Down(d) => Down(a)
          /\ d.fd => OutWanted(a)
          /\ HalfClosed(d) => HalfClosed(a)
      <3>1. CASE d.app_buf = <<>>
        BY <2>2, <3>1 DEF Stays, OutWanted
      <3>2. CASE d.app_buf # <<>>
        <4>1. a = flush_tcp_app_buf(d)
          BY <3>2
        <4> HIDE DEF a
        <4>2. /\ Typed(a)
              /\ Pushed(d, a)
              /\ Heard(d) => Heard(a)
              /\ d.fd => OutWanted(a) /\ HalfClosed(a)
              /\ a.want_out => d.want_out \/ d.fd
              /\ ~d.fd => a = d
          BY <2>2, <4>1, FlushApp
        <4>3. Stays(d, a) /\ (Down(d) => Down(a))
          BY <4>2, StaysPushed DEF Pushed
        <4>4. Up(d) => Up(a)
          BY <2>2, <4>2, UpPushed
        <4> QED
          BY <4>2, <4>3, <4>4 DEF Pushed, SameDown, SameRead, SameLink
      <3> QED
        BY <3>1, <3>2
    <2> HIDE DEF a
    <2>4. want \in BOOLEAN /\ (want <=> d.srv_buf # <<>>)
      OBVIOUS
    <2> HIDE DEF want
    <2>5. /\ Typed(s) /\ Stays(a, s) /\ s.est = a.est
          /\ s.app_win = a.app_win /\ s.app_acked = a.app_acked
          /\ s.srv_buf = a.srv_buf /\ s.tun_want_out = want
          /\ Up(a) => Up(s)
          /\ Down(a) => Down(s)
          /\ OutWanted(a) => OutWanted(s)
          /\ HalfClosed(a) => HalfClosed(s)
      BY <1>2, <2>1, <2>3, <2>4
    <2>6. Stays(r, s)
      BY <2>2, <2>3, <2>5, StaysTrans
    <2>7. Waits(s)
      BY <2>3, <2>4, <2>5 DEF Waits
    <2>8. d.fd = r.fd
      BY <2>2 DEF Stays
    <2> QED
      BY <2>2, <2>3, <2>5, <2>6, <2>7, <2>8 DEF s
  <1> QED
    BY <1>3, <1>4

-----------------------------------------------------------------------------
\* The worker's progress is the socket's, and nothing is read before it is
\* registered.
Staged ==
    /\ wpc \in {"store", "ready", "add", "kick", "done"}
    /\ kick \in BOOLEAN /\ epc \in {"poll", "recv", "tun"}
    /\ c.fd = (wpc # "store")
    /\ c.state = Bit(wpc \in {"add", "kick", "done"})
    /\ c.added = (wpc \in {"kick", "done"})
    /\ epc = "recv" => c.added /\ ~c.closed
    /\ kick => wpc = "done"
    /\ ~c.added => c.srv_buf = <<>>

\* The part that holds in every hard case.
Base == Typed(c) /\ Staged /\ Held(c) /\ FinNotLate(c)

\* The upload, unless a FIN may come in a segment with payload.
UpInv == "fin_data" \notin Hard => Up(c)

\* The download, unless the server may answer an App that is not connected yet.
DownInv == "late_syn" \notin Hard => Down(c) /\ (c.fd /\ ~c.closed => c.est)

\* SHUT_WR, unless moreover the App may close before there is a socket.
HalfInv == "fin_data" \notin Hard /\ "early_fin" \notin Hard => HalfClosed(c)

\* What wakes the engine, unless it runs ahead of EPOLL_CTL_ADD.  Between two
\* reports of the TUN only the window and the TUN hold data for the App back;
\* once the kick is drained, data for the server asks for EPOLLOUT.
WakeInv ==
    "add_race" \notin Hard /\ "late_syn" \notin Hard =>
        /\ Heard(c)
        /\ ~c.added => ~c.want_out
        /\ ~c.closed => FirstWin(c)
        /\ epc # "tun" => Waits(c)
        /\ wpc = "done" /\ ~kick => OutWanted(c)

\* The inductive invariant.
Inv == Base /\ UpInv /\ DownInv /\ HalfInv /\ WakeInv

\* A new session.
LEMMA InitInv == Init => Inv
  <1> SUFFICES ASSUME Init PROVE Inv
    OBVIOUS
  <1>1. /\ AppCap \div WinUnit \in Nat /\ AppCap \div WinUnit <= AppCap
    BY TcpStreamAssumption
  <1>2. (SrvIsn + 1) % Mod \in 0..(Mod - 1) /\ (AppIsn + 1) % Mod \in 0..(Mod - 1)
    <2>1. SrvIsn + 1 \in Int /\ AppIsn + 1 \in Int
      BY Sizes
    <2> QED
      BY <2>1, ModRange
  <1>3. /\ <<>> \in Seq(Nat) /\ Len(<<>>) = 0
    OBVIOUS
  <1>4. c \in Session
    <2>1. PICK est \in BOOLEAN :
       c = [fd |-> FALSE, state |-> 0, closed |-> FALSE, end |-> "open",
            want_out |-> FALSE, srv_in_off |-> FALSE,
            app_win |-> Mod, app_acked |-> (SrvIsn + 1) % Mod,
            app_next |-> (AppIsn + 1) % Mod, srv_next |-> (SrvIsn + 1) % Mod,
            app_fin |-> FALSE, srv_eof |-> FALSE, srv_fin_sent |-> FALSE,
            app_buf |-> <<>>, app_off |-> 0, srv_buf |-> <<>>, srv_off |-> 0,
            tun_want_out |-> FALSE, rst_seq |-> 0,
            added |-> FALSE, events |-> {}, sndq |-> <<>>, rcvq |-> <<>>,
            shut |-> FALSE, got |-> 0, down |-> 0, peer |-> "open",
            est |-> est, sent |-> 0, fin |-> FALSE, rcvd |-> 0, eof |-> FALSE,
            promise |-> AppCap \div WinUnit]
      BY DEF Init
    <2>2. Mod \in Nat /\ 0 \in Nat /\ "open" \in Ends /\ {} \subseteq {"in", "out"}
      BY Sizes DEF Ends
    <2> QED
      BY <1>1, <1>2, <1>3, <2>1, <2>2 DEF Session
  <1>5. /\ c.app_off = 0 /\ c.srv_off = 0 /\ c.app_buf = <<>> /\ c.srv_buf = <<>>
        /\ c.sndq = <<>> /\ c.rcvq = <<>> /\ c.promise = AppCap \div WinUnit
        /\ c.closed = FALSE /\ c.end = "open" /\ c.fd = FALSE /\ c.state = 0
        /\ c.added = FALSE /\ c.want_out = FALSE /\ c.srv_in_off = FALSE
        /\ c.app_win = Mod /\ c.app_acked = (SrvIsn + 1) % Mod
        /\ c.app_next = (AppIsn + 1) % Mod /\ c.srv_next = (SrvIsn + 1) % Mod
        /\ c.app_fin = FALSE /\ c.srv_eof = FALSE /\ c.srv_fin_sent = FALSE
        /\ c.shut = FALSE /\ c.got = 0 /\ c.down = 0 /\ c.sent = 0 /\ c.fin = FALSE
        /\ c.rcvd = 0 /\ c.eof = FALSE
    BY DEF Init
  <1>6. wpc = "store" /\ kick = FALSE /\ epc = "poll"
    BY DEF Init
  <1>7. Typed(c)
    <2>1. /\ c.app_off + Len(c.app_buf) = 0 /\ c.srv_off + Len(c.srv_buf) = 0
          /\ Len(c.sndq) = 0 /\ c.promise <= AppCap - Len(c.app_buf)
      BY <1>1, <1>3, <1>5, Sizes
    <2>2. c.closed = (c.end # "open")
      BY <1>5
    <2> QED
      BY <1>4, <2>1, <2>2, Sizes DEF Typed
  <1>8. Base
    <2>1. c.fd = (wpc # "store") /\ c.added = (wpc \in {"kick", "done"})
      <3>1. (wpc # "store") = FALSE /\ (wpc \in {"kick", "done"}) = FALSE
        BY <1>6
      <3> QED
        BY <1>5, <3>1
    <2>2. c.state = Bit(wpc \in {"add", "kick", "done"})
      BY <1>5, <1>6 DEF Bit
    <2> QED
      BY <1>5, <1>6, <1>7, <2>1, <2>2 DEF Base, Staged, Held, FinNotLate
  <1>9. Up(c)
    <2>1. Accepted(c) = 0 /\ AppIsn + 1 + 0 + 0 = AppIsn + 1
      BY <1>3, <1>5, Sizes DEF Accepted
    <2>2. Run(c.sndq, c.got) /\ Run(c.app_buf, c.got + Len(c.sndq))
      BY <1>3, <1>5 DEF Run
    <2> QED
      BY <1>5, <2>1, <2>2, Sizes DEF Up, Bit
  <1>10. Down(c)
    <2>1. /\ c.rcvd + Len(c.srv_buf) + Len(c.rcvq) = c.down
          /\ SrvIsn + 1 + c.rcvd = SrvIsn + 1
      BY <1>3, <1>5, Sizes
    <2>2. Run(c.srv_buf, c.rcvd) /\ Run(c.rcvq, c.rcvd + Len(c.srv_buf))
      BY <1>3, <1>5 DEF Run
    <2> QED
      BY <1>5, <2>1, <2>2, Sizes DEF Down
  <1>11. HalfInv /\ WakeInv
    BY <1>5, <1>6 DEF HalfInv, HalfClosed, WakeInv, Heard, FirstWin, Waits, OutWanted
  <1> QED
    BY <1>5, <1>8, <1>9, <1>10, <1>11 DEF Inv, UpInv, DownInv

\* A call of the engine keeps the first part.
LEMMA KeptBase ==
    ASSUME Base, Typed(c'), Stays(c, c'), wpc' = wpc, kick' \in {kick, FALSE},
           epc' \in {"poll", "recv", "tun"}, epc' = "recv" => c.added /\ ~c'.closed
    PROVE  Base'
  <1>1. /\ Typed(c) /\ Held(c) /\ FinNotLate(c)
        /\ wpc \in {"store", "ready", "add", "kick", "done"} /\ kick \in BOOLEAN
        /\ c.fd = (wpc # "store")
        /\ c.state = Bit(wpc \in {"add", "kick", "done"})
        /\ c.added = (wpc \in {"kick", "done"})
        /\ kick => wpc = "done"
        /\ ~c.added => c.srv_buf = <<>>
    BY DEF Base, Staged
  <1>2. /\ Held(c') /\ FinNotLate(c')
        /\ c.srv_buf = <<>> => c'.srv_buf = <<>>
        /\ c'.fd = c.fd /\ c'.state = c.state /\ c'.added = c.added
    BY <1>1 DEF Stays
  <1>3. Staged'
    <2>1. /\ c'.fd = (wpc' # "store") /\ c'.added = (wpc' \in {"kick", "done"})
          /\ c'.state = Bit(wpc' \in {"add", "kick", "done"})
          /\ wpc' \in {"store", "ready", "add", "kick", "done"}
      BY <1>1, <1>2
    <2>2. kick' \in BOOLEAN /\ (kick' => wpc' = "done")
      <3>1. CASE kick' = kick
        BY <1>1, <3>1
      <3>2. CASE kick' = FALSE
        BY <3>2
      <3> QED
        BY <3>1, <3>2
    <2>3. /\ epc' \in {"poll", "recv", "tun"} /\ (epc' = "recv" => c'.added /\ ~c'.closed)
          /\ ~c'.added => c'.srv_buf = <<>>
      BY <1>1, <1>2
    <2> QED
      BY <2>1, <2>2, <2>3 DEF Staged
  <1>4. Held(c)' /\ FinNotLate(c)' /\ Typed(c)'
    BY <1>2 DEF Held, FinNotLate, Typed, Session
  <1> QED
    BY <1>3, <1>4 DEF Base

\* A segment carries a run of bytes.
LEMMA SeqOfBytes ==
    ASSUME NEW from \in Nat, NEW n \in Nat
    PROVE  /\ Bytes(from, n) \in Seq(Nat) /\ Len(Bytes(from, n)) = n
           /\ Run(Bytes(from, n), from)
           /\ n = 0 <=> Bytes(from, n) = <<>>
  <1> DEFINE u == Bytes(from, n)
  <1>1. \A i \in 1..n : from + i \in Nat
    OBVIOUS
  <1>2. u \in [1..n -> Nat] /\ \A i \in 1..n : u[i] = from + i
    BY <1>1 DEF Bytes
  <1> HIDE DEF u
  <1>3. u \in Seq(Nat) /\ Len(u) = n
    BY <1>2, IsASeq, LenProperties
  <1>4. n = 0 <=> u = <<>>
    BY <1>3, EmptySeq
  <1> QED
    BY <1>2, <1>3, <1>4 DEF Run, u

\* Within what is ever sent, a sequence number names one position.
LEMMA SeqNumbers ==
    ASSUME NEW a \in 0..(MaxUp + 1), NEW b \in 0..(MaxUp + 1),
           (AppIsn + 1 + a) % Mod = (AppIsn + 1 + b) % Mod
    PROVE  a = b
  <1> DEFINE y == AppIsn + 1
  <1>1. y \in 0..Mod /\ a \in 0..(Mod - 1) /\ b \in 0..(Mod - 1)
    BY Sizes
  <1>2. (y + a) % Mod = (y + b) % Mod
    OBVIOUS
  <1> HIDE DEF y
  <1>3. (((y + a) % Mod) - (y % Mod)) % Mod = a
    BY <1>1, ModMinus
  <1>4. (((y + b) % Mod) - (y % Mod)) % Mod = b
    BY <1>1, ModMinus
  <1> QED
    BY <1>2, <1>3, <1>4

-----------------------------------------------------------------------------
\* The App has sent more before its packet is handled.
Sent(r, sent, fin) == [r EXCEPT !.sent = sent, !.fin = fin]

\* Sending more disturbs nothing the engine holds.
LEMMA SentMore ==
    ASSUME NEW r, Typed(r), NEW sent \in Nat, NEW fin \in BOOLEAN,
           NEW s, s = Sent(r, sent, fin)
    PROVE  /\ Typed(s) /\ Stays(r, s)
           /\ SameDown(r, s) /\ SameLink(r, s) /\ SameEnd(r, s)
           /\ s.app_buf = r.app_buf /\ s.sndq = r.sndq /\ s.got = r.got
           /\ s.shut = r.shut /\ s.app_next = r.app_next /\ s.app_fin = r.app_fin
           /\ s.sent = sent /\ s.fin = fin /\ s.want_out = r.want_out
           /\ Down(r) => Down(s)
           /\ OutWanted(r) => OutWanted(s)
           /\ HalfClosed(r) => HalfClosed(s)
           /\ Up(r) /\ sent >= r.sent /\ sent <= MaxUp /\ (r.fin => sent = r.sent /\ fin)
              /\ (~r.est => sent = 0 /\ ~fin) => Up(s)
  <1>1. s \in Session
    BY ZenonT(60) DEF Sent, Typed, Session
  <1>2. /\ SameDown(r, s) /\ SameLink(r, s) /\ SameEnd(r, s)
        /\ s.app_buf = r.app_buf /\ s.sndq = r.sndq /\ s.got = r.got
        /\ s.shut = r.shut /\ s.app_next = r.app_next /\ s.app_fin = r.app_fin
        /\ s.sent = sent /\ s.fin = fin /\ s.want_out = r.want_out
        /\ s.app_off = r.app_off /\ s.promise = r.promise
        /\ s.srv_in_off = r.srv_in_off /\ s.events = r.events
    BY DEF Sent, Typed, Session, SameDown, SameRead, SameLink, SameEnd
  <1>3. Typed(s)
    BY <1>1, <1>2 DEF Typed, SameDown, SameRead, SameEnd
  <1>4. Heard(r) => Heard(s)
    BY <1>2 DEF Heard, SameLink
  <1>5. Stays(r, s) /\ (Down(r) => Down(s))
    BY <1>2, <1>4, StaysPushed DEF SameEnd
  <1>6. (OutWanted(r) => OutWanted(s)) /\ (HalfClosed(r) => HalfClosed(s))
    BY <1>2 DEF OutWanted, HalfClosed, SameEnd
  <1>7. ASSUME Up(r), sent >= r.sent, sent <= MaxUp, r.fin => sent = r.sent /\ fin,
               ~r.est => sent = 0 /\ ~fin
        PROVE  Up(s)
    <2>1. Accepted(s) = Accepted(r)
      BY <1>2 DEF Accepted
    <2>2. Accepted(r) \in Nat /\ r.sent \in Nat /\ Accepted(r) <= r.sent
      BY <1>7, Fields DEF Accepted, Up
    <2>3. Accepted(s) <= s.sent
      BY <1>2, <1>7, <2>1, <2>2
    <2>4. s.app_fin => s.fin /\ Accepted(s) = s.sent
      BY <1>2, <1>7, <2>1 DEF Up
    <2> QED
      BY <1>2, <1>7, <2>1, <2>3, <2>4 DEF Up, SameLink
  <1> QED
    BY <1>2, <1>3, <1>5, <1>6, <1>7

\* A packet of the App, once it is known to be numbered properly.
LEMMA PacketInv ==
    ASSUME Inv, NEW g, Packet(g), NEW sent \in Nat, NEW fin \in BOOLEAN,
           AppSends(g, sent, fin),
           Up(c) => /\ sent >= c.sent /\ sent <= MaxUp /\ (c.fin => sent = c.sent /\ fin)
                    /\ ~c.est => sent = 0 /\ ~fin,
           g.kind = "syn" => ~c.est,
           g.kind = "rst" \/ g.win \in Wins,
           "fin_data" \notin Hard /\ Up(c) => Proper(Sent(c, sent, fin), g),
           "early_fin" \notin Hard => (g.fin => c.fd)
    PROVE  Inv'
  <1>1. PICK ok \in BOOLEAN : c' = tcp_handle_packet(Sent(c, sent, fin), g, ok)
    BY DEF AppSends, Tun, Sent
  <1>2. ~c.closed /\ epc # "recv" /\ InStep /\ epc' = "tun" /\ wpc' = wpc /\ kick' = kick
    BY DEF AppSends
  <1>3. Typed(c) /\ Staged
    BY DEF Inv, Base
  <1> DEFINE r0 == Sent(c, sent, fin)
             s == tcp_handle_packet(r0, g, ok)
  <1>4. /\ Typed(r0) /\ Stays(c, r0)
        /\ SameLink(c, r0) /\ r0.want_out = c.want_out
        /\ Down(c) => Down(r0)
        /\ OutWanted(c) => OutWanted(r0)
        /\ HalfClosed(c) => HalfClosed(r0)
        /\ Up(c) => Up(r0)
    BY <1>3, SentMore
  <1>5. "fin_data" \notin Hard /\ Up(c) => Proper(r0, g)
    OBVIOUS
  <1>6. c' = s
    BY <1>1
  <1> HIDE DEF r0
  <1>7. /\ Typed(s) /\ Stays(r0, s)
        /\ s.closed \/ s.app_win = g.win
        /\ g.kind = "rst" => s.closed
        /\ s.est = r0.est \/ g.kind = "syn"
        /\ (g.kind = "syn" => ~r0.est) /\ Down(r0) => Down(s)
        /\ r0.state = 1 /\ OutWanted(r0) => OutWanted(s)
        /\ Proper(r0, g) /\ HalfClosed(r0) /\ (g.fin => r0.fd) => HalfClosed(s)
        /\ Proper(r0, g) /\ Up(r0) => Up(s)
    BY <1>4, Handled
  <1> HIDE DEF s
  <1>8. r0.est = c.est /\ r0.fd = c.fd /\ r0.state = c.state
    BY <1>4 DEF SameLink
  <1>9. Stays(c, s)
    BY <1>4, <1>7, StaysTrans
  <1>10. Base'
    BY <1>2, <1>6, <1>7, <1>9, KeptBase DEF Inv
  <1>11. UpInv'
    BY <1>4, <1>5, <1>6, <1>7 DEF Inv, UpInv
  <1>12. DownInv'
    BY <1>4, <1>6, <1>7, <1>8, <1>9 DEF Inv, DownInv, Stays
  <1>13. HalfInv'
    BY <1>4, <1>5, <1>6, <1>7, <1>8 DEF Inv, UpInv, HalfInv
  <1>14. WakeInv'
    <2> SUFFICES ASSUME "add_race" \notin Hard, "late_syn" \notin Hard
                 PROVE  /\ Heard(s)
                        /\ ~s.added => ~s.want_out
                        /\ ~s.closed => FirstWin(s)
                        /\ wpc = "done" /\ ~kick => OutWanted(s)
      BY <1>2, <1>6 DEF WakeInv
    <2>1. Heard(s)
      BY <1>9 DEF Inv, WakeInv, Stays
    <2>2. ~s.added => ~s.want_out
      <3>1. s.added = c.added /\ (s.want_out => c.want_out \/ c.fd \/ c.state = 1)
        BY <1>9 DEF Stays
      <3>2. ~c.added => ~c.want_out
        BY DEF Inv, WakeInv
      <3>3. ~c.added => wpc = "store"
        BY <1>2, <1>3 DEF Staged, InStep
      <3>4. wpc = "store" => ~c.fd /\ c.state = 0
        BY <1>3 DEF Staged, Bit
      <3> QED
        BY <3>1, <3>2, <3>3, <3>4
    <2>3. ~s.closed => FirstWin(s)
      <3>1. ~s.closed => s.app_win \in Wins
        BY <1>7
      <3>2. \A w \in Wins : w # Mod
        BY Sizes
      <3> QED
        BY <3>1, <3>2 DEF FirstWin
    <2>4. wpc = "done" /\ ~kick => OutWanted(s)
      <3>1. wpc = "done" => c.state = 1
        BY <1>3 DEF Staged, Bit
      <3> QED
        BY <1>4, <1>7, <1>8, <3>1 DEF Inv, WakeInv
    <2> QED
      BY <2>1, <2>2, <2>3, <2>4
  <1> QED
    BY <1>10, <1>11, <1>12, <1>13, <1>14 DEF Inv

\* The App acknowledges with a sequence number.
LEMMA AckInRange ==
    ASSUME Inv
    PROVE  AckOf(c) \in 0..(Mod - 1)
  <1>1. c.rcvd \in Nat
    BY Fields DEF Inv, Base
  <1>2. SrvIsn + 1 + c.rcvd + (IF c.eof THEN 1 ELSE 0) \in Int
    BY <1>1, Sizes
  <1> QED
    BY <1>2, ModRange DEF AckOf

\* A segment, new or sent again: if it is in order, it carries the bytes behind
\* the accepted ones, because only they have its number.
LEMMA SegmentInv ==
    ASSUME Inv, NEW off \in 0..(MaxUp + 1), NEW n \in SegLens \cup {0}, NEW fin \in BOOLEAN,
           NEW win \in Wins, AppSegment(off, n, fin, win)
    PROVE  Inv'
  <1> DEFINE last == off + n
             most == IF last > c.sent THEN last ELSE c.sent
             sent == IF c.fin THEN c.sent ELSE most
             f == c.fin \/ fin
             g == Segment(off, n, fin, win)
             r0 == Sent(c, sent, f)
  <1>1. /\ c.est
        /\ c.fin => last <= c.sent \/ (n = 0 /\ ~fin /\ last = c.sent + 1)
        /\ ~c.fin => last <= MaxUp /\ off <= c.sent
        /\ fin => last = most
        /\ fin /\ n > 0 => "fin_data" \in Hard
        /\ fin => c.state = 1 \/ "early_fin" \in Hard
        /\ AppSends(g, sent, f)
    BY DEF AppSegment
  <1>2. Typed(c) /\ Staged
    BY DEF Inv, Base
  <1>3. /\ off \in Nat /\ n \in Nat /\ c.sent \in Nat /\ MaxUp \in Nat
        /\ c.fin \in BOOLEAN /\ c.est \in BOOLEAN
        /\ win \in Nat /\ c.app_fin \in BOOLEAN
    BY <1>2, Sizes, Fields DEF Typed, Session
  <1>4. /\ Bytes(off, n) \in Seq(Nat) /\ Len(Bytes(off, n)) = n /\ Run(Bytes(off, n), off)
        /\ n = 0 <=> Bytes(off, n) = <<>>
    BY <1>3, SeqOfBytes
  <1>5. /\ g.kind = "seg" /\ g.seq = (AppIsn + 1 + off) % Mod /\ g.data = Bytes(off, n)
        /\ g.fin = fin /\ g.ack = AckOf(c) /\ g.win = win
    BY DEF Segment
  <1> HIDE DEF g
  <1>6. Packet(g)
    BY <1>3, <1>4, <1>5, AckInRange DEF Packet
  <1>7. sent \in Nat /\ f \in BOOLEAN
    BY <1>3
  <1>8. Up(c) => /\ sent >= c.sent /\ sent <= MaxUp /\ (c.fin => sent = c.sent /\ f)
                 /\ ~c.est => sent = 0 /\ ~f
    BY <1>1, <1>3 DEF Up
  <1>9. ASSUME "fin_data" \notin Hard, Up(c), g.seq = c.app_next
        PROVE  /\ g.data # <<>> => ~c.app_fin /\ off = Accepted(c) /\ off + n <= sent
               /\ g.fin => g.data = <<>> /\ ~c.app_fin /\ f /\ Accepted(c) = sent
    <2> DEFINE at == Accepted(c) + Bit(c.app_fin)
    <2>1. Accepted(c) \in Nat /\ Accepted(c) <= c.sent /\ c.sent <= MaxUp
      BY <1>2, <1>9, Fields DEF Accepted, Up
    <2>2. at \in 0..(MaxUp + 1)
      BY <1>3, <2>1 DEF Bit
    <2>3. (AppIsn + 1 + off) % Mod = (AppIsn + 1 + at) % Mod
      <3>1. c.app_next = (AppIsn + 1 + Accepted(c) + Bit(c.app_fin)) % Mod
        BY <1>9 DEF Up
      <3>2. AppIsn + 1 + Accepted(c) + Bit(c.app_fin) = AppIsn + 1 + at
        BY <2>1, Sizes DEF Bit
      <3> QED
        BY <1>5, <1>9, <3>1, <3>2
    <2> HIDE DEF at
    <2>4. off = at
      BY <2>2, <2>3, SeqNumbers
    <2>5. off = IF c.app_fin THEN Accepted(c) + 1 ELSE Accepted(c)
      BY <2>1, <2>4 DEF at, Bit
    <2>6. c.app_fin => c.fin /\ Accepted(c) = c.sent
      BY <1>9 DEF Up
    <2>7. n # 0 => ~c.app_fin /\ off = Accepted(c) /\ off + n <= sent
      BY <1>1, <1>3, <2>1, <2>5, <2>6
    <2>8. fin => n = 0 /\ ~c.app_fin /\ f /\ Accepted(c) = sent
      BY <1>1, <1>3, <1>9, <2>1, <2>5, <2>6
    <2> QED
      BY <1>4, <1>5, <2>7, <2>8
  <1> HIDE DEF sent, f
  <1>10. "fin_data" \notin Hard /\ Up(c) => Proper(r0, g)
    <2> SUFFICES ASSUME "fin_data" \notin Hard, Up(c) PROVE Proper(r0, g)
      OBVIOUS
    <2>1. /\ r0.app_next = c.app_next /\ r0.app_fin = c.app_fin /\ r0.app_buf = c.app_buf
          /\ r0.sndq = c.sndq /\ r0.got = c.got /\ r0.sent = sent /\ r0.fin = f
      BY <1>2, <1>7, SentMore
    <2> HIDE DEF r0
    <2>2. Accepted(r0) = Accepted(c)
      BY <2>1 DEF Accepted
    <2> QED
      BY <1>4, <1>5, <1>9, <2>1, <2>2 DEF Proper, NextSent
  <1>11. "early_fin" \notin Hard => (g.fin => c.fd)
    <2>1. (wpc # "store" => c.fd) /\ (wpc = "store" => c.state = 0)
      BY <1>2 DEF Staged, Bit
    <2> QED
      BY <1>1, <1>5, <2>1
  <1>12. g.kind # "syn" /\ g.win \in Wins
    BY <1>5
  <1> HIDE DEF r0
  <1> QED
    BY <1>1, <1>6, <1>7, <1>8, <1>10, <1>11, <1>12, PacketInv DEF r0

\* The SYN sent again.
LEMMA SynInv ==
    ASSUME Inv, NEW win \in Wins, AppSynAgain(win)
    PROVE  Inv'
  <1> DEFINE g == [kind |-> "syn", seq |-> AppIsn, data |-> <<>>, fin |-> FALSE,
                   ack |-> 0, win |-> win]
  <1>1. ~c.est /\ AppSends(g, 0, FALSE)
    BY DEF AppSynAgain
  <1>2. g.kind = "syn" /\ g.data = <<>> /\ g.fin = FALSE /\ g.ack = 0 /\ g.win = win
    OBVIOUS
  <1> HIDE DEF g
  <1>3. Packet(g)
    <2>1. 0 \in 0..(Mod - 1) /\ win \in Nat /\ <<>> \in Seq(Nat) /\ FALSE \in BOOLEAN
      BY Sizes
    <2> QED
      BY <1>2, <2>1 DEF Packet
  <1>4. Up(c) => c.sent = 0 /\ ~c.fin /\ 0 <= MaxUp /\ 0 >= c.sent
    BY <1>1, Sizes DEF Up
  <1>5. Proper(Sent(c, 0, FALSE), g)
    <2>1. Sent(c, 0, FALSE).est = c.est
      <3>1. Typed(c) /\ 0 \in Nat /\ FALSE \in BOOLEAN
        BY DEF Inv, Base
      <3>2. SameLink(c, Sent(c, 0, FALSE))
        BY <3>1, SentMore
      <3> QED
        BY <3>2 DEF SameLink
    <2> QED
      BY <1>1, <1>2, <2>1 DEF Proper
  <1>6. 0 \in Nat /\ FALSE \in BOOLEAN /\ g.kind = "syn" /\ g.win \in Wins /\ ~g.fin
    BY <1>2
  <1> QED
    BY <1>1, <1>3, <1>4, <1>5, <1>6, PacketInv

\* The RST of the App.
LEMMA RstInv ==
    ASSUME Inv, AppRst
    PROVE  Inv'
  <1> DEFINE g == [kind |-> "rst", seq |-> c.app_next, data |-> <<>>, fin |-> FALSE,
                   ack |-> AckOf(c), win |-> 0]
  <1>1. c.est /\ AppSends(g, c.sent, c.fin)
    BY DEF AppRst
  <1>2. /\ g.kind = "rst" /\ g.data = <<>> /\ g.fin = FALSE /\ g.ack = AckOf(c) /\ g.win = 0
    OBVIOUS
  <1> HIDE DEF g
  <1>3. Packet(g)
    <2>1. 0 \in Nat /\ <<>> \in Seq(Nat) /\ FALSE \in BOOLEAN
      OBVIOUS
    <2> QED
      BY <1>2, <2>1, AckInRange DEF Packet
  <1>4. c.sent \in Nat /\ c.fin \in BOOLEAN
    BY Fields DEF Inv, Base, Typed, Session
  <1>5. Up(c) => c.sent >= c.sent /\ c.sent <= MaxUp
    BY <1>4 DEF Up
  <1>6. Proper(Sent(c, c.sent, c.fin), g)
    BY <1>2 DEF Proper
  <1> QED
    BY <1>1, <1>2, <1>3, <1>4, <1>5, <1>6, PacketInv

-----------------------------------------------------------------------------
\* A step of the server leaves the engine's part of the session alone.
Apart(r, s) ==
    /\ s.fd = r.fd /\ s.state = r.state /\ s.added = r.added /\ s.est = r.est
    /\ s.app_win = r.app_win /\ s.app_acked = r.app_acked
    /\ s.closed = r.closed /\ s.end = r.end
    /\ s.want_out = r.want_out /\ s.srv_in_off = r.srv_in_off /\ s.events = r.events
    /\ s.app_buf = r.app_buf /\ s.app_off = r.app_off /\ s.promise = r.promise
    /\ s.app_next = r.app_next /\ s.app_fin = r.app_fin /\ s.shut = r.shut
    /\ s.sent = r.sent /\ s.fin = r.fin
    /\ s.srv_buf = r.srv_buf /\ s.srv_off = r.srv_off /\ s.srv_next = r.srv_next
    /\ s.srv_eof = r.srv_eof /\ s.srv_fin_sent = r.srv_fin_sent
    /\ s.rcvd = r.rcvd /\ s.eof = r.eof /\ s.tun_want_out = r.tun_want_out

\* Types do not depend on the peers.
LEMMA ApartTyped ==
    ASSUME NEW r, Typed(r), NEW s \in Session, Apart(r, s), Len(s.sndq) <= SndCap
    PROVE  Typed(s)
  BY DEF Typed, Apart

\* A step of the server keeps the invariant if it keeps the two streams.
LEMMA ApartInv ==
    ASSUME Inv, Typed(c'), Apart(c, c'), wpc' = wpc, kick' = kick, epc' = epc,
           Up(c) => Up(c'), Down(c) => Down(c')
    PROVE  Inv'
  <1>1. Staged /\ Held(c) /\ FinNotLate(c)
    BY DEF Inv, Base
  <1>2. Staged'
    BY <1>1 DEF Staged, Apart
  <1>3. Held(c') /\ FinNotLate(c')
    BY <1>1 DEF Apart, Held, FinNotLate
  <1>4. Base'
    BY <1>2, <1>3 DEF Base
  <1>5. UpInv' /\ DownInv' /\ HalfInv'
    BY DEF Inv, UpInv, DownInv, HalfInv, HalfClosed, Apart
  <1>6. WakeInv'
    BY DEF Inv, WakeInv, Heard, FirstWin, Waits, WindowFull, InFlight, OutWanted, Apart
  <1> QED
    BY <1>4, <1>5, <1>6 DEF Inv

\* The server reads a byte.
LEMMA SrvReadInv ==
    ASSUME Inv, SrvRead
    PROVE  Inv'
  <1> DEFINE q == Tail(c.sndq)
             n == c.got + 1
             s == [c EXCEPT !.sndq = q, !.got = n]
  <1>1. c' = s /\ c.sndq # <<>> /\ wpc' = wpc /\ kick' = kick /\ epc' = epc
    BY DEF SrvRead, Server, Inv, Base, Typed, Session
  <1>2. Typed(c)
    BY DEF Inv, Base
  <1>3. c.sndq \in Seq(Nat)
    BY <1>2, Fields
  <1>30. c.got \in Nat /\ Len(c.app_buf) \in Nat
    BY <1>2, Fields
  <1>4. Len(c.sndq) \in Nat \ {0}
    BY <1>1, <1>3, EmptySeq, LenProperties
  <1>5. /\ q \in Seq(Nat) /\ Len(q) = Len(c.sndq) - 1
        /\ \A i \in 1..Len(q) : q[i] = c.sndq[i + 1]
    BY <1>1, <1>3, HeadTailProperties
  <1>50. Len(q) = Len(c.sndq) - 1
    BY <1>5
  <1>6. n \in Nat
    BY <1>30
  <1> HIDE DEF q, n
  <1>7. s \in Session
    BY <1>2, <1>5, <1>6 DEF Typed, Session
  <1>8. /\ Apart(c, s) /\ s.sndq = q /\ s.got = n
        /\ s.rcvq = c.rcvq /\ s.down = c.down /\ s.peer = c.peer
    BY <1>2 DEF Typed, Session, Apart
  <1> HIDE DEF s
  <1>9. Typed(s)
    <2>1. Len(c.sndq) <= SndCap /\ SndCap \in Nat
      BY <1>2, Sizes DEF Typed
    <2>2. Len(s.sndq) <= SndCap
      BY <1>4, <1>5, <1>8, <2>1
    <2> QED
      BY <1>2, <1>7, <1>8, <2>2, ApartTyped
  <1>10. Up(c) => Up(s)
    <2> SUFFICES ASSUME Up(c) PROVE Up(s)
      OBVIOUS
    <2>1. n = c.got + 1
      BY DEF n
    <2>2. Accepted(s) = Accepted(c)
      BY <1>30, <1>4, <1>50, <1>8 DEF Accepted, Apart, n
    <2>3. Run(q, n)
      <3>1. \A i \in 1..Len(c.sndq) : c.sndq[i] = c.got + i
        BY DEF Up, Run
      <3>2. \A i \in 1..Len(q) : i \in Nat /\ i + 1 \in 1..Len(c.sndq)
        BY <1>4, <1>5
      <3>3. \A i \in Nat : c.got + (i + 1) = n + i
        BY <1>30 DEF n
      <3> QED
        BY <1>5, <3>1, <3>2, <3>3 DEF Run
    <2>4. n + Len(q) = c.got + Len(c.sndq)
      BY <1>30, <1>4, <1>50 DEF n
    <2> QED
      BY <1>8, <2>2, <2>3, <2>4 DEF Up, Apart
  <1>11. Down(c) => Down(s)
    BY <1>8 DEF Down, Apart
  <1> QED
    BY <1>1, <1>8, <1>9, <1>10, <1>11, ApartInv

\* The server sends a byte.
LEMMA SrvSendInv ==
    ASSUME Inv, SrvSend
    PROVE  Inv'
  <1> DEFINE n == c.down + 1
             q == Append(c.rcvq, n)
             s == [c EXCEPT !.down = n, !.rcvq = q]
  <1>1. /\ c' = s /\ c.peer = "open" /\ c.down < MaxDown
        /\ wpc' = wpc /\ kick' = kick /\ epc' = epc
    BY DEF SrvSend, Server, Inv, Base, Typed, Session
  <1>2. Typed(c)
    BY DEF Inv, Base
  <1>30. c.rcvq \in Seq(Nat)
    BY <1>2, Fields
  <1>3. /\ c.down \in Nat /\ Len(c.rcvq) \in Nat
        /\ c.rcvd \in Nat /\ Len(c.srv_buf) \in Nat /\ MaxDown \in Nat
    BY <1>2, Fields, Sizes
  <1>4. n \in Nat /\ n = c.down + 1
    BY <1>3
  <1> HIDE DEF n
  <1>50. Len(q) = Len(c.rcvq) + 1
    BY <1>30, AppendProperties
  <1>5. /\ q \in Seq(Nat) /\ Len(q) = Len(c.rcvq) + 1
        /\ \A i \in 1..Len(c.rcvq) : q[i] = c.rcvq[i]
        /\ q[Len(c.rcvq) + 1] = n
    BY <1>30, <1>4, AppendProperties
  <1> HIDE DEF q
  <1>7. s \in Session
    BY ZenonT(60), <1>2, <1>4, <1>5 DEF Typed, Session
  <1>8. /\ Apart(c, s) /\ s.rcvq = q /\ s.down = n
        /\ s.sndq = c.sndq /\ s.got = c.got /\ s.peer = c.peer
    BY <1>2 DEF Typed, Session, Apart
  <1> HIDE DEF s
  <1>9. Typed(s)
    BY <1>2, <1>7, <1>8, ApartTyped DEF Typed
  <1>10. Up(c) => Up(s)
    BY <1>8 DEF Up, Accepted, Apart
  <1>11. Down(c) => Down(s)
    <2> SUFFICES ASSUME Down(c) PROVE Down(s)
      OBVIOUS
    <2>1. c.rcvd + Len(c.srv_buf) + Len(c.rcvq) = c.down
      BY DEF Down
    <2>10. /\ c.down \in Nat /\ Len(c.rcvq) \in Nat /\ c.rcvd \in Nat
           /\ Len(c.srv_buf) \in Nat
      BY <1>3
    <2>11. c.rcvd + Len(c.srv_buf) + (Len(c.rcvq) + 1) = c.down + 1
      BY <2>1, <2>10
    <2>2. Run(q, c.rcvd + Len(c.srv_buf))
      <3> DEFINE b == c.rcvd + Len(c.srv_buf)
      <3>1. b \in Nat /\ b + (Len(c.rcvq) + 1) = n
        <4>2. c.rcvd + Len(c.srv_buf) \in Nat
          BY <2>10
        <4> QED
          BY <2>11, <4>2 DEF n
      <3>2. \A i \in 1..Len(c.rcvq) : c.rcvq[i] = b + i
        BY DEF Down, Run
      <3> HIDE DEF b
      <3>3. \A i \in 1..Len(q) : i \in 1..Len(c.rcvq) \/ i = Len(c.rcvq) + 1
        BY <1>3, <1>5
      <3>4. \A i \in 1..Len(q) : q[i] = b + i
        BY <1>5, <3>1, <3>2, <3>3
      <3> QED
        BY <3>4 DEF Run, b
    <2>3. c.rcvd + Len(c.srv_buf) + Len(q) = n /\ n <= MaxDown
      <3>2. c.down + 1 <= MaxDown
        BY <1>1, <1>3
      <3> QED
        BY <1>50, <2>11, <3>2 DEF n
    <2>4. ~c.srv_eof
      BY <1>1 DEF Down
    <2> QED
      BY <1>8, <2>2, <2>3, <2>4 DEF Down, Apart
  <1> QED
    BY <1>1, <1>8, <1>9, <1>10, <1>11, ApartInv

\* The server closes or aborts.
LEMMA PeerInv ==
    ASSUME Inv, NEW p \in {"eof", "err"}, c' = [c EXCEPT !.peer = p],
           wpc' = wpc, kick' = kick, epc' = epc
    PROVE  Inv'
  <1> DEFINE s == [c EXCEPT !.peer = p]
  <1>1. Typed(c)
    BY DEF Inv, Base
  <1>2. s \in Session
    BY <1>1 DEF Typed, Session
  <1>3. /\ Apart(c, s) /\ s.peer = p /\ s.rcvq = c.rcvq /\ s.down = c.down
        /\ s.sndq = c.sndq /\ s.got = c.got
    BY <1>1 DEF Typed, Session, Apart
  <1>4. c' = s
    OBVIOUS
  <1> HIDE DEF s
  <1>5. Typed(s)
    BY <1>1, <1>2, <1>3, ApartTyped DEF Typed
  <1>6. Up(c) => Up(s)
    BY <1>3 DEF Up, Accepted, Apart
  <1>7. Down(c) => Down(s)
    BY <1>3 DEF Down, Apart
  <1> QED
    BY <1>3, <1>4, <1>5, <1>6, <1>7, ApartInv

-----------------------------------------------------------------------------
\* The worker writes the link of the session and nothing else.
LEMMA LinkTyped ==
    ASSUME NEW r, Typed(r), NEW s \in Session,
           SameUp(r, s), SameDown(r, s), SameEnd(r, s)
    PROVE  Typed(s)
  BY DEF Typed, SameUp, SameSent, SameDown, SameRead, SameEnd

\* ... so what it must see to is the registration.
LEMMA LinkInv ==
    ASSUME Inv, Typed(c'), SameUp(c, c'), SameDown(c, c'), SameEnd(c, c'),
           c'.peer = c.peer, c'.est = c.est, c'.app_win = c.app_win,
           c'.app_acked = c.app_acked, c'.srv_in_off = c.srv_in_off,
           c'.want_out = c.want_out, epc' = epc, Staged',
           "late_syn" \notin Hard =>
               /\ c'.state = 1 /\ ~c.closed => c.est
               /\ c'.fd /\ ~c.closed => c.est,
           "add_race" \notin Hard /\ "late_syn" \notin Hard =>
               /\ Heard(c') /\ (~c'.added => ~c.want_out)
               /\ wpc' = "done" /\ ~kick' => OutWanted(c)
    PROVE  Inv'
  <1>1. Base'
    BY DEF Inv, Base, Held, FinNotLate, SameDown, SameRead, SameEnd
  <1>2. UpInv' /\ HalfInv'
    BY DEF Inv, UpInv, HalfInv, Up, Accepted, HalfClosed, SameUp, SameSent, SameEnd
  <1>3. DownInv'
    BY DEF Inv, DownInv, Down, SameDown, SameRead, SameEnd
  <1>4. WakeInv'
    BY DEF Inv, WakeInv, FirstWin, Waits, WindowFull, InFlight, OutWanted,
           SameUp, SameSent, SameDown, SameRead, SameEnd
  <1> QED
    BY <1>1, <1>2, <1>3, <1>4 DEF Inv

\* The steps of the worker: EPOLL_CTL_ADD finds no flag set that it would lose.
LEMMA WorkerInv ==
    ASSUME Inv, Worker
    PROVE  Inv'
  <1>1. /\ Typed(c)
        /\ wpc \in {"store", "ready", "add", "kick", "done"}
        /\ kick \in BOOLEAN /\ epc \in {"poll", "recv", "tun"}
        /\ c.fd = (wpc # "store")
        /\ c.state = Bit(wpc \in {"add", "kick", "done"})
        /\ c.added = (wpc \in {"kick", "done"})
        /\ epc = "recv" => c.added /\ ~c.closed
        /\ kick => wpc = "done"
        /\ ~c.added => c.srv_buf = <<>>
        /\ Held(c)
    BY DEF Inv, Base, Staged
  <1>2. "late_syn" \notin Hard =>
           /\ c.state = 1 /\ ~c.closed => c.est
           /\ c.fd /\ ~c.closed => c.est
    BY DEF Inv, DownInv, Down
  <1>3. "add_race" \notin Hard /\ "late_syn" \notin Hard =>
           /\ Heard(c) /\ (~c.added => ~c.want_out)
           /\ wpc = "done" /\ ~kick => OutWanted(c)
    BY DEF Inv, WakeInv
  <1>4. CASE WStoreFd
    <2> DEFINE s == [c EXCEPT !.fd = TRUE]
    <2>1. /\ wpc = "store" /\ wpc' = "ready" /\ c' = s /\ kick' = kick /\ epc' = epc
          /\ c.est \/ c.closed \/ "late_syn" \in Hard
      BY <1>4 DEF WStoreFd
    <2>2. s \in Session
      BY <1>1 DEF Typed, Session
    <2>3. /\ SameUp(c, s) /\ SameDown(c, s) /\ SameEnd(c, s) /\ s.fd = TRUE
          /\ s.state = c.state /\ s.added = c.added /\ s.peer = c.peer /\ s.est = c.est
          /\ s.app_win = c.app_win /\ s.app_acked = c.app_acked
          /\ s.srv_in_off = c.srv_in_off /\ s.want_out = c.want_out
      BY <1>1 DEF Typed, Session, SameUp, SameSent, SameDown, SameRead, SameEnd
    <2> HIDE DEF s
    <2>4. Typed(s)
      BY <1>1, <2>2, <2>3, LinkTyped
    <2>5. ~c.added /\ c.added = FALSE /\ c.state = 0 /\ ~kick /\ epc # "recv"
      BY <1>1, <2>1 DEF Bit
    <2>6. Staged'
      <3>1. /\ c'.fd = (wpc' # "store") /\ c'.added = (wpc' \in {"kick", "done"})
            /\ c'.state = Bit(wpc' \in {"add", "kick", "done"})
        <4>1. /\ (wpc' # "store") = TRUE /\ (wpc' \in {"kick", "done"}) = FALSE
              /\ (wpc' \in {"add", "kick", "done"}) = FALSE
          BY <2>1
        <4> QED
          BY <2>1, <2>3, <2>5, <4>1 DEF Bit
      <3> QED
        BY <1>1, <2>1, <2>3, <2>5, <3>1 DEF Staged, SameDown, SameRead
    <2>7. Heard(s)
      BY <2>3, <2>5 DEF Heard
    <2> QED
      BY <1>2, <1>3, <2>1, <2>3, <2>4, <2>5, <2>6, <2>7, LinkInv
  <1>5. CASE WReady
    <2> DEFINE s == [c EXCEPT !.state = 1]
    <2>1. wpc = "ready" /\ wpc' = "add" /\ c' = s /\ kick' = kick /\ epc' = epc
      BY <1>5 DEF WReady
    <2>2. s \in Session
      BY <1>1 DEF Typed, Session
    <2>3. /\ SameUp(c, s) /\ SameDown(c, s) /\ SameEnd(c, s) /\ s.fd = c.fd
          /\ s.state = 1 /\ s.added = c.added /\ s.peer = c.peer /\ s.est = c.est
          /\ s.app_win = c.app_win /\ s.app_acked = c.app_acked
          /\ s.srv_in_off = c.srv_in_off /\ s.want_out = c.want_out
      BY <1>1 DEF Typed, Session, SameUp, SameSent, SameDown, SameRead, SameEnd
    <2> HIDE DEF s
    <2>4. Typed(s)
      BY <1>1, <2>2, <2>3, LinkTyped
    <2>5. ~c.added /\ c.fd /\ ~kick /\ epc # "recv"
      BY <1>1, <2>1
    <2>6. Staged'
      <3>1. /\ c'.fd = (wpc' # "store") /\ c'.added = (wpc' \in {"kick", "done"})
            /\ c'.state = Bit(wpc' \in {"add", "kick", "done"})
        BY <1>1, <2>1, <2>3, <2>5 DEF Bit
      <3> QED
        BY <1>1, <2>1, <2>3, <2>5, <3>1 DEF Staged, SameDown, SameRead
    <2>7. Heard(s)
      BY <2>3, <2>5 DEF Heard
    <2> QED
      BY <1>2, <1>3, <2>1, <2>3, <2>4, <2>5, <2>6, <2>7, LinkInv
  <1>6. CASE WAdd
    <2> DEFINE s == [c EXCEPT !.added = TRUE, !.events = {"in"}]
    <2>1. wpc = "add" /\ wpc' = "kick" /\ c' = s /\ kick' = kick /\ epc' = epc
      BY <1>6 DEF WAdd
    <2>2. s \in Session
      BY <1>1 DEF Typed, Session
    <2>3. /\ SameUp(c, s) /\ SameDown(c, s) /\ SameEnd(c, s) /\ s.fd = c.fd
          /\ s.state = c.state /\ s.added = TRUE /\ s.events = {"in"}
          /\ s.peer = c.peer /\ s.est = c.est
          /\ s.app_win = c.app_win /\ s.app_acked = c.app_acked
          /\ s.srv_in_off = c.srv_in_off /\ s.want_out = c.want_out
      BY <1>1 DEF Typed, Session, SameUp, SameSent, SameDown, SameRead, SameEnd
    <2> HIDE DEF s
    <2>4. Typed(s)
      BY <1>1, <2>2, <2>3, LinkTyped
    <2>5. ~c.added /\ c.fd /\ c.state = 1 /\ ~kick /\ epc # "recv"
      BY <1>1, <2>1 DEF Bit
    <2>6. Staged'
      <3>1. /\ c'.fd = (wpc' # "store") /\ c'.added = (wpc' \in {"kick", "done"})
            /\ c'.state = Bit(wpc' \in {"add", "kick", "done"})
        BY <1>1, <2>1, <2>3, <2>5 DEF Bit
      <3> QED
        BY <1>1, <2>1, <2>3, <2>5, <3>1 DEF Staged, SameDown, SameRead
    <2>7. ~c.want_out => Heard(s)
      <3>1. ~c.srv_in_off
        BY <1>1, <2>5 DEF Held
      <3> QED
        BY <2>3, <2>5, <3>1 DEF Heard
    <2> QED
      BY <1>2, <1>3, <2>1, <2>3, <2>4, <2>5, <2>6, <2>7, LinkInv
  <1>7. CASE WKick
    <2>1. wpc = "kick" /\ wpc' = "done" /\ c' = c /\ kick' = TRUE /\ epc' = epc
      BY <1>7 DEF WKick
    <2>2. c.added /\ c.fd /\ c.state = 1
      BY <1>1, <2>1 DEF Bit
    <2>3. Staged'
      <3>1. /\ c'.fd = (wpc' # "store") /\ c'.added = (wpc' \in {"kick", "done"})
            /\ c'.state = Bit(wpc' \in {"add", "kick", "done"})
        BY <1>1, <2>1, <2>2 DEF Bit
      <3> QED
        BY <1>1, <2>1, <2>2, <3>1 DEF Staged
    <2>4. SameUp(c, c') /\ SameDown(c, c') /\ SameEnd(c, c')
      BY <2>1 DEF SameUp, SameSent, SameDown, SameRead, SameEnd
    <2>5. Heard(c) => Heard(c')
      BY <2>1 DEF Heard
    <2>6. Typed(c')
      BY <1>1, <2>1
    <2> QED
      BY <1>2, <1>3, <2>1, <2>2, <2>3, <2>4, <2>5, <2>6, LinkInv
  <1> QED
    BY <1>4, <1>5, <1>6, <1>7 DEF Worker

-----------------------------------------------------------------------------
\* What a call of the engine owes to Inv.
LEMMA EngineInv ==
    ASSUME Inv, Typed(c'), Stays(c, c'), wpc' = wpc, kick' \in {kick, FALSE},
           epc' \in {"poll", "recv", "tun"}, epc' = "recv" => c.added /\ ~c'.closed,
           c'.est = c.est, c'.app_win = c.app_win, c'.app_acked = c.app_acked,
           Up(c) => Up(c'), Down(c) => Down(c'), HalfClosed(c) => HalfClosed(c'),
           c.added \/ InStep \/ (c'.want_out => c.want_out),
           epc' # "tun" => Waits(c') \/ (epc # "tun" /\ (Waits(c) => Waits(c'))),
           wpc = "done" /\ ~kick' =>
               OutWanted(c') \/ (~kick /\ (OutWanted(c) => OutWanted(c')))
    PROVE  Inv'
  <1>1. Base'
    BY KeptBase DEF Inv
  <1>2. UpInv' /\ HalfInv'
    BY DEF Inv, UpInv, HalfInv
  <1>3. DownInv'
    BY DEF Inv, DownInv, Stays
  <1>4. WakeInv'
    <2> SUFFICES ASSUME "add_race" \notin Hard, "late_syn" \notin Hard
                 PROVE  /\ Heard(c')
                        /\ ~c'.added => ~c'.want_out
                        /\ ~c'.closed => FirstWin(c')
                        /\ epc' # "tun" => Waits(c')
                        /\ wpc = "done" /\ ~kick' => OutWanted(c')
      BY DEF WakeInv
    <2>1. /\ Heard(c)
          /\ ~c.added => ~c.want_out
          /\ ~c.closed => FirstWin(c)
          /\ epc # "tun" => Waits(c)
          /\ wpc = "done" /\ ~kick => OutWanted(c)
      BY DEF Inv, WakeInv
    <2>2. /\ Heard(c') /\ c'.added = c.added /\ (c.closed => c'.closed)
          /\ c'.want_out => c.want_out \/ c.fd \/ c.state = 1
      BY <2>1 DEF Stays
    <2>3. ~c.added /\ InStep => ~c.fd /\ c.state # 1
      <3>1. Staged
        BY DEF Inv, Base
      <3>2. ~c.added /\ InStep => wpc = "store"
        BY <3>1 DEF Staged, InStep
      <3>3. wpc = "store" => ~c.fd /\ c.state # 1
        BY <3>1 DEF Staged, Bit
      <3> QED
        BY <3>2, <3>3
    <2>4. ~c'.added => ~c'.want_out
      <3>1. ~c.added => ~c'.want_out
        BY <2>1, <2>2, <2>3, Zenon
      <3> QED
        BY <2>2, <3>1
    <2>5. ~c'.closed => FirstWin(c')
      BY <2>1, <2>2 DEF FirstWin
    <2> QED
      BY <2>1, <2>2, <2>4, <2>5
  <1> QED
    BY <1>1, <1>2, <1>3, <1>4 DEF Inv

\* tcp_flush_all as the engine calls it.
LEMMA FlushAllInv ==
    ASSUME Inv, NEW ok \in BOOLEAN, c' = tcp_flush_all(c, ok), wpc' = wpc, epc' = "poll",
           kick' \in {kick, FALSE}, c.added \/ InStep
    PROVE  Inv'
  <1>1. Typed(c) /\ Staged
    BY DEF Inv, Base
  <1>2. c.state = 0 => c.srv_buf = <<>>
    <2>1. ~c.added => c.srv_buf = <<>>
      BY <1>1 DEF Staged
    <2>2. wpc \in {"kick", "done"} => c.state # 0
      BY <1>1 DEF Staged, Bit
    <2>3. wpc \notin {"kick", "done"} => ~c.added
      BY <1>1 DEF Staged
    <2> QED
      BY <2>1, <2>2, <2>3, Zenon
  <1>3. wpc = "done" => c.state = 1 /\ c.fd
    BY <1>1 DEF Staged, Bit
  <1> DEFINE s == tcp_flush_all(c, ok)
  <1>4. /\ Typed(s) /\ Stays(c, s) /\ s.est = c.est
        /\ s.app_win = c.app_win /\ s.app_acked = c.app_acked
        /\ Up(c) => Up(s)
        /\ Down(c) => Down(s)
        /\ c.state = 1 /\ c.fd => OutWanted(s)
        /\ HalfClosed(c) => HalfClosed(s)
        /\ Waits(s)
    BY <1>1, <1>2, FlushedAll
  <1>5. c' = s
    OBVIOUS
  <1> HIDE DEF s
  <1> QED
    BY <1>3, <1>4, <1>5, EngineInv

\* The kick drained.
LEMMA KickInv ==
    ASSUME Inv, EngKick
    PROVE  Inv'
  <1>1. PICK ok \in BOOLEAN : c' = tcp_flush_all(c, ok)
    BY DEF EngKick, Tun
  <1>2. kick /\ kick' = FALSE /\ wpc' = wpc /\ epc' = "poll"
    BY DEF EngKick
  <1>3. c.added
    BY <1>2 DEF Inv, Base, Staged
  <1> QED
    BY <1>1, <1>2, <1>3, FlushAllInv

\* The packets of the TUN read.
LEMMA FlushInv ==
    ASSUME Inv, EngFlush
    PROVE  Inv'
  <1>1. PICK ok \in BOOLEAN : c' = tcp_flush_all(c, ok)
    BY DEF EngFlush, Tun
  <1>2. InStep /\ kick' = kick /\ wpc' = wpc /\ epc' = "poll"
    BY DEF EngFlush
  <1> QED
    BY <1>1, <1>2, FlushAllInv

\* No call at all.
LEMMA SameStays ==
    ASSUME NEW r
    PROVE  Stays(r, r)
  BY DEF Stays

\* Packets of other connections.
LEMMA TunInv ==
    ASSUME Inv, EngTun
    PROVE  Inv'
  <1>1. c' = c /\ kick' = kick /\ wpc' = wpc /\ epc' = "tun"
    BY DEF EngTun
  <1>2. Typed(c)
    BY DEF Inv, Base
  <1> QED
    BY <1>1, <1>2, SameStays, EngineInv

\* The idle collection.
LEMMA IdleInv ==
    ASSUME Inv, EngIdle
    PROVE  Inv'
  <1>1. /\ c' = close_tcp_session(c, "reset")
        /\ kick' = kick /\ wpc' = wpc /\ epc' = epc /\ epc = "poll"
    BY DEF EngIdle
  <1>2. Typed(c) /\ "reset" \in Ends \ {"open"}
    BY DEF Inv, Base, Ends
  <1> DEFINE s == close_tcp_session(c, "reset")
  <1>3. /\ Typed(s) /\ Stays(c, s) /\ s.closed
        /\ Up(c) => Up(s)
        /\ Down(c) => Down(s)
    BY <1>2, CloseKeeps
  <1>4. SameLink(c, s) /\ s.want_out = c.want_out
    BY <1>2, Close
  <1> HIDE DEF s
  <1>5. c' = s
    BY <1>1 DEF s
  <1> QED
    BY <1>1, <1>3, <1>4, <1>5, EngineInv DEF HalfClosed, OutWanted, Waits, SameLink

\* tcp_handle_event up to the recv loop.
LEMMA EventInv ==
    ASSUME Inv, EngEvent
    PROVE  Inv'
  <1> DEFINE r == IF OutReady(c) /\ c.app_buf # <<>> THEN flush_tcp_app_buf(c) ELSE c
             recv == ~r.closed /\ InReady(c)
             dead == recv /\ c.peer = "err"
             s == IF dead THEN close_tcp_session(r, "reset") ELSE r
  <1>1. /\ epc = "poll" /\ kick' = kick /\ wpc' = wpc /\ c.added
        /\ c' = s
        /\ epc' = IF dead THEN epc ELSE IF recv THEN "recv" ELSE epc
    BY DEF EngEvent, Reported
  <1>2. Typed(c) /\ Staged
    BY DEF Inv, Base
  <1>3. c.fd
    BY <1>1, <1>2 DEF Staged
  <1>4. /\ Typed(r) /\ Stays(c, r) /\ SameLink(c, r) /\ SameDown(c, r)
        /\ Up(c) => Up(r)
        /\ Down(c) => Down(r)
        /\ OutWanted(c) => OutWanted(r)
        /\ HalfClosed(c) => HalfClosed(r)
    <2>1. CASE OutReady(c) /\ c.app_buf # <<>>
      <3>1. r = flush_tcp_app_buf(c)
        BY <2>1
      <3> HIDE DEF r
      <3>2. /\ Typed(r) /\ Pushed(c, r)
            /\ Heard(c) => Heard(r)
            /\ c.fd => OutWanted(r) /\ HalfClosed(r)
            /\ r.want_out => c.want_out \/ c.fd
        BY <1>2, <3>1, FlushApp
      <3>3. Stays(c, r) /\ (Down(c) => Down(r))
        BY <3>2, StaysPushed DEF Pushed
      <3>4. Up(c) => Up(r)
        BY <1>2, <3>2, UpPushed
      <3> QED
        BY <1>3, <3>2, <3>3, <3>4 DEF Pushed
    <2>2. CASE ~(OutReady(c) /\ c.app_buf # <<>>)
      <3>1. r = c
        BY <2>2
      <3> HIDE DEF r
      <3> QED
        BY <1>2, <3>1, SameStays DEF SameLink, SameDown, SameRead
    <2> QED
      BY <2>1, <2>2
  <1> HIDE DEF r
  <1>5. /\ Typed(s) /\ Stays(r, s) /\ SameLink(r, s) /\ SameDown(r, s)
        /\ Up(r) => Up(s)
        /\ Down(r) => Down(s)
        /\ OutWanted(r) => OutWanted(s)
        /\ HalfClosed(r) => HalfClosed(s)
        /\ ~dead => s = r
    <2>1. CASE dead
      <3>1. s = close_tcp_session(r, "reset") /\ "reset" \in Ends \ {"open"}
        BY <2>1 DEF Ends
      <3> HIDE DEF s
      <3>2. /\ Typed(s) /\ Stays(r, s) /\ s.closed
            /\ Up(r) => Up(s)
            /\ Down(r) => Down(s)
        BY <1>4, <3>1, CloseKeeps
      <3>3. SameLink(r, s) /\ SameDown(r, s)
        BY <1>4, <3>1, Close
      <3> QED
        BY <2>1, <3>2, <3>3 DEF OutWanted, HalfClosed
    <2>2. CASE ~dead
      <3>1. s = r
        BY <2>2
      <3> HIDE DEF s
      <3> QED
        BY <1>4, <3>1, SameStays DEF SameLink, SameDown, SameRead
    <2> QED
      BY <2>1, <2>2
  <1>6. epc' \in {"poll", "recv", "tun"} /\ epc' # "tun" /\ (epc' = "recv" => ~s.closed)
    BY <1>1, <1>5
  <1> HIDE DEF s
  <1>7. Stays(c, s)
    BY <1>4, <1>5, StaysTrans
  <1>8. Waits(c) => Waits(s)
    BY <1>4, <1>5, <1>7 DEF Stays, Waits, WindowFull, InFlight, SameLink, SameDown, SameRead
  <1>9. s.est = c.est /\ s.app_win = c.app_win /\ s.app_acked = c.app_acked
    BY <1>4, <1>5 DEF SameLink
  <1>10. wpc = "done" /\ ~kick' => ~kick /\ (OutWanted(c) => OutWanted(s))
    BY <1>1, <1>4, <1>5
  <1> QED
    BY <1>1, <1>4, <1>5, <1>6, <1>7, <1>8, <1>9, <1>10, EngineInv

\* The recv loop.
LEMMA RecvInv ==
    ASSUME Inv, EngRecv
    PROVE  Inv'
  <1>1. PICK ok \in BOOLEAN : /\ c' = RecvOnce(c, ok).r
                              /\ epc' = IF RecvOnce(c, ok).go THEN epc ELSE "poll"
    BY DEF EngRecv, Tun
  <1>2. epc = "recv" /\ wpc' = wpc /\ kick' = kick
    BY DEF EngRecv
  <1>3. Typed(c) /\ Staged /\ Held(c) /\ FinNotLate(c)
    BY DEF Inv, Base
  <1>4. c.added /\ ~c.closed /\ c.state = 1
    <2>1. c.added /\ ~c.closed /\ c.added = (wpc \in {"kick", "done"})
      BY <1>2, <1>3 DEF Staged
    <2>2. wpc \in {"kick", "done"} => c.state = 1
      BY <1>3 DEF Staged, Bit
    <2> QED
      BY <2>1, <2>2
  <1> DEFINE x == RecvOnce(c, ok)
             s == x.r
  <1>5. /\ Typed(s)
        /\ SameUp(c, s) /\ SameLink(c, s) /\ s.want_out = c.want_out
        /\ x.go => s.closed = c.closed
        /\ FinNotLate(c) => FinNotLate(s)
        /\ Held(c) => Held(s)
        /\ Heard(c) => Heard(s)
        /\ Down(c) /\ ~c.closed /\ c.state = 1 => Down(s)
        /\ Down(c) /\ FirstWin(c) /\ ~c.closed /\ c.state = 1 /\ Waits(c) => Waits(s)
    BY <1>3, Received
  <1>6. c' = s /\ epc' = IF x.go THEN epc ELSE "poll"
    BY <1>1
  <1> HIDE DEF x, s
  <1>7. epc' \in {"poll", "recv", "tun"} /\ epc' # "tun" /\ (epc' = "recv" => ~s.closed)
    BY <1>2, <1>4, <1>5, <1>6
  <1>8. Base'
    <2>1. Staged'
      BY <1>2, <1>3, <1>4, <1>5, <1>6, <1>7 DEF Staged, SameLink
    <2> QED
      BY <1>3, <1>5, <1>6, <2>1 DEF Base
  <1>9. UpInv' /\ HalfInv'
    BY <1>4, <1>5, <1>6 DEF Inv, UpInv, HalfInv, Up, Accepted, HalfClosed, SameUp, SameSent, SameLink
  <1>10. DownInv'
    BY <1>4, <1>5, <1>6 DEF Inv, DownInv, SameLink
  <1>11. WakeInv'
    <2> SUFFICES ASSUME "add_race" \notin Hard, "late_syn" \notin Hard
                 PROVE  /\ Heard(s)
                        /\ ~s.added => ~s.want_out
                        /\ ~s.closed => FirstWin(s)
                        /\ Waits(s)
                        /\ wpc = "done" /\ ~kick => OutWanted(s)
      BY <1>2, <1>6, <1>7 DEF WakeInv
    <2>1. /\ Heard(c)
          /\ ~c.closed => FirstWin(c)
          /\ Waits(c)
          /\ wpc = "done" /\ ~kick => OutWanted(c)
          /\ Down(c)
      BY <1>2 DEF Inv, WakeInv, DownInv
    <2>2. s.added = c.added
      BY <1>5 DEF SameLink
    <2> QED
      BY <1>4, <1>5, <2>1, <2>2 DEF FirstWin, OutWanted, SameLink, SameUp, SameSent
  <1> QED
    BY <1>8, <1>9, <1>10, <1>11 DEF Inv

\* Nothing happens.
LEMMA StillInv ==
    ASSUME Inv, UNCHANGED vars
    PROVE  Inv'
  <1>1. c' = c /\ wpc' = wpc /\ kick' = kick /\ epc' = epc
    BY DEF vars
  <1>2. Typed(c) /\ Staged
    BY DEF Inv, Base
  <1>3. epc \in {"poll", "recv", "tun"} /\ (epc = "recv" => c.added /\ ~c.closed)
    BY <1>2 DEF Staged
  <1> QED
    BY <1>1, <1>2, <1>3, SameStays, EngineInv

\* Every step keeps the invariant.
LEMMA StepInv ==
    ASSUME Inv, [Next]_vars
    PROVE  Inv'
  <1>1. CASE App
    BY <1>1, SegmentInv, SynInv, RstInv DEF App
  <1>2. CASE SrvRead \/ SrvSend
    BY <1>2, SrvReadInv, SrvSendInv
  <1>3. CASE SrvEof
    BY <1>3, PeerInv DEF SrvEof, Server
  <1>4. CASE SrvAbort
    BY <1>4, PeerInv DEF SrvAbort, Server
  <1>5. CASE Worker
    BY <1>5, WorkerInv
  <1>6. CASE EngEvent \/ EngRecv
    BY <1>6, EventInv, RecvInv
  <1>7. CASE EngKick \/ EngFlush
    BY <1>7, KickInv, FlushInv
  <1>8. CASE EngTun \/ EngIdle
    BY <1>8, TunInv, IdleInv
  <1>9. CASE Ended \/ UNCHANGED vars
    BY <1>9, StillInv DEF Ended
  <1> QED
    BY <1>1, <1>2, <1>3, <1>4, <1>5, <1>6, <1>7, <1>8, <1>9 DEF Next

\* The invariant holds in every run, whatever the hard cases allowed.
THEOREM Invariance == Spec => []Inv
  BY InitInv, StepInv, PTL DEF Spec

\* WindowKept in every hard case: as long as the App stays within the windows it
\* was sent, app_buf_reserve finds room for its segments.
THEOREM WindowIsKept == Spec => []WindowKept
  <1>1. Inv => WindowKept
    <2> SUFFICES ASSUME Inv PROVE WindowKept
      OBVIOUS
    <2>1. Typed(c)
      BY DEF Inv, Base
    <2>2. c.promise \in Nat /\ c.promise <= AppCap - Len(c.app_buf) /\ Len(c.app_buf) \in Nat
      BY <2>1, Fields DEF Typed
    <2>3. Len(c.app_buf) + c.promise <= AppCap
      BY <2>2, Sizes
    <2> QED
      BY <2>1, <2>2, <2>3, Reserved DEF WindowKept
  <1> QED
    BY <1>1, Invariance, PTL

\* StreamsIntact: both streams arrive whole, in order and counted, across
\* retransmissions, partial sends, full buffers and sequence numbers that wrap.
\* The two cases left out are those in which the code loses bytes.
THEOREM StreamsAreIntact ==
    ASSUME "fin_data" \notin Hard, "late_syn" \notin Hard
    PROVE  Spec => []StreamsIntact
  <1>1. Inv => StreamsIntact
    <2> SUFFICES ASSUME Inv PROVE StreamsIntact
      OBVIOUS
    <2>1. Typed(c) /\ Staged /\ Up(c) /\ Down(c)
      BY DEF Inv, Base, UpInv, DownInv
    <2>2. /\ c.rcvd \in Nat /\ c.down \in Nat /\ c.got \in Nat
          /\ Len(c.srv_buf) \in Nat /\ Len(c.rcvq) \in Nat
          /\ Len(c.app_buf) \in Nat /\ Len(c.sndq) \in Nat
      BY <2>1, Fields
    <2>3. /\ c.app_buf \in Seq(Nat) /\ c.sndq \in Seq(Nat)
          /\ c.srv_buf \in Seq(Nat) /\ c.rcvq \in Seq(Nat)
      BY <2>1, Fields
    <2>4. TypeOK
      <3>1. c.rcvd \in 0..c.down
        BY <2>1, <2>2 DEF Down
      <3>2. Len(c.app_buf) <= AppCap /\ Len(c.srv_buf) <= SrvCap
        <4>1. /\ c.app_off \in Nat /\ c.srv_off \in Nat
              /\ c.app_off + Len(c.app_buf) <= AppCap /\ c.srv_off + Len(c.srv_buf) <= SrvCap
          BY <2>1, Fields DEF Typed
        <4> QED
          BY <2>2, <4>1, Sizes
      <3> QED
        BY <2>1, <3>1, <3>2 DEF TypeOK, Typed, Session, Staged, Ends
    <2>5. UploadIntact
      <3>1. c.sndq \o c.app_buf = Bytes(c.got, Len(c.sndq) + Len(c.app_buf))
        BY <2>1, <2>2, <2>3, RunIsBytes DEF Up
      <3>2. c.app_next = (AppIsn + 1 + Accepted(c) + (IF c.app_fin THEN 1 ELSE 0)) % Mod
        BY <2>1 DEF Up, Bit
      <3> QED
        BY <3>1, <3>2 DEF UploadIntact
    <2>6. DownIntact
      <3>1. c.srv_buf \o c.rcvq = Bytes(c.rcvd, Len(c.srv_buf) + Len(c.rcvq))
        BY ZenonT(60), <2>1, <2>2, <2>3, RunIsBytes DEF Down
      <3>2. c.rcvd + Len(c.srv_buf) + Len(c.rcvq) = c.down
        BY <2>1 DEF Down
      <3>3. Len(c.srv_buf) + Len(c.rcvq) = c.down - c.rcvd
        <4>1. /\ c.rcvd \in Nat /\ c.down \in Nat
              /\ Len(c.srv_buf) \in Nat /\ Len(c.rcvq) \in Nat
          BY <2>2
        <4>2. \A a, b, q, d \in Nat : a + b + q = d => b + q = d - a
          OBVIOUS
        <4> QED
          BY <3>2, <4>1, <4>2, ZenonT(60)
      <3>4. c.eof => c.peer # "open" /\ c.srv_buf = <<>> /\ c.rcvq = <<>>
        BY <2>1 DEF Down
      <3>5. c.eof => c.rcvd = c.down
        <4>1. c.eof => Len(c.srv_buf) = 0 /\ Len(c.rcvq) = 0
          BY <3>4, EmptySeq
        <4> QED
          BY <2>2, <3>2, <4>1
      <3> QED
        BY <2>1, <3>1, <3>3, <3>4, <3>5 DEF DownIntact, Down
    <2> QED
      BY <2>4, <2>5, <2>6 DEF StreamsIntact
  <1> QED
    BY <1>1, Invariance, PTL

\* EndsExact: the server sees the end of the App's stream only behind its last
\* byte, and at once; our FIN waits for data alone.
THEOREM EndsAreExact ==
    ASSUME "fin_data" \notin Hard, "early_fin" \notin Hard
    PROVE  Spec => []EndsExact
  <1>1. Inv => EndsExact
    <2> SUFFICES ASSUME Inv PROVE EndsExact
      OBVIOUS
    <2>1. Typed(c) /\ Up(c) /\ HalfClosed(c) /\ FinNotLate(c)
      BY DEF Inv, Base, UpInv, HalfInv
    <2>2. c.shut => c.fin /\ c.got + Len(c.sndq) = c.sent
      <3>1. c.shut => c.fin /\ Accepted(c) = c.sent /\ c.app_buf = <<>>
        BY <2>1 DEF Up
      <3>2. c.app_buf = <<>> => Accepted(c) = c.got + Len(c.sndq)
        <4>1. c.app_buf = <<>> => Len(c.app_buf) = 0
          BY EmptySeq
        <4>2. c.got \in Nat /\ Len(c.sndq) \in Nat
          BY <2>1, Fields
        <4> QED
          BY <4>1, <4>2 DEF Accepted
      <3> QED
        BY <3>1, <3>2
    <2> QED
      BY <2>1, <2>2 DEF EndsExact, ServerEofExact, FinOnlyWaitsForData, FinNotLate,
                        HalfClosePassedOn, HalfClosed, AtRest
  <1> QED
    BY <1>1, Invariance, PTL

\* NothingSilent: whenever the engine is back in epoll_wait with everything
\* handled, some event will come for every byte it holds.
THEOREM NothingIsSilent ==
    ASSUME "add_race" \notin Hard, "late_syn" \notin Hard
    PROVE  Spec => []NothingSilent
  <1>1. Inv => NothingSilent
    <2> SUFFICES ASSUME Inv, AtRest
                 PROVE  /\ c.app_buf # <<>> => "out" \in c.events
                        /\ c.srv_buf # <<>> => WindowFull(c) \/ c.tun_want_out
                        /\ c.srv_in_off => c.srv_buf # <<>>
                        /\ "in" \in c.events <=> ~c.srv_in_off
      BY DEF NothingSilent, NoSilentUpload, NoSilentDownload
    <2>1. epc = "poll" /\ ~kick /\ wpc = "done" /\ ~c.closed
      BY DEF AtRest
    <2>2. Heard(c) /\ Waits(c) /\ OutWanted(c) /\ Held(c) /\ Staged
      BY <2>1 DEF Inv, Base, WakeInv
    <2>3. c.added
      BY <2>1, <2>2 DEF Staged
    <2> QED
      BY <2>1, <2>2, <2>3 DEF Heard, Waits, OutWanted, Held
  <1> QED
    BY <1>1, Invariance, PTL

=============================================================================
