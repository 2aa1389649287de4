----------------------------- MODULE TcpStream -----------------------------
(***************************************************************************)
(* The two byte streams of one TCP connection through the engine           *)
(* (tcp_sess.c with the pure parts tcp_state.c, tcp_buf.c, tcp_packet.c):  *)
(* App -> app_buf -> server socket and server socket -> srv_buf -> App,    *)
(* with sequence numbers that wrap, advertised windows, back-pressure, the *)
(* two half-closes, and the worker that puts the socket into epoll while   *)
(* the engine already handles packets.                                     *)
(*                                                                         *)
(* The state is one record c, because a handler of the code is a chain of  *)
(* calls that each take the session and leave it changed; each call is an  *)
(* operator from c to c.  ok says whether the TUN takes the packets        *)
(* written in this step.  Bytes are numbered from 1 in each direction.     *)
(***************************************************************************)
EXTENDS Integers, Sequences

CONSTANTS
    AppCap, SrvCap,   \* TCP_APP_BUF_CAP, TCP_SRV_BUF_CAP
    SndCap,           \* send buffer of the server socket
    Mss, Chunk,       \* largest segment to the App; TCP_READ_CHUNK
    WinUnit,          \* the advertised window counts 2^10 bytes
    Mod,              \* sequence numbers are 32 bits wide
    AppIsn, SrvIsn,   \* initial sequence numbers
    MaxUp, MaxDown,   \* bytes each side sends in this instance
    SegLens, Wins,    \* payload lengths and windows of the App's segments
    Hard              \* the hard cases this instance allows, see below

\* "dup_syn"    our SYN-ACK is lost and the App repeats its SYN
\* "late_syn"   ... only after the SOCKS5 handshake is done
\* "fin_data"   the App's FIN comes in a segment with payload
\* "early_fin"  the App closes before the SOCKS5 handshake is done
\* "add_race"   the engine runs between the worker's store of srv_fd and its
\*              EPOLL_CTL_ADD
\* "tun_full"   writes to the TUN may meet EAGAIN
\* "post_fin"   the server closes although the App may still upload
\* "abort"      either side resets the connection
\* "idle"       five minutes without an event may pass
HardCases == {"dup_syn", "late_syn", "fin_data", "early_fin", "add_race", "tun_full",
              "post_fin", "abort", "idle"}

ASSUME TcpStreamAssumption ==
    /\ {AppCap, SrvCap, SndCap, Mss, Chunk, WinUnit} \subseteq Nat \ {0}
    /\ SrvCap >= 2 /\ MaxUp \in Nat /\ MaxDown \in Nat
    /\ Mod \in Nat /\ Mod > 2 * (MaxUp + 2) /\ Mod > 2 * (MaxDown + 2)
    /\ {AppIsn, SrvIsn} \subseteq 0..(Mod - 1)
    /\ SegLens \subseteq Nat /\ Hard \subseteq HardCases
    \* 16 bits scaled by at most 14: a window is far below the 32 bits of Mod
    /\ Wins \subseteq 0..(Mod - Mss)

VARIABLES
    c,     \* the session, its socket and the two peers
    wpc,   \* the worker: about to store srv_fd, state, to ADD, to kick, done
    kick,  \* a byte waits in the kick pipe
    epc    \* engine: "poll", in the "recv" loop of an event of the socket, or
           \* "tun" with packets read and not flushed yet

vars == <<c, wpc, kick, epc>>

Lower(a, b) == IF a < b THEN a ELSE b
Bytes(from, n) == [i \in 1..n |-> from + i]
Rest(q, n) == SubSeq(q, n + 1, Len(q))

Init ==
    /\ \E est \in IF "dup_syn" \in Hard THEN BOOLEAN ELSE {TRUE} :
       c = [fd |-> FALSE, state |-> 0, closed |-> FALSE, end |-> "open",
            want_out |-> FALSE, srv_in_off |-> FALSE,
            app_win |-> Mod, app_acked |-> (SrvIsn + 1) % Mod,
            app_next |-> (AppIsn + 1) % Mod, srv_next |-> (SrvIsn + 1) % Mod,
            app_fin |-> FALSE, srv_eof |-> FALSE, srv_fin_sent |-> FALSE,
            app_buf |-> <<>>, app_off |-> 0, srv_buf |-> <<>>, srv_off |-> 0,
            tun_want_out |-> FALSE, rst_seq |-> 0,
            \* the server socket: epoll registration, both queues, the peer
            added |-> FALSE, events |-> {}, sndq |-> <<>>, rcvq |-> <<>>,
            shut |-> FALSE, got |-> 0, down |-> 0, peer |-> "open",
            \* the App: SYN-ACK received, bytes and FIN sent, bytes and FIN
            \* received, and the room it has been promised beyond app_next
            est |-> est, sent |-> 0, fin |-> FALSE, rcvd |-> 0, eof |-> FALSE,
            promise |-> AppCap \div WinUnit]
    /\ wpc = "store"
    /\ kick = FALSE
    /\ epc = "poll"

-----------------------------------------------------------------------------
(* tcp_packet.c, tcp_state.c: arithmetic on 32-bit sequence numbers.       *)

SeqGt(a, b) == (a - b) % Mod \in 1..((Mod - 1) \div 2)

InFlight(r) == (r.srv_next - r.app_acked) % Mod

\* Mutant: the window is compared with the sequence number, not the distance.
WindowFullLoose(r) == InFlight(r) > r.app_win

WindowFull(r) == InFlight(r) >= r.app_win

\* Mutant: the room is rounded up to the next unit.
WinBytesUp(r) == ((AppCap - Len(r.app_buf) + WinUnit - 1) \div WinUnit) * WinUnit

\* tcp_win_field_pure, in bytes: free room of app_buf, rounded down.
WinBytes(r) == ((AppCap - Len(r.app_buf)) \div WinUnit) * WinUnit

\* send_tcp_ack promises the App the window it carries; a promise stays.
send_tcp_ack(r) ==
    [r EXCEPT !.promise = IF WinBytes(r) > r.promise THEN WinBytes(r) ELSE r.promise]

-----------------------------------------------------------------------------
(* Interest in the server socket.                                          *)

\* EPOLL_CTL_MOD has no effect on a socket that is not registered yet.
set_srv_events(r) ==
    IF ~r.fd \/ ~r.added THEN r
    ELSE [r EXCEPT !.events = (IF r.srv_in_off THEN {} ELSE {"in"})
                                \cup (IF r.want_out THEN {"out"} ELSE {})]

set_srv_out(r, on) ==
    IF r.want_out = on THEN r ELSE set_srv_events([r EXCEPT !.want_out = on])

set_srv_in(r, on) ==
    IF r.srv_in_off = ~on THEN r ELSE set_srv_events([r EXCEPT !.srv_in_off = ~on])

\* close_tcp_session: end says with a RST to the App ("reset") or without.
close_tcp_session(r, end) ==
    IF r.closed THEN r
    ELSE [r EXCEPT !.closed = TRUE, !.end = end, !.rst_seq = r.srv_next]

-----------------------------------------------------------------------------
(* Server to App.                                                          *)

\* The loop sends segments while the App's window has room, so the last one
\* may pass its edge.
Sendable(r) ==
    IF WindowFull(r) THEN 0
    ELSE Lower(Len(r.srv_buf), ((r.app_win - InFlight(r) + Mss - 1) \div Mss) * Mss)

CompactHalf(r) == IF r.srv_off >= SrvCap \div 2 THEN [r EXCEPT !.srv_off = 0] ELSE r

ResumeSrv(r) == IF r.srv_in_off /\ Len(r.srv_buf) < SrvCap \div 2 THEN set_srv_in(r, TRUE) ELSE r

\* Mutant: the FIN is left to a later packet of the App.
FinToAppNot(r, ok) == r

\* The FIN is written once; a TUN that is full loses it.
FinToApp(r, ok) ==
    IF r.srv_eof /\ r.srv_buf = <<>> /\ ~r.srv_fin_sent
    THEN [r EXCEPT !.srv_fin_sent = TRUE, !.eof = ok /\ r.est] ELSE r

flush_tcp_srv_buf(r, ok) ==
    LET n == Sendable(r)
        left == Rest(r.srv_buf, n)
        sent == [r EXCEPT !.srv_next = (@ + n) % Mod, !.srv_buf = left,
                          !.srv_off = IF left = <<>> THEN 0 ELSE @ + n,
                          !.rcvd = IF r.est THEN @ + n ELSE @]
    IN IF n > 0 /\ ~ok THEN [r EXCEPT !.tun_want_out = TRUE]
       ELSE FinToApp(ResumeSrv(CompactHalf(sent)), ok)

FlushSrvIfAny(r, ok) == IF r.srv_buf = <<>> THEN r ELSE flush_tcp_srv_buf(r, ok)

\* One turn of the recv loop of tcp_handle_event; go: recv again.
RecvOnce(r0, ok) ==
    LET r == CompactHalf(r0)
        used == r.srv_off + Len(r.srv_buf)
        n == Lower(Lower(SrvCap - used, Chunk), Len(r.rcvq))
    IN IF used >= SrvCap
       THEN [go |-> FALSE, r |-> IF r.srv_buf = <<>> THEN close_tcp_session(r, "reset")
                                 ELSE set_srv_in(r, FALSE)]
       ELSE IF n > 0
       THEN [go |-> TRUE, r |-> flush_tcp_srv_buf(
                [r EXCEPT !.srv_buf = @ \o SubSeq(r.rcvq, 1, n), !.rcvq = Rest(@, n)], ok)]
       ELSE [go |-> FALSE,
             r |-> CASE r.peer = "open" -> r
                     [] r.peer = "eof"  -> flush_tcp_srv_buf([r EXCEPT !.srv_eof = TRUE], ok)
                     [] r.peer = "err"  -> close_tcp_session(r, "reset")]

-----------------------------------------------------------------------------
(* App to server.                                                          *)

\* send until the socket is full (EPOLLOUT is asked for), the buffer empty
\* (the App's FIN is passed on) or the connection dead.
\* Mutant first: a partial send does not ask for EPOLLOUT.
NoWaitWritable(r) == r

WaitWritable(r) == set_srv_out(r, TRUE)

Drained(r) == set_srv_out([r EXCEPT !.shut = @ \/ r.app_fin], FALSE)

flush_tcp_app_buf(r) ==
    LET n == Lower(Len(r.app_buf), SndCap - Len(r.sndq))
        left == Rest(r.app_buf, n)
        moved == [r EXCEPT !.sndq = @ \o SubSeq(r.app_buf, 1, n), !.app_buf = left,
                           !.app_off = IF left = <<>> THEN 0 ELSE @ + n]
        next == IF left = <<>> THEN Drained(moved) ELSE WaitWritable(moved)
    IN IF ~r.fd THEN r
       ELSE IF r.peer = "err" /\ r.app_buf # <<>> THEN [r EXCEPT !.closed = TRUE, !.end = "fatal"]
       ELSE IF n > 0 /\ r.state = 1 THEN send_tcp_ack(next) ELSE next

Fits(r, n) == r.app_off + Len(r.app_buf) + n <= AppCap

\* app_buf_reserve moves the data to the front when half of the buffer is
\* spent, and also when the tail alone cannot take n bytes.
\* Mutant: only the first of the two.
app_buf_reserve_half(r, n) ==
    IF r.app_off >= AppCap \div 2 THEN [r EXCEPT !.app_off = 0] ELSE r

app_buf_reserve(r, n) ==
    IF r.app_off >= AppCap \div 2 \/ ~Fits(r, n) THEN [r EXCEPT !.app_off = 0] ELSE r

app_buf_accept(r0, data) ==
    LET n == Len(data)
        r1 == app_buf_reserve(r0, n)
        r2 == IF Fits(r1, n) THEN r1 ELSE flush_tcp_app_buf(r1)
        r3 == app_buf_reserve(r2, n)
        in == send_tcp_ack([r3 EXCEPT !.app_buf = @ \o data, !.app_next = (@ + n) % Mod,
                                      !.promise = IF @ > n THEN @ - n ELSE 0])
    IN IF r2.closed THEN r2
       ELSE IF ~Fits(r3, n) THEN send_tcp_ack(r3)
       ELSE IF r3.state = 1 THEN set_srv_out(in, TRUE) ELSE in

\* Mutant: SHUT_WR is sent although app_buf still holds data.
FinFromAppAtOnce(r) ==
    LET f == send_tcp_ack([r EXCEPT !.app_next = (@ + 1) % Mod, !.app_fin = TRUE])
        g == IF f.fd THEN [f EXCEPT !.shut = TRUE] ELSE f
    IN IF g.srv_eof /\ g.srv_buf = <<>> THEN close_tcp_session(g, "quiet") ELSE g

\* The FIN branch of tcp_handle_packet.
FinFromApp(r) ==
    LET f == send_tcp_ack([r EXCEPT !.app_next = (@ + 1) % Mod, !.app_fin = TRUE])
        g == IF f.app_buf = <<>> /\ f.fd THEN [f EXCEPT !.shut = TRUE] ELSE f
    IN IF g.srv_eof /\ g.srv_buf = <<>> THEN close_tcp_session(g, "quiet") ELSE g

-----------------------------------------------------------------------------
(* The two entry points.                                                   *)

\* Mutant: a segment with an old sequence number is taken all the same.
OutOfOrderNever(r, g) == FALSE

OutOfOrder(r, g) == g.seq # r.app_next

\* Mutant: the ACK of our FIN is taken for an ordinary one.
PostFinData(r, g) == r.srv_fin_sent /\ g.data # <<>>

PostFin(r, g) == r.srv_fin_sent

\* tcp_handle_packet on an existing session: window and ack first, then the
\* classes of tcp_classify_in in their order.
tcp_handle_packet(r0, g, ok) ==
    LET r == [r0 EXCEPT !.app_win = g.win,
                        !.app_acked = IF SeqGt(g.ack, @) THEN g.ack ELSE @]
        taken == IF g.data = <<>> THEN r ELSE app_buf_accept(r, g.data)
    IN IF g.kind = "syn" THEN [r EXCEPT !.est = ok /\ r.state = 0]
       ELSE IF g.kind = "rst" THEN close_tcp_session(r, "by_app")
       ELSE IF OutOfOrder(r, g) THEN FlushSrvIfAny(send_tcp_ack(r), ok)
       ELSE IF PostFin(r, g) THEN close_tcp_session(r, IF g.data = <<>> THEN "quiet" ELSE "reset")
       ELSE IF g.data = <<>> /\ ~g.fin THEN FlushSrvIfAny(r, ok)
       ELSE FlushSrvIfAny(IF g.fin THEN FinFromApp(taken) ELSE taken, ok)

OutReady(r) == "out" \in r.events /\ (Len(r.sndq) < SndCap \/ r.peer = "err")
InReady(r)  == ("in" \in r.events /\ r.rcvq # <<>>) \/ r.peer # "open"
Reported(r) == r.added /\ ~r.closed /\ (OutReady(r) \/ InReady(r))

\* Mutant: only the direction to the App is flushed.
tcp_flush_all_srv(r, ok) ==
    IF r.closed \/ r.state = 0 THEN [r EXCEPT !.tun_want_out = FALSE]
    ELSE LET s == FlushSrvIfAny(r, ok)
         IN [s EXCEPT !.tun_want_out = s.srv_buf # <<>>]

\* tcp_flush_all; the TUN stays in EPOLLOUT while anything is left.
tcp_flush_all(r, ok) ==
    IF r.closed \/ r.state = 0 THEN [r EXCEPT !.tun_want_out = FALSE]
    ELSE LET s == FlushSrvIfAny(r, ok)
             a == IF s.app_buf = <<>> THEN s ELSE flush_tcp_app_buf(s)
         IN [a EXCEPT !.tun_want_out = s.srv_buf # <<>>]

-----------------------------------------------------------------------------
(* The App.  It may send any segment it has sent before again, at any time.*)

Tun == IF "tun_full" \in Hard THEN BOOLEAN ELSE {TRUE}

AckOf(r) == (SrvIsn + 1 + r.rcvd + (IF r.eof THEN 1 ELSE 0)) % Mod

\* The segment of n bytes behind the first off bytes.
Segment(off, n, fin, win) ==
    [kind |-> "seg", seq |-> (AppIsn + 1 + off) % Mod, data |-> Bytes(off, n),
     fin |-> fin, ack |-> AckOf(c), win |-> win]

\* The engine thread is not delayed between two steps of the worker.
InStep == wpc \in {"ready", "add"} => "add_race" \in Hard

AppSends(g, sent, fin) ==
    /\ ~c.closed /\ epc # "recv" /\ InStep
    /\ epc' = "tun"
    /\ UNCHANGED <<wpc, kick>>
    /\ \E ok \in Tun : c' = tcp_handle_packet([c EXCEPT !.sent = sent, !.fin = fin], g, ok)

AppSegment(off, n, fin, win) ==
    /\ c.est
    /\ LET last == off + n
           sent == IF last > c.sent THEN last ELSE c.sent
       IN /\ IF c.fin THEN last <= c.sent \/ (n = 0 /\ ~fin /\ last = c.sent + 1)
                      ELSE last <= MaxUp /\ off <= c.sent
          /\ fin => last = sent
          /\ fin /\ n > 0 => "fin_data" \in Hard
          /\ fin => c.state = 1 \/ "early_fin" \in Hard
          /\ AppSends(Segment(off, n, fin, win), IF c.fin THEN c.sent ELSE sent, c.fin \/ fin)

\* A SYN repeated because the SYN-ACK was lost; its ack field is zero.  It is
\* answered while the handshake with the server is under way.
AppSynAgain(win) ==
    /\ ~c.est
    /\ AppSends([kind |-> "syn", seq |-> AppIsn, data |-> <<>>, fin |-> FALSE,
                 ack |-> 0, win |-> win], 0, FALSE)

AppRst ==
    /\ "abort" \in Hard /\ c.est
    /\ AppSends([kind |-> "rst", seq |-> c.app_next, data |-> <<>>, fin |-> FALSE,
                 ack |-> AckOf(c), win |-> 0], c.sent, c.fin)

-----------------------------------------------------------------------------
(* The server side of the socket.                                          *)

Server == UNCHANGED <<wpc, kick, epc>> /\ ~c.closed

SrvRead == /\ Server /\ c.sndq # <<>> /\ c.peer # "err"
           /\ c' = [c EXCEPT !.sndq = Tail(@), !.got = @ + 1]

SrvSend == /\ Server /\ c.peer = "open" /\ c.down < MaxDown
           /\ c' = [c EXCEPT !.down = @ + 1, !.rcvq = Append(@, c.down + 1)]

SrvEof == /\ Server /\ c.peer = "open"
          /\ (c.shut /\ c.sndq = <<>>) \/ "post_fin" \in Hard
          /\ c' = [c EXCEPT !.peer = "eof"]

SrvAbort == /\ Server /\ "abort" \in Hard
            /\ c.peer = "open" \/ (c.peer = "eof" /\ "post_fin" \in Hard)
            /\ c' = [c EXCEPT !.peer = "err"]

-----------------------------------------------------------------------------
(* The worker, once CONNECT has been answered.                             *)

WStoreFd == /\ wpc = "store" /\ wpc' = "ready"
            /\ c.est \/ c.closed \/ "late_syn" \in Hard
            /\ c' = [c EXCEPT !.fd = TRUE] /\ UNCHANGED <<kick, epc>>

WReady == /\ wpc = "ready" /\ wpc' = "add"
          /\ c' = [c EXCEPT !.state = 1] /\ UNCHANGED <<kick, epc>>

\* EPOLL_CTL_ADD with EPOLLIN, whatever want_out and srv_in_off say.
WAdd == /\ wpc = "add" /\ wpc' = "kick"
        /\ c' = [c EXCEPT !.added = TRUE, !.events = {"in"}]
        /\ UNCHANGED <<kick, epc>>

WKick == /\ wpc = "kick" /\ wpc' = "done"
         /\ kick' = TRUE /\ UNCHANGED <<c, epc>>

Worker == WStoreFd \/ WReady \/ WAdd \/ WKick

-----------------------------------------------------------------------------
(* The epoll loop.                                                         *)

\* tcp_handle_event: writable first, then readable, EOF and error.
EngEvent ==
    /\ epc = "poll" /\ Reported(c)
    /\ LET r == IF OutReady(c) /\ c.app_buf # <<>> THEN flush_tcp_app_buf(c) ELSE c
           recv == ~r.closed /\ InReady(c)
       IN IF recv /\ c.peer = "err"
          THEN c' = close_tcp_session(r, "reset") /\ epc' = epc
          ELSE c' = r /\ epc' = IF recv THEN "recv" ELSE epc
    /\ UNCHANGED <<wpc, kick>>

EngRecv ==
    /\ epc = "recv"
    /\ \E ok \in Tun : LET x == RecvOnce(c, ok)
                      IN c' = x.r /\ epc' = IF x.go THEN epc ELSE "poll"
    /\ UNCHANGED <<wpc, kick>>

\* The kick pipe is drained, then everything is flushed.
EngKick ==
    /\ epc = "poll" /\ kick
    /\ kick' = FALSE
    /\ \E ok \in Tun : c' = tcp_flush_all(c, ok)
    /\ UNCHANGED <<wpc, epc>>

\* The TUN is reported: packets of other connections, or room to write.
EngTun ==
    /\ epc = "poll" /\ ~c.closed
    /\ epc' = "tun"
    /\ UNCHANGED <<c, wpc, kick>>

EngTunOut == c.tun_want_out /\ EngTun

\* After read_tun_packets everything is flushed.
EngFlush ==
    /\ epc = "tun" /\ InStep
    /\ \E ok \in Tun : c' = tcp_flush_all(c, ok)
    /\ epc' = "poll"
    /\ UNCHANGED <<wpc, kick>>

\* tcp_idle_gc: 300 seconds without a packet or an event of this session.
EngIdle ==
    /\ "idle" \in Hard
    /\ epc = "poll" /\ c.state = 1 /\ ~c.closed /\ ~Reported(c)
    /\ c' = close_tcp_session(c, "reset")
    /\ UNCHANGED <<wpc, kick, epc>>

Ended == /\ c.closed /\ wpc = "done" /\ ~kick /\ epc = "poll"
         /\ UNCHANGED vars

App == \/ \E off \in 0..(MaxUp + 1), n \in SegLens \cup {0}, fin \in BOOLEAN, win \in Wins :
             AppSegment(off, n, fin, win)
       \/ \E win \in Wins : AppSynAgain(win)
       \/ AppRst

Next ==
    \/ App
    \/ SrvRead \/ SrvSend \/ SrvEof \/ SrvAbort
    \/ Worker
    \/ EngEvent \/ EngRecv \/ EngKick \/ EngTun \/ EngFlush \/ EngIdle
    \/ Ended

Spec == Init /\ [][Next]_vars

\* What the App's TCP goes on sending: the first bytes not acknowledged yet,
\* its FIN, and an ACK of what arrived with a window open.
Accepted(r) == r.got + Len(r.sndq) + Len(r.app_buf)
MaxWin == CHOOSE w \in Wins : \A v \in Wins : v <= w

AppResends ==
    \/ \E n \in SegLens : AppSegment(Accepted(c), n, FALSE, MaxWin) /\ Accepted(c) + n <= c.sent
    \/ c.fin /\ ~c.app_fin /\ Accepted(c) = c.sent /\ AppSegment(c.sent, 0, TRUE, MaxWin)
AppAcks == AppSegment(Accepted(c) + (IF c.app_fin THEN 1 ELSE 0), 0, FALSE, MaxWin)

\* Threads run, the server reads, and the App's TCP does its part.
Fairness ==
    /\ WF_vars(Worker) /\ WF_vars(SrvRead)
    /\ SF_vars(EngEvent) /\ WF_vars(EngRecv) /\ SF_vars(EngKick)
    /\ WF_vars(EngFlush) /\ SF_vars(EngTunOut)

\* The App's TCP goes on as long as its process reads: strong fairness of
\* AppResends and of AppAcks, with what enables them written out.
CanSend   == c.est /\ ~c.closed /\ epc = "poll" /\ InStep
CanResend == CanSend /\ (c.sent > Accepted(c) \/ (c.fin /\ ~c.app_fin))
AppFairness ==
    /\ <>[]~CanResend \/ []<><<AppResends>>_vars
    /\ <>[]~CanSend \/ []<><<AppAcks>>_vars

FairSpec == Spec /\ Fairness /\ SF_vars(EngIdle)
FairAppSpec == Spec /\ Fairness /\ AppFairness

-----------------------------------------------------------------------------
(* Properties.                                                             *)

TypeOK ==
    /\ c.app_next \in 0..(Mod - 1) /\ c.srv_next \in 0..(Mod - 1) /\ c.app_acked \in 0..(Mod - 1)
    /\ Len(c.app_buf) <= AppCap /\ Len(c.srv_buf) <= SrvCap /\ Len(c.sndq) <= SndCap
    /\ c.app_off + Len(c.app_buf) <= AppCap /\ c.srv_off + Len(c.srv_buf) <= SrvCap
    /\ c.events \subseteq {"in", "out"} /\ c.promise \in Nat /\ c.rcvd \in 0..c.down
    /\ c.end \in {"open", "quiet", "reset", "fatal", "by_app"} /\ c.closed = (c.end # "open")
    /\ wpc \in {"store", "ready", "add", "kick", "done"}
    /\ kick \in BOOLEAN /\ epc \in {"poll", "recv", "tun"}

\* What the engine acknowledges is exactly what it holds or has handed on:
\* every byte the App sent arrives once, in order, across retransmissions,
\* partial sends and full buffers, and the acknowledged number counts them.
UploadIntact ==
    /\ c.sndq \o c.app_buf = Bytes(c.got, Len(c.sndq) + Len(c.app_buf))
    /\ c.app_next = (AppIsn + 1 + Accepted(c) + (IF c.app_fin THEN 1 ELSE 0)) % Mod

\* The server sees the App's end of stream only after all its bytes.
ServerEofExact == c.shut => c.fin /\ c.got + Len(c.sndq) = c.sent

\* The App receives what the server sent, in order and without a gap, and
\* our FIN only after the last byte.
DownIntact ==
    /\ c.srv_buf \o c.rcvq = Bytes(c.rcvd, c.down - c.rcvd)
    /\ c.srv_next = (SrvIsn + 1 + c.rcvd) % Mod
    /\ c.eof => c.peer # "open" /\ c.rcvd = c.down

\* Room once promised is never taken back: as long as the App stays within
\* the windows it was sent, no segment is refused for want of space, however
\* fragmented app_buf is.
WindowKept ==
    /\ c.promise <= AppCap - Len(c.app_buf)
    /\ Fits(app_buf_reserve(c, c.promise), c.promise)

\* What the engine takes for acknowledged by the App, the App has seen; if
\* not, the flow control counts bytes in flight that do not exist.
AckedIsApps ==
    (c.app_acked - SrvIsn - 1) % Mod <= c.rcvd + (IF c.eof THEN 1 ELSE 0)

\* Our FIN is missing only because srv_buf is not drained.
FinOnlyWaitsForData == ~c.closed /\ c.srv_eof /\ ~c.srv_fin_sent => c.srv_buf # <<>>

\* When the engine goes back to epoll_wait, something will wake it for every
\* byte it holds.  Upload: EPOLLOUT on a registered socket, or the kick.
AtRest == epc = "poll" /\ ~kick /\ wpc = "done" /\ ~c.closed

NoSilentUpload == AtRest /\ c.app_buf # <<>> => "out" \in c.events

\* Download: only the App's window or a full TUN holds data back, reading is
\* paused only while there is such data, and the registration is what the
\* flags say.
NoSilentDownload ==
    AtRest => /\ c.srv_buf # <<>> => WindowFull(c) \/ c.tun_want_out
              /\ c.srv_in_off => c.srv_buf # <<>>
              /\ "in" \in c.events <=> ~c.srv_in_off

\* An App that has closed its side is heard by the server: nothing but data
\* on its way holds SHUT_WR back.
HalfClosePassedOn == AtRest /\ c.app_fin /\ c.app_buf = <<>> => c.shut

\* A connection that ends without RST has delivered what it acknowledged.
AckedSurvives == c.end = "quiet" => c.app_buf = <<>>

\* A RST carries the sequence number the App expects, or the App ignores it.
RstIsAccepted == c.end = "reset" => c.rst_seq = AckOf(c)

\* The same, as the runs check them: both directions at once, on top of the
\* types.  Data arrives intact; the end of a stream follows the last byte at
\* once; nothing is held that no event will move.
StreamsIntact == TypeOK /\ UploadIntact /\ DownIntact
EndsExact     == ServerEofExact /\ FinOnlyWaitsForData /\ HalfClosePassedOn
NothingSilent == NoSilentUpload /\ NoSilentDownload

\* With an App that goes on acknowledging, every byte arrives in the end,
\* the end of either stream is passed on, and the session ends.
UploadArrives   == c.got < c.sent ~> c.got = c.sent
DownloadArrives == c.rcvd < c.down ~> c.rcvd = c.down
AllArrives      == UploadArrives /\ DownloadArrives
BothEndsClose   == c.fin /\ c.peer = "eof" ~> c.closed

\* A connection on which the App says nothing any more, and has not been told
\* to close, is given up.
IdleReclaimed == <>[][~App]_vars /\ []~c.eof => (c.state = 1 ~> c.closed)

=============================================================================
