------------------------------- MODULE DnsTcp -------------------------------
(***************************************************************************)
(* DNS over TCP: with Remote DNS on, a connection to port 53 of an address *)
(* is not relayed; the engine reads the queries out of the App's stream,   *)
(* answers each of them itself and closes (dns_tcp_ingest and dns_tcp_emit *)
(* in tcp_sess.c over the framing of dns_tcp.c).                           *)
(*                                                                         *)
(* The App cuts its stream of queries into segments as it likes, opens and *)
(* closes its window, and may send more while an answer waits for it.      *)
(* Loss and retransmission are TcpStream's subject: segments come in order *)
(* here.  A message is a short sequence of bytes, and an answer is known   *)
(* by its query.                                                           *)
(***************************************************************************)
EXTENDS Naturals, Sequences, SequencesExt

CONSTANTS
    Messages,   \* what the App may put into a query's frame
    Queries,    \* those of them dns_query_parse accepts
    MaxAsked,   \* bound: queries on the connection
    SrvCap,     \* answers srv_buf has room for (TCP_SRV_BUF_CAP)
    MayCut      \* may a segment end inside a query while an answer waits?

ASSUME DnsTcpAssumption ==
    /\ Queries \subseteq Messages /\ Messages \subseteq Seq(0..255)
    /\ MaxAsked \in Nat /\ SrvCap \in Nat /\ MayCut \in BOOLEAN

VARIABLES
    asked,   \* history: the messages the App has decided to send
    unsent,  \* what of their frames it has not sent
    window,  \* the window of its last segment: is it open?
    appFin,  \* it has closed its direction
    dnsRx,   \* dns_rx_buf
    srv,     \* srv_buf, a sequence of answers
    eof,     \* srv_eof
    fin,     \* srv_fin_sent
    gone,    \* how the session was closed: "no", "plain", "rst", "full", "idle"
    got      \* the answers that have reached the App

app  == <<asked, unsent, window, appFin>>
sess == <<dnsRx, srv, eof, fin, gone>>
dnsVars == <<app, sess, got>>

DnsInit ==
    /\ asked = <<>> /\ unsent = <<>> /\ window = TRUE /\ appFin = FALSE
    /\ dnsRx = <<>> /\ srv = <<>> /\ eof = FALSE /\ fin = FALSE /\ gone = "no"
    /\ got = <<>>

FrameOf(m) == <<Len(m) \div 256, Len(m) % 256>> \o m
Past(s, n) == SubSeq(s, n + 1, Len(s))

-----------------------------------------------------------------------------
(* dns_tcp.c and what dns_tcp_ingest does with it.                         *)

\* dns_tcp_scan_frames: the messages of the whole frames b begins with, and
\* where the last of them ends.
Scan(b) ==
    LET from[off \in 0..Len(b)] ==
          IF off + 2 > Len(b) THEN [off |-> off, msgs |-> <<>>]
          ELSE LET mlen == b[off + 1] * 256 + b[off + 2] IN
               IF off + 2 + mlen > Len(b) THEN [off |-> off, msgs |-> <<>>]
               ELSE LET r == from[off + 2 + mlen] IN
                    [r EXCEPT !.msgs = <<SubSeq(b, off + 3, off + 2 + mlen)>> \o @]
    IN from[0]

\* dns_build_reply with always_answer, message by message: every query it can
\* parse has one.
RepliesTo(msgs) ==
    FlattenSeq([i \in 1..Len(msgs) |-> IF msgs[i] \in Queries THEN <<msgs[i]>> ELSE <<>>])

\* Mutant: the buffer is given up with the queries in front of it.
LeftNothing(b, off) == IF off > 0 THEN <<>> ELSE b

\* What is left of dns_rx_buf.
Left(b, off) == Past(b, off)

\* Mutant: the length is looked at before the queries are taken out.
EmptiedBefore(b, off) == b = <<>>

\* srv_eof: nothing is left.
Emptied(b, off) == Past(b, off) = <<>>

\* flush_tcp_srv_buf with what is in srv_buf: the App's window is full, the TUN
\* is (EPOLLOUT comes later), or everything goes out and the FIN after it.
FlushOf(waiting, last, w) ==
    \/ /\ waiting = <<>> \/ w
       /\ srv' = <<>> /\ got' = got \o waiting /\ fin' = (fin \/ last)
    \/ waiting # <<>> /\ srv' = waiting /\ UNCHANGED <<got, fin>>

FlushWaiting == FlushOf(srv, eof, window')

-----------------------------------------------------------------------------
(* The App, and the engine's handling of what it sends.                    *)

AppAsks(m) ==
    /\ Len(asked) < MaxAsked /\ ~appFin /\ gone = "no"
    /\ asked' = Append(asked, m) /\ unsent' = unsent \o FrameOf(m)
    /\ UNCHANGED <<window, appFin, sess, got>>

AtBoundary(n) == Scan(dnsRx \o SubSeq(unsent, 1, n)).off = Len(dnsRx) + n

\* dns_tcp_ingest of n bytes, then the flush.  An answer that does not fit
\* resets the connection.
Ingest(n) ==
    LET b == dnsRx \o SubSeq(unsent, 1, n)
        s == Scan(b)
        waiting == srv \o RepliesTo(s.msgs)
        last == eof \/ Emptied(b, s.off)
    IN
    /\ dnsRx' = Left(b, s.off) /\ eof' = last
    /\ IF Len(waiting) > SrvCap
       THEN gone' = "full" /\ srv' = <<>> /\ UNCHANGED <<got, fin>>
       ELSE FlushOf(waiting, last, window') /\ UNCHANGED gone

Closed(how) == gone' = how /\ srv' = <<>> /\ UNCHANGED <<dnsRx, eof, fin, got>>

\* A segment with data.  Once our FIN has gone out it resets the session.
AppSends(n, w) ==
    /\ gone = "no" /\ n \in 1..Len(unsent)
    /\ (srv # <<>> /\ ~AtBoundary(n)) => MayCut
    /\ unsent' = Past(unsent, n) /\ window' = w
    /\ UNCHANGED <<asked, appFin>>
    /\ IF fin THEN Closed("rst") ELSE Ingest(n)

\* A bare ACK.
AppAcks(w) ==
    /\ gone = "no" /\ window' = w
    /\ UNCHANGED <<asked, unsent, appFin>>
    /\ \/ fin /\ Closed("plain")
       \/ ~fin /\ srv # <<>> /\ FlushWaiting /\ UNCHANGED <<dnsRx, eof, gone>>

\* A FIN in a segment of its own.
AppFin(w) ==
    /\ gone = "no" /\ ~appFin /\ unsent = <<>> /\ asked # <<>>
    /\ appFin' = TRUE /\ window' = w
    /\ UNCHANGED <<asked, unsent>>
    /\ \/ (fin \/ (eof /\ srv = <<>>)) /\ Closed("plain")
       \/ ~fin /\ srv # <<>> /\ FlushWaiting /\ UNCHANGED <<dnsRx, eof, gone>>
       \/ ~fin /\ srv = <<>> /\ ~eof /\ UNCHANGED <<sess, got>>

\* tcp_flush_all_srv, when the TUN has room again.
TunHasRoom ==
    /\ gone = "no" /\ srv # <<>> /\ window
    /\ srv' = <<>> /\ got' = got \o srv /\ fin' = (fin \/ eof)
    /\ UNCHANGED <<app, dnsRx, eof, gone>>

\* The idle collection takes a session the App has left alone.
IdleClose == gone = "no" /\ Closed("idle") /\ UNCHANGED app

DnsNext ==
    \/ \E m \in Messages : AppAsks(m)
    \/ \E n \in 1..Len(unsent), w \in BOOLEAN : AppSends(n, w)
    \/ \E w \in BOOLEAN : AppAcks(w) \/ AppFin(w)
    \/ TunHasRoom \/ IdleClose

DnsSpec == DnsInit /\ [][DnsNext]_dnsVars

\* The App sends what it has begun and opens its window some day, and the TUN
\* does not happen to be full whenever it has done so.
DnsFairness ==
    /\ WF_dnsVars(\E n \in 1..Len(unsent) : AppSends(n, TRUE))
    /\ WF_dnsVars(AppAcks(TRUE)) /\ SF_dnsVars(TunHasRoom)

-----------------------------------------------------------------------------
(* Properties.                                                             *)

DnsTypeOK ==
    /\ asked \in Seq(Messages) /\ Len(asked) <= MaxAsked
    /\ {window, appFin, eof, fin} \subseteq BOOLEAN
    /\ Len(srv) <= SrvCap
    /\ gone \in {"no", "plain", "rst", "full", "idle"}

AckedFrames == [i \in DOMAIN asked |-> FrameOf(asked[i])]

\* However the stream of queries is cut: what waits in dns_rx_buf is the part of
\* one query that has come, and the answers are those of the queries before it,
\* each once and in order.
AnsweredInOrder ==
    \E n \in 0..Len(asked) :
       /\ dnsRx \o unsent = FlattenSeq(SubSeq(AckedFrames, n + 1, Len(asked)))
          \/ gone = "rst"
       /\ LET due == RepliesTo(SubSeq(asked, 1, n)) IN
          IF gone = "no" THEN got \o srv = due ELSE IsPrefix(got, due)

\* tcp_sess.c:486: the FIN goes out when no query is left.  It must not while a
\* part of one, acknowledged, waits for the rest.
NoQueryCut == fin => dnsRx = <<>>

\* Every query is answered in order, and none is cut off by our FIN.
QueriesAnswered == AnsweredInOrder /\ NoQueryCut

\* A conversation comes to an end with everything answered, unless the
\* connection is given up before.
ConversationEnds == (asked # <<>>) ~> (fin \/ gone # "no")

=============================================================================
