-------------------------------- MODULE Relay --------------------------------
(***************************************************************************)
(* A whole UDP-in-TCP conversation: the handshake of Handshake.tla, and    *)
(* then the frames the engine exchanges with the server on the same        *)
(* connection (udp_tcp_append, udp_tcp_flush and udp_tcp_read of           *)
(* udp_sess.c with udp_tcp_consume of udp_tcp.c).                          *)
(*                                                                         *)
(* A frame is a length in two bytes and a datagram.  Datagrams of the      *)
(* server are numbers repeated, so that loss, order and mixture show.      *)
(***************************************************************************)
EXTENDS Handshake, Integers

CONSTANTS
    RxCap,     \* rx_cap
    TxCap,     \* tx_cap
    MinFrame,  \* UDP_TCP_MIN_FRAME
    Sizes,     \* sizes of the datagrams the App sends
    MaxSent    \* bound: how many the App sends

ASSUME RelayAssumption ==
    /\ {RxCap, TxCap, MinFrame} \subseteq Nat /\ 0 < MinFrame /\ MinFrame + 2 < RxCap
    /\ Sizes \subseteq Nat /\ MaxSent \in Nat
    \* the server frames what it sends, whatever the length says of the datagram
    /\ \A p \in Payloads : Len(p) >= 2 /\ Len(p) = 2 + p[1] * 256 + p[2]

VARIABLES
    rx,      \* rx_buf from rx_off on
    want,    \* rx_stream.want, None when a length comes next
    handed,  \* the datagrams handed to handle_relay_udp
    tx,      \* tx_buf from its start: the first txOff bytes are sent
    txOff,   \* tx_off
    sent,    \* history: the frames udp_tcp_append has taken
    onWire,  \* the bytes the server has been sent
    over     \* the engine has ended the session: "no", "eof", "violation", "stuck"

engine == <<rx, want, handed, tx, txOff, sent, onWire, over>>
vars   == <<hvars, engine>>

None == -1

Init ==
    /\ HInit
    /\ rx = <<>> /\ want = None /\ handed = <<>>
    /\ tx = <<>> /\ txOff = 0 /\ sent = <<>> /\ onWire = <<>> /\ over = "no"

Frame(d) == <<Len(d) \div 256, Len(d) % 256>> \o d

Open == pc = "done" /\ event = "ok" /\ cmd = 4 /\ over = "no" /\ running

-----------------------------------------------------------------------------
(* From the server: udp_tcp_read.                                          *)

\* Mutant: the length that was read is not kept until its datagram is there.
KeptNot(w) == None

\* stream state across calls: a length is read once.
Kept(w) == w

\* Mutant: a datagram that is all there is waits for the byte behind it.
WholeAndMore(w, n) == w < n

\* Is a datagram of w bytes among the n that are there?
Whole(w, n) == w <= n

\* udp_tcp_consume: what it takes of the bytes b, the length it waits for then,
\* the datagrams, and whether a length was out of bounds.
Consume(w0, b, cap) ==
    LET At(off, w) == [off |-> off, want |-> w]
        Stops(s, bad) == [off |-> s.off, want |-> s.want, frames |-> <<>>, bad |-> bad]
        Length(off) == b[off + 1] * 256 + b[off + 2]
        from[s \in [off : 0..Len(b), want : None..cap]] ==
          IF s.want = None
          THEN IF s.off + 2 > Len(b) THEN Stops(s, FALSE)
               ELSE IF Length(s.off) \notin MinFrame..cap THEN Stops(s, TRUE)
               ELSE from[At(s.off + 2, Length(s.off))]
          ELSE IF ~Whole(s.want, Len(b) - s.off) THEN Stops(At(s.off, Kept(s.want)), FALSE)
               ELSE LET r == from[At(s.off + s.want, None)] IN
                    [r EXCEPT !.frames = <<SubSeq(b, s.off + 1, s.off + s.want)>> \o @]
    IN from[At(0, w0)]

\* Mutant: a full buffer is taken for a broken connection.
FullIsFatal(got) == got = RxCap - Len(rx) \/ (got = Len(stream) /\ closed)

\* recv is called until nothing has arrived, there is no room left (the rest
\* stays with TCP), or the stream has ended.
MeetsEof(got) == got < RxCap - Len(rx) /\ got = Len(stream) /\ closed

UdpTcpRead ==
    /\ Open
    /\ \E got \in 0..Least(RxCap - Len(rx), Len(stream)) :
       LET filled == rx \o SubSeq(stream, 1, got)
           c      == Consume(want, filled, RxCap - 2)
       IN
       /\ stream' = Rest(stream, got)
       /\ \/ /\ MeetsEof(got)
             /\ over' = "eof" /\ UNCHANGED <<rx, want, handed>>
          \/ /\ got > 0
             /\ handed' = handed \o c.frames
             /\ rx' = Rest(filled, c.off) /\ want' = c.want
             /\ over' = IF c.bad THEN "violation"
                        ELSE IF c.off = 0 /\ Len(filled) = RxCap THEN "stuck" ELSE "no"
    /\ UNCHANGED <<worker, running, inbox, closed, taken, verdict, spoken, tx, txOff, sent, onWire>>

-----------------------------------------------------------------------------
(* To the server: udp_tcp_append and udp_tcp_flush.                        *)

TxLen == Len(tx) - txOff

\* A frame goes behind what waits, which is moved to the front when that makes
\* room; otherwise the datagram is dropped.
Placed(frame) ==
    IF txOff + TxLen + Len(frame) > TxCap THEN Rest(tx, txOff) \o frame ELSE tx \o frame

UdpTcpAppend(n) ==
    /\ Open /\ Len(sent) < MaxSent
    /\ LET frame == Frame([i \in 1..n |-> Len(sent) + 1])
           fits  == TxLen + Len(frame) <= TxCap
       IN
       IF ~fits THEN UNCHANGED <<tx, txOff, sent>>
       ELSE /\ tx' = Placed(frame)
            /\ txOff' = Len(Placed(frame)) - TxLen - Len(frame)
            /\ sent' = Append(sent, frame)
    /\ UNCHANGED <<hvars, rx, want, handed, onWire, over>>

\* The socket takes any part of what waits, or fails when the server is gone.
UdpTcpFlush ==
    /\ Open /\ TxLen > 0
    /\ \/ /\ \E n \in 1..TxLen :
                /\ onWire' = onWire \o SubSeq(tx, txOff + 1, txOff + n)
                /\ IF n = TxLen THEN tx' = <<>> /\ txOff' = 0
                                ELSE txOff' = txOff + n /\ UNCHANGED tx
          /\ UNCHANGED over
       \/ closed /\ over' = "eof" /\ UNCHANGED <<tx, txOff, onWire>>
    /\ UNCHANGED <<hvars, rx, want, handed, sent>>

Next ==
    \/ HNext /\ UNCHANGED engine
    \/ UdpTcpRead \/ UdpTcpFlush
    \/ \E n \in Sizes : UdpTcpAppend(n)

Spec == Init /\ [][Next]_vars

\* The worker, the clock and the engine go on: what is sent arrives.
FairSpec ==
    /\ Spec /\ WF_vars(Worker /\ UNCHANGED engine)
    /\ WF_vars(UdpTcpRead) /\ WF_vars(UdpTcpFlush)

-----------------------------------------------------------------------------
(* Properties.                                                             *)

TypeOK ==
    /\ HTypeOK
    /\ Len(rx) <= RxCap /\ want \in None..(RxCap - 2)
    /\ Len(tx) <= TxCap /\ txOff \in 0..Len(tx)
    /\ over \in {"no", "eof", "violation", "stuck"}

Legal(f) == f[1] * 256 + f[2] \in MinFrame..(RxCap - 2)

\* The engine's first byte is the first one behind the negotiation, and from
\* there on the server's datagrams come out whole and in order however TCP cuts
\* them up and however full the buffer is.
RepliesIntact ==
    cmd # 3 /\ event = "ok" =>
        \E n \in 0..Len(spoken) :
           /\ handed = [i \in 1..n |-> Rest(spoken[i], 2)]
           /\ over = "no" =>
                (IF want = None THEN <<>> ELSE <<want \div 256, want % 256>>) \o rx \o stream
                  = FlattenSeq(SubSeq(spoken, n + 1, Len(spoken)))

\* The engine ends a session only when the server has: not for a burst that
\* fills the buffer, and never because the buffer is full and nothing in it
\* can be taken.
OnlyServerEnds ==
    /\ over = "eof" => closed
    /\ over = "violation" => \E i \in DOMAIN spoken : ~Legal(spoken[i])
    /\ over # "stuck"

\* Datagrams of the App leave whole and in order, whatever the socket takes.
RequestsWhole == onWire \o Rest(tx, txOff) = FlattenSeq(sent)

\* Both ways at once, on top of the types.
DatagramsWhole == TypeOK /\ RepliesIntact /\ RequestsWhole

\* Every datagram of a server that keeps to the protocol and stays is handed on.
Handed(n) == Len(handed) >= n
RepliesArrive ==
    \A n \in 1..MaxPayloads :
        (Open /\ Len(spoken) >= n /\ \A i \in 1..n : Legal(spoken[i]))
            ~> (Handed(n) \/ over # "no" \/ ~running)

=============================================================================
