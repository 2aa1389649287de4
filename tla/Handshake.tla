------------------------------ MODULE Handshake ------------------------------
(***************************************************************************)
(* One SOCKS5 conversation: a handshake worker (tcp_connect_thread or      *)
(* udp_session_thread, with socks5_greet_auth and the send and receive     *)
(* loops of engine_util.c) and a server that answers, refuses, talks       *)
(* nonsense, falls silent or hangs up, over a byte stream that delivers in *)
(* pieces of any size.                                                     *)
(*                                                                         *)
(* The worker must take exactly the bytes of the negotiation, because what *)
(* follows belongs to the engine; and it must tell the service whose fault *)
(* a failure was, because the watchdog restarts the tunnel for one kind    *)
(* only.  TcpLife and UdpSess have the worker's stores and its sockets,    *)
(* this module what it says and hears.                                     *)
(***************************************************************************)
EXTENDS Naturals, Sequences, SequencesExt

CONSTANTS
    Kinds,        \* the conversations of this instance, of AllKinds
    DomainLens,   \* lengths of a domain the server may answer with
    Payloads,     \* what the server may send once it has granted the request
    MaxPayloads,  \* bound: how many of them
    Slices        \* slices of 100 ms a receive waits (10 s in the code)

\* "connect"     TCP CONNECT
\* "associate"   UDP ASSOCIATE
\* "udp_in_tcp"  the extension, with UDP ASSOCIATE to fall back on
AllKinds == {"connect", "associate", "udp_in_tcp"}

ASSUME HandshakeAssumption ==
    /\ Kinds \subseteq AllKinds /\ DomainLens \subseteq 0..255
    /\ MaxPayloads \in Nat /\ Slices \in Nat \ {0}
    /\ Payloads \subseteq Seq(0..255)

VARIABLES
    kind,      \* which conversation
    pc,        \* what the worker sends or reads next
    cmd,       \* the command of the request: 1 CONNECT, 3 ASSOCIATE, 4 UDP-in-TCP
    refused,   \* the server has refused UDP-in-TCP: fail_code is PROTOCOL_FAIL
    buf, need, \* what this receive has got, and how many bytes it still wants
    waited,    \* slices it has waited for the next byte
    event,     \* what the service was told
    running,   \* g.running
    inbox,     \* the message the server has not answered
    stream,    \* bytes the server has sent that are not read
    closed,    \* the server has hung up
    taken,     \* history: bytes that have been read on this connection
    verdict,   \* history: what the server's answers amount to, and by which byte
    spoken     \* history: the payloads it has sent

worker == <<kind, pc, cmd, refused, buf, need, waited, event>>
server == <<inbox, stream, closed, taken, verdict, spoken>>
hvars  == <<worker, running, server>>

Undecided == [what |-> "none", at |-> 0]

Command(k) == CASE k = "connect" -> 1 [] k = "associate" -> 3 [] k = "udp_in_tcp" -> 4

HInit ==
    /\ kind \in Kinds /\ cmd = Command(kind)
    /\ pc = "socket" /\ refused = FALSE /\ event = "none" /\ running = TRUE
    /\ buf = <<>> /\ need = 0 /\ waited = 0
    /\ inbox = "none" /\ stream = <<>> /\ closed = FALSE
    /\ taken = 0 /\ verdict = Undecided /\ spoken = <<>>

Least(a, b) == IF a <= b THEN a ELSE b
Rest(s, n)  == SubSeq(s, n + 1, Len(s))

-----------------------------------------------------------------------------
(* Sending, receiving, failing.                                            *)

\* Mutant: a refusal of UDP-in-TCP is forgotten.
BlameForgets(code) == code

\* fail_code: once the server has refused UDP-in-TCP it is known to be there,
\* so that only a rejected password is reported as something else.
Blame(code) == IF refused /\ code # "auth" THEN "protocol" ELSE code

\* The exit at "fail:"; the socket is released.
Fail(code) ==
    /\ pc' = "failed" /\ event' = code
    /\ inbox' = "none" /\ stream' = <<>> /\ closed' = TRUE
    /\ UNCHANGED <<kind, cmd, refused, buf, need, waited, running, taken, verdict, spoken>>

Unreachable == Fail(Blame("network"))
GoOn(next) == pc' = next /\ UNCHANGED <<kind, cmd, refused, buf, need, waited, event, running, server>>

\* net_recv_all and recv_all of n bytes, to be looked at in step next.
Await(next, n) ==
    /\ pc' = next /\ need' = n /\ buf' = <<>> /\ waited' = 0
    /\ UNCHANGED <<kind, cmd, event, running>>

\* net_send_all and send_all: the message goes out, or the server has hung up.
SendAndAwait(msg, next, n) ==
    \/ /\ inbox' = msg
       /\ Await(next, n)
       /\ UNCHANGED <<refused, stream, closed, taken, verdict, spoken>>
    \/ closed /\ Unreachable

Reading == pc \in {"greet", "reply", "head", "len", "addr"}

\* recv returns what has arrived, at most what is wanted.
Recv ==
    /\ Reading /\ need > 0
    /\ \E n \in 1..Least(need, Len(stream)) :
          /\ buf' = buf \o SubSeq(stream, 1, n)
          /\ stream' = Rest(stream, n)
          /\ need' = need - n /\ taken' = taken + n
    /\ waited' = 0
    /\ UNCHANGED <<kind, pc, cmd, refused, event, running, inbox, closed, verdict, spoken>>

HungUp == closed /\ stream = <<>>

RecvEof == Reading /\ need > 0 /\ HungUp /\ Unreachable

\* Mutant: every slice begins the wait anew.
WaitedAnew(w) == w

\* elapsed of recv_all, and the time SO_RCVTIMEO has left.
WaitedOn(w) == w + 1

\* wait_fd looks at g.running after each slice; the receive of a UDP worker is
\* blocking with SO_RCVTIMEO and does not.
TimedOut == waited + 1 = Slices
Noticed  == kind = "connect" /\ ~running

WaitSlice ==
    /\ Reading /\ need > 0
    /\ IF TimedOut \/ Noticed THEN Unreachable
       ELSE /\ waited' = WaitedOn(waited)
            /\ UNCHANGED <<kind, pc, cmd, refused, buf, need, event, running, server>>

Got(step) == pc = step /\ need = 0

-----------------------------------------------------------------------------
(* The worker.                                                             *)

\* request_java_socket: a protected socket connected to the server, or none.
OpenSocket ==
    /\ pc = "socket"
    /\ \/ Unreachable
       \/ ~running /\ Fail("none")
       \/ /\ running /\ pc' = "hello"
          /\ inbox' = "none" /\ stream' = <<>> /\ closed' = FALSE
          /\ taken' = 0 /\ verdict' = Undecided /\ spoken' = <<>>
          /\ UNCHANGED <<kind, cmd, refused, buf, need, waited, event, running>>

Hello == pc = "hello" /\ SendAndAwait("hello", "greet", 2)

\* socks5_classify_greet_reply.
Classify(r) ==
    CASE r[1] # 5               -> "not_socks5"
      [] r[1] = 5 /\ r[2] = 0   -> "no_auth"
      [] r[1] = 5 /\ r[2] = 2   -> "need_auth"
      [] OTHER                  -> "no_method"

Greet ==
    /\ Got("greet")
    /\ CASE Classify(buf) = "not_socks5" -> Fail("protocol")
         [] Classify(buf) = "no_method"  -> Fail("auth")
         [] Classify(buf) = "need_auth"  -> GoOn("auth")
         [] Classify(buf) = "no_auth"    -> GoOn("request")

Auth == pc = "auth" /\ SendAndAwait("auth", "reply", 2)

AuthReply ==
    /\ Got("reply")
    /\ IF buf = <<1, 0>> THEN GoOn("request") ELSE Fail("auth")

Request == pc = "request" /\ SendAndAwait("request", "head", 4)

\* socks5_atyp_bnd_len: address and port; 0 stands for "unknown".
BndLen(atyp) == CASE atyp = 1 -> 6 [] atyp = 4 -> 18 [] OTHER -> 0

\* The rest of the reply is read to its last byte; a name has its length in
\* front.  A UDP relay must be an address, and a refusal is only read past.
ReadBnd(atyp, names, giveUp) ==
    IF atyp = 3 /\ names THEN Await("len", 1) /\ UNCHANGED server
    ELSE IF BndLen(atyp) > 0 THEN Await("addr", BndLen(atyp)) /\ UNCHANGED server
    ELSE giveUp

Granted == buf[1] = 5 /\ buf[2] = 0
Refusal == buf[1] = 5 /\ buf[2] # 0

ReplyHead ==
    /\ Got("head")
    /\ \/ Granted /\ UNCHANGED refused /\ ReadBnd(buf[4], cmd = 1, Fail("protocol"))
       \/ /\ Refusal /\ cmd = 4
          /\ refused' = TRUE
          /\ ReadBnd(buf[4], TRUE, Await("again", 0) /\ UNCHANGED server)
       \/ (buf[1] # 5 \/ (Refusal /\ cmd # 4)) /\ Fail("protocol")

DomainLen == Got("len") /\ Await("addr", buf[1] + 2) /\ UNCHANGED <<refused, server>>

Eating == refused /\ cmd = 4

Addr ==
    /\ Got("addr")
    /\ GoOn(IF Eating THEN "again" ELSE IF cmd = 3 THEN "relay" ELSE "register")

\* The refused connection is given up for a new one and UDP ASSOCIATE.
Again ==
    /\ pc = "again"
    /\ pc' = "socket" /\ cmd' = 3
    /\ UNCHANGED <<kind, refused, buf, need, waited, event, running, server>>

\* The UDP socket of the relay.
RelaySocket ==
    /\ pc = "relay"
    /\ \/ Unreachable
       \/ running /\ GoOn("register")
       \/ ~running /\ Fail("none")

\* The session is handed to the engine.  A UDP worker looks at g.running once
\* more; a socket that cannot be registered fails a UDP session, and a TCP
\* session without a word.
Register ==
    /\ pc = "register"
    /\ \/ /\ kind = "connect" \/ running
          /\ pc' = "done" /\ event' = "ok"
          /\ UNCHANGED <<kind, cmd, refused, buf, need, waited, running, server>>
       \/ kind # "connect" /\ Unreachable
       \/ kind = "connect" /\ Fail("none")

Worker ==
    \/ OpenSocket \/ Hello \/ Greet \/ Auth \/ AuthReply \/ Request \/ ReplyHead \/ DomainLen
    \/ Addr \/ Again \/ RelaySocket \/ Register \/ Recv \/ RecvEof \/ WaitSlice

-----------------------------------------------------------------------------
(* The server and the stop.                                                *)

Bytes(n) == [i \in 1..n |-> 9]

\* A reply to a request: BND as the address type has it, one it does not have.
Bnds == {<<1>> \o Bytes(6), <<4>> \o Bytes(18), <<9>>}
          \cup {<<3, n>> \o Bytes(n + 2) : n \in DomainLens}

NotSocks == <<72, 84, 84, 80>>

Answers(msg) ==
    CASE msg = "hello"   -> {<<5, 0>>, <<5, 2>>, <<5, 255>>, NotSocks}
      [] msg = "auth"    -> {<<1, 0>>, <<1, 1>>, NotSocks}
      [] msg = "request" -> {<<5, rep, 0>> \o bnd : rep \in {0, 4}, bnd \in Bnds} \cup {NotSocks}

\* What an answer amounts to, by the RFCs and by what a relay address can be;
\* the byte that settles it counted from the first of this answer.
Decides(msg, a) ==
    CASE msg = "hello" /\ a = <<5, 255>> -> [what |-> "auth", at |-> 2]
      [] msg = "hello" /\ a = NotSocks   -> [what |-> "protocol", at |-> 2]
      [] msg = "auth" /\ a # <<1, 0>>    -> [what |-> "auth", at |-> 2]
      [] msg = "request" /\ (a = NotSocks \/ a[2] # 0 \/ a[4] = 9 \/ (a[4] = 3 /\ cmd # 1))
                                         -> [what |-> "protocol", at |-> 4]
      [] msg = "request" /\ a # NotSocks /\ a[2] = 0 /\ (a[4] \in {1, 4} \/ (a[4] = 3 /\ cmd = 1))
                                         -> [what |-> "granted", at |-> Len(a)]
      [] OTHER                           -> Undecided

Answer ==
    /\ inbox # "none" /\ ~closed
    /\ \E a \in Answers(inbox) :
          /\ stream' = stream \o a
          /\ LET d == Decides(inbox, a) IN
             verdict' = IF d = Undecided THEN d
                        ELSE [d EXCEPT !.at = @ + taken + Len(stream)]
    /\ inbox' = "none"
    /\ UNCHANGED <<worker, running, closed, taken, spoken>>

\* What the server sends on a connection that is now a tunnel may follow its
\* reply in the same segment.
Speak ==
    /\ verdict.what = "granted" /\ cmd # 3 /\ ~closed /\ Len(spoken) < MaxPayloads
    /\ \E p \in Payloads :
          stream' = stream \o p /\ spoken' = Append(spoken, p)
    /\ UNCHANGED <<worker, running, inbox, closed, taken, verdict>>

HangUp ==
    /\ pc # "socket" /\ ~closed /\ closed' = TRUE
    /\ UNCHANGED <<worker, running, inbox, stream, taken, verdict, spoken>>

Stop == running /\ running' = FALSE /\ UNCHANGED <<worker, server>>

Server == Answer \/ Speak \/ HangUp

HNext == Worker \/ Server \/ Stop

HSpec == HInit /\ [][HNext]_hvars

\* The worker and the clock go on; nothing is asked of the server.
HFairSpec == HSpec /\ WF_hvars(Worker)

-----------------------------------------------------------------------------
(* Properties.                                                             *)

Steps == {"socket", "hello", "greet", "auth", "reply", "request", "head", "len", "addr",
          "again", "relay", "register", "done", "failed"}

HTypeOK ==
    /\ kind \in Kinds /\ cmd \in {1, 3, 4} /\ pc \in Steps
    /\ {refused, running, closed} \subseteq BOOLEAN
    /\ need \in 0..257 /\ waited \in 0..(Slices - 1) /\ taken \in Nat
    /\ event \in {"none", "ok", "network", "auth", "protocol"}
    /\ inbox \in {"none", "hello", "auth", "request"}

Ended == pc \in {"done", "failed"}

\* The service is told whose fault it was.  A success is one the server has
\* granted.  What it plainly refused is never counted as a network failure,
\* which restarts the tunnel, and after its refusal of UDP-in-TCP nothing is;
\* and a refusal is only reported when there was one.
Settled(what) == verdict.what = what /\ taken >= verdict.at

BlameIsRight ==
    /\ event = "ok"       => Settled("granted")
    /\ event = "auth"     => Settled("auth")
    /\ event = "protocol" => Settled("protocol") \/ refused
    /\ event = "network" /\ running => ~Settled("auth") /\ ~Settled("protocol") /\ ~refused

\* jni_bridge.h:18 has SE_EVENT_NONE for a conversation that a stop cuts short.
StopNotBlamed == event = "network" => running

\* Whatever the server does, the worker is done with it some day.
Ends == <>Ended

=============================================================================
