------------------------------ MODULE TcpLife ------------------------------
(***************************************************************************)
(* The life of a TCP session object in the native engine (tcp_sess.c,      *)
(* tun_socks.c, hs_pool.c): who may touch it, who owns its socket, and     *)
(* when its memory is given back.                                          *)
(*                                                                         *)
(* Three kinds of thread share the sessions.  The engine thread runs the   *)
(* epoll loop and alone changes the hash table and the graveyard.  A pool  *)
(* of workers runs tcp_connect_thread, one atomic access to a shared field *)
(* per step.  Java threads ask for a soft reconnect or a stop.             *)
(*                                                                         *)
(* The bytes of a connection are the business of TcpStream; here the data  *)
(* path is only the choice whether a handler closes the session.           *)
(***************************************************************************)
EXTENDS Integers, Sequences, FiniteSets

CONSTANTS
    Slots,        \* memory for tcp_sess_t objects: addresses calloc can return
    Keys,         \* App endpoints (source address and port)
    Workers,      \* threads of the handshake pool
    Fds,          \* file descriptor numbers
    Hosts,        \* addresses g.srv_host takes over time
    None,
    MaxTcp,       \* MAX_TCP_SESSIONS
    SweepCap,     \* the 128 entries of tcp_sweep's array
    GcCap,        \* the MAX_EVENTS entries of tcp_idle_gc's array
    RemoteDns,    \* g.remote_dns: port-53 connections are answered locally
    JobAllocFails, \* may malloc of an hs_job_t fail?
    Reconnects    \* does Java ever reconnect? (FALSE bounds an instance)

ASSUME TcpLifeAssumption ==
    /\ IsFiniteSet(Slots) /\ None \notin Slots \cup Fds \cup Hosts
    /\ Slots \cap {"tun", "kick", "shutdown"} = {}
    /\ MaxTcp \in Nat /\ SweepCap \in Nat \ {0} /\ GcCap \in Nat \ {0}
    /\ RemoteDns \in BOOLEAN /\ JobAllocFails \in BOOLEAN /\ Reconnects \in BOOLEAN

\* hs_pool_start makes as many threads as pthread_create lets it, here at
\* least one.
ASSUME PoolAssumption == IsFiniteSet(Workers) /\ Workers # {}

VARIABLES
    sess,     \* the session object in each slot
    count,    \* g.tcp_session_count
    queue,    \* hs_head .. hs_tail: sessions waiting for a worker
    wpc, wjob, wfd,   \* per worker: where it is, its session, its local sfd
    inflight, \* g.handshake_inflight
    poolOn,   \* g.hs_running
    open,     \* descriptors of protected sockets Java has not released
    epoll,    \* epoll interest list: the session registered for a descriptor
    kick,     \* a byte is waiting in the kick pipe
    epc,      \* where the engine thread is
    batch,    \* events of this round not handled yet
    running,  \* g.running
    stop,     \* tun_socks_stop: not called, running cleared, pipe written
    tunOpen,  \* g.tun_fd >= 0
    srvHost,  \* g.srv_host
    reset,    \* g_reset_requested
    rpc       \* where the Java thread inside tun_socks_reconnect is

poolVars == <<queue, wpc, wjob, wfd, inflight, poolOn>>
fdVars   == <<open, epoll>>
engVars  == <<epc, batch, running, stop, tunOpen>>
cfgVars  == <<srvHost, reset, rpc>>
vars     == <<sess, count, poolVars, fdVars, kick, engVars, cfgVars>>

Places == {"free", "hash", "grave"}

Session ==
    [place: Places, key: Keys \cup {None}, closed: BOOLEAN, state: {0, 1},
     failed: BOOLEAN, done: BOOLEAN, fd: Fds \cup {None},
     peer: Hosts \cup {None}]

Blank == [place |-> "free", key |-> None, closed |-> FALSE, state |-> 0,
          failed |-> FALSE, done |-> FALSE, fd |-> None, peer |-> None]

InHash(s) == sess[s].place = "hash"
Live(s)   == InHash(s) /\ ~sess[s].closed
Alloc     == {s \in Slots : sess[s].place # "free"}

\* Items an epoll round can report: the TUN, the two pipes, a server socket.
Items == {"tun", "kick", "shutdown"} \cup Slots

WPCs == {"idle", "snap", "sock", "hs", "store", "ready", "add", "fail",
         "kick", "done", "dec", "exited"}

EPCs == {"top", "reset", "wait", "batch", "tun", "flush", "collect",
         "closing", "drain", "join", "stopped"}

Init ==
    /\ sess = [s \in Slots |-> Blank]
    /\ count = 0
    /\ queue = <<>>
    /\ wpc = [w \in Workers |-> "idle"]
    /\ wjob = [w \in Workers |-> None]
    /\ wfd = [w \in Workers |-> None]
    /\ inflight = 0
    /\ poolOn = TRUE
    /\ open = {}
    /\ epoll = [f \in Fds |-> None]
    /\ kick = FALSE
    /\ epc = "top"
    /\ batch = {}
    /\ running = TRUE
    /\ stop = "no"
    /\ tunOpen = TRUE
    /\ srvHost \in Hosts
    /\ reset = FALSE
    /\ rpc = "idle"

-----------------------------------------------------------------------------
(* Freeing: the two phases of the engine thread.                           *)

\* The sessions S as tcp_session_destroy leaves them: closed, unlinked from
\* the hash, parked in the graveyard whatever the worker is doing.
tcp_session_destroy(S) ==
    [s \in Slots |-> IF s \in S
                     THEN [sess[s] EXCEPT !.closed = TRUE, !.place = "grave"]
                     ELSE sess[s]]

\* Mutant: the collector forgets that a worker may still be running.
MayFreeAtOnce(r) == r.place = "grave"

\* A parked session goes only when its worker has finished with it.
MayFree(r) == r.place = "grave" /\ r.done

\* tcp_graveyard_collect, run on the table st: leave epoll, release the
\* socket, free the memory, give the session back to the counter.
tcp_graveyard_collect(st) ==
    LET F == {s \in Slots : MayFree(st[s])}
        dead == {st[s].fd : s \in F}
    IN /\ sess' = [s \in Slots |-> IF s \in F THEN Blank ELSE st[s]]
       /\ count' = count - Cardinality(F)
       /\ open' = open \ dead
       /\ epoll' = [f \in Fds |-> IF f \in dead THEN None ELSE epoll[f]]

-----------------------------------------------------------------------------
(* hs_pool.c and tcp_connect_thread.                                       *)

WGoto(w, pc) == wpc' = [wpc EXCEPT ![w] = pc]

WTake(w) ==
    /\ wpc[w] = "idle" /\ queue # <<>>
    /\ WGoto(w, "snap")
    /\ wjob' = [wjob EXCEPT ![w] = Head(queue)]
    /\ queue' = Tail(queue)
    /\ UNCHANGED <<sess, count, wfd, inflight, poolOn, fdVars, kick, engVars, cfgVars>>

\* After hs_pool_stop a worker leaves, but only once the queue is empty.
WExit(w) ==
    /\ wpc[w] = "idle" /\ ~poolOn /\ queue = <<>>
    /\ WGoto(w, "exited")
    /\ UNCHANGED <<sess, count, queue, wjob, wfd, inflight, poolOn, fdVars, kick, engVars, cfgVars>>

\* srv_snapshot: from here on this session talks to the host read now.
WSnapshot(w) ==
    /\ wpc[w] = "snap"
    /\ WGoto(w, "sock")
    /\ sess' = [sess EXCEPT ![wjob[w]].peer = srvHost]
    /\ UNCHANGED <<count, queue, wjob, wfd, inflight, poolOn, fdVars, kick, engVars, cfgVars>>

\* request_java_socket: Java opens and protects a socket, or fails; then
\* g.running is looked at before the handshake.
WSocket(w) ==
    /\ wpc[w] = "sock"
    /\ \/ \E f \in Fds \ open :
            /\ open' = open \cup {f}
            /\ wfd' = [wfd EXCEPT ![w] = f]
            /\ WGoto(w, IF running THEN "hs" ELSE "fail")
       \/ /\ WGoto(w, "fail")
          /\ UNCHANGED <<open, wfd>>
    /\ UNCHANGED <<sess, count, queue, wjob, inflight, poolOn, epoll, kick, engVars, cfgVars>>

\* Greeting, authentication and CONNECT: accepted, refused, or timed out.
WHandshake(w) ==
    /\ wpc[w] = "hs"
    /\ WGoto(w, "store") \/ WGoto(w, "fail")
    /\ UNCHANGED <<sess, count, queue, wjob, wfd, inflight, poolOn, fdVars, kick, engVars, cfgVars>>

\* atomic_store(&sess->srv_fd, sfd): the socket now belongs to the session.
WStoreFd(w) ==
    /\ wpc[w] = "store"
    /\ WGoto(w, "ready")
    /\ sess' = [sess EXCEPT ![wjob[w]].fd = wfd[w]]
    /\ wfd' = [wfd EXCEPT ![w] = None]
    /\ UNCHANGED <<count, queue, wjob, inflight, poolOn, fdVars, kick, engVars, cfgVars>>

\* Mutant: thread_done is announced with the state, before the epoll ADD.
WStoreReadyDone(w) ==
    /\ wpc[w] = "ready"
    /\ WGoto(w, "add")
    /\ sess' = [sess EXCEPT ![wjob[w]].state = 1, ![wjob[w]].done = TRUE]
    /\ UNCHANGED <<count, queue, wjob, wfd, inflight, poolOn, fdVars, kick, engVars, cfgVars>>

WStoreReady(w) ==
    /\ wpc[w] = "ready"
    /\ WGoto(w, "add")
    /\ sess' = [sess EXCEPT ![wjob[w]].state = 1]
    /\ UNCHANGED <<count, queue, wjob, wfd, inflight, poolOn, fdVars, kick, engVars, cfgVars>>

\* EPOLL_CTL_ADD; when it fails the session is marked failed instead.
WAdd(w) ==
    /\ wpc[w] = "add"
    /\ \/ /\ epoll' = [epoll EXCEPT ![sess[wjob[w]].fd] = wjob[w]]
          /\ WGoto(w, "kick")
          /\ UNCHANGED sess
       \/ /\ sess' = [sess EXCEPT ![wjob[w]].failed = TRUE]
          /\ WGoto(w, "kick")
          /\ UNCHANGED epoll
    /\ UNCHANGED <<count, queue, wjob, wfd, inflight, poolOn, open, kick, engVars, cfgVars>>

\* Mutant: the socket of a refused handshake is forgotten.
WFailLeak(w) ==
    /\ wpc[w] = "fail"
    /\ WGoto(w, "kick")
    /\ wfd' = [wfd EXCEPT ![w] = None]
    /\ sess' = [sess EXCEPT ![wjob[w]].failed = TRUE]
    /\ UNCHANGED <<count, queue, wjob, inflight, poolOn, fdVars, kick, engVars, cfgVars>>

\* The fail label: a socket not stored yet is released, then the session is
\* marked for the engine to sweep.
WFail(w) ==
    /\ wpc[w] = "fail"
    /\ WGoto(w, "kick")
    /\ open' = open \ {wfd[w]}
    /\ wfd' = [wfd EXCEPT ![w] = None]
    /\ sess' = [sess EXCEPT ![wjob[w]].failed = TRUE]
    /\ UNCHANGED <<count, queue, wjob, inflight, poolOn, epoll, kick, engVars, cfgVars>>

WKick(w) ==
    /\ wpc[w] = "kick"
    /\ WGoto(w, "done")
    /\ kick' = TRUE
    /\ UNCHANGED <<sess, count, queue, wjob, wfd, inflight, poolOn, fdVars, engVars, cfgVars>>

\* Mutant: the failure path returns without setting thread_done.
WDoneOnSuccess(w) ==
    /\ wpc[w] = "done"
    /\ WGoto(w, "dec")
    /\ sess' = [sess EXCEPT ![wjob[w]].done = ~sess[wjob[w]].failed]
    /\ wjob' = [wjob EXCEPT ![w] = None]
    /\ UNCHANGED <<count, queue, wfd, inflight, poolOn, fdVars, kick, engVars, cfgVars>>

\* thread_done: the last time the worker touches the session.
WDone(w) ==
    /\ wpc[w] = "done"
    /\ WGoto(w, "dec")
    /\ sess' = [sess EXCEPT ![wjob[w]].done = TRUE]
    /\ wjob' = [wjob EXCEPT ![w] = None]
    /\ UNCHANGED <<count, queue, wfd, inflight, poolOn, fdVars, kick, engVars, cfgVars>>

WDec(w) ==
    /\ wpc[w] = "dec"
    /\ WGoto(w, "idle")
    /\ inflight' = inflight - 1
    /\ UNCHANGED <<sess, count, queue, wjob, wfd, poolOn, fdVars, kick, engVars, cfgVars>>

Worker(w) ==
    \/ WTake(w) \/ WExit(w) \/ WSnapshot(w) \/ WSocket(w) \/ WHandshake(w)
    \/ WStoreFd(w) \/ WStoreReady(w) \/ WAdd(w) \/ WFail(w) \/ WKick(w)
    \/ WDone(w) \/ WDec(w)


-----------------------------------------------------------------------------
(* Packets from the App: the part of tcp_handle_packet that creates or     *)
(* closes sessions.                                                        *)

\* The lookup of tcp_handle_packet: the session that takes k's packets.
\* Mutant first: it steps over sessions whose connect has failed.
SessionOfHealthy(k) == {s \in Slots : Live(s) /\ sess[s].key = k /\ ~sess[s].failed}

SessionOf(k) == {s \in Slots : Live(s) /\ sess[s].key = k}

\* Mutant: thread_done is left clear, as it once was.
DnsSessionNotDone(k) ==
    [Blank EXCEPT !.place = "hash", !.key = k, !.state = 1]

\* A connection to port 53 under Remote DNS has no worker, so it is born
\* with thread_done set.
DnsSession(k) ==
    [Blank EXCEPT !.place = "hash", !.key = k, !.state = 1, !.done = TRUE]

\* Mutant: srv_fd keeps calloc's zero, a descriptor nobody opened.
NewSessionFdZero(k) == [Blank EXCEPT !.place = "hash", !.key = k, !.fd = 0]

NewSession(k) == [Blank EXCEPT !.place = "hash", !.key = k]

\* hs_submit refuses only when the pool is off or the job cannot be allocated.
hs_submit(s) ==
    /\ poolOn
    /\ queue' = Append(queue, s)
    /\ inflight' = inflight + 1

SubmitFails == /\ ~poolOn \/ JobAllocFails
               /\ UNCHANGED <<queue, inflight>>

\* SYN on an endpoint with no session, or with one whose connect failed:
\* that one is closed first.  A full table answers RST.
TunSyn(k) ==
    LET old == SessionOf(k)
        st  == tcp_session_destroy(old)
    IN /\ epc = "tun"
       /\ \A s \in old : sess[s].failed
       /\ IF count >= MaxTcp
          THEN sess' = st /\ UNCHANGED <<count, queue, inflight>>
          ELSE \E s \in Slots \ Alloc :
                 /\ count' = count + 1
                 /\ \/ /\ RemoteDns
                       /\ sess' = [st EXCEPT ![s] = DnsSession(k)]
                       /\ UNCHANGED <<queue, inflight>>
                    \/ /\ hs_submit(s)
                       /\ sess' = [st EXCEPT ![s] = NewSession(k)]
                    \/ /\ SubmitFails
                       /\ sess' = [st EXCEPT ![s] = [NewSession(k) EXCEPT
                                        !.closed = TRUE, !.place = "grave"]]
       /\ UNCHANGED <<wpc, wjob, wfd, poolOn, fdVars, kick, engVars, cfgVars>>

\* RST, a segment after our FIN, or a FIN once the server side has drained.
TunClose(s) ==
    /\ epc = "tun" /\ Live(s) /\ ~sess[s].failed
    /\ sess' = tcp_session_destroy({s})
    /\ UNCHANGED <<count, poolVars, fdVars, kick, engVars, cfgVars>>

\* app_buf_accept finds the server socket dead while making room: the
\* session is marked closed and stays in the hash for tcp_idle_gc.
TunFatal(s) ==
    /\ epc = "tun" /\ Live(s) /\ ~sess[s].failed /\ sess[s].fd # None
    /\ sess' = [sess EXCEPT ![s].closed = TRUE]
    /\ UNCHANGED <<count, poolVars, fdVars, kick, engVars, cfgVars>>

-----------------------------------------------------------------------------
(* The epoll loop.                                                         *)

EGoto(pc) == epc' = pc

EngTop ==
    /\ epc = "top"
    /\ IF ~running THEN EGoto("closing") /\ UNCHANGED reset
       ELSE /\ EGoto(IF reset THEN "reset" ELSE "wait")
            /\ reset' = FALSE
    /\ UNCHANGED <<sess, count, poolVars, fdVars, kick, batch, running, stop, tunOpen, srvHost, rpc>>

\* Mutant: the reset also clears handshake_inflight.
EngSoftResetClears ==
    /\ epc = "reset"
    /\ tcp_graveyard_collect(tcp_session_destroy({s \in Slots : InHash(s)}))
    /\ EGoto("wait")
    /\ inflight' = 0
    /\ UNCHANGED <<queue, wpc, wjob, wfd, poolOn, kick, batch, running, stop, tunOpen, cfgVars>>

\* Mutant: sessions still connecting are left to their workers.
EngSoftResetReady ==
    /\ epc = "reset"
    /\ tcp_graveyard_collect(tcp_session_destroy({s \in Slots : InHash(s) /\ sess[s].state = 1}))
    /\ EGoto("wait")
    /\ UNCHANGED <<poolVars, kick, batch, running, stop, tunOpen, cfgVars>>

\* engine_soft_reset: every session is closed (RST to the App) and parked;
\* the counters are left to the two-phase release.
EngSoftReset ==
    /\ epc = "reset"
    /\ tcp_graveyard_collect(tcp_session_destroy({s \in Slots : InHash(s)}))
    /\ EGoto("wait")
    /\ UNCHANGED <<poolVars, kick, batch, running, stop, tunOpen, cfgVars>>

\* epoll_wait is level-triggered: a written pipe is always reported, the
\* TUN and the server sockets when they have something to say.
EngWait ==
    /\ epc = "wait"
    /\ LET must == (IF kick THEN {"kick"} ELSE {})
                      \cup (IF stop = "sent" THEN {"shutdown"} ELSE {})
           may  == {"tun"} \cup ({epoll[f] : f \in Fds} \ {None})
       IN \E B \in SUBSET may : batch' = must \cup B
    /\ EGoto("batch")
    /\ UNCHANGED <<sess, count, poolVars, fdVars, kick, running, stop, tunOpen, cfgVars>>

\* epoll_wait fails for good: the engine stops on its own.
EngWaitError ==
    /\ epc = "wait"
    /\ running' = FALSE
    /\ EGoto("closing")
    /\ UNCHANGED <<sess, count, poolVars, fdVars, kick, batch, stop, tunOpen, cfgVars>>

EngTun ==
    /\ epc = "batch" /\ "tun" \in batch
    /\ batch' = batch \ {"tun"}
    /\ EGoto("tun")
    /\ UNCHANGED <<sess, count, poolVars, fdVars, kick, running, stop, tunOpen, cfgVars>>

\* read_tun_packets meets EAGAIN.
EngTunEnd ==
    /\ epc = "tun"
    /\ EGoto("flush")
    /\ UNCHANGED <<sess, count, poolVars, fdVars, kick, batch, running, stop, tunOpen, cfgVars>>

\* As many as fit the array, in hash order: any cap of them.
UpTo(cap, S) ==
    {G \in SUBSET S : Cardinality(G) = IF Cardinality(S) < cap THEN Cardinality(S) ELSE cap}

\* The kick pipe is drained, then tcp_sweep removes sessions whose connect failed.
EngKick ==
    /\ epc = "batch" /\ "kick" \in batch
    /\ batch' = batch \ {"kick"}
    /\ kick' = FALSE
    /\ \E G \in UpTo(SweepCap, {s \in Slots : Live(s) /\ sess[s].failed}) :
          sess' = tcp_session_destroy(G)
    /\ EGoto("flush")
    /\ UNCHANGED <<count, poolVars, fdVars, running, stop, tunOpen, cfgVars>>

\* tcp_flush_all: a session whose server socket is dead is destroyed.
EngFlush ==
    /\ epc = "flush"
    /\ \E S \in SUBSET {s \in Slots : Live(s) /\ sess[s].state = 1 /\ sess[s].fd # None} :
          sess' = tcp_session_destroy(S)
    /\ EGoto("batch")
    /\ UNCHANGED <<count, poolVars, fdVars, kick, batch, running, stop, tunOpen, cfgVars>>

\* tcp_handle_event: nothing for a closed session, else it may close it.
EngEvent(s) ==
    /\ epc = "batch" /\ s \in batch
    /\ batch' = batch \ {s}
    /\ \/ UNCHANGED sess
       \/ /\ Live(s) /\ sess[s].state = 1 /\ sess[s].fd # None
          /\ sess' = tcp_session_destroy({s})
    /\ UNCHANGED <<count, poolVars, fdVars, kick, epc, running, stop, tunOpen, cfgVars>>

EngShutdown ==
    /\ epc = "batch" /\ "shutdown" \in batch
    /\ batch' = {}
    /\ EGoto("closing")
    /\ UNCHANGED <<sess, count, poolVars, fdVars, kick, running, stop, tunOpen, cfgVars>>

\* tcp_idle_gc, every five seconds: idle sessions, failed ones, and those
\* closed but still in the hash.
EngGc ==
    /\ epc = "batch" /\ batch = {}
    /\ \E I \in SUBSET {s \in Slots : Live(s) /\ sess[s].state = 1} :
       \E G \in UpTo(GcCap, I \cup {s \in Slots : InHash(s) /\ (sess[s].closed \/ sess[s].failed)}) :
          sess' = tcp_session_destroy(G)
    /\ EGoto("collect")
    /\ UNCHANGED <<count, poolVars, fdVars, kick, batch, running, stop, tunOpen, cfgVars>>

EngNoGc ==
    /\ epc = "batch" /\ batch = {}
    /\ EGoto("collect")
    /\ UNCHANGED <<sess, count, poolVars, fdVars, kick, batch, running, stop, tunOpen, cfgVars>>

EngCollect ==
    /\ epc = "collect"
    /\ tcp_graveyard_collect(sess)
    /\ EGoto("top")
    /\ UNCHANGED <<poolVars, kick, batch, running, stop, tunOpen, cfgVars>>

EngCloseTun ==
    /\ epc = "closing"
    /\ tunOpen' = FALSE
    /\ EGoto("drain")
    /\ UNCHANGED <<sess, count, poolVars, fdVars, kick, batch, running, stop, cfgVars>>

\* Mutant: hs_pool_stop joins without clearing hs_running.
EngStopPoolStillOn ==
    /\ epc = "drain"
    /\ EGoto("join")
    /\ UNCHANGED <<sess, count, poolVars, fdVars, kick, batch, running, stop, tunOpen, cfgVars>>

\* The wait for handshake_inflight = 0 gives up after five seconds, so
\* hs_pool_stop may run with handshakes still under way.
EngStopPool ==
    /\ epc = "drain"
    /\ poolOn' = FALSE
    /\ EGoto("join")
    /\ UNCHANGED <<sess, count, queue, wpc, wjob, wfd, inflight, fdVars, kick, batch, running, stop, tunOpen, cfgVars>>

\* All workers joined: tcp_shutdown_collect, then the engine thread ends.
EngJoin ==
    /\ epc = "join"
    /\ \A w \in Workers : wpc[w] = "exited"
    /\ tcp_graveyard_collect(tcp_session_destroy({s \in Slots : InHash(s)}))
    /\ EGoto("stopped")
    /\ UNCHANGED <<poolVars, kick, batch, running, stop, tunOpen, cfgVars>>

\* What the engine thread does by itself, as opposed to what arrives.
EngineStep ==
    \/ EngTop \/ EngSoftReset \/ EngWait \/ EngTun \/ EngTunEnd \/ EngKick
    \/ EngFlush \/ (\E s \in Slots : EngEvent(s)) \/ EngShutdown \/ EngGc
    \/ EngNoGc \/ EngCollect \/ EngCloseTun \/ EngStopPool \/ EngJoin

-----------------------------------------------------------------------------
(* Java threads.                                                           *)

\* tun_socks_reconnect, with a new address or, h = srvHost, with none.
RcUpdateHost(h) ==
    /\ Reconnects /\ rpc = "idle" /\ running
    /\ srvHost' = h
    /\ rpc' = "flag"
    /\ UNCHANGED <<sess, count, poolVars, fdVars, kick, engVars, reset>>

RcFlag ==
    /\ rpc = "flag"
    /\ reset' = TRUE
    /\ rpc' = "kick"
    /\ UNCHANGED <<sess, count, poolVars, fdVars, kick, engVars, srvHost>>

RcKick ==
    /\ rpc = "kick"
    /\ kick' = TRUE
    /\ rpc' = "idle"
    /\ UNCHANGED <<sess, count, poolVars, fdVars, engVars, srvHost, reset>>

\* tun_socks_stop up to the join.
StopClear ==
    /\ running /\ stop = "no"
    /\ running' = FALSE
    /\ stop' = "cleared"
    /\ UNCHANGED <<sess, count, poolVars, fdVars, kick, epc, batch, tunOpen, cfgVars>>

StopSignal ==
    /\ stop = "cleared"
    /\ stop' = "sent"
    /\ UNCHANGED <<sess, count, poolVars, fdVars, kick, epc, batch, running, tunOpen, cfgVars>>

Java == (\E h \in Hosts : RcUpdateHost(h)) \/ RcFlag \/ RcKick \/ StopClear \/ StopSignal

Stopped == epc = "stopped" /\ rpc = "idle" /\ stop # "cleared" /\ UNCHANGED vars

Next ==
    \/ \E w \in Workers : Worker(w)
    \/ \E k \in Keys : TunSyn(k)
    \/ \E s \in Slots : TunClose(s) \/ TunFatal(s)
    \/ EngineStep
    \/ EngWaitError
    \/ Java
    \/ Stopped

Spec == Init /\ [][Next]_vars

\* Every thread keeps running; the handshake has a timeout, the TUN runs dry
\* from time to time, five seconds pass again and again, and whoever began
\* a reconnect or a stop finishes the call.
Fairness ==
    /\ \A w \in Workers : WF_vars(Worker(w))
    /\ WF_vars(EngineStep)
    /\ WF_vars(EngTunEnd)
    /\ SF_vars(EngGc)
    /\ WF_vars(RcFlag \/ RcKick)
    /\ WF_vars(StopSignal)

FairSpec == Spec /\ Fairness

-----------------------------------------------------------------------------
(* Properties.                                                             *)

Queued == {queue[i] : i \in DOMAIN queue}
Jobs   == {wjob[w] : w \in Workers} \ {None}
InUse  == Queued \cup Jobs

TypeOK ==
    /\ sess \in [Slots -> Session]
    /\ count \in Int /\ inflight \in Int
    /\ queue \in Seq(Slots)
    /\ wpc \in [Workers -> WPCs]
    /\ wjob \in [Workers -> Slots \cup {None}]
    /\ wfd \in [Workers -> Fds \cup {None}]
    /\ poolOn \in BOOLEAN /\ running \in BOOLEAN /\ tunOpen \in BOOLEAN
    /\ kick \in BOOLEAN /\ reset \in BOOLEAN
    /\ open \subseteq Fds
    /\ epoll \in [Fds -> Slots \cup {None}]
    /\ epc \in EPCs /\ batch \subseteq Items
    /\ stop \in {"no", "cleared", "sent"}
    /\ srvHost \in Hosts
    /\ rpc \in {"idle", "flag", "kick"}

\* No thread, queued job, epoll registration or undelivered event refers to
\* a session that has been freed: the reason tcp_session_destroy only parks.
NoUseAfterFree ==
    /\ \A s \in InUse \cup (batch \cap Slots) : sess[s].place # "free"
    /\ \A f \in Fds : epoll[f] # None =>
          sess[epoll[f]].place # "free" /\ sess[epoll[f]].fd = f

\* Every socket Java still holds open has exactly one holder, a worker that
\* has not stored it or a session that will release it, and nobody holds a
\* descriptor that is no longer his: no leak, no second release.
Holders(f) == {w \in Workers : wfd[w] = f} \cup {s \in Slots : sess[s].fd = f}

SocketOwnership ==
    \A f \in Fds : Cardinality(Holders(f)) = IF f \in open THEN 1 ELSE 0

\* The counters behind the MAX_TCP_SESSIONS cap and the shutdown wait are
\* exact although engine and workers update them at different times, and a
\* soft reset must not clear them.
CountersExact ==
    /\ count = Cardinality(Alloc) /\ count <= MaxTcp
    /\ inflight = Len(queue) + Cardinality({w \in Workers : wpc[w] \notin {"idle", "exited"}})

\* An App endpoint never has two sessions that both take its packets.
OneLivePerEndpoint ==
    \A s, t \in Slots : Live(s) /\ Live(t) /\ sess[s].key = sess[t].key => s = t

\* After a reconnect no session keeps talking to the old server address:
\* one that does is about to be reset, or the engine is going down.
ResetComing == rpc = "flag" \/ reset \/ epc = "reset"

NoStaleServer ==
    \A s \in Slots : Live(s) /\ sess[s].peer \notin {None, srvHost}
                        => ResetComing \/ ~running

\* A stop leaves nothing behind, even when the five-second wait ran out:
\* no session, socket, registration or job survives the engine thread. The
\* comment at tcp_sess.c:750-751 says otherwise (see TimedOutStays): it leaves
\* out that hs_pool_stop (tun_socks.c:270) joins every worker before
\* tcp_shutdown_collect, so that the last collection finds all sessions done.
CleanStop ==
    epc = "stopped" => /\ Alloc = {} /\ open = {} /\ queue = <<>>
                       /\ count = 0 /\ inflight = 0
                       /\ \A f \in Fds : epoll[f] = None

\* The sessions add up while the engine runs and after it has stopped.
BooksBalance == CountersExact /\ CleanStop

\* A session that still waits for thread_done has a job that will set it.
\* The two-phase release depends on it: without one the session stays in
\* the graveyard and in the session count for ever.
SomeoneWillFinish ==
    \A s \in Alloc : ~sess[s].done => s \in InUse

\* The engine and its workers implement the two-phase release.
Stage == [s \in Slots |-> CASE sess[s].place = "hash" -> "live"
                            [] sess[s].place = "grave" -> "parked"
                            [] OTHER -> "free"]
Release == INSTANCE TwoPhase WITH stage <- Stage, lent <- InUse

RefinesTwoPhase == Release!TPSpec

-----------------------------------------------------------------------------
(* The inductive strengthening of NoUseAfterFree, SocketOwnership and      *)
(* RefinesTwoPhase, part by part.                                          *)

Busy == {"snap", "sock", "hs", "store", "ready", "add", "fail", "kick", "done"}

\* Where a worker is determines whether it has a session, and which of the
\* two has the socket.
WorkerShape ==
    \A w \in Workers :
        /\ wjob[w] # None <=> wpc[w] \in Busy
        /\ wfd[w] # None => wpc[w] \in {"hs", "store", "fail"}
        /\ wpc[w] \in {"hs", "store"} => wfd[w] # None
        /\ wpc[w] \in {"ready", "add"} => sess[wjob[w]].fd # None
        /\ wpc[w] \in {"snap", "sock", "hs", "store", "fail"} => sess[wjob[w]].fd = None

\* A session on loan is allocated and not done, and lent only once.
OnLoan(s) == sess[s].place # "free" /\ ~sess[s].done

Loans ==
    /\ \A i \in 1..Len(queue) : OnLoan(queue[i]) /\ sess[queue[i]].fd = None
    /\ \A w \in Workers : wjob[w] # None => OnLoan(wjob[w])
    /\ \A i, j \in 1..Len(queue) : queue[i] = queue[j] => i = j
    /\ \A v, w \in Workers : wjob[v] = wjob[w] /\ wjob[v] # None => v = w
    /\ \A w \in Workers, i \in 1..Len(queue) : wjob[w] # queue[i]

FreeIsBlank == \A s \in Slots : sess[s].place = "free" => sess[s] = Blank

Sockets ==
    /\ \A w \in Workers : wfd[w] # None => wfd[w] \in open
    /\ \A s \in Slots : sess[s].fd # None => sess[s].fd \in open
    /\ \A v, w \in Workers : wfd[v] = wfd[w] /\ wfd[v] # None => v = w
    /\ \A s, t \in Slots : sess[s].fd = sess[t].fd /\ sess[s].fd # None => s = t
    /\ \A w \in Workers, s \in Slots : wfd[w] = sess[s].fd => wfd[w] = None
    /\ \A f \in open : \/ \E w \in Workers : wfd[w] = f
                       \/ \E s \in Slots : sess[s].fd = f

Registered == \A f \in Fds : epoll[f] # None => sess[epoll[f]].fd = f

Delivered ==
    /\ \A s \in batch \cap Slots : sess[s].place # "free"
    /\ epc \notin {"batch", "tun", "flush"} => batch = {}

\* The inductive invariant: what engine, workers and queue may assume of a
\* session and its socket at every step of the others.
IInv == /\ TypeOK /\ WorkerShape /\ Loans /\ FreeIsBlank
        /\ Sockets /\ Registered /\ Delivered

-----------------------------------------------------------------------------
\* The graveyard drains: a parked session waits for its worker, but its
\* memory and its place in the session count come back in the end.
ParkedFreed == \A s \in Slots : sess[s].place = "grave" ~> sess[s].place = "free"

\* Once g.running is clear the engine thread ends, so the pthread_join in
\* tun_socks_stop returns: the shutdown never waits for a worker that waits
\* for the engine.
StopCompletes == ~running ~> epc = "stopped"

\* A session whose connect failed leaves the hash even if its kick found the
\* sweep array full.
FailedLeaves == \A s \in Slots : InHash(s) /\ sess[s].failed ~> ~InHash(s)

\* No session stays behind, as the run checks it.
Reclaimed == ParkedFreed /\ FailedLeaves

\* What the comment at tcp_sess.c:750-751 says of the shutdown: a session that
\* a worker still has when the five-second wait is over stays in the graveyard
\* once the engine has stopped. It does not hold, and nothing is lost by it:
\* hs_pool_stop (tun_socks.c:270) waits for that worker (see CleanStop).
TimedOutStays ==
    \A s \in Slots :
        [](epc = "join" /\ s \in InUse => [](epc = "stopped" => sess[s].place = "grave"))

=============================================================================
