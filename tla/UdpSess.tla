------------------------------ MODULE UdpSess ------------------------------
(***************************************************************************)
(* The life of a UDP session (udp_sess.c): created by the first datagram   *)
(* of an App endpoint, given its sockets by a worker running               *)
(* udp_session_thread, used and closed by the engine, freed in two phases. *)
(* Unlike a TCP session it owns two sockets (control and relay), or one    *)
(* that carries frames (UDP-in-TCP); both sides change the hash, under     *)
(* g_udp_hash_lock; and the engine closes sockets when it closes the       *)
(* session, before the worker is known to be done.                         *)
(*                                                                         *)
(* Datagrams are counted, not told apart.  A worker's step is what it does *)
(* between two accesses to shared state.                                   *)
(***************************************************************************)
EXTENDS Integers, Sequences, FiniteSets

CONSTANTS
    Slots, Keys, Workers, Fds, None,
    MaxUdp,     \* MAX_UDP_SESSIONS
    TxCap,      \* frames that fit tx_buf
    GcCap,      \* the MAX_EVENTS entries of udp_idle_gc's array
    UdpInTcp,   \* g.udp_in_tcp
    Hard        \* the hard cases this instance allows, see below

\* "pend_window"  a datagram arrives between the worker's removal of the
\*                buffered one and its store of state = 1
\* "arm_window"   ... between state = 1 and the worker's last look at tx_len
\* "close_early"  the engine closes the session while the worker still has
\*                sockets to register
HardCases == {"pend_window", "arm_window", "close_early"}

ASSUME UdpSessAssumption ==
    /\ IsFiniteSet(Slots) /\ IsFiniteSet(Fds) /\ None \notin Slots \cup Fds /\ Workers # {}
    /\ {MaxUdp, TxCap, GcCap} \subseteq Nat \ {0}
    /\ UdpInTcp \in BOOLEAN /\ Hard \subseteq HardCases

\* What epoll holds for a descriptor is not taken for nothing.
ASSUME NoneIsNoEvent ==
    None \notin [s: Slots, sock: {"control", "relay"}, out: BOOLEAN]

VARIABLES
    sess,     \* the session object in each slot
    count,    \* g.udp_session_count
    queue,    \* sessions waiting for a worker
    wk,       \* per worker: pc, session, local cfd and rfd, and a local flag
    poolOn,   \* g.hs_running
    owner,    \* Java's activeSockets: for whom a descriptor was opened
    reg,      \* epoll: what a descriptor is registered with
    epc,      \* where the engine thread is
    cur,      \* the session whose datagram is being queued, in epc "arm"
    batch,    \* events of this round not handled yet
    running,  \* g.running; clearing it also writes the shutdown pipe
    reset     \* g_reset_requested

hsVars == <<queue, wk, poolOn>>
fdVars == <<owner, reg>>
ctl    == <<running, reset>>
vars   == <<sess, count, hsVars, fdVars, epc, cur, batch, ctl>>

Session ==
    [place: {"free", "hash", "grave"}, key: Keys \cup {None}, state: {0, 1},
     done: BOOLEAN, cfd: Fds \cup {None}, rfd: Fds \cup {None},
     udp_tcp: BOOLEAN, pend: BOOLEAN, tx: 0..TxCap, armed: BOOLEAN,
     seen: {"fresh", "quiet", "app"}]

\* A session is closed when it is in the graveyard: every place that sets
\* closed unlinks it under the same lock.
\* seen: last_active is recent, older than the idle limit, or older than it
\* although the App has sent since.
Blank == [place |-> "free", key |-> None, state |-> 0, done |-> FALSE,
          cfd |-> None, rfd |-> None, udp_tcp |-> FALSE,
          pend |-> FALSE, tx |-> 0, armed |-> FALSE, seen |-> "fresh"]

Idle == [pc |-> "idle", job |-> None, cfd |-> None, rfd |-> None, flag |-> FALSE]

InHash(s) == sess[s].place = "hash"
Alloc     == {s \in Slots : sess[s].place # "free"}
FdsOf(r)  == {r.cfd, r.rfd} \ {None}

\* Epoll data: the TUN, the shutdown pipe, or a session with its low bit.
TunEv  == <<None, "tun">>
StopEv == <<None, "shutdown">>
Socks  == Slots \X {"control", "relay"}

Init ==
    /\ sess = [s \in Slots |-> Blank]
    /\ count = 0
    /\ queue = <<>>
    /\ wk = [w \in Workers |-> Idle]
    /\ poolOn = TRUE
    /\ owner = [f \in Fds |-> None]
    /\ reg = [f \in Fds |-> None]
    /\ epc = "top" /\ cur = None /\ batch = {}
    /\ running = TRUE /\ reset = FALSE

-----------------------------------------------------------------------------
(* Sockets and freeing.                                                    *)

\* release_java_socket: Java closes whatever socket now has that number,
\* and a closed descriptor leaves epoll.
Release(F) ==
    /\ owner' = [f \in Fds |-> IF f \in F THEN None ELSE owner[f]]
    /\ reg'   = [f \in Fds |-> IF f \in F THEN None ELSE reg[f]]

\* The fatal branch of udp_handle_event, udp_idle_gc: sessions S leave the
\* hash, their sockets are released, they are parked.
CloseSessions(S) ==
    /\ Release(UNION {FdsOf(sess[s]) : s \in S})
    /\ sess' = [s \in Slots |-> IF s \notin S THEN sess[s]
                 ELSE [sess[s] EXCEPT !.place = "grave", !.cfd = None, !.rfd = None]]

MayFree(r) == r.place = "grave" /\ r.done

\* udp_graveyard_collect, run on the table st.
udp_graveyard_collect(st) ==
    LET F == {s \in Slots : MayFree(st[s])}
    IN /\ sess' = [s \in Slots |-> IF s \in F THEN Blank ELSE st[s]]
       /\ count' = count - Cardinality(F)
       /\ Release(UNION {FdsOf(st[s]) : s \in F})

\* The same with every session of the hash parked first: udp_soft_reset
\* keeps the sockets for the collector.
ParkAll == [s \in Slots |-> IF InHash(s) THEN [sess[s] EXCEPT !.place = "grave"]
                                         ELSE sess[s]]

-----------------------------------------------------------------------------
(* hs_pool.c and udp_session_thread.                                       *)

Job(w) == wk[w].job
At(w, pc) == wk[w].pc = pc
Goto(w, pc) == wk' = [wk EXCEPT ![w].pc = pc]
Engine == <<epc, cur, batch, ctl>>

WTake(w) ==
    /\ At(w, "idle") /\ queue # <<>>
    /\ wk' = [wk EXCEPT ![w] = [Idle EXCEPT !.pc = "sock", !.job = Head(queue)]]
    /\ queue' = Tail(queue)
    /\ UNCHANGED <<sess, count, poolOn, fdVars, Engine>>

WExit(w) ==
    /\ At(w, "idle") /\ ~poolOn /\ queue = <<>>
    /\ Goto(w, "exited")
    /\ UNCHANGED <<sess, count, queue, poolOn, fdVars, Engine>>

\* request_java_socket, then a look at g.running.
Opened(w, f) == owner[f] = None /\ owner' = [owner EXCEPT ![f] = Job(w)]
Onward(next) == IF running THEN next ELSE "failc"

\* A socket for the control connection, into the worker's local cfd.
RequestControl(w, next) ==
    /\ \/ \E f \in Fds :
            /\ Opened(w, f)
            /\ wk' = [wk EXCEPT ![w] = [@ EXCEPT !.cfd = f, !.pc = Onward(next)]]
       \/ Goto(w, "failc") /\ UNCHANGED owner
    /\ UNCHANGED <<sess, count, queue, poolOn, reg, Engine>>

WSocket(w)   == At(w, "sock")   /\ RequestControl(w, "hs")
WResocket(w) == At(w, "resock") /\ RequestControl(w, "hs3")

\* One for the datagrams, into rfd.
WRelay(w) ==
    /\ At(w, "rsock")
    /\ \/ \E f \in Fds :
            /\ Opened(w, f)
            /\ wk' = [wk EXCEPT ![w] = [@ EXCEPT !.rfd = f, !.pc = Onward("store")]]
       \/ Goto(w, "failc") /\ UNCHANGED owner
    /\ UNCHANGED <<sess, count, queue, poolOn, reg, Engine>>

\* Greeting, authentication, ASSOCIATE: accepted as UDP, failed (or no memory
\* for the stream buffers), or, when UDP-in-TCP is wanted, 0x04 is accepted.
WHandshake(w) ==
    /\ \/ At(w, "hs") /\ ~UdpInTcp /\ Goto(w, "rsock") /\ UNCHANGED sess
       \/ At(w, "hs") /\ UdpInTcp /\ Goto(w, "store")
          /\ sess' = [sess EXCEPT ![Job(w)].udp_tcp = TRUE]
       \/ At(w, "hs3") /\ Goto(w, "rsock") /\ UNCHANGED sess
       \/ (At(w, "hs") \/ At(w, "hs3")) /\ Goto(w, "failc") /\ UNCHANGED sess
    /\ UNCHANGED <<count, queue, poolOn, fdVars, Engine>>

\* Mutant: the refused connection is forgotten, not released.
WRefusedLeak(w) ==
    /\ At(w, "hs") /\ UdpInTcp
    /\ wk' = [wk EXCEPT ![w].cfd = None, ![w].pc = "resock"]
    /\ UNCHANGED <<sess, count, queue, poolOn, fdVars, Engine>>

\* 0x04 is refused: that connection is given up and another one is opened
\* for 0x03.
WRefused(w) ==
    /\ At(w, "hs") /\ UdpInTcp
    /\ Release({wk[w].cfd})
    /\ wk' = [wk EXCEPT ![w].cfd = None, ![w].pc = "resock"]
    /\ UNCHANGED <<sess, count, queue, poolOn, Engine>>

\* The sockets go into the session; the worker keeps its copies for fail.
WStore(w) ==
    /\ At(w, "store")
    /\ IF ~running THEN Goto(w, "failc") /\ UNCHANGED sess
       ELSE /\ Goto(w, "take")
            /\ sess' = [sess EXCEPT ![Job(w)].cfd = wk[w].cfd, ![Job(w)].rfd = wk[w].rfd]
    /\ UNCHANGED <<count, queue, poolOn, fdVars, Engine>>

\* Under the lock: the datagram buffered during the handshake is taken.
WTakePend(w) ==
    /\ At(w, "take")
    /\ wk' = [wk EXCEPT ![w].pc = "fwd", ![w].flag = sess[Job(w)].pend]
    /\ sess' = [sess EXCEPT ![Job(w)].pend = FALSE]
    /\ UNCHANGED <<count, queue, poolOn, fdVars, Engine>>

\* forward_udp_to_server: one more frame in tx_buf for UDP-in-TCP.  The
\* EPOLL_CTL_MOD behind it fails, the socket is not registered yet.
WForward(w) ==
    /\ At(w, "fwd")
    /\ Goto(w, "state")
    /\ sess' = IF wk[w].flag /\ sess[Job(w)].udp_tcp
               THEN [sess EXCEPT ![Job(w)].tx = 1] ELSE sess
    /\ UNCHANGED <<count, queue, poolOn, fdVars, Engine>>

WState(w) ==
    /\ At(w, "state")
    /\ Goto(w, "ev")
    /\ sess' = [sess EXCEPT ![Job(w)].state = 1, ![Job(w)].seen = "fresh"]
    /\ UNCHANGED <<count, queue, poolOn, fdVars, Engine>>

\* The events for the control socket: EPOLLOUT when frames wait.
WEvents(w) ==
    /\ At(w, "ev")
    /\ wk' = [wk EXCEPT ![w].pc = "addc",
                        ![w].flag = sess[Job(w)].udp_tcp /\ sess[Job(w)].tx > 0]
    /\ UNCHANGED <<sess, count, queue, poolOn, fdVars, Engine>>

\* EPOLL_CTL_ADD fails on a descriptor that is closed or registered, and
\* may fail for want of memory.
CanAdd(f) == owner[f] # None /\ reg[f] = None

WAddControl(w) ==
    /\ At(w, "addc")
    /\ LET f == wk[w].cfd
           t == sess[Job(w)].udp_tcp
       IN \/ /\ CanAdd(f)
             /\ reg' = [reg EXCEPT ![f] = [s |-> Job(w), sock |-> IF t THEN "relay" ELSE "control",
                                         out |-> wk[w].flag]]
             /\ wk' = IF t THEN [wk EXCEPT ![w].pc = "armed", ![w].cfd = None]
                           ELSE [wk EXCEPT ![w].pc = "addr"]
          \/ Goto(w, "failc") /\ UNCHANGED reg
    /\ UNCHANGED <<sess, count, queue, poolOn, owner, Engine>>

\* Mutant: EPOLLOUT is registered but not noted, as it once was.
WArmedNot(w) ==
    /\ At(w, "armed")
    /\ Goto(w, "done")
    /\ UNCHANGED <<sess, count, queue, poolOn, fdVars, Engine>>

WArmed(w) ==
    /\ At(w, "armed")
    /\ Goto(w, "done")
    /\ sess' = [sess EXCEPT ![Job(w)].armed = @ \/ sess[Job(w)].tx > 0]
    /\ UNCHANGED <<count, queue, poolOn, fdVars, Engine>>

WAddRelay(w) ==
    /\ At(w, "addr")
    /\ \/ /\ CanAdd(wk[w].rfd)
          /\ reg' = [reg EXCEPT ![wk[w].rfd] = [s |-> Job(w), sock |-> "relay", out |-> FALSE]]
          /\ wk' = [wk EXCEPT ![w].pc = "done", ![w].cfd = None, ![w].rfd = None]
       \/ /\ reg' = [reg EXCEPT ![wk[w].cfd] = None]
          /\ Goto(w, "failc")
    /\ UNCHANGED <<sess, count, queue, poolOn, owner, Engine>>

\* The fail label, with the worker's own copies of the descriptors.
WFailControl(w) ==
    /\ At(w, "failc")
    /\ Release({wk[w].cfd})
    /\ sess' = IF wk[w].cfd = None THEN sess ELSE [sess EXCEPT ![Job(w)].cfd = None]
    /\ wk' = [wk EXCEPT ![w].pc = "failr", ![w].cfd = None]
    /\ UNCHANGED <<count, queue, poolOn, Engine>>

WFailRelay(w) ==
    /\ At(w, "failr")
    /\ Release({wk[w].rfd})
    /\ sess' = IF wk[w].rfd = None THEN sess ELSE [sess EXCEPT ![Job(w)].rfd = None]
    /\ wk' = [wk EXCEPT ![w].pc = "unlink", ![w].rfd = None]
    /\ UNCHANGED <<count, queue, poolOn, Engine>>

\* Mutant: the failed session is given back to the count at once, too.
WUnlinkCounts(w) ==
    /\ At(w, "unlink")
    /\ Goto(w, "done")
    /\ sess' = IF InHash(Job(w)) THEN [sess EXCEPT ![Job(w)].place = "grave"] ELSE sess
    /\ count' = count - 1
    /\ UNCHANGED <<queue, poolOn, fdVars, Engine>>

\* Under the lock: parked, unless the engine has done it.
WUnlink(w) ==
    /\ At(w, "unlink")
    /\ Goto(w, "done")
    /\ sess' = IF InHash(Job(w)) THEN [sess EXCEPT ![Job(w)].place = "grave"] ELSE sess
    /\ UNCHANGED <<count, queue, poolOn, fdVars, Engine>>

\* Mutant: only the successful path sets thread_done.
WDoneOnSuccess(w) ==
    /\ At(w, "done")
    /\ wk' = [wk EXCEPT ![w] = Idle]
    /\ sess' = [sess EXCEPT ![Job(w)].done = (sess[Job(w)].state = 1)]
    /\ UNCHANGED <<count, queue, poolOn, fdVars, Engine>>

\* thread_done: the worker's last access to the session.
WDone(w) ==
    /\ At(w, "done")
    /\ wk' = [wk EXCEPT ![w] = Idle]
    /\ sess' = [sess EXCEPT ![Job(w)].done = TRUE]
    /\ UNCHANGED <<count, queue, poolOn, fdVars, Engine>>

Worker(w) ==
    \/ WTake(w) \/ WExit(w) \/ WSocket(w) \/ WHandshake(w) \/ WRefused(w)
    \/ WResocket(w) \/ WRelay(w) \/ WStore(w) \/ WTakePend(w) \/ WForward(w)
    \/ WState(w) \/ WEvents(w) \/ WAddControl(w) \/ WArmed(w) \/ WAddRelay(w)
    \/ WFailControl(w) \/ WFailRelay(w) \/ WUnlink(w) \/ WDone(w)

\* The worker of s, if any, is at one of the places P.
WorkerAt(s, P) == \E w \in Workers : Job(w) = s /\ wk[w].pc \in P

-----------------------------------------------------------------------------
(* Datagrams from the App: udp_handle_packet.                              *)

Goto_e(pc) == epc' = pc

\* Under the lock: the session of endpoint k is looked up, or created with
\* this datagram buffered if it is small enough.  With no room, no memory or
\* no job nothing is kept.
TunDatagram(k) ==
    /\ epc = "tun"
    /\ LET found == {s \in Slots : InHash(s) /\ sess[s].key = k}
       IN IF found # {}
          THEN /\ cur' \in found
               /\ Goto_e("found")
               /\ UNCHANGED <<sess, count, queue>>
          ELSE /\ count < MaxUdp /\ poolOn
               /\ \E s \in Slots \ Alloc, small \in BOOLEAN :
                     /\ sess' = [sess EXCEPT ![s] = [Blank EXCEPT
                                   !.place = "hash", !.key = k, !.pend = small]]
                     /\ queue' = Append(queue, s)
               /\ count' = count + 1
               /\ UNCHANGED <<epc, cur>>
    /\ UNCHANGED <<wk, poolOn, fdVars, batch, ctl>>

\* The datagram goes to the session found, which a worker may have changed
\* since: buffered during the handshake, forwarded after it, dropped when
\* closed.  Forwarding does not refresh last_active.
EngBuffer ==
    /\ epc = "found" /\ sess[cur].state = 0
    /\ "pend_window" \in Hard \/ ~WorkerAt(cur, {"fwd", "state"})
    /\ \E small \in BOOLEAN : sess' = [sess EXCEPT ![cur].pend = @ \/ small]
    /\ Goto_e("tun") /\ cur' = None
    /\ UNCHANGED <<count, hsVars, fdVars, batch, ctl>>

EngForward ==
    /\ epc = "found" /\ sess[cur].state = 1
    /\ "arm_window" \in Hard \/ ~WorkerAt(cur, {"ev", "addc", "armed"})
    /\ LET append == InHash(cur) /\ sess[cur].udp_tcp /\ sess[cur].tx < TxCap
       IN /\ sess' = [sess EXCEPT ![cur].tx = IF append THEN @ + 1 ELSE @,
                                 ![cur].seen = IF @ = "fresh" THEN @ ELSE "app"]
          /\ Goto_e(IF append THEN "arm" ELSE "tun")
          /\ cur' = IF append THEN cur ELSE None
    /\ UNCHANGED <<count, hsVars, fdVars, batch, ctl>>

\* The end of udp_tcp_append: ask for EPOLLOUT once.
EngArm ==
    /\ epc = "arm"
    /\ LET f == sess[cur].cfd
       IN IF ~sess[cur].armed /\ f # None /\ (f # None => reg[f] # None)
          THEN /\ reg' = [reg EXCEPT ![f].out = TRUE]
               /\ sess' = [sess EXCEPT ![cur].armed = TRUE]
          ELSE UNCHANGED <<reg, sess>>
    /\ Goto_e("tun") /\ cur' = None
    /\ UNCHANGED <<count, hsVars, owner, batch, ctl>>

-----------------------------------------------------------------------------
(* The epoll loop: engine_loop, udp_handle_event and the collectors.       *)

EngTop ==
    /\ epc = "top"
    /\ ~running \/ ~reset
    /\ Goto_e(IF running THEN "wait" ELSE "closing")
    /\ UNCHANGED <<sess, count, hsVars, fdVars, cur, batch, ctl>>

\* Mutant: the reset closes the sockets of sessions still being set up.
EngSoftResetClose ==
    /\ epc = "top" /\ running /\ reset
    /\ CloseSessions({s \in Slots : InHash(s)})
    /\ reset' = FALSE
    /\ Goto_e("wait")
    /\ UNCHANGED <<count, hsVars, cur, batch, running>>

EngSoftReset ==
    /\ epc = "top" /\ running /\ reset
    /\ udp_graveyard_collect(ParkAll)
    /\ reset' = FALSE
    /\ Goto_e("wait")
    /\ UNCHANGED <<hsVars, cur, batch, running>>

\* The TUN and any registered socket may have an event.
EngWait ==
    /\ epc = "wait"
    /\ \E B \in SUBSET ({TunEv} \cup {<<reg[f].s, reg[f].sock>> : f \in {g \in Fds : reg[g] # None}}) :
          batch' = B \cup (IF running THEN {} ELSE {StopEv})
    /\ Goto_e("batch")
    /\ UNCHANGED <<sess, count, hsVars, fdVars, cur, ctl>>

EngTun ==
    /\ epc = "batch" /\ TunEv \in batch
    /\ batch' = batch \ {TunEv}
    /\ Goto_e("tun")
    /\ UNCHANGED <<sess, count, hsVars, fdVars, cur, ctl>>

\* read_tun_packets meets EAGAIN.
EngTunEnd ==
    /\ epc = "tun"
    /\ Goto_e("batch")
    /\ UNCHANGED <<sess, count, hsVars, fdVars, cur, batch, ctl>>

\* While a worker may still use its copies of the sockets of s, closing s
\* is one of the hard cases.
MayClose(s) ==
    \/ "close_early" \in Hard
    \/ ~WorkerAt(s, {"take", "fwd", "state", "ev", "addc", "addr", "failc", "failr"})

\* udp_handle_event for a session closed earlier in this round.
EngEventClosed(i) ==
    /\ epc = "batch" /\ i \in batch \cap Socks /\ ~InHash(i[1])
    /\ batch' = batch \ {i}
    /\ UNCHANGED <<sess, count, hsVars, fdVars, epc, cur, ctl>>

\* Mutant: the session is freed on the spot if its worker is done.
EngEventFatalFree(i) ==
    /\ epc = "batch" /\ i \in batch \cap Socks /\ InHash(i[1]) /\ MayClose(i[1])
    /\ Release(FdsOf(sess[i[1]]))
    /\ sess' = [sess EXCEPT ![i[1]] = IF @.done THEN Blank
                                     ELSE [@ EXCEPT !.place = "grave", !.cfd = None, !.rfd = None]]
    /\ count' = IF sess[i[1]].done THEN count - 1 ELSE count
    /\ batch' = batch \ {i}
    /\ UNCHANGED <<hsVars, epc, cur, ctl>>

\* An error, a hang-up, EOF, a bad frame, or anything on the control socket.
EngEventFatal(i) ==
    /\ epc = "batch" /\ i \in batch \cap Socks /\ InHash(i[1])
    /\ MayClose(i[1])
    /\ CloseSessions({i[1]})
    /\ batch' = batch \ {i}
    /\ UNCHANGED <<count, hsVars, epc, cur, ctl>>

\* A reply is read and written to the TUN.
EngEventRead(i) ==
    /\ epc = "batch" /\ i \in batch \cap Socks /\ InHash(i[1]) /\ i[2] = "relay"
    /\ sess' = [sess EXCEPT ![i[1]].seen = "fresh"]
    /\ batch' = batch \ {i}
    /\ UNCHANGED <<count, hsVars, fdVars, epc, cur, ctl>>

\* udp_tcp_flush: some or all frames go out; with none left EPOLLOUT is
\* given back, if it is known to be armed.
EngEventFlush(i) ==
    /\ epc = "batch" /\ i \in batch \cap Socks /\ InHash(i[1]) /\ i[2] = "relay"
    /\ LET s == i[1]
           f == sess[s].cfd
       IN /\ f # None => reg[f] # None /\ reg[f].out
          /\ sess[s].udp_tcp /\ f # None
          /\ "arm_window" \in Hard \/ ~WorkerAt(s, {"armed"})
          /\ \E left \in 0..sess[s].tx :
                LET off == left = 0 /\ sess[s].armed
                IN /\ sess' = [sess EXCEPT ![s].tx = left, ![s].seen = "fresh",
                                           ![s].armed = @ /\ ~off]
                   /\ reg' = [reg EXCEPT ![f].out = @ /\ ~off]
    /\ batch' = batch \ {i}
    /\ UNCHANGED <<count, hsVars, owner, epc, cur, ctl>>

EngEvent(i) == EngEventClosed(i) \/ EngEventFatal(i) \/ EngEventRead(i) \/ EngEventFlush(i)

EngShutdown ==
    /\ epc = "batch" /\ StopEv \in batch
    /\ batch' = {}
    /\ Goto_e("closing")
    /\ UNCHANGED <<sess, count, hsVars, fdVars, cur, ctl>>

\* udp_idle_gc every five seconds, as many as its array holds.
EngGc ==
    /\ epc = "batch" /\ batch = {}
    /\ LET idle == {s \in Slots : InHash(s) /\ sess[s].seen # "fresh"}
       IN \E G \in SUBSET idle :
            /\ Cardinality(G) = IF Cardinality(idle) < GcCap THEN Cardinality(idle) ELSE GcCap
            /\ \A s \in G : MayClose(s)
            /\ CloseSessions(G)
    /\ Goto_e("collect")
    /\ UNCHANGED <<count, hsVars, cur, batch, ctl>>

EngNoGc ==
    /\ epc = "batch" /\ batch = {}
    /\ Goto_e("collect")
    /\ UNCHANGED <<sess, count, hsVars, fdVars, cur, batch, ctl>>

EngCollect ==
    /\ epc = "collect"
    /\ udp_graveyard_collect(sess)
    /\ Goto_e("top")
    /\ UNCHANGED <<hsVars, cur, batch, ctl>>

\* The wait for handshakes under way may give up; hs_pool_stop then waits
\* for the workers themselves.
EngStopPool ==
    /\ epc = "closing"
    /\ poolOn' = FALSE
    /\ Goto_e("join")
    /\ UNCHANGED <<sess, count, queue, wk, fdVars, cur, batch, ctl>>

\* udp_shutdown_collect: what is in the hash is freed without being counted.
EngJoin ==
    /\ epc = "join"
    /\ \A w \in Workers : At(w, "exited")
    /\ LET F == {s \in Slots : InHash(s) \/ MayFree(sess[s])}
       IN /\ sess' = [s \in Slots |-> IF s \in F THEN Blank ELSE sess[s]]
          /\ Release(UNION {FdsOf(sess[s]) : s \in F})
          /\ count' = count - Cardinality({s \in F : ~InHash(s)})
    /\ Goto_e("stopped")
    /\ UNCHANGED <<hsVars, cur, batch, ctl>>

EngineStep ==
    \/ EngBuffer \/ EngForward \/ EngArm \/ EngTop \/ EngSoftReset \/ EngWait
    \/ EngTun \/ EngTunEnd \/ (\E i \in Socks : EngEvent(i)) \/ EngShutdown
    \/ EngGc \/ EngNoGc \/ EngCollect \/ EngStopPool \/ EngJoin

\* UDP_IDLE_TIMEOUT_SEC pass without last_active being written.
Age(s) ==
    /\ InHash(s) /\ sess[s].seen = "fresh"
    /\ sess' = [sess EXCEPT ![s].seen = "quiet"]
    /\ UNCHANGED <<count, hsVars, fdVars, Engine>>

AskReset ==
    /\ running /\ ~reset
    /\ reset' = TRUE
    /\ UNCHANGED <<sess, count, hsVars, fdVars, epc, cur, batch, running>>

Stop ==
    /\ running
    /\ running' = FALSE
    /\ UNCHANGED <<sess, count, hsVars, fdVars, epc, cur, batch, reset>>

Stopped == epc = "stopped" /\ UNCHANGED vars

Next ==
    \/ \E w \in Workers : Worker(w)
    \/ \E k \in Keys : TunDatagram(k)
    \/ EngineStep
    \/ \E s \in Slots : Age(s)
    \/ AskReset \/ Stop \/ Stopped

Spec == Init /\ [][Next]_vars

\* Both kinds of thread keep running, a handshake has a timeout, and the TUN
\* runs dry from time to time.
FairSpec ==
    /\ Spec
    /\ \A w \in Workers : WF_vars(Worker(w))
    /\ WF_vars(EngineStep)
    /\ SF_vars(EngTunEnd)

-----------------------------------------------------------------------------
(* Properties.                                                             *)

Queued == {queue[i] : i \in DOMAIN queue}
InUse  == Queued \cup ({Job(w) : w \in Workers} \ {None})

WPCs == {"idle", "sock", "hs", "resock", "hs3", "rsock", "store", "take", "fwd", "state",
         "ev", "addc", "armed", "addr", "failc", "failr", "unlink", "done", "exited"}

TypeOK ==
    /\ sess \in [Slots -> Session]
    /\ count \in 0..MaxUdp
    /\ queue \in Seq(Slots)
    /\ wk \in [Workers -> [pc: WPCs, job: Slots \cup {None}, cfd: Fds \cup {None},
                           rfd: Fds \cup {None}, flag: BOOLEAN]]
    /\ owner \in [Fds -> Slots \cup {None}]
    /\ reg \in [Fds -> [s: Slots, sock: {"control", "relay"}, out: BOOLEAN] \cup {None}]
    /\ epc \in {"top", "wait", "batch", "tun", "found", "arm", "collect", "closing",
                "join", "stopped"}
    /\ cur \in Slots \cup {None}
    /\ batch \subseteq Socks \cup {TunEv, StopEv}
    /\ {poolOn, running, reset} \subseteq BOOLEAN

\* No worker, queued job, epoll registration, undelivered event or packet in
\* hand refers to a freed session, although the worker unlinks sessions that
\* the engine has looked up and the two sockets of one session can have an
\* event each in one round (comment above udp_sess_release).
NoUseAfterFree ==
    /\ \A s \in InUse \cup {i[1] : i \in batch \cap Socks} \cup ({cur} \ {None}) :
          sess[s].place # "free"
    /\ \A f \in Fds : reg[f] # None => f \in FdsOf(sess[reg[f].s])

\* A descriptor is held for the session it was opened for, by the session or
\* by its worker, as long as Java has it open, and no longer: no leak, and
\* no second release, which by then could hit somebody else's socket.
HeldFor(f) == {Job(w) : w \in {v \in Workers : f \in FdsOf(wk[v])}}
                 \cup {s \in Slots : f \in FdsOf(sess[s])}

SocketOwnership == \A f \in Fds : HeldFor(f) = {owner[f]} \ {None}

\* The counter behind the MAX_UDP_SESSIONS cap counts exactly the sessions
\* not freed yet, parked ones included.
CountExact == epc # "stopped" => count = Cardinality(Alloc)

\* A session that takes the App's datagrams and has no worker any more has
\* its sockets, and they can wake the engine: the App is never left sending
\* into a session that cannot answer.
NoDeadSession ==
    \A s \in Slots : InHash(s) /\ sess[s].done =>
        /\ sess[s].state = 1
        /\ FdsOf(sess[s]) # {}
        /\ \A f \in FdsOf(sess[s]) : reg[f] # None

\* The datagram buffered during the handshake is forwarded: once state is 1
\* nobody looks at the buffer again.
PendingForwarded == \A s \in Slots : sess[s].state = 1 => ~sess[s].pend

\* Frames in tx_buf have an EPOLLOUT coming that will send them.
TxWillDrain ==
    \A s \in Slots : InHash(s) /\ sess[s].done /\ sess[s].tx > 0 /\ cur # s
        => \E f \in FdsOf(sess[s]) : reg[f] # None /\ reg[f].out

\* EPOLLOUT is registered only while tx_armed knows it, or else no flush
\* will ever give it back and the engine thread spins (comment at
\* udp_sess.c:507).
OutIsArmed ==
    \A f \in Fds : reg[f] # None /\ reg[f].out
        => sess[reg[f].s].armed \/ WorkerAt(reg[f].s, {"armed"})

\* What the App sent before or during the registration goes out, and once
\* there is nothing to send EPOLLOUT is given back.
TxSound == PendingForwarded /\ TxWillDrain /\ OutIsArmed

\* A session that is in use works in both directions.
Serves == NoDeadSession /\ TxSound

\* A stop leaves no session, socket or registration behind.
CleanStop ==
    epc = "stopped" => /\ Alloc = {} /\ queue = <<>>
                       /\ \A f \in Fds : owner[f] = None /\ reg[f] = None

\* The sessions add up while the engine runs and after it has stopped, on top
\* of the types.
BooksBalance == TypeOK /\ CountExact /\ CleanStop

\* udp_idle_gc spares a session the App has used within the idle limit.
GcSparesActive ==
    [][\A s \in Slots : EngGc /\ InHash(s) /\ sess'[s].place # "hash"
          => sess[s].seen # "app"]_vars

\* This copy of the two-phase release keeps the same promise as TcpLife's.
Stage == [s \in Slots |-> CASE sess[s].place = "hash" -> "live"
                            [] sess[s].place = "grave" -> "parked"
                            [] OTHER -> "free"]
TP == INSTANCE TwoPhase WITH stage <- Stage, lent <- InUse

RefinesTwoPhase == TP!TPSpec

\* The graveyard drains, and with it the session count.
Reclaimed == \A s \in Slots : sess[s].place = "grave" ~> sess[s].place = "free"

=============================================================================
