------------------------------- MODULE Tunnel -------------------------------
(***************************************************************************)
(* Starting, stopping and restarting the tunnel: TunSocksService.kt, the   *)
(* JNI calls of jni_bridge.c and the thread start of tun_socks.c.          *)
(*                                                                         *)
(* Four kinds of thread take part.  The main thread runs commands and      *)
(* posted messages one at a time, each a step here.  Coroutines on the IO  *)
(* dispatcher resolve names, stop the engine and reconnect softly.  A      *)
(* native thread runs tun_socks_start.  The engine thread is reduced to    *)
(* whether it loops or is shutting down; TcpLife and UdpSess look inside.  *)
(*                                                                         *)
(* A host name stands for the address it resolves to.                      *)
(***************************************************************************)
EXTENDS Naturals, Sequences, FiniteSets

CONSTANTS
    Hosts, Jobs, Engines, None,
    MaxRetries,  \* MAX_BACKGROUND_RETRIES
    MaxPosts,    \* bound: commands wait while so many retries are posted
    AlwaysOn,    \* the values lastAlwaysOn || lastLockdown may have
    Hard         \* the hard cases this instance allows, see below

\* "stop_overlap"   a stop or restart overlaps another, or an engine that
\*                  is shutting down by itself
\* "start_in_stop"  a start begins while a stop or restart is under way
\* "start_in_start" a start begins while an earlier one is still resolving
\* "restart_in_start" a restart does
\* "soft_overlap"   a soft reconnect overlaps a stop or a restart
\* "engine_dies"    epoll_wait fails for good
HardCases == {"stop_overlap", "start_in_stop", "start_in_start",
              "restart_in_start", "soft_overlap", "engine_dies"}

ASSUME TunnelAssumption ==
    /\ IsFiniteSet(Jobs) /\ IsFiniteSet(Engines) /\ None \notin Hosts \cup Engines
    /\ MaxRetries \in Nat /\ MaxPosts \in Nat \ {0} /\ AlwaysOn \subseteq BOOLEAN /\ Hard \subseteq HardCases

VARIABLES
    cfg,       \* the saved host
    ask,       \* history: was the last thing asked for to run or to stop?
    status,    \* lastStatus
    isRunning, startPending,
    retries,   \* BackgroundStartRetry.retryCount
    retryPosts, \* delayed messages that will run backgroundStartRetry
    auto,      \* an auto-restart Runnable is posted
    posts,     \* messages of the main thread, first come first served
    jobs,      \* coroutines on the IO dispatcher
    tunFlag,   \* g_tunnel_running
    starts,    \* tunnel_thread_func threads that have not run yet
    gRun,      \* g.running
    gEng,      \* g_engine_thread
    engines,   \* the engine threads
    srv,       \* g.srv_host
    tunLost    \* a TUN descriptor that nobody will read or close

svc    == <<cfg, ask, status, isRunning, startPending, retries, retryPosts, auto>>
io     == <<posts, jobs>>
native == <<tunFlag, starts, gRun, gEng, engines, srv, tunLost>>
vars   == <<svc, io, native>>

NoJob == [kind |-> "none", pc |-> "-", host |-> None, bg |-> FALSE]
Resolving(h, b) == [NoJob EXCEPT !.kind = "resolve", !.host = h, !.bg = b]
Stopping(k) == [NoJob EXCEPT !.kind = k, !.pc = "stop1"]
Message(w) == [what |-> w, host |-> None, bg |-> FALSE]

Init ==
    /\ cfg \in Hosts /\ ask = "stop" /\ status = "none"
    /\ isRunning = FALSE /\ startPending = FALSE
    /\ retries = 0 /\ retryPosts = 0 /\ auto = FALSE
    /\ posts = <<>> /\ jobs = [j \in Jobs |-> NoJob]
    /\ tunFlag = FALSE /\ starts = <<>> /\ gRun = FALSE /\ gEng = None
    /\ engines = [e \in Engines |-> "none"]
    /\ srv = None /\ tunLost = FALSE

Kinds(K)  == {j \in Jobs : jobs[j].kind \in K}
Posted(w) == \E i \in DOMAIN posts : posts[i].what = w

\* serviceScope.launch; the instance has only so many coroutines at a time.
Launch(job) == \E j \in Jobs : jobs[j] = NoJob /\ jobs' = [jobs EXCEPT ![j] = job]

-----------------------------------------------------------------------------
(* What the instance leaves out unless Hard names it.                      *)

EngineGoingDown == \E e \in Engines : engines[e] \in {"closing", "dying"}
StartUnderWay   == Kinds({"resolve"}) # {} \/ Posted("continue")
SoftUnderWay    == Kinds({"soft"}) # {}
StopUnderWay    == Kinds({"stop", "restart"}) # {} \/ Posted("start") \/ Posted("died") \/ EngineGoingDown

Allowed(case, happens) == happens => case \in Hard

MayStop    == Allowed("stop_overlap", StopUnderWay) /\ Allowed("soft_overlap", SoftUnderWay)
MayRestart == MayStop /\ Allowed("restart_in_start", StartUnderWay)
MayStart   == /\ Allowed("start_in_stop", StopUnderWay) /\ Allowed("start_in_start", StartUnderWay)
              /\ Allowed("soft_overlap", SoftUnderWay)

-----------------------------------------------------------------------------
(* The main thread.                                                        *)

\* Mutant: the configuration that came with the intent is not written back.
StartTunnelUnsaved(h, bg) ==
    IF isRunning THEN UNCHANGED <<cfg, status, startPending, jobs>>
    ELSE /\ startPending' = TRUE
         /\ status' = "resolving"
         /\ Launch(Resolving(h, bg))
         /\ UNCHANGED cfg

\* startTunnel with host h: nothing while running, else the configuration is
\* saved and a coroutine resolves the name.
StartTunnel(h, bg) ==
    IF isRunning THEN UNCHANGED <<cfg, status, startPending, jobs>>
    ELSE /\ cfg' = h
         /\ startPending' = TRUE
         /\ status' = "resolving"
         /\ Launch(Resolving(h, bg))

\* ACTION_START from the App with its configuration, or from the tile, at
\* boot or by START_STICKY with the saved one.
CmdStart(h, bg) ==
    /\ MayStart /\ retryPosts < MaxPosts /\ (bg => h = cfg)
    /\ ask' = "run"
    /\ StartTunnel(h, bg)
    /\ UNCHANGED <<isRunning, retries, retryPosts, auto, posts, native>>

\* Mutant: a start still resolving is not called off.
StopTunnelPending ==
    /\ MayStop
    /\ retryPosts' = 0 /\ retries' = 0 /\ auto' = FALSE
    /\ status' = "stopping"
    /\ Launch(Stopping("stop"))
    /\ UNCHANGED <<cfg, isRunning, startPending, posts, native>>

StopTunnel ==
    /\ MayStop
    /\ retryPosts' = 0 /\ retries' = 0 /\ auto' = FALSE
    /\ startPending' = FALSE
    /\ status' = "stopping"
    /\ Launch(Stopping("stop"))
    /\ UNCHANGED <<cfg, isRunning, posts, native>>

CmdStop == ask' = "stop" /\ StopTunnel

RestartTunnel ==
    /\ MayRestart
    /\ status' = "restarting"
    /\ Launch(Stopping("restart"))
    /\ UNCHANGED <<cfg, isRunning, startPending, auto, posts, native>>

CmdRestart ==
    /\ retryPosts < MaxPosts
    /\ ask' = "run"
    /\ RestartTunnel
    /\ UNCHANGED <<retries, retryPosts>>

\* onRevoke, which the system calls for an established VPN: with Always-on or
\* lockdown the tunnel is built again.
OnRevoke ==
    /\ starts # <<>> \/ \E e \in Engines : engines[e] # "none"
    /\ \/ /\ TRUE \in AlwaysOn
          /\ ask' = "run" /\ retries' = 0 /\ retryPosts' = 0
          /\ RestartTunnel
       \/ FALSE \in AlwaysOn /\ ask' = "stop" /\ StopTunnel

\* The delayed backgroundStartRetry.
RetryFires ==
    /\ retryPosts > 0 /\ MayStart
    /\ retryPosts' = retryPosts - 1
    /\ StartTunnel(cfg, TRUE)
    /\ UNCHANGED <<ask, isRunning, retries, auto, posts, native>>

Handles(w) == posts # <<>> /\ Head(posts).what = w /\ posts' = Tail(posts)

\* restartTunnel's second half.
RestartPosted ==
    /\ Handles("start")
    /\ IF isRunning
       THEN startPending' = FALSE /\ UNCHANGED <<cfg, status, jobs>>
       ELSE StartTunnel(cfg, TRUE)
    /\ UNCHANGED <<ask, isRunning, retries, retryPosts, auto, native>>

\* Mutant: the count of retries is forgotten.
StartFailedForever(bg) ==
    IF bg THEN retryPosts' = retryPosts + 1 /\ status' = "retrying" /\ UNCHANGED retries
          ELSE status' = "failed" /\ UNCHANGED <<retries, retryPosts>>

\* fail, or backgroundFail with its bounded retries.
StartFailed(bg) ==
    IF bg /\ retries < MaxRetries
    THEN retries' = retries + 1 /\ retryPosts' = retryPosts + 1 /\ status' = "retrying"
    ELSE status' = "failed" /\ UNCHANGED <<retries, retryPosts>>

\* native_start_tunnel with a TUN descriptor that is now the engine's.
NativeStart(h) ==
    IF tunFlag /\ gRun
    THEN tunLost' = TRUE /\ UNCHANGED <<tunFlag, starts>>
    ELSE tunFlag' = TRUE /\ starts' = Append(starts, h) /\ UNCHANGED tunLost

\* continueStartTunnel: a start called off meanwhile is dropped; the name may
\* not resolve and establish() may refuse.
ContinueDropped ==
    /\ Handles("continue") /\ ~startPending
    /\ UNCHANGED <<svc, jobs, native>>

ContinueFails ==
    /\ Handles("continue") /\ startPending
    /\ startPending' = FALSE
    /\ StartFailed(Head(posts).bg)
    /\ UNCHANGED <<cfg, ask, isRunning, auto, jobs, native>>

ContinueSucceeds ==
    /\ Handles("continue") /\ startPending /\ Head(posts).host # None
    /\ NativeStart(Head(posts).host)
    /\ startPending' = FALSE /\ isRunning' = TRUE
    /\ retries' = 0 /\ status' = "active"
    /\ UNCHANGED <<cfg, ask, retryPosts, auto, jobs, gRun, gEng, engines, srv>>

\* Mutant: only the status is told.
EngineStoppedUnseen ==
    /\ Handles("died")
    /\ status' = "died"
    /\ startPending' = FALSE /\ auto' = FALSE
    /\ UNCHANGED <<cfg, ask, isRunning, retries, retryPosts, jobs, native>>

\* handleEngineStopped: the tunnel is off, though nobody asked for a stop.
EngineStopped ==
    /\ Handles("died")
    /\ IF isRunning
       THEN /\ isRunning' = FALSE /\ startPending' = FALSE /\ auto' = FALSE
            /\ status' = "died"
       ELSE UNCHANGED <<isRunning, startPending, auto, status>>
    /\ UNCHANGED <<cfg, ask, retries, retryPosts, jobs, native>>

\* The watchdog's Runnable.
AutoFires ==
    /\ auto /\ auto' = FALSE /\ Allowed("soft_overlap", StopUnderWay)
    /\ IF isRunning /\ ~startPending
       THEN Launch([NoJob EXCEPT !.kind = "soft", !.pc = "resolve", !.host = cfg])
       ELSE UNCHANGED jobs
    /\ UNCHANGED <<cfg, ask, status, isRunning, startPending, retries, retryPosts, posts, native>>

Main ==
    \/ RetryFires \/ RestartPosted \/ ContinueDropped \/ ContinueFails
    \/ ContinueSucceeds \/ EngineStopped \/ AutoFires

-----------------------------------------------------------------------------
(* Coroutines on the IO dispatcher.                                        *)

JobAt(j, pc) == jobs[j].pc = pc
JobGoto(j, pc) == jobs' = [jobs EXCEPT ![j].pc = pc]
JobEnds(j) == jobs' = [jobs EXCEPT ![j] = NoJob]
Post(m) == posts' = Append(posts, m)

\* The name resolves, or it does not (host None).
Resolve(j) ==
    /\ jobs[j].kind = "resolve"
    /\ \E h \in {jobs[j].host, None} :
          Post([what |-> "continue", host |-> h, bg |-> jobs[j].bg])
    /\ JobEnds(j)
    /\ UNCHANGED <<svc, native>>

\* Mutant: tun_socks_stop does not join the engine thread.
SocksStopNoJoin(j, here, joining, after) ==
    /\ JobAt(j, here)
    /\ gRun' = FALSE
    /\ JobGoto(j, after)

\* tun_socks_stop: nothing when g.running is clear already, else clear it
\* and join the engine thread.
SocksStop(j, here, joining, after) ==
    /\ JobAt(j, here)
    /\ IF gRun THEN gRun' = FALSE /\ JobGoto(j, joining)
               ELSE JobGoto(j, after) /\ UNCHANGED gRun

Joined(j, here, after) ==
    /\ JobAt(j, here)
    /\ gEng = None \/ engines[gEng] = "none"
    /\ JobGoto(j, after)

\* stopEngineSync and native_stop_tunnel.
StopFirst(j) ==
    /\ SocksStop(j, "stop1", "join1", "thread")
    /\ auto' = FALSE
    /\ UNCHANGED <<cfg, ask, status, isRunning, startPending, retries, retryPosts, posts,
                   tunFlag, starts, gEng, engines, srv, tunLost>>

StopJoins(j) ==
    /\ Joined(j, "join1", "thread") \/ Joined(j, "join2", "close")
    /\ UNCHANGED <<svc, posts, native>>

\* The thread that runs tun_socks_start is joined.
StopThread(j) ==
    /\ JobAt(j, "thread")
    /\ tunFlag => starts = <<>>
    /\ tunFlag' = FALSE
    /\ JobGoto(j, "stop2")
    /\ UNCHANGED <<svc, posts, starts, gRun, gEng, engines, srv, tunLost>>

StopSecond(j) ==
    /\ SocksStop(j, "stop2", "join2", "close")
    /\ UNCHANGED <<svc, posts, tunFlag, starts, gEng, engines, srv, tunLost>>

\* isRunning = false; a restart posts its second half, a stop is over.
StopEnds(j) ==
    /\ JobAt(j, "close")
    /\ isRunning' = FALSE
    /\ IF jobs[j].kind = "restart"
       THEN Post(Message("start")) /\ UNCHANGED status
       ELSE status' = "stopped" /\ UNCHANGED posts
    /\ JobEnds(j)
    /\ UNCHANGED <<cfg, ask, startPending, retries, retryPosts, auto, native>>

\* softRestart: resolve outside the tunnel, or fail to and keep the address;
\* then native_reconnect.
SoftResolve(j) ==
    /\ jobs[j].kind = "soft" /\ JobAt(j, "resolve")
    /\ \E h \in {jobs[j].host, None} :
          jobs' = [jobs EXCEPT ![j].host = h, ![j].pc = "reconnect"]
    /\ UNCHANGED <<svc, posts, native>>

SoftReconnect(j) ==
    /\ jobs[j].kind = "soft" /\ JobAt(j, "reconnect")
    /\ srv' = IF tunFlag /\ gRun /\ jobs[j].host # None THEN jobs[j].host ELSE srv
    /\ JobEnds(j)
    /\ UNCHANGED <<svc, posts, tunFlag, starts, gRun, gEng, engines, tunLost>>

Job(j) ==
    \/ Resolve(j) \/ StopFirst(j) \/ StopJoins(j) \/ StopThread(j) \/ StopSecond(j)
    \/ StopEnds(j) \/ SoftResolve(j) \/ SoftReconnect(j)

-----------------------------------------------------------------------------
(* Native threads, and what comes from outside.                            *)

\* tunnel_thread_func: tun_socks_start refuses while g.running is set.
ThreadStarts ==
    /\ starts # <<>> /\ starts' = Tail(starts)
    /\ IF gRun THEN tunLost' = TRUE /\ UNCHANGED <<gRun, gEng, engines, srv>>
       ELSE /\ \E e \in Engines :
                 /\ engines[e] = "none"
                 /\ engines' = [engines EXCEPT ![e] = "loop"]
                 /\ gEng' = e
            /\ gRun' = TRUE /\ srv' = Head(starts)
            /\ UNCHANGED tunLost
    /\ UNCHANGED <<svc, io, tunFlag>>

EngineSet(e, st) == engines' = [engines EXCEPT ![e] = st]

\* The loop sees g.running clear.
EngineLeaves(e) ==
    /\ engines[e] = "loop" /\ ~gRun
    /\ EngineSet(e, "closing")
    /\ UNCHANGED <<svc, io, tunFlag, starts, gRun, gEng, srv, tunLost>>

\* epoll_wait fails: the engine clears g.running itself ...
EngineDies(e) ==
    /\ engines[e] = "loop" /\ gRun
    /\ "engine_dies" \in Hard /\ Allowed("stop_overlap", StopUnderWay)
    /\ gRun' = FALSE
    /\ EngineSet(e, "dying")
    /\ UNCHANGED <<svc, io, tunFlag, starts, gEng, srv, tunLost>>

\* ... and tells Java at the end of the shutdown.
EngineEnds(e) ==
    /\ engines[e] \in {"closing", "dying"}
    /\ EngineSet(e, "none")
    /\ IF engines[e] = "dying" THEN Post(Message("died")) ELSE UNCHANGED posts
    /\ UNCHANGED <<svc, jobs, tunFlag, starts, gRun, gEng, srv, tunLost>>

Engine(e) == EngineLeaves(e) \/ EngineEnds(e)

\* onServerEvent on a handshake thread, one of an engine that has not ended:
\* the watchdog asks for a restart.  Watchdog.tla looks inside.
WatchdogAsks ==
    /\ isRunning /\ ~auto /\ \E e \in Engines : engines[e] # "none"
    /\ auto' = TRUE
    /\ UNCHANGED <<cfg, ask, status, isRunning, startPending, retries, retryPosts, io, native>>

User ==
    \/ \E h \in Hosts, bg \in BOOLEAN : CmdStart(h, bg)
    \/ CmdStop \/ CmdRestart \/ OnRevoke

Next ==
    \/ User \/ Main \/ (\E j \in Jobs : Job(j)) \/ ThreadStarts
    \/ (\E e \in Engines : Engine(e) \/ EngineDies(e)) \/ WatchdogAsks

Spec == Init /\ [][Next]_vars

\* Posted messages are handled, coroutines and native threads go on, a
\* delayed message comes due.
FairSpec ==
    /\ Spec /\ WF_vars(ThreadStarts)
    /\ WF_vars(RestartPosted \/ ContinueDropped \/ ContinueFails \/ ContinueSucceeds \/ EngineStopped)
    /\ SF_vars(RetryFires)
    /\ \A j \in Jobs : WF_vars(Job(j))
    /\ \A e \in Engines : WF_vars(Engine(e))

-----------------------------------------------------------------------------
(* Properties.                                                             *)

Statuses == {"none", "resolving", "retrying", "active", "stopping", "stopped", "restarting", "failed", "died"}

TypeOK ==
    /\ cfg \in Hosts /\ ask \in {"run", "stop"} /\ status \in Statuses
    /\ {isRunning, startPending, auto, tunFlag, gRun, tunLost} \subseteq BOOLEAN
    /\ retries \in 0..MaxRetries /\ retryPosts \in 0..MaxPosts
    /\ posts \in Seq([what: {"continue", "start", "died"}, host: Hosts \cup {None}, bg: BOOLEAN])
    /\ jobs \in [Jobs -> [kind: {"none", "resolve", "stop", "restart", "soft"},
                          pc: {"-", "stop1", "join1", "thread", "stop2", "join2", "close",
                               "resolve", "reconnect"},
                          host: Hosts \cup {None}, bg: BOOLEAN]]
    /\ starts \in Seq(Hosts)
    /\ gEng \in Engines \cup {None} /\ srv \in Hosts \cup {None}
    /\ engines \in [Engines -> {"none", "loop", "closing", "dying"}]

\* All engine threads share the one global engine_ctx_t g: there is never a
\* second one, not even while the first is still shutting down.
OneEngine == Cardinality({e \in Engines : engines[e] # "none"}) <= 1

\* Nothing is under way: no message, coroutine, starting or dying thread.
Settled ==
    /\ posts = <<>> /\ retryPosts = 0 /\ ~startPending
    /\ \A j \in Jobs : jobs[j] = NoJob
    /\ starts = <<>> /\ ~EngineGoingDown

\* Once things have settled the service does what was asked for last: it
\* runs unless the start failed for good or the engine gave up by itself (the
\* code shows both as a status), and a stop is never undone by a
\* start, retry or restart that was already under way.
LastWordCounts == Settled => (isRunning <=> ask = "run" /\ status \notin {"failed", "died"})

\* A stop that was asked for last is final (stopTunnel clears startPending to
\* that end): no restart or start that was already under way brings the
\* tunnel up after it. Half of LastWordCounts.
StopIsFinal == Settled /\ ask = "stop" => ~isRunning

\* isRunning, which the App, the tile and the boot receiver go by, is the
\* truth about the engine thread.
RunningIsTrue == Settled => (isRunning <=> \E e \in Engines : engines[e] = "loop")

\* A running tunnel talks to the host that is configured, never to one that
\* an earlier start or reconnect resolved.
RightServer == Settled /\ isRunning => srv = cfg

\* Every TUN descriptor handed to native code reaches an engine that reads
\* and closes it: a lost one keeps the VPN up with nobody behind it.
NoTunLost == ~tunLost

\* The engine and its descriptor, as the run checks them.
EngineOK == TypeOK /\ OneEngine /\ NoTunLost

\* A start, a stop or a restart comes to an end; in particular a background
\* start that keeps failing stops retrying.
UnderWay == status \in {"resolving", "retrying", "restarting", "stopping"}

Settles == UnderWay ~> ~UnderWay

=============================================================================
