---------------------------- MODULE TunnelProofs -----------------------------
(***************************************************************************)
(* What the commands of the service promise, for any hosts, coroutines,    *)
(* engine threads and number of retries, while no command overlaps another *)
(* (Hard \subseteq {"engine_dies"}): one engine at a time, no TUN          *)
(* descriptor lost, the last word counts, isRunning is the truth and the   *)
(* engine talks to the configured host.                                    *)
(***************************************************************************)
EXTENDS Tunnel, SequenceTheorems, FiniteSetTheorems, TLAPS

Msg == [what: {"continue", "start", "died"}, host: Hosts \cup {None}, bg: BOOLEAN]

JobRec == [kind: {"none", "resolve", "stop", "restart", "soft"},
           pc: {"-", "stop1", "join1", "thread", "stop2", "join2", "close", "resolve", "reconnect"},
           host: Hosts \cup {None}, bg: BOOLEAN]

Is(j, kind) == jobs[j].kind = kind
StopJob(j)  == Is(j, "stop") \/ Is(j, "restart")

NoStop   == \A j \in Jobs : ~StopJob(j)
NoStart  == ~Posted("continue") /\ \A j \in Jobs : ~Is(j, "resolve")
NoEngine == \A e \in Engines : engines[e] = "none"

\* The engine that loops has not been told to leave.
Steady == \A e \in Engines : engines[e] # "closing" /\ (engines[e] = "loop" => gRun)

\* The second half of a restart is still to come.
Rebuilding == Posted("start") \/ \E j \in Jobs : Is(j, "restart")

\* What each kind of coroutine looks like.
JobShape ==
    \A j \in Jobs :
        /\ Is(j, "none") => jobs[j] = NoJob
        /\ StopJob(j) <=> jobs[j].pc \in {"stop1", "join1", "thread", "stop2", "join2", "close"}
        /\ jobs[j].host \in {cfg, None}

\* The messages of the main thread.
Messages ==
    /\ \A i, k \in DOMAIN posts : posts[i].what = posts[k].what => i = k
    /\ \A i \in DOMAIN posts : posts[i].host \in {cfg, None}

\* Nothing is under way twice.
Once ==
    /\ \A j, k \in Jobs : StopJob(j) /\ StopJob(k) => j = k
    /\ \A j, k \in Jobs : Is(j, "resolve") /\ Is(k, "resolve") => j = k
    /\ \A j \in Jobs : Is(j, "resolve") => ~Posted("continue")
    /\ \A j \in Jobs : StopJob(j) => ~Posted("start")

\* How far a stop has come with the native side.
StopInv ==
    /\ NoStop => Steady
    /\ \A j \in Jobs : StopJob(j) =>
          /\ jobs[j].pc \in {"stop1", "thread", "stop2"} => Steady
          /\ jobs[j].pc \in {"join1", "join2", "close"} => ~gRun
          /\ jobs[j].pc \in {"join1", "stop2", "join2", "close"} => starts = <<>>
          /\ jobs[j].pc = "close" => NoEngine

\* The native side: one engine, with the configured host, or one thread that
\* will start it.
NativeInv ==
    /\ ~tunLost
    /\ \A e \in Engines : engines[e] # "none" => gEng = e /\ srv = cfg
    /\ \A e \in Engines : engines[e] = "dying" => ~gRun /\ NoStop
    /\ starts # <<>> => Len(starts) = 1 /\ starts[1] = cfg /\ tunFlag /\ ~gRun /\ NoEngine

\* A tunnel that does not run has nothing native; one that runs has, or it
\* is being taken down.
RunInv ==
    /\ ~isRunning => starts = <<>> /\ NoEngine /\ ~gRun /\ ~Posted("died")
    /\ isRunning => starts # <<>> \/ ~NoEngine \/ Posted("died") \/ ~NoStop
    /\ isRunning /\ NoStop => status = "active"
    /\ Posted("died") => starts = <<>> /\ NoEngine /\ ~gRun /\ NoStop

\* A start that has not been called off is on its way, and alone.
StartInv ==
    /\ startPending => ~NoStart /\ NoStop /\ ~isRunning /\ ask = "run" /\ retryPosts < MaxPosts
    /\ Rebuilding => NoStart /\ ask = "run" /\ retryPosts < MaxPosts
    /\ Posted("start") => ~isRunning

\* What was asked for last has been done, is being done, or was given up.
AskInv ==
    /\ ask = "stop" => retryPosts = 0 /\ (isRunning => ~NoStop)
    /\ ask = "run" /\ ~isRunning =>
          startPending \/ Rebuilding \/ retryPosts > 0 \/ status \in {"failed", "died"}
    /\ \A j \in Jobs : Is(j, "stop") => ask = "stop"

TunnelInv ==
    /\ TypeOK /\ JobShape /\ Messages /\ Once
    /\ StopInv /\ NativeInv /\ RunInv /\ StartInv /\ AskInv

-----------------------------------------------------------------------------
(* Messages and guards.                                                    *)

\* A message behind the others.
LEMMA PostFacts ==
  ASSUME TunnelInv, UNCHANGED cfg,
         NEW m \in [what: {"continue", "start", "died"}, host: {cfg, None}, bg: BOOLEAN],
         Post(m), ~Posted(m.what)
  PROVE  /\ posts' \in Seq(Msg)
         /\ Messages' /\ \A w : Posted(w)' <=> Posted(w) \/ w = m.what
<1>1. /\ posts \in Seq(Msg) /\ m \in Msg /\ posts' = Append(posts, m) /\ cfg \in Hosts
      /\ \A i, k \in DOMAIN posts : posts[i].what = posts[k].what => i = k
      /\ \A i \in DOMAIN posts : posts[i].host \in {cfg, None} /\ posts[i].what # m.what
  BY DEF TunnelInv, TypeOK, Messages, Post, Posted, Msg
<1>2. /\ posts' \in Seq(Msg) /\ Len(posts) \in Nat /\ DOMAIN posts = 1..Len(posts)
      /\ DOMAIN posts' = 1..(Len(posts) + 1) /\ posts'[Len(posts) + 1] = m
      /\ \A i \in DOMAIN posts : posts'[i] = posts[i]
  BY <1>1
<1>3. Messages'
  BY <1>1, <1>2 DEF Messages
<1>4. ASSUME NEW w PROVE Posted(w)' <=> Posted(w) \/ w = m.what
  BY <1>2 DEF Posted
<1> QED
  BY <1>2, <1>3, <1>4

\* The first message is taken.
LEMMA HandleFacts ==
  ASSUME TunnelInv, UNCHANGED cfg, NEW w, Handles(w)
  PROVE  /\ posts' \in Seq(Msg)
         /\ Messages' /\ \A v : Posted(v)' <=> Posted(v) /\ v # w
         /\ Posted(w) /\ Head(posts).host \in {cfg, None} /\ Head(posts).bg \in BOOLEAN
<1>1. posts \in Seq(Msg) /\ posts # <<>> /\ posts' = Tail(posts) /\ posts[1].what = w
  BY DEF TunnelInv, TypeOK, Handles, Msg
<1>2. /\ Len(posts) \in Nat \ {0} /\ DOMAIN posts = 1..Len(posts)
      /\ posts[1] \in Msg /\ Head(posts) = posts[1]
  BY <1>1
<1>3. /\ posts' \in Seq(Msg) /\ DOMAIN posts' = 1..(Len(posts) - 1)
      /\ \A i \in 1..(Len(posts) - 1) : posts'[i] = posts[i + 1] /\ i + 1 \in DOMAIN posts
  <2>1. posts' \in Seq(Msg) /\ Len(posts') = Len(posts) - 1
    BY <1>1, <1>2
  <2>2. \A i \in 1..(Len(posts) - 1) : posts'[i] = posts[i + 1] /\ i + 1 \in DOMAIN posts
    BY <1>1, <1>2
  <2>3. DOMAIN posts' = 1..Len(posts')
    BY <2>1
  <2> QED
    BY <2>1, <2>2, <2>3
<1>4. Messages'
  <2>1. \A i, k \in DOMAIN posts : posts[i].what = posts[k].what => i = k
    BY DEF TunnelInv, Messages
  <2>2. \A i \in DOMAIN posts : posts[i].host \in {cfg, None}
    BY DEF TunnelInv, Messages
  <2>3. ASSUME NEW i \in DOMAIN posts', NEW k \in DOMAIN posts', posts'[i].what = posts'[k].what
        PROVE  i = k
    <3>1. i + 1 \in DOMAIN posts /\ k + 1 \in DOMAIN posts /\ i \in Nat /\ k \in Nat
      BY <1>2, <1>3
    <3>2. i + 1 = k + 1
      BY <1>3, <2>1, <2>3, <3>1
    <3> QED
      BY <3>1, <3>2
  <2>4. \A i \in DOMAIN posts' : posts'[i].host \in {cfg, None}
    BY <1>3, <2>2
  <2> QED
    BY <2>3, <2>4 DEF Messages
<1>5. ASSUME NEW v PROVE Posted(v)' <=> Posted(v) /\ v # w
  <2>1. Posted(v)' => Posted(v) /\ v # w
    <3>1. SUFFICES ASSUME NEW i \in DOMAIN posts', posts'[i].what = v PROVE Posted(v) /\ v # w
      BY DEF Posted
    <3>2. i \in Nat /\ i + 1 \in DOMAIN posts /\ posts[i + 1].what = v /\ 1 \in DOMAIN posts
      BY <1>2, <1>3, <3>1
    <3>3. i + 1 # 1
      BY <1>3, <3>1, <3>2
    <3> QED
      BY <1>1, <3>2, <3>3 DEF TunnelInv, Messages, Posted
  <2>2. Posted(v) /\ v # w => Posted(v)'
    <3>1. SUFFICES ASSUME NEW i \in DOMAIN posts, posts[i].what = v, v # w PROVE Posted(v)'
      BY DEF Posted
    <3>2. i # 1 /\ i - 1 \in DOMAIN posts' /\ posts'[i - 1] = posts[i]
      BY <1>1, <1>2, <1>3, <3>1
    <3> QED
      BY <3>1, <3>2 DEF Posted
  <2> QED
    BY <2>1, <2>2
<1>6. Posted(w) /\ Head(posts).host \in {cfg, None} /\ Head(posts).bg \in BOOLEAN
  BY <1>1, <1>2 DEF TunnelInv, Messages, Posted, Msg
<1> QED
  BY <1>3, <1>4, <1>5, <1>6

\* No message comes or goes.
LEMMA SameFacts ==
  ASSUME TunnelInv, UNCHANGED <<cfg, posts>>
  PROVE  /\ posts' \in Seq(Msg)
         /\ Messages' /\ \A v : Posted(v)' <=> Posted(v)
  BY DEF TunnelInv, TypeOK, Messages, Posted, Msg

\* The commands of this proof do not overlap.
Apart == Hard \subseteq {"engine_dies"}

\* What a command may assume of the others.
LEMMA GuardFacts ==
  ASSUME Apart
  PROVE  /\ MayStart \/ MayStop => /\ NoStop /\ ~Rebuilding /\ ~Posted("died") /\ ~EngineGoingDown
                                  /\ \A j \in Jobs : ~Is(j, "soft")
         /\ MayStart \/ MayRestart => NoStart
  BY DEF Apart, MayStart, MayStop, MayRestart, Allowed, StopUnderWay, StartUnderWay, SoftUnderWay,
         NoStop, NoStart, Rebuilding, StopJob, Is, Kinds

-----------------------------------------------------------------------------
(* Commands.                                                               *)

\* A stop is launched and calls off whatever start there was.
LEMMA StopStep ==
  ASSUME TunnelInv, Apart, ask' = "stop", StopTunnel
  PROVE  TunnelInv'
<1> USE DEF TunnelInv, TypeOK, native, StopTunnel, Is, StopJob, NoStop, NoStart, Rebuilding,
            Stopping, NoJob, EngineGoingDown
<1>1. /\ NoStop /\ ~Rebuilding /\ ~Posted("died") /\ ~EngineGoingDown
      /\ \A j \in Jobs : ~Is(j, "soft")
  BY GuardFacts
<1>2. posts' \in Seq(Msg) /\ Messages' /\ \A v : Posted(v)' <=> Posted(v)
  BY SameFacts
<1>3. PICK j \in Jobs : jobs[j] = NoJob /\ jobs' = [jobs EXCEPT ![j] = Stopping("stop")]
  BY DEF StopTunnel, Launch
<1>4. jobs' \in [Jobs -> JobRec]
  BY <1>3 DEF Stopping, Resolving, NoJob, JobRec
<1>5. 0 \in 0..MaxRetries /\ 0 \in 0..MaxPosts
  BY TunnelAssumption
<1>6. TypeOK'
  BY <1>4, <1>5 DEF Msg, JobRec, Statuses
<1>7. JobShape'
  BY <1>3 DEF JobShape
<1>8. Once'
  BY <1>1, <1>2, <1>3 DEF Once
<1>9. StopInv'
  BY <1>1, <1>3 DEF StopInv, Steady
<1>10. NativeInv'
  BY <1>1 DEF NativeInv, NoEngine
<1>11. RunInv'
  BY <1>1, <1>2, <1>3 DEF RunInv, NoEngine
<1>12. StartInv'
  BY <1>1, <1>2, <1>3 DEF StartInv
<1>13. AskInv'
  BY <1>3 DEF AskInv
<1> QED
  BY <1>2, <1>6, <1>7, <1>8, <1>9, <1>10, <1>11, <1>12, <1>13 DEF TunnelInv

\* A restart is launched: nothing else is under way.
LEMMA RestartStep ==
  ASSUME TunnelInv, Apart, ask' = "run", RestartTunnel,
         retries' \in 0..MaxRetries, retryPosts' \in 0..(MaxPosts - 1)
  PROVE  TunnelInv'
<1> USE DEF TunnelInv, TypeOK, native, RestartTunnel, MayRestart, Is, StopJob, NoStop,
            NoStart, Rebuilding, Stopping, NoJob, EngineGoingDown
<1>1. /\ NoStop /\ ~Rebuilding /\ ~Posted("died") /\ ~EngineGoingDown
      /\ \A j \in Jobs : ~Is(j, "soft")
      /\ NoStart
  BY GuardFacts
<1>2. posts' \in Seq(Msg) /\ Messages' /\ \A v : Posted(v)' <=> Posted(v)
  BY SameFacts
<1>3. PICK j \in Jobs : jobs[j] = NoJob /\ jobs' = [jobs EXCEPT ![j] = Stopping("restart")]
  BY DEF RestartTunnel, Launch
<1>4. jobs' \in [Jobs -> JobRec]
  BY <1>3 DEF Stopping, Resolving, NoJob, JobRec
<1>5. TypeOK'
  BY <1>4, TunnelAssumption DEF Msg, JobRec, Statuses
<1>6. JobShape'
  BY <1>3 DEF JobShape
<1>7. Once'
  BY <1>1, <1>2, <1>3 DEF Once
<1>8. StopInv'
  BY <1>1, <1>3 DEF StopInv, Steady
<1>9. NativeInv'
  BY <1>1 DEF NativeInv, NoEngine
<1>10. RunInv'
  BY <1>1, <1>2, <1>3 DEF RunInv, NoEngine
<1>11. StartInv'
  BY <1>1, <1>2, <1>3, TunnelAssumption DEF StartInv
<1>12. AskInv'
  BY <1>1, <1>3 DEF AskInv
<1> QED
  BY <1>2, <1>5, <1>6, <1>7, <1>8, <1>9, <1>10, <1>11, <1>12 DEF TunnelInv

\* The tunnel runs and nothing happens.
LEMMA StartIgnored ==
  ASSUME TunnelInv, NEW h \in Hosts, NEW bg \in BOOLEAN, StartTunnel(h, bg), isRunning,
         NoStop, NoStart, ~\E j \in Jobs : Is(j, "restart"), ~Posted("died"), ~EngineGoingDown,
         h = cfg \/ \A j \in Jobs : jobs[j] = NoJob,
         posts' \in Seq(Msg), Messages', ~Posted("continue")', ~Posted("start")', ~Posted("died")',
         ask' = "run", retryPosts' \in 0..MaxPosts, ~isRunning => retryPosts' < MaxPosts,
         UNCHANGED <<isRunning, retries, auto, native>>
  PROVE  TunnelInv'
<1> USE DEF TunnelInv, TypeOK, native, StartTunnel, Is, StopJob, NoStop, NoStart,
            Rebuilding, Resolving, NoJob, EngineGoingDown
<1>1. TypeOK'
  BY DEF Msg, JobRec, Statuses
<1>2. JobShape'
  BY DEF JobShape
<1>3. Once'
  BY DEF Once
<1>4. StopInv'
  BY DEF StopInv, Steady
<1>5. NativeInv'
  BY DEF NativeInv, NoEngine
<1>6. RunInv'
  BY DEF RunInv, NoEngine
<1>7. StartInv'
  BY DEF StartInv
<1>8. AskInv'
  BY DEF AskInv
<1> QED
  BY <1>1, <1>2, <1>3, <1>4, <1>5, <1>6, <1>7, <1>8 DEF TunnelInv

\* A start is launched.
LEMMA StartLaunched ==
  ASSUME TunnelInv, NEW h \in Hosts, NEW bg \in BOOLEAN, StartTunnel(h, bg), ~isRunning,
         NoStop, NoStart, ~\E j \in Jobs : Is(j, "restart"), ~Posted("died"), ~EngineGoingDown,
         h = cfg \/ \A j \in Jobs : jobs[j] = NoJob,
         posts' \in Seq(Msg), Messages', ~Posted("continue")', ~Posted("start")', ~Posted("died")',
         ask' = "run", retryPosts' \in 0..MaxPosts, ~isRunning => retryPosts' < MaxPosts,
         UNCHANGED <<isRunning, retries, auto, native>>
  PROVE  TunnelInv'
<1> USE DEF TunnelInv, TypeOK, native, StartTunnel, Is, StopJob, NoStop, NoStart,
            Rebuilding, Resolving, NoJob, EngineGoingDown
<1>1. PICK j \in Jobs : jobs[j] = NoJob /\ jobs' = [jobs EXCEPT ![j] = Resolving(h, bg)]
  BY DEF Launch
<1>2. jobs' \in [Jobs -> JobRec]
  BY <1>1 DEF JobRec
<1>3. /\ jobs'[j] = Resolving(h, bg) /\ \A k \in Jobs \ {j} : jobs'[k] = jobs[k]
      /\ \A k \in Jobs : jobs[k].host \in {h, None}
  BY <1>1 DEF JobShape
<1>4. TypeOK'
  BY <1>2 DEF Msg, JobRec, Statuses
<1>5. JobShape'
  BY <1>1 DEF JobShape
<1>6. Once'
  BY <1>1 DEF Once
<1>7. StopInv'
  BY <1>1, <1>2, <1>3 DEF StopInv, Steady
<1>8. NativeInv'
  BY DEF NativeInv, NoEngine, RunInv
<1>9. RunInv'
  BY DEF RunInv, NoEngine
<1>10. StartInv'
  BY <1>3 DEF StartInv
<1>11. AskInv'
  BY <1>1, <1>2, <1>3 DEF AskInv
<1> QED
  BY <1>4, <1>5, <1>6, <1>7, <1>8, <1>9, <1>10, <1>11 DEF TunnelInv

\* startTunnel with nothing else under way.
LEMMA StartStep ==
  ASSUME TunnelInv, NEW h \in Hosts, NEW bg \in BOOLEAN, StartTunnel(h, bg),
         NoStop, NoStart, ~\E j \in Jobs : Is(j, "restart"), ~Posted("died"), ~EngineGoingDown,
         h = cfg \/ \A j \in Jobs : jobs[j] = NoJob,
         posts' \in Seq(Msg), Messages', ~Posted("continue")', ~Posted("start")', ~Posted("died")',
         ask' = "run", retryPosts' \in 0..MaxPosts, ~isRunning => retryPosts' < MaxPosts,
         UNCHANGED <<isRunning, retries, auto, native>>
  PROVE  TunnelInv'
  BY StartIgnored, StartLaunched

\* Nothing is left in the looper that a start could meet.
LEMMA NobodyThere ==
  ASSUME TunnelInv, Apart, MayStart
  PROVE  /\ NoStop /\ NoStart /\ ~Rebuilding /\ ~Posted("died") /\ ~EngineGoingDown
         /\ \A j \in Jobs : jobs[j] = NoJob
         /\ posts = <<>>
<1>1. /\ NoStop /\ NoStart /\ ~Rebuilding /\ ~Posted("died") /\ ~EngineGoingDown
      /\ \A j \in Jobs : ~Is(j, "soft")
  BY GuardFacts
<1>2. \A j \in Jobs : jobs[j] = NoJob
  BY <1>1 DEF NoStop, NoStart, StopJob, Is, TunnelInv, TypeOK, JobShape
<1>3. posts = <<>>
  <2>1. \A i \in DOMAIN posts : posts[i].what \in {"continue", "start", "died"}
    <3>1. posts \in Seq(Msg)
      BY DEF TunnelInv, TypeOK, Msg
    <3>2. \A i \in DOMAIN posts : posts[i] \in Msg
      BY <3>1
    <3> QED
      BY <3>2 DEF Msg
  <2>2. DOMAIN posts = {}
    BY <1>1, <2>1 DEF NoStart, Rebuilding, Posted
  <2> QED
    BY <2>2 DEF TunnelInv, TypeOK
<1> QED
  BY <1>1, <1>2, <1>3

\* A start by the user or the system.
LEMMA CmdStartStep ==
  ASSUME TunnelInv, Apart, NEW h \in Hosts, NEW bg \in BOOLEAN, CmdStart(h, bg)
  PROVE  TunnelInv'
<1>1. /\ NoStop /\ NoStart /\ ~Rebuilding /\ ~Posted("died") /\ ~EngineGoingDown
      /\ \A j \in Jobs : jobs[j] = NoJob
      /\ posts = <<>>
  BY NobodyThere DEF CmdStart
<1>2. posts' = <<>>
  BY <1>1 DEF CmdStart
<1>3. posts' \in Seq(Msg) /\ Messages' /\ \A w : ~Posted(w)'
  BY <1>2 DEF Messages, Posted
<1>4. retryPosts' \in 0..MaxPosts /\ retryPosts' < MaxPosts
  BY DEF CmdStart, TunnelInv, TypeOK
<1> QED
  BY <1>1, <1>3, <1>4, StartStep DEF CmdStart, Rebuilding

\* A delayed retry.
LEMMA RetryStep ==
  ASSUME TunnelInv, Apart, RetryFires
  PROVE  TunnelInv'
<1>1. /\ NoStop /\ NoStart /\ ~Rebuilding /\ ~Posted("died") /\ ~EngineGoingDown
      /\ \A j \in Jobs : jobs[j] = NoJob
      /\ posts = <<>>
  BY NobodyThere DEF RetryFires
<1>2. posts' = <<>>
  BY <1>1 DEF RetryFires
<1>3. posts' \in Seq(Msg) /\ Messages' /\ \A w : ~Posted(w)'
  BY <1>2 DEF Messages, Posted
<1>4. retryPosts' \in 0..MaxPosts /\ retryPosts' < MaxPosts
  BY TunnelAssumption DEF RetryFires, TunnelInv, TypeOK
<1>5. ask = "run" /\ cfg \in Hosts /\ TRUE \in BOOLEAN
  BY DEF RetryFires, TunnelInv, TypeOK, AskInv
<1> QED
  BY <1>1, <1>3, <1>4, <1>5, StartStep DEF RetryFires, Rebuilding

\* The second half of a restart.
LEMMA RestartPostedStep ==
  ASSUME TunnelInv, RestartPosted
  PROVE  TunnelInv'
<1>1. UNCHANGED cfg
  BY DEF RestartPosted, StartTunnel
<1>2. /\ posts' \in Seq(Msg) /\ Messages' /\ \A v : Posted(v)' <=> Posted(v) /\ v # "start"
      /\ Posted("start")
  BY <1>1, HandleFacts DEF RestartPosted
<1>3. ~isRunning /\ NoStart /\ ask = "run" /\ retryPosts < MaxPosts /\ ~Posted("died")
  BY <1>2 DEF TunnelInv, StartInv, RunInv, Rebuilding
<1>4. NoStop /\ (~\E j \in Jobs : Is(j, "restart")) /\ NoEngine
  BY <1>2, <1>3 DEF TunnelInv, Once, RunInv, NoStop, StopJob
<1>5. ~Posted("continue")' /\ ~Posted("start")' /\ ~Posted("died")'
  BY <1>2, <1>3 DEF NoStart
<1>6. ~EngineGoingDown /\ cfg \in Hosts /\ TRUE \in BOOLEAN /\ retryPosts \in 0..MaxPosts
  BY <1>4 DEF NoEngine, EngineGoingDown, TunnelInv, TypeOK
<1>7. StartTunnel(cfg, TRUE) /\ UNCHANGED <<ask, isRunning, retries, retryPosts, auto, native>>
  BY <1>3 DEF RestartPosted
<1> QED
  BY <1>2, <1>3, <1>4, <1>5, <1>6, <1>7, StartStep

-----------------------------------------------------------------------------
(* Messages.                                                               *)

\* The start was called off meanwhile.
LEMMA ContinueDroppedStep ==
  ASSUME TunnelInv, ContinueDropped
  PROVE  TunnelInv'
<1> USE DEF TunnelInv, TypeOK, native, Is, StopJob, NoStop, NoStart, Rebuilding,
            ContinueDropped, svc
<1>1. /\ posts' \in Seq(Msg) /\ Messages' /\ ~Posted("continue")'
      /\ Posted("continue") /\ (Posted("start")' <=> Posted("start")) /\ (Posted("died")' <=> Posted("died"))
      /\ Head(posts).host \in {cfg, None} /\ Head(posts).bg \in BOOLEAN
  BY HandleFacts DEF ContinueDropped, svc
<1>2. TypeOK'
  BY <1>1 DEF Msg, JobRec, Statuses
<1>3. JobShape'
  BY DEF JobShape
<1>4. Once'
  BY <1>1 DEF Once
<1>5. StopInv'
  BY DEF StopInv, Steady, NoEngine
<1>6. NativeInv'
  BY DEF NativeInv, NoEngine
<1>7. RunInv'
  BY <1>1 DEF RunInv, NoEngine
<1>8. StartInv'
  BY <1>1 DEF StartInv
<1>9. AskInv'
  BY <1>1 DEF AskInv
<1> QED
  BY <1>1, <1>2, <1>3, <1>4, <1>5, <1>6, <1>7, <1>8, <1>9 DEF TunnelInv

\* The name did not resolve, or establish() refused.
LEMMA ContinueFailsStep ==
  ASSUME TunnelInv, ContinueFails
  PROVE  TunnelInv'
<1> USE DEF TunnelInv, TypeOK, native, Is, StopJob, NoStop, NoStart, Rebuilding,
            ContinueFails, StartFailed
<1>1. /\ posts' \in Seq(Msg) /\ Messages' /\ ~Posted("continue")'
      /\ Posted("continue") /\ (Posted("start")' <=> Posted("start")) /\ (Posted("died")' <=> Posted("died"))
      /\ Head(posts).host \in {cfg, None} /\ Head(posts).bg \in BOOLEAN
  BY HandleFacts DEF ContinueFails, svc
<1>2. /\ ~isRunning /\ ask = "run" /\ retryPosts < MaxPosts /\ NoStop
      /\ starts = <<>> /\ NoEngine /\ ~gRun
  BY DEF StartInv, RunInv
<1>3. /\ retries' \in 0..MaxRetries /\ retryPosts' \in 0..MaxPosts /\ status' \in Statuses
      /\ retryPosts' > 0 \/ status' = "failed"
  BY <1>1, <1>2, TunnelAssumption DEF Statuses
<1>4. TypeOK'
  BY <1>1, <1>3 DEF Msg, JobRec, Statuses
<1>5. JobShape'
  BY DEF JobShape
<1>6. Once'
  BY <1>1 DEF Once
<1>7. StopInv'
  BY DEF StopInv, Steady, NoEngine
<1>8. NativeInv'
  BY DEF NativeInv, NoEngine
<1>9. RunInv'
  BY <1>1, <1>2 DEF RunInv, NoEngine
<1>10. StartInv'
  BY <1>1 DEF StartInv
<1>11. AskInv'
  BY <1>2 DEF AskInv
<1> QED
  BY <1>1, <1>4, <1>5, <1>6, <1>7, <1>8, <1>9, <1>10, <1>11 DEF TunnelInv

\* The descriptor goes to a native side that has nothing running.
LEMMA ContinueSucceedsStep ==
  ASSUME TunnelInv, ContinueSucceeds
  PROVE  TunnelInv'
<1> USE DEF TunnelInv, TypeOK, native, Is, StopJob, NoStop, NoStart, Rebuilding,
            ContinueSucceeds, NativeStart
<1>1. /\ posts' \in Seq(Msg) /\ Messages' /\ ~Posted("continue")'
      /\ Posted("continue") /\ (Posted("start")' <=> Posted("start")) /\ (Posted("died")' <=> Posted("died"))
      /\ Head(posts).host \in {cfg, None} /\ Head(posts).bg \in BOOLEAN
  BY HandleFacts DEF ContinueSucceeds, svc
<1>2. /\ ~isRunning /\ ask = "run" /\ 0 \in 0..MaxRetries /\ starts = <<>>
      /\ NoEngine /\ ~gRun /\ NoStop /\ ~Rebuilding /\ ~Posted("died")
  BY <1>1, TunnelAssumption DEF StartInv, RunInv
<1>3. /\ Head(posts).host = cfg /\ tunFlag' = TRUE /\ UNCHANGED tunLost
      /\ starts' \in Seq(Hosts) /\ Len(starts') = 1 /\ starts'[1] = cfg /\ starts' # <<>>
  <2>1. /\ Head(posts).host = cfg /\ tunFlag' = TRUE
        /\ UNCHANGED tunLost /\ starts' = Append(starts, cfg)
    BY <1>1, <1>2
  <2> QED
    BY <1>2, <2>1
<1>4. TypeOK'
  BY <1>1, <1>2, <1>3 DEF Msg, JobRec, Statuses
<1>5. JobShape'
  BY DEF JobShape
<1>6. Once'
  BY <1>1 DEF Once
<1>7. StopInv'
  BY <1>2 DEF StopInv, Steady
<1>8. NativeInv'
  BY <1>2, <1>3 DEF NativeInv, NoEngine
<1>9. RunInv'
  BY <1>1, <1>2, <1>3 DEF RunInv
<1>10. StartInv'
  BY <1>1 DEF StartInv
<1>11. AskInv'
  BY <1>2 DEF AskInv
<1> QED
  BY <1>1, <1>4, <1>5, <1>6, <1>7, <1>8, <1>9, <1>10, <1>11 DEF TunnelInv

\* The engine has ended by itself.
LEMMA EngineStoppedStep ==
  ASSUME TunnelInv, EngineStopped
  PROVE  TunnelInv'
<1> USE DEF TunnelInv, TypeOK, native, Is, StopJob, NoStop, NoStart, Rebuilding,
            EngineStopped
<1>1. /\ posts' \in Seq(Msg) /\ Messages' /\ ~Posted("died")'
      /\ Posted("died") /\ (Posted("continue")' <=> Posted("continue")) /\ (Posted("start")' <=> Posted("start"))
      /\ Head(posts).host \in {cfg, None} /\ Head(posts).bg \in BOOLEAN
  BY HandleFacts DEF EngineStopped, svc
<1>2. TypeOK'
  BY <1>1 DEF Msg, JobRec, Statuses
<1>3. JobShape'
  BY DEF JobShape
<1>4. Once'
  BY <1>1 DEF Once
<1>5. StopInv'
  BY DEF StopInv, Steady, NoEngine
<1>6. NativeInv'
  BY DEF NativeInv, NoEngine
<1>7. RunInv'
  BY <1>1 DEF RunInv, NoEngine
<1>8. StartInv'
  BY <1>1 DEF StartInv
<1>9. AskInv'
  BY <1>1 DEF AskInv
<1> QED
  BY <1>1, <1>2, <1>3, <1>4, <1>5, <1>6, <1>7, <1>8, <1>9 DEF TunnelInv

\* The watchdog's Runnable finds nothing to do,
LEMMA AutoIdle ==
  ASSUME TunnelInv, AutoFires, UNCHANGED jobs
  PROVE  TunnelInv'
<1> USE DEF TunnelInv, TypeOK, native, Is, StopJob, NoStop, NoStart, Rebuilding, AutoFires
<1>1. /\ posts' \in Seq(Msg) /\ Messages'
      /\ (Posted("continue")' <=> Posted("continue")) /\ (Posted("start")' <=> Posted("start"))
      /\ (Posted("died")' <=> Posted("died"))
  BY SameFacts DEF AutoFires, svc
<1>2. TypeOK'
  BY DEF Msg, JobRec, Statuses
<1>3. JobShape'
  BY DEF JobShape
<1>4. Once'
  BY <1>1 DEF Once
<1>5. StopInv'
  BY DEF StopInv, Steady, NoEngine
<1>6. NativeInv'
  BY DEF NativeInv, NoEngine
<1>7. RunInv'
  BY <1>1 DEF RunInv, NoEngine
<1>8. StartInv'
  BY <1>1 DEF StartInv
<1>9. AskInv'
  BY <1>1 DEF AskInv
<1> QED
  BY <1>1, <1>2, <1>3, <1>4, <1>5, <1>6, <1>7, <1>8, <1>9 DEF TunnelInv

\* or launches a soft reconnect.
LEMMA AutoSoft ==
  ASSUME TunnelInv, AutoFires, jobs' # jobs
  PROVE  TunnelInv'
<1> USE DEF TunnelInv, TypeOK, native, Is, StopJob, NoStop, NoStart, Rebuilding, AutoFires,
            NoJob
<1>1. /\ posts' \in Seq(Msg) /\ Messages'
      /\ (Posted("continue")' <=> Posted("continue")) /\ (Posted("start")' <=> Posted("start"))
      /\ (Posted("died")' <=> Posted("died"))
  BY SameFacts DEF AutoFires, svc
<1>2. PICK j \in Jobs :
         /\ jobs[j] = NoJob
         /\ jobs' = [jobs EXCEPT ![j] = [NoJob EXCEPT !.kind = "soft", !.pc = "resolve", !.host = cfg]]
  BY DEF Launch
<1>3. /\ jobs' \in [Jobs -> JobRec] /\ \A k \in Jobs \ {j} : jobs'[k] = jobs[k]
      /\ jobs'[j].kind = "soft" /\ jobs'[j].host = cfg /\ jobs'[j].pc = "resolve"
      /\ jobs[j].kind = "none"
  <2>1. jobs \in [Jobs -> JobRec] /\ cfg \in Hosts
    BY DEF JobRec
  <2> DEFINE r == [NoJob EXCEPT !.kind = "soft", !.pc = "resolve", !.host = cfg]
  <2>2. r.kind = "soft" /\ r.host = cfg /\ r.pc = "resolve" /\ r.bg = FALSE
    OBVIOUS
  <2>3. r \in JobRec
    BY <2>1 DEF JobRec
  <2>4. jobs' = [jobs EXCEPT ![j] = r] /\ jobs[j].kind = "none"
    BY <1>2
  <2> HIDE DEF r, TunnelInv, TypeOK, Is, StopJob, AutoFires
  <2> QED
    BY <2>1, <2>2, <2>3, <2>4
<1>4. TypeOK'
  BY <1>3 DEF Msg, JobRec, Statuses
<1>5. JobShape'
  BY <1>3 DEF JobShape
<1>6. Once'
  BY <1>1, <1>2, <1>3 DEF Once
<1>7. StopInv'
  BY <1>1, <1>2, <1>3 DEF StopInv, Steady, NoEngine
<1>8. NativeInv'
  BY <1>3 DEF NativeInv, NoEngine
<1>9. RunInv'
  BY <1>1, <1>3 DEF RunInv, NoEngine
<1>10. StartInv'
  BY <1>1, <1>3 DEF StartInv
<1>11. AskInv'
  BY <1>3 DEF AskInv
<1> QED
  BY <1>1, <1>4, <1>5, <1>6, <1>7, <1>8, <1>9, <1>10, <1>11 DEF TunnelInv

-----------------------------------------------------------------------------
(* Coroutines.                                                             *)

\* A resolution is posted.
LEMMA ResolveStep ==
  ASSUME TunnelInv, NEW j \in Jobs, Resolve(j)
  PROVE  TunnelInv'
<1> USE DEF TunnelInv, TypeOK, native, svc, Is, StopJob, NoStop, NoStart, Rebuilding, JobAt,
            JobGoto, Resolve, JobEnds, NoJob
<1>1. PICK h \in {jobs[j].host, None} : Post([what |-> "continue", host |-> h, bg |-> jobs[j].bg])
  OBVIOUS
<1>2. [what |-> "continue", host |-> h, bg |-> jobs[j].bg]
         \in [what: {"continue", "start", "died"}, host: {cfg, None}, bg: BOOLEAN]
  BY <1>1 DEF JobShape
<1>3. /\ posts' \in Seq(Msg) /\ Messages'
      /\ Posted("continue")' /\ (Posted("start")' <=> Posted("start")) /\ (Posted("died")' <=> Posted("died"))
  BY <1>1, <1>2, PostFacts DEF Once
<1>4. TypeOK'
  BY <1>3 DEF Msg, JobRec, Statuses
<1>5. JobShape'
  BY DEF JobShape
<1>6. Once'
  BY <1>3 DEF Once
<1>7. StopInv'
  BY DEF StopInv, Steady, NoEngine
<1>8. NativeInv'
  BY DEF NativeInv, NoEngine
<1>9. RunInv'
  BY <1>3 DEF RunInv, NoEngine
<1>10. StartInv'
  BY <1>3 DEF StartInv
<1>11. AskInv'
  BY <1>3 DEF AskInv
<1> QED
  BY <1>3, <1>4, <1>5, <1>6, <1>7, <1>8, <1>9, <1>10, <1>11 DEF TunnelInv

\* The first tun_socks_stop of a stop.
LEMMA StopFirstStep ==
  ASSUME TunnelInv, NEW j \in Jobs, StopFirst(j)
  PROVE  TunnelInv'
<1> USE DEF TunnelInv, TypeOK, native, svc, Is, StopJob, NoStop, NoStart, Rebuilding, JobAt,
            JobGoto, SocksStop, StopFirst
<1>1. /\ posts' \in Seq(Msg) /\ Messages'
      /\ (Posted("continue")' <=> Posted("continue")) /\ (Posted("start")' <=> Posted("start"))
      /\ (Posted("died")' <=> Posted("died"))
  BY SameFacts DEF StopFirst, svc
<1>2. /\ StopJob(j) /\ \A k \in Jobs \ {j} : ~StopJob(k)
  BY DEF JobShape, Once
<1>3. PICK pc \in {"join1", "thread"} :
         /\ jobs' = [jobs EXCEPT ![j].pc = pc] /\ jobs[j].pc = "stop1"
         /\ ~gRun' /\ (pc = "join1" <=> gRun)
  OBVIOUS
<1>4. /\ jobs' \in [Jobs -> JobRec] /\ \A k \in Jobs \ {j} : jobs'[k] = jobs[k]
      /\ jobs'[j].kind = jobs[j].kind /\ jobs'[j].host = jobs[j].host /\ jobs'[j].pc = pc
  <2> HIDE DEF StopJob, Is
  <2> QED
    BY <1>3 DEF JobRec
<1>5. gRun => starts = <<>>
  BY DEF NativeInv
<1>6. TypeOK'
  BY <1>4 DEF Msg, JobRec, Statuses
<1>7. JobShape'
  BY <1>4 DEF JobShape
<1>8. Once'
  BY <1>1 DEF Once
<1>9. StopInv'
  BY <1>2, <1>5 DEF StopInv, Steady
<1>10. NativeInv'
  BY DEF NativeInv, NoEngine
<1>11. RunInv'
  BY <1>1 DEF RunInv, NoEngine
<1>12. StartInv'
  BY <1>1, <1>2, <1>3, <1>4, <1>5 DEF StartInv
<1>13. AskInv'
  BY <1>2 DEF AskInv
<1> QED
  BY <1>1, <1>6, <1>7, <1>8, <1>9, <1>10, <1>11, <1>12, <1>13 DEF TunnelInv

\* The engine that was told to leave has ended.
LEMMA StopJoinsStep ==
  ASSUME TunnelInv, NEW j \in Jobs, StopJoins(j)
  PROVE  TunnelInv'
<1> USE DEF TunnelInv, TypeOK, native, svc, Is, StopJob, NoStop, NoStart, Rebuilding, JobAt,
            JobGoto, Joined, StopJoins
<1>1. /\ posts' \in Seq(Msg) /\ Messages'
      /\ (Posted("continue")' <=> Posted("continue")) /\ (Posted("start")' <=> Posted("start"))
      /\ (Posted("died")' <=> Posted("died"))
  BY SameFacts DEF StopJoins, svc
<1>2. /\ StopJob(j) /\ \A k \in Jobs \ {j} : ~StopJob(k)
  BY DEF JobShape, Once
<1>3. PICK pc \in {"thread", "close"} :
         /\ jobs' = [jobs EXCEPT ![j].pc = pc]
         /\ jobs[j].pc = (IF pc = "thread" THEN "join1" ELSE "join2")
  OBVIOUS
<1>4. /\ jobs' \in [Jobs -> JobRec] /\ \A k \in Jobs \ {j} : jobs'[k] = jobs[k]
      /\ jobs'[j].kind = jobs[j].kind /\ jobs'[j].host = jobs[j].host /\ jobs'[j].pc = pc
  <2> HIDE DEF StopJob, Is
  <2> QED
    BY <1>3 DEF JobRec
<1>5. NoEngine /\ ~gRun
  BY <1>2, <1>3, TunnelAssumption DEF NativeInv, StopInv, NoEngine
<1>6. TypeOK'
  BY <1>4 DEF Msg, JobRec, Statuses
<1>7. JobShape'
  BY <1>4 DEF JobShape
<1>8. Once'
  BY <1>1, <1>3 DEF Once
<1>9. StopInv'
  BY <1>1, <1>2, <1>3, <1>4, <1>5 DEF StopInv, Steady, NoEngine
<1>10. NativeInv'
  BY DEF NativeInv, NoEngine
<1>11. RunInv'
  BY <1>1, <1>2, <1>3, <1>4, <1>5 DEF RunInv, NoEngine
<1>12. StartInv'
  BY <1>1, <1>2, <1>3, <1>4, <1>5 DEF StartInv
<1>13. AskInv'
  BY <1>2 DEF AskInv
<1> QED
  BY <1>1, <1>6, <1>7, <1>8, <1>9, <1>10, <1>11, <1>12, <1>13 DEF TunnelInv

\* The starter thread is joined.
LEMMA StopThreadStep ==
  ASSUME TunnelInv, NEW j \in Jobs, StopThread(j)
  PROVE  TunnelInv'
<1> USE DEF TunnelInv, TypeOK, native, svc, Is, StopJob, NoStop, NoStart, Rebuilding, JobAt,
            JobGoto, StopThread
<1>1. /\ posts' \in Seq(Msg) /\ Messages'
      /\ (Posted("continue")' <=> Posted("continue")) /\ (Posted("start")' <=> Posted("start"))
      /\ (Posted("died")' <=> Posted("died"))
  BY SameFacts DEF StopThread, svc
<1>2. /\ StopJob(j) /\ \A k \in Jobs \ {j} : ~StopJob(k)
  BY DEF JobShape, Once
<1>3. starts = <<>>
  BY DEF NativeInv
<1>4. TypeOK'
  BY DEF Msg, JobRec, Statuses
<1>5. JobShape'
  BY DEF JobShape
<1>6. Once'
  BY <1>1 DEF Once
<1>7. StopInv'
  BY <1>3 DEF StopInv, Steady, NoEngine
<1>8. NativeInv'
  BY DEF NativeInv
<1>9. RunInv'
  BY <1>1 DEF RunInv, NoEngine
<1>10. StartInv'
  BY <1>1 DEF StartInv
<1>11. AskInv'
  BY <1>2 DEF AskInv
<1> QED
  BY <1>1, <1>4, <1>5, <1>6, <1>7, <1>8, <1>9, <1>10, <1>11 DEF TunnelInv

\* The second tun_socks_stop.
LEMMA StopSecondStep ==
  ASSUME TunnelInv, NEW j \in Jobs, StopSecond(j)
  PROVE  TunnelInv'
<1> USE DEF TunnelInv, TypeOK, native, svc, Is, StopJob, NoStop, NoStart, Rebuilding, JobAt,
            JobGoto, SocksStop, StopSecond
<1>1. /\ posts' \in Seq(Msg) /\ Messages'
      /\ (Posted("continue")' <=> Posted("continue")) /\ (Posted("start")' <=> Posted("start"))
      /\ (Posted("died")' <=> Posted("died"))
  BY SameFacts DEF StopSecond, svc
<1>2. /\ StopJob(j) /\ \A k \in Jobs \ {j} : ~StopJob(k)
  BY DEF JobShape, Once
<1>3. PICK pc \in {"join2", "close"} :
         /\ jobs' = [jobs EXCEPT ![j].pc = pc] /\ jobs[j].pc = "stop2"
         /\ ~gRun' /\ (pc = "join2" <=> gRun)
  OBVIOUS
<1>4. /\ jobs' \in [Jobs -> JobRec] /\ \A k \in Jobs \ {j} : jobs'[k] = jobs[k]
      /\ jobs'[j].kind = jobs[j].kind /\ jobs'[j].host = jobs[j].host /\ jobs'[j].pc = pc
  <2> HIDE DEF StopJob, Is
  <2> QED
    BY <1>3 DEF JobRec
<1>5. starts = <<>> /\ (pc = "close" => NoEngine)
  BY <1>2, <1>3 DEF StopInv, NativeInv, Steady, NoEngine
<1>6. TypeOK'
  BY <1>4 DEF Msg, JobRec, Statuses
<1>7. JobShape'
  BY <1>4 DEF JobShape
<1>8. Once'
  BY <1>1, <1>5 DEF Once
<1>9. StopInv'
  BY <1>2, <1>4, <1>5 DEF StopInv, NoEngine
<1>10. NativeInv'
  BY DEF NativeInv, NoEngine
<1>11. RunInv'
  BY <1>1 DEF RunInv, NoEngine
<1>12. StartInv'
  BY <1>1, <1>2, <1>3, <1>4, <1>5 DEF StartInv
<1>13. AskInv'
  BY <1>2 DEF AskInv
<1> QED
  BY <1>1, <1>6, <1>7, <1>8, <1>9, <1>10, <1>11, <1>12, <1>13 DEF TunnelInv

\* Everything native is gone; a restart goes on.
LEMMA StopEndsStep ==
  ASSUME TunnelInv, NEW j \in Jobs, StopEnds(j)
  PROVE  TunnelInv'
<1> USE DEF TunnelInv, TypeOK, native, svc, Is, StopJob, NoStop, NoStart, Rebuilding, JobAt,
            JobGoto, StopEnds, JobEnds, NoJob, Message
<1>1. /\ StopJob(j) /\ ~Posted("start") /\ ~Posted("died") /\ jobs[j].pc = "close"
      /\ starts = <<>> /\ NoEngine /\ ~gRun /\ ~startPending
  BY DEF JobShape, Once, StopInv, RunInv, StartInv
<1>2. /\ posts' \in Seq(Msg) /\ Messages' /\ (Posted("continue")' <=> Posted("continue")) /\ ~Posted("died")'
      /\ (Posted("start")' <=> jobs[j].kind = "restart")
  <2>1. CASE jobs[j].kind = "restart"
    <3>1. /\ Message("start")
             \in [what: {"continue", "start", "died"}, host: {cfg, None}, bg: BOOLEAN]
          /\ Message("start").what = "start" /\ Post(Message("start"))
      BY <2>1
    <3> QED
      BY <1>1, <2>1, <3>1, PostFacts
  <2>2. CASE jobs[j].kind # "restart"
    BY <1>1, <2>2, SameFacts
  <2> QED
    BY <2>1, <2>2
<1>3. /\ StopJob(j) /\ \A k \in Jobs \ {j} : ~StopJob(k)
  BY DEF JobShape, Once
<1>4. TypeOK'
  BY <1>2 DEF Msg, JobRec, Statuses
<1>5. JobShape'
  BY DEF JobShape
<1>6. Once'
  BY <1>2 DEF Once
<1>7. StopInv'
  BY DEF StopInv, Steady, NoEngine
<1>8. NativeInv'
  BY DEF NativeInv, NoEngine
<1>9. RunInv'
  BY <1>1, <1>2 DEF RunInv, NoEngine
<1>10. StartInv'
  BY <1>2, <1>3 DEF StartInv
<1>11. AskInv'
  BY <1>2, <1>3 DEF AskInv
<1> QED
  BY <1>2, <1>4, <1>5, <1>6, <1>7, <1>8, <1>9, <1>10, <1>11 DEF TunnelInv

\* A soft reconnect resolves the configured host,
LEMMA SoftResolveStep ==
  ASSUME TunnelInv, NEW j \in Jobs, SoftResolve(j)
  PROVE  TunnelInv'
<1> USE DEF TunnelInv, TypeOK, native, svc, Is, StopJob, NoStop, NoStart, Rebuilding, JobAt,
            JobGoto, SoftResolve
<1>1. /\ posts' \in Seq(Msg) /\ Messages'
      /\ (Posted("continue")' <=> Posted("continue")) /\ (Posted("start")' <=> Posted("start"))
      /\ (Posted("died")' <=> Posted("died"))
  BY SameFacts DEF SoftResolve, svc
<1>2. PICK h \in {cfg, None} :
         jobs' = [jobs EXCEPT ![j].host = h, ![j].pc = "reconnect"] /\ jobs[j].pc = "resolve"
  BY DEF JobShape
<1>3. /\ jobs' \in [Jobs -> JobRec] /\ \A k \in Jobs \ {j} : jobs'[k] = jobs[k]
      /\ jobs'[j].kind = "soft" /\ jobs'[j].host = h /\ jobs'[j].pc = "reconnect"
  BY <1>2 DEF JobRec
<1>4. TypeOK'
  BY <1>1, <1>2, <1>3, TunnelAssumption DEF Msg, JobRec, Statuses
<1>5. JobShape'
  BY DEF JobShape
<1>6. Once'
  BY <1>3 DEF Once
<1>7. StopInv'
  BY <1>3 DEF StopInv, Steady, NoEngine
<1>8. NativeInv'
  BY DEF NativeInv
<1>9. RunInv'
  BY <1>1 DEF RunInv
<1>10. StartInv'
  BY <1>1, <1>2, <1>3 DEF StartInv
<1>11. AskInv'
  BY <1>1 DEF AskInv
<1> QED
  BY <1>1, <1>4, <1>5, <1>6, <1>7, <1>8, <1>9, <1>10, <1>11 DEF TunnelInv

\* and hands it to the engine.
LEMMA SoftReconnectStep ==
  ASSUME TunnelInv, NEW j \in Jobs, SoftReconnect(j)
  PROVE  TunnelInv'
<1> USE DEF TunnelInv, TypeOK, native, svc, Is, StopJob, NoStop, NoStart, Rebuilding, JobAt,
            JobGoto, SoftReconnect, JobEnds, NoJob
<1>1. /\ posts' \in Seq(Msg) /\ Messages'
      /\ (Posted("continue")' <=> Posted("continue")) /\ (Posted("start")' <=> Posted("start"))
      /\ (Posted("died")' <=> Posted("died"))
  BY SameFacts DEF SoftReconnect, svc
<1>2. jobs[j].kind = "soft" /\ (srv' = srv \/ srv' = cfg)
  BY DEF JobShape
<1>3. TypeOK'
  BY DEF Msg, JobRec, Statuses
<1>4. JobShape'
  BY DEF JobShape
<1>5. Once'
  BY <1>1 DEF Once
<1>6. StopInv'
  BY DEF StopInv, Steady, NoEngine
<1>7. NativeInv'
  BY <1>2 DEF NativeInv, NoEngine
<1>8. RunInv'
  BY <1>1 DEF RunInv, NoEngine
<1>9. StartInv'
  BY <1>1 DEF StartInv
<1>10. AskInv'
  BY <1>1 DEF AskInv
<1> QED
  BY <1>1, <1>3, <1>4, <1>5, <1>6, <1>7, <1>8, <1>9, <1>10 DEF TunnelInv

-----------------------------------------------------------------------------
(* Native threads.                                                         *)

\* The one thread that starts finds no engine.
LEMMA ThreadStartsStep ==
  ASSUME TunnelInv, ThreadStarts
  PROVE  TunnelInv'
<1> USE DEF TunnelInv, TypeOK, native, svc, io, Is, StopJob, NoStop, NoStart, Rebuilding,
            ThreadStarts
<1>1. /\ posts' \in Seq(Msg) /\ Messages'
      /\ (Posted("continue")' <=> Posted("continue")) /\ (Posted("start")' <=> Posted("start"))
      /\ (Posted("died")' <=> Posted("died"))
  BY SameFacts DEF ThreadStarts, io, svc
<1>2. /\ Len(starts) = 1 /\ starts[1] = cfg /\ ~gRun /\ NoEngine /\ isRunning /\ ~Posted("died")
  BY DEF NativeInv, RunInv
<1>3. starts' = <<>> /\ srv' = cfg /\ gRun' /\ UNCHANGED <<jobs, tunLost>>
  BY <1>2
<1>4. PICK e \in Engines : engines' = [engines EXCEPT ![e] = "loop"] /\ gEng' = e
  BY <1>2
<1>5. /\ engines' \in [Engines -> {"none", "loop", "closing", "dying"}] /\ engines'[e] = "loop"
      /\ \A x \in Engines \ {e} : engines'[x] = "none"
  BY <1>2, <1>4 DEF NoEngine
<1>6. TypeOK'
  BY <1>3, <1>4 DEF Msg, JobRec, Statuses
<1>7. JobShape'
  BY DEF JobShape
<1>8. Once'
  BY <1>1 DEF Once
<1>9. StopInv'
  BY DEF StopInv, Steady
<1>10. NativeInv'
  BY DEF NativeInv, NoEngine
<1>11. RunInv'
  BY <1>1, <1>5 DEF RunInv, NoEngine
<1>12. StartInv'
  BY <1>1 DEF StartInv
<1>13. AskInv'
  BY <1>2 DEF AskInv
<1> QED
  BY <1>1, <1>6, <1>7, <1>8, <1>9, <1>10, <1>11, <1>12, <1>13 DEF TunnelInv

\* Only an engine that is being stopped leaves.
LEMMA EngineLeavesStep ==
  ASSUME TunnelInv, NEW e \in Engines, EngineLeaves(e)
  PROVE  TunnelInv'
<1> USE DEF TunnelInv, TypeOK, native, svc, io, Is, StopJob, NoStop, NoStart, Rebuilding,
            EngineLeaves, EngineSet
<1>1. /\ posts' \in Seq(Msg) /\ Messages'
      /\ (Posted("continue")' <=> Posted("continue")) /\ (Posted("start")' <=> Posted("start"))
      /\ (Posted("died")' <=> Posted("died"))
  BY SameFacts DEF EngineLeaves, io, svc
<1>2. ~NoStop /\ ~Steady
  BY DEF StopInv, Steady
<1>3. TypeOK'
  BY DEF Msg, JobRec, Statuses
<1>4. JobShape'
  BY DEF JobShape
<1>5. Once'
  BY <1>1 DEF Once
<1>6. StopInv'
  BY DEF StopInv, Steady, NoEngine
<1>7. NativeInv'
  BY DEF NativeInv, NoEngine
<1>8. RunInv'
  BY <1>1 DEF RunInv, NoEngine
<1>9. StartInv'
  BY <1>1 DEF StartInv
<1>10. AskInv'
  BY <1>2 DEF AskInv
<1> QED
  BY <1>1, <1>3, <1>4, <1>5, <1>6, <1>7, <1>8, <1>9, <1>10 DEF TunnelInv

\* An engine dies while nobody stops it.
LEMMA EngineDiesStep ==
  ASSUME TunnelInv, Apart, NEW e \in Engines, EngineDies(e)
  PROVE  TunnelInv'
<1> USE DEF TunnelInv, TypeOK, native, svc, io, Is, StopJob, NoStop, NoStart, Rebuilding,
            EngineDies, EngineSet
<1>1. /\ posts' \in Seq(Msg) /\ Messages'
      /\ (Posted("continue")' <=> Posted("continue")) /\ (Posted("start")' <=> Posted("start"))
      /\ (Posted("died")' <=> Posted("died"))
  BY SameFacts DEF EngineDies, io, svc
<1>2. NoStop /\ ~Posted("died") /\ ~Posted("start")
  BY DEF Apart, Allowed, StopUnderWay, Kinds
<1>3. isRunning /\ starts = <<>>
  BY DEF RunInv, NativeInv, NoEngine
<1>4. \A x \in Engines \ {e} : engines[x] = "none"
  BY DEF NativeInv
<1>5. TypeOK'
  BY DEF Msg, JobRec, Statuses
<1>6. JobShape'
  BY DEF JobShape
<1>7. Once'
  BY <1>1 DEF Once
<1>8. StopInv'
  BY <1>4 DEF StopInv, Steady
<1>9. NativeInv'
  BY <1>2 DEF NativeInv
<1>10. RunInv'
  BY <1>1 DEF RunInv, NoEngine
<1>11. StartInv'
  BY <1>1 DEF StartInv
<1>12. AskInv'
  BY <1>3 DEF AskInv
<1> QED
  BY <1>1, <1>5, <1>6, <1>7, <1>8, <1>9, <1>10, <1>11, <1>12 DEF TunnelInv

\* The end of an engine that was stopped,
LEMMA EngineClosedStep ==
  ASSUME TunnelInv, NEW e \in Engines, EngineEnds(e), engines[e] = "closing"
  PROVE  TunnelInv'
<1> USE DEF TunnelInv, TypeOK, native, svc, io, Is, StopJob, NoStop, NoStart, Rebuilding,
            EngineEnds, EngineSet
<1>1. /\ posts' \in Seq(Msg) /\ Messages'
      /\ (Posted("continue")' <=> Posted("continue")) /\ (Posted("start")' <=> Posted("start"))
      /\ (Posted("died")' <=> Posted("died"))
  BY SameFacts DEF EngineEnds, io, svc
<1>2. ~NoStop
  BY DEF StopInv, Steady
<1>3. TypeOK'
  BY DEF Msg, JobRec, Statuses
<1>4. JobShape'
  BY DEF JobShape
<1>5. Once'
  BY <1>1 DEF Once
<1>6. StopInv'
  BY DEF StopInv, Steady, NoEngine
<1>7. NativeInv'
  BY DEF NativeInv, NoEngine
<1>8. RunInv'
  BY <1>1, <1>2 DEF RunInv, NoEngine
<1>9. StartInv'
  BY <1>1 DEF StartInv
<1>10. AskInv'
  BY <1>2 DEF AskInv
<1> QED
  BY <1>1, <1>3, <1>4, <1>5, <1>6, <1>7, <1>8, <1>9, <1>10 DEF TunnelInv

\* and of one that died.
LEMMA EngineDiedStep ==
  ASSUME TunnelInv, NEW e \in Engines, EngineEnds(e), engines[e] = "dying"
  PROVE  TunnelInv'
<1> USE DEF TunnelInv, TypeOK, native, svc, io, Is, StopJob, NoStop, NoStart, Rebuilding,
            EngineEnds, EngineSet, Message
<1>1. NoStop /\ isRunning /\ ~gRun /\ starts = <<>> /\ ~Posted("died") /\ ~Posted("start")
  BY DEF NativeInv, RunInv, StartInv, NoEngine
<1>2. /\ posts' \in Seq(Msg) /\ Messages' /\ Posted("died")'
      /\ (Posted("continue")' <=> Posted("continue")) /\ ~Posted("start")'
  <2>1. /\ Message("died") \in [what: {"continue", "start", "died"}, host: {cfg, None}, bg: BOOLEAN]
        /\ Message("died").what = "died" /\ Post(Message("died"))
    OBVIOUS
  <2> QED
    BY <1>1, <2>1, PostFacts
<1>3. /\ engines' \in [Engines -> {"none", "loop", "closing", "dying"}] /\ engines'[e] = "none"
      /\ \A x \in Engines \ {e} : engines'[x] = engines[x]
  OBVIOUS
<1>4. \A x \in Engines \ {e} : engines[x] = "none"
  BY DEF NativeInv
<1>5. NoEngine'
  BY <1>3, <1>4 DEF NoEngine
<1>6. TypeOK'
  BY <1>2 DEF Msg, JobRec, Statuses
<1>7. JobShape'
  BY DEF JobShape
<1>8. Once'
  BY <1>2 DEF Once
<1>9. StopInv'
  BY DEF StopInv, Steady, NoEngine
<1>10. NativeInv'
  BY DEF NativeInv, NoEngine
<1>11. RunInv'
  BY <1>1, <1>2, <1>5 DEF RunInv
<1>12. StartInv'
  BY <1>2 DEF StartInv
<1>13. AskInv'
  BY <1>1 DEF AskInv
<1> QED
  BY <1>2, <1>6, <1>7, <1>8, <1>9, <1>10, <1>11, <1>12, <1>13 DEF TunnelInv

\* A soft reconnect is asked for.
LEMMA WatchdogStep ==
  ASSUME TunnelInv, WatchdogAsks
  PROVE  TunnelInv'
<1> USE DEF TunnelInv, TypeOK, native, svc, io, Is, StopJob, NoStop, NoStart, Rebuilding,
            WatchdogAsks
<1>1. /\ posts' \in Seq(Msg) /\ Messages'
      /\ (Posted("continue")' <=> Posted("continue")) /\ (Posted("start")' <=> Posted("start"))
      /\ (Posted("died")' <=> Posted("died"))
  BY SameFacts DEF WatchdogAsks, io, svc
<1>2. TypeOK'
  BY DEF Msg, JobRec, Statuses
<1>3. JobShape'
  BY DEF JobShape
<1>4. Once'
  BY <1>1 DEF Once
<1>5. StopInv'
  BY DEF StopInv, Steady, NoEngine
<1>6. NativeInv'
  BY DEF NativeInv, NoEngine
<1>7. RunInv'
  BY <1>1 DEF RunInv, NoEngine
<1>8. StartInv'
  BY <1>1 DEF StartInv
<1>9. AskInv'
  BY DEF AskInv
<1> QED
  BY <1>1, <1>2, <1>3, <1>4, <1>5, <1>6, <1>7, <1>8, <1>9 DEF TunnelInv

LEMMA StutterStep ==
  ASSUME TunnelInv, UNCHANGED vars
  PROVE  TunnelInv'
<1> USE DEF TunnelInv, TypeOK, native, svc, io, Is, StopJob, NoStop, NoStart, Rebuilding,
            vars
<1>1. /\ posts' \in Seq(Msg) /\ Messages'
      /\ (Posted("continue")' <=> Posted("continue")) /\ (Posted("start")' <=> Posted("start"))
      /\ (Posted("died")' <=> Posted("died"))
  BY SameFacts DEF vars, io, svc
<1>2. TypeOK'
  BY DEF Msg, JobRec, Statuses
<1>3. JobShape'
  BY DEF JobShape
<1>4. Once'
  BY <1>1 DEF Once
<1>5. StopInv'
  BY DEF StopInv, Steady, NoEngine
<1>6. NativeInv'
  BY DEF NativeInv, NoEngine
<1>7. RunInv'
  BY <1>1 DEF RunInv, NoEngine
<1>8. StartInv'
  BY <1>1 DEF StartInv
<1>9. AskInv'
  BY <1>1 DEF AskInv
<1> QED
  BY <1>1, <1>2, <1>3, <1>4, <1>5, <1>6, <1>7, <1>8, <1>9 DEF TunnelInv

-----------------------------------------------------------------------------
(* The whole.                                                              *)

\* A service that has just been created.
LEMMA InitInv == Init => TunnelInv
<1> SUFFICES ASSUME Init PROVE TunnelInv
  OBVIOUS
<1>1. \A w : ~Posted(w)
  BY DEF Init, Posted
<1>2. \A j \in Jobs : jobs[j] = NoJob
  BY DEF Init
<1>3. TypeOK
  <2>1. 0 \in 0..MaxRetries /\ 0 \in 0..MaxPosts
    BY TunnelAssumption
  <2>2. posts \in Seq(Msg) /\ starts \in Seq(Hosts) /\ NoJob \in JobRec
    BY DEF Init, NoJob, JobRec
  <2> QED
    BY <2>1, <2>2 DEF Init, TypeOK, Msg, JobRec, Statuses
<1>4. JobShape /\ Messages /\ Once
  BY <1>1, <1>2 DEF Init, JobShape, Messages, Once, Is, StopJob, NoJob
<1>5. StopInv /\ NativeInv /\ RunInv
  BY <1>1, <1>2 DEF Init, StopInv, NativeInv, RunInv, Steady, NoEngine, NoStop, Is, StopJob, NoJob
<1>6. StartInv /\ AskInv
  BY <1>1, <1>2 DEF Init, StartInv, AskInv, Rebuilding, Is, NoJob
<1> QED
  BY <1>3, <1>4, <1>5, <1>6 DEF TunnelInv

LEMMA UserStep ==
  ASSUME TunnelInv, Apart, User
  PROVE  TunnelInv'
<1>1. CASE \E h \in Hosts, bg \in BOOLEAN : CmdStart(h, bg)
  BY <1>1, CmdStartStep
<1>2. CASE CmdStop
  BY <1>2, StopStep DEF CmdStop
<1>3. CASE CmdRestart
  <2>1. retryPosts' \in 0..(MaxPosts - 1) /\ retries' \in 0..MaxRetries
    BY <1>3, TunnelAssumption DEF CmdRestart, TunnelInv, TypeOK
  <2> QED
    BY <1>3, <2>1, RestartStep DEF CmdRestart
<1>4. CASE OnRevoke
  <2>1. 0 \in 0..(MaxPosts - 1) /\ 0 \in 0..MaxRetries
    BY TunnelAssumption
  <2> QED
    BY <1>4, <2>1, RestartStep, StopStep DEF OnRevoke
<1> QED
  BY <1>1, <1>2, <1>3, <1>4 DEF User

LEMMA MainStep ==
  ASSUME TunnelInv, Apart, Main
  PROVE  TunnelInv'
<1>1. CASE AutoFires
  BY <1>1, AutoIdle, AutoSoft
<1> QED
  BY <1>1, RetryStep, RestartPostedStep, ContinueDroppedStep, ContinueFailsStep,
     ContinueSucceedsStep, EngineStoppedStep DEF Main

LEMMA JobStep ==
  ASSUME TunnelInv, NEW j \in Jobs, Job(j)
  PROVE  TunnelInv'
  BY ResolveStep, StopFirstStep, StopJoinsStep, StopThreadStep, StopSecondStep, StopEndsStep,
     SoftResolveStep, SoftReconnectStep DEF Job

LEMMA EngineStep ==
  ASSUME TunnelInv, Apart, NEW e \in Engines, Engine(e) \/ EngineDies(e)
  PROVE  TunnelInv'
<1>1. CASE EngineEnds(e)
  BY <1>1, EngineClosedStep, EngineDiedStep DEF EngineEnds
<1> QED
  BY <1>1, EngineLeavesStep, EngineDiesStep DEF Engine

LEMMA TunnelStep ==
  ASSUME TunnelInv, Apart, [Next]_vars
  PROVE  TunnelInv'
  BY UserStep, MainStep, JobStep, ThreadStartsStep, EngineStep, WatchdogStep, StutterStep DEF Next

\* What the invariant says for every state that a command can leave behind,
\* TunSocksService.kt with jni_bridge.c and tun_socks.c below it.
LEMMA TunnelAlways ==
  ASSUME Apart
  PROVE  Spec => []TunnelInv
<1>1. TunnelInv /\ [Next]_vars => TunnelInv'
  BY TunnelStep
<1> QED
  BY <1>1, InitInv, PTL DEF Spec

\* One engine at a time shares the global context, and each TUN descriptor
\* reaches it, however stops, restarts, revocations and engine deaths follow
\* on each other.
THEOREM EngineOKHolds ==
  ASSUME Apart
  PROVE  Spec => []EngineOK
<1>1. ASSUME TunnelInv PROVE EngineOK
  <2>1. OneEngine
    <3> DEFINE E == {e \in Engines : engines[e] # "none"}
    <3>1. E = {} \/ E = {gEng}
      BY <1>1 DEF TunnelInv, NativeInv
    <3>2. Cardinality({}) = 0 /\ Cardinality({gEng}) = 1
      BY FS_EmptySet, FS_Singleton
    <3>3. Cardinality(E) = 0 \/ Cardinality(E) = 1
      BY <3>1, <3>2
    <3> QED
      BY <3>3 DEF OneEngine
  <2> QED
    BY <1>1, <2>1 DEF TunnelInv, NativeInv, NoTunLost, EngineOK
<1> QED
  BY <1>1, TunnelAlways, PTL

\* What a settled service is like.
LEMMA AtRest ==
  ASSUME TunnelInv, Settled
  PROVE  /\ ~startPending /\ ~Rebuilding /\ retryPosts = 0 /\ NoStop
         /\ isRunning => \E e \in Engines : engines[e] = "loop"
<1>1. /\ \A w : ~Posted(w)
      /\ \A j \in Jobs : jobs[j].kind = "none"
  BY DEF Settled, Posted, NoJob
<1>2. NoStop /\ ~Rebuilding /\ ~startPending /\ retryPosts = 0
  BY <1>1 DEF Settled, NoStop, StopJob, Is, Rebuilding
<1>3. isRunning => \E e \in Engines : engines[e] = "loop"
  <2>1. isRunning => \E e \in Engines : engines[e] # "none"
    BY <1>1, <1>2 DEF Settled, TunnelInv, RunInv, NoEngine
  <2> QED
    BY <2>1 DEF Settled, EngineGoingDown, TunnelInv, TypeOK
<1> QED
  BY <1>2, <1>3

\* isRunning, by which the App, the tile and the boot receiver go, agrees
\* with the engine thread.
THEOREM RunningIsTrueHolds ==
  ASSUME Apart
  PROVE  Spec => []RunningIsTrue
<1>1. ASSUME TunnelInv PROVE RunningIsTrue
  BY <1>1, AtRest DEF RunningIsTrue, TunnelInv, RunInv, NoEngine
<1> QED
  BY <1>1, TunnelAlways, PTL

\* The engine talks to the configured host, whatever name was resolved when.
THEOREM RightServerHolds ==
  ASSUME Apart
  PROVE  Spec => []RightServer
<1>1. ASSUME TunnelInv PROVE RightServer
  BY <1>1, AtRest DEF RightServer, TunnelInv, NativeInv
<1> QED
  BY <1>1, TunnelAlways, PTL

\* The service does what was asked for last, unless a start failed for good
\* or the engine died.
THEOREM LastWordHolds ==
  ASSUME Apart
  PROVE  Spec => []LastWordCounts
<1>1. ASSUME TunnelInv PROVE LastWordCounts
  <2>1. ASSUME Settled, isRunning PROVE ask = "run" /\ status = "active"
    BY <1>1, <2>1, AtRest DEF TunnelInv, TypeOK, AskInv, RunInv
  <2>2. ASSUME Settled, ask = "run", status \notin {"failed", "died"} PROVE isRunning
    BY <1>1, <2>2, AtRest DEF TunnelInv, AskInv
  <2> QED
    BY <2>1, <2>2 DEF LastWordCounts
<1> QED
  BY <1>1, TunnelAlways, PTL

=============================================================================
