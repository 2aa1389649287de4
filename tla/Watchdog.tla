------------------------------ MODULE Watchdog ------------------------------
(***************************************************************************)
(* The automatic reconnect: ServerWatchdog.kt, and onServerEvent and its   *)
(* Runnable in TunSocksService.kt.                                         *)
(*                                                                         *)
(* Handshake workers report whether the server answered.  Enough failures  *)
(* in a window post a Runnable with a growing delay; it fires on the main  *)
(* thread and starts a soft reconnect.  The counters are kept under a      *)
(* lock, the reference to the posted Runnable is not, so the decision, the *)
(* assignment and the post are steps of their own.                         *)
(*                                                                         *)
(* Time is kept as ages and remaining delays, each saturating where the    *)
(* code no longer tells two values apart, so no clock is bounded.          *)
(***************************************************************************)
EXTENDS Integers, Sequences, FiniteSets

CONSTANTS
    Workers, Runnables, None,
    FailWindow, FailThreshold, BaseDelay, MaxDelay,
    Hard    \* the hard cases this instance allows

\* "ok_while_posted"  the server answers while a Runnable is posted
\* "post_in_stop"     a stop removes what was posted while a worker is about
\*                    to post
HardCases == {"ok_while_posted", "post_in_stop"}

ASSUME WatchdogAssumption ==
    /\ {FailWindow, FailThreshold, BaseDelay, MaxDelay} \subseteq Nat \ {0}
    /\ BaseDelay <= MaxDelay /\ None \notin Runnables /\ Hard \subseteq HardCases

VARIABLES
    failures,   \* ages of the recorded failures, oldest first
    scheduled,  \* restartScheduled
    count,      \* autoRestartCount
    sched,      \* the age of lastScheduledAt, or Never
    current,    \* autoRestartRunnable
    posted,     \* remaining delay of each posted Runnable, or Never
    inProgress, \* autoRestartInProgress
    softs,      \* soft reconnects under way
    worker,     \* what each worker is doing in onServerEvent
    run,        \* is the tunnel off, on, asked to stop, or stopping?
    sinceFire,  \* history: age of the last automatic reconnect
    lastDelay   \* history: the last delay since the server answered

dog  == <<failures, scheduled, count, sched>>
hist == <<sinceFire, lastDelay>>
vars == <<dog, current, posted, inProgress, softs, worker, run, hist>>

Never    == -1
MaxSofts == 2   \* bound: soft reconnects at a time

Older(a, cap) == IF a = Never THEN Never ELSE IF a < cap THEN a + 1 ELSE cap
Sooner(d) == IF d > 0 THEN d - 1 ELSE d

\* Mutant: the first retry is immediate.
DelayNone(c) == IF BaseDelay * (c - 1) < MaxDelay THEN BaseDelay * (c - 1) ELSE MaxDelay

Delay(c) == IF BaseDelay * c < MaxDelay THEN BaseDelay * c ELSE MaxDelay

Idle == [pc |-> "idle", r |-> None, delay |-> 0]

isRunning == run # "off"

Init ==
    /\ failures = <<>> /\ scheduled = FALSE /\ count = 0 /\ sched = Never
    /\ current = None /\ posted = [r \in Runnables |-> Never]
    /\ inProgress = FALSE /\ softs = 0
    /\ worker = [w \in Workers |-> Idle]
    /\ run = "off" /\ sinceFire = BaseDelay /\ lastDelay = 0

Posting   == \E w \in Workers : worker[w].pc \in {"assign", "post"}
AnyPosted == \E r \in Runnables : posted[r] # Never

-----------------------------------------------------------------------------
(* ServerWatchdog.                                                         *)

\* onSuccess and reset.
Reset ==
    /\ failures' = <<>> /\ count' = 0 /\ scheduled' = FALSE /\ sched' = Never
    /\ lastDelay' = 0

ClearFailures == failures' = <<>> /\ scheduled' = FALSE /\ UNCHANGED <<count, sched, lastDelay>>

\* The recorded failures with the new one, from the first that is in the window.
Recent ==
    LET fs     == Append(failures, 0)
        first  == CHOOSE i \in DOMAIN fs : /\ fs[i] <= FailWindow
                                          /\ \A j \in 1..(i - 1) : fs[j] > FailWindow
    IN  SubSeq(fs, first, Len(fs))

\* Mutant: an already posted restart does not hold back the next one.
WantsRestartAgain(fs) ==
    /\ Len(fs) >= FailThreshold
    /\ sched = Never \/ sched >= BaseDelay

WantsRestart(fs) ==
    /\ Len(fs) >= FailThreshold /\ ~scheduled
    /\ sched = Never \/ sched >= BaseDelay

-----------------------------------------------------------------------------
(* onServerEvent, on the handshake workers.                                *)

WorkerSet(w, pc, r, d) == worker' = [worker EXCEPT ![w] = [pc |-> pc, r |-> r, delay |-> d]]

Enter(w, pc) ==
    /\ worker[w] = Idle /\ isRunning
    /\ run = "stopping" => "post_in_stop" \in Hard
    /\ WorkerSet(w, pc, None, 0)
    /\ UNCHANGED <<dog, current, posted, inProgress, softs, run, hist>>

EventOk(w) ==
    /\ worker[w].pc = "ok"
    /\ (AnyPosted \/ scheduled) => "ok_while_posted" \in Hard
    /\ Reset
    /\ WorkerSet(w, "idle", None, 0)
    /\ UNCHANGED <<current, posted, inProgress, softs, run, sinceFire>>

\* The count saturates: beyond MaxDelay the delay is the same.  Of the
\* failures only the newest FailThreshold can matter.
EventFail(w) ==
    /\ worker[w].pc = "fail"
    /\ failures' = IF Len(Recent) > FailThreshold THEN Tail(Recent) ELSE Recent
    /\ IF WantsRestart(Recent)
       THEN /\ scheduled' = TRUE /\ sched' = 0
            /\ count' = IF BaseDelay * count < MaxDelay THEN count + 1 ELSE count
            /\ lastDelay' = Delay(count')
            /\ \E r \in Runnables :
                 /\ posted[r] = Never /\ \A v \in Workers : worker[v].r # r
                 /\ WorkerSet(w, "assign", r, Delay(count'))
       ELSE /\ WorkerSet(w, "idle", None, 0)
            /\ UNCHANGED <<scheduled, sched, count, lastDelay>>
    /\ UNCHANGED <<current, posted, inProgress, softs, run, sinceFire>>

Assign(w) ==
    /\ worker[w].pc = "assign"
    /\ current' = worker[w].r
    /\ worker' = [worker EXCEPT ![w].pc = "post"]
    /\ UNCHANGED <<dog, posted, inProgress, softs, run, hist>>

\* Mutant: the Runnable is never handed to the main thread.
PostNot(w) ==
    /\ worker[w].pc = "post"
    /\ WorkerSet(w, "idle", None, 0)
    /\ UNCHANGED <<dog, current, posted, inProgress, softs, run, hist>>

Post(w) ==
    /\ worker[w].pc = "post"
    /\ posted' = [posted EXCEPT ![worker[w].r] = worker[w].delay]
    /\ WorkerSet(w, "idle", None, 0)
    /\ UNCHANGED <<dog, current, inProgress, softs, run, hist>>

-----------------------------------------------------------------------------
(* The main thread and the IO dispatcher.                                  *)

\* The Runnable, once its delay is over.
Fire(r) ==
    /\ posted[r] = 0
    /\ posted' = [posted EXCEPT ![r] = Never] /\ current' = None
    /\ scheduled' = FALSE
    /\ IF isRunning
       THEN softs < MaxSofts /\ inProgress' = TRUE /\ softs' = softs + 1 /\ sinceFire' = 0
       ELSE UNCHANGED <<inProgress, softs, sinceFire>>
    /\ UNCHANGED <<failures, sched, count, worker, run, lastDelay>>

\* softRestart's coroutine ends.
SoftEnds ==
    /\ softs > 0 /\ softs' = softs - 1
    /\ inProgress' = FALSE
    /\ UNCHANGED <<dog, current, posted, worker, run, hist>>

RemoveCallbacks ==
    /\ posted' = IF current = None THEN posted ELSE [posted EXCEPT ![current] = Never]
    /\ current' = None

\* continueStartTunnel succeeds.
Started ==
    /\ run = "off" /\ run' = "on"
    /\ inProgress' = FALSE
    /\ IF inProgress THEN UNCHANGED <<dog, lastDelay>> ELSE Reset
    /\ UNCHANGED <<current, posted, softs, worker, sinceFire>>

\* stopTunnel on the main thread.
Stop ==
    /\ run = "on" /\ run' = "asked"
    /\ Posting => "post_in_stop" \in Hard
    /\ inProgress' = FALSE
    /\ Reset /\ RemoveCallbacks
    /\ UNCHANGED <<softs, worker, sinceFire>>

\* restartTunnel leaves all to stopEngineSync.
Restart ==
    /\ run = "on" /\ run' = "asked"
    /\ UNCHANGED <<dog, current, posted, inProgress, softs, worker, hist>>

\* resetServerWatchdog of stopEngineSync.
StopEngineResets ==
    /\ run = "asked" /\ run' = "stopping"
    /\ (\E w \in Workers : worker[w] # Idle) => "post_in_stop" \in Hard
    /\ RemoveCallbacks /\ ClearFailures
    /\ UNCHANGED <<inProgress, softs, worker, sinceFire>>

\* NativeEngine.stopTunnel has joined the workers.
StopEngineEnds ==
    /\ run = "stopping" /\ \A w \in Workers : worker[w] = Idle
    /\ run' = "off"
    /\ UNCHANGED <<dog, current, posted, inProgress, softs, worker, hist>>

\* handleEngineStopped: the engine gave up, its workers are joined.
EngineStopped ==
    /\ run = "on" /\ \A w \in Workers : worker[w] = Idle
    /\ run' = "off" /\ inProgress' = FALSE
    /\ RemoveCallbacks /\ ClearFailures
    /\ UNCHANGED <<softs, worker, sinceFire>>

Tick ==
    /\ failures' = [i \in DOMAIN failures |-> Older(failures[i], FailWindow + 1)]
    /\ sched' = Older(sched, BaseDelay)
    /\ posted' = [r \in Runnables |-> Sooner(posted[r])]
    /\ sinceFire' = Older(sinceFire, BaseDelay)
    /\ UNCHANGED <<scheduled, count, current, inProgress, softs, worker, run, lastDelay>>

Event(w) == EventOk(w) \/ EventFail(w) \/ Assign(w) \/ Post(w)

Next ==
    \/ \E w \in Workers : Enter(w, "ok") \/ Enter(w, "fail") \/ Event(w)
    \/ (\E r \in Runnables : Fire(r)) \/ SoftEnds
    \/ Started \/ Stop \/ Restart \/ StopEngineResets \/ StopEngineEnds \/ EngineStopped
    \/ Tick

Spec == Init /\ [][Next]_vars

\* Workers, the main thread, coroutines and time go on.
FairSpec ==
    /\ Spec /\ WF_vars(Tick) /\ WF_vars(SoftEnds)
    /\ \A w \in Workers : WF_vars(Event(w))
    /\ \A r \in Runnables : SF_vars(Fire(r))

-----------------------------------------------------------------------------
(* Properties.                                                             *)

TypeOK ==
    /\ failures \in Seq(0..(FailWindow + 1)) /\ Len(failures) <= FailThreshold
    /\ {scheduled, inProgress} \subseteq BOOLEAN
    /\ count \in 0..MaxDelay /\ sched \in Never..BaseDelay
    /\ current \in Runnables \cup {None}
    /\ posted \in [Runnables -> Never..MaxDelay]
    /\ softs \in 0..MaxSofts
    /\ worker \in [Workers -> [pc: {"idle", "ok", "fail", "assign", "post"},
                               r: Runnables \cup {None}, delay: 0..MaxDelay]]
    /\ run \in {"off", "on", "asked", "stopping"}
    /\ sinceFire \in 0..BaseDelay /\ lastDelay \in 0..MaxDelay

\* A posted Runnable is the one autoRestartRunnable names: resetServerWatchdog
\* can only remove that one.
NoOrphan == \A r \in Runnables : posted[r] # Never => current = r

\* The same on top of the types, as the runs check it.
PostedOK == TypeOK /\ NoOrphan

\* No automatic reconnect outlives the tunnel it was meant for.
NothingAfterStop == run = "off" => ~AnyPosted

\* Automatic reconnects are at least BaseDelay apart, however the server
\* comes and goes; and as long as the server does not answer and the user does
\* nothing, delays never shrink.
Paced ==
    [][/\ \A r \in Runnables : Fire(r) /\ isRunning => sinceFire >= BaseDelay
       /\ lastDelay' # 0 => lastDelay' >= lastDelay]_vars

\* A restart that is scheduled takes place or is called off.
Retried == scheduled ~> ~scheduled

=============================================================================
