--------------------------- MODULE WatchdogProofs ---------------------------
(***************************************************************************)
(* The automatic reconnect for any number of handshake workers and         *)
(* Runnables, any window, threshold and delays.                            *)
(*                                                                         *)
(* restartScheduled, autoRestartRunnable and the message in the main       *)
(* looper are three records of one promise.  They agree as long as a       *)
(* success does not clear the first while the other two stand, and no stop *)
(* falls between a worker's decision and its post: Hard = {}.  WatchdogOk  *)
(* shows that they part otherwise.                                         *)
(***************************************************************************)
EXTENDS Watchdog, SequenceTheorems, WellFoundedInduction, TLAPS

\* A worker that has decided and not yet posted.
Promising(w) == worker[w].pc \in {"assign", "post"}

\* It carries a Runnable of its own and a delay of BaseDelay at least.
Promises ==
    \A w \in Workers : Promising(w) => /\ worker[w].r \in Runnables
                                       /\ worker[w].delay >= BaseDelay

\* There is one promise at most, and restartScheduled stands for it: a worker
\* about to post, or a posted Runnable that autoRestartRunnable names.
OnePromise ==
    /\ \A w \in Workers : Promising(w) => scheduled /\ ~AnyPosted
    /\ \A w, v \in Workers : Promising(w) /\ Promising(v) => w = v
    /\ \A w \in Workers : worker[w].pc = "post" => current = worker[w].r
    /\ \A r \in Runnables : posted[r] # Never => scheduled /\ current = r

\* Once stopEngineSync has withdrawn the promise nobody makes another one
\* before the tunnel is up again.
Calm ==
    run \in {"stopping", "off"} =>
        ~AnyPosted /\ \A w \in Workers : worker[w].pc = "idle"

\* What is left of a delay, on top of the time since the last reconnect.
Spaced == \A r \in Runnables : posted[r] # Never => posted[r] + sinceFire >= BaseDelay

\* The last delay is the one autoRestartCount stands for.
Backed == lastDelay = IF count = 0 THEN 0 ELSE Delay(count)

DogInv == TypeOK /\ Promises /\ OnePromise /\ Calm /\ Spaced /\ Backed

-----------------------------------------------------------------------------
(* The delay and the window.                                               *)

LEMMA Numbers ==
    /\ FailWindow \in Nat /\ FailThreshold \in Nat /\ FailThreshold > 0
    /\ BaseDelay \in Nat /\ BaseDelay > 0 /\ MaxDelay \in Nat /\ BaseDelay <= MaxDelay
    /\ Never = -1
  BY WatchdogAssumption DEF Never

LEMMA Product ==
  ASSUME NEW c \in Nat
  PROVE  /\ BaseDelay * c \in Nat /\ c <= BaseDelay * c
         /\ BaseDelay * (c + 1) = BaseDelay * c + BaseDelay
  BY Numbers

\* minOf(baseDelayMs * autoRestartCount, maxDelayMs).
LEMMA DelayRange ==
  ASSUME NEW c \in Nat
  PROVE  Delay(c) \in 0..MaxDelay /\ (c > 0 => Delay(c) >= BaseDelay)
<1>1. PICK n \in Nat : n = BaseDelay * c
  BY Product
<1>2. c > 0 => n >= BaseDelay
  <2>1. SUFFICES ASSUME c > 0 PROVE n >= BaseDelay
    OBVIOUS
  <2>2. c - 1 \in Nat /\ (c - 1) + 1 = c
    BY <2>1
  <2>3. BaseDelay * ((c - 1) + 1) = BaseDelay * (c - 1) + BaseDelay /\ BaseDelay * (c - 1) \in Nat
    BY <2>2, Product
  <2> QED
    BY <1>1, <2>2, <2>3, Numbers
<1> QED
  BY <1>1, <1>2, Numbers DEF Delay

LEMMA DelayGrows ==
  ASSUME NEW c \in Nat
  PROVE  Delay(c + 1) >= Delay(c)
<1>1. PICK n \in Nat : n = BaseDelay * c
  BY Product
<1>2. BaseDelay * (c + 1) = n + BaseDelay
  BY <1>1, Product
<1> QED
  BY <1>1, <1>2, Numbers DEF Delay

\* The loop over failures.first() ends at the newest failure at the latest.
LEMMA RecentType ==
  ASSUME TypeOK
  PROVE  /\ Recent \in Seq(0..(FailWindow + 1))
         /\ Len(Recent) \in 1..(FailThreshold + 1)
<1> DEFINE Ages == 0..(FailWindow + 1)
           fs == Append(failures, 0)
           In(i) == fs[i] <= FailWindow
           S == {i \in DOMAIN fs : In(i)}
           First(i) == /\ fs[i] <= FailWindow
                       /\ \A j \in 1..(i - 1) : fs[j] > FailWindow
           first == CHOOSE i \in DOMAIN fs : First(i)
<1>1. /\ failures \in Seq(Ages) /\ Len(failures) <= FailThreshold
      /\ fs \in Seq(Ages) /\ Len(fs) = Len(failures) + 1 /\ fs[Len(fs)] = 0
  BY Numbers DEF TypeOK
<1>2. DOMAIN fs = 1..Len(fs) /\ Len(fs) \in Nat \ {0}
  BY <1>1
<1> HIDE DEF fs
<1>3. S \in SUBSET Nat /\ S # {}
  BY <1>1, <1>2, Numbers
<1>4. PICK n \in S : \A m \in S : n <= m
  <2> DEFINE Below == OpToRel(<, Nat)
  <2>1. IsWellFoundedOn(Below, Nat)
    BY NatLessThanWellFounded
  <2>2. \A i, j \in Nat : <<i, j>> \in Below <=> i < j
    BY DEF OpToRel
  <2>3. PICK n \in S : \A m \in S : ~(<<m, n>> \in Below)
    <3> HIDE DEF S, Below
    <3> QED
      BY <1>3, <2>1, WFMin
  <2>4. ASSUME NEW m \in S PROVE n <= m
    <3>1. ~(m < n)
      BY <1>3, <2>2, <2>3
    <3>2. m \in Nat /\ n \in Nat
      BY <1>3
    <3> QED
      BY <3>1, <3>2
  <2> QED
    BY <2>4
<1>5. First(n) /\ n \in DOMAIN fs
  <2>1. n \in 1..Len(fs) /\ fs[n] <= FailWindow
    BY <1>2, <1>4
  <2>2. ASSUME NEW j \in 1..(n - 1) PROVE fs[j] > FailWindow
    <3>1. j \in 1..Len(fs) /\ ~(n <= j)
      BY <1>2, <2>1
    <3>2. ~(fs[j] <= FailWindow)
      BY <1>2, <1>4, <3>1
    <3>3. fs[j] \in Int
      BY <1>1, <1>2, <3>1, Numbers
    <3> QED
      BY <3>2, <3>3, Numbers
  <2> QED
    BY <1>2, <2>1, <2>2
<1> HIDE DEF First
<1>6. first \in DOMAIN fs
  BY <1>5
<1>7. Recent = SubSeq(fs, first, Len(fs))
  BY DEF Recent, First, fs
<1> HIDE DEF first
<1>8. SubSeq(fs, first, Len(fs)) \in Seq(Ages)
  <2> HIDE DEF Ages
  <2> QED
    BY <1>1, <1>2, <1>6, SubSeqProperties
<1>9. Len(SubSeq(fs, first, Len(fs))) = Len(fs) - first + 1
  BY <1>1, <1>2, <1>6
<1> QED
  BY <1>1, <1>2, <1>6, <1>7, <1>8, <1>9, Numbers

-----------------------------------------------------------------------------
(* The workers.                                                            *)

Pcs == {"idle", "ok", "fail", "assign", "post"}
Job == [pc: Pcs, r: Runnables \cup {None}, delay: 0..MaxDelay]

LEMMA DogInit == Init => DogInv
<1> SUFFICES ASSUME Init PROVE DogInv
  OBVIOUS
<1>1. TypeOK
  <2>1. failures \in Seq(0..(FailWindow + 1)) /\ Len(failures) <= FailThreshold
    BY Numbers DEF Init
  <2>2. worker \in [Workers -> Job]
    BY Numbers DEF Init, Idle, Job, Pcs
  <2>3. {scheduled, inProgress} \subseteq BOOLEAN
    BY DEF Init
  <2>4. posted \in [Runnables -> Never..MaxDelay]
    BY Numbers DEF Init
  <2> QED
    BY <2>1, <2>2, <2>3, <2>4, Numbers DEF Init, TypeOK, MaxSofts, Job, Pcs
<1>2. Promises /\ OnePromise /\ Calm /\ Spaced /\ Backed
  BY Numbers DEF Init, Idle, Promises, Promising, OnePromise, AnyPosted, Calm, Spaced, Backed
<1> QED
  BY <1>1, <1>2 DEF DogInv

\* What a worker's step does to the workers.
LEMMA WorkerSetEffect ==
  ASSUME worker \in [Workers -> Job], NEW w \in Workers, NEW pc \in Pcs,
         NEW r \in Runnables \cup {None}, NEW d \in 0..MaxDelay, WorkerSet(w, pc, r, d)
  PROVE  /\ worker' \in [Workers -> Job]
         /\ worker'[w].pc = pc /\ worker'[w].r = r /\ worker'[w].delay = d
         /\ \A v \in Workers \ {w} : worker'[v] = worker[v]
  BY DEF WorkerSet, Job

LEMMA EnterStep ==
  ASSUME DogInv, Hard = {}, NEW w \in Workers, NEW pc \in {"ok", "fail"}, Enter(w, pc)
  PROVE  DogInv'
<1>1. worker \in [Workers -> Job]
  BY DEF DogInv, TypeOK, Job, Pcs
<1>2. WorkerSet(w, pc, None, 0) /\ pc \in Pcs /\ 0 \in 0..MaxDelay
  BY Numbers DEF Enter, Pcs
<1>3. /\ worker' \in [Workers -> Job] /\ worker'[w].pc = pc
      /\ \A v \in Workers \ {w} : worker'[v] = worker[v]
  BY <1>1, <1>2, WorkerSetEffect
<1>4. UNCHANGED <<dog, current, posted, inProgress, softs, run, hist>>
  BY DEF Enter
<1>5. TypeOK'
  BY <1>3, <1>4 DEF DogInv, TypeOK, Job, Pcs, dog, hist
<1>6. run \notin {"stopping", "off"}
  BY DEF Enter, isRunning
<1>7. Promises' /\ OnePromise' /\ Calm' /\ Spaced' /\ Backed'
  BY <1>3, <1>4, <1>6 DEF DogInv, Promises, Promising, OnePromise, AnyPosted, Calm, Spaced,
                           Backed, dog, hist
<1> QED
  BY <1>5, <1>7 DEF DogInv

LEMMA EventOkStep ==
  ASSUME DogInv, Hard = {}, NEW w \in Workers, EventOk(w)
  PROVE  DogInv'
<1>1. worker \in [Workers -> Job]
  BY DEF DogInv, TypeOK, Job, Pcs
<1>2. WorkerSet(w, "idle", None, 0) /\ "idle" \in Pcs /\ 0 \in 0..MaxDelay
  BY Numbers DEF EventOk, Pcs
<1>3. /\ worker' \in [Workers -> Job] /\ worker'[w].pc = "idle"
      /\ \A v \in Workers \ {w} : worker'[v] = worker[v]
  BY <1>1, <1>2, WorkerSetEffect
<1>4. /\ Reset /\ UNCHANGED <<current, posted, inProgress, softs, run, sinceFire>>
      /\ ~AnyPosted /\ ~scheduled
  BY DEF EventOk
<1>5. TypeOK'
  <2>1. failures' \in Seq(0..(FailWindow + 1)) /\ Len(failures') <= FailThreshold
    BY <1>4, Numbers DEF Reset
  <2>2. {scheduled', inProgress'} \subseteq BOOLEAN
    BY <1>4 DEF Reset, DogInv, TypeOK
  <2> QED
    BY <1>3, <1>4, <2>1, <2>2, Numbers DEF DogInv, TypeOK, Job, Pcs, Reset
<1>6. Promises' /\ OnePromise' /\ Calm' /\ Spaced' /\ Backed'
  BY <1>3, <1>4 DEF DogInv, Promises, Promising, OnePromise, AnyPosted, Calm, Spaced,
                    Backed, Reset
<1> QED
  BY <1>5, <1>6 DEF DogInv

\* The number of the next restart and its delay.
LEMMA NextDelay ==
  ASSUME DogInv, count' = IF BaseDelay * count < MaxDelay THEN count + 1 ELSE count
  PROVE  /\ count' \in 0..MaxDelay /\ count' > 0
         /\ Delay(count') \in 0..MaxDelay /\ Delay(count') >= BaseDelay
         /\ Delay(count') >= lastDelay
<1>1. count \in 0..MaxDelay /\ count \in Nat
  BY Numbers DEF DogInv, TypeOK
<1>2. PICK n \in Nat : n = BaseDelay * count /\ count <= n
  BY <1>1, Product
<1>3. count = 0 => n = 0
  BY <1>2, Numbers
<1>4. count' \in 0..MaxDelay /\ count' > 0
  BY <1>1, <1>2, <1>3, Numbers
<1>5. Delay(count') \in 0..MaxDelay /\ Delay(count') >= BaseDelay
  BY <1>4, DelayRange
<1>6. count' \in {count, count + 1}
  OBVIOUS
<1>7. count > 0 => Delay(count') >= Delay(count)
  BY <1>1, <1>5, <1>6, DelayGrows, DelayRange
<1>8. lastDelay = IF count = 0 THEN 0 ELSE Delay(count)
  BY DEF DogInv, Backed
<1> QED
  BY <1>1, <1>4, <1>5, <1>7, <1>8

LEMMA EventFailStep ==
  ASSUME DogInv, Hard = {}, NEW w \in Workers, EventFail(w)
  PROVE  DogInv'
<1>1. worker \in [Workers -> Job] /\ TypeOK
  BY DEF DogInv, TypeOK, Job, Pcs
<1>2. /\ failures' = IF Len(Recent) > FailThreshold THEN Tail(Recent) ELSE Recent
      /\ UNCHANGED <<current, posted, inProgress, softs, run, sinceFire>>
      /\ worker[w].pc = "fail"
  BY DEF EventFail
<1>3. failures' \in Seq(0..(FailWindow + 1)) /\ Len(failures') <= FailThreshold
  <2> DEFINE Ages == 0..(FailWindow + 1)
  <2>1. Recent \in Seq(Ages) /\ Len(Recent) \in 1..(FailThreshold + 1)
    BY <1>1, RecentType
  <2> HIDE DEF Ages
  <2>2. Tail(Recent) \in Seq(Ages) /\ Len(Tail(Recent)) = Len(Recent) - 1
    BY <2>1, Numbers, HeadTailProperties
  <2>3. failures' \in Seq(Ages) /\ Len(failures') <= FailThreshold
    BY <1>2, <2>1, <2>2, Numbers
  <2> QED
    BY <2>3 DEF Ages
<1>4. CASE WantsRestart(Recent)
  <2>1. /\ scheduled' = TRUE /\ sched' = 0 /\ lastDelay' = Delay(count')
        /\ count' = IF BaseDelay * count < MaxDelay THEN count + 1 ELSE count
    BY <1>4 DEF EventFail
  <2>2. PICK r \in Runnables : WorkerSet(w, "assign", r, Delay(count'))
    BY <1>4 DEF EventFail
  <2>3. /\ count' \in 0..MaxDelay /\ count' > 0
        /\ Delay(count') \in 0..MaxDelay /\ Delay(count') >= BaseDelay
    BY <2>1, NextDelay
  <2>4. PICK d \in 0..MaxDelay : d = Delay(count')
    BY <2>3
  <2>5. /\ worker' \in [Workers -> Job]
        /\ worker'[w].pc = "assign" /\ worker'[w].r = r /\ worker'[w].delay = d
        /\ \A v \in Workers \ {w} : worker'[v] = worker[v]
    BY <1>1, <2>2, <2>4, WorkerSetEffect DEF Pcs
  <2>6. TypeOK'
    BY <1>2, <1>3, <2>1, <2>3, <2>5, Numbers DEF DogInv, TypeOK, Job, Pcs
  <2>7. ~scheduled
    BY <1>4 DEF WantsRestart
  <2>8. ~AnyPosted /\ \A v \in Workers : ~Promising(v)
    BY <2>7 DEF DogInv, OnePromise, AnyPosted
  <2>9. run \notin {"stopping", "off"}
    BY <1>2 DEF DogInv, Calm
  <2>10. Promises' /\ OnePromise' /\ Calm' /\ Spaced'
    BY <1>2, <2>1, <2>3, <2>4, <2>5, <2>8, <2>9
    DEF DogInv, Promises, Promising, OnePromise, AnyPosted, Calm, Spaced
  <2>11. Backed'
    BY <2>1, <2>3 DEF Backed, Delay
  <2> QED
    BY <2>6, <2>10, <2>11 DEF DogInv
<1>5. CASE ~WantsRestart(Recent)
  <2>1. WorkerSet(w, "idle", None, 0) /\ UNCHANGED <<scheduled, sched, count, lastDelay>>
    BY <1>5 DEF EventFail
  <2>2. /\ worker' \in [Workers -> Job] /\ worker'[w].pc = "idle"
        /\ \A v \in Workers \ {w} : worker'[v] = worker[v]
    BY <1>1, <2>1, WorkerSetEffect, Numbers DEF Pcs
  <2>3. TypeOK'
    BY <1>2, <1>3, <2>1, <2>2 DEF DogInv, TypeOK, Job, Pcs
  <2>4. Promises' /\ OnePromise' /\ Calm' /\ Spaced' /\ Backed'
    BY <1>2, <2>1, <2>2 DEF DogInv, Promises, Promising, OnePromise, AnyPosted, Calm, Spaced,
                            Backed, Delay
  <2> QED
    BY <2>3, <2>4 DEF DogInv
<1> QED
  BY <1>4, <1>5

LEMMA AssignStep ==
  ASSUME DogInv, Hard = {}, NEW w \in Workers, Assign(w)
  PROVE  DogInv'
<1>1. worker \in [Workers -> Job]
  BY DEF DogInv, TypeOK, Job, Pcs
<1>2. /\ worker[w].pc = "assign" /\ current' = worker[w].r
      /\ worker' = [worker EXCEPT ![w].pc = "post"]
      /\ UNCHANGED <<dog, posted, inProgress, softs, run, hist>>
  BY DEF Assign
<1>3. /\ worker' \in [Workers -> Job] /\ worker'[w].pc = "post"
      /\ worker'[w].r = worker[w].r /\ worker'[w].delay = worker[w].delay
      /\ \A v \in Workers \ {w} : worker'[v] = worker[v]
  BY <1>1, <1>2 DEF Job, Pcs
<1>4. current' \in Runnables
  BY <1>2 DEF DogInv, Promises, Promising
<1>5. TypeOK'
  BY <1>2, <1>3, <1>4 DEF DogInv, TypeOK, Job, Pcs, dog, hist
<1>6. Promises' /\ OnePromise' /\ Calm' /\ Spaced' /\ Backed'
  BY <1>2, <1>3 DEF DogInv, Promises, Promising, OnePromise, AnyPosted, Calm, Spaced,
                    Backed, dog, hist
<1> QED
  BY <1>5, <1>6 DEF DogInv

LEMMA PostStep ==
  ASSUME DogInv, Hard = {}, NEW w \in Workers, Post(w)
  PROVE  DogInv'
<1>1. worker \in [Workers -> Job]
  BY DEF DogInv, TypeOK, Job, Pcs
<1>2. /\ worker[w].pc = "post"
      /\ posted' = [posted EXCEPT ![worker[w].r] = worker[w].delay]
      /\ UNCHANGED <<dog, current, inProgress, softs, run, hist>>
  BY DEF Post
<1>3. /\ worker' \in [Workers -> Job] /\ worker'[w].pc = "idle"
      /\ \A v \in Workers \ {w} : worker'[v] = worker[v]
  BY <1>1, WorkerSetEffect, Numbers DEF Post, Pcs
<1>4. /\ worker[w].r \in Runnables /\ worker[w].delay >= BaseDelay
      /\ worker[w].delay \in 0..MaxDelay
      /\ scheduled /\ ~AnyPosted /\ current = worker[w].r
      /\ \A v \in Workers \ {w} : ~Promising(v)
  BY <1>1, <1>2 DEF DogInv, Promises, Promising, OnePromise, Job
<1>5. posted \in [Runnables -> Never..MaxDelay] /\ \A r \in Runnables : posted[r] = Never
  BY <1>4 DEF DogInv, TypeOK, AnyPosted
<1>6. /\ posted' \in [Runnables -> Never..MaxDelay]
      /\ posted'[worker[w].r] = worker[w].delay
      /\ \A r \in Runnables \ {worker[w].r} : posted'[r] = Never
  BY <1>2, <1>4, <1>5, Numbers
<1>7. TypeOK'
  BY <1>2, <1>3, <1>6 DEF DogInv, TypeOK, Job, Pcs, dog, hist
<1>8. run \notin {"stopping", "off"}
  BY <1>2 DEF DogInv, Calm
<1>9. Promises' /\ OnePromise' /\ Calm'
  BY <1>2, <1>3, <1>4, <1>6, <1>8 DEF DogInv, Promises, Promising, OnePromise, Calm, dog, hist
<1>10. Spaced' /\ Backed'
  BY <1>2, <1>4, <1>6, Numbers DEF DogInv, TypeOK, Spaced, Backed, dog, hist
<1> QED
  BY <1>7, <1>9, <1>10 DEF DogInv

-----------------------------------------------------------------------------
(* The main thread and the IO dispatcher.                                  *)

\* Once the message autoRestartRunnable names is removed there is none.
LEMMA Removed ==
  ASSUME DogInv, RemoveCallbacks
  PROVE  /\ posted' \in [Runnables -> Never..MaxDelay]
         /\ \A r \in Runnables : posted'[r] = Never
         /\ current' = None
<1>1. posted \in [Runnables -> Never..MaxDelay] /\ current \in Runnables \cup {None}
  BY DEF DogInv, TypeOK
<1>2. \A r \in Runnables : posted[r] # Never => current = r
  BY DEF DogInv, OnePromise
<1>3. None \notin Runnables
  BY WatchdogAssumption
<1>4. CASE current = None
  BY <1>1, <1>2, <1>3, <1>4 DEF RemoveCallbacks
<1>5. CASE current # None
  <2>1. posted' = [posted EXCEPT ![current] = Never]
    BY <1>5 DEF RemoveCallbacks
  <2> QED
    BY <1>1, <1>2, <2>1, Numbers DEF RemoveCallbacks
<1> QED
  BY <1>4, <1>5

\* No failures are remembered.
LEMMA NoFailures ==
  ASSUME failures' = <<>>
  PROVE  failures' \in Seq(0..(FailWindow + 1)) /\ Len(failures') <= FailThreshold
  BY Numbers

LEMMA FireStep ==
  ASSUME DogInv, NEW r \in Runnables, Fire(r)
  PROVE  DogInv'
<1>1. /\ posted[r] = 0 /\ posted' = [posted EXCEPT ![r] = Never] /\ current' = None
      /\ scheduled' = FALSE /\ inProgress' \in {TRUE, inProgress}
      /\ UNCHANGED <<failures, sched, count, worker, run, lastDelay>>
  BY DEF Fire
<1>2. softs' \in 0..MaxSofts /\ sinceFire' \in 0..BaseDelay
  BY Numbers DEF Fire, DogInv, TypeOK, MaxSofts
<1>3. posted \in [Runnables -> Never..MaxDelay]
  BY DEF DogInv, TypeOK
<1>4. AnyPosted /\ \A s \in Runnables \ {r} : posted[s] = Never
  BY <1>1, Numbers DEF DogInv, OnePromise, AnyPosted
<1>5. posted' \in [Runnables -> Never..MaxDelay] /\ \A s \in Runnables : posted'[s] = Never
  BY <1>1, <1>3, <1>4, Numbers
<1>6. \A w \in Workers : ~Promising(w)
  BY <1>4 DEF DogInv, OnePromise
<1>7. {scheduled', inProgress'} \subseteq BOOLEAN
  BY <1>1 DEF DogInv, TypeOK
<1>8. TypeOK'
  BY <1>1, <1>2, <1>5, <1>7 DEF DogInv, TypeOK
<1>9. Promises' /\ OnePromise' /\ Calm' /\ Spaced' /\ Backed'
  BY <1>1, <1>5, <1>6 DEF DogInv, Promises, Promising, OnePromise, AnyPosted, Calm, Spaced,
                          Backed, Delay
<1> QED
  BY <1>8, <1>9 DEF DogInv

LEMMA SoftEndsStep ==
  ASSUME DogInv, SoftEnds
  PROVE  DogInv'
<1>1. {scheduled', inProgress'} \subseteq BOOLEAN
  BY DEF SoftEnds, DogInv, TypeOK, dog
<1>2. softs' \in 0..MaxSofts
  BY DEF SoftEnds, DogInv, TypeOK, MaxSofts
<1>3. TypeOK'
  BY <1>1, <1>2 DEF SoftEnds, DogInv, TypeOK, dog, hist
<1> QED
  BY <1>3 DEF SoftEnds, DogInv, Promises, Promising, OnePromise, AnyPosted, Calm, Spaced,
              Backed, Delay, dog, hist

LEMMA StartedStep ==
  ASSUME DogInv, Started
  PROVE  DogInv'
<1>1. /\ run = "off" /\ run' = "on" /\ inProgress' = FALSE
      /\ UNCHANGED <<current, posted, softs, worker, sinceFire>>
      /\ UNCHANGED <<dog, lastDelay>> \/ Reset
  BY DEF Started
<1>2. ~AnyPosted /\ \A w \in Workers : worker[w].pc = "idle"
  BY <1>1 DEF DogInv, Calm
<1>3. failures' \in Seq(0..(FailWindow + 1)) /\ Len(failures') <= FailThreshold
  BY <1>1, NoFailures DEF Reset, DogInv, TypeOK, dog
<1>4. {scheduled', inProgress'} \subseteq BOOLEAN
  BY <1>1 DEF Reset, DogInv, TypeOK, dog
<1>5. /\ count' \in 0..MaxDelay /\ sched' \in Never..BaseDelay /\ lastDelay' \in 0..MaxDelay
      /\ Backed'
  BY <1>1, Numbers DEF Reset, DogInv, TypeOK, Backed, Delay, dog
<1>6. TypeOK'
  BY <1>1, <1>3, <1>4, <1>5 DEF DogInv, TypeOK
<1>7. Promises' /\ OnePromise' /\ Calm' /\ Spaced'
  BY <1>1, <1>2 DEF DogInv, Promises, Promising, OnePromise, AnyPosted, Calm, Spaced
<1> QED
  BY <1>5, <1>6, <1>7 DEF DogInv

\* Steps that remove what is posted while no worker is about to post.
LEMMA CancelStep ==
  ASSUME DogInv, RemoveCallbacks, \A w \in Workers : ~Promising(w), Reset \/ ClearFailures,
         inProgress' \in {FALSE, inProgress}, UNCHANGED <<softs, worker, sinceFire>>,
         run' \in {"off", "asked", "stopping"},
         run' = "asked" \/ \A w \in Workers : worker[w].pc = "idle"
  PROVE  DogInv'
<1>1. /\ posted' \in [Runnables -> Never..MaxDelay]
      /\ \A r \in Runnables : posted'[r] = Never
      /\ current' = None
  BY Removed
<1>2. failures' \in Seq(0..(FailWindow + 1)) /\ Len(failures') <= FailThreshold
  BY NoFailures DEF Reset, ClearFailures
<1>3. {scheduled', inProgress'} \subseteq BOOLEAN
  BY DEF Reset, ClearFailures, DogInv, TypeOK
<1>4. /\ count' \in 0..MaxDelay /\ sched' \in Never..BaseDelay /\ lastDelay' \in 0..MaxDelay
      /\ Backed'
  BY Numbers DEF Reset, ClearFailures, DogInv, TypeOK, Backed, Delay
<1>5. TypeOK'
  BY <1>1, <1>2, <1>3, <1>4 DEF DogInv, TypeOK
<1>6. Promises' /\ OnePromise' /\ Calm' /\ Spaced'
  BY <1>1 DEF DogInv, Promises, Promising, OnePromise, AnyPosted, Calm, Spaced
<1> QED
  BY <1>4, <1>5, <1>6 DEF DogInv

LEMMA StopStep ==
  ASSUME DogInv, Hard = {}, Stop
  PROVE  DogInv'
<1>1. /\ RemoveCallbacks /\ Reset /\ run' = "asked" /\ inProgress' = FALSE
      /\ UNCHANGED <<softs, worker, sinceFire>>
  BY DEF Stop
<1>2. \A w \in Workers : ~Promising(w)
  BY DEF Stop, Posting, Promising
<1> QED
  BY <1>1, <1>2, CancelStep

LEMMA StopEngineResetsStep ==
  ASSUME DogInv, Hard = {}, StopEngineResets
  PROVE  DogInv'
<1>1. /\ RemoveCallbacks /\ ClearFailures /\ run' = "stopping"
      /\ UNCHANGED <<inProgress, softs, worker, sinceFire>>
  BY DEF StopEngineResets
<1>2. \A w \in Workers : worker[w].pc = "idle"
  BY DEF StopEngineResets, Idle
<1>3. \A w \in Workers : ~Promising(w)
  BY <1>2 DEF Promising
<1> QED
  BY <1>1, <1>2, <1>3, CancelStep

LEMMA EngineStoppedStep ==
  ASSUME DogInv, EngineStopped
  PROVE  DogInv'
<1>1. /\ RemoveCallbacks /\ ClearFailures /\ run' = "off" /\ inProgress' = FALSE
      /\ UNCHANGED <<softs, worker, sinceFire>>
  BY DEF EngineStopped
<1>2. \A w \in Workers : worker[w].pc = "idle"
  BY DEF EngineStopped, Idle
<1>3. \A w \in Workers : ~Promising(w)
  BY <1>2 DEF Promising
<1> QED
  BY <1>1, <1>2, <1>3, CancelStep

\* The tunnel changes its state, and nothing else does.
LEMMA OnlyRun ==
  ASSUME DogInv, UNCHANGED <<dog, current, posted, inProgress, softs, worker, hist>>,
         \/ run = "on" /\ run' = "asked"
         \/ run = "stopping" /\ run' = "off"
         \/ run' = run
  PROVE  DogInv'
<1>1. {scheduled', inProgress'} \subseteq BOOLEAN
  BY DEF DogInv, TypeOK, dog
<1>2. TypeOK'
  BY <1>1 DEF DogInv, TypeOK, dog, hist
<1> QED
  BY <1>2 DEF DogInv, Promises, Promising, OnePromise, AnyPosted, Calm, Spaced, Backed, Delay,
              dog, hist

LEMMA TickStep ==
  ASSUME DogInv, Tick
  PROVE  DogInv'
<1>1. /\ failures' = [i \in DOMAIN failures |-> Older(failures[i], FailWindow + 1)]
      /\ sched' = Older(sched, BaseDelay)
      /\ posted' = [r \in Runnables |-> Sooner(posted[r])]
      /\ sinceFire' = Older(sinceFire, BaseDelay)
      /\ UNCHANGED <<scheduled, count, current, inProgress, softs, worker, run, lastDelay>>
  BY DEF Tick
<1>2. /\ failures \in Seq(0..(FailWindow + 1)) /\ Len(failures) <= FailThreshold
      /\ sched \in Never..BaseDelay /\ sinceFire \in 0..BaseDelay
      /\ posted \in [Runnables -> Never..MaxDelay]
  BY DEF DogInv, TypeOK
<1>3. failures' \in Seq(0..(FailWindow + 1)) /\ Len(failures') <= FailThreshold
  <2> DEFINE n == Len(failures)
  <2>1. n \in Nat /\ DOMAIN failures = 1..n
    BY <1>2
  <2>2. \A i \in 1..n : Older(failures[i], FailWindow + 1) \in 0..(FailWindow + 1)
    BY <1>2, Numbers DEF Older
  <2>3. failures' \in [1..n -> 0..(FailWindow + 1)]
    BY <1>1, <2>1, <2>2
  <2>4. failures' \in Seq(0..(FailWindow + 1))
    BY <2>1, <2>3, SeqDef
  <2>5. Len(failures') = n
    BY <2>1, <2>3, <2>4
  <2> QED
    BY <1>2, <2>4, <2>5
<1>4. sched' \in Never..BaseDelay /\ sinceFire' \in 0..BaseDelay
  BY <1>1, <1>2, Numbers DEF Older
<1>5. /\ posted' \in [Runnables -> Never..MaxDelay]
      /\ \A r \in Runnables : /\ posted'[r] # Never <=> posted[r] # Never
                              /\ posted'[r] = Sooner(posted[r])
  BY <1>1, <1>2, Numbers DEF Sooner
<1>6. {scheduled', inProgress'} \subseteq BOOLEAN
  BY <1>1 DEF DogInv, TypeOK
<1>7. TypeOK'
  BY <1>1, <1>3, <1>4, <1>5, <1>6 DEF DogInv, TypeOK
<1>8. Promises' /\ OnePromise' /\ Calm' /\ Backed'
  BY <1>1, <1>5 DEF DogInv, Promises, Promising, OnePromise, AnyPosted, Calm, Backed, Delay
<1>9. Spaced'
  BY <1>1, <1>2, <1>5, Numbers DEF DogInv, Spaced, Sooner, Older
<1> QED
  BY <1>7, <1>8, <1>9 DEF DogInv

LEMMA DogNext ==
  ASSUME DogInv, Hard = {}, [Next]_vars
  PROVE  DogInv'
<1>1. ASSUME NEW w \in Workers, Enter(w, "ok") \/ Enter(w, "fail") \/ Event(w)
      PROVE  DogInv'
  BY <1>1, EnterStep, EventOkStep, EventFailStep, AssignStep, PostStep DEF Event
<1>2. ASSUME NEW r \in Runnables, Fire(r) PROVE DogInv'
  BY <1>2, FireStep
<1>3. CASE Restart \/ StopEngineEnds \/ UNCHANGED vars
  BY <1>3, OnlyRun DEF Restart, StopEngineEnds, vars
<1> QED
  BY <1>1, <1>2, <1>3, SoftEndsStep, StartedStep, StopStep, StopEngineResetsStep,
     EngineStoppedStep, TickStep DEF Next

-----------------------------------------------------------------------------
(* What it is for.                                                         *)

LEMMA DogInvariance ==
  ASSUME Hard = {}
  PROVE  Spec => []DogInv
  BY DogInit, DogNext, PTL DEF Spec

\* resetServerWatchdog finds every posted reconnect: the one in the looper is
\* the one autoRestartRunnable names, whatever workers, stops, restarts and
\* engine deaths did before.
THEOREM PostedStands ==
  ASSUME Hard = {}
  PROVE  Spec => []PostedOK
<1>1. DogInv => PostedOK
  BY DEF DogInv, OnePromise, PostedOK, NoOrphan
<1> QED
  BY <1>1, DogInvariance, PTL

\* No reconnect is posted when the tunnel is down (stopEngineSync withdraws it
\* before it joins the workers), for any number of workers and Runnables.
THEOREM NothingLeftAfterStop ==
  ASSUME Hard = {}
  PROVE  Spec => []NothingAfterStop
<1>1. DogInv => NothingAfterStop
  BY DEF DogInv, Calm, NothingAfterStop
<1> QED
  BY <1>1, DogInvariance, PTL

\* A delay is never shorter than the one before, unless the server answered
\* or the user intervened (autoRestartCount starts again).
LEMMA DelaysGrow ==
  ASSUME DogInv, [Next]_vars
  PROVE  lastDelay' # 0 => lastDelay' >= lastDelay
<1>1. lastDelay \in 0..MaxDelay
  BY DEF DogInv, TypeOK
<1>2. CASE lastDelay' = lastDelay
  BY <1>1, <1>2
<1>3. CASE Reset
  BY <1>3 DEF Reset
<1>4. ASSUME NEW w \in Workers, EventFail(w) PROVE lastDelay' >= lastDelay
  <2>1. CASE WantsRestart(Recent)
    <3>1. /\ lastDelay' = Delay(count')
          /\ count' = IF BaseDelay * count < MaxDelay THEN count + 1 ELSE count
      BY <1>4, <2>1 DEF EventFail
    <3> QED
      BY <3>1, NextDelay
  <2>2. CASE ~WantsRestart(Recent)
    BY <1>1, <1>4, <2>2 DEF EventFail
  <2> QED
    BY <2>1, <2>2
<1>5. \/ lastDelay' = lastDelay \/ Reset \/ \E w \in Workers : EventFail(w)
  <2>1. CASE UNCHANGED vars
    BY <2>1 DEF vars, hist
  <2>2. ASSUME NEW w \in Workers, Enter(w, "ok") \/ Enter(w, "fail") \/ Event(w)
        PROVE  lastDelay' = lastDelay \/ Reset \/ EventFail(w)
    BY <2>2 DEF Enter, Event, EventOk, Assign, Post, hist
  <2>3. ASSUME NEW r \in Runnables, Fire(r) PROVE lastDelay' = lastDelay
    BY <2>3 DEF Fire
  <2>4. CASE \/ SoftEnds \/ Started \/ Stop \/ Restart \/ StopEngineResets
             \/ StopEngineEnds \/ EngineStopped \/ Tick
    BY <2>4 DEF SoftEnds, Started, Stop, Restart, StopEngineResets, StopEngineEnds,
                EngineStopped, Tick, ClearFailures, hist
  <2> QED
    BY <2>1, <2>2, <2>3, <2>4 DEF Next
<1> QED
  BY <1>2, <1>3, <1>4, <1>5

\* Automatic reconnects are BaseDelay apart and their delays never shrink on
\* their own (onNetworkFailure), for any window, threshold and delays.
THEOREM PacedHolds ==
  ASSUME Hard = {}
  PROVE  Spec => Paced
<1> DEFINE Step == /\ \A r \in Runnables : Fire(r) /\ isRunning => sinceFire >= BaseDelay
                   /\ lastDelay' # 0 => lastDelay' >= lastDelay
<1>1. ASSUME DogInv, [Next]_vars PROVE Step
  <2>1. ASSUME NEW r \in Runnables, Fire(r) PROVE sinceFire >= BaseDelay
    <3>1. posted[r] = 0 /\ sinceFire \in 0..BaseDelay
      BY <1>1, <2>1 DEF Fire, DogInv, TypeOK
    <3> QED
      BY <1>1, <3>1, Numbers DEF DogInv, Spaced
  <2> QED
    BY <1>1, <2>1, DelaysGrow
<1>2. DogInv /\ [Next]_vars => [Step]_vars
  BY <1>1
<1>3. [][Step]_vars => Paced
  BY DEF Paced
<1> QED
  BY <1>2, <1>3, DogInvariance, PTL DEF Spec

=============================================================================
