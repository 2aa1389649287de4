--------------------------- MODULE UdpSessProofs ----------------------------
(***************************************************************************)
(* Proofs about UdpSess for any number of slots, workers, descriptors and  *)
(* App endpoints.                                                          *)
(***************************************************************************)
EXTENDS UdpSess, FiniteSetTheorems, TLAPS

-----------------------------------------------------------------------------
(* Types.                                                                  *)

Wk == [pc: WPCs, job: Slots \cup {None}, cfd: Fds \cup {None},
       rfd: Fds \cup {None}, flag: BOOLEAN]

\* TypeOK, with the bounds of the counter left to CountExact.
Typed ==
    /\ sess \in [Slots -> Session]
    /\ count \in Int
    /\ queue \in Seq(Slots)
    /\ wk \in [Workers -> Wk]
    /\ owner \in [Fds -> Slots \cup {None}]
    /\ reg \in [Fds -> [s: Slots, sock: {"control", "relay"}, out: BOOLEAN] \cup {None}]
    /\ epc \in {"top", "wait", "batch", "tun", "found", "arm", "collect", "closing",
                "join", "stopped"}
    /\ cur \in Slots \cup {None}
    /\ batch \subseteq Socks \cup {TunEv, StopEv}
    /\ poolOn \in BOOLEAN /\ running \in BOOLEAN /\ reset \in BOOLEAN

LEMMA BlankType == Blank \in Session
  BY UdpSessAssumption DEF Blank, Session

LEMMA IdleType == Idle \in Wk
  BY DEF Idle, Wk, WPCs

LEMMA InitTyped == Init => Typed
<1> SUFFICES ASSUME Init PROVE Typed
  OBVIOUS
<1>1. sess \in [Slots -> Session] /\ wk \in [Workers -> Wk]
  BY BlankType, IdleType DEF Init
<1>2. queue \in Seq(Slots) /\ owner \in [Fds -> Slots \cup {None}]
  BY DEF Init
<1>3. reg \in [Fds -> [s: Slots, sock: {"control", "relay"}, out: BOOLEAN] \cup {None}]
  BY DEF Init
<1>4. cur \in Slots \cup {None} /\ batch \subseteq Socks \cup {TunEv, StopEv}
  BY DEF Init
<1>6. poolOn \in BOOLEAN /\ running \in BOOLEAN /\ reset \in BOOLEAN
  BY DEF Init
<1>7. count \in Int
  BY DEF Init
<1>5. epc \in {"top", "wait", "batch", "tun", "found", "arm", "collect", "closing",
                 "join", "stopped"}
  BY DEF Init
<1> QED
  BY <1>1, <1>2, <1>3, <1>4, <1>5, <1>6, <1>7 DEF Typed

LEMMA ReleaseType ==
  ASSUME Typed, NEW F, Release(F)
  PROVE  /\ owner' \in [Fds -> Slots \cup {None}]
         /\ reg' \in [Fds -> [s: Slots, sock: {"control", "relay"}, out: BOOLEAN] \cup {None}]
  BY DEF Typed, Release

\* What parking does to a session, with its sockets and without.
LEMMA Parked ==
  ASSUME NEW r \in Session
  PROVE  /\ [r EXCEPT !.place = "grave"] \in Session
         /\ [r EXCEPT !.place = "grave", !.cfd = None, !.rfd = None] \in Session
  BY DEF Session

LEMMA CloseType ==
  ASSUME Typed, NEW S, CloseSessions(S)
  PROVE  /\ sess' \in [Slots -> Session]
         /\ owner' \in [Fds -> Slots \cup {None}]
         /\ reg' \in [Fds -> [s: Slots, sock: {"control", "relay"}, out: BOOLEAN] \cup {None}]
<1>1. \A s \in Slots : sess[s] \in Session
  BY DEF Typed
<1>2. sess' \in [Slots -> Session]
  BY <1>1, Parked DEF CloseSessions
<1> QED
  BY <1>2, ReleaseType DEF CloseSessions

LEMMA CollectType ==
  ASSUME Typed, NEW st \in [Slots -> Session], udp_graveyard_collect(st)
  PROVE  /\ sess' \in [Slots -> Session] /\ count' \in Int
         /\ owner' \in [Fds -> Slots \cup {None}]
         /\ reg' \in [Fds -> [s: Slots, sock: {"control", "relay"}, out: BOOLEAN] \cup {None}]
<1> DEFINE F == {s \in Slots : MayFree(st[s])}
<1>1. Cardinality(F) \in Nat
  <2>1. IsFiniteSet(F)
    BY UdpSessAssumption, FS_Subset
  <2> QED
    BY <2>1, FS_CardinalityType
<1>2. count' = count - Cardinality(F)
  BY DEF udp_graveyard_collect
<1>3. count' \in Int
  BY <1>1, <1>2 DEF Typed
<1>4. sess' = [s \in Slots |-> IF s \in F THEN Blank ELSE st[s]]
  BY DEF udp_graveyard_collect
<1> HIDE DEF F
<1>5. sess' \in [Slots -> Session]
  BY <1>4, BlankType
<1> QED
  BY <1>3, <1>5, ReleaseType DEF udp_graveyard_collect

LEMMA ParkAllType == Typed => ParkAll \in [Slots -> Session]
<1> SUFFICES ASSUME Typed PROVE ParkAll \in [Slots -> Session]
  OBVIOUS
<1>1. \A s \in Slots : sess[s] \in Session
  BY DEF Typed
<1> QED
  BY <1>1, Parked DEF ParkAll

-----------------------------------------------------------------------------
(* Loans.                                                                  *)

\* The session is where it was or parked, and as done as it was.
Kept(s) ==
    /\ \/ sess'[s].place = sess[s].place
       \/ sess[s].place = "hash" /\ sess'[s].place = "grave"
    /\ sess'[s].done = sess[s].done

\* A worker at work has a session.
JobPlaces == \A w \in Workers : Job(w) = None <=> wk[w].pc \in {"idle", "exited"}

\* A session is lent once at most, to the queue or to a worker; it is allocated
\* and not done.
OnLoan(s) == sess[s].place # "free" /\ ~sess[s].done

Loans ==
    /\ \A v, w \in Workers : Job(v) = Job(w) /\ Job(v) # None => v = w
    /\ \A i, j \in 1..Len(queue) : queue[i] = queue[j] => i = j
    /\ \A i \in 1..Len(queue), w \in Workers : queue[i] # Job(w)
    /\ \A i \in 1..Len(queue) : OnLoan(queue[i])
    /\ \A w \in Workers : Job(w) # None => OnLoan(Job(w))

\* A worker leaves only an empty queue behind, which nobody fills again.
LastOut == \A w \in Workers : wk[w].pc = "exited" => ~poolOn /\ queue = <<>>

LoanInv == Typed /\ JobPlaces /\ Loans /\ LastOut

LEMMA LoanInit == Init => LoanInv
  BY InitTyped DEF Init, LoanInv, JobPlaces, Loans, LastOut, Job, Idle

\* What every step of a worker does that keeps its job.
Works(w) ==
    /\ Job(w) \in Slots
    /\ wk' \in [Workers -> Wk] /\ \A v \in Workers \ {w} : wk'[v] = wk[v]
    /\ wk'[w].job = Job(w) /\ wk'[w].pc \notin {"idle", "exited"}
    /\ sess' \in [Slots -> Session] /\ \A s \in Slots \ {Job(w)} : sess'[s] = sess[s]
    /\ Kept(Job(w))
    /\ owner' \in [Fds -> Slots \cup {None}]
    /\ reg' \in [Fds -> [s: Slots, sock: {"control", "relay"}, out: BOOLEAN] \cup {None}]
    /\ UNCHANGED <<count, queue, poolOn, Engine>>

AtWork(w) ==
    \/ WSocket(w) \/ WHandshake(w) \/ WRefused(w)
    \/ WResocket(w) \/ WRelay(w) \/ WStore(w) \/ WTakePend(w) \/ WForward(w)
    \/ WState(w) \/ WEvents(w) \/ WAddControl(w) \/ WArmed(w) \/ WAddRelay(w)
    \/ WFailControl(w) \/ WFailRelay(w) \/ WUnlink(w)

\* Only the worker's own record changes.
LEMMA OwnRecord ==
  ASSUME Typed, NEW w \in Workers, NEW k \in Wk, wk' = [wk EXCEPT ![w] = k]
  PROVE  wk' \in [Workers -> Wk] /\ wk'[w] = k /\ \A v \in Workers \ {w} : wk'[v] = wk[v]
  BY DEF Typed

LEMMA GotoWorks ==
  ASSUME Typed, NEW w \in Workers, NEW pc \in WPCs, Goto(w, pc)
  PROVE  /\ wk' \in [Workers -> Wk]
         /\ wk'[w].pc = pc /\ wk'[w].job = wk[w].job
         /\ wk'[w].cfd = wk[w].cfd /\ wk'[w].rfd = wk[w].rfd
         /\ \A v \in Workers \ {w} : wk'[v] = wk[v]
  BY DEF Typed, Goto, Wk

\* Only the worker's session changes.
LEMMA OwnSession ==
  ASSUME Typed, NEW s \in Slots, NEW r \in Session, sess' = [sess EXCEPT ![s] = r]
  PROVE  sess' \in [Slots -> Session] /\ sess'[s] = r /\ \A t \in Slots \ {s} : sess'[t] = sess[t]
  BY DEF Typed

LEMMA AtWorkWorks ==
  ASSUME Typed, JobPlaces, NEW w \in Workers, AtWork(w)
  PROVE  Works(w)
<1> DEFINE j == wk[w].job
<1>1. j \in Slots
  BY DEF AtWork, JobPlaces, Typed, Wk, Job, At, WSocket, WHandshake, WRefused, WResocket, WRelay, WStore,
         WTakePend, WForward, WState, WEvents, WAddControl, WArmed, WAddRelay, WFailControl,
         WFailRelay, WUnlink
<1>2. sess[j] \in Session /\ wk[w] \in Wk
  BY <1>1 DEF Typed
<1> USE <1>1, <1>2 DEF Works, Job, Kept, Engine, ctl, At, fdVars
<1>3. ASSUME NEW next \in {"hs", "hs3"}, RequestControl(w, next) PROVE Works(w)
  <2>1. CASE Goto(w, "failc") /\ UNCHANGED owner
    BY <1>3, <2>1, GotoWorks DEF RequestControl, WPCs, Typed
  <2>2. ASSUME NEW f \in Fds, Opened(w, f),
               wk' = [wk EXCEPT ![w] = [@ EXCEPT !.cfd = f, !.pc = Onward(next)]]
        PROVE  Works(w)
    <3> DEFINE k == [wk[w] EXCEPT !.cfd = f, !.pc = Onward(next)]
    <3>1. k \in Wk /\ k.job = j /\ k.pc \notin {"idle", "exited"}
      BY DEF Wk, Onward, WPCs
    <3>2. wk' = [wk EXCEPT ![w] = k]
      BY <2>2 DEF Typed
    <3> HIDE DEF k
    <3>3. owner' \in [Fds -> Slots \cup {None}]
      BY <2>2 DEF Opened, Typed
    <3> QED
      BY <1>3, <3>1, <3>2, <3>3, OwnRecord DEF RequestControl, Typed
  <2> QED
    BY <1>3, <2>1, <2>2 DEF RequestControl
<1>4. ASSUME WRelay(w) PROVE Works(w)
  <2>1. CASE Goto(w, "failc") /\ UNCHANGED owner
    BY <1>4, <2>1, GotoWorks DEF WRelay, WPCs, Typed
  <2>2. ASSUME NEW f \in Fds, Opened(w, f),
               wk' = [wk EXCEPT ![w] = [@ EXCEPT !.rfd = f, !.pc = Onward("store")]]
        PROVE  Works(w)
    <3> DEFINE k == [wk[w] EXCEPT !.rfd = f, !.pc = Onward("store")]
    <3>1. k \in Wk /\ k.job = j /\ k.pc \notin {"idle", "exited"}
      BY DEF Wk, Onward, WPCs
    <3>2. wk' = [wk EXCEPT ![w] = k]
      BY <2>2 DEF Typed
    <3> HIDE DEF k
    <3>3. owner' \in [Fds -> Slots \cup {None}]
      BY <2>2 DEF Opened, Typed
    <3> QED
      BY <1>4, <3>1, <3>2, <3>3, OwnRecord DEF WRelay, Typed
  <2> QED
    BY <1>4, <2>1, <2>2 DEF WRelay
\* Steps that give the session other fields than its place and thread_done.
<1>5. ASSUME NEW r \in Session, sess' = [sess EXCEPT ![j] = r] \/ (sess' = sess /\ r = sess[j]),
             r.place = sess[j].place \/ (sess[j].place = "hash" /\ r.place = "grave"),
             r.done = sess[j].done
      PROVE  /\ sess' \in [Slots -> Session] /\ \A s \in Slots \ {j} : sess'[s] = sess[s]
             /\ Kept(j)
  BY <1>5, OwnSession DEF Typed
<1>6. ASSUME WHandshake(w) PROVE Works(w)
  <2> DEFINE r == [sess[j] EXCEPT !.udp_tcp = TRUE]
  <2>1. PICK pc \in WPCs \ {"idle", "exited"} : Goto(w, pc)
    BY <1>6 DEF WHandshake, WPCs
  <2>2. sess' = sess \/ sess' = [sess EXCEPT ![j] = r]
    BY <1>6 DEF WHandshake
  <2>3. r \in Session /\ r.place = sess[j].place /\ r.done = sess[j].done
    BY DEF Session
  <2> HIDE DEF r
  <2>4. sess' \in [Slots -> Session] /\ (\A s \in Slots \ {j} : sess'[s] = sess[s]) /\ Kept(j)
    BY <1>5, <2>2, <2>3
  <2> QED
    BY <1>6, <2>1, <2>4, GotoWorks DEF WHandshake, Typed
<1>7. ASSUME WRefused(w) PROVE Works(w)
  <2> DEFINE k == [wk[w] EXCEPT !.cfd = None, !.pc = "resock"]
  <2>1. k \in Wk /\ k.job = j /\ k.pc \notin {"idle", "exited"}
    BY DEF Wk, WPCs
  <2>2. wk' = [wk EXCEPT ![w] = k]
    BY <1>7 DEF WRefused, Typed
  <2> HIDE DEF k
  <2> QED
    BY <1>7, <2>1, <2>2, OwnRecord, ReleaseType DEF WRefused, Typed
<1>8. ASSUME WStore(w) PROVE Works(w)
  <2> DEFINE r == [sess[j] EXCEPT !.cfd = wk[w].cfd, !.rfd = wk[w].rfd]
  <2>1. PICK pc \in WPCs \ {"idle", "exited"} : Goto(w, pc)
    BY <1>8 DEF WStore, WPCs
  <2>2. sess' = sess \/ sess' = [sess EXCEPT ![j] = r]
    BY <1>8 DEF WStore, Typed
  <2>3. r \in Session /\ r.place = sess[j].place /\ r.done = sess[j].done
    BY DEF Session, Wk
  <2> HIDE DEF r
  <2>4. sess' \in [Slots -> Session] /\ (\A s \in Slots \ {j} : sess'[s] = sess[s]) /\ Kept(j)
    BY <1>5, <2>2, <2>3
  <2> QED
    BY <1>8, <2>1, <2>4, GotoWorks DEF WStore, Typed
<1>9. ASSUME WTakePend(w) PROVE Works(w)
  <2> DEFINE r == [sess[j] EXCEPT !.pend = FALSE]
             k == [wk[w] EXCEPT !.pc = "fwd", !.flag = sess[j].pend]
  <2>1. k \in Wk /\ k.job = j /\ k.pc \notin {"idle", "exited"} /\ wk' = [wk EXCEPT ![w] = k]
    BY <1>9 DEF WTakePend, Wk, WPCs, Session, Typed
  <2>2. sess' = [sess EXCEPT ![j] = r]
    BY <1>9 DEF WTakePend
  <2>3. r \in Session /\ r.place = sess[j].place /\ r.done = sess[j].done
    BY DEF Session
  <2> HIDE DEF r, k
  <2>4. sess' \in [Slots -> Session] /\ (\A s \in Slots \ {j} : sess'[s] = sess[s]) /\ Kept(j)
    BY <1>5, <2>2, <2>3
  <2> QED
    BY <1>9, <2>1, <2>4, OwnRecord DEF WTakePend, Typed
<1>10. ASSUME WForward(w) PROVE Works(w)
  <2> DEFINE r == [sess[j] EXCEPT !.tx = 1]
  <2>1. Goto(w, "state")
    BY <1>10 DEF WForward
  <2>2. sess' = sess \/ sess' = [sess EXCEPT ![j] = r]
    BY <1>10 DEF WForward
  <2>3. r \in Session /\ r.place = sess[j].place /\ r.done = sess[j].done
    BY UdpSessAssumption DEF Session
  <2> HIDE DEF r
  <2>4. sess' \in [Slots -> Session] /\ (\A s \in Slots \ {j} : sess'[s] = sess[s]) /\ Kept(j)
    BY <1>5, <2>2, <2>3
  <2> QED
    BY <1>10, <2>1, <2>4, GotoWorks DEF WForward, Typed, WPCs
<1>11. ASSUME WState(w) PROVE Works(w)
  <2> DEFINE r == [sess[j] EXCEPT !.state = 1, !.seen = "fresh"]
  <2>1. Goto(w, "ev")
    BY <1>11 DEF WState
  <2>2. sess' = [sess EXCEPT ![j] = r]
    BY <1>11 DEF WState, Typed
  <2>3. r \in Session /\ r.place = sess[j].place /\ r.done = sess[j].done
    BY DEF Session
  <2> HIDE DEF r
  <2>4. sess' \in [Slots -> Session] /\ (\A s \in Slots \ {j} : sess'[s] = sess[s]) /\ Kept(j)
    BY <1>5, <2>2, <2>3
  <2> QED
    BY <1>11, <2>1, <2>4, GotoWorks DEF WState, Typed, WPCs
<1>12. ASSUME WEvents(w) PROVE Works(w)
  <2> DEFINE k == [wk[w] EXCEPT !.pc = "addc", !.flag = sess[j].udp_tcp /\ sess[j].tx > 0]
  <2>1. k \in Wk /\ k.job = j /\ k.pc \notin {"idle", "exited"} /\ wk' = [wk EXCEPT ![w] = k]
    BY <1>12 DEF WEvents, Wk, WPCs, Typed
  <2> HIDE DEF k
  <2> QED
    BY <1>12, <2>1, OwnRecord DEF WEvents, Typed
<1>13. ASSUME WAddControl(w) PROVE Works(w)
  <2> DEFINE k == [wk[w] EXCEPT !.pc = "armed", !.cfd = None]
             e == [s |-> j, sock |-> IF sess[j].udp_tcp THEN "relay" ELSE "control", out |-> wk[w].flag]
  <2>1. k \in Wk /\ k.job = j /\ k.pc \notin {"idle", "exited"}
    BY DEF Wk, WPCs
  <2>2. \/ wk' = [wk EXCEPT ![w] = k]
        \/ \E pc \in {"addr", "failc"} : Goto(w, pc)
    BY <1>13 DEF WAddControl, Typed, Goto
  <2> HIDE DEF k
  <2>3. /\ wk' \in [Workers -> Wk] /\ \A v \in Workers \ {w} : wk'[v] = wk[v]
        /\ wk'[w].job = Job(w) /\ wk'[w].pc \notin {"idle", "exited"}
    BY <2>1, <2>2, OwnRecord, GotoWorks DEF WPCs
  <2>4. reg' \in [Fds -> [s: Slots, sock: {"control", "relay"}, out: BOOLEAN] \cup {None}]
    <3>1. e \in [s: Slots, sock: {"control", "relay"}, out: BOOLEAN]
      BY DEF Wk
    <3>2. reg' = [reg EXCEPT ![wk[w].cfd] = e] \/ UNCHANGED reg
      BY <1>13 DEF WAddControl
    <3> HIDE DEF e
    <3> QED
      BY <3>1, <3>2 DEF Typed
  <2> QED
    BY <1>13, <2>3, <2>4 DEF WAddControl, Typed
<1>14. ASSUME WArmed(w) PROVE Works(w)
  <2> DEFINE r == [sess[j] EXCEPT !.armed = @ \/ sess[j].tx > 0]
  <2>1. Goto(w, "done")
    BY <1>14 DEF WArmed
  <2>2. sess' = [sess EXCEPT ![j] = r]
    BY <1>14 DEF WArmed
  <2>3. r \in Session /\ r.place = sess[j].place /\ r.done = sess[j].done
    BY DEF Session
  <2> HIDE DEF r
  <2>4. sess' \in [Slots -> Session] /\ (\A s \in Slots \ {j} : sess'[s] = sess[s]) /\ Kept(j)
    BY <1>5, <2>2, <2>3
  <2> QED
    BY <1>14, <2>1, <2>4, GotoWorks DEF WArmed, Typed, WPCs
<1>15. ASSUME WAddRelay(w) PROVE Works(w)
  <2> DEFINE k == [wk[w] EXCEPT !.pc = "done", !.cfd = None, !.rfd = None]
             e == [s |-> j, sock |-> "relay", out |-> FALSE]
  <2>1. k \in Wk /\ k.job = j /\ k.pc \notin {"idle", "exited"}
    BY DEF Wk, WPCs
  <2>2. wk' = [wk EXCEPT ![w] = k] \/ Goto(w, "failc")
    BY <1>15 DEF WAddRelay, Typed
  <2> HIDE DEF k
  <2>3. /\ wk' \in [Workers -> Wk] /\ \A v \in Workers \ {w} : wk'[v] = wk[v]
        /\ wk'[w].job = Job(w) /\ wk'[w].pc \notin {"idle", "exited"}
    BY <2>1, <2>2, OwnRecord, GotoWorks DEF WPCs
  <2>4. reg' \in [Fds -> [s: Slots, sock: {"control", "relay"}, out: BOOLEAN] \cup {None}]
    <3>1. e \in [s: Slots, sock: {"control", "relay"}, out: BOOLEAN]
      OBVIOUS
    <3>2. reg' = [reg EXCEPT ![wk[w].rfd] = e] \/ reg' = [reg EXCEPT ![wk[w].cfd] = None]
      BY <1>15 DEF WAddRelay
    <3> HIDE DEF e
    <3> QED
      BY <3>1, <3>2 DEF Typed
  <2> QED
    BY <1>15, <2>3, <2>4 DEF WAddRelay, Typed
<1>16. ASSUME WFailControl(w) PROVE Works(w)
  <2> DEFINE r == [sess[j] EXCEPT !.cfd = None]
             k == [wk[w] EXCEPT !.pc = "failr", !.cfd = None]
  <2>1. k \in Wk /\ k.job = j /\ k.pc \notin {"idle", "exited"} /\ wk' = [wk EXCEPT ![w] = k]
    BY <1>16 DEF WFailControl, Wk, WPCs, Typed
  <2>2. sess' = sess \/ sess' = [sess EXCEPT ![j] = r]
    BY <1>16 DEF WFailControl
  <2>3. r \in Session /\ r.place = sess[j].place /\ r.done = sess[j].done
    BY DEF Session
  <2> HIDE DEF r, k
  <2>4. sess' \in [Slots -> Session] /\ (\A s \in Slots \ {j} : sess'[s] = sess[s]) /\ Kept(j)
    BY <1>5, <2>2, <2>3
  <2> QED
    BY <1>16, <2>1, <2>4, OwnRecord, ReleaseType DEF WFailControl, Typed
<1>17. ASSUME WFailRelay(w) PROVE Works(w)
  <2> DEFINE r == [sess[j] EXCEPT !.rfd = None]
             k == [wk[w] EXCEPT !.pc = "unlink", !.rfd = None]
  <2>1. k \in Wk /\ k.job = j /\ k.pc \notin {"idle", "exited"} /\ wk' = [wk EXCEPT ![w] = k]
    BY <1>17 DEF WFailRelay, Wk, WPCs, Typed
  <2>2. sess' = sess \/ sess' = [sess EXCEPT ![j] = r]
    BY <1>17 DEF WFailRelay
  <2>3. r \in Session /\ r.place = sess[j].place /\ r.done = sess[j].done
    BY DEF Session
  <2> HIDE DEF r, k
  <2>4. sess' \in [Slots -> Session] /\ (\A s \in Slots \ {j} : sess'[s] = sess[s]) /\ Kept(j)
    BY <1>5, <2>2, <2>3
  <2> QED
    BY <1>17, <2>1, <2>4, OwnRecord, ReleaseType DEF WFailRelay, Typed
<1>18. ASSUME WUnlink(w) PROVE Works(w)
  <2> DEFINE r == [sess[j] EXCEPT !.place = "grave"]
  <2>1. Goto(w, "done")
    BY <1>18 DEF WUnlink
  <2>2. sess' = sess \/ (sess[j].place = "hash" /\ sess' = [sess EXCEPT ![j] = r])
    BY <1>18 DEF WUnlink, InHash
  <2>3. r \in Session /\ r.place = "grave" /\ r.done = sess[j].done
    BY DEF Session
  <2> HIDE DEF r
  <2>4. sess' \in [Slots -> Session] /\ (\A s \in Slots \ {j} : sess'[s] = sess[s]) /\ Kept(j)
    BY <1>5, <2>2, <2>3
  <2> QED
    BY <1>18, <2>1, <2>4, GotoWorks DEF WUnlink, Typed, WPCs
<1> QED
  BY <1>3, <1>4, <1>6, <1>7, <1>8, <1>9, <1>10, <1>11, <1>12, <1>13, <1>14, <1>15, <1>16,
     <1>17, <1>18 DEF AtWork, WSocket, WResocket

LEMMA WorksLoans ==
  ASSUME LoanInv, NEW w \in Workers, Works(w)
  PROVE  LoanInv' /\ (\A s \in Slots : Kept(s)) /\ InUse' = InUse
<1> USE DEF LoanInv, Works, Engine, ctl
<1>1. Typed'
  BY DEF Typed
<1>2. \A v \in Workers : wk'[v].job = wk[v].job
  BY DEF Job
<1>3. \A s \in Slots : Kept(s)
  BY DEF Kept
<1>4. JobPlaces'
  BY UdpSessAssumption DEF JobPlaces, Job
<1>5. Loans'
  <2>1. \A v \in Workers : Job(v) \in Slots \cup {None}
    BY DEF Typed, Wk, Job
  <2>2. \A i \in 1..Len(queue) : queue[i] \in Slots
    BY DEF Typed
  <2> QED
    BY <1>2, <1>3, <2>1, <2>2 DEF Loans, OnLoan, Kept, Job
<1>6. LastOut'
  <2>1. wk[w].pc # "exited"
    BY UdpSessAssumption DEF JobPlaces
  <2> QED
    BY <2>1 DEF LastOut
<1>7. InUse' = InUse
  BY <1>2 DEF InUse, Queued, Job
<1> QED
  BY <1>1, <1>3, <1>4, <1>5, <1>6, <1>7

LEMMA QueueTail ==
  ASSUME NEW q \in Seq(Slots), q # <<>>
  PROVE  /\ Head(q) = q[1] /\ Head(q) \in Slots /\ Tail(q) \in Seq(Slots)
         /\ Len(q) \in Nat \ {0} /\ Len(Tail(q)) = Len(q) - 1
         /\ \A i \in 1..(Len(q) - 1) : Tail(q)[i] = q[i + 1]
  OBVIOUS

LEMMA TakeLoans ==
  ASSUME LoanInv, NEW w \in Workers, WTake(w)
  PROVE  LoanInv' /\ (\A s \in Slots : Kept(s)) /\ InUse' = InUse
<1> DEFINE k == [Idle EXCEPT !.pc = "sock", !.job = Head(queue)]
<1> USE DEF LoanInv, Engine, ctl, At, fdVars
<1>1. /\ Head(queue) = queue[1] /\ Head(queue) \in Slots /\ Tail(queue) \in Seq(Slots)
      /\ Len(queue) \in Nat \ {0} /\ Len(Tail(queue)) = Len(queue) - 1
      /\ \A i \in 1..(Len(queue) - 1) : Tail(queue)[i] = queue[i + 1]
  BY QueueTail DEF WTake, Typed
<1>2. k \in Wk /\ k.job = queue[1] /\ k.pc = "sock"
  BY <1>1 DEF Idle, Wk, WPCs
<1>3. wk' = [wk EXCEPT ![w] = k] /\ queue' = Tail(queue) /\ UNCHANGED <<sess, count, poolOn, fdVars, Engine>>
  BY DEF WTake
<1> HIDE DEF k
<1>4. wk' \in [Workers -> Wk] /\ wk'[w] = k /\ \A v \in Workers \ {w} : wk'[v] = wk[v]
  BY <1>2, <1>3, OwnRecord
<1>5. Typed'
  BY <1>1, <1>3, <1>4 DEF Typed
<1>6. \A s \in Slots : Kept(s)
  BY <1>3 DEF Kept
<1>7. JobPlaces'
  BY <1>1, <1>2, <1>4, UdpSessAssumption DEF JobPlaces, Job
<1>8. Job(w) = None
  BY DEF WTake, JobPlaces
<1>9. 1 \in 1..Len(queue)
  BY <1>1
<1>10. Loans'
  <2> USE DEF Job
  <2>1. \A u, v \in Workers : wk'[u].job = wk'[v].job /\ wk'[u].job # None => u = v
    BY <1>2, <1>4, <1>9 DEF Loans
  <2>2. \A i, j \in 1..Len(queue') : queue'[i] = queue'[j] => i = j
    BY <1>1, <1>3 DEF Loans
  <2>3. \A i \in 1..Len(queue'), v \in Workers : queue'[i] # wk'[v].job
    BY <1>1, <1>2, <1>3, <1>4 DEF Loans
  <2>4. \A i \in 1..Len(queue') : OnLoan(queue[i])'
    BY <1>1, <1>3 DEF Loans, OnLoan
  <2>5. \A v \in Workers : wk'[v].job # None => OnLoan(wk[v].job)'
    BY <1>2, <1>3, <1>4, <1>9 DEF Loans, OnLoan
  <2> QED
    BY <2>1, <2>2, <2>3, <2>4, <2>5 DEF Loans
<1>11. LastOut'
  <2>1. \A v \in Workers : wk'[v].pc # "exited"
    BY <1>2, <1>4 DEF WTake, LastOut
  <2> QED
    BY <2>1 DEF LastOut
<1>12. InUse' = InUse
  <2>1. \A s : s \in InUse <=> (\E i \in 1..Len(queue) : s = queue[i]) \/ (s # None /\ \E v \in Workers : s = wk[v].job)
    BY DEF InUse, Queued, Job, Typed
  <2>2. \A s : s \in InUse' <=> (\E i \in 1..Len(queue') : s = queue'[i]) \/ (s # None /\ \E v \in Workers : s = wk'[v].job)
    BY <1>5 DEF InUse, Queued, Job, Typed
  <2>3. ASSUME NEW s \in InUse PROVE s \in InUse'
    <3>1. CASE \E v \in Workers : s = wk[v].job /\ s # None
      BY <1>4, <1>8, <2>2, <3>1 DEF Job
    <3>2. ASSUME NEW i \in 1..Len(queue), s = queue[i], i # 1 PROVE s \in InUse'
      <4>1. i - 1 \in 1..(Len(queue) - 1) /\ Tail(queue)[i - 1] = queue[i]
        BY <1>1, <3>2
      <4> QED
        BY <1>1, <1>3, <2>2, <3>2, <4>1
    <3>3. CASE s = queue[1]
      BY <1>1, <1>2, <1>4, <2>2, <3>3, UdpSessAssumption
    <3> QED
      BY <2>1, <2>3, <3>1, <3>2, <3>3
  <2>4. ASSUME NEW s \in InUse' PROVE s \in InUse
    <3>1. CASE \E i \in 1..Len(queue') : s = queue'[i]
      BY <1>1, <1>3, <2>1, <3>1
    <3>2. CASE s # None /\ \E v \in Workers : s = wk'[v].job
      BY <1>2, <1>4, <1>9, <2>1, <3>2
    <3> QED
      BY <2>2, <2>4, <3>1, <3>2
  <2> QED
    BY <2>3, <2>4
<1> QED
  BY <1>5, <1>6, <1>7, <1>10, <1>11, <1>12

LEMMA ExitLoans ==
  ASSUME LoanInv, NEW w \in Workers, WExit(w)
  PROVE  LoanInv' /\ (\A s \in Slots : Kept(s)) /\ InUse' = InUse
<1> USE DEF LoanInv, Engine, ctl, At, fdVars, Job
<1>1. /\ wk' \in [Workers -> Wk]
      /\ wk'[w].pc = "exited" /\ \A v \in Workers : wk'[v].job = wk[v].job
      /\ \A v \in Workers \ {w} : wk'[v] = wk[v]
  BY GotoWorks DEF WExit, WPCs
<1>2. Typed' /\ JobPlaces' /\ LastOut'
  BY <1>1 DEF WExit, Typed, JobPlaces, LastOut
<1>3. Loans' /\ InUse' = InUse /\ \A s \in Slots : Kept(s)
  BY <1>1 DEF WExit, Loans, OnLoan, InUse, Queued, Kept
<1> QED
  BY <1>2, <1>3

\* The worker gives its session back.
LEMMA DoneLoans ==
  ASSUME LoanInv, NEW w \in Workers, WDone(w)
  PROVE  /\ LoanInv' /\ InUse' \subseteq InUse
         /\ \A s \in Slots : sess'[s].place = sess[s].place
<1> DEFINE r == [sess[wk[w].job] EXCEPT !.done = TRUE]
<1> USE DEF LoanInv, Engine, ctl, At, fdVars, Job
<1>1. wk[w].job \in Slots
  BY DEF WDone, JobPlaces, Typed, Wk
<1>2. r \in Session /\ r.place = sess[wk[w].job].place
  <2>1. sess[wk[w].job] \in Session
    BY <1>1 DEF Typed
  <2> QED
    BY <2>1 DEF Session
<1>3. sess' = [sess EXCEPT ![wk[w].job] = r]
  BY DEF WDone
<1> HIDE DEF r
<1>4. /\ sess' \in [Slots -> Session] /\ \A s \in Slots \ {wk[w].job} : sess'[s] = sess[s]
      /\ \A s \in Slots : sess'[s].place = sess[s].place
  BY <1>1, <1>2, <1>3, OwnSession
<1>5. wk' \in [Workers -> Wk] /\ wk'[w] = Idle /\ \A v \in Workers \ {w} : wk'[v] = wk[v]
  BY IdleType, OwnRecord DEF WDone
<1>6. Idle.job = None /\ Idle.pc = "idle"
  BY DEF Idle
<1>7. Typed' /\ JobPlaces' /\ LastOut'
  BY <1>4, <1>5, <1>6 DEF WDone, Typed, JobPlaces, LastOut
<1>8. Loans'
  <2>1. \A v \in Workers : wk'[v].job # None => v # w /\ wk'[v].job = wk[v].job /\ wk[v].job # wk[w].job
    BY <1>1, <1>5, <1>6 DEF Loans
  <2>2. \A i \in 1..Len(queue) : queue[i] # wk[w].job /\ queue[i] \in Slots
    BY DEF Loans, Typed
  <2>3. \A s \in Slots : s # wk[w].job => (OnLoan(s) => OnLoan(s)')
    BY <1>4 DEF OnLoan
  <2>4. \A v \in Workers : wk[v].job \in Slots \cup {None}
    BY DEF Typed, Wk
  <2>5. \A i \in 1..Len(queue) : OnLoan(queue[i])'
    BY <2>2, <2>3 DEF Loans, WDone
  <2>6. \A v \in Workers : wk'[v].job # None => OnLoan(wk[v].job)'
    BY <2>1, <2>3, <2>4 DEF Loans
  <2>7. queue' = queue
    BY DEF WDone
  <2>8. \A i \in 1..Len(queue), v \in Workers : queue[i] # wk'[v].job
    BY <2>1, <2>2, UdpSessAssumption DEF Loans
  <2>9. \A u, v \in Workers : wk'[u].job = wk'[v].job /\ wk'[u].job # None => u = v
    BY <2>1 DEF Loans
  <2> QED
    BY <2>5, <2>6, <2>7, <2>8, <2>9 DEF Loans, OnLoan
<1>9. InUse' \subseteq InUse
  BY <1>5, <1>6 DEF WDone, InUse, Queued
<1> QED
  BY <1>4, <1>7, <1>8, <1>9

-----------------------------------------------------------------------------
(* Steps of the engine.                                                    *)

\* The session was nobody's and is freed.
Freed(s) ==
    sess[s].place # "free" /\ sess'[s].place = "free" /\ s \notin InUse

LEMMA InUseOnLoan ==
  ASSUME LoanInv
  PROVE  \A s \in InUse : s \in Slots /\ OnLoan(s)
  BY DEF LoanInv, Loans, InUse, Queued, Typed, Wk, Job

LEMMA EngineLoans ==
  ASSUME LoanInv, Typed', UNCHANGED <<queue, wk>>, poolOn' => poolOn,
         \A s \in Slots : Kept(s) \/ Freed(s)
  PROVE  LoanInv' /\ InUse' = InUse
<1> USE DEF LoanInv, Job
<1>1. InUse' = InUse
  BY DEF InUse, Queued
<1>2. \A s \in InUse : s \in Slots /\ OnLoan(s)
  BY InUseOnLoan
<1>3. \A s \in InUse : OnLoan(s)'
  BY <1>2 DEF OnLoan, Kept, Freed
<1>4. /\ \A i \in 1..Len(queue) : queue[i] \in InUse
      /\ \A w \in Workers : wk[w].job # None => wk[w].job \in InUse
  BY DEF InUse, Queued, Typed
<1>5. Loans'
  BY <1>3, <1>4 DEF Loans, OnLoan
<1> QED
  BY <1>1, <1>5 DEF JobPlaces, LastOut

LEMMA CloseKeeps ==
  ASSUME Typed, NEW S \in SUBSET {s \in Slots : InHash(s)}, CloseSessions(S)
  PROVE  \A s \in Slots : Kept(s)
<1> SUFFICES ASSUME NEW s \in Slots PROVE Kept(s)
  OBVIOUS
<1>1. sess[s] \in Session
  BY DEF Typed
<1>2. CASE s \notin S
  BY <1>2 DEF CloseSessions, Kept
<1>3. CASE s \in S
  <2>1. sess'[s] = [sess[s] EXCEPT !.place = "grave", !.cfd = None, !.rfd = None]
    BY <1>3 DEF CloseSessions
  <2>2. sess[s].place = "hash"
    BY <1>3 DEF InHash
  <2> QED
    BY <1>1, <2>1, <2>2 DEF Kept, Session
<1> QED
  BY <1>2, <1>3

\* ParkAll parks what is in the hash.
LEMMA ParkAllKeeps ==
  ASSUME Typed, NEW s \in Slots
  PROVE  /\ ParkAll[s] \in Session
         /\ \/ ParkAll[s].place = sess[s].place
            \/ sess[s].place = "hash" /\ ParkAll[s].place = "grave"
         /\ ParkAll[s].done = sess[s].done
         /\ ParkAll[s].cfd = sess[s].cfd /\ ParkAll[s].rfd = sess[s].rfd
         /\ ParkAll[s].udp_tcp = sess[s].udp_tcp
         /\ sess[s].place = "free" => ParkAll[s] = sess[s]
<1>1. sess[s] \in Session
  BY DEF Typed
<1> QED
  BY <1>1 DEF ParkAll, InHash, Session

\* Collecting frees only sessions a worker has given back.
LEMMA CollectKeeps ==
  ASSUME LoanInv, NEW st \in [Slots -> Session], udp_graveyard_collect(st),
         \A s \in Slots :
            /\ \/ st[s].place = sess[s].place
               \/ sess[s].place = "hash" /\ st[s].place = "grave"
            /\ st[s].done = sess[s].done
  PROVE  \A s \in Slots : Kept(s) \/ Freed(s)
<1> SUFFICES ASSUME NEW s \in Slots PROVE Kept(s) \/ Freed(s)
  OBVIOUS
<1>1. CASE ~MayFree(st[s])
  <2>1. sess'[s] = st[s]
    BY <1>1 DEF udp_graveyard_collect
  <2> QED
    BY <2>1 DEF Kept
<1>2. CASE MayFree(st[s])
  <2>1. sess'[s] = Blank
    BY <1>2 DEF udp_graveyard_collect
  <2>2. sess[s].place # "free" /\ sess[s].done
    BY <1>2 DEF MayFree
  <2>3. s \notin InUse
    BY <2>2, InUseOnLoan DEF OnLoan
  <2> QED
    BY <2>1, <2>2, <2>3 DEF Freed, Blank
<1> QED
  BY <1>1, <1>2

\* When all workers have left nothing is on loan.
LEMMA NobodyLeft ==
  ASSUME LoanInv, \A w \in Workers : wk[w].pc = "exited"
  PROVE  InUse = {}
<1>1. queue = <<>>
  BY UdpSessAssumption DEF LoanInv, LastOut
<1>2. \A w \in Workers : Job(w) = None
  BY DEF LoanInv, JobPlaces
<1> QED
  BY <1>1, <1>2 DEF InUse, Queued

\* Every step but a worker's and the creation of a session.
Others ==
    \/ EngineStep \/ (\E s \in Slots : Age(s)) \/ AskReset \/ Stop \/ Stopped
    \/ UNCHANGED vars

LEMMA OthersKeep ==
  ASSUME LoanInv, Others
  PROVE  /\ Typed' /\ UNCHANGED <<queue, wk>> /\ (poolOn' => poolOn)
         /\ \A s \in Slots : Kept(s) \/ Freed(s)
         /\ \/ UNCHANGED count /\ \A s \in Slots : Kept(s)
            \/ EngSoftReset \/ EngCollect \/ EngJoin
<1> USE DEF LoanInv, fdVars, hsVars, ctl, Goto_e
<1>1. ASSUME UNCHANGED sess PROVE \A s \in Slots : Kept(s)
  BY <1>1 DEF Kept
<1>2. CASE EngTop \/ EngWait \/ EngTun \/ EngTunEnd \/ EngShutdown \/ EngNoGc \/ EngStopPool
  <2>1. batch' \subseteq Socks \cup {TunEv, StopEv}
    <3>1. ASSUME EngWait PROVE batch' \subseteq Socks \cup {TunEv, StopEv}
      <4>1. \A f \in Fds : reg[f] # None => <<reg[f].s, reg[f].sock>> \in Socks
        BY DEF Typed, Socks
      <4> QED
        BY <3>1, <4>1 DEF EngWait
    <3> QED
      BY <1>2, <3>1 DEF EngTop, EngTun, EngTunEnd, EngShutdown, EngNoGc, EngStopPool, Typed
  <2>2. UNCHANGED <<sess, count, queue, wk, owner, reg, cur, running, reset>>
    BY <1>2 DEF EngTop, EngWait, EngTun, EngTunEnd, EngShutdown, EngNoGc, EngStopPool
  <2>3. epc' \in {"wait", "closing", "batch", "tun", "collect", "join"}
    BY <1>2 DEF EngTop, EngWait, EngTun, EngTunEnd, EngShutdown, EngNoGc, EngStopPool
  <2>4. poolOn' \in BOOLEAN /\ (poolOn' => poolOn)
    <3>1. CASE EngStopPool
      BY <3>1 DEF EngStopPool
    <3>2. CASE ~EngStopPool
      BY <1>2, <3>2 DEF EngTop, EngWait, EngTun, EngTunEnd, EngShutdown, EngNoGc, Typed
    <3> QED
      BY <3>1, <3>2
  <2> QED
    BY <1>1, <2>1, <2>2, <2>3, <2>4 DEF Typed
<1>3. CASE AskReset \/ Stop \/ Stopped \/ UNCHANGED vars
  <2>1. UNCHANGED <<sess, count, queue, wk, poolOn, owner, reg, epc, cur, batch>>
    BY <1>3 DEF AskReset, Stop, Stopped, vars
  <2>2. running' \in BOOLEAN /\ reset' \in BOOLEAN
    BY <1>3 DEF AskReset, Stop, Stopped, vars, Typed
  <2>3. Typed'
    BY <2>1, <2>2 DEF Typed
  <2> QED
    BY <1>1, <2>1, <2>3
<1>4. ASSUME NEW s \in Slots, NEW r \in Session, sess' = [sess EXCEPT ![s] = r] \/ (sess' = sess /\ r = sess[s]),
             r.place = sess[s].place, r.done = sess[s].done
      PROVE  sess' \in [Slots -> Session] /\ \A t \in Slots : Kept(t)
  BY <1>4, OwnSession DEF Kept, Typed
<1>5. ASSUME NEW s \in Slots, Age(s)
      PROVE  Typed' /\ UNCHANGED <<queue, wk, poolOn, count>> /\ \A t \in Slots : Kept(t)
  <2> DEFINE r == [sess[s] EXCEPT !.seen = "quiet"]
  <2>1. sess' = [sess EXCEPT ![s] = r]
    BY <1>5 DEF Age
  <2>2. r \in Session /\ r.place = sess[s].place /\ r.done = sess[s].done
    BY DEF Typed, Session
  <2> HIDE DEF r
  <2> QED
    BY <1>4, <1>5, <2>1, <2>2 DEF Age, Typed, Engine
<1>6. ASSUME EngBuffer
      PROVE  Typed' /\ UNCHANGED <<queue, wk, poolOn, count>> /\ \A t \in Slots : Kept(t)
  <2>1. PICK b \in BOOLEAN : sess' = [sess EXCEPT ![cur].pend = @ \/ b]
    BY <1>6 DEF EngBuffer
  <2>2. CASE cur \in Slots
    <3> DEFINE r == [sess[cur] EXCEPT !.pend = @ \/ b]
    <3>1. sess' = [sess EXCEPT ![cur] = r]
      BY <2>1
    <3>2. r \in Session /\ r.place = sess[cur].place /\ r.done = sess[cur].done
      BY <2>2 DEF Typed, Session
    <3> HIDE DEF r
    <3> QED
      BY <1>4, <1>6, <2>2, <3>1, <3>2 DEF EngBuffer, Typed
  <2>3. CASE cur \notin Slots
    <3>1. sess' = sess
      BY <2>1, <2>3 DEF Typed
    <3> QED
      BY <1>1, <1>6, <3>1 DEF EngBuffer, Typed
  <2> QED
    BY <2>2, <2>3
<1>7. ASSUME EngForward
      PROVE  Typed' /\ UNCHANGED <<queue, wk, poolOn, count>> /\ \A t \in Slots : Kept(t)
  <2> DEFINE append == InHash(cur) /\ sess[cur].udp_tcp /\ sess[cur].tx < TxCap
             r == [sess[cur] EXCEPT !.tx = IF append THEN @ + 1 ELSE @,
                                    !.seen = IF @ = "fresh" THEN @ ELSE "app"]
  <2>1. CASE cur \in Slots
    <3>1. sess' = [sess EXCEPT ![cur] = r]
      BY <1>7, <2>1 DEF EngForward, Typed
    <3>2. r \in Session /\ r.place = sess[cur].place /\ r.done = sess[cur].done
      <4>1. sess[cur] \in Session
        BY <2>1 DEF Typed
      <4>2. (IF append THEN sess[cur].tx + 1 ELSE sess[cur].tx) \in 0..TxCap
        BY <4>1, UdpSessAssumption DEF Session
      <4> HIDE DEF append
      <4> QED
        BY <4>1, <4>2 DEF Session
    <3> HIDE DEF r
    <3> QED
      BY <1>4, <1>7, <2>1, <3>1, <3>2 DEF EngForward, Typed
  <2>2. CASE cur \notin Slots
    <3>1. sess' = sess
      BY <1>7, <2>2 DEF EngForward, Typed
    <3> QED
      BY <1>1, <1>7, <3>1 DEF EngForward, Typed
  <2> QED
    BY <2>1, <2>2
<1>8. ASSUME EngArm
      PROVE  Typed' /\ UNCHANGED <<queue, wk, poolOn, count>> /\ \A t \in Slots : Kept(t)
  <2> DEFINE f == sess[cur].cfd
             r == [sess[cur] EXCEPT !.armed = TRUE]
  <2>1. CASE UNCHANGED <<reg, sess>>
    BY <1>1, <1>8, <2>1 DEF EngArm, Typed
  <2>2. CASE /\ f # None /\ reg[f] # None
             /\ reg' = [reg EXCEPT ![f].out = TRUE]
             /\ sess' = [sess EXCEPT ![cur].armed = TRUE]
    <3>1. reg' \in [Fds -> [s: Slots, sock: {"control", "relay"}, out: BOOLEAN] \cup {None}]
      <4>1. CASE f \in Fds
        <5>1. reg[f] \in [s: Slots, sock: {"control", "relay"}, out: BOOLEAN]
          BY <2>2, <4>1 DEF Typed
        <5>2. [reg[f] EXCEPT !.out = TRUE] \in [s: Slots, sock: {"control", "relay"}, out: BOOLEAN]
          BY <5>1
        <5> QED
          BY <2>2, <5>2 DEF Typed
      <4>2. CASE f \notin Fds
        BY <2>2, <4>2 DEF Typed
      <4> QED
        BY <4>1, <4>2
    <3>2. CASE cur \in Slots
      <4>1. sess' = [sess EXCEPT ![cur] = r]
        BY <2>2
      <4>2. r \in Session /\ r.place = sess[cur].place /\ r.done = sess[cur].done
        BY <3>2 DEF Typed, Session
      <4> HIDE DEF r
      <4> QED
        BY <1>4, <1>8, <3>1, <3>2, <4>1, <4>2 DEF EngArm, Typed
    <3>3. CASE cur \notin Slots
      <4>1. sess' = sess
        BY <2>2, <3>3 DEF Typed
      <4> QED
        BY <1>1, <1>8, <3>1, <4>1 DEF EngArm, Typed
    <3> QED
      BY <3>2, <3>3
  <2> QED
    BY <1>8, <2>1, <2>2 DEF EngArm
<1>9. ASSUME EngSoftReset
      PROVE  Typed' /\ UNCHANGED <<queue, wk, poolOn>> /\ \A s \in Slots : Kept(s) \/ Freed(s)
  <2>1. ParkAll \in [Slots -> Session] /\ udp_graveyard_collect(ParkAll)
    BY <1>9, ParkAllType DEF EngSoftReset
  <2>2. \A s \in Slots : Kept(s) \/ Freed(s)
    BY <2>1, CollectKeeps, ParkAllKeeps
  <2> QED
    BY <1>9, <2>1, <2>2, CollectType DEF EngSoftReset, Typed
<1>10. ASSUME EngCollect
      PROVE  Typed' /\ UNCHANGED <<queue, wk, poolOn>> /\ \A s \in Slots : Kept(s) \/ Freed(s)
  <2>1. sess \in [Slots -> Session] /\ udp_graveyard_collect(sess)
    BY <1>10 DEF EngCollect, Typed
  <2>2. \A s \in Slots : Kept(s) \/ Freed(s)
    BY <2>1, CollectKeeps
  <2> QED
    BY <1>10, <2>1, <2>2, CollectType DEF EngCollect, Typed
<1>11. ASSUME EngJoin
      PROVE  Typed' /\ UNCHANGED <<queue, wk, poolOn>> /\ \A s \in Slots : Kept(s) \/ Freed(s)
  <2> DEFINE F == {s \in Slots : InHash(s) \/ MayFree(sess[s])}
             G == {s \in F : ~InHash(s)}
  <2>1. InUse = {}
    BY <1>11, NobodyLeft DEF EngJoin, At
  <2>2. sess' = [s \in Slots |-> IF s \in F THEN Blank ELSE sess[s]]
    BY <1>11 DEF EngJoin
  <2>3. \A s \in Slots : Kept(s) \/ Freed(s)
    <3> SUFFICES ASSUME NEW s \in Slots PROVE Kept(s) \/ Freed(s)
      OBVIOUS
    <3>1. CASE s \in F
      <4>1. sess[s].place # "free"
        BY <3>1 DEF InHash, MayFree
      <4> HIDE DEF F
      <4> QED
        BY <2>1, <2>2, <3>1, <4>1 DEF Freed, Blank
    <3>2. CASE s \notin F
      <4> HIDE DEF F
      <4> QED
        BY <2>2, <3>2 DEF Kept
    <3> QED
      BY <3>1, <3>2
  <2>4. sess' \in [Slots -> Session]
    <3> HIDE DEF F
    <3> QED
      BY <2>2, BlankType DEF Typed
  <2>5. count' \in Int
    <3>1. IsFiniteSet(G)
      BY UdpSessAssumption, FS_Subset
    <3>2. Cardinality(G) \in Nat
      BY <3>1, FS_CardinalityType
    <3>3. count' = count - Cardinality(G)
      BY <1>11 DEF EngJoin
    <3> QED
      BY <3>2, <3>3 DEF Typed
  <2>6. PICK D : Release(D)
    BY <1>11 DEF EngJoin
  <2> QED
    BY <1>11, <2>3, <2>4, <2>5, <2>6, ReleaseType DEF EngJoin, Typed
<1>12. ASSUME NEW i \in Socks, EngEventClosed(i) \/ EngEventFatal(i)
      PROVE  Typed' /\ UNCHANGED <<queue, wk, poolOn, count>> /\ \A t \in Slots : Kept(t)
  <2>1. CASE EngEventClosed(i)
    BY <1>1, <2>1 DEF EngEventClosed, Typed
  <2>2. CASE EngEventFatal(i)
    <3>1. i[1] \in Slots
      BY DEF Socks
    <3>2. {i[1]} \in SUBSET {s \in Slots : InHash(s)} /\ CloseSessions({i[1]})
      BY <2>2, <3>1 DEF EngEventFatal
    <3> QED
      BY <2>2, <3>2, CloseKeeps, CloseType DEF EngEventFatal, Typed
  <2> QED
    BY <1>12, <2>1, <2>2
<1>13. ASSUME NEW i \in Socks, EngEventRead(i)
      PROVE  Typed' /\ UNCHANGED <<queue, wk, poolOn, count>> /\ \A t \in Slots : Kept(t)
  <2> DEFINE r == [sess[i[1]] EXCEPT !.seen = "fresh"]
  <2>1. i[1] \in Slots /\ sess' = [sess EXCEPT ![i[1]] = r]
    BY <1>13 DEF EngEventRead, Socks
  <2>3. sess[i[1]] \in Session
    BY <2>1 DEF Typed
  <2>2. r \in Session /\ r.place = sess[i[1]].place /\ r.done = sess[i[1]].done
    BY <2>3 DEF Session
  <2> HIDE DEF r
  <2> QED
    BY <1>4, <1>13, <2>1, <2>2 DEF EngEventRead, Typed
<1>14. ASSUME NEW i \in Socks, EngEventFlush(i)
      PROVE  Typed' /\ UNCHANGED <<queue, wk, poolOn, count>> /\ \A t \in Slots : Kept(t)
  <2> DEFINE s == i[1]
             f == sess[s].cfd
  <2>1. s \in Slots
    BY DEF Socks
  <2>2. sess[s] \in Session
    BY <2>1 DEF Typed
  <2>3. f \in Fds /\ reg[f] # None
    BY <1>14, <2>2 DEF EngEventFlush, Session
  <2>4. PICK left \in 0..sess[s].tx :
           LET off == left = 0 /\ sess[s].armed
           IN /\ sess' = [sess EXCEPT ![s].tx = left, ![s].seen = "fresh", ![s].armed = @ /\ ~off]
              /\ reg' = [reg EXCEPT ![f].out = @ /\ ~off]
    BY <1>14 DEF EngEventFlush
  <2> DEFINE off == left = 0 /\ sess[s].armed
             r == [sess[s] EXCEPT !.tx = left, !.seen = "fresh", !.armed = @ /\ ~off]
             e == [reg[f] EXCEPT !.out = @ /\ ~off]
  <2>5. sess' = [sess EXCEPT ![s] = r]
    BY <2>1, <2>4 DEF Typed
  <2>6. left \in 0..TxCap
    BY <2>2, UdpSessAssumption DEF Session
  <2>7. r \in Session /\ r.place = sess[s].place /\ r.done = sess[s].done
    BY <2>2, <2>6 DEF Session
  <2>8. reg' = [reg EXCEPT ![f] = e]
    BY <2>4
  <2>9. e \in [s: Slots, sock: {"control", "relay"}, out: BOOLEAN]
    <3>1. reg[f] \in [s: Slots, sock: {"control", "relay"}, out: BOOLEAN]
      BY <2>3 DEF Typed
    <3> QED
      BY <3>1
  <2> HIDE DEF r, e
  <2>10. reg' \in [Fds -> [s: Slots, sock: {"control", "relay"}, out: BOOLEAN] \cup {None}]
    BY <2>8, <2>9 DEF Typed
  <2> HIDE DEF s, f
  <2> QED
    BY <1>4, <1>14, <2>1, <2>5, <2>7, <2>10 DEF EngEventFlush, Typed
<1>15. ASSUME EngGc
      PROVE  Typed' /\ UNCHANGED <<queue, wk, poolOn, count>> /\ \A t \in Slots : Kept(t)
  <2>1. PICK G \in SUBSET {s \in Slots : InHash(s)} : CloseSessions(G)
    BY <1>15 DEF EngGc
  <2> QED
    BY <1>15, <2>1, CloseKeeps, CloseType DEF EngGc, Typed
<1> QED
  BY <1>2, <1>3, <1>5, <1>6, <1>7, <1>8, <1>9, <1>10, <1>11, <1>12, <1>13, <1>14, <1>15
  DEF Others, EngineStep, EngEvent

-----------------------------------------------------------------------------
(* A datagram: a session is looked up, or created and lent to the queue.   *)

\* n comes out of nowhere; what is lent is what was and n.
Creates(n) ==
    /\ sess[n].place = "free" /\ OnLoan(n)' /\ InUse' = InUse \cup {n}
    /\ \A s \in Slots \ {n} : Kept(s)

LEMMA CreateLoans ==
  ASSUME LoanInv, NEW k \in Keys, TunDatagram(k)
  PROVE  /\ LoanInv'
         /\ \/ UNCHANGED <<sess, queue, wk>>
            \/ \E n \in Slots : Creates(n)
<1> USE DEF LoanInv, fdVars, ctl, Goto_e
<1> DEFINE found == {s \in Slots : InHash(s) /\ sess[s].key = k}
<1>1. CASE found # {}
  <2>1. cur' \in Slots /\ epc' = "found" /\ UNCHANGED <<sess, count, queue, wk, poolOn, fdVars, batch, ctl>>
    BY <1>1 DEF TunDatagram
  <2>2. Typed' /\ UNCHANGED <<queue, wk, poolOn>> /\ UNCHANGED sess
    BY <2>1 DEF Typed
  <2> QED
    BY <2>2, EngineLoans DEF Kept
<1>2. CASE found = {}
  <2>1. PICK n \in Slots \ Alloc, small \in BOOLEAN :
           /\ sess' = [sess EXCEPT ![n] = [Blank EXCEPT
                          !.place = "hash", !.key = k, !.pend = small]]
           /\ queue' = Append(queue, n)
    BY <1>2 DEF TunDatagram
  <2> DEFINE r == [Blank EXCEPT !.place = "hash", !.key = k, !.pend = small]
  <2>2. r \in Session /\ r.place = "hash" /\ ~r.done
    <3>1. r \in Session
      BY BlankType DEF Session
    <3> QED
      BY <3>1 DEF Blank
  <2>3. sess' = [sess EXCEPT ![n] = r]
    BY <2>1
  <2> HIDE DEF r
  <2>4. sess' \in [Slots -> Session] /\ sess'[n] = r /\ \A s \in Slots \ {n} : sess'[s] = sess[s]
    BY <2>2, <2>3, OwnSession
  <2>5. count' = count + 1 /\ poolOn /\ UNCHANGED <<epc, cur, wk, poolOn, fdVars, batch, ctl>>
    BY <1>2 DEF TunDatagram
  <2>6. queue' \in Seq(Slots) /\ Len(queue') = Len(queue) + 1 /\ queue'[Len(queue) + 1] = n
        /\ \A i \in 1..Len(queue) : queue'[i] = queue[i]
    BY <2>1 DEF Typed
  <2>7. Typed'
    BY <2>4, <2>5, <2>6 DEF Typed
  <2>8. sess[n].place = "free" /\ OnLoan(n)'
    BY <2>1, <2>2, <2>4 DEF Alloc, OnLoan
  <2>9. \A s \in Slots \ {n} : Kept(s)
    BY <2>4 DEF Kept
  <2>10. n \notin InUse
    BY <2>8, InUseOnLoan DEF OnLoan
  <2>11. Len(queue) \in Nat
    BY DEF Typed
  <2>12. \A i \in 1..Len(queue') : i \in 1..Len(queue) \/ i = Len(queue) + 1
    BY <2>6, <2>11
  <2>13. /\ \A i \in 1..Len(queue) : queue[i] \in InUse
         /\ \A w \in Workers : Job(w) # None => Job(w) \in InUse
    BY DEF InUse, Queued, Typed
  <2>14. \A s \in InUse : OnLoan(s)'
    <3>1. \A s \in InUse : s \in Slots /\ OnLoan(s) /\ s # n
      BY <2>10, InUseOnLoan
    <3> QED
      BY <2>9, <3>1 DEF OnLoan, Kept
  <2>15. Loans'
    <3> USE DEF Job
    <3>1. \A u, v \in Workers : wk'[u].job = wk'[v].job /\ wk'[u].job # None => u = v
      BY <2>5 DEF Loans
    <3>2. \A i, j \in 1..Len(queue') : queue'[i] = queue'[j] => i = j
      BY <2>6, <2>10, <2>12, <2>13 DEF Loans
    <3>3. \A i \in 1..Len(queue'), v \in Workers : queue'[i] # wk'[v].job
      BY <2>1, <2>5, <2>6, <2>10, <2>12, <2>13, UdpSessAssumption DEF Loans
    <3>4. \A i \in 1..Len(queue') : OnLoan(queue[i])'
      <4>1. \A i \in 1..Len(queue') : queue'[i] \in InUse \/ queue'[i] = n
        BY <2>6, <2>12, <2>13
      <4> QED
        BY <2>8, <2>14, <4>1 DEF OnLoan
    <3>5. \A v \in Workers : wk'[v].job # None => OnLoan(wk[v].job)'
      <4>1. \A v \in Workers : wk'[v].job = wk[v].job
        BY <2>5
      <4> QED
        BY <2>13, <2>14, <4>1 DEF OnLoan
    <3> QED
      BY <3>1, <3>2, <3>3, <3>4, <3>5 DEF Loans
  <2>16. JobPlaces' /\ LastOut'
    BY <2>5 DEF JobPlaces, LastOut, Job
  <2>17. InUse' = InUse \cup {n}
    <3>1. \A s : s \in Queued' <=> \E i \in 1..Len(queue') : s = queue'[i]
      BY <2>7 DEF Queued, Typed
    <3>2. \A s : s \in Queued <=> \E i \in 1..Len(queue) : s = queue[i]
      BY DEF Queued, Typed
    <3>3. Len(queue) + 1 \in 1..Len(queue')
      BY <2>6, <2>11
    <3>4. \A i \in 1..Len(queue) : i \in 1..Len(queue')
      BY <2>6, <2>11
    <3>5. \A s : s \in Queued' <=> s \in Queued \/ s = n
      BY <2>6, <2>12, <3>1, <3>2, <3>3, <3>4
    <3>6. \A v \in Workers : wk'[v].job = wk[v].job
      BY <2>5
    <3> QED
      BY <3>5, <3>6 DEF InUse, Job
  <2>18. Creates(n)
    BY <2>8, <2>9, <2>17 DEF Creates
  <2> QED
    BY <2>7, <2>15, <2>16, <2>18
<1> QED
  BY <1>1, <1>2

LEMMA LoanNext == LoanInv /\ [Next]_vars => LoanInv'
<1> SUFFICES ASSUME LoanInv, [Next]_vars PROVE LoanInv'
  OBVIOUS
<1>1. ASSUME NEW w \in Workers, Worker(w) PROVE LoanInv'
  <2>1. CASE AtWork(w)
    BY <2>1, AtWorkWorks, WorksLoans DEF LoanInv
  <2> QED
    BY <1>1, <2>1, TakeLoans, ExitLoans, DoneLoans DEF Worker, AtWork
<1>2. ASSUME NEW k \in Keys, TunDatagram(k) PROVE LoanInv'
  BY <1>2, CreateLoans
<1>3. CASE Others
  BY <1>3, OthersKeep, EngineLoans
<1> QED
  BY <1>1, <1>2, <1>3 DEF Next, Others

LEMMA LoanInvariance == Spec => []LoanInv
  BY LoanInit, LoanNext, PTL DEF Spec

-----------------------------------------------------------------------------
(* Refinement.                                                             *)

LEMMA ReleaseInit == Init => TP!TPInit
<1> SUFFICES ASSUME Init PROVE TP!TPInit
  OBVIOUS
<1>1. \A s \in Slots : sess[s].place = "free"
  BY DEF Init, Blank
<1>2. Stage = [s \in Slots |-> "free"]
  BY <1>1 DEF Stage
<1>3. InUse = {}
  BY DEF Init, InUse, Queued, Job, Idle
<1> QED
  BY <1>2, <1>3 DEF TP!TPInit

\* What a step does to a session, in the terms of TwoPhase.
LEMMA StageSteps ==
  ASSUME LoanInv, Typed', NEW s \in Slots
  PROVE  /\ Kept(s) /\ InUse' \subseteq InUse => TP!Return(s) \/ TP!Park(s)
         /\ Freed(s) /\ InUse' = InUse => TP!Free(s)
<1>1. sess[s].place \in {"free", "hash", "grave"} /\ sess'[s].place \in {"free", "hash", "grave"}
  BY DEF LoanInv, Typed, Session
<1>2. /\ Stage[s] = CASE sess[s].place = "hash" -> "live"
                      [] sess[s].place = "grave" -> "parked"
                      [] OTHER -> "free"
      /\ Stage'[s] = CASE sess'[s].place = "hash" -> "live"
                       [] sess'[s].place = "grave" -> "parked"
                       [] OTHER -> "free"
  BY DEF Stage
<1>3. ASSUME Kept(s), InUse' \subseteq InUse PROVE TP!Return(s) \/ TP!Park(s)
  BY <1>1, <1>2, <1>3 DEF Kept, TP!Return, TP!Park
<1>4. ASSUME Freed(s), InUse' = InUse PROVE TP!Free(s)
  BY <1>1, <1>2, <1>4 DEF Freed, TP!Free
<1> QED
  BY <1>3, <1>4

LEMMA ReleaseNext == LoanInv /\ [Next]_vars => [TP!TPNext]_TP!tpvars
<1> SUFFICES ASSUME LoanInv, [Next]_vars PROVE TP!TPNext
  OBVIOUS
<1>1. LoanInv'
  BY LoanNext
<1>2. Stage' \in [Slots -> TP!Stages]
  BY DEF Stage, TP!Stages
<1>3. InUse' \subseteq Slots
  <2>1. \A s \in Slots : TRUE
    OBVIOUS
  <2>2. \A w \in Workers : wk'[w].job \in Slots \cup {None}
    BY <1>1 DEF LoanInv, Typed, Wk
  <2>3. \A i \in DOMAIN queue' : queue'[i] \in Slots
    BY <1>1 DEF LoanInv, Typed
  <2> QED
    BY <2>2, <2>3 DEF InUse, Queued, Job
<1>4. ASSUME InUse' \subseteq InUse, \A s \in Slots : Kept(s) PROVE TP!TPNext
  BY <1>1, <1>2, <1>3, <1>4, StageSteps DEF LoanInv, TP!TPNext
<1>5. ASSUME NEW w \in Workers, Worker(w) PROVE TP!TPNext
  <2>1. CASE WDone(w)
    <3>1. InUse' \subseteq InUse /\ Stage' = Stage
      BY <2>1, DoneLoans DEF Stage
    <3> QED
      BY <1>2, <1>3, <3>1 DEF TP!TPNext, TP!Return
  <2>2. CASE AtWork(w)
    BY <1>4, <2>2, AtWorkWorks, WorksLoans DEF LoanInv
  <2>3. CASE WTake(w) \/ WExit(w)
    BY <1>4, <2>3, TakeLoans, ExitLoans
  <2> QED
    BY <1>5, <2>1, <2>2, <2>3 DEF Worker, AtWork
<1>6. ASSUME NEW k \in Keys, TunDatagram(k) PROVE TP!TPNext
  <2>1. CASE UNCHANGED <<sess, queue, wk>>
    BY <1>4, <2>1 DEF Kept, InUse, Queued, Job
  <2>2. ASSUME NEW n \in Slots, Creates(n) PROVE TP!TPNext
    <3>1. TP!Create(n)
      <4>1. sess'[n].place \in {"hash", "grave"} /\ sess[n].place = "free"
        BY <1>1, <2>2 DEF Creates, OnLoan, LoanInv, Typed, Session
      <4> QED
        BY <4>1 DEF TP!Create, Stage
    <3>2. ASSUME NEW s \in Slots \ {n} PROVE TP!Return(s) \/ TP!Park(s)
      <4>1. Kept(s)
        BY <2>2 DEF Creates
      <4>2. s \in InUse' => s \in InUse
        BY <2>2 DEF Creates
      <4>3. sess[s].place \in {"free", "hash", "grave"} /\ sess'[s].place \in {"free", "hash", "grave"}
        BY <1>1 DEF LoanInv, Typed, Session
      <4> QED
        BY <4>1, <4>2, <4>3 DEF Kept, Stage, TP!Return, TP!Park
    <3> QED
      BY <1>2, <1>3, <3>1, <3>2 DEF TP!TPNext
  <2> QED
    BY <1>6, <2>1, <2>2, CreateLoans
<1>7. CASE Others
  <2>1. \A s \in Slots : Kept(s) \/ Freed(s)
    BY <1>7, OthersKeep
  <2>2. InUse' = InUse
    BY <1>7, OthersKeep, EngineLoans
  <2> QED
    BY <1>1, <1>2, <1>3, <2>1, <2>2, StageSteps DEF LoanInv, TP!TPNext
<1> QED
  BY <1>5, <1>6, <1>7 DEF Next, Others

\* UDP sessions are released in two phases as TCP sessions are: no step of a
\* worker or of the engine frees a session that a queued job or a worker may
\* still touch (udp_graveyard_collect, udp_shutdown_collect), whatever hard
\* cases happen.
THEOREM TwoPhaseRefined == Spec => RefinesTwoPhase
  BY LoanInvariance, ReleaseInit, ReleaseNext, PTL DEF Spec, RefinesTwoPhase, TP!TPSpec

-----------------------------------------------------------------------------
(* Who holds which descriptor, while close_early is left out: the engine   *)
(* closes a session only when its worker has no copies of its sockets.     *)

\* The worker has not stored the session's sockets yet.
Early == {"sock", "hs", "resock", "hs3", "rsock", "store"}

\* The session has its sockets, the worker copies of them.
Copied == {"take", "fwd", "state", "ev", "addc", "addr"}

Failing == {"failc", "failr"}

\* What a worker holds at each place, k, and what its session does, r.
Bare(k)     == k.pc \in {"idle", "exited", "sock", "resock", "armed", "unlink", "done"}
                  => k.cfd = None /\ k.rfd = None
OneOnly(k)  == k.pc \in {"hs", "hs3", "rsock"} => k.rfd = None
Unset(k, r) == /\ k.pc \in Early => r.cfd = None /\ r.rfd = None
               /\ k.pc \in Early \ {"store"} => ~r.udp_tcp
Framed(k, r) == k.pc \in {"store"} \cup Copied => (r.udp_tcp => k.rfd = None)
Same(k, r)  == k.pc \in Copied => r.cfd = k.cfd /\ r.rfd = k.rfd
Undo(k, r)  == /\ k.pc = "failc" => \/ r.cfd = None /\ r.rfd = None
                                    \/ r.cfd = k.cfd /\ r.rfd = k.rfd
               /\ k.pc = "failr" => k.cfd = None /\ r.cfd = None /\ r.rfd \in {None, k.rfd}
Apart(k)    == k.cfd = k.rfd => k.cfd = None

ShapeOf(k, r) == /\ Bare(k) /\ OneOnly(k) /\ Unset(k, r) /\ Framed(k, r)
                 /\ Same(k, r) /\ Undo(k, r) /\ Apart(k)

Shape == \A w \in Workers : ShapeOf(wk[w], sess[wk[w].job])

\* A session that waits for a worker has no sockets and no framing.
Waiting ==
    \A i \in 1..Len(queue) :
       /\ sess[queue[i]].cfd = None /\ sess[queue[i]].rfd = None
       /\ ~sess[queue[i]].udp_tcp

FreeIsBlank == \A s \in Slots : sess[s].place = "free" => sess[s] = Blank

\* The events of a round and the packet in hand are of sessions that are not
\* freed before the round ends.
InHand ==
    /\ batch # {} => epc \in {"batch", "tun", "found", "arm"}
    /\ cur # None <=> epc \in {"found", "arm"}
    /\ cur # None => sess[cur].place # "free"
    /\ \A i \in batch \cap Socks : sess[i[1]].place # "free"

\* Whom a descriptor was opened for holds it, and nobody else.
Held(s, f) == \/ sess[s].cfd = f \/ sess[s].rfd = f
              \/ \E w \in Workers : wk[w].job = s /\ (wk[w].cfd = f \/ wk[w].rfd = f)

Owned == \A s \in Slots, f \in Fds : Held(s, f) <=> owner[f] = s

Registered == \A f \in Fds : reg[f] # None
                => sess[reg[f].s].cfd = f \/ sess[reg[f].s].rfd = f

UdpInv == /\ LoanInv /\ Shape /\ Waiting /\ FreeIsBlank
          /\ InHand /\ Owned /\ Registered

LEMMA UdpInit == Init => UdpInv
<1> SUFFICES ASSUME Init PROVE UdpInv
  OBVIOUS
<1>1. \A s \in Slots : sess[s] = Blank
  BY DEF Init
<1>2. \A w \in Workers : wk[w] = Idle
  BY DEF Init
<1>3. Shape
  BY <1>2 DEF Shape, ShapeOf, Bare, OneOnly, Unset, Framed, Same, Undo, Apart, Idle, Early, Copied
<1>4. Waiting
  BY DEF Init, Waiting
<1>5. FreeIsBlank
  BY <1>1 DEF FreeIsBlank
<1>6. InHand
  BY DEF Init, InHand
<1>7. Owned
  BY <1>1, <1>2, UdpSessAssumption DEF Init, Owned, Held, Blank, Idle
<1>8. Registered
  BY DEF Init, Registered
<1> QED
  BY <1>3, <1>4, <1>5, <1>6, <1>7, <1>8, LoanInit DEF UdpInv

\* What a worker's step has to say for itself: its own place, the descriptors
\* of its session, and that it leaves the others'.
LEMMA WorkerInv ==
  ASSUME UdpInv, NEW w \in Workers, Works(w), NEW j, j = wk[w].job,
         ShapeOf(wk'[w], sess'[j]),
         \A f \in Fds : owner'[f] = j <=> \/ sess'[j].cfd = f \/ sess'[j].rfd = f
                                          \/ wk'[w].cfd = f \/ wk'[w].rfd = f,
         \A f \in Fds, s \in Slots \ {j} : owner'[f] = s <=> owner[f] = s,
         \A f \in Fds : reg'[f] # None =>
            \/ reg'[f] = reg[f] /\ reg[f].s # j
            \/ reg'[f].s = j /\ (sess'[j].cfd = f \/ sess'[j].rfd = f)
  PROVE  UdpInv'
<1> USE DEF Job
<1>1. LoanInv' /\ \A s \in Slots : Kept(s)
  BY WorksLoans DEF UdpInv
<1>2. j \in Slots /\ wk'[w].job = j /\ (\A s \in Slots \ {j} : sess'[s] = sess[s])
      /\ (\A v \in Workers \ {w} : wk'[v] = wk[v]) /\ UNCHANGED <<queue, epc, cur, batch>>
  BY DEF Works, Engine
<1>3. \A v \in Workers : v # w => wk[v].job # j /\ wk[v].job \in Slots \cup {None}
  BY <1>2, UdpSessAssumption DEF UdpInv, LoanInv, Loans, Typed, Wk
<1>4. Shape'
  <2>1. ASSUME NEW v \in Workers, v # w PROVE ShapeOf(wk[v], sess[wk[v].job])'
    <3>1. ShapeOf(wk[v], sess[wk[v].job]) /\ wk'[v] = wk[v]
      BY <1>2, <2>1 DEF UdpInv, Shape
    <3>2. CASE wk[v].job = None
      <4>1. wk[v].pc \in {"idle", "exited"}
        BY <3>2 DEF UdpInv, LoanInv, JobPlaces
      <4> QED
        BY <3>1, <4>1 DEF ShapeOf, Bare, OneOnly, Unset, Framed, Same, Undo, Apart, Early, Copied
    <3>3. CASE wk[v].job # None
      <4>1. sess'[wk[v].job] = sess[wk[v].job]
        BY <1>2, <1>3, <2>1, <3>3
      <4> QED
        BY <3>1, <4>1 DEF ShapeOf, Bare, OneOnly, Unset, Framed, Same, Undo, Apart
    <3> QED
      BY <3>2, <3>3
  <2>2. ShapeOf(wk[w], sess[wk[w].job])'
    BY <1>2 DEF ShapeOf, Bare, OneOnly, Unset, Framed, Same, Undo, Apart
  <2> QED
    BY <2>1, <2>2 DEF Shape
<1>5. Waiting'
  <2>1. \A i \in 1..Len(queue) : queue[i] # j /\ queue[i] \in Slots
    BY DEF UdpInv, LoanInv, Loans, Typed
  <2> QED
    BY <1>2, <2>1 DEF UdpInv, Waiting
<1>6. FreeIsBlank'
  <2>1. sess'[j].place # "free"
    BY <1>1, <1>2, UdpSessAssumption DEF UdpInv, LoanInv, Loans, OnLoan, Kept
  <2> QED
    BY <1>2, <2>1 DEF UdpInv, FreeIsBlank
<1>7. InHand'
  <2>1. \A s \in Slots : sess[s].place # "free" => sess'[s].place # "free"
    BY <1>1 DEF Kept
  <2>2. cur \in Slots \cup {None} /\ \A i \in batch \cap Socks : i[1] \in Slots
    BY DEF UdpInv, LoanInv, Typed, Socks
  <2> QED
    BY <1>2, <2>1, <2>2 DEF UdpInv, InHand
<1>8. Owned'
  <2>1. ASSUME NEW f \in Fds PROVE Held(j, f)' <=> owner'[f] = j
    BY <1>2, <1>3 DEF Held
  <2>2. ASSUME NEW s \in Slots \ {j}, NEW f \in Fds PROVE Held(s, f)' <=> owner'[f] = s
    <3>1. Held(s, f)' <=> Held(s, f)
      BY <1>2 DEF Held
    <3>2. Held(s, f) <=> owner[f] = s
      BY DEF UdpInv, Owned
    <3> QED
      BY <3>1, <3>2
  <2> QED
    BY <2>1, <2>2 DEF Owned
<1>9. Registered'
  <2>1. \A f \in Fds : reg[f] # None => reg[f].s \in Slots
    BY DEF UdpInv, LoanInv, Typed
  <2> QED
    BY <1>2, <2>1 DEF UdpInv, Registered
<1> QED
  BY <1>1, <1>4, <1>5, <1>6, <1>7, <1>8, <1>9 DEF UdpInv

\* What the worker w and its session j hold, all of it before the step.
LEMMA JobHolds ==
  ASSUME UdpInv, NEW w \in Workers, NEW j \in Slots, j = wk[w].job
  PROVE  /\ wk[w] \in Wk /\ sess[j] \in Session /\ ShapeOf(wk[w], sess[j])
         /\ \A f \in Fds : owner[f] = j <=> \/ sess[j].cfd = f \/ sess[j].rfd = f
                                            \/ wk[w].cfd = f \/ wk[w].rfd = f
         /\ \A f \in Fds : reg[f] # None /\ reg[f].s = j => sess[j].cfd = f \/ sess[j].rfd = f
<1>1. wk[w] \in Wk /\ sess[j] \in Session /\ ShapeOf(wk[w], sess[j])
  BY DEF UdpInv, LoanInv, Typed, Shape
<1>2. \A v \in Workers : v # w => wk[v].job # j
  BY UdpSessAssumption DEF UdpInv, LoanInv, Loans, Job
<1>3. \A f \in Fds : Held(j, f) <=> \/ sess[j].cfd = f \/ sess[j].rfd = f
                                    \/ wk[w].cfd = f \/ wk[w].rfd = f
  BY <1>2 DEF Held
<1>4. \A f \in Fds : Held(j, f) <=> owner[f] = j
  BY DEF UdpInv, Owned
<1>5. \A f \in Fds : reg[f] # None /\ reg[f].s = j => sess[j].cfd = f \/ sess[j].rfd = f
  BY DEF UdpInv, Registered
<1> QED
  BY <1>1, <1>3, <1>4, <1>5

\* Steps that move no descriptor.
LEMMA StillInv ==
  ASSUME UdpInv, NEW w \in Workers, Works(w), NEW j \in Slots, j = wk[w].job,
         ShapeOf(wk'[w], sess'[j]), UNCHANGED fdVars,
         wk'[w].cfd = wk[w].cfd, wk'[w].rfd = wk[w].rfd,
         sess'[j].cfd = sess[j].cfd, sess'[j].rfd = sess[j].rfd
  PROVE  UdpInv'
<1>1. \A f \in Fds : owner'[f] = j <=> \/ sess'[j].cfd = f \/ sess'[j].rfd = f
                                       \/ wk'[w].cfd = f \/ wk'[w].rfd = f
  BY JobHolds DEF fdVars
<1>2. \A f \in Fds, s \in Slots \ {j} : owner'[f] = s <=> owner[f] = s
  BY DEF fdVars
<1>3. \A f \in Fds : reg'[f] # None =>
         \/ reg'[f] = reg[f] /\ reg[f].s # j
         \/ reg'[f].s = j /\ (sess'[j].cfd = f \/ sess'[j].rfd = f)
  BY JobHolds DEF fdVars
<1> QED
  BY <1>1, <1>2, <1>3, WorkerInv

LEMMA AtWorkInv ==
  ASSUME UdpInv, NEW w \in Workers, AtWork(w)
  PROVE  UdpInv'
<1> DEFINE j == wk[w].job
<1>1. Works(w) /\ j \in Slots /\ wk \in [Workers -> Wk] /\ sess \in [Slots -> Session]
  BY AtWorkWorks DEF UdpInv, LoanInv, Works, Job, Typed
<1>2. /\ wk[w] \in Wk /\ sess[j] \in Session /\ ShapeOf(wk[w], sess[j])
      /\ \A f \in Fds : owner[f] = j <=> \/ sess[j].cfd = f \/ sess[j].rfd = f
                                         \/ wk[w].cfd = f \/ wk[w].rfd = f
      /\ \A f \in Fds : reg[f] # None /\ reg[f].s = j => sess[j].cfd = f \/ sess[j].rfd = f
  BY <1>1, JobHolds
<1>3. /\ wk[w].cfd \in Fds \cup {None} /\ wk[w].rfd \in Fds \cup {None}
      /\ sess[j].cfd \in Fds \cup {None} /\ sess[j].rfd \in Fds \cup {None}
  BY <1>2 DEF Wk, Session
<1>4. owner \in [Fds -> Slots \cup {None}] /\ reg \in [Fds -> [s: Slots, sock: {"control", "relay"}, out: BOOLEAN] \cup {None}]
  BY DEF UdpInv, LoanInv, Typed
<1> USE <1>1 DEF Job, At
<1> USE DEF ShapeOf, Bare, OneOnly, Unset, Framed, Same, Undo, Apart, Early, Copied
\* A socket was opened for the worker.
<1>5. ASSUME NEW f \in Fds, Opened(w, f), UNCHANGED reg, sess' = sess,
             ShapeOf(wk'[w], sess[j]),
             \A g \in Fds : wk'[w].cfd = g \/ wk'[w].rfd = g <=> \/ g = f
                                                                \/ wk[w].cfd = g \/ wk[w].rfd = g
      PROVE  UdpInv'
  <2>1. \A g \in Fds : owner'[g] = IF g = f THEN j ELSE owner[g]
    BY <1>4, <1>5 DEF Opened
  <2>2. owner[f] = None
    BY <1>5 DEF Opened
  <2>3. \A g \in Fds : owner'[g] = j <=> \/ sess'[j].cfd = g \/ sess'[j].rfd = g
                                         \/ wk'[w].cfd = g \/ wk'[w].rfd = g
    BY <1>2, <1>5, <2>1
  <2>4. \A g \in Fds, s \in Slots \ {j} : owner'[g] = s <=> owner[g] = s
    BY <2>1, <2>2, UdpSessAssumption
  <2>5. \A g \in Fds : reg'[g] # None =>
           \/ reg'[g] = reg[g] /\ reg[g].s # j
           \/ reg'[g].s = j /\ (sess'[j].cfd = g \/ sess'[j].rfd = g)
    BY <1>2, <1>5
  <2>6. ShapeOf(wk'[w], sess'[j])
    BY <1>5
  <2> HIDE DEF ShapeOf, j
  <2> QED
    BY <2>3, <2>4, <2>5, <2>6, WorkerInv DEF j
\* Only the place changes.
<1>6. ASSUME NEW pc \in WPCs, Goto(w, pc), UNCHANGED fdVars, NEW r \in Session, sess'[j] = r,
             r.cfd = sess[j].cfd, r.rfd = sess[j].rfd,
             ShapeOf([wk[w] EXCEPT !.pc = pc], r)
      PROVE  UdpInv'
  <2>1. wk'[w].pc = pc /\ wk'[w].cfd = wk[w].cfd /\ wk'[w].rfd = wk[w].rfd
    BY <1>6, GotoWorks DEF UdpInv, LoanInv
  <2>2. LET k == [wk[w] EXCEPT !.pc = pc] IN k.pc = pc /\ k.cfd = wk[w].cfd /\ k.rfd = wk[w].rfd
    BY <1>2 DEF Wk
  <2>3. ShapeOf(wk'[w], sess'[j])
    BY <1>6, <2>1, <2>2
  <2> HIDE DEF ShapeOf, j
  <2> QED
    BY <1>6, <2>1, <2>3, StillInv DEF j
<1>7. ASSUME NEW next \in {"hs", "hs3"}, At(w, "sock") \/ At(w, "resock"), RequestControl(w, next)
      PROVE  UdpInv'
  <2>1. ASSUME Goto(w, "failc"), UNCHANGED owner PROVE UdpInv'
    <3>1. ShapeOf([wk[w] EXCEPT !.pc = "failc"], sess[j])
      BY <1>2, <1>7 DEF Wk
    <3> HIDE DEF ShapeOf, j
    <3> QED
      BY <1>2, <1>6, <1>7, <2>1, <3>1 DEF RequestControl, fdVars, WPCs
  <2>2. ASSUME NEW f \in Fds, Opened(w, f),
               wk' = [wk EXCEPT ![w] = [@ EXCEPT !.cfd = f, !.pc = Onward(next)]]
        PROVE  UdpInv'
    <3>1. wk'[w] = [wk[w] EXCEPT !.cfd = f, !.pc = Onward(next)]
      BY <2>2
    <3>2. wk'[w].cfd = f /\ wk'[w].rfd = wk[w].rfd /\ wk'[w].pc \in {"hs", "hs3", "failc"}
      BY <1>2, <3>1 DEF Wk, Onward
    <3>3. wk[w].cfd = None /\ wk[w].rfd = None
      BY <1>2, <1>7
    <3>4. ShapeOf(wk'[w], sess[j])
      BY <1>2, <1>7, <3>2, <3>3, UdpSessAssumption
    <3>5. \A g \in Fds : wk'[w].cfd = g \/ wk'[w].rfd = g <=> \/ g = f
                                                            \/ wk[w].cfd = g \/ wk[w].rfd = g
      BY <3>2, <3>3
    <3> HIDE DEF ShapeOf, j
    <3> QED
      BY <1>5, <1>7, <2>2, <3>4, <3>5 DEF RequestControl
  <2> QED
    BY <1>7, <2>1, <2>2 DEF RequestControl
<1>8. ASSUME WRelay(w) PROVE UdpInv'
  <2>1. ASSUME Goto(w, "failc"), UNCHANGED owner PROVE UdpInv'
    <3>1. ShapeOf([wk[w] EXCEPT !.pc = "failc"], sess[j])
      BY <1>2, <1>8 DEF Wk, WRelay
    <3> HIDE DEF ShapeOf, j
    <3> QED
      BY <1>2, <1>6, <1>8, <2>1, <3>1 DEF WRelay, fdVars, WPCs
  <2>2. ASSUME NEW f \in Fds, Opened(w, f),
               wk' = [wk EXCEPT ![w] = [@ EXCEPT !.rfd = f, !.pc = Onward("store")]]
        PROVE  UdpInv'
    <3>1. wk'[w] = [wk[w] EXCEPT !.rfd = f, !.pc = Onward("store")]
      BY <2>2
    <3>2. wk'[w].rfd = f /\ wk'[w].cfd = wk[w].cfd /\ wk'[w].pc \in {"store", "failc"}
      BY <1>2, <3>1 DEF Wk, Onward
    <3>3. wk[w].rfd = None /\ wk[w].pc = "rsock"
      BY <1>2, <1>8 DEF WRelay
    <3>6. f # wk[w].cfd
      BY <1>2, <1>3, <2>2, UdpSessAssumption DEF Opened
    <3>4. ShapeOf(wk'[w], sess[j])
      BY <1>2, <3>2, <3>3, <3>6, UdpSessAssumption
    <3>5. \A g \in Fds : wk'[w].cfd = g \/ wk'[w].rfd = g <=> \/ g = f
                                                            \/ wk[w].cfd = g \/ wk[w].rfd = g
      BY <3>2, <3>3, UdpSessAssumption
    <3> HIDE DEF ShapeOf, j
    <3> QED
      BY <1>5, <1>8, <2>2, <3>4, <3>5 DEF WRelay
  <2> QED
    BY <1>8, <2>1, <2>2 DEF WRelay
<1>9. ASSUME WHandshake(w) PROVE UdpInv'
  <2> DEFINE r == [sess[j] EXCEPT !.udp_tcp = TRUE]
  <2>1. r \in Session /\ r.cfd = sess[j].cfd /\ r.rfd = sess[j].rfd
    BY <1>2 DEF Session
  <2>2. sess' = [sess EXCEPT ![j] = r] => sess'[j] = r
    OBVIOUS
  <2>3. UNCHANGED fdVars /\ wk[w].pc \in {"hs", "hs3"}
    BY <1>9 DEF WHandshake
  <2>4. ASSUME NEW pc \in {"rsock", "failc"}, Goto(w, pc), UNCHANGED sess, wk[w].pc = "hs3" \/ wk[w].pc = "hs"
        PROVE  UdpInv'
    <3>1. ShapeOf([wk[w] EXCEPT !.pc = pc], sess[j])
      BY <1>2, <2>4 DEF Wk
    <3> HIDE DEF ShapeOf, j, r
    <3> QED
      BY <1>2, <1>6, <2>3, <2>4, <3>1 DEF WPCs
  <2>5. ASSUME Goto(w, "store"), wk[w].pc = "hs", sess' = [sess EXCEPT ![j] = r]
        PROVE  UdpInv'
    <3>1. ShapeOf([wk[w] EXCEPT !.pc = "store"], r)
      BY <1>2, <2>1, <2>5 DEF Wk
    <3> HIDE DEF ShapeOf, j, r
    <3> QED
      BY <1>6, <2>1, <2>2, <2>3, <2>5, <3>1 DEF WPCs
  <2> HIDE DEF ShapeOf
  <2> QED
    BY <1>9, <2>3, <2>4, <2>5 DEF WHandshake
<1>10. ASSUME WRefused(w) PROVE UdpInv'
  <2> DEFINE k == [wk[w] EXCEPT !.cfd = None, !.pc = "resock"]
             F == {wk[w].cfd}
  <2>1. wk' = [wk EXCEPT ![w] = k] /\ sess' = sess /\ Release(F) /\ wk[w].pc = "hs"
    BY <1>10 DEF WRefused
  <2>2. wk'[w] = k /\ k.cfd = None /\ k.rfd = wk[w].rfd /\ k.pc = "resock"
    BY <1>2, <2>1 DEF Wk
  <2>3. wk[w].rfd = None /\ sess[j].cfd = None /\ sess[j].rfd = None /\ ~sess[j].udp_tcp
    BY <1>2, <2>1
  <2>4. \A f \in Fds : owner'[f] = (IF f = wk[w].cfd THEN None ELSE owner[f])
                       /\ reg'[f] = (IF f = wk[w].cfd THEN None ELSE reg[f])
    BY <2>1 DEF Release
  <2> HIDE DEF k, F
  <2>5. ShapeOf(wk'[w], sess'[j])
    BY <2>1, <2>2, <2>3
  <2>6. \A f \in Fds : owner'[f] = j <=> \/ sess'[j].cfd = f \/ sess'[j].rfd = f
                                         \/ wk'[w].cfd = f \/ wk'[w].rfd = f
    BY <1>2, <2>1, <2>2, <2>3, <2>4, UdpSessAssumption
  <2>7. \A f \in Fds, s \in Slots \ {j} : owner'[f] = s <=> owner[f] = s
    BY <1>2, <2>4, UdpSessAssumption
  <2>8. \A f \in Fds : reg'[f] # None =>
           \/ reg'[f] = reg[f] /\ reg[f].s # j
           \/ reg'[f].s = j /\ (sess'[j].cfd = f \/ sess'[j].rfd = f)
    BY <1>2, <2>1, <2>4
  <2> HIDE DEF ShapeOf, j
  <2> QED
    BY <2>5, <2>6, <2>7, <2>8, WorkerInv DEF j
<1>11. ASSUME WStore(w) PROVE UdpInv'
  <2> DEFINE r == [sess[j] EXCEPT !.cfd = wk[w].cfd, !.rfd = wk[w].rfd]
  <2>1. UNCHANGED fdVars /\ wk[w].pc = "store"
    BY <1>11 DEF WStore
  <2>2. ASSUME Goto(w, "failc"), UNCHANGED sess PROVE UdpInv'
    <3>1. ShapeOf([wk[w] EXCEPT !.pc = "failc"], sess[j])
      BY <1>2, <2>1 DEF Wk
    <3> HIDE DEF ShapeOf, j, r
    <3> QED
      BY <1>2, <1>6, <2>1, <2>2, <3>1 DEF WPCs
  <2>3. ASSUME Goto(w, "take"), sess' = [sess EXCEPT ![j] = r] PROVE UdpInv'
    <3>1. /\ sess'[j] = r /\ r.cfd = wk[w].cfd /\ r.rfd = wk[w].rfd /\ r.udp_tcp = sess[j].udp_tcp
      BY <1>2, <2>3 DEF Session
    <3>2. wk'[w].pc = "take" /\ wk'[w].cfd = wk[w].cfd /\ wk'[w].rfd = wk[w].rfd
      BY <2>3, GotoWorks DEF UdpInv, LoanInv, WPCs
    <3>3. ShapeOf(wk'[w], sess'[j])
      BY <1>2, <2>1, <3>1, <3>2
    <3>4. \A f \in Fds : owner'[f] = j <=> \/ sess'[j].cfd = f \/ sess'[j].rfd = f
                                           \/ wk'[w].cfd = f \/ wk'[w].rfd = f
      BY <1>2, <2>1, <3>1, <3>2, UdpSessAssumption DEF fdVars
    <3>5. \A f \in Fds, s \in Slots \ {j} : owner'[f] = s <=> owner[f] = s
      BY <2>1 DEF fdVars
    <3>6. \A f \in Fds : reg'[f] # None =>
             \/ reg'[f] = reg[f] /\ reg[f].s # j
             \/ reg'[f].s = j /\ (sess'[j].cfd = f \/ sess'[j].rfd = f)
      BY <1>2, <2>1, UdpSessAssumption DEF fdVars
    <3> HIDE DEF ShapeOf, j, r
    <3> QED
      BY <3>3, <3>4, <3>5, <3>6, WorkerInv DEF j
  <2>4. sess' = [sess EXCEPT ![j].cfd = wk[w].cfd, ![j].rfd = wk[w].rfd]
           => sess' = [sess EXCEPT ![j] = r]
    OBVIOUS
  <2> HIDE DEF r, ShapeOf
  <2> QED
    BY <1>11, <2>2, <2>3, <2>4 DEF WStore
<1>12. ASSUME WTakePend(w) PROVE UdpInv'
  <2> DEFINE r == [sess[j] EXCEPT !.pend = FALSE]
  <2>1. wk'[w].pc = "fwd" /\ wk'[w].cfd = wk[w].cfd /\ wk'[w].rfd = wk[w].rfd
    <3>1. wk'[w] = [wk[w] EXCEPT !.pc = "fwd", !.flag = sess[j].pend]
      BY <1>12 DEF WTakePend
    <3> QED
      BY <1>2, <3>1 DEF Wk
  <2>2. sess'[j] = r /\ r.cfd = sess[j].cfd /\ r.rfd = sess[j].rfd /\ r.udp_tcp = sess[j].udp_tcp
    BY <1>2, <1>12 DEF WTakePend, Session
  <2> HIDE DEF r
  <2>3. ShapeOf(wk'[w], sess'[j])
    BY <1>2, <1>12, <2>1, <2>2 DEF WTakePend
  <2> HIDE DEF ShapeOf, j
  <2> QED
    BY <1>12, <2>1, <2>2, <2>3, StillInv DEF WTakePend, j
<1>13. ASSUME WForward(w) PROVE UdpInv'
  <2> DEFINE r == [sess[j] EXCEPT !.tx = 1]
  <2>1. sess'[j] = r \/ sess'[j] = sess[j]
    BY <1>13 DEF WForward
  <2>2. r \in Session /\ r.cfd = sess[j].cfd /\ r.rfd = sess[j].rfd /\ r.udp_tcp = sess[j].udp_tcp
    BY <1>2, UdpSessAssumption DEF Session
  <2> HIDE DEF r
  <2>3. ShapeOf([wk[w] EXCEPT !.pc = "state"], sess'[j])
    BY <1>2, <1>13, <2>1, <2>2 DEF WForward, Wk
  <2> HIDE DEF ShapeOf, j
  <2> QED
    BY <1>2, <1>6, <1>13, <2>1, <2>2, <2>3 DEF WForward, WPCs
<1>14. ASSUME WState(w) PROVE UdpInv'
  <2> DEFINE r == [sess[j] EXCEPT !.state = 1, !.seen = "fresh"]
  <2>1. sess'[j] = r
    BY <1>14 DEF WState
  <2>2. r \in Session /\ r.cfd = sess[j].cfd /\ r.rfd = sess[j].rfd /\ r.udp_tcp = sess[j].udp_tcp
    BY <1>2 DEF Session
  <2> HIDE DEF r
  <2>3. ShapeOf([wk[w] EXCEPT !.pc = "ev"], r)
    BY <1>2, <1>14, <2>2 DEF WState, Wk
  <2> HIDE DEF ShapeOf, j
  <2> QED
    BY <1>6, <1>14, <2>1, <2>2, <2>3 DEF WState, WPCs
<1>15. ASSUME WEvents(w) PROVE UdpInv'
  <2>1. wk'[w].pc = "addc" /\ wk'[w].cfd = wk[w].cfd /\ wk'[w].rfd = wk[w].rfd
    <3>1. wk'[w] = [wk[w] EXCEPT !.pc = "addc", !.flag = sess[j].udp_tcp /\ sess[j].tx > 0]
      BY <1>15 DEF WEvents
    <3> QED
      BY <1>2, <3>1 DEF Wk
  <2>2. ShapeOf(wk'[w], sess'[j])
    BY <1>2, <1>15, <2>1 DEF WEvents
  <2> HIDE DEF ShapeOf, j
  <2> QED
    BY <1>15, <2>1, <2>2, StillInv DEF WEvents, j
<1>16. ASSUME WArmed(w) PROVE UdpInv'
  <2> DEFINE r == [sess[j] EXCEPT !.armed = @ \/ sess[j].tx > 0]
  <2>1. sess'[j] = r
    BY <1>16 DEF WArmed
  <2>2. r \in Session /\ r.cfd = sess[j].cfd /\ r.rfd = sess[j].rfd
    BY <1>2 DEF Session
  <2> HIDE DEF r
  <2>3. ShapeOf([wk[w] EXCEPT !.pc = "done"], r)
    BY <1>2, <1>16 DEF WArmed, Wk
  <2> HIDE DEF ShapeOf, j
  <2> QED
    BY <1>6, <1>16, <2>1, <2>2, <2>3 DEF WArmed, WPCs
<1>17. ASSUME WUnlink(w) PROVE UdpInv'
  <2> DEFINE r == [sess[j] EXCEPT !.place = "grave"]
  <2>1. sess'[j] = r \/ sess'[j] = sess[j]
    BY <1>17 DEF WUnlink
  <2>2. r \in Session /\ r.cfd = sess[j].cfd /\ r.rfd = sess[j].rfd
    BY <1>2 DEF Session
  <2> HIDE DEF r
  <2>3. ShapeOf([wk[w] EXCEPT !.pc = "done"], sess'[j])
    BY <1>2, <1>17 DEF WUnlink, Wk
  <2> HIDE DEF ShapeOf, j
  <2> QED
    BY <1>2, <1>6, <1>17, <2>1, <2>2, <2>3 DEF WUnlink, WPCs
\* A registration of f for the session, which has it.
<1>18. ASSUME NEW f \in Fds, sess[j].cfd = f \/ sess[j].rfd = f,
              NEW e \in [s: Slots, sock: {"control", "relay"}, out: BOOLEAN], e.s = j,
              reg' = [reg EXCEPT ![f] = e] \/ reg' = [reg EXCEPT ![f] = None] \/ reg' = reg,
              NEW g \in Fds
       PROVE  reg'[g] # None =>
                 \/ reg'[g] = reg[g] /\ reg[g].s # j
                 \/ reg'[g].s = j /\ (sess[j].cfd = g \/ sess[j].rfd = g)
  <2>1. CASE g = f
    <3>1. reg'[g] \in {e, None, reg[g]}
      BY <1>4, <1>18, <2>1
    <3> QED
      BY <1>2, <1>18, <2>1, <3>1
  <2>2. CASE g # f
    <3>1. reg'[g] = reg[g]
      BY <1>4, <1>18, <2>2
    <3> QED
      BY <1>2, <3>1
  <2> QED
    BY <2>1, <2>2
<1>19. ASSUME WAddControl(w) PROVE UdpInv'
  <2> DEFINE k == [wk[w] EXCEPT !.pc = "armed", !.cfd = None]
             e == [s |-> j, sock |-> IF sess[j].udp_tcp THEN "relay" ELSE "control", out |-> wk[w].flag]
  <2>1. wk[w].pc = "addc" /\ sess[j].cfd = wk[w].cfd /\ sess[j].rfd = wk[w].rfd
        /\ UNCHANGED <<sess, owner>> /\ (sess[j].udp_tcp => wk[w].rfd = None)
    BY <1>2, <1>19 DEF WAddControl
  <2>2. reg' = [reg EXCEPT ![wk[w].cfd] = e] \/ reg' = reg
    BY <1>19 DEF WAddControl
  <2>3. e \in [s: Slots, sock: {"control", "relay"}, out: BOOLEAN] /\ e.s = j
    BY <1>2 DEF Wk
  <2> HIDE DEF e
  <2>4. \A g \in Fds : reg'[g] # None =>
           \/ reg'[g] = reg[g] /\ reg[g].s # j
           \/ reg'[g].s = j /\ (sess[j].cfd = g \/ sess[j].rfd = g)
    <3>1. CASE wk[w].cfd \in Fds
      <4> HIDE DEF ShapeOf
      <4> QED
        BY <1>18, <2>1, <2>2, <2>3, <3>1
    <3>2. CASE wk[w].cfd \notin Fds
      <4>1. reg' = reg
        BY <1>4, <2>2, <3>2
      <4> QED
        BY <1>2, <4>1
    <3> QED
      BY <3>1, <3>2
  <2>5. \/ sess[j].udp_tcp /\ wk'[w] = k
        \/ \E pc \in {"addr", "failc"} : Goto(w, pc)
    <3>1. wk' = [wk EXCEPT ![w].pc = "armed", ![w].cfd = None] => wk'[w] = k
      OBVIOUS
    <3>2. wk' = [wk EXCEPT ![w].pc = "addr"] => Goto(w, "addr")
      BY DEF Goto
    <3> HIDE DEF k, ShapeOf, j
    <3> QED
      BY <1>19, <3>1, <3>2 DEF WAddControl, j
  <2>6. k.pc = "armed" /\ k.cfd = None /\ k.rfd = wk[w].rfd
    BY <1>2 DEF Wk
  <2> HIDE DEF k
  <2>7. \/ /\ sess[j].udp_tcp /\ wk'[w].pc = "armed"
           /\ wk'[w].cfd = None /\ wk'[w].rfd = wk[w].rfd
        \/ /\ wk'[w].pc \in {"addr", "failc"}
           /\ wk'[w].cfd = wk[w].cfd /\ wk'[w].rfd = wk[w].rfd
    BY <2>5, <2>6, GotoWorks DEF UdpInv, LoanInv, WPCs
  <2>8. ShapeOf(wk'[w], sess'[j])
    BY <1>2, <2>1, <2>7
  <2>9. \A f \in Fds : owner'[f] = j <=> \/ sess'[j].cfd = f \/ sess'[j].rfd = f
                                         \/ wk'[w].cfd = f \/ wk'[w].rfd = f
    BY <1>2, <2>1, <2>7, UdpSessAssumption
  <2>10. \A f \in Fds, s \in Slots \ {j} : owner'[f] = s <=> owner[f] = s
    BY <2>1
  <2> HIDE DEF ShapeOf, j
  <2> QED
    BY <2>1, <2>4, <2>8, <2>9, <2>10, WorkerInv DEF j
<1>20. ASSUME WAddRelay(w) PROVE UdpInv'
  <2> DEFINE k == [wk[w] EXCEPT !.pc = "done", !.cfd = None, !.rfd = None]
             e == [s |-> j, sock |-> "relay", out |-> FALSE]
  <2>1. wk[w].pc = "addr" /\ sess[j].cfd = wk[w].cfd /\ sess[j].rfd = wk[w].rfd
        /\ UNCHANGED <<sess, owner>>
    BY <1>2, <1>20 DEF WAddRelay
  <2>2. reg' = [reg EXCEPT ![wk[w].rfd] = e] \/ reg' = [reg EXCEPT ![wk[w].cfd] = None]
    BY <1>20 DEF WAddRelay
  <2>3. e \in [s: Slots, sock: {"control", "relay"}, out: BOOLEAN] /\ e.s = j
    OBVIOUS
  <2> HIDE DEF e
  <2>4. \A g \in Fds : reg'[g] # None =>
           \/ reg'[g] = reg[g] /\ reg[g].s # j
           \/ reg'[g].s = j /\ (sess[j].cfd = g \/ sess[j].rfd = g)
    <3>1. CASE reg' = [reg EXCEPT ![wk[w].rfd] = e] /\ wk[w].rfd \in Fds
      <4> HIDE DEF ShapeOf
      <4> QED
        BY <1>18, <2>1, <2>3, <3>1
    <3>2. CASE reg' = [reg EXCEPT ![wk[w].cfd] = None] /\ wk[w].cfd \in Fds
      <4> HIDE DEF ShapeOf
      <4> QED
        BY <1>18, <2>1, <2>3, <3>2
    <3>3. CASE reg' = reg
      BY <1>2, <3>3
    <3>4. reg' = [reg EXCEPT ![wk[w].rfd] = e] /\ wk[w].rfd \notin Fds => reg' = reg
      BY <1>4
    <3>5. reg' = [reg EXCEPT ![wk[w].cfd] = None] /\ wk[w].cfd \notin Fds => reg' = reg
      BY <1>4
    <3> HIDE DEF ShapeOf
    <3> QED
      BY <2>2, <3>1, <3>2, <3>3, <3>4, <3>5
  <2>5. wk'[w] = k \/ Goto(w, "failc")
    <3>1. wk' = [wk EXCEPT ![w].pc = "done", ![w].cfd = None, ![w].rfd = None] => wk'[w] = k
      OBVIOUS
    <3> HIDE DEF k, ShapeOf, j
    <3> QED
      BY <1>20, <3>1 DEF WAddRelay, j
  <2>6. k.pc = "done" /\ k.cfd = None /\ k.rfd = None
    BY <1>2 DEF Wk
  <2> HIDE DEF k
  <2>7. \/ wk'[w].pc = "done" /\ wk'[w].cfd = None /\ wk'[w].rfd = None
        \/ wk'[w].pc = "failc" /\ wk'[w].cfd = wk[w].cfd /\ wk'[w].rfd = wk[w].rfd
    BY <2>5, <2>6, GotoWorks DEF UdpInv, LoanInv, WPCs
  <2>8. ShapeOf(wk'[w], sess'[j])
    BY <1>2, <2>1, <2>7
  <2>9. \A f \in Fds : owner'[f] = j <=> \/ sess'[j].cfd = f \/ sess'[j].rfd = f
                                         \/ wk'[w].cfd = f \/ wk'[w].rfd = f
    BY <1>2, <2>1, <2>7, UdpSessAssumption
  <2>10. \A f \in Fds, s \in Slots \ {j} : owner'[f] = s <=> owner[f] = s
    BY <2>1
  <2> HIDE DEF ShapeOf, j
  <2> QED
    BY <2>1, <2>4, <2>8, <2>9, <2>10, WorkerInv DEF j
\* The worker closes its descriptor d and forgets it, as the session does.
<1>21. ASSUME NEW d \in Fds \cup {None}, Release({d}), d = wk[w].cfd \/ d = wk[w].rfd,
              ShapeOf(wk'[w], sess'[j]),
              \A f \in Fds : \/ sess'[j].cfd = f \/ sess'[j].rfd = f
                             \/ wk'[w].cfd = f \/ wk'[w].rfd = f
                        <=> /\ f # d
                            /\ \/ sess[j].cfd = f \/ sess[j].rfd = f
                               \/ wk[w].cfd = f \/ wk[w].rfd = f,
              \A f \in Fds \ {d} : sess[j].cfd = f \/ sess[j].rfd = f
                               => sess'[j].cfd = f \/ sess'[j].rfd = f
       PROVE  UdpInv'
  <2>1. \A f \in Fds : /\ owner'[f] = (IF f = d THEN None ELSE owner[f])
                       /\ reg'[f] = (IF f = d THEN None ELSE reg[f])
    BY <1>21 DEF Release
  <2>2. d \in Fds => owner[d] = j
    BY <1>2, <1>21
  <2>3. \A f \in Fds : owner'[f] = j <=> \/ sess'[j].cfd = f \/ sess'[j].rfd = f
                                         \/ wk'[w].cfd = f \/ wk'[w].rfd = f
    BY <1>2, <1>21, <2>1, UdpSessAssumption
  <2>4. \A f \in Fds, s \in Slots \ {j} : owner'[f] = s <=> owner[f] = s
    BY <2>1, <2>2, UdpSessAssumption
  <2>5. \A f \in Fds : reg'[f] # None =>
           \/ reg'[f] = reg[f] /\ reg[f].s # j
           \/ reg'[f].s = j /\ (sess'[j].cfd = f \/ sess'[j].rfd = f)
    BY <1>2, <1>21, <2>1
  <2>6. ShapeOf(wk'[w], sess'[j])
    BY <1>21
  <2> HIDE DEF ShapeOf, j
  <2> QED
    BY <2>3, <2>4, <2>5, <2>6, WorkerInv DEF j
<1>22. ASSUME WFailControl(w) PROVE UdpInv'
  <2> DEFINE r == [sess[j] EXCEPT !.cfd = None]
             d == wk[w].cfd
  <2>1. wk'[w].pc = "failr" /\ wk'[w].cfd = None /\ wk'[w].rfd = wk[w].rfd /\ wk[w].pc = "failc"
    <3>1. wk'[w] = [wk[w] EXCEPT !.pc = "failr", !.cfd = None]
      BY <1>22 DEF WFailControl
    <3> QED
      BY <1>2, <1>22, <3>1 DEF Wk, WFailControl
  <2>2. r.cfd = None /\ r.rfd = sess[j].rfd
    BY <1>2 DEF Session
  <2>3. sess'[j] = IF d = None THEN sess[j] ELSE r
    BY <1>22 DEF WFailControl
  <2> HIDE DEF r
  <2>4. \/ sess[j].cfd = None /\ sess[j].rfd = None
        \/ sess[j].cfd = d /\ sess[j].rfd = wk[w].rfd
    BY <1>2, <2>1
  <2>5. sess'[j].cfd = None /\ sess'[j].rfd = sess[j].rfd
    BY <2>2, <2>3, <2>4
  <2>6. ShapeOf(wk'[w], sess'[j])
    BY <2>1, <2>4, <2>5
  <2>7. wk[w].rfd = d => d = None
    BY <1>2
  <2>8. \A f \in Fds : \/ sess'[j].cfd = f \/ sess'[j].rfd = f
                       \/ wk'[w].cfd = f \/ wk'[w].rfd = f
                  <=> /\ f # d
                      /\ \/ sess[j].cfd = f \/ sess[j].rfd = f
                         \/ wk[w].cfd = f \/ wk[w].rfd = f
    BY <2>1, <2>4, <2>5, <2>7, UdpSessAssumption
  <2>9. \A f \in Fds \ {d} : sess[j].cfd = f \/ sess[j].rfd = f
                         => sess'[j].cfd = f \/ sess'[j].rfd = f
    BY <2>4, <2>5, UdpSessAssumption
  <2>10. Release({d})
    BY <1>22 DEF WFailControl
  <2> HIDE DEF ShapeOf, j
  <2> QED
    BY <1>3, <1>21, <2>6, <2>8, <2>9, <2>10
<1>23. ASSUME WFailRelay(w) PROVE UdpInv'
  <2> DEFINE r == [sess[j] EXCEPT !.rfd = None]
             d == wk[w].rfd
  <2>1. wk'[w].pc = "unlink" /\ wk'[w].rfd = None /\ wk'[w].cfd = wk[w].cfd /\ wk[w].pc = "failr"
    <3>1. wk'[w] = [wk[w] EXCEPT !.pc = "unlink", !.rfd = None]
      BY <1>23 DEF WFailRelay
    <3> QED
      BY <1>2, <1>23, <3>1 DEF Wk, WFailRelay
  <2>2. r.rfd = None /\ r.cfd = sess[j].cfd
    BY <1>2 DEF Session
  <2>3. sess'[j] = IF d = None THEN sess[j] ELSE r
    BY <1>23 DEF WFailRelay
  <2> HIDE DEF r
  <2>4. wk[w].cfd = None /\ sess[j].cfd = None /\ sess[j].rfd \in {None, d}
    BY <1>2, <2>1
  <2>5. sess'[j].cfd = None /\ sess'[j].rfd = None
    BY <2>2, <2>3, <2>4
  <2>6. ShapeOf(wk'[w], sess'[j])
    BY <2>1, <2>4, <2>5
  <2>8. \A f \in Fds : \/ sess'[j].cfd = f \/ sess'[j].rfd = f
                       \/ wk'[w].cfd = f \/ wk'[w].rfd = f
                  <=> /\ f # d
                      /\ \/ sess[j].cfd = f \/ sess[j].rfd = f
                         \/ wk[w].cfd = f \/ wk[w].rfd = f
    BY <2>1, <2>4, <2>5, UdpSessAssumption
  <2>9. \A f \in Fds \ {d} : sess[j].cfd = f \/ sess[j].rfd = f
                         => sess'[j].cfd = f \/ sess'[j].rfd = f
    BY <2>4, <2>5, UdpSessAssumption
  <2>10. Release({d})
    BY <1>23 DEF WFailRelay
  <2> HIDE DEF ShapeOf, j
  <2> QED
    BY <1>3, <1>21, <2>6, <2>8, <2>9, <2>10
<1> HIDE DEF ShapeOf, j
<1> QED
  BY <1>7, <1>8, <1>9, <1>10, <1>11, <1>12, <1>13, <1>14, <1>15, <1>16, <1>17, <1>19, <1>20,
     <1>22, <1>23 DEF AtWork, WSocket, WResocket

LEMMA TakeInv ==
  ASSUME UdpInv, NEW w \in Workers, WTake(w)
  PROVE  UdpInv'
<1> USE DEF Engine, ctl, At, fdVars, Job
<1>1. LoanInv' /\ \A s \in Slots : Kept(s)
  BY TakeLoans DEF UdpInv
<1>2. /\ Head(queue) = queue[1] /\ Head(queue) \in Slots
      /\ Len(queue) \in Nat \ {0} /\ Len(Tail(queue)) = Len(queue) - 1
      /\ \A i \in 1..(Len(queue) - 1) : Tail(queue)[i] = queue[i + 1]
  BY QueueTail DEF WTake, UdpInv, LoanInv, Typed
<1> DEFINE k == [Idle EXCEPT !.pc = "sock", !.job = Head(queue)]
<1>3. wk' = [wk EXCEPT ![w] = k] /\ queue' = Tail(queue)
      /\ UNCHANGED <<sess, owner, reg, epc, cur, batch>> /\ wk[w].pc = "idle"
  BY DEF WTake
<1>4. k.pc = "sock" /\ k.job = queue[1] /\ k.cfd = None /\ k.rfd = None
  BY <1>2 DEF Idle
<1> HIDE DEF k
<1>5. wk'[w] = k /\ \A v \in Workers \ {w} : wk'[v] = wk[v]
  BY <1>3 DEF UdpInv, LoanInv, Typed
<1>6. 1 \in 1..Len(queue)
  BY <1>2
<1>7. Shape'
  <2>1. sess[k.job].cfd = None /\ sess[k.job].rfd = None /\ ~sess[k.job].udp_tcp
    BY <1>4, <1>6 DEF UdpInv, Waiting
  <2>2. ShapeOf(k, sess[k.job])
    BY <1>4, <2>1 DEF ShapeOf, Bare, OneOnly, Unset, Framed, Same, Undo, Apart, Early, Copied
  <2> QED
    BY <1>3, <1>5, <2>2 DEF UdpInv, Shape
<1>8. Waiting'
  <2>1. \A i \in 1..(Len(queue) - 1) : i + 1 \in 1..Len(queue)
    BY <1>2
  <2> QED
    BY <1>2, <1>3, <2>1 DEF UdpInv, Waiting
<1>9. wk[w].cfd = None /\ wk[w].rfd = None
  BY <1>3 DEF UdpInv, Shape, ShapeOf, Bare
<1>10. Owned'
  <2>1. \A s \in Slots, f \in Fds : Held(s, f)' <=> Held(s, f)
    BY <1>3, <1>4, <1>5, <1>9, UdpSessAssumption DEF Held
  <2> QED
    BY <1>3, <2>1 DEF UdpInv, Owned
<1>11. FreeIsBlank' /\ InHand' /\ Registered'
  BY <1>3 DEF UdpInv, FreeIsBlank, InHand, Registered
<1> QED
  BY <1>1, <1>7, <1>8, <1>10, <1>11 DEF UdpInv

\* A worker leaves, or gives its session back: it holds nothing.
LEMMA LeaveInv ==
  ASSUME UdpInv, NEW w \in Workers, WExit(w) \/ WDone(w)
  PROVE  UdpInv'
<1> USE DEF Engine, ctl, At, fdVars
<1>1. LoanInv' /\ \A s \in Slots : sess'[s].place = sess[s].place
  <2>1. CASE WExit(w)
    BY <2>1, ExitLoans DEF UdpInv, WExit
  <2>2. CASE WDone(w)
    BY <2>2, DoneLoans DEF UdpInv
  <2> QED
    BY <2>1, <2>2
<1>2. wk[w] \in Wk /\ wk[w].pc \in {"idle", "done"} /\ UNCHANGED <<queue, owner, reg, epc, cur, batch>>
  BY DEF WExit, WDone, UdpInv, LoanInv, Typed
<1>3. wk[w].cfd = None /\ wk[w].rfd = None
  BY <1>2 DEF UdpInv, Shape, ShapeOf, Bare
<1>4. /\ wk'[w].pc \in {"idle", "exited"} /\ wk'[w].cfd = None /\ wk'[w].rfd = None
      /\ wk'[w].job = None
      /\ \A v \in Workers \ {w} : wk'[v] = wk[v]
  <2>1. CASE WExit(w)
    <3>1. wk[w].job = None
      BY <2>1 DEF WExit, UdpInv, LoanInv, JobPlaces, Job
    <3> QED
      BY <1>3, <2>1, <3>1, GotoWorks DEF WExit, WPCs, UdpInv, LoanInv
  <2>2. CASE WDone(w)
    BY <2>2, IdleType, OwnRecord DEF WDone, Idle, UdpInv, LoanInv
  <2> QED
    BY <2>1, <2>2
<1>5. \A s \in Slots : /\ sess'[s].cfd = sess[s].cfd /\ sess'[s].rfd = sess[s].rfd
                       /\ sess'[s].udp_tcp = sess[s].udp_tcp
                       /\ sess[s].place = "free" => sess'[s] = sess[s]
  <2>1. CASE WExit(w)
    BY <2>1 DEF WExit
  <2>2. CASE WDone(w)
    <3> DEFINE j == wk[w].job
               r == [sess[j] EXCEPT !.done = TRUE]
    <3>1. j \in Slots
      BY <2>2 DEF WDone, UdpInv, LoanInv, JobPlaces, Job, Typed, Wk
    <3>2. sess[j] \in Session /\ sess[j].place # "free"
      BY <3>1, UdpSessAssumption DEF UdpInv, LoanInv, Loans, Job, OnLoan, Typed
    <3>3. sess' = [sess EXCEPT ![j] = r] /\ r \in Session
      BY <2>2, <3>2 DEF WDone, Job, Session
    <3>4. r.cfd = sess[j].cfd /\ r.rfd = sess[j].rfd /\ r.udp_tcp = sess[j].udp_tcp
      BY <3>2 DEF Session
    <3> HIDE DEF j, r
    <3>5. sess'[j] = r /\ \A t \in Slots \ {j} : sess'[t] = sess[t]
      BY <3>1, <3>3, OwnSession DEF UdpInv, LoanInv
    <3> QED
      BY <3>2, <3>4, <3>5
  <2> QED
    BY <2>1, <2>2
<1>6. \A v \in Workers \ {w} : wk[v].job \in Slots \cup {None}
  BY DEF UdpInv, LoanInv, Typed, Wk
<1>7. Shape'
  <2>1. ASSUME NEW v \in Workers PROVE ShapeOf(wk[v], sess[wk[v].job])'
    <3>1. CASE wk'[v].pc \in {"idle", "exited"} /\ wk'[v].cfd = None /\ wk'[v].rfd = None
      BY <3>1 DEF ShapeOf, Bare, OneOnly, Unset, Framed, Same, Undo, Apart, Early, Copied
    <3>2. CASE ~(wk'[v].pc \in {"idle", "exited"} /\ wk'[v].cfd = None /\ wk'[v].rfd = None)
      <4>1. v # w /\ wk'[v] = wk[v]
        BY <1>4, <3>2
      <4>2. ShapeOf(wk[v], sess[wk[v].job])
        BY DEF UdpInv, Shape
      <4>3. wk[v].job \in Slots
        BY <1>6, <3>2, <4>1, <4>2 DEF ShapeOf, Bare, UdpInv, LoanInv, JobPlaces, Job
      <4> QED
        BY <1>5, <4>1, <4>2, <4>3 DEF ShapeOf, Bare, OneOnly, Unset, Framed, Same, Undo, Apart
    <3> QED
      BY <3>1, <3>2
  <2> QED
    BY <2>1 DEF Shape
<1>8. Waiting'
  <2>1. \A i \in 1..Len(queue) : queue[i] \in Slots
    BY DEF UdpInv, LoanInv, Typed
  <2> QED
    BY <1>2, <1>5, <2>1 DEF UdpInv, Waiting
<1>9. Owned'
  <2>1. \A s \in Slots, f \in Fds : Held(s, f)' <=> Held(s, f)
    BY <1>3, <1>4, <1>5, UdpSessAssumption DEF Held
  <2> QED
    BY <1>2, <2>1 DEF UdpInv, Owned
<1>10. FreeIsBlank'
  BY <1>1, <1>5 DEF UdpInv, FreeIsBlank
<1>11. InHand'
  <2>1. cur \in Slots \cup {None} /\ \A i \in batch \cap Socks : i[1] \in Slots
    BY DEF UdpInv, LoanInv, Typed, Socks
  <2> QED
    BY <1>1, <1>2, <2>1 DEF UdpInv, InHand
<1>12. Registered'
  <2>1. \A f \in Fds : reg[f] # None => reg[f].s \in Slots
    BY DEF UdpInv, LoanInv, Typed
  <2> QED
    BY <1>2, <1>5, <2>1 DEF UdpInv, Registered
<1> QED
  BY <1>1, <1>7, <1>8, <1>9, <1>10, <1>11, <1>12 DEF UdpInv

\* What a step of the engine has to say for itself, if the sessions in G lose
\* their sockets and the others keep theirs.
LEMMA EngineInv ==
  ASSUME UdpInv, LoanInv', UNCHANGED <<queue, wk>>, NEW G \in SUBSET Slots,
         \A f \in Fds : owner'[f] = IF \E s \in G : sess[s].cfd = f \/ sess[s].rfd = f
                                    THEN None ELSE owner[f],
         \A f \in Fds : reg'[f] # None =>
            /\ reg[f] # None /\ reg'[f].s = reg[f].s
            /\ ~\E s \in G : sess[s].cfd = f \/ sess[s].rfd = f,
         \A s \in G : sess'[s].cfd = None /\ sess'[s].rfd = None,
         \A s \in Slots \ G : sess'[s].cfd = sess[s].cfd /\ sess'[s].rfd = sess[s].rfd,
         \A s \in Slots : sess'[s].udp_tcp => sess[s].udp_tcp,
         \A w \in Workers : wk[w].job \in G => wk[w].pc \notin Copied \cup Failing,
         FreeIsBlank', InHand'
  PROVE  UdpInv'
<1>1. \A w \in Workers : wk[w].job \in Slots \/ wk[w].pc \in {"idle", "exited"}
  BY DEF UdpInv, LoanInv, JobPlaces, Job, Typed, Wk
<1>2. Shape'
  <2>1. ASSUME NEW w \in Workers PROVE ShapeOf(wk[w], sess[wk[w].job])'
    <3>1. ShapeOf(wk[w], sess[wk[w].job]) /\ wk'[w] = wk[w]
      BY DEF UdpInv, Shape
    <3>2. CASE wk[w].pc \in {"idle", "exited"}
      BY <3>1, <3>2 DEF ShapeOf, Bare, OneOnly, Unset, Framed, Same, Undo, Apart, Early, Copied
    <3>3. CASE wk[w].job \in G
      BY <3>1, <3>3 DEF ShapeOf, Bare, OneOnly, Unset, Framed, Same, Undo, Apart, Early, Copied,
         Failing
    <3>4. CASE wk[w].job \in Slots \ G
      BY <3>1, <3>4 DEF ShapeOf, Bare, OneOnly, Unset, Framed, Same, Undo, Apart
    <3> QED
      BY <1>1, <3>2, <3>3, <3>4
  <2> QED
    BY <2>1 DEF Shape
<1>3. Waiting'
  <2>1. \A i \in 1..Len(queue) : queue[i] \in Slots
    BY DEF UdpInv, LoanInv, Typed
  <2> QED
    BY <2>1 DEF UdpInv, Waiting
<1>4. Owned'
  <2>1. ASSUME NEW s \in Slots \ G, NEW f \in Fds PROVE Held(s, f)' <=> owner'[f] = s
    <3>1. Held(s, f)' <=> Held(s, f)
      BY DEF Held
    <3>2. \A t \in G : sess[t].cfd = f \/ sess[t].rfd = f => owner[f] = t
      BY DEF UdpInv, Owned, Held
    <3> QED
      BY <3>1, <3>2, UdpSessAssumption DEF UdpInv, Owned
  <2>2. ASSUME NEW s \in G, NEW f \in Fds PROVE Held(s, f)' <=> owner'[f] = s
    <3>1. Held(s, f)' <=> \E w \in Workers : wk[w].job = s /\ (wk[w].cfd = f \/ wk[w].rfd = f)
      BY UdpSessAssumption DEF Held
    <3>2. Held(s, f) <=> owner[f] = s
      BY DEF UdpInv, Owned
    <3>3. CASE sess[s].cfd = f \/ sess[s].rfd = f
      <4>1. owner'[f] = None
        BY <3>3
      <4>2. ASSUME NEW w \in Workers, wk[w].job = s, wk[w].cfd = f \/ wk[w].rfd = f PROVE FALSE
        <5>1. ShapeOf(wk[w], sess[s]) /\ wk[w].pc \in WPCs
          BY <4>2 DEF UdpInv, Shape, LoanInv, Typed, Wk
        <5>2. wk[w].pc \notin Copied \cup Failing
          BY <4>2
        <5>3. f # None
          BY UdpSessAssumption
        <5> QED
          BY <3>3, <4>2, <5>1, <5>2, <5>3 DEF ShapeOf, Bare, Unset, Early, Copied, Failing, WPCs
      <4> QED
        BY <3>1, <4>1, <4>2, UdpSessAssumption
    <3>4. CASE ~(sess[s].cfd = f \/ sess[s].rfd = f)
      <4>1. Held(s, f) <=> \E w \in Workers : wk[w].job = s /\ (wk[w].cfd = f \/ wk[w].rfd = f)
        BY <3>4 DEF Held
      <4>2. \A t \in G : sess[t].cfd = f \/ sess[t].rfd = f => owner[f] = t /\ t # s
        BY <3>4 DEF UdpInv, Owned, Held
      <4> QED
        BY <3>1, <3>2, <4>1, <4>2, UdpSessAssumption
    <3> QED
      BY <3>3, <3>4
  <2> QED
    BY <2>1, <2>2 DEF Owned
<1>5. Registered'
  <2>1. \A f \in Fds : reg[f] # None => reg[f].s \in Slots
    BY DEF UdpInv, LoanInv, Typed
  <2> QED
    BY <2>1 DEF UdpInv, Registered
<1> QED
  BY <1>2, <1>3, <1>4, <1>5 DEF UdpInv

\* Steps that neither open nor close a socket nor free a session.
LEMMA QuietInv ==
  ASSUME UdpInv, LoanInv', UNCHANGED <<queue, wk, owner>>,
         \A f \in Fds : reg'[f] # None => reg[f] # None /\ reg'[f].s = reg[f].s,
         \A s \in Slots : /\ sess'[s].cfd = sess[s].cfd /\ sess'[s].rfd = sess[s].rfd
                          /\ sess'[s].udp_tcp = sess[s].udp_tcp
                          /\ sess'[s].place = sess[s].place
                          /\ sess[s].place = "free" => sess'[s] = sess[s],
         batch' # {} => epc' \in {"batch", "tun", "found", "arm"},
         cur' # None <=> epc' \in {"found", "arm"}, cur' # None => sess[cur'].place # "free",
         \A i \in batch' \cap Socks : sess[i[1]].place # "free"
  PROVE  UdpInv'
<1>1. FreeIsBlank'
  BY DEF UdpInv, FreeIsBlank
<1>2. InHand'
  <2>1. cur' \in Slots \cup {None} /\ \A i \in batch' \cap Socks : i[1] \in Slots
    BY DEF LoanInv, Typed, Socks
  <2> QED
    BY <2>1 DEF InHand
<1> DEFINE G == {}
<1>3. /\ G \in SUBSET Slots
      /\ \A f \in Fds : owner'[f] = IF \E s \in G : sess[s].cfd = f \/ sess[s].rfd = f
                                    THEN None ELSE owner[f]
      /\ \A f \in Fds : reg'[f] # None =>
            /\ reg[f] # None /\ reg'[f].s = reg[f].s
            /\ ~\E s \in G : sess[s].cfd = f \/ sess[s].rfd = f
      /\ \A s \in G : sess'[s].cfd = None /\ sess'[s].rfd = None
      /\ \A s \in Slots \ G : sess'[s].cfd = sess[s].cfd /\ sess'[s].rfd = sess[s].rfd
      /\ \A w \in Workers : wk[w].job \in G => wk[w].pc \notin Copied \cup Failing
  OBVIOUS
<1> HIDE DEF G
<1> QED
  BY <1>1, <1>2, <1>3, EngineInv

\* The engine closes sessions of the hash none of whose workers has copies of
\* the sockets.
LEMMA CloseInv ==
  ASSUME UdpInv, LoanInv', UNCHANGED <<queue, wk, cur>>, epc \notin {"found", "arm"},
         epc' \notin {"found", "arm"}, batch' \subseteq batch, batch' # {} => epc' \in {"batch", "tun", "found", "arm"},
         NEW G \in SUBSET {s \in Slots : InHash(s)}, CloseSessions(G),
         "close_early" \notin Hard, \A s \in G : MayClose(s)
  PROVE  UdpInv'
<1>1. G \in SUBSET Slots
  OBVIOUS
<1>2. \A s \in Slots : sess[s] \in Session
  BY DEF UdpInv, LoanInv, Typed
<1>3. \A s \in G : /\ sess'[s].cfd = None /\ sess'[s].rfd = None /\ sess'[s].place = "grave"
                   /\ sess'[s].udp_tcp = sess[s].udp_tcp
  <2> SUFFICES ASSUME NEW s \in G
               PROVE  /\ sess'[s].cfd = None /\ sess'[s].rfd = None /\ sess'[s].place = "grave"
                      /\ sess'[s].udp_tcp = sess[s].udp_tcp
    OBVIOUS
  <2>1. sess'[s] = [sess[s] EXCEPT !.place = "grave", !.cfd = None, !.rfd = None]
    BY DEF CloseSessions
  <2>2. sess[s] \in Session
    BY <1>2
  <2> QED
    BY <2>1, <2>2 DEF Session
<1>4. \A s \in Slots \ G : sess'[s] = sess[s]
  BY DEF CloseSessions
<1>5. \A w \in Workers : wk[w].job \in G => wk[w].pc \notin Copied \cup Failing
  BY DEF MayClose, WorkerAt, Job, Copied, Failing
<1> DEFINE D == UNION {FdsOf(sess[s]) : s \in G}
<1>6. \A f \in Fds : f \in D <=> \E s \in G : sess[s].cfd = f \/ sess[s].rfd = f
  BY UdpSessAssumption DEF FdsOf
<1>7. \A f \in Fds : /\ owner'[f] = (IF f \in D THEN None ELSE owner[f])
                     /\ reg'[f] = (IF f \in D THEN None ELSE reg[f])
  BY DEF CloseSessions, Release
<1> HIDE DEF D
<1>8. FreeIsBlank'
  BY <1>3, <1>4 DEF UdpInv, FreeIsBlank
<1>9. InHand'
  <2>1. cur = None
    BY DEF UdpInv, InHand
  <2>2. \A i \in batch' \cap Socks : i[1] \in Slots /\ sess[i[1]].place # "free"
    BY DEF UdpInv, InHand, Socks
  <2>3. \A i \in batch' \cap Socks : sess'[i[1]].place # "free"
    BY <1>3, <1>4, <2>2
  <2> QED
    BY <2>1, <2>3 DEF InHand
<1>10. \A f \in Fds : owner'[f] = IF \E s \in G : sess[s].cfd = f \/ sess[s].rfd = f
                                  THEN None ELSE owner[f]
  BY <1>6, <1>7
<1>11. \A f \in Fds : reg'[f] # None =>
          /\ reg[f] # None /\ reg'[f].s = reg[f].s
          /\ ~\E s \in G : sess[s].cfd = f \/ sess[s].rfd = f
  BY <1>6, <1>7
<1>12. \A s \in Slots : sess'[s].udp_tcp => sess[s].udp_tcp
  BY <1>3, <1>4
<1> QED
  BY <1>1, <1>3, <1>4, <1>5, <1>8, <1>9, <1>10, <1>11, <1>12, EngineInv

\* The engine frees sessions that nobody has on loan, all others keep their
\* sockets.
LEMMA FreeInv ==
  ASSUME UdpInv, LoanInv', UNCHANGED <<queue, wk, cur, batch>>,
         epc \in {"top", "collect", "join"}, epc' \notin {"found", "arm"},
         NEW G \in SUBSET Slots, G \cap InUse = {},
         Release(UNION {FdsOf(sess[s]) : s \in G}),
         \A s \in G : sess'[s] = Blank,
         \A s \in Slots \ G : /\ sess'[s].cfd = sess[s].cfd /\ sess'[s].rfd = sess[s].rfd
                              /\ sess'[s].udp_tcp = sess[s].udp_tcp
                              /\ sess'[s].place = "free" => sess[s].place = "free"
                              /\ sess[s].place = "free" => sess'[s] = sess[s]
  PROVE  UdpInv'
<1>1. \A s \in G : sess'[s].cfd = None /\ sess'[s].rfd = None /\ ~sess'[s].udp_tcp
  BY DEF Blank
<1>2. \A w \in Workers : wk[w].job \notin G
  <2>1. \A w \in Workers : wk[w].job \in InUse \cup {None}
    BY DEF InUse, Job
  <2> QED
    BY <2>1, UdpSessAssumption
<1> DEFINE D == UNION {FdsOf(sess[s]) : s \in G}
<1>3. \A f \in Fds : f \in D <=> \E s \in G : sess[s].cfd = f \/ sess[s].rfd = f
  BY UdpSessAssumption DEF FdsOf
<1>4. \A f \in Fds : /\ owner'[f] = (IF f \in D THEN None ELSE owner[f])
                     /\ reg'[f] = (IF f \in D THEN None ELSE reg[f])
  BY DEF Release
<1> HIDE DEF D
<1>5. \A f \in Fds : owner'[f] = IF \E s \in G : sess[s].cfd = f \/ sess[s].rfd = f
                                  THEN None ELSE owner[f]
  BY <1>3, <1>4
<1>6. \A f \in Fds : reg'[f] # None =>
          /\ reg[f] # None /\ reg'[f].s = reg[f].s
          /\ ~\E s \in G : sess[s].cfd = f \/ sess[s].rfd = f
  BY <1>3, <1>4
<1>7. FreeIsBlank'
  BY DEF UdpInv, FreeIsBlank
<1>8. InHand'
  BY DEF UdpInv, InHand
<1>9. \A s \in Slots : sess'[s].udp_tcp => sess[s].udp_tcp
  BY <1>1
<1> QED
  BY <1>1, <1>2, <1>5, <1>6, <1>7, <1>8, <1>9, EngineInv

\* Steps that change other fields of one session than the invariant looks at,
\* and what EPOLL is asked for at most.
FieldStep(s, r) ==
    /\ sess[s].place # "free"
    /\ sess' = [sess EXCEPT ![s] = r] \/ sess' = sess
    /\ r.place = sess[s].place /\ r.cfd = sess[s].cfd /\ r.rfd = sess[s].rfd
    /\ r.udp_tcp = sess[s].udp_tcp
    /\ UNCHANGED <<queue, wk, owner>>
    /\ \A f \in Fds : reg'[f] # None => reg[f] # None /\ reg'[f].s = reg[f].s
    /\ batch' \subseteq batch
    /\ \/ epc' = epc /\ cur' = cur
       \/ epc' = "tun" /\ cur' = None
       \/ epc' = "arm" /\ cur' = cur /\ cur # None

LEMMA FieldInv ==
  ASSUME UdpInv, LoanInv', NEW s \in Slots, NEW r \in Session, FieldStep(s, r)
  PROVE  UdpInv'
<1>1. (sess'[s] = r \/ sess'[s] = sess[s]) /\ \A t \in Slots \ {s} : sess'[t] = sess[t]
  BY DEF FieldStep, UdpInv, LoanInv, Typed
<1>2. \A t \in Slots : /\ sess'[t].cfd = sess[t].cfd /\ sess'[t].rfd = sess[t].rfd
                       /\ sess'[t].udp_tcp = sess[t].udp_tcp
                       /\ sess'[t].place = sess[t].place
                       /\ sess[t].place = "free" => sess'[t] = sess[t]
  BY <1>1 DEF FieldStep
<1>3. /\ batch' # {} => epc' \in {"batch", "tun", "found", "arm"}
      /\ cur' # None <=> epc' \in {"found", "arm"}
      /\ cur' # None => sess[cur'].place # "free"
      /\ \A i \in batch' \cap Socks : sess[i[1]].place # "free"
  BY DEF FieldStep, UdpInv, InHand
<1> QED
  BY <1>2, <1>3, QuietInv DEF FieldStep

LEMMA OthersInv ==
  ASSUME UdpInv, "close_early" \notin Hard, Others
  PROVE  UdpInv'
<1> USE DEF fdVars, hsVars, ctl, Engine, Goto_e
<1>1. LoanInv' /\ UNCHANGED <<queue, wk>>
  BY OthersKeep, EngineLoans DEF UdpInv
<1>2. /\ sess \in [Slots -> Session] /\ cur \in Slots \cup {None}
      /\ \A f \in Fds : reg[f] # None => reg[f] \in [s: Slots, sock: {"control", "relay"}, out: BOOLEAN]
  BY DEF UdpInv, LoanInv, Typed
<1>3. /\ batch # {} => epc \in {"batch", "tun", "found", "arm"}
      /\ cur # None <=> epc \in {"found", "arm"}
      /\ cur # None => sess[cur].place # "free"
      /\ \A i \in batch \cap Socks : sess[i[1]].place # "free"
  BY DEF UdpInv, InHand
\* Steps that leave the sessions and their sockets alone.
<1>4. ASSUME UNCHANGED <<sess, owner, reg>>,
             batch' # {} => epc' \in {"batch", "tun", "found", "arm"},
             cur' # None <=> epc' \in {"found", "arm"}, cur' # None => sess[cur'].place # "free",
             \A i \in batch' \cap Socks : sess[i[1]].place # "free"
      PROVE  UdpInv'
  BY <1>1, <1>4, QuietInv
<1>5. CASE EngTop \/ EngTun \/ EngTunEnd \/ EngNoGc \/ EngStopPool \/ EngShutdown
            \/ AskReset \/ Stop \/ Stopped \/ UNCHANGED vars
  <2>1. UNCHANGED <<sess, owner, reg>> /\ batch' \subseteq batch /\ UNCHANGED cur
    BY <1>5 DEF EngTop, EngTun, EngTunEnd, EngNoGc, EngStopPool, EngShutdown, AskReset, Stop,
       Stopped, vars
  <2>2. \/ epc' = epc
        \/ cur = None /\ epc' \notin {"found", "arm"} /\ (batch' = {} \/ epc' \in {"batch", "tun"})
    BY <1>3, <1>5 DEF EngTop, EngTun, EngTunEnd, EngNoGc, EngStopPool, EngShutdown, AskReset, Stop,
       Stopped, vars
  <2> QED
    BY <1>3, <1>4, <2>1, <2>2
<1>6. CASE EngWait
  <2>1. UNCHANGED <<sess, owner, reg, cur>> /\ cur = None /\ epc' = "batch"
    BY <1>3, <1>6 DEF EngWait
  <2>2. \A f \in Fds : reg[f] # None => sess[reg[f].s].place # "free"
    <3>1. \A f \in Fds : reg[f] # None => /\ reg[f].s \in Slots
                                          /\ sess[reg[f].s].cfd = f \/ sess[reg[f].s].rfd = f
      BY <1>2 DEF UdpInv, Registered
    <3>2. \A s \in Slots : sess[s].place = "free" => sess[s].cfd = None /\ sess[s].rfd = None
      BY DEF UdpInv, FreeIsBlank, Blank
    <3> QED
      BY <3>1, <3>2, UdpSessAssumption
  <2>3. \A i \in batch' \cap Socks : sess[i[1]].place # "free"
    <3>1. PICK B \in SUBSET ({TunEv} \cup {<<reg[f].s, reg[f].sock>> : f \in {g \in Fds : reg[g] # None}}) :
             batch' = B \cup (IF running THEN {} ELSE {StopEv})
      BY <1>6 DEF EngWait
    <3>2. \A i \in Socks : i # TunEv /\ i # StopEv
      BY UdpSessAssumption DEF Socks, TunEv, StopEv
    <3> SUFFICES ASSUME NEW i \in batch' \cap Socks PROVE sess[i[1]].place # "free"
      OBVIOUS
    <3>3. i \in {<<reg[f].s, reg[f].sock>> : f \in {g \in Fds : reg[g] # None}}
      BY <3>1, <3>2
    <3>4. PICK f \in Fds : reg[f] # None /\ i = <<reg[f].s, reg[f].sock>>
      BY <3>3
    <3> QED
      BY <2>2, <3>4
  <2> QED
    BY <1>4, <2>1, <2>3
<1>8. ASSUME NEW s \in Slots, Age(s) PROVE UdpInv'
  <2> DEFINE r == [sess[s] EXCEPT !.seen = "quiet"]
  <2>1. sess' = [sess EXCEPT ![s] = r] /\ sess[s].place # "free"
    BY <1>8 DEF Age, InHash
  <2>2. sess[s] \in Session
    BY <1>2
  <2>3. r \in Session /\ r.place = sess[s].place /\ r.cfd = sess[s].cfd /\ r.rfd = sess[s].rfd
        /\ r.udp_tcp = sess[s].udp_tcp
    BY <2>2 DEF Session
  <2> HIDE DEF r
  <2>4. UNCHANGED <<owner, reg, epc, cur, batch>>
    BY <1>8 DEF Age
  <2>5. FieldStep(s, r)
    BY <1>1, <2>1, <2>3, <2>4 DEF FieldStep
  <2> QED
    BY <1>1, <2>3, <2>5, FieldInv
<1>9. EngBuffer \/ EngForward \/ EngArm => cur \in Slots
  BY <1>2, <1>3 DEF EngBuffer, EngForward, EngArm
<1>10. ASSUME EngBuffer, cur \in Slots PROVE UdpInv'
  <2>1. PICK b \in BOOLEAN : sess' = [sess EXCEPT ![cur].pend = @ \/ b]
    BY <1>10 DEF EngBuffer
  <2> DEFINE r == [sess[cur] EXCEPT !.pend = @ \/ b]
  <2>2. sess' = [sess EXCEPT ![cur] = r]
    BY <2>1
  <2>3. sess[cur] \in Session /\ sess[cur].place # "free"
    BY <1>2, <1>3, <1>10, UdpSessAssumption
  <2>4. r \in Session /\ r.place = sess[cur].place /\ r.cfd = sess[cur].cfd /\ r.rfd = sess[cur].rfd
        /\ r.udp_tcp = sess[cur].udp_tcp
    BY <2>3 DEF Session
  <2> HIDE DEF r
  <2>5. UNCHANGED <<owner, reg, batch>> /\ epc' = "tun" /\ cur' = None
    BY <1>10 DEF EngBuffer
  <2>6. FieldStep(cur, r)
    BY <1>1, <2>2, <2>3, <2>4, <2>5 DEF FieldStep
  <2> QED
    BY <1>1, <1>10, <2>4, <2>6, FieldInv
<1>11. ASSUME EngForward, cur \in Slots PROVE UdpInv'
  <2> DEFINE append == InHash(cur) /\ sess[cur].udp_tcp /\ sess[cur].tx < TxCap
             r == [sess[cur] EXCEPT !.tx = IF append THEN @ + 1 ELSE @,
                                    !.seen = IF @ = "fresh" THEN @ ELSE "app"]
  <2>1. sess' = [sess EXCEPT ![cur] = r]
    BY <1>2, <1>11 DEF EngForward
  <2>2. sess[cur] \in Session /\ sess[cur].place # "free"
    BY <1>2, <1>3, <1>11, UdpSessAssumption
  <2>3. r \in Session /\ r.place = sess[cur].place /\ r.cfd = sess[cur].cfd /\ r.rfd = sess[cur].rfd
        /\ r.udp_tcp = sess[cur].udp_tcp
    <3>1. (IF append THEN sess[cur].tx + 1 ELSE sess[cur].tx) \in 0..TxCap
      BY <2>2, UdpSessAssumption DEF Session
    <3> HIDE DEF append
    <3> QED
      BY <2>2, <3>1 DEF Session
  <2>4. UNCHANGED <<owner, reg, batch>>
        /\ ((epc' = "arm" /\ cur' = cur) \/ (epc' = "tun" /\ cur' = None))
    <3>1. CASE append
      BY <1>11, <3>1 DEF EngForward
    <3>2. CASE ~append
      BY <1>11, <3>2 DEF EngForward
    <3> QED
      BY <3>1, <3>2
  <2> HIDE DEF append, r
  <2>5. FieldStep(cur, r)
    BY <1>1, <1>11, <2>1, <2>2, <2>3, <2>4, UdpSessAssumption DEF FieldStep
  <2> QED
    BY <1>1, <1>11, <2>3, <2>5, FieldInv
<1>12. ASSUME EngArm, cur \in Slots PROVE UdpInv'
  <2> DEFINE f == sess[cur].cfd
             r == [sess[cur] EXCEPT !.armed = TRUE]
  <2>1. sess[cur] \in Session /\ sess[cur].place # "free"
    BY <1>2, <1>3, <1>12, UdpSessAssumption
  <2>2. r \in Session /\ r.place = sess[cur].place /\ r.cfd = sess[cur].cfd /\ r.rfd = sess[cur].rfd
        /\ r.udp_tcp = sess[cur].udp_tcp
    BY <2>1 DEF Session
  <2>3. \/ sess' = sess /\ reg' = reg
        \/ /\ sess' = [sess EXCEPT ![cur] = r] /\ f # None /\ reg[f] # None
           /\ reg' = [reg EXCEPT ![f].out = TRUE]
    BY <1>12 DEF EngArm
  <2>4. UNCHANGED <<owner, batch>> /\ epc' = "tun" /\ cur' = None
    BY <1>12 DEF EngArm
  <2>5. \A g \in Fds : reg'[g] # None => reg[g] # None /\ reg'[g].s = reg[g].s
    <3>1. CASE reg' = reg
      BY <3>1
    <3>2. CASE f # None /\ reg[f] # None /\ reg' = [reg EXCEPT ![f].out = TRUE]
      <4>1. f \in Fds
        BY <2>1, <3>2 DEF Session
      <4>2. reg[f] \in [s: Slots, sock: {"control", "relay"}, out: BOOLEAN]
        BY <1>2, <3>2, <4>1
      <4>3. [reg[f] EXCEPT !.out = TRUE].s = reg[f].s
        BY <4>2
      <4>4. reg'[f] = [reg[f] EXCEPT !.out = TRUE] /\ \A g \in Fds \ {f} : reg'[g] = reg[g]
        BY <3>2, <4>1 DEF UdpInv, LoanInv, Typed
      <4> QED
        BY <3>2, <4>3, <4>4
    <3> QED
      BY <2>3, <3>1, <3>2
  <2>6. sess' = [sess EXCEPT ![cur] = r] \/ sess' = sess
    BY <2>3
  <2> HIDE DEF r, f
  <2>7. FieldStep(cur, r)
    BY <1>1, <2>1, <2>2, <2>4, <2>5, <2>6 DEF FieldStep
  <2> QED
    BY <1>1, <1>12, <2>2, <2>7, FieldInv
<1>13. ASSUME NEW i \in Socks, EngEventClosed(i) \/ EngEventFatal(i) PROVE UdpInv'
  <2>1. i[1] \in Slots /\ epc = "batch" /\ cur = None
    BY <1>3, <1>13 DEF Socks, EngEventClosed, EngEventFatal
  <2>2. CASE EngEventClosed(i)
    BY <1>3, <1>4, <2>1, <2>2 DEF EngEventClosed
  <2>3. CASE EngEventFatal(i)
    <3> DEFINE G == {i[1]}
    <3>1. G \in SUBSET {s \in Slots : InHash(s)} /\ CloseSessions(G) /\ \A s \in G : MayClose(s)
      BY <2>1, <2>3 DEF EngEventFatal
    <3>2. UNCHANGED <<queue, wk, cur, epc>> /\ batch' \subseteq batch
      BY <2>3 DEF EngEventFatal
    <3> HIDE DEF G
    <3> QED
      BY <1>1, <2>1, <3>1, <3>2, CloseInv
  <2> QED
    BY <1>13, <2>2, <2>3
<1>14. ASSUME NEW i \in Socks, EngEventRead(i) PROVE UdpInv'
  <2> DEFINE s == i[1]
             r == [sess[s] EXCEPT !.seen = "fresh"]
  <2>1. s \in Slots /\ sess[s].place # "free" /\ sess' = [sess EXCEPT ![s] = r]
    BY <1>14 DEF EngEventRead, InHash, Socks
  <2>2. sess[s] \in Session
    BY <1>2, <2>1
  <2>3. r \in Session /\ r.place = sess[s].place /\ r.cfd = sess[s].cfd /\ r.rfd = sess[s].rfd
        /\ r.udp_tcp = sess[s].udp_tcp
    BY <2>2 DEF Session
  <2>4. UNCHANGED <<owner, reg, epc, cur>> /\ batch' \subseteq batch
    BY <1>14 DEF EngEventRead
  <2> HIDE DEF r, s
  <2>5. FieldStep(s, r)
    BY <1>1, <2>1, <2>3, <2>4 DEF FieldStep
  <2> QED
    BY <1>1, <2>1, <2>3, <2>5, FieldInv
<1>15. ASSUME NEW i \in Socks, EngEventFlush(i) PROVE UdpInv'
  <2> DEFINE s == i[1]
             f == sess[s].cfd
  <2>1. s \in Slots /\ sess[s].place # "free" /\ f # None /\ reg[f] # None
    BY <1>15 DEF EngEventFlush, InHash, Socks
  <2>2. sess[s] \in Session
    BY <1>2, <2>1
  <2>3. PICK left \in 0..sess[s].tx :
           LET off == left = 0 /\ sess[s].armed
           IN /\ sess' = [sess EXCEPT ![s].tx = left, ![s].seen = "fresh", ![s].armed = @ /\ ~off]
              /\ reg' = [reg EXCEPT ![f].out = @ /\ ~off]
    BY <1>15 DEF EngEventFlush
  <2> DEFINE off == left = 0 /\ sess[s].armed
             r == [sess[s] EXCEPT !.tx = left, !.seen = "fresh", !.armed = @ /\ ~off]
             e == [reg[f] EXCEPT !.out = @ /\ ~off]
  <2>4. sess' = [sess EXCEPT ![s] = r]
    BY <1>2, <2>1, <2>3
  <2>5. left \in 0..TxCap
    BY <2>2, UdpSessAssumption DEF Session
  <2>6. r \in Session /\ r.place = sess[s].place /\ r.cfd = sess[s].cfd /\ r.rfd = sess[s].rfd
        /\ r.udp_tcp = sess[s].udp_tcp
    BY <2>2, <2>5 DEF Session
  <2>7. reg' = [reg EXCEPT ![f] = e] /\ f \in Fds
    BY <2>1, <2>2, <2>3 DEF Session
  <2>8. e.s = reg[f].s
    <3>1. reg[f] \in [s: Slots, sock: {"control", "relay"}, out: BOOLEAN]
      BY <1>2, <2>1, <2>7
    <3> QED
      BY <3>1
  <2> HIDE DEF r, e
  <2>9. \A g \in Fds : reg'[g] # None => reg[g] # None /\ reg'[g].s = reg[g].s
    <3>1. reg'[f] = e /\ \A g \in Fds \ {f} : reg'[g] = reg[g]
      BY <2>7 DEF UdpInv, LoanInv, Typed
    <3> QED
      BY <2>1, <2>8, <3>1
  <2>10. UNCHANGED <<owner, epc, cur>> /\ batch' \subseteq batch
    BY <1>15 DEF EngEventFlush
  <2> HIDE DEF s, f
  <2>11. FieldStep(s, r)
    BY <1>1, <2>1, <2>4, <2>6, <2>9, <2>10 DEF FieldStep
  <2> QED
    BY <1>1, <2>1, <2>6, <2>11, FieldInv
<1>16. CASE EngGc
  <2>1. PICK G \in SUBSET {s \in Slots : InHash(s)} :
           CloseSessions(G) /\ \A s \in G : MayClose(s)
    BY <1>16 DEF EngGc
  <2>2. epc = "batch" /\ epc' = "collect" /\ batch = {} /\ UNCHANGED <<cur, batch>>
    BY <1>16 DEF EngGc
  <2> QED
    BY <1>1, <2>1, <2>2, CloseInv
<1>17. ASSUME NEW st \in {sess, ParkAll}, udp_graveyard_collect(st), UNCHANGED <<cur, batch>>,
              epc \in {"top", "collect", "join"}, epc' \notin {"found", "arm"}
       PROVE  UdpInv'
  <2> DEFINE G == {s \in Slots : MayFree(st[s])}
  <2>1. /\ sess' = [s \in Slots |-> IF s \in G THEN Blank ELSE st[s]]
        /\ Release(UNION {FdsOf(st[s]) : s \in G})
    BY <1>17 DEF udp_graveyard_collect
  <2>2. ASSUME NEW s \in Slots
        PROVE  /\ st[s].cfd = sess[s].cfd /\ st[s].rfd = sess[s].rfd
               /\ st[s].udp_tcp = sess[s].udp_tcp /\ st[s].done = sess[s].done
               /\ st[s].place = sess[s].place \/ (st[s].place = "grave" /\ sess[s].place = "hash")
               /\ sess[s].place = "free" => st[s] = sess[s]
    <3>1. CASE st = sess
      BY <3>1
    <3>2. CASE st = ParkAll
      <4>1. Typed
        BY DEF UdpInv, LoanInv
      <4> QED
        BY <3>2, <4>1, ParkAllKeeps
    <3> QED
      BY <1>17, <3>1, <3>2
  <2>3. G \cap InUse = {}
    BY <2>2, InUseOnLoan DEF MayFree, OnLoan, UdpInv
  <2>4. UNION {FdsOf(st[s]) : s \in G} = UNION {FdsOf(sess[s]) : s \in G}
    <3>1. \A s \in G : FdsOf(st[s]) = FdsOf(sess[s])
      BY <2>2 DEF FdsOf
    <3> QED
      BY <3>1
  <2>5. G \in SUBSET Slots
    OBVIOUS
  <2> HIDE DEF G
  <2>6. \A s \in Slots \ G : /\ sess'[s].cfd = sess[s].cfd /\ sess'[s].rfd = sess[s].rfd
                             /\ sess'[s].udp_tcp = sess[s].udp_tcp
                             /\ sess'[s].place = "free" => sess[s].place = "free"
                             /\ sess[s].place = "free" => sess'[s] = sess[s]
    BY <2>1, <2>2
  <2>7. \A s \in G : sess'[s] = Blank
    BY <2>1, <2>5
  <2>8. Release(UNION {FdsOf(sess[s]) : s \in G})
    BY <2>1, <2>4
  <2> QED
    BY <1>1, <1>17, <2>3, <2>5, <2>6, <2>7, <2>8, FreeInv
<1>20. CASE EngSoftReset \/ EngCollect
  BY <1>17, <1>20 DEF EngSoftReset, EngCollect
<1>18. CASE EngJoin
  <2> DEFINE G == {s \in Slots : InHash(s) \/ MayFree(sess[s])}
  <2>1. /\ sess' = [s \in Slots |-> IF s \in G THEN Blank ELSE sess[s]]
        /\ Release(UNION {FdsOf(sess[s]) : s \in G})
        /\ UNCHANGED <<cur, batch>> /\ epc = "join" /\ epc' = "stopped"
    BY <1>18 DEF EngJoin
  <2>2. InUse = {}
    BY <1>18, NobodyLeft DEF EngJoin, At, UdpInv
  <2>3. G \in SUBSET Slots /\ G \cap InUse = {}
    BY <2>2
  <2> HIDE DEF G
  <2>4. /\ \A s \in G : sess'[s] = Blank
        /\ \A s \in Slots \ G : sess'[s] = sess[s]
    BY <2>1, <2>3
  <2> QED
    BY <1>1, <2>1, <2>3, <2>4, FreeInv
<1> QED
  BY <1>5, <1>6, <1>8, <1>9, <1>10, <1>11, <1>12, <1>13, <1>14, <1>15, <1>16, <1>18, <1>20
  DEF Others, EngineStep, EngEvent

LEMMA DatagramInv ==
  ASSUME UdpInv, NEW k \in Keys, TunDatagram(k)
  PROVE  UdpInv'
<1> USE DEF fdVars, ctl, Goto_e
<1>1. LoanInv'
  BY CreateLoans DEF UdpInv
<1> DEFINE found == {s \in Slots : InHash(s) /\ sess[s].key = k}
<1>2. epc = "tun" /\ cur = None /\ UNCHANGED <<wk, owner, reg, batch>>
  BY DEF TunDatagram, UdpInv, InHand
<1>3. CASE found # {}
  <2>1. /\ cur' \in Slots /\ sess[cur'].place # "free" /\ epc' = "found"
        /\ UNCHANGED <<sess, queue>>
    BY <1>3 DEF TunDatagram, InHash
  <2>2. \A i \in batch' \cap Socks : sess[i[1]].place # "free"
    BY <1>2 DEF UdpInv, InHand
  <2> QED
    BY <1>1, <1>2, <2>1, <2>2, QuietInv, UdpSessAssumption
<1>4. CASE found = {}
  <2>1. PICK n \in Slots \ Alloc, small \in BOOLEAN :
           /\ sess' = [sess EXCEPT ![n] = [Blank EXCEPT
                          !.place = "hash", !.key = k, !.pend = small]]
           /\ queue' = Append(queue, n)
    BY <1>4 DEF TunDatagram
  <2> DEFINE r == [Blank EXCEPT !.place = "hash", !.key = k, !.pend = small]
  <2>2. r.place = "hash" /\ r.cfd = None /\ r.rfd = None /\ ~r.udp_tcp
    BY DEF Blank
  <2>3. sess' = [sess EXCEPT ![n] = r]
    BY <2>1
  <2> HIDE DEF r
  <2>4. sess'[n] = r /\ \A s \in Slots \ {n} : sess'[s] = sess[s]
    BY <2>1, <2>3 DEF UdpInv, LoanInv, Typed
  <2>5. UNCHANGED <<epc, cur>>
    BY <1>4 DEF TunDatagram
  <2>6. sess[n].place = "free" /\ sess[n] = Blank
    BY <2>1 DEF Alloc, UdpInv, FreeIsBlank
  <2>7. sess[n].cfd = None /\ sess[n].rfd = None /\ ~sess[n].udp_tcp
    BY <2>6 DEF Blank
  <2>8. \A s \in Slots : sess'[s].cfd = sess[s].cfd /\ sess'[s].rfd = sess[s].rfd
    BY <2>2, <2>4, <2>7
  <2>9. n \notin InUse
    BY <2>6, InUseOnLoan DEF OnLoan, UdpInv
  <2>10. Shape'
    <3>1. \A w \in Workers : wk[w].job # n
      BY <2>1, <2>9, UdpSessAssumption DEF InUse, Job
    <3>2. ASSUME NEW w \in Workers PROVE ShapeOf(wk[w], sess[wk[w].job])'
      <4>1. ShapeOf(wk[w], sess[wk[w].job]) /\ wk'[w] = wk[w]
        BY <1>2 DEF UdpInv, Shape
      <4>2. CASE wk[w].job = None
        <5>1. wk[w].pc \in {"idle", "exited"}
          BY <4>2 DEF UdpInv, LoanInv, JobPlaces, Job
        <5> QED
          BY <4>1, <5>1 DEF ShapeOf, Bare, OneOnly, Unset, Framed, Same, Undo, Apart, Early, Copied
      <4>3. CASE wk[w].job # None
        <5>1. sess'[wk[w].job] = sess[wk[w].job]
          BY <2>4, <3>1, <4>3 DEF UdpInv, LoanInv, Typed, Wk
        <5> QED
          BY <4>1, <5>1 DEF ShapeOf, Bare, OneOnly, Unset, Framed, Same, Undo, Apart
      <4> QED
        BY <4>2, <4>3
    <3> QED
      BY <3>2 DEF Shape
  <2>11. Waiting'
    <3>1. /\ queue \in Seq(Slots) /\ Len(queue) \in Nat
          /\ \A i \in 1..Len(queue) : queue[i] \in Slots
      BY DEF UdpInv, LoanInv, Typed
    <3>2. Len(queue') = Len(queue) + 1 /\ queue'[Len(queue) + 1] = n
          /\ \A i \in 1..Len(queue) : queue'[i] = queue[i]
      BY <2>1, <3>1
    <3>3. \A i \in 1..Len(queue') : i \in 1..Len(queue) \/ i = Len(queue) + 1
      BY <3>1, <3>2
    <3>4. \A i \in 1..Len(queue) : queue[i] # n
      BY <2>9, <3>1 DEF InUse, Queued
    <3> QED
      BY <2>2, <2>4, <3>1, <3>2, <3>3, <3>4 DEF UdpInv, Waiting
  <2>12. FreeIsBlank'
    BY <2>2, <2>4 DEF UdpInv, FreeIsBlank
  <2>13. InHand'
    <3>1. \A i \in batch \cap Socks : i[1] \in Slots /\ sess[i[1]].place # "free"
      BY DEF UdpInv, InHand, Socks
    <3>2. \A i \in batch \cap Socks : sess'[i[1]].place # "free"
      BY <2>2, <2>4, <3>1
    <3> QED
      BY <1>2, <2>5, <3>2 DEF InHand
  <2>14. Owned'
    <3>1. \A s \in Slots, f \in Fds : Held(s, f)' <=> Held(s, f)
      BY <1>2, <2>8 DEF Held
    <3> QED
      BY <1>2, <3>1 DEF UdpInv, Owned
  <2>15. Registered'
    <3>1. \A f \in Fds : reg[f] # None => reg[f].s \in Slots
      BY DEF UdpInv, LoanInv, Typed
    <3> QED
      BY <1>2, <2>8, <3>1 DEF UdpInv, Registered
  <2> QED
    BY <1>1, <2>10, <2>11, <2>12, <2>13, <2>14, <2>15 DEF UdpInv
<1> QED
  BY <1>3, <1>4

LEMMA UdpNext ==
  ASSUME "close_early" \notin Hard
  PROVE  UdpInv /\ [Next]_vars => UdpInv'
<1> SUFFICES ASSUME UdpInv, [Next]_vars PROVE UdpInv'
  OBVIOUS
<1>1. ASSUME NEW w \in Workers, Worker(w) PROVE UdpInv'
  BY <1>1, AtWorkInv, TakeInv, LeaveInv DEF Worker, AtWork
<1>2. ASSUME NEW k \in Keys, TunDatagram(k) PROVE UdpInv'
  BY <1>2, DatagramInv
<1>3. CASE Others
  BY <1>3, OthersInv
<1> QED
  BY <1>1, <1>2, <1>3 DEF Next, Others

LEMMA UdpInvariance ==
  ASSUME "close_early" \notin Hard
  PROVE  Spec => []UdpInv
  BY UdpInit, UdpNext, PTL DEF Spec

\* No worker, queued job, epoll registration, undelivered event or packet in
\* hand refers to a freed session, although worker and engine both unlink
\* sessions (udp_session_thread's fail path, udp_handle_event, udp_idle_gc,
\* udp_soft_reset) and only the engine frees them.
THEOREM NoUseAfterFreeHolds ==
  ASSUME "close_early" \notin Hard
  PROVE  Spec => []NoUseAfterFree
<1>1. UdpInv => NoUseAfterFree
  <2> SUFFICES ASSUME UdpInv PROVE NoUseAfterFree
    OBVIOUS
  <2>1. \A s \in InUse : sess[s].place # "free"
    BY InUseOnLoan DEF OnLoan, UdpInv
  <2>2. \A s \in {i[1] : i \in batch \cap Socks} \cup ({cur} \ {None}) : sess[s].place # "free"
    BY DEF UdpInv, InHand
  <2>3. \A f \in Fds : reg[f] # None => f \in FdsOf(sess[reg[f].s])
    BY UdpSessAssumption DEF UdpInv, Registered, FdsOf
  <2> QED
    BY <2>1, <2>2, <2>3 DEF NoUseAfterFree
<1> QED
  BY <1>1, UdpInvariance, PTL

\* Every descriptor Java has open for a session is in that session or in its
\* worker's hands, and in nobody else's: no failure, refusal or close leaks
\* one, and none is released twice, when its number may be somebody else's.
THEOREM SocketOwnershipHolds ==
  ASSUME "close_early" \notin Hard
  PROVE  Spec => []SocketOwnership
<1>1. UdpInv => SocketOwnership
  <2> SUFFICES ASSUME UdpInv, NEW f \in Fds PROVE HeldFor(f) = {owner[f]} \ {None}
    BY DEF SocketOwnership
  <2>1. f # None
    BY UdpSessAssumption
  <2>2. \A w \in Workers : f \in FdsOf(wk[w]) => Job(w) \in Slots
    <3> SUFFICES ASSUME NEW w \in Workers, f \in FdsOf(wk[w]) PROVE Job(w) \in Slots
      OBVIOUS
    <3>1. wk[w].pc \notin {"idle", "exited"}
      BY <2>1 DEF UdpInv, Shape, ShapeOf, Bare, FdsOf
    <3> QED
      BY <3>1 DEF UdpInv, LoanInv, JobPlaces, Typed, Wk, Job
  <2>3. \A s \in Slots : Held(s, f) <=> owner[f] = s
    BY DEF UdpInv, Owned
  <2>4. \A s : s \in HeldFor(f) <=> s \in Slots /\ Held(s, f)
    BY <2>1, <2>2 DEF HeldFor, Held, FdsOf, Job
  <2>5. owner[f] \in Slots \cup {None}
    BY DEF UdpInv, LoanInv, Typed
  <2> QED
    BY <2>3, <2>4, <2>5, UdpSessAssumption
<1> QED
  BY <1>1, UdpInvariance, PTL

-----------------------------------------------------------------------------
(* The sessions add up.                                                    *)

\* A session that is not done has somebody who will say so.
Finishers == \A s \in Slots : OnLoan(s) => s \in InUse

\* The session count, which the shutdown leaves behind.
Counted == /\ count <= MaxUdp /\ count \in Nat
           /\ epc # "stopped" => count = Cardinality(Alloc)

AllGone == epc = "stopped" => Alloc = {} /\ \A w \in Workers : wk[w].pc = "exited"

Books == Finishers /\ Counted /\ AllGone

LEMMA AllocFinite == IsFiniteSet(Alloc) /\ Cardinality(Alloc) \in Nat
<1>1. Alloc \in SUBSET Slots
  BY DEF Alloc
<1> QED
  BY <1>1, UdpSessAssumption, FS_Subset, FS_CardinalityType

LEMMA BooksInit == Init => Books
<1> SUFFICES ASSUME Init PROVE Books
  OBVIOUS
<1>1. Alloc = {} /\ count = 0 /\ epc = "top"
  BY DEF Init, Alloc, Blank
<1>2. Cardinality(Alloc) = 0
  BY <1>1, FS_EmptySet
<1>3. Finishers /\ AllGone
  BY <1>1 DEF Finishers, OnLoan, Alloc, AllGone
<1>4. Counted
  BY <1>1, <1>2, UdpSessAssumption DEF Counted
<1> QED
  BY <1>3, <1>4 DEF Books

\* Steps that create and free nothing.
LEMMA KeptBooks ==
  ASSUME Books, UNCHANGED count, \A s \in Slots : sess'[s].place = "free" <=> sess[s].place = "free",
         \A s \in Slots : OnLoan(s)' => OnLoan(s) /\ (s \in InUse => s \in InUse'),
         epc' = "stopped" <=> epc = "stopped",
         epc = "stopped" => UNCHANGED wk
  PROVE  Books'
<1>1. Alloc' = Alloc
  BY DEF Alloc
<1>2. Cardinality(Alloc') = Cardinality(Alloc)
  BY <1>1
<1>3. Counted'
  BY <1>2 DEF Books, Counted
<1>4. Finishers' /\ AllGone'
  BY <1>1 DEF Books, Finishers, AllGone
<1> QED
  BY <1>3, <1>4 DEF Books

LEMMA WorkerBooks ==
  ASSUME LoanInv, Books, NEW w \in Workers, Worker(w)
  PROVE  Books'
<1>1. wk[w].pc # "exited"
  BY DEF Worker, At, WTake, WExit, WSocket, WHandshake, WRefused, WResocket, WRelay, WStore,
     WTakePend, WForward, WState, WEvents, WAddControl, WArmed, WAddRelay, WFailControl,
     WFailRelay, WUnlink, WDone
<1>2. epc # "stopped"
  BY <1>1 DEF Books, AllGone
<1>3. ASSUME UNCHANGED <<count, epc>>, \A s \in Slots : Kept(s), InUse' = InUse PROVE Books'
  <2>1. \A s \in Slots : sess'[s].place = "free" <=> sess[s].place = "free"
    BY <1>3 DEF Kept
  <2>2. \A s \in Slots : OnLoan(s)' => OnLoan(s) /\ (s \in InUse => s \in InUse')
    BY <1>3 DEF Kept, OnLoan
  <2> QED
    BY <1>2, <1>3, <2>1, <2>2, KeptBooks
<1>4. CASE AtWork(w)
  <2>1. Works(w)
    BY <1>4, AtWorkWorks DEF LoanInv
  <2>2. UNCHANGED <<count, epc>>
    BY <2>1 DEF Works, Engine
  <2> QED
    BY <1>3, <2>1, <2>2, WorksLoans
<1>5. CASE WTake(w) \/ WExit(w)
  <2>1. UNCHANGED <<count, epc>>
    BY <1>5 DEF WTake, WExit, Engine
  <2> QED
    BY <1>3, <1>5, <2>1, TakeLoans, ExitLoans
<1>6. CASE WDone(w)
  <2> DEFINE j == wk[w].job
             r == [sess[j] EXCEPT !.done = TRUE]
  <2>1. UNCHANGED <<count, epc, queue>> /\ wk' = [wk EXCEPT ![w] = Idle] /\ sess' = [sess EXCEPT ![j] = r]
    BY <1>6 DEF WDone, Engine, Job
  <2>2. \A s \in Slots : sess'[s].place = sess[s].place
    BY <1>6, DoneLoans
  <2>3. j \in Slots /\ sess[j] \in Session
    BY <1>6 DEF WDone, At, LoanInv, JobPlaces, Job, Typed, Wk
  <2>4. r \in Session /\ r.done = TRUE
    BY <2>3 DEF Session
  <2> HIDE DEF r, j
  <2>5. sess'[j].done = TRUE /\ \A s \in Slots \ {j} : sess'[s] = sess[s]
    BY <2>1, <2>3, <2>4, OwnSession DEF LoanInv
  <2>6. \A v \in Workers \ {w} : wk'[v] = wk[v]
    BY <2>1 DEF LoanInv, Typed
  <2>7. \A s \in InUse \ {j} : s \in InUse'
    BY <2>1, <2>6 DEF InUse, Queued, Job, j
  <2>8. \A s \in Slots : OnLoan(s)' => OnLoan(s) /\ (s \in InUse => s \in InUse')
    BY <2>2, <2>5, <2>7 DEF OnLoan
  <2> QED
    BY <1>2, <2>1, <2>2, <2>8, KeptBooks
<1> QED
  BY <1>4, <1>5, <1>6 DEF Worker, AtWork

LEMMA DatagramBooks ==
  ASSUME LoanInv, Books, NEW k \in Keys, TunDatagram(k)
  PROVE  Books'
<1>1. epc = "tun" /\ epc' \in {"tun", "found"}
  BY DEF TunDatagram, Goto_e
<1>2. CASE UNCHANGED <<sess, queue, wk>>
  <2>1. UNCHANGED count
    <3>1. CASE count' = count + 1
      <4>1. PICK n \in Slots \ Alloc, small \in BOOLEAN : queue' = Append(queue, n)
        <5>1. CASE {s \in Slots : InHash(s) /\ sess[s].key = k} = {}
          BY <5>1 DEF TunDatagram
        <5>2. CASE {s \in Slots : InHash(s) /\ sess[s].key = k} # {}
          <6>1. count' = count
            BY <5>2 DEF TunDatagram
          <6> QED
            BY <3>1, <6>1 DEF LoanInv, Typed
        <5> QED
          BY <5>1, <5>2
      <4>2. Len(queue') = Len(queue) + 1 /\ Len(queue) \in Nat
        BY <4>1 DEF LoanInv, Typed
      <4> QED
        BY <1>2, <4>2
    <3> QED
      BY <3>1 DEF TunDatagram
  <2>2. InUse' = InUse
    BY <1>2 DEF InUse, Queued, Job
  <2>3. \A s \in Slots : (OnLoan(s)' <=> OnLoan(s)) /\ (sess'[s].place = "free" <=> sess[s].place = "free")
    BY <1>2 DEF OnLoan
  <2>4. (epc' = "stopped" <=> epc = "stopped") /\ epc # "stopped"
    BY <1>1
  <2> QED
    BY <2>1, <2>2, <2>3, <2>4, KeptBooks
<1>3. ASSUME NEW n \in Slots, Creates(n) PROVE Books'
  <2>1. CASE {s \in Slots : InHash(s) /\ sess[s].key = k} # {}
    <3>1. sess' = sess
      BY <2>1 DEF TunDatagram
    <3> QED
      BY <1>3, <3>1 DEF Creates, OnLoan
  <2>2. CASE {s \in Slots : InHash(s) /\ sess[s].key = k} = {}
    <3>1. count < MaxUdp /\ count' = count + 1
      BY <2>2 DEF TunDatagram
    <3>2. sess[n].place = "free" /\ sess'[n].place # "free"
          /\ \A s \in Slots \ {n} : sess'[s].place = "free" <=> sess[s].place = "free"
      BY <1>3 DEF Creates, OnLoan, Kept
    <3>3. Alloc' = Alloc \cup {n} /\ n \notin Alloc
      BY <3>2 DEF Alloc
    <3>4. Cardinality(Alloc \cup {n}) = Cardinality(Alloc) + 1
      BY <3>3, AllocFinite, FS_AddElement
    <3>5. count' = Cardinality(Alloc')
      BY <1>1, <3>1, <3>3, <3>4 DEF Books, Counted
    <3>6. count' <= MaxUdp /\ count' \in Nat
      BY <3>1, UdpSessAssumption DEF Books, Counted
    <3>7. Finishers'
      BY <1>3 DEF Books, Finishers, Creates, Kept, OnLoan
    <3> QED
      BY <1>1, <3>5, <3>6, <3>7 DEF Books, Counted, AllGone
  <2> QED
    BY <2>1, <2>2
<1> QED
  BY <1>2, <1>3, CreateLoans

\* A round of collecting, of the sessions as they are or all parked.
LEMMA CollectBooks ==
  ASSUME LoanInv, Books, EngSoftReset \/ EngCollect
  PROVE  Books'
<1>1. PICK st \in {sess, ParkAll} : udp_graveyard_collect(st)
  BY DEF EngSoftReset, EngCollect
<1>2. epc \in {"top", "collect"} /\ epc' \in {"wait", "top"}
  BY DEF EngSoftReset, EngCollect, Goto_e
<1>3. \A s \in Slots : (st[s].place = "free" <=> sess[s].place = "free") /\ st[s].done = sess[s].done
  <2>1. CASE st = sess
    BY <2>1
  <2>2. CASE st = ParkAll
    BY <2>2, ParkAllKeeps DEF LoanInv
  <2> QED
    BY <2>1, <2>2
<1> DEFINE F == {s \in Slots : MayFree(st[s])}
<1>4. /\ sess' = [s \in Slots |-> IF s \in F THEN Blank ELSE st[s]]
      /\ count' = count - Cardinality(F)
  BY <1>1 DEF udp_graveyard_collect
<1>5. F \subseteq Alloc
  BY <1>3 DEF MayFree, Alloc
<1> HIDE DEF F
<1>6. Alloc' = Alloc \ F
  BY <1>3, <1>4 DEF Alloc, Blank
<1>7. /\ Cardinality(Alloc \ F) = Cardinality(Alloc) - Cardinality(Alloc \cap F)
      /\ Cardinality(F) \in Nat
  <2>1. IsFiniteSet(F)
    BY <1>5, AllocFinite, FS_Subset
  <2> QED
    BY <2>1, AllocFinite, FS_Difference, FS_CardinalityType
<1>8. Alloc \cap F = F
  BY <1>5
<1>9. IsFiniteSet(Alloc \ F)
  BY AllocFinite, FS_Subset
<1>10. Cardinality(Alloc \ F) \in Nat
  BY <1>9, FS_CardinalityType
<1>11. count = Cardinality(Alloc)
  BY <1>2 DEF Books, Counted
<1>12. count' = Cardinality(Alloc') /\ count' <= MaxUdp /\ count' \in Nat
  <2>1. Cardinality(Alloc \ F) = Cardinality(Alloc) - Cardinality(F)
    BY <1>7, <1>8
  <2>2. count' = Cardinality(Alloc \ F)
    BY <1>4, <1>11, <2>1
  <2>3. count <= MaxUdp /\ count \in Nat /\ MaxUdp \in Nat
    BY UdpSessAssumption DEF Books, Counted
  <2>4. count' <= MaxUdp
    BY <1>4, <1>7, <2>3
  <2> QED
    BY <1>6, <1>10, <2>2, <2>4
<1>13. InUse' = InUse
  BY OthersKeep, EngineLoans DEF Others, EngineStep
<1>14. Finishers'
  <2>1. \A s \in Slots : OnLoan(s)' => OnLoan(s)
    BY <1>3, <1>4 DEF OnLoan, Blank
  <2> QED
    BY <1>13, <2>1 DEF Books, Finishers
<1> QED
  BY <1>2, <1>12, <1>14 DEF Books, Counted, AllGone

\* The shutdown: what is left is in the hash or done.
LEMMA JoinBooks ==
  ASSUME LoanInv, Books, EngJoin
  PROVE  Books'
<1> DEFINE F == {s \in Slots : InHash(s) \/ MayFree(sess[s])}
           C == {s \in F : ~InHash(s)}
<1>1. /\ sess' = [s \in Slots |-> IF s \in F THEN Blank ELSE sess[s]]
      /\ count' = count - Cardinality(C) /\ epc = "join" /\ epc' = "stopped" /\ wk' = wk
      /\ \A w \in Workers : wk[w].pc = "exited"
  BY DEF EngJoin, Goto_e, hsVars, At
<1>2. InUse = {}
  BY <1>1, NobodyLeft
<1>3. Alloc \subseteq F
  <2>1. \A s \in Alloc : s \in Slots /\ sess[s].done
    BY <1>2 DEF Alloc, Books, Finishers, OnLoan, LoanInv, Typed, Session
  <2>2. \A s \in Alloc : sess[s].place \in {"hash", "grave"}
    BY DEF Alloc, LoanInv, Typed, Session
  <2> QED
    BY <2>1, <2>2 DEF InHash, MayFree
<1>4. C \subseteq Alloc
  BY DEF Alloc, MayFree
<1> HIDE DEF F, C
<1>5. Alloc' = {}
  BY <1>1, <1>3 DEF Alloc, Blank
<1>6. Cardinality(C) \in Nat /\ Cardinality(C) <= Cardinality(Alloc)
  <2>1. IsFiniteSet(C) /\ Cardinality(C) <= Cardinality(Alloc)
    BY <1>4, AllocFinite, FS_Subset
  <2> QED
    BY <2>1, FS_CardinalityType
<1>7. count = Cardinality(Alloc)
  BY <1>1 DEF Books, Counted
<1>8. count' <= MaxUdp /\ count' \in Nat
  BY <1>1, <1>6, <1>7, AllocFinite, UdpSessAssumption DEF Books, Counted
<1>9. Finishers'
  BY <1>5 DEF Finishers, OnLoan, Alloc
<1> QED
  BY <1>1, <1>5, <1>8, <1>9 DEF Books, Counted, AllGone

LEMMA BooksNext == LoanInv /\ Books /\ [Next]_vars => Books'
<1> SUFFICES ASSUME LoanInv, Books, [Next]_vars PROVE Books'
  OBVIOUS
<1>1. CASE Others /\ ~(EngSoftReset \/ EngCollect \/ EngJoin)
  <2>1. /\ UNCHANGED <<queue, wk, count>> /\ InUse' = InUse /\ \A s \in Slots : Kept(s)
    BY <1>1, OthersKeep, EngineLoans
  <2>2. epc' = "stopped" <=> epc = "stopped"
    BY <1>1 DEF Others, EngineStep, EngEvent, EngBuffer, EngForward, EngArm, EngTop, EngWait, EngTun,
       EngTunEnd, EngEventClosed, EngEventFatal, EngEventRead, EngEventFlush, EngShutdown, EngGc,
       EngNoGc, EngStopPool, Age, AskReset, Stop, Stopped, vars, Goto_e, Engine
  <2>3. \A s \in Slots : sess'[s].place = "free" <=> sess[s].place = "free"
    BY <2>1 DEF Kept
  <2>4. \A s \in Slots : OnLoan(s)' => OnLoan(s) /\ (s \in InUse => s \in InUse')
    BY <2>1 DEF Kept, OnLoan
  <2> QED
    BY <2>1, <2>2, <2>3, <2>4, KeptBooks
<1> QED
  BY <1>1, WorkerBooks, DatagramBooks, CollectBooks, JoinBooks DEF Next, Others

\* The count behind MAX_UDP_SESSIONS is that of the sessions not freed yet,
\* and a stop leaves no session, socket or registration behind
\* (udp_graveyard_collect, udp_shutdown_collect, hs_pool_stop).
THEOREM BooksBalanceHolds ==
  ASSUME "close_early" \notin Hard
  PROVE  Spec => []BooksBalance
<1>1. UdpInv /\ Books => BooksBalance
  <2> SUFFICES ASSUME UdpInv, Books PROVE BooksBalance
    OBVIOUS
  <2>1. count \in 0..MaxUdp
    BY UdpSessAssumption DEF Books, Counted
  <2>2. TypeOK
    BY <2>1 DEF TypeOK, UdpInv, LoanInv, Typed, Wk
  <2>3. CountExact
    BY DEF Books, Counted, CountExact
  <2>4. ASSUME epc = "stopped"
        PROVE  Alloc = {} /\ queue = <<>> /\ \A f \in Fds : owner[f] = None /\ reg[f] = None
    <3>1. Alloc = {} /\ \A w \in Workers : wk[w].pc = "exited"
      BY <2>4 DEF Books, AllGone
    <3>2. queue = <<>>
      BY <3>1, UdpSessAssumption DEF UdpInv, LoanInv, LastOut
    <3>3. \A s \in Slots : sess[s].cfd = None /\ sess[s].rfd = None
      BY <3>1 DEF Alloc, UdpInv, FreeIsBlank, Blank
    <3>4. \A w \in Workers : wk[w].job = None
      BY <3>1 DEF UdpInv, LoanInv, JobPlaces, Job
    <3>5. \A s \in Slots, f \in Fds : ~Held(s, f)
      BY <3>3, <3>4, UdpSessAssumption DEF Held
    <3>6. \A f \in Fds : owner[f] = None
      BY <3>5 DEF UdpInv, Owned, LoanInv, Typed
    <3>7. \A f \in Fds : reg[f] # None => reg[f].s \in Slots
      BY DEF UdpInv, LoanInv, Typed
    <3>8. \A f \in Fds : reg[f] = None
      BY <3>3, <3>7, UdpSessAssumption DEF UdpInv, Registered
    <3> QED
      BY <3>1, <3>2, <3>6, <3>8
  <2> QED
    BY <2>2, <2>3, <2>4 DEF BooksBalance, CleanStop
<1> QED
  BY <1>1, BooksInit, BooksNext, LoanInvariance, UdpInvariance, PTL DEF Spec


-----------------------------------------------------------------------------
(***************************************************************************)
(* A UDP session that is in use works in both directions, for any number   *)
(* of slots, workers, descriptors and App endpoints.                       *)
(*                                                                         *)
(* What must agree when a worker hands its session over is spread over the *)
(* session (state, tx_len, tx_armed, its sockets), epoll, the worker's own *)
(* copies and the engine's packet in hand.  The worker holds no lock while *)
(* it registers the sockets; that the engine leaves the session alone in   *)
(* these windows is what Hard = {} says, and UdpPend, UdpEarly and their   *)
(* variants show what happens otherwise.                                   *)
(***************************************************************************)

\* EPOLLOUT is registered for the stream of session r.
Out(r, R) == r.cfd # None /\ R[r.cfd] # None /\ R[r.cfd].out

\* Its sockets can wake the engine.
Ready(r, R) == /\ r.state = 1 /\ (r.cfd # None \/ r.rfd # None)
               /\ r.cfd # None => R[r.cfd] # None
               /\ r.rfd # None => R[r.rfd] # None

\* tx_armed is the truth, and frames that wait have an EPOLLOUT, or the
\* engine is about to ask for one: a.
Live(r, R, a) == /\ Ready(r, R)
                 /\ r.udp_tcp => /\ r.armed <=> Out(r, R)
                                 /\ r.tx > 0 => Out(r, R) \/ a

\* What a session is like, whoever has it in hand.
SessServes(r, R, a) ==
    /\ r.state = 1 => ~r.pend
    /\ r.tx > 0 => r.udp_tcp
    /\ r.udp_tcp => r.rfd = None
    /\ r.place = "hash" /\ r.done => Live(r, R, a)

Fresh(r) == ~r.armed /\ r.state = 0

\* What worker k has made of its session r at each place.
Prepared(k, r) ==
    /\ k.pc \in Early \cup {"take", "fwd", "state"} => Fresh(r)
    /\ k.pc \in Early \cup {"take", "fwd"} => r.tx = 0
    /\ k.pc \in {"fwd", "state"} => ~r.pend
    /\ k.pc \in {"ev", "addc"} => ~r.armed /\ r.state = 1
    /\ k.pc = "addc" => (k.flag <=> r.udp_tcp /\ r.tx > 0)

\* The sockets it has opened for it.
Equipped(k, r, R) ==
    /\ k.pc \in {"hs", "hs3", "rsock", "store"} \cup Copied => k.cfd # None
    /\ k.pc \in {"store"} \cup Copied => r.udp_tcp \/ k.rfd # None
    /\ k.pc = "addr" => r.state = 1 /\ ~r.udp_tcp /\ R[k.cfd] # None

\* Registered, but tx_armed is not yet set.
NotYetArmed(k, r, R) ==
    k.pc = "armed" =>
        /\ r.state = 1 /\ r.udp_tcp /\ ~r.armed
        /\ r.place = "hash" => r.cfd # None
        /\ r.cfd # None => R[r.cfd] # None /\ (R[r.cfd].out <=> r.tx > 0)

WorkServes(k, r, R, a) ==
    /\ Prepared(k, r) /\ Equipped(k, r, R) /\ NotYetArmed(k, r, R)
    /\ k.pc = "done" /\ r.place = "hash" => Live(r, R, a)
    /\ a => k.pc \in {"done", "failc", "failr", "unlink"}

\* A frame was appended to the queue of s, and EPOLLOUT not yet asked for.
Arming(s) == epc = "arm" /\ cur = s

\* A session in the queue is as it was created, but for what is buffered.
Waits(s) == Fresh(sess[s]) /\ sess[s].tx = 0 /\ ~Arming(s)

ServeInv ==
    /\ \A s \in Slots : SessServes(sess[s], reg, Arming(s))
    /\ \A w \in Workers : Job(w) # None => WorkServes(wk[w], sess[Job(w)], reg, Arming(Job(w)))
    /\ \A i \in 1..Len(queue) : Waits(queue[i])
    /\ OutIsArmed

-----------------------------------------------------------------------------
(* Records that look the same.                                             *)

\* r2 is r in all that counts, except that it may be parked.
Alike(r2, r) ==
    /\ r2.state = r.state /\ r2.done = r.done /\ r2.udp_tcp = r.udp_tcp
    /\ r2.cfd = r.cfd /\ r2.rfd = r.rfd
    /\ r2.pend = r.pend /\ r2.tx = r.tx /\ r2.armed = r.armed
    /\ r2.place = r.place \/ r2.place = "grave"

\* Whose descriptors these are.
LEMMA Mine ==
  ASSUME UdpInv, NEW s \in Slots
  PROVE  /\ sess[s] \in Session
         /\ sess[s].cfd # None => sess[s].cfd \in Fds /\ owner[sess[s].cfd] = s
         /\ sess[s].rfd # None => sess[s].rfd \in Fds /\ owner[sess[s].rfd] = s
         /\ \A w \in Workers : Job(w) = s =>
               /\ wk[w].cfd # None => wk[w].cfd \in Fds /\ owner[wk[w].cfd] = s
               /\ wk[w].rfd # None => wk[w].rfd \in Fds /\ owner[wk[w].rfd] = s
         /\ \A f \in Fds : reg[f] # None /\ reg[f].s = s => owner[f] = s
<1>1. sess[s] \in Session /\ \A w \in Workers : wk[w] \in Wk
  BY DEF UdpInv, LoanInv, Typed
<1>2. \A f \in Fds : Held(s, f) => owner[f] = s
  BY DEF UdpInv, Owned
<1>3. \A f \in Fds : reg[f] # None /\ reg[f].s = s => Held(s, f)
  BY DEF UdpInv, Registered, Held
<1> QED
  BY <1>1, <1>2, <1>3 DEF Held, Job, Session, Wk

\* A session nobody touches, whose sockets stay in epoll as they are.
LEMMA SessStays ==
  ASSUME UdpInv, NEW s \in Slots, Alike(sess'[s], sess[s]),
         \A f \in Fds : owner[f] = s => reg'[f] = reg[f],
         Arming(s)' <=> Arming(s), SessServes(sess[s], reg, Arming(s))
  PROVE  SessServes(sess'[s], reg', Arming(s)')
  BY Mine DEF Alike, SessServes, Live, Ready, Out

LEMMA WorkStays ==
  ASSUME UdpInv, NEW w \in Workers, NEW s \in Slots, s = Job(w), wk'[w] = wk[w],
         Alike(sess'[s], sess[s]), \A f \in Fds : owner[f] = s => reg'[f] = reg[f],
         Arming(s)' <=> Arming(s), WorkServes(wk[w], sess[s], reg, Arming(s))
  PROVE  WorkServes(wk'[w], sess'[s], reg', Arming(s)')
<1>1. Prepared(wk'[w], sess'[s])
  BY DEF WorkServes, Prepared, Fresh, Alike
<1>2. Equipped(wk'[w], sess'[s], reg')
  <2>1. wk[w].pc = "addr" => wk[w].cfd # None
    BY DEF WorkServes, Equipped, Copied
  <2>2. wk[w].cfd # None => reg'[wk[w].cfd] = reg[wk[w].cfd]
    BY Mine
  <2> QED
    BY <2>1, <2>2 DEF WorkServes, Equipped, Alike
<1>3. NotYetArmed(wk'[w], sess'[s], reg')
  BY Mine DEF WorkServes, NotYetArmed, Alike
<1>4. wk'[w].pc = "done" /\ sess'[s].place = "hash" => Live(sess'[s], reg', Arming(s)')
  BY Mine DEF WorkServes, Alike, Live, Ready, Out
<1> QED
  BY <1>1, <1>2, <1>3, <1>4 DEF WorkServes

\* EPOLLOUT that is asked for on behalf of s is known.
OutsOf(s) == \A f \in Fds : reg[f] # None /\ reg[f].s = s /\ reg[f].out
                => sess[s].armed \/ WorkerAt(s, {"armed"})

LEMMA OutsTogether ==
  ASSUME Typed
  PROVE  OutIsArmed <=> \A s \in Slots : OutsOf(s)
<1>1. \A f \in Fds : reg[f] # None => reg[f].s \in Slots
  BY DEF Typed
<1> QED
  BY <1>1 DEF OutIsArmed, OutsOf

LEMMA OutsStay ==
  ASSUME UdpInv, UdpInv', NEW s \in Slots, sess'[s].armed = sess[s].armed,
         sess'[s].cfd = sess[s].cfd, sess'[s].rfd = sess[s].rfd,
         \A f \in Fds : owner[f] = s => reg'[f] = reg[f],
         \A w \in Workers : Job(w) = s => wk'[w] = wk[w], OutsOf(s)
  PROVE  OutsOf(s)'
<1>1. ASSUME NEW f \in Fds, reg'[f] # None, reg'[f].s = s, reg'[f].out
      PROVE  sess'[s].armed \/ WorkerAt(s, {"armed"})'
  <2>1. sess'[s].cfd = f \/ sess'[s].rfd = f
    BY <1>1 DEF UdpInv, Registered
  <2>2. owner[f] = s
    BY <2>1, Mine, UdpSessAssumption
  <2>3. reg[f] # None /\ reg[f].s = s /\ reg[f].out
    BY <1>1, <2>2
  <2>4. sess[s].armed \/ WorkerAt(s, {"armed"})
    BY <2>3 DEF OutsOf
  <2>5. WorkerAt(s, {"armed"}) => WorkerAt(s, {"armed"})'
    BY DEF WorkerAt, Job
  <2> QED
    BY <2>4, <2>5
<1> QED
  BY <1>1 DEF OutsOf

-----------------------------------------------------------------------------
(* What a step has to say for itself.                                      *)

LEMMA ServeInit == Init => ServeInv
<1> SUFFICES ASSUME Init PROVE ServeInv
  OBVIOUS
<1>1. \A s \in Slots : sess[s] = Blank /\ SessServes(Blank, reg, Arming(s))
  BY DEF Init, Blank, SessServes
<1>2. \A w \in Workers : Job(w) = None
  BY DEF Init, Idle, Job
<1>3. OutIsArmed
  BY DEF Init, OutIsArmed
<1> QED
  BY <1>1, <1>2, <1>3 DEF Init, ServeInv

\* A worker at work disturbs only its session.
LEMMA WorkStep ==
  ASSUME UdpInv, UdpInv', ServeInv, NEW w \in Workers, Works(w), NEW j \in Slots, j = Job(w),
         \A f \in Fds : owner[f] # j => reg'[f] = reg[f],
         SessServes(sess'[j], reg', Arming(j)),
         WorkServes(wk'[w], sess'[j], reg', Arming(j)), OutsOf(j)'
  PROVE  ServeInv'
<1>1. /\ UNCHANGED <<count, queue, poolOn, epc, cur, batch>>
      /\ \A v \in Workers \ {w} : wk'[v] = wk[v]
      /\ wk'[w].job = j
      /\ \A s \in Slots \ {j} : sess'[s] = sess[s]
  BY DEF Works, Engine
<1>2. \A s \in Slots : Arming(s)' <=> Arming(s)
  BY <1>1 DEF Arming
<1>3. \A s \in Slots \ {j} : Alike(sess'[s], sess[s])
  BY <1>1 DEF Alike
<1>4. \A s \in Slots \ {j}, f \in Fds : owner[f] = s => reg'[f] = reg[f]
  OBVIOUS
<1>5. ASSUME NEW s \in Slots PROVE SessServes(sess[s], reg, Arming(s))'
  <2>1. CASE s = j
    BY <1>2, <2>1 DEF Arming
  <2>2. CASE s # j
    BY <1>2, <1>3, <1>4, <2>2, SessStays DEF ServeInv
  <2> QED
    BY <2>1, <2>2
<1>6. ASSUME NEW v \in Workers, Job(v)' # None
      PROVE  WorkServes(wk[v], sess[Job(v)], reg, Arming(Job(v)))'
  <2>1. CASE v = w
    BY <1>1, <1>2, <2>1 DEF Job, Arming
  <2>2. CASE v # w
    <3>1. wk'[v] = wk[v] /\ Job(v) # None /\ Job(v) \in Slots /\ Job(v) # j
      BY <1>1, <1>6, <2>2 DEF Job, UdpInv, LoanInv, Typed, Wk, Loans
    <3>2. WorkServes(wk[v], sess[Job(v)], reg, Arming(Job(v)))
      BY <3>1 DEF ServeInv
    <3> QED
      <4>1. PICK s \in Slots \ {j} : s = Job(v)
        BY <3>1
      <4>2. WorkServes(wk'[v], sess'[s], reg', Arming(s)')
        BY <1>2, <1>3, <1>4, <3>1, <3>2, <4>1, WorkStays
      <4> QED
        BY <3>1, <4>1, <4>2 DEF Job, Arming
  <2> QED
    BY <2>1, <2>2
<1>7. \A i \in 1..Len(queue) : queue[i] \in Slots /\ queue[i] # j
  BY DEF UdpInv, LoanInv, Typed, Loans, Job
<1>8. ASSUME NEW i \in 1..Len(queue)' PROVE Waits(queue[i])'
  BY <1>1, <1>7, <1>8 DEF ServeInv, Waits, Arming
<1>9. ASSUME NEW s \in Slots PROVE OutsOf(s)'
  <2>1. CASE s = j
    BY <2>1
  <2>2. CASE s # j
    <3>1. OutsOf(s)
      BY OutsTogether DEF ServeInv, UdpInv, LoanInv
    <3>2. \A v \in Workers : Job(v) = s => wk'[v] = wk[v]
      BY <1>1, <2>2
    <3>3. sess'[s] = sess[s]
      BY <1>1, <2>2
    <3> QED
      BY <1>4, <2>2, <3>1, <3>2, <3>3, OutsStay
  <2> QED
    BY <2>1, <2>2
<1>10. OutIsArmed'
  <2>1. \A f \in Fds : reg'[f] # None => reg'[f].s \in Slots
    BY DEF UdpInv, LoanInv, Typed
  <2> QED
    BY <1>9, <2>1 DEF OutIsArmed, OutsOf
<1> QED
  BY <1>5, <1>6, <1>8, <1>10 DEF ServeInv

\* The engine disturbs the sessions in C and parks others at most.
LEMMA EngineServes ==
  ASSUME UdpInv, UdpInv', ServeInv, UNCHANGED <<queue, wk>>, NEW C \in SUBSET Slots,
         \A s \in Slots \ C : Alike(sess'[s], sess[s]) /\ (Arming(s)' <=> Arming(s)),
         \A f \in Fds : owner[f] \notin C => reg'[f] = reg[f],
         \A s \in C : SessServes(sess'[s], reg', Arming(s)') /\ OutsOf(s)',
         \A w \in Workers : Job(w) \in C =>
            WorkServes(wk[w], sess'[Job(w)], reg', Arming(Job(w))'),
         \A i \in 1..Len(queue) : queue[i] \in C =>
            Fresh(sess'[queue[i]]) /\ sess'[queue[i]].tx = 0 /\ ~Arming(queue[i])'
  PROVE  ServeInv'
<1>1. \A s \in Slots \ C, f \in Fds : owner[f] = s => reg'[f] = reg[f]
  OBVIOUS
<1>2. ASSUME NEW s \in Slots PROVE SessServes(sess[s], reg, Arming(s))'
  <2>1. CASE s \in C
    BY <2>1
  <2>2. CASE s \notin C
    BY <1>1, <2>2, SessStays DEF ServeInv
  <2> QED
    BY <2>1, <2>2
<1>3. ASSUME NEW v \in Workers, Job(v)' # None
      PROVE  WorkServes(wk[v], sess[Job(v)], reg, Arming(Job(v)))'
  <2>1. /\ wk'[v] = wk[v] /\ Job(v) \in Slots
        /\ WorkServes(wk[v], sess[Job(v)], reg, Arming(Job(v)))
    BY <1>3 DEF Job, UdpInv, LoanInv, Typed, Wk, ServeInv
  <2>2. PICK s \in Slots : s = Job(v)
    BY <2>1
  <2>3. CASE s \in C
    BY <2>1, <2>2, <2>3 DEF Job
  <2>4. CASE s \notin C
    <3>1. WorkServes(wk'[v], sess'[s], reg', Arming(s)')
      BY <1>1, <2>1, <2>2, <2>4, WorkStays
    <3> QED
      BY <2>1, <2>2, <3>1 DEF Job
  <2> QED
    BY <2>3, <2>4
<1>4. ASSUME NEW i \in 1..Len(queue)' PROVE Waits(queue[i])'
  <2>1. i \in 1..Len(queue) /\ queue' = queue /\ queue[i] \in Slots
    BY DEF UdpInv, LoanInv, Typed
  <2>2. CASE queue[i] \in C
    BY <2>1, <2>2 DEF Waits
  <2>3. CASE queue[i] \notin C
    <3>1. Waits(queue[i])
      BY <2>1 DEF ServeInv
    <3>2. PICK s \in Slots \ C : s = queue[i]
      BY <2>1, <2>3
    <3> QED
      BY <2>1, <3>1, <3>2 DEF Waits, Alike, Fresh, Arming
  <2> QED
    BY <2>2, <2>3
<1>6. ASSUME NEW s \in Slots PROVE OutsOf(s)'
  <2>1. CASE s \in C
    BY <2>1
  <2>2. CASE s \notin C
    <3>1. OutsOf(s)
      BY OutsTogether DEF ServeInv, UdpInv, LoanInv
    <3> QED
      BY <1>1, <2>2, <3>1, OutsStay DEF Alike
  <2> QED
    BY <2>1, <2>2
<1>7. OutIsArmed'
  <2>1. \A f \in Fds : reg'[f] # None => reg'[f].s \in Slots
    BY DEF UdpInv, LoanInv, Typed
  <2> QED
    BY <1>6, <2>1 DEF OutIsArmed, OutsOf
<1> QED
  BY <1>2, <1>3, <1>4, <1>7 DEF ServeInv

-----------------------------------------------------------------------------
(* The workers.                                                            *)

\* A worker and its session, which is not done.
LEMMA AtHand ==
  ASSUME UdpInv, ServeInv, NEW w \in Workers, NEW j \in Slots, j = Job(w)
  PROVE  /\ wk[w] \in Wk /\ sess[j] \in Session /\ ShapeOf(wk[w], sess[j]) /\ ~sess[j].done
         /\ SessServes(sess[j], reg, Arming(j)) /\ WorkServes(wk[w], sess[j], reg, Arming(j))
         /\ OutsOf(j) /\ \A P : WorkerAt(j, P) <=> wk[w].pc \in P
<1>1. wk[w] \in Wk /\ sess[j] \in Session /\ ShapeOf(wk[w], sess[j])
  BY JobHolds DEF Job
<1>2. ~sess[j].done /\ \A v \in Workers : Job(v) = j => v = w
  BY UdpSessAssumption DEF UdpInv, LoanInv, Loans, OnLoan
<1>3. SessServes(sess[j], reg, Arming(j)) /\ WorkServes(wk[w], sess[j], reg, Arming(j))
  BY UdpSessAssumption DEF ServeInv
<1>4. OutsOf(j)
  BY OutsTogether DEF ServeInv, UdpInv, LoanInv
<1>5. \A P : WorkerAt(j, P) <=> wk[w].pc \in P
  BY <1>2 DEF WorkerAt
<1> QED
  BY <1>1, <1>2, <1>3, <1>4, <1>5

\* Nothing is asked of epoll that was not before.
LEMMA OutsShrink ==
  ASSUME UdpInv, ServeInv, NEW w \in Workers, NEW j \in Slots, j = Job(w),
         wk[w].pc # "armed", sess'[j].armed = sess[j].armed,
         \A f \in Fds : reg'[f] # None /\ reg'[f].s = j /\ reg'[f].out =>
            reg[f] # None /\ reg[f].s = j /\ reg[f].out
  PROVE  OutsOf(j)'
<1>1. OutsOf(j) /\ ~WorkerAt(j, {"armed"})
  BY AtHand
<1> QED
  BY <1>1 DEF OutsOf

LEMMA AtWorkServes ==
  ASSUME UdpInv, ServeInv, NEW w \in Workers, AtWork(w), NEW j \in Slots, j = Job(w)
  PROVE  ServeInv'
<1> DEFINE k == wk[w]
           r == sess[j]
           a == Arming(j)
<1>1. UdpInv' /\ Works(w)
  BY AtWorkInv, AtWorkWorks DEF UdpInv, LoanInv
<1>2. /\ k \in Wk /\ r \in Session /\ ShapeOf(k, r) /\ ~r.done
      /\ SessServes(r, reg, a) /\ WorkServes(k, r, reg, a)
      /\ OutsOf(j) /\ \A P : WorkerAt(j, P) <=> wk[w].pc \in P
  BY <1>1, AtHand
<1>3. /\ wk \in [Workers -> Wk] /\ sess \in [Slots -> Session]
      /\ reg \in [Fds -> [s: Slots, sock: {"control", "relay"}, out: BOOLEAN] \cup {None}]
  BY DEF UdpInv, LoanInv, Typed
<1>4. /\ k.cfd # None => k.cfd \in Fds /\ owner[k.cfd] = j
      /\ k.rfd # None => k.rfd \in Fds /\ owner[k.rfd] = j
  BY <1>1, Mine
<1>5. (Arming(j)' <=> a) /\ wk'[w].job = j
  BY <1>1 DEF Works, Engine, Arming
\* A step that leaves epoll alone, or takes something from it.
<1>6. ASSUME wk[w].pc # "armed", \A f \in Fds : reg'[f] = reg[f] \/ (owner[f] = j /\ reg'[f] = None),
             sess'[j].armed = r.armed, sess'[j].done = r.done,
             sess'[j].state = 1 => ~sess'[j].pend,
             sess'[j].tx > 0 => sess'[j].udp_tcp, sess'[j].udp_tcp => sess'[j].rfd = None,
             WorkServes(wk'[w], sess'[j], reg', a)
      PROVE  ServeInv'
  <2>1. SessServes(sess'[j], reg', a)
    BY <1>2, <1>6 DEF SessServes
  <2>2. OutsOf(j)'
    BY <1>1, <1>6, OutsShrink
  <2>3. \A f \in Fds : owner[f] # j => reg'[f] = reg[f]
    BY <1>6
  <2> HIDE DEF k, r
  <2> QED
    BY <1>1, <1>5, <1>6, <2>1, <2>2, <2>3, WorkStep
<1>7. ASSUME UNCHANGED reg PROVE \A f \in Fds : reg'[f] = reg[f] \/ (owner[f] = j /\ reg'[f] = None)
  BY <1>7
<1>8. ASSUME UNCHANGED sess
      PROVE  /\ sess'[j].armed = r.armed /\ sess'[j].done = r.done
             /\ sess'[j].state = 1 => ~sess'[j].pend
             /\ sess'[j].tx > 0 => sess'[j].udp_tcp
             /\ sess'[j].udp_tcp => sess'[j].rfd = None
  BY <1>2, <1>8 DEF SessServes
<1> USE DEF Prepared, Equipped, NotYetArmed, WorkServes, Early, Copied, Fresh, At, fdVars
\* Giving up.
<1>9. ASSUME Goto(w, "failc"), UNCHANGED sess, k.pc \notin {"armed", "done", "failr", "unlink"},
             \A f \in Fds : reg'[f] = reg[f] \/ (owner[f] = j /\ reg'[f] = None)
      PROVE  ServeInv'
  <2>1. wk'[w].pc = "failc"
    BY <1>3, <1>9 DEF Goto, Wk
  <2>2. WorkServes(wk'[w], sess'[j], reg', a)
    BY <2>1
  <2> QED
    BY <1>6, <1>8, <1>9, <2>2
<1>10. ASSUME NEW next \in {"hs", "hs3"}, k.pc \in {"sock", "resock"}, RequestControl(w, next)
       PROVE  ServeInv'
  <2>1. CASE Goto(w, "failc") /\ UNCHANGED owner
    BY <1>7, <1>9, <1>10, <2>1 DEF RequestControl
  <2>2. ASSUME NEW f \in Fds, wk' = [wk EXCEPT ![w] = [@ EXCEPT !.cfd = f, !.pc = Onward(next)]]
        PROVE  ServeInv'
    <3>1. wk'[w].cfd = f /\ f # None /\ wk'[w].pc \in {next, "failc"}
      BY <1>2, <1>3, <2>2, UdpSessAssumption DEF Wk, Onward
    <3>2. WorkServes(wk'[w], sess'[j], reg', a)
      BY <1>2, <1>10, <3>1 DEF RequestControl
    <3> QED
      BY <1>6, <1>7, <1>8, <1>10, <3>2 DEF RequestControl
  <2> QED
    BY <1>10, <2>1, <2>2 DEF RequestControl
<1>11. CASE WSocket(w) \/ WResocket(w)
  BY <1>10, <1>11 DEF WSocket, WResocket
<1>12. CASE WRelay(w)
  <2>1. CASE Goto(w, "failc") /\ UNCHANGED owner
    BY <1>7, <1>9, <1>12, <2>1 DEF WRelay
  <2>2. ASSUME NEW f \in Fds, wk' = [wk EXCEPT ![w] = [@ EXCEPT !.rfd = f, !.pc = Onward("store")]]
        PROVE  ServeInv'
    <3>1. wk'[w].rfd = f /\ f # None /\ wk'[w].cfd = k.cfd /\ wk'[w].pc \in {"store", "failc"}
      BY <1>2, <1>3, <2>2, UdpSessAssumption DEF Wk, Onward
    <3>2. WorkServes(wk'[w], sess'[j], reg', a)
      BY <1>2, <1>12, <3>1 DEF WRelay
    <3> QED
      BY <1>6, <1>7, <1>8, <1>12, <3>2 DEF WRelay
  <2> QED
    BY <1>12, <2>1, <2>2 DEF WRelay
<1>13. CASE WHandshake(w)
  <2>1. CASE Goto(w, "failc") /\ UNCHANGED sess
    BY <1>7, <1>9, <1>13, <2>1 DEF WHandshake
  <2>2. CASE Goto(w, "rsock") /\ UNCHANGED sess
    <3>1. wk'[w].pc = "rsock" /\ wk'[w].cfd = k.cfd
      BY <1>2, <1>3, <2>2 DEF Goto, Wk
    <3>2. WorkServes(wk'[w], sess'[j], reg', a)
      BY <1>2, <1>13, <2>2, <3>1 DEF WHandshake
    <3> QED
      BY <1>6, <1>7, <1>8, <1>13, <2>2, <3>2 DEF WHandshake
  <2>3. CASE Goto(w, "store") /\ sess' = [sess EXCEPT ![j].udp_tcp = TRUE]
    <3>1. wk'[w].pc = "store" /\ wk'[w].cfd = k.cfd /\ k.pc = "hs"
      BY <1>2, <1>3, <1>13, <2>3 DEF Goto, Wk, WHandshake
    <3>2. sess'[j] = [r EXCEPT !.udp_tcp = TRUE]
      BY <1>1, <1>3, <2>3
    <3>3. /\ sess'[j].udp_tcp /\ sess'[j].armed = r.armed /\ sess'[j].done = r.done
          /\ sess'[j].state = r.state /\ sess'[j].tx = r.tx /\ sess'[j].rfd = r.rfd
          /\ sess'[j].pend = r.pend
      BY <1>2, <3>2 DEF Session
    <3>4. r.rfd = None
      BY <1>2, <3>1 DEF ShapeOf, Unset
    <3>5. WorkServes(wk'[w], sess'[j], reg', a)
      BY <1>2, <3>1, <3>3
    <3>6. UNCHANGED reg
      BY <1>13 DEF WHandshake
    <3>7. r.state = 1 => ~r.pend
      BY <1>2 DEF SessServes
    <3> HIDE DEF WorkServes
    <3> QED
      BY <1>6, <1>7, <3>1, <3>3, <3>4, <3>5, <3>6, <3>7
  <2> QED
    BY <1>13, <2>1, <2>2, <2>3 DEF WHandshake
<1>14. CASE WRefused(w)
  <2>1. /\ wk'[w] = [k EXCEPT !.cfd = None, !.pc = "resock"] /\ UNCHANGED sess /\ k.pc = "hs"
        /\ \A f \in Fds : reg'[f] = IF f = k.cfd THEN None ELSE reg[f]
    BY <1>3, <1>14 DEF WRefused, Release
  <2>2. wk'[w].pc = "resock"
    BY <1>2, <2>1 DEF Wk
  <2>3. WorkServes(wk'[w], sess'[j], reg', a)
    BY <1>2, <2>1, <2>2
  <2>4. \A f \in Fds : reg'[f] = reg[f] \/ (owner[f] = j /\ reg'[f] = None)
    BY <1>4, <2>1, UdpSessAssumption
  <2> QED
    BY <1>6, <1>8, <2>1, <2>3, <2>4
<1>15. CASE WStore(w)
  <2>1. CASE Goto(w, "failc") /\ UNCHANGED sess
    BY <1>7, <1>9, <1>15, <2>1 DEF WStore
  <2>2. CASE Goto(w, "take") /\ sess' = [sess EXCEPT ![j].cfd = k.cfd, ![j].rfd = k.rfd]
    <3>1. wk'[w].pc = "take" /\ wk'[w].cfd = k.cfd /\ wk'[w].rfd = k.rfd /\ k.pc = "store"
          /\ UNCHANGED reg
      BY <1>2, <1>3, <1>15, <2>2 DEF Goto, Wk, WStore
    <3>2. sess'[j] = [r EXCEPT !.cfd = k.cfd, !.rfd = k.rfd]
      BY <1>1, <1>3, <2>2
    <3>3. /\ sess'[j].udp_tcp = r.udp_tcp /\ sess'[j].armed = r.armed /\ sess'[j].done = r.done
          /\ sess'[j].state = r.state /\ sess'[j].tx = r.tx /\ sess'[j].rfd = k.rfd
          /\ sess'[j].pend = r.pend
      BY <1>2, <3>2 DEF Session
    <3>4. r.udp_tcp => k.rfd = None
      BY <1>2, <3>1 DEF ShapeOf, Framed
    <3>5. WorkServes(wk'[w], sess'[j], reg', a)
      BY <1>2, <3>1, <3>3
    <3>6. (r.state = 1 => ~r.pend) /\ (r.tx > 0 => r.udp_tcp)
      BY <1>2 DEF SessServes
    <3> HIDE DEF WorkServes
    <3> QED
      BY <1>6, <1>7, <3>1, <3>3, <3>4, <3>5, <3>6
  <2> QED
    BY <1>15, <2>1, <2>2 DEF WStore
<1>16. CASE WTakePend(w)
  <2>1. /\ wk'[w].pc = "fwd" /\ wk'[w].cfd = k.cfd /\ wk'[w].rfd = k.rfd /\ k.pc = "take"
        /\ UNCHANGED reg /\ sess'[j] = [r EXCEPT !.pend = FALSE]
    <3>1. /\ wk'[w] = [k EXCEPT !.pc = "fwd", !.flag = r.pend] /\ k.pc = "take" /\ UNCHANGED reg
          /\ sess'[j] = [r EXCEPT !.pend = FALSE]
      BY <1>1, <1>3, <1>16 DEF WTakePend
    <3> QED
      BY <1>2, <3>1 DEF Wk
  <2>2. /\ sess'[j].udp_tcp = r.udp_tcp /\ sess'[j].armed = r.armed /\ sess'[j].done = r.done
        /\ sess'[j].state = r.state /\ sess'[j].tx = r.tx /\ sess'[j].rfd = r.rfd
        /\ ~sess'[j].pend
    BY <1>2, <2>1 DEF Session
  <2>3. WorkServes(wk'[w], sess'[j], reg', a)
    BY <1>2, <2>1, <2>2
  <2>4. (r.tx > 0 => r.udp_tcp) /\ (r.udp_tcp => r.rfd = None)
    BY <1>2 DEF SessServes
  <2> HIDE DEF WorkServes
  <2> QED
    BY <1>6, <1>7, <2>1, <2>2, <2>3, <2>4
<1>17. CASE WForward(w)
  <2>1. /\ wk'[w].pc = "state" /\ wk'[w].cfd = k.cfd /\ wk'[w].rfd = k.rfd /\ k.pc = "fwd"
        /\ UNCHANGED reg /\ (sess'[j] = r \/ (r.udp_tcp /\ sess'[j] = [r EXCEPT !.tx = 1]))
    BY <1>1, <1>2, <1>3, <1>17 DEF WForward, Goto, Wk
  <2>2. /\ sess'[j].udp_tcp = r.udp_tcp /\ sess'[j].armed = r.armed /\ sess'[j].done = r.done
        /\ sess'[j].state = r.state /\ sess'[j].rfd = r.rfd /\ sess'[j].pend = r.pend
        /\ sess'[j].tx = r.tx \/ r.udp_tcp
    BY <1>2, <2>1 DEF Session
  <2>3. WorkServes(wk'[w], sess'[j], reg', a)
    BY <1>2, <2>1, <2>2
  <2>4. (r.state = 1 => ~r.pend) /\ (r.tx > 0 => r.udp_tcp) /\ (r.udp_tcp => r.rfd = None)
    BY <1>2 DEF SessServes
  <2>5. k.pc = "fwd" /\ UNCHANGED reg
    BY <1>17 DEF WForward
  <2> HIDE DEF WorkServes
  <2> QED
    BY <1>6, <1>7, <2>2, <2>3, <2>4, <2>5
<1>18. CASE WState(w)
  <2>1. /\ wk'[w].pc = "ev" /\ wk'[w].cfd = k.cfd /\ wk'[w].rfd = k.rfd /\ k.pc = "state"
        /\ UNCHANGED reg /\ sess'[j] = [r EXCEPT !.state = 1, !.seen = "fresh"]
    BY <1>1, <1>2, <1>3, <1>18 DEF WState, Goto, Wk
  <2>2. /\ sess'[j].udp_tcp = r.udp_tcp /\ sess'[j].armed = r.armed /\ sess'[j].done = r.done
        /\ sess'[j].state = 1 /\ sess'[j].rfd = r.rfd /\ sess'[j].pend = r.pend
        /\ sess'[j].tx = r.tx
    BY <1>2, <2>1 DEF Session
  <2>3. WorkServes(wk'[w], sess'[j], reg', a) /\ ~r.pend
    BY <1>2, <2>1, <2>2
  <2>4. (r.tx > 0 => r.udp_tcp) /\ (r.udp_tcp => r.rfd = None)
    BY <1>2 DEF SessServes
  <2> HIDE DEF WorkServes
  <2> QED
    BY <1>6, <1>7, <2>1, <2>2, <2>3, <2>4
<1>19. CASE WEvents(w)
  <2>1. /\ wk'[w].pc = "addc" /\ wk'[w].cfd = k.cfd /\ wk'[w].rfd = k.rfd /\ k.pc = "ev"
        /\ UNCHANGED <<reg, sess>> /\ (wk'[w].flag <=> r.udp_tcp /\ r.tx > 0)
    <3>1. /\ wk'[w] = [k EXCEPT !.pc = "addc", !.flag = r.udp_tcp /\ r.tx > 0]
          /\ k.pc = "ev" /\ UNCHANGED <<reg, sess>>
      BY <1>3, <1>19 DEF WEvents
    <3> QED
      BY <1>2, <3>1 DEF Wk
  <2>2. WorkServes(wk'[w], sess'[j], reg', a)
    BY <1>2, <2>1
  <2> HIDE DEF WorkServes
  <2> QED
    BY <1>6, <1>7, <1>8, <2>1, <2>2
\* The control socket is in epoll, or the stream.
<1>20. CASE WAddControl(w)
  <2> DEFINE f == k.cfd
             e == [s |-> j, sock |-> IF r.udp_tcp THEN "relay" ELSE "control", out |-> k.flag]
  <2>1. CASE Goto(w, "failc") /\ UNCHANGED reg
    BY <1>7, <1>9, <1>20, <2>1 DEF WAddControl
  <2>2. CASE /\ reg' = [reg EXCEPT ![f] = e]
             /\ wk' = IF r.udp_tcp THEN [wk EXCEPT ![w].pc = "armed", ![w].cfd = None]
                                   ELSE [wk EXCEPT ![w].pc = "addr"]
    <3>1. /\ k.pc = "addc" /\ UNCHANGED sess /\ f # None /\ f \in Fds /\ r.cfd = f /\ r.rfd = k.rfd
          /\ owner[f] = j /\ ~a /\ ~r.armed /\ r.state = 1 /\ (k.flag <=> r.udp_tcp /\ r.tx > 0)
          /\ (r.udp_tcp \/ k.rfd # None)
      BY <1>2, <1>4, <1>20 DEF WAddControl, ShapeOf, Same
    <3>2. reg'[f] = e /\ \A g \in Fds : g # f => reg'[g] = reg[g]
      BY <1>3, <2>2, <3>1
    <3>3. e # None
      BY <1>2, <3>1, NoneIsNoEvent DEF Wk
    <3>4. e.s = j /\ e.out = k.flag
      OBVIOUS
    <3>5. /\ wk'[w].pc = IF r.udp_tcp THEN "armed" ELSE "addr"
          /\ ~r.udp_tcp => wk'[w].cfd = f /\ wk'[w].rfd = k.rfd
      BY <1>2, <1>3, <2>2 DEF Wk
    <3> HIDE DEF e, f
    <3>6. WorkServes(wk'[w], sess'[j], reg', a)
      BY <1>2, <3>1, <3>2, <3>3, <3>4, <3>5
    <3>7. SessServes(sess'[j], reg', a)
      BY <1>2, <3>1 DEF SessServes
    <3>8. OutsOf(j)'
      <4>1. ASSUME NEW g \in Fds, reg'[g] # None, reg'[g].s = j, reg'[g].out
            PROVE  WorkerAt(j, {"armed"})'
        <5>1. CASE g = f
          <6>1. wk'[w].pc = "armed"
            BY <3>1, <3>2, <3>4, <3>5, <4>1, <5>1
          <6> QED
            BY <1>5, <6>1 DEF WorkerAt, Job
        <5>2. CASE g # f
          BY <1>2, <3>1, <3>2, <4>1, <5>2 DEF OutsOf
        <5> QED
          BY <5>1, <5>2
      <4> QED
        BY <4>1 DEF OutsOf
    <3>9. \A g \in Fds : owner[g] # j => reg'[g] = reg[g]
      BY <3>1, <3>2
    <3> HIDE DEF k, r, WorkServes
    <3> QED
      BY <1>1, <1>5, <3>6, <3>7, <3>8, <3>9, WorkStep
  <2> QED
    BY <1>20, <2>1, <2>2 DEF WAddControl
\* tx_armed is told what was registered.
<1>21. CASE WArmed(w)
  <2>1. /\ wk'[w].pc = "done" /\ k.pc = "armed" /\ UNCHANGED reg
        /\ sess'[j] = [r EXCEPT !.armed = @ \/ r.tx > 0]
    BY <1>1, <1>2, <1>3, <1>21 DEF WArmed, Goto, Wk
  <2>2. /\ sess'[j].udp_tcp = r.udp_tcp /\ (sess'[j].armed <=> r.armed \/ r.tx > 0)
        /\ sess'[j].done = r.done /\ sess'[j].place = r.place
        /\ sess'[j].state = r.state /\ sess'[j].tx = r.tx /\ sess'[j].rfd = r.rfd
        /\ sess'[j].cfd = r.cfd /\ sess'[j].pend = r.pend
    BY <1>2, <2>1 DEF Session
  <2>3. /\ r.state = 1 /\ r.udp_tcp /\ ~r.armed /\ (r.place = "hash" => r.cfd # None)
        /\ r.cfd # None => reg[r.cfd] # None /\ (reg[r.cfd].out <=> r.tx > 0)
        /\ r.rfd = None
    BY <1>2, <2>1 DEF SessServes
  <2>4. r.place = "hash" => Live(sess'[j], reg', a)
    BY <2>1, <2>2, <2>3 DEF Live, Ready, Out
  <2>5. WorkServes(wk'[w], sess'[j], reg', a)
    BY <2>1, <2>2, <2>4
  <2>6. SessServes(sess'[j], reg', a)
    BY <1>2, <2>2 DEF SessServes
  <2>7. OutsOf(j)'
    <3>1. ASSUME NEW f \in Fds, reg'[f] # None, reg'[f].s = j, reg'[f].out PROVE sess'[j].armed
      <4>1. r.cfd = f
        BY <1>1, <2>1, <2>3, <3>1, UdpSessAssumption DEF UdpInv, Registered
      <4> QED
        BY <2>1, <2>2, <2>3, <3>1, <4>1, UdpSessAssumption
    <3> QED
      BY <3>1 DEF OutsOf
  <2>8. \A g \in Fds : owner[g] # j => reg'[g] = reg[g]
    BY <2>1
  <2> HIDE DEF k, r, WorkServes
  <2> QED
    BY <1>1, <1>5, <2>5, <2>6, <2>7, <2>8, WorkStep
\* The relay socket too.
<1>22. CASE WAddRelay(w)
  <2> DEFINE f == k.rfd
             e == [s |-> j, sock |-> "relay", out |-> FALSE]
  <2>1. /\ k.pc = "addr" /\ UNCHANGED sess /\ k.cfd # None /\ owner[k.cfd] = j
        /\ r.state = 1 /\ ~r.udp_tcp /\ reg[k.cfd] # None
        /\ f # None /\ f \in Fds /\ owner[f] = j /\ f # k.cfd /\ r.cfd = k.cfd /\ r.rfd = f /\ ~a
    BY <1>2, <1>4, <1>22 DEF WAddRelay, ShapeOf, Same, Apart
  <2>2. CASE reg' = [reg EXCEPT ![k.cfd] = None] /\ Goto(w, "failc")
    <3>1. \A g \in Fds : reg'[g] = reg[g] \/ (owner[g] = j /\ reg'[g] = None)
      BY <1>3, <2>1, <2>2
    <3> QED
      BY <1>9, <2>1, <2>2, <3>1
  <2>3. CASE /\ reg' = [reg EXCEPT ![f] = e]
             /\ wk' = [wk EXCEPT ![w].pc = "done", ![w].cfd = None, ![w].rfd = None]
    <3>1. wk'[w].pc = "done"
      BY <1>2, <1>3, <2>3 DEF Wk
    <3>2. reg'[f] = e /\ \A g \in Fds : g # f => reg'[g] = reg[g]
      BY <1>3, <2>1, <2>3
    <3>3. e # None /\ e.out = FALSE
      <4>1. e \in [s: Slots, sock: {"control", "relay"}, out: BOOLEAN]
        OBVIOUS
      <4> QED
        BY <4>1, NoneIsNoEvent
    <3> HIDE DEF e, f
    <3>4. r.cfd \in Fds
      BY <1>4, <2>1
    <3>5. Live(sess'[j], reg', a)
      BY <2>1, <3>2, <3>3, <3>4 DEF Live, Ready
    <3>6. WorkServes(wk'[w], sess'[j], reg', a)
      BY <2>1, <3>1, <3>5
    <3>7. SessServes(sess'[j], reg', a)
      BY <1>2, <2>1 DEF SessServes
    <3>8. \A g \in Fds : reg'[g] # None /\ reg'[g].s = j /\ reg'[g].out =>
                            reg[g] # None /\ reg[g].s = j /\ reg[g].out
      BY <3>2, <3>3
    <3>9. OutsOf(j)'
      BY <1>1, <2>1, <3>8, OutsShrink
    <3>10. \A g \in Fds : owner[g] # j => reg'[g] = reg[g]
      BY <2>1, <3>2
    <3> HIDE DEF k, r, WorkServes
    <3> QED
      BY <1>1, <1>5, <3>6, <3>7, <3>9, <3>10, WorkStep
  <2> QED
    BY <1>22, <2>2, <2>3 DEF WAddRelay
<1>23. CASE WFailControl(w)
  <2>1. /\ wk'[w] = [k EXCEPT !.pc = "failr", !.cfd = None] /\ k.pc = "failc"
        /\ sess'[j] \in {r, [r EXCEPT !.cfd = None]}
        /\ \A f \in Fds : reg'[f] = IF f = k.cfd THEN None ELSE reg[f]
    BY <1>1, <1>3, <1>23 DEF WFailControl, Release
  <2>2. /\ sess'[j].udp_tcp = r.udp_tcp /\ sess'[j].armed = r.armed /\ sess'[j].done = r.done
        /\ sess'[j].state = r.state /\ sess'[j].tx = r.tx /\ sess'[j].rfd = r.rfd
        /\ sess'[j].pend = r.pend
    BY <1>2, <2>1 DEF Session
  <2>3. wk'[w].pc = "failr"
    BY <1>2, <2>1 DEF Wk
  <2>4. WorkServes(wk'[w], sess'[j], reg', a)
    BY <2>3
  <2>5. \A f \in Fds : reg'[f] = reg[f] \/ (owner[f] = j /\ reg'[f] = None)
    BY <1>4, <2>1, UdpSessAssumption
  <2>6. (r.state = 1 => ~r.pend) /\ (r.tx > 0 => r.udp_tcp) /\ (r.udp_tcp => r.rfd = None)
    BY <1>2 DEF SessServes
  <2> HIDE DEF WorkServes
  <2> QED
    BY <1>6, <2>1, <2>2, <2>4, <2>5, <2>6
<1>24. CASE WFailRelay(w)
  <2>1. /\ wk'[w] = [k EXCEPT !.pc = "unlink", !.rfd = None] /\ k.pc = "failr"
        /\ sess'[j] \in {r, [r EXCEPT !.rfd = None]}
        /\ \A f \in Fds : reg'[f] = IF f = k.rfd THEN None ELSE reg[f]
    BY <1>1, <1>3, <1>24 DEF WFailRelay, Release
  <2>2. /\ sess'[j].udp_tcp = r.udp_tcp /\ sess'[j].armed = r.armed /\ sess'[j].done = r.done
        /\ sess'[j].state = r.state /\ sess'[j].tx = r.tx /\ sess'[j].rfd \in {r.rfd, None}
        /\ sess'[j].pend = r.pend
    BY <1>2, <2>1 DEF Session
  <2>3. wk'[w].pc = "unlink"
    BY <1>2, <2>1 DEF Wk
  <2>4. WorkServes(wk'[w], sess'[j], reg', a)
    BY <2>3
  <2>5. \A f \in Fds : reg'[f] = reg[f] \/ (owner[f] = j /\ reg'[f] = None)
    BY <1>4, <2>1, UdpSessAssumption
  <2>6. (r.state = 1 => ~r.pend) /\ (r.tx > 0 => r.udp_tcp) /\ (r.udp_tcp => r.rfd = None)
    BY <1>2 DEF SessServes
  <2> HIDE DEF WorkServes
  <2> QED
    BY <1>6, <2>1, <2>2, <2>4, <2>5, <2>6
<1>25. CASE WUnlink(w)
  <2>1. /\ wk'[w].pc = "done" /\ k.pc = "unlink" /\ UNCHANGED reg
        /\ \/ r.place # "hash" /\ sess'[j] = r
           \/ sess'[j] = [r EXCEPT !.place = "grave"]
    BY <1>1, <1>2, <1>3, <1>25 DEF WUnlink, Goto, Wk, InHash
  <2>2. /\ sess'[j].udp_tcp = r.udp_tcp /\ sess'[j].armed = r.armed /\ sess'[j].done = r.done
        /\ sess'[j].state = r.state /\ sess'[j].tx = r.tx /\ sess'[j].rfd = r.rfd
        /\ sess'[j].pend = r.pend /\ sess'[j].place # "hash"
    BY <1>2, <2>1 DEF Session
  <2>3. WorkServes(wk'[w], sess'[j], reg', a)
    BY <2>1, <2>2
  <2>4. (r.state = 1 => ~r.pend) /\ (r.tx > 0 => r.udp_tcp) /\ (r.udp_tcp => r.rfd = None)
    BY <1>2 DEF SessServes
  <2> HIDE DEF WorkServes
  <2> QED
    BY <1>6, <1>7, <2>1, <2>2, <2>3, <2>4
<1> QED
  BY <1>11, <1>12, <1>13, <1>14, <1>15, <1>16, <1>17, <1>18, <1>19, <1>20, <1>21, <1>22, <1>23,
     <1>24, <1>25 DEF AtWork

-----------------------------------------------------------------------------
(* A session is created, taken from the queue and given back.              *)

\* The workers that have a session have it whatever the others do.
LEMMA OutsAt ==
  ASSUME OutIsArmed, UNCHANGED reg, \A s \in Slots : sess'[s].armed = sess[s].armed, Typed,
         \A w \in Workers : wk[w].pc = "armed" => wk'[w] = wk[w]
  PROVE  OutIsArmed'
<1>1. \A f \in Fds : reg[f] # None => reg[f].s \in Slots
  BY DEF Typed
<1> QED
  BY <1>1 DEF OutIsArmed, WorkerAt, Job

LEMMA TakeServes ==
  ASSUME UdpInv, ServeInv, NEW w \in Workers, WTake(w)
  PROVE  ServeInv'
<1> DEFINE k == [Idle EXCEPT !.pc = "sock", !.job = Head(queue)]
<1>1. /\ Head(queue) = queue[1] /\ Head(queue) \in Slots /\ Tail(queue) \in Seq(Slots)
      /\ Len(queue) \in Nat \ {0} /\ Len(Tail(queue)) = Len(queue) - 1
      /\ \A i \in 1..(Len(queue) - 1) : Tail(queue)[i] = queue[i + 1]
  BY QueueTail DEF WTake, UdpInv, LoanInv, Typed
<1>2. /\ wk[w].pc = "idle" /\ wk' = [wk EXCEPT ![w] = k] /\ queue' = Tail(queue)
      /\ UNCHANGED <<sess, reg, epc, cur>>
  BY DEF WTake, At, fdVars, Engine
<1>3. k.pc = "sock" /\ k.job = queue[1]
  BY <1>1 DEF Idle
<1> HIDE DEF k
<1>4. wk'[w] = k /\ \A v \in Workers \ {w} : wk'[v] = wk[v]
  BY <1>2 DEF UdpInv, LoanInv, Typed
<1>5. Waits(queue[1])
  BY <1>1 DEF ServeInv
<1>6. ASSUME NEW v \in Workers, Job(v)' # None
      PROVE  WorkServes(wk[v], sess[Job(v)], reg, Arming(Job(v)))'
  <2>1. CASE v = w
    BY <1>2, <1>3, <1>4, <1>5, <2>1 DEF Waits, WorkServes, Prepared, Equipped, NotYetArmed, Early,
       Copied, Job, Arming, Fresh
  <2>2. CASE v # w
    BY <1>2, <1>4, <1>6, <2>2 DEF ServeInv, Job, Arming
  <2> QED
    BY <2>1, <2>2
<1>7. ASSUME NEW i \in 1..Len(queue)' PROVE Waits(queue[i])'
  <2>1. i \in 1..(Len(queue) - 1) /\ i + 1 \in 1..Len(queue)
    BY <1>1, <1>2
  <2>2. queue'[i] = queue[i + 1] /\ Waits(queue[i + 1])
    BY <1>1, <1>2, <2>1 DEF ServeInv
  <2> QED
    BY <1>2, <2>2 DEF Waits, Arming
<1>8. OutIsArmed'
  BY <1>2, <1>4, OutsAt DEF ServeInv, UdpInv, LoanInv
<1>9. \A s \in Slots : SessServes(sess[s], reg, Arming(s))'
  BY <1>2 DEF ServeInv, Arming
<1> QED
  BY <1>6, <1>7, <1>8, <1>9 DEF ServeInv

LEMMA ExitServes ==
  ASSUME UdpInv, ServeInv, NEW w \in Workers, WExit(w)
  PROVE  ServeInv'
<1>1. /\ wk[w].pc = "idle" /\ UNCHANGED <<sess, queue, reg, epc, cur>>
      /\ wk'[w].job = wk[w].job /\ \A v \in Workers \ {w} : wk'[v] = wk[v]
  BY GotoWorks DEF WExit, At, fdVars, Engine, UdpInv, LoanInv, WPCs
<1>2. Job(w) = None
  BY <1>1 DEF UdpInv, LoanInv, JobPlaces
<1>3. OutIsArmed'
  BY <1>1, OutsAt DEF ServeInv, UdpInv, LoanInv
<1>4. \A v \in Workers : Job(v)' # None => WorkServes(wk[v], sess[Job(v)], reg, Arming(Job(v)))'
  BY <1>1, <1>2 DEF ServeInv, Job, Arming
<1>5. \A s \in Slots : SessServes(sess[s], reg, Arming(s))'
  BY <1>1 DEF ServeInv, Arming
<1> QED
  BY <1>1, <1>3, <1>4, <1>5 DEF ServeInv, Waits, Arming

LEMMA DoneServes ==
  ASSUME UdpInv, ServeInv, NEW w \in Workers, WDone(w), NEW j \in Slots, j = Job(w)
  PROVE  ServeInv'
<1>1. /\ wk[w].pc = "done" /\ sess' = [sess EXCEPT ![j].done = TRUE]
      /\ wk' = [wk EXCEPT ![w] = Idle] /\ UNCHANGED <<queue, reg, epc, cur>>
  BY DEF WDone, At, fdVars, Engine
<1>2. /\ sess[j] \in Session /\ SessServes(sess[j], reg, Arming(j))
      /\ WorkServes(wk[w], sess[j], reg, Arming(j))
  BY AtHand
<1>3. /\ sess'[j] = [sess[j] EXCEPT !.done = TRUE] /\ \A s \in Slots \ {j} : sess'[s] = sess[s]
      /\ wk'[w] = Idle /\ \A v \in Workers \ {w} : wk'[v] = wk[v]
  BY <1>1 DEF UdpInv, LoanInv, Typed
<1>4. /\ sess'[j].state = sess[j].state /\ sess'[j].pend = sess[j].pend /\ sess'[j].tx = sess[j].tx
      /\ sess'[j].udp_tcp = sess[j].udp_tcp /\ sess'[j].rfd = sess[j].rfd
      /\ sess'[j].cfd = sess[j].cfd /\ sess'[j].armed = sess[j].armed
      /\ sess'[j].place = sess[j].place
  BY <1>2, <1>3 DEF Session
<1>5. SessServes(sess[j], reg, Arming(j))'
  BY <1>1, <1>2, <1>4 DEF SessServes, WorkServes, Live, Ready, Out, Arming
<1>6. ASSUME NEW s \in Slots PROVE SessServes(sess[s], reg, Arming(s))'
  <2>1. CASE s = j
    BY <1>5, <2>1
  <2>2. CASE s # j
    BY <1>1, <1>3, <2>2 DEF ServeInv, Arming
  <2> QED
    BY <2>1, <2>2
<1>7. ASSUME NEW v \in Workers, Job(v)' # None
      PROVE  WorkServes(wk[v], sess[Job(v)], reg, Arming(Job(v)))'
  <2>1. v # w
    BY <1>3, <1>7 DEF Idle, Job
  <2>2. wk'[v] = wk[v] /\ Job(v) # j /\ Job(v) \in Slots
    BY <1>3, <1>7, <2>1 DEF Job, UdpInv, LoanInv, Loans, Typed, Wk
  <2> QED
    BY <1>1, <1>3, <1>7, <2>2 DEF ServeInv, Job, Arming
<1>8. ASSUME NEW i \in 1..Len(queue)' PROVE Waits(queue[i])'
  <2>1. queue[i] \in Slots /\ queue[i] # j /\ Waits(queue[i])
    BY <1>1, <1>8 DEF UdpInv, LoanInv, Typed, Loans, ServeInv
  <2> QED
    BY <1>1, <1>3, <2>1 DEF Waits, Arming
<1>9. OutIsArmed'
  <2>1. \A s \in Slots : sess'[s].armed = sess[s].armed
    BY <1>3, <1>4
  <2> QED
    BY <1>1, <1>3, <2>1, OutsAt DEF ServeInv, UdpInv, LoanInv
<1> QED
  BY <1>6, <1>7, <1>8, <1>9 DEF ServeInv

LEMMA DatagramServes ==
  ASSUME UdpInv, ServeInv, NEW k \in Keys, TunDatagram(k)
  PROVE  ServeInv'
<1> DEFINE found == {s \in Slots : InHash(s) /\ sess[s].key = k}
<1>1. /\ epc = "tun" /\ epc' \in {"tun", "found"} /\ UNCHANGED <<wk, reg>>
      /\ \A s : ~Arming(s) /\ ~Arming(s)'
  BY DEF TunDatagram, fdVars, Goto_e, Arming
<1>2. CASE found # {}
  <2>1. UNCHANGED <<sess, queue>>
    BY <1>2 DEF TunDatagram
  <2>2. \A s \in Slots : SessServes(sess[s], reg, Arming(s))'
    BY <1>1, <2>1 DEF ServeInv, Arming
  <2>3. \A v \in Workers : Job(v)' # None => WorkServes(wk[v], sess[Job(v)], reg, Arming(Job(v)))'
    BY <1>1, <2>1 DEF ServeInv, Job, Arming
  <2>4. \A i \in 1..Len(queue)' : Waits(queue[i])'
    BY <1>1, <2>1 DEF ServeInv, Waits, Arming
  <2>5. OutIsArmed'
    BY <1>1, <2>1, OutsAt DEF ServeInv, UdpInv, LoanInv
  <2> QED
    BY <2>2, <2>3, <2>4, <2>5 DEF ServeInv
<1>3. CASE found = {}
  <2>1. PICK n \in Slots \ Alloc, small \in BOOLEAN :
           /\ sess' = [sess EXCEPT ![n] = [Blank EXCEPT
                          !.place = "hash", !.key = k, !.pend = small]]
           /\ queue' = Append(queue, n)
    BY <1>3 DEF TunDatagram
  <2> DEFINE r == [Blank EXCEPT !.place = "hash", !.key = k, !.pend = small]
  <2>2. r.state = 0 /\ r.tx = 0 /\ ~r.done /\ ~r.udp_tcp /\ r.armed = FALSE
    BY DEF Blank
  <2>3. sess'[n] = r /\ \A s \in Slots \ {n} : sess'[s] = sess[s]
    BY <2>1 DEF UdpInv, LoanInv, Typed
  <2> HIDE DEF r
  <2>4. sess[n].place = "free" /\ sess[n] = Blank
    BY <2>1 DEF Alloc, UdpInv, FreeIsBlank
  <2>5. n \notin InUse
    BY <2>4, InUseOnLoan DEF OnLoan, UdpInv
  <2>6. \A s \in Slots : SessServes(sess[s], reg, Arming(s))'
    BY <1>1, <2>2, <2>3 DEF ServeInv, SessServes, Arming
  <2>7. ASSUME NEW v \in Workers, Job(v)' # None
        PROVE  WorkServes(wk[v], sess[Job(v)], reg, Arming(Job(v)))'
    <3>1. wk'[v] = wk[v] /\ Job(v) \in Slots \ {n}
      BY <1>1, <2>5, <2>7 DEF Job, InUse, UdpInv, LoanInv, Typed, Wk
    <3> QED
      BY <1>1, <2>3, <2>7, <3>1 DEF ServeInv, Job, Arming
  <2>8. ASSUME NEW i \in 1..Len(queue)' PROVE Waits(queue[i])'
    <3>1. queue \in Seq(Slots) /\ Len(queue) \in Nat
      BY DEF UdpInv, LoanInv, Typed
    <3>2. CASE i \in 1..Len(queue)
      <4>1. queue'[i] = queue[i] /\ queue[i] \in Slots /\ queue[i] # n
        BY <2>1, <2>5, <3>1, <3>2 DEF InUse, Queued
      <4> QED
        BY <1>1, <2>3, <3>2, <4>1 DEF ServeInv, Waits, Arming
    <3>3. CASE i = Len(queue) + 1
      <4>1. queue'[i] = n
        BY <2>1, <3>1, <3>3
      <4> QED
        BY <1>1, <2>2, <2>3, <4>1 DEF Waits, Arming, Fresh
    <3> QED
      BY <2>1, <3>1, <3>2, <3>3
  <2>9. OutIsArmed'
    <3>1. sess'[n].armed = sess[n].armed
      <4>1. Blank.armed = FALSE
        BY DEF Blank
      <4> QED
        BY <2>2, <2>3, <2>4, <4>1
    <3> QED
      BY <1>1, <2>3, <3>1, OutsAt DEF ServeInv, UdpInv, LoanInv
  <2> QED
    BY <2>6, <2>7, <2>8, <2>9 DEF ServeInv
<1> QED
  BY <1>2, <1>3

-----------------------------------------------------------------------------
(* The engine.                                                             *)

\* It leaves the sessions as they are, but for when they were last used.
LEMMA QuietServes ==
  ASSUME UdpInv, UdpInv', ServeInv, UNCHANGED <<queue, wk, reg>>,
         \A s \in Slots : Alike(sess'[s], sess[s]) /\ (Arming(s)' <=> Arming(s))
  PROVE  ServeInv'
<1> DEFINE C == {}
<1>1. C \in SUBSET Slots /\ \A x : x \notin C
  OBVIOUS
<1> HIDE DEF C
<1> QED
  BY <1>1, EngineServes

\* It changes the session s and its registrations.
LEMMA OneServes ==
  ASSUME UdpInv, UdpInv', ServeInv, UNCHANGED <<queue, wk>>, NEW s \in Slots,
         \A t \in Slots : t # s => sess'[t] = sess[t] /\ ~Arming(t) /\ ~Arming(t)',
         \A f \in Fds : owner[f] # s => reg'[f] = reg[f],
         SessServes(sess'[s], reg', Arming(s)'), OutsOf(s)',
         \A w \in Workers : Job(w) = s => WorkServes(wk[w], sess'[s], reg', Arming(s)'),
         s \in Queued => Fresh(sess'[s]) /\ sess'[s].tx = 0 /\ ~Arming(s)'
  PROVE  ServeInv'
<1> DEFINE C == {s}
<1>1. /\ C \in SUBSET Slots
      /\ \A t \in Slots \ C : Alike(sess'[t], sess[t]) /\ (Arming(t)' <=> Arming(t))
  BY DEF Alike
<1>2. \A w \in Workers : Job(w) \in C =>
         WorkServes(wk[w], sess'[Job(w)], reg', Arming(Job(w))')
  BY DEF Arming, Job
<1>3. \A i \in 1..Len(queue) : queue[i] \in C =>
         Fresh(sess'[queue[i]]) /\ sess'[queue[i]].tx = 0 /\ ~Arming(queue[i])'
  BY DEF Queued, Arming, UdpInv, LoanInv, Typed
<1> QED
  BY <1>1, <1>2, <1>3, EngineServes

\* It closes the sessions in G, which no worker has half registered.
LEMMA CloseServes ==
  ASSUME UdpInv, UdpInv', ServeInv, UNCHANGED <<queue, wk>>, Hard = {},
         epc # "arm", epc' # "arm",
         NEW G \in SUBSET {s \in Slots : InHash(s)}, CloseSessions(G), \A s \in G : MayClose(s)
  PROVE  ServeInv'
<1> DEFINE D == UNION {FdsOf(sess[s]) : s \in G}
<1>1. \A s : ~Arming(s) /\ ~Arming(s)'
  BY DEF Arming
<1>2. ASSUME NEW s \in G
      PROVE  /\ sess'[s].cfd = None /\ sess'[s].rfd = None /\ sess'[s].place = "grave"
             /\ sess'[s].udp_tcp = sess[s].udp_tcp /\ sess'[s].state = sess[s].state
             /\ sess'[s].pend = sess[s].pend /\ sess'[s].tx = sess[s].tx
             /\ sess'[s].armed = sess[s].armed
  <2>1. sess'[s] = [sess[s] EXCEPT !.place = "grave", !.cfd = None, !.rfd = None]
    BY DEF CloseSessions
  <2>2. sess[s] \in Session
    BY DEF UdpInv, LoanInv, Typed
  <2> QED
    BY <2>1, <2>2 DEF Session
<1>3. \A s \in Slots \ G : sess'[s] = sess[s]
  BY DEF CloseSessions
<1>4. \A f \in Fds : reg'[f] = IF f \in D THEN None ELSE reg[f]
  BY DEF CloseSessions, Release
<1>5. \A f \in D : f \in Fds => owner[f] \in G
  <2> SUFFICES ASSUME NEW s \in G, NEW f \in Fds, f \in FdsOf(sess[s]) PROVE owner[f] = s
    OBVIOUS
  <2> QED
    BY Mine, UdpSessAssumption DEF FdsOf
<1> HIDE DEF D
<1>6. \A f \in Fds : owner[f] \notin G => reg'[f] = reg[f]
  BY <1>4, <1>5
<1>7. ASSUME NEW s \in G PROVE SessServes(sess'[s], reg', Arming(s)') /\ OutsOf(s)'
  <2>1. SessServes(sess[s], reg, Arming(s))
    BY DEF ServeInv
  <2>2. OutsOf(s)'
    BY <1>2, UdpSessAssumption DEF OutsOf, UdpInv, Registered
  <2> QED
    BY <1>2, <2>1, <2>2 DEF SessServes
<1>8. ASSUME NEW w \in Workers, Job(w) \in G
      PROVE  WorkServes(wk[w], sess'[Job(w)], reg', Arming(Job(w))')
  <2>1. wk[w].pc \notin {"take", "fwd", "state", "ev", "addc", "addr", "failc", "failr"}
    BY <1>8 DEF MayClose, WorkerAt
  <2>2. WorkServes(wk[w], sess[Job(w)], reg, Arming(Job(w)))
    BY <1>8, UdpSessAssumption DEF ServeInv
  <2>3. PICK s \in G : s = Job(w)
    BY <1>8
  <2>4. ~Arming(Job(w))' /\ Job(w)' = s
    BY <1>1, <2>3 DEF Arming, Job
  <2>5. WorkServes(wk[w], sess'[s], reg', FALSE)
    BY <1>2, <2>1, <2>2, <2>3 DEF WorkServes, Prepared, Equipped, NotYetArmed, Fresh, Early, Copied
  <2> QED
    BY <2>3, <2>4, <2>5 DEF WorkServes, Live
<1>9. ASSUME NEW i \in 1..Len(queue), queue[i] \in G
      PROVE  Fresh(sess'[queue[i]]) /\ sess'[queue[i]].tx = 0 /\ ~Arming(queue[i])'
  BY <1>1, <1>2, <1>9 DEF ServeInv, Waits, Fresh, Arming
<1>10. G \in SUBSET Slots
  OBVIOUS
<1>11. \A s \in Slots \ G : Alike(sess'[s], sess[s]) /\ (Arming(s)' <=> Arming(s))
  BY <1>1, <1>3 DEF Alike
<1> QED
  BY <1>6, <1>7, <1>8, <1>9, <1>10, <1>11, EngineServes

\* It frees the sessions in G, which nobody has, and parks others.
LEMMA FreeServes ==
  ASSUME UdpInv, UdpInv', ServeInv, UNCHANGED <<queue, wk>>, epc # "arm", epc' # "arm",
         NEW G \in SUBSET Slots, G \cap InUse = {},
         Release(UNION {FdsOf(sess[s]) : s \in G}),
         \A s \in G : sess'[s] = Blank,
         \A s \in Slots \ G : Alike(sess'[s], sess[s])
  PROVE  ServeInv'
<1> DEFINE D == UNION {FdsOf(sess[s]) : s \in G}
<1>1. \A s : ~Arming(s) /\ ~Arming(s)'
  BY DEF Arming
<1>2. \A f \in Fds : reg'[f] = IF f \in D THEN None ELSE reg[f]
  BY DEF Release
<1>3. \A f \in D : f \in Fds => owner[f] \in G
  <2> SUFFICES ASSUME NEW s \in G, NEW f \in Fds, f \in FdsOf(sess[s]) PROVE owner[f] = s
    OBVIOUS
  <2> QED
    BY Mine, UdpSessAssumption DEF FdsOf
<1> HIDE DEF D
<1>4. \A f \in Fds : owner[f] \notin G => reg'[f] = reg[f]
  BY <1>2, <1>3
<1>5. ASSUME NEW s \in G PROVE SessServes(sess'[s], reg', Arming(s)') /\ OutsOf(s)'
  <2>1. sess'[s] = Blank
    OBVIOUS
  <2>2. OutsOf(s)'
    BY <2>1, UdpSessAssumption DEF OutsOf, UdpInv, Registered, Blank
  <2> QED
    BY <2>1, <2>2 DEF SessServes, Blank
<1>6. \A w \in Workers : Job(w) \notin G
  BY UdpSessAssumption DEF InUse
<1>7. \A i \in 1..Len(queue) : queue[i] \notin G
  BY DEF InUse, Queued, UdpInv, LoanInv, Typed
<1> QED
  BY <1>1, <1>4, <1>5, <1>6, <1>7, EngineServes

\* A session and whose it is, before the engine turns to it.
LEMMA InEngine ==
  ASSUME UdpInv, ServeInv, NEW s \in Slots
  PROVE  /\ sess[s] \in Session /\ SessServes(sess[s], reg, Arming(s)) /\ OutsOf(s)
         /\ sess[s].cfd # None => sess[s].cfd \in Fds /\ owner[sess[s].cfd] = s
         /\ \A w \in Workers : Job(w) = s =>
               /\ WorkServes(wk[w], sess[s], reg, Arming(s)) /\ ~sess[s].done
               /\ wk[w].pc \in WPCs \ {"idle", "exited"}
         /\ s \in Queued => Waits(s)
<1>1. sess[s] \in Session /\ SessServes(sess[s], reg, Arming(s))
  BY DEF UdpInv, LoanInv, Typed, ServeInv
<1>2. OutsOf(s)
  BY OutsTogether DEF ServeInv, UdpInv, LoanInv
<1>3. sess[s].cfd # None => sess[s].cfd \in Fds /\ owner[sess[s].cfd] = s
  BY Mine
<1>4. ASSUME NEW w \in Workers, Job(w) = s
      PROVE  /\ WorkServes(wk[w], sess[s], reg, Arming(s)) /\ ~sess[s].done
             /\ wk[w].pc \in WPCs \ {"idle", "exited"}
  <2>1. Job(w) # None
    BY <1>4, UdpSessAssumption
  <2>2. WorkServes(wk[w], sess[Job(w)], reg, Arming(Job(w)))
    BY <2>1 DEF ServeInv
  <2>3. ~sess[s].done /\ wk[w].pc \in WPCs \ {"idle", "exited"}
    BY <1>4, <2>1 DEF UdpInv, LoanInv, Loans, OnLoan, JobPlaces, Typed, Wk
  <2> QED
    BY <1>4, <2>2, <2>3
<1>5. s \in Queued => Waits(s)
  BY DEF ServeInv, Queued, UdpInv, LoanInv, Typed
<1> QED
  BY <1>1, <1>2, <1>3, <1>4, <1>5

\* A datagram for a session that is still being set up.
LEMMA BufferServes ==
  ASSUME UdpInv, UdpInv', ServeInv, Hard = {}, EngBuffer
  PROVE  ServeInv'
<1> DEFINE s == cur
           r == sess[cur]
<1>1. /\ epc = "found" /\ r.state = 0 /\ epc' = "tun" /\ ~WorkerAt(s, {"fwd", "state"})
      /\ UNCHANGED <<queue, wk, reg>>
      /\ \A t : ~Arming(t) /\ ~Arming(t)'
  BY DEF EngBuffer, hsVars, fdVars, Goto_e, Arming
<1>2. PICK b \in BOOLEAN : sess' = [sess EXCEPT ![s].pend = @ \/ b]
  BY DEF EngBuffer
<1>3. s \in Slots
  BY <1>1 DEF UdpInv, InHand, LoanInv, Typed
<1>4. PICK c \in Slots : c = cur
  BY <1>3
<1>5. /\ sess'[c] = [r EXCEPT !.pend = @ \/ b] /\ \A t \in Slots : t # c => sess'[t] = sess[t]
  BY <1>2, <1>4 DEF UdpInv, LoanInv, Typed
<1>6. /\ sess[c] \in Session /\ SessServes(sess[c], reg, Arming(c)) /\ OutsOf(c)
      /\ \A w \in Workers : Job(w) = c => WorkServes(wk[w], sess[c], reg, Arming(c)) /\ ~sess[c].done
      /\ c \in Queued => Waits(c)
  BY InEngine
<1>7. /\ sess'[c].state = 0 /\ sess'[c].tx = r.tx /\ sess'[c].udp_tcp = r.udp_tcp
      /\ sess'[c].cfd = r.cfd /\ sess'[c].rfd = r.rfd /\ sess'[c].armed = r.armed
      /\ sess'[c].place = r.place /\ sess'[c].done = r.done
  BY <1>1, <1>4, <1>5, <1>6 DEF Session
<1>8. SessServes(sess'[c], reg', Arming(c)')
  BY <1>1, <1>4, <1>6, <1>7 DEF SessServes, Live, Ready
<1>9. \A w \in Workers : Job(w) = c => WorkServes(wk[w], sess'[c], reg', Arming(c)')
  BY <1>1, <1>4, <1>6, <1>7 DEF WorkServes, Prepared, Equipped, NotYetArmed, Fresh, Live, Ready, WorkerAt
<1>10. OutsOf(c)'
  BY <1>1, <1>4, <1>6, <1>7 DEF OutsOf, WorkerAt, Job
<1>11. c \in Queued => Fresh(sess'[c]) /\ sess'[c].tx = 0 /\ ~Arming(c)'
  BY <1>1, <1>4, <1>6, <1>7 DEF Waits, Fresh
<1> QED
  BY <1>1, <1>5, <1>8, <1>9, <1>10, <1>11, OneServes

\* A datagram for one that is in use, or is being registered by its worker
\* (which Hard = {} excludes).
LEMMA ForwardServes ==
  ASSUME UdpInv, UdpInv', ServeInv, Hard = {}, EngForward
  PROVE  ServeInv'
<1> DEFINE r == sess[cur]
           append == InHash(cur) /\ r.udp_tcp /\ r.tx < TxCap
<1>1. /\ epc = "found" /\ r.state = 1 /\ ~WorkerAt(cur, {"ev", "addc", "armed"})
      /\ UNCHANGED <<queue, wk, reg>> /\ \A t : ~Arming(t)
  BY DEF EngForward, hsVars, fdVars, Arming
<1>2. PICK c \in Slots : c = cur
  BY <1>1 DEF UdpInv, InHand, LoanInv, Typed
<1>3. /\ sess'[c] = [r EXCEPT !.tx = IF append THEN @ + 1 ELSE @,
                              !.seen = IF @ = "fresh" THEN @ ELSE "app"]
      /\ \A t \in Slots : t # c => sess'[t] = sess[t]
  BY <1>2 DEF EngForward, UdpInv, LoanInv, Typed
<1>4. \A t : Arming(t)' <=> append /\ t = c
  BY <1>2 DEF EngForward, Goto_e, Arming
<1>5. /\ r \in Session /\ SessServes(r, reg, Arming(c)) /\ OutsOf(c)
      /\ \A w \in Workers : Job(w) = c =>
            /\ WorkServes(wk[w], r, reg, Arming(c)) /\ ~r.done
            /\ wk[w].pc \in WPCs \ {"idle", "exited"}
      /\ c \in Queued => Waits(c)
  BY <1>2, InEngine
<1>6. /\ sess'[c].tx = IF append THEN r.tx + 1 ELSE r.tx
      /\ sess'[c].state = 1 /\ sess'[c].udp_tcp = r.udp_tcp /\ sess'[c].pend = r.pend
      /\ sess'[c].cfd = r.cfd /\ sess'[c].rfd = r.rfd /\ sess'[c].armed = r.armed
      /\ sess'[c].place = r.place /\ sess'[c].done = r.done
  BY <1>1, <1>2, <1>3, <1>5 DEF Session
<1>7. append => r.udp_tcp
  OBVIOUS
<1> HIDE DEF append
<1>8. SessServes(sess'[c], reg', Arming(c)')
  BY <1>1, <1>4, <1>5, <1>6, <1>7 DEF SessServes, Live, Ready, Out
<1>9. ASSUME NEW w \in Workers, Job(w) = c PROVE WorkServes(wk[w], sess'[c], reg', Arming(c)')
  <2>1. /\ WorkServes(wk[w], r, reg, Arming(c)) /\ wk[w].pc \in WPCs \ {"idle", "exited"}
        /\ wk[w].pc \notin {"ev", "addc", "armed"}
    BY <1>1, <1>2, <1>5, <1>9 DEF WorkerAt
  <2>2. wk[w].pc \in {"addr", "failc", "failr", "unlink", "done"}
    BY <1>1, <2>1 DEF WorkServes, Prepared, Early, Fresh, WPCs
  <2>3. append => wk[w].pc # "addr"
    BY <1>7, <2>1 DEF WorkServes, Equipped
  <2> QED
    BY <1>1, <1>4, <1>6, <1>7, <2>1, <2>2, <2>3 DEF WorkServes, Prepared, Equipped, NotYetArmed, Early,
       Copied, Live, Ready, Out
<1>10. OutsOf(c)'
  BY <1>1, <1>2, <1>5, <1>6 DEF OutsOf, WorkerAt, Job
<1>11. c \notin Queued
  BY <1>1, <1>2, <1>5 DEF Waits, Fresh
<1>12. \A t \in Slots : t # c => sess'[t] = sess[t] /\ ~Arming(t) /\ ~Arming(t)'
  BY <1>1, <1>3, <1>4
<1> QED
  BY <1>1, <1>8, <1>9, <1>10, <1>11, <1>12, OneServes

\* A changed entry of epoll is an entry.
LEMMA Entry ==
  ASSUME UdpInv, NEW f \in Fds, reg[f] # None, NEW b \in BOOLEAN
  PROVE  /\ [reg[f] EXCEPT !.out = b] # None
         /\ [reg[f] EXCEPT !.out = b].out = b
         /\ [reg[f] EXCEPT !.out = b].s = reg[f].s
<1>1. reg[f] \in [s: Slots, sock: {"control", "relay"}, out: BOOLEAN]
  BY DEF UdpInv, LoanInv, Typed
<1>2. [reg[f] EXCEPT !.out = b] \in [s: Slots, sock: {"control", "relay"}, out: BOOLEAN]
  BY <1>1
<1> QED
  BY <1>1, <1>2, NoneIsNoEvent

\* EPOLLOUT is asked for, once.
LEMMA ArmServes ==
  ASSUME UdpInv, UdpInv', ServeInv, EngArm
  PROVE  ServeInv'
<1> DEFINE r == sess[cur]
           f == sess[cur].cfd
<1>1. /\ epc = "arm" /\ UNCHANGED <<queue, wk>> /\ \A t : ~Arming(t)' /\ (Arming(t) <=> t = cur)
  BY DEF EngArm, hsVars, Goto_e, Arming
<1>2. PICK c \in Slots : c = cur
  BY <1>1 DEF UdpInv, InHand, LoanInv, Typed
<1>3. /\ r \in Session /\ SessServes(r, reg, TRUE) /\ OutsOf(c)
      /\ f # None => f \in Fds /\ owner[f] = c
      /\ \A w \in Workers : Job(w) = c => WorkServes(wk[w], r, reg, TRUE) /\ ~r.done
      /\ c \notin Queued
  BY <1>1, <1>2, InEngine DEF Waits, Arming
<1>4. ASSUME NEW w \in Workers, Job(w) = c
      PROVE  /\ wk[w].pc \in {"done", "failc", "failr", "unlink"}
             /\ wk[w].pc = "done" /\ r.place = "hash" => Live(r, reg, TRUE)
  BY <1>3, <1>4 DEF WorkServes
<1>5. ASSUME sess'[c].armed => OutsOf(c)',
             \A t \in Slots : t # c => sess'[t] = sess[t],
             \A g \in Fds : owner[g] # c => reg'[g] = reg[g],
             /\ sess'[c].tx = r.tx /\ sess'[c].done = r.done /\ sess'[c].place = r.place
             /\ sess'[c].state = r.state /\ sess'[c].udp_tcp = r.udp_tcp /\ sess'[c].pend = r.pend
             /\ sess'[c].cfd = r.cfd /\ sess'[c].rfd = r.rfd,
             OutsOf(c)',
             Live(r, reg, TRUE) /\ (r.udp_tcp => r.rfd = None) => Live(sess'[c], reg', FALSE)
      PROVE  ServeInv'
  <2>1. SessServes(sess'[c], reg', Arming(c)')
    BY <1>1, <1>3, <1>5 DEF SessServes, Live
  <2>2. r.udp_tcp => r.rfd = None
    BY <1>3 DEF SessServes
  <2>3. \A w \in Workers : Job(w) = c => WorkServes(wk[w], sess'[c], reg', Arming(c)')
    BY <1>1, <1>4, <1>5, <2>2 DEF WorkServes, Prepared, Equipped, NotYetArmed, Early, Copied, Live
  <2>4. \A t \in Slots : t # c => sess'[t] = sess[t] /\ ~Arming(t) /\ ~Arming(t)'
    BY <1>1, <1>2, <1>5
  <2> QED
    BY <1>1, <1>3, <1>5, <2>1, <2>3, <2>4, OneServes
<1>6. CASE ~r.armed /\ f # None /\ reg[f] # None
  <2>1. /\ sess'[c] = [r EXCEPT !.armed = TRUE] /\ \A t \in Slots : t # c => sess'[t] = sess[t]
        /\ reg'[f] = [reg[f] EXCEPT !.out = TRUE] /\ \A g \in Fds : g # f => reg'[g] = reg[g]
    BY <1>2, <1>3, <1>6 DEF EngArm, UdpInv, LoanInv, Typed
  <2>2. reg'[f] # None /\ reg'[f].out
    BY <1>3, <1>6, <2>1, Entry
  <2>3. /\ sess'[c].tx = r.tx /\ sess'[c].done = r.done /\ sess'[c].place = r.place
        /\ sess'[c].state = r.state /\ sess'[c].udp_tcp = r.udp_tcp /\ sess'[c].pend = r.pend
        /\ sess'[c].cfd = r.cfd /\ sess'[c].rfd = r.rfd /\ sess'[c].armed
    BY <1>3, <2>1 DEF Session
  <2>4. OutsOf(c)'
    BY <2>3 DEF OutsOf
  <2>5. \A g \in Fds : owner[g] # c => reg'[g] = reg[g]
    BY <1>3, <1>6, <2>1
  <2>6. Live(r, reg, TRUE) /\ (r.udp_tcp => r.rfd = None) => Live(sess'[c], reg', FALSE)
    <3>1. r.rfd # None => r.rfd \in Fds
      BY <1>3 DEF Session
    <3>2. \A g \in Fds : g # f => reg'[g] = reg[g]
      BY <2>1
    <3> SUFFICES ASSUME Live(r, reg, TRUE) PROVE Live(sess'[c], reg', FALSE)
      OBVIOUS
    <3>3. Ready(sess'[c], reg')
      BY <1>6, <2>2, <2>3, <3>1, <3>2 DEF Live, Ready
    <3>4. Out(sess'[c], reg')
      BY <1>6, <2>2, <2>3 DEF Out
    <3> QED
      BY <2>3, <3>3, <3>4 DEF Live
  <2> HIDE DEF r, f
  <2> QED
    BY <1>5, <2>1, <2>3, <2>4, <2>5, <2>6
<1>7. CASE ~(~r.armed /\ f # None /\ reg[f] # None)
  <2>1. UNCHANGED <<reg, sess>>
    BY <1>2, <1>7 DEF EngArm
  <2>2. Live(r, reg, TRUE) /\ (r.udp_tcp => r.rfd = None) => Live(r, reg, FALSE)
    BY <1>7 DEF Live, Ready, Out
  <2>3. OutsOf(c)'
    BY <1>1, <1>3, <2>1 DEF OutsOf, WorkerAt, Job
  <2>4. sess'[c] = r
    BY <1>2, <2>1
  <2> HIDE DEF r, f
  <2> QED
    BY <1>5, <2>1, <2>2, <2>3, <2>4
<1> QED
  BY <1>6, <1>7

\* Frames go out, and EPOLLOUT with the last of them.
LEMMA FlushServes ==
  ASSUME UdpInv, UdpInv', ServeInv, Hard = {}, NEW i \in Socks, EngEventFlush(i)
  PROVE  ServeInv'
<1>1. PICK s \in Slots : s = i[1]
  BY DEF Socks
<1> DEFINE r == sess[s]
           f == sess[s].cfd
<1>2. /\ epc = "batch" /\ epc' = "batch" /\ UNCHANGED <<queue, wk>>
      /\ f # None /\ reg[f] # None /\ reg[f].out /\ r.udp_tcp /\ ~WorkerAt(s, {"armed"})
      /\ \A t : ~Arming(t) /\ ~Arming(t)'
  BY <1>1 DEF EngEventFlush, hsVars, Arming
<1>3. /\ r \in Session /\ SessServes(r, reg, FALSE) /\ OutsOf(s)
      /\ f \in Fds /\ owner[f] = s
      /\ \A w \in Workers : Job(w) = s => WorkServes(wk[w], r, reg, FALSE) /\ ~r.done
      /\ s \in Queued => Waits(s)
  BY <1>2, InEngine DEF Arming
<1>4. reg[f].s = s
  <2>1. reg[f].s \in Slots
    BY <1>2, <1>3 DEF UdpInv, LoanInv, Typed
  <2>2. sess[reg[f].s].cfd = f \/ sess[reg[f].s].rfd = f
    BY <1>2, <1>3 DEF UdpInv, Registered
  <2> QED
    BY <1>2, <1>3, <2>1, <2>2, Mine
<1>5. r.armed /\ r.rfd = None
  BY <1>2, <1>3, <1>4 DEF OutsOf, SessServes
<1>6. PICK left \in 0..r.tx :
        LET off == left = 0 /\ r.armed
        IN /\ sess' = [sess EXCEPT ![s].tx = left, ![s].seen = "fresh", ![s].armed = @ /\ ~off]
           /\ reg' = [reg EXCEPT ![f].out = @ /\ ~off]
  BY <1>1 DEF EngEventFlush
<1>7. left \in Nat /\ (left > 0 <=> left # 0)
  BY <1>3, UdpSessAssumption DEF Session
<1> DEFINE on == left > 0
<1>8. /\ sess'[s] = [r EXCEPT !.tx = left, !.seen = "fresh", !.armed = on]
      /\ \A t \in Slots : t # s => sess'[t] = sess[t]
  <2>1. sess' = [sess EXCEPT ![s] = [r EXCEPT !.tx = left, !.seen = "fresh",
                                             !.armed = @ /\ ~(left = 0 /\ r.armed)]]
    BY <1>3, <1>6 DEF UdpInv, LoanInv, Typed
  <2>2. (r.armed /\ ~(left = 0 /\ r.armed)) = on
    BY <1>5, <1>7
  <2>3. sess'[s] = [r EXCEPT !.tx = left, !.seen = "fresh", !.armed = on]
    BY <1>3, <2>1, <2>2 DEF Session, UdpInv, LoanInv, Typed
  <2> QED
    BY <2>1, <2>3 DEF UdpInv, LoanInv, Typed
<1>9. reg'[f] = [reg[f] EXCEPT !.out = on] /\ \A g \in Fds : g # f => reg'[g] = reg[g]
  <2>1. reg[f] \in [s: Slots, sock: {"control", "relay"}, out: BOOLEAN]
    BY <1>2, <1>3 DEF UdpInv, LoanInv, Typed
  <2>2. (reg[f].out /\ ~(left = 0 /\ r.armed)) = on
    BY <1>2, <1>5, <1>7
  <2>3. reg'[f] = [reg[f] EXCEPT !.out = @ /\ ~(left = 0 /\ r.armed)]
    BY <1>3, <1>6 DEF UdpInv, LoanInv, Typed
  <2> QED
    BY <1>3, <1>6, <2>1, <2>2, <2>3 DEF UdpInv, LoanInv, Typed
<1>10. reg'[f] # None /\ reg'[f].out = on /\ reg'[f].s = s
  <2>1. on \in BOOLEAN
    OBVIOUS
  <2> HIDE DEF on
  <2> QED
    BY <1>2, <1>3, <1>4, <1>9, <2>1, Entry
<1>11. /\ sess'[s].tx = left /\ sess'[s].done = r.done /\ sess'[s].place = r.place
       /\ sess'[s].state = r.state /\ sess'[s].udp_tcp = r.udp_tcp /\ sess'[s].pend = r.pend
       /\ sess'[s].cfd = f /\ sess'[s].rfd = None /\ sess'[s].armed = on
  BY <1>3, <1>5, <1>8 DEF Session
<1> HIDE DEF on
<1>12. left > 0 => on
  BY DEF on
<1>13. r.state = 1 => Live(sess'[s], reg', FALSE)
  BY <1>2, <1>10, <1>11, <1>12 DEF Live, Ready, Out
<1>14. SessServes(sess'[s], reg', Arming(s)')
  <2>1. Live(sess'[s], reg', FALSE) => Live(sess'[s], reg', Arming(s)')
    BY DEF Live
  <2> QED
    BY <1>2, <1>3, <1>11, <1>13, <2>1 DEF SessServes, Live, Ready
<1>15. ASSUME NEW w \in Workers, Job(w) = s PROVE WorkServes(wk[w], sess'[s], reg', Arming(s)')
  <2>1. WorkServes(wk[w], r, reg, FALSE) /\ wk[w].pc # "armed"
    BY <1>2, <1>3, <1>15 DEF WorkerAt
  <2>2. /\ wk[w].pc \notin Early \cup {"take", "fwd", "state", "ev", "addc", "addr"}
        /\ wk[w].pc = "done" /\ r.place = "hash" => r.state = 1
    BY <1>2, <1>5, <2>1 DEF WorkServes, Prepared, Equipped, Fresh, Live, Ready
  <2>3. Live(sess'[s], reg', FALSE) => Live(sess'[s], reg', Arming(s)')
    BY DEF Live
  <2> QED
    BY <1>2, <1>11, <1>13, <2>1, <2>2, <2>3 DEF WorkServes, Prepared, Equipped, NotYetArmed, Copied, Early
<1>16. OutsOf(s)'
  <2>1. \A g \in Fds : reg'[g] # None /\ reg'[g].s = s => g = f
    BY <1>11, UdpSessAssumption DEF UdpInv, Registered
  <2> QED
    BY <1>10, <1>11, <2>1 DEF OutsOf
<1>17. s \notin Queued
  BY <1>3, <1>5 DEF Waits, Fresh
<1>18. \A g \in Fds : owner[g] # s => reg'[g] = reg[g]
  BY <1>3, <1>9
<1> QED
  BY <1>2, <1>8, <1>14, <1>15, <1>16, <1>17, <1>18, OneServes

\* A round of collecting, of the sessions as they are or all parked, and the
\* last one.
LEMMA CollectServes ==
  ASSUME UdpInv, UdpInv', ServeInv, EngSoftReset \/ EngCollect \/ EngJoin
  PROVE  ServeInv'
<1> USE DEF hsVars, Goto_e
<1>1. UNCHANGED <<queue, wk>> /\ epc # "arm" /\ epc' # "arm"
  BY DEF EngSoftReset, EngCollect, EngJoin
<1>2. ASSUME NEW st \in {sess, ParkAll}, udp_graveyard_collect(st) PROVE ServeInv'
  <2> DEFINE G == {s \in Slots : MayFree(st[s])}
  <2>1. /\ sess' = [s \in Slots |-> IF s \in G THEN Blank ELSE st[s]]
        /\ Release(UNION {FdsOf(st[s]) : s \in G})
    BY <1>2 DEF udp_graveyard_collect
  <2>2. ASSUME NEW s \in Slots
        PROVE  /\ Alike(st[s], sess[s]) /\ FdsOf(st[s]) = FdsOf(sess[s])
               /\ MayFree(st[s]) => sess[s].done
    <3>1. sess[s] \in Session
      BY DEF UdpInv, LoanInv, Typed
    <3>2. CASE st = sess
      BY <3>2 DEF Alike, MayFree
    <3>3. CASE st = ParkAll
      <4>1. st[s] \in {sess[s], [sess[s] EXCEPT !.place = "grave"]}
        BY <3>3 DEF ParkAll
      <4> QED
        BY <3>1, <4>1 DEF Alike, FdsOf, MayFree, Session
    <3> QED
      BY <3>2, <3>3
  <2>3. G \in SUBSET Slots /\ G \cap InUse = {}
    BY <2>2, InUseOnLoan DEF OnLoan, UdpInv
  <2>4. UNION {FdsOf(st[s]) : s \in G} = UNION {FdsOf(sess[s]) : s \in G}
    BY <2>2
  <2> HIDE DEF G
  <2>5. Release(UNION {FdsOf(sess[s]) : s \in G})
    BY <2>1, <2>4
  <2>6. /\ \A s \in G : sess'[s] = Blank
        /\ \A s \in Slots \ G : Alike(sess'[s], sess[s])
    BY <2>1, <2>2, <2>3
  <2> QED
    BY <1>1, <2>3, <2>5, <2>6, FreeServes
<1>3. CASE EngSoftReset \/ EngCollect
  BY <1>2, <1>3 DEF EngSoftReset, EngCollect
<1>4. CASE EngJoin
  <2> DEFINE G == {s \in Slots : InHash(s) \/ MayFree(sess[s])}
  <2>1. /\ sess' = [s \in Slots |-> IF s \in G THEN Blank ELSE sess[s]]
        /\ Release(UNION {FdsOf(sess[s]) : s \in G})
    BY <1>4 DEF EngJoin
  <2>2. InUse = {}
    BY <1>4, NobodyLeft DEF EngJoin, At, UdpInv
  <2>3. G \in SUBSET Slots /\ G \cap InUse = {}
    BY <2>2
  <2> HIDE DEF G
  <2>4. /\ \A s \in G : sess'[s] = Blank
        /\ \A s \in Slots \ G : Alike(sess'[s], sess[s])
    BY <2>1, <2>3 DEF Alike
  <2> QED
    BY <1>1, <2>1, <2>3, <2>4, FreeServes
<1> QED
  BY <1>3, <1>4

LEMMA OthersServe ==
  ASSUME UdpInv, UdpInv', ServeInv, Hard = {}, Others
  PROVE  ServeInv'
<1> USE DEF fdVars, hsVars, ctl, Engine, Goto_e
<1>1. UNCHANGED <<queue, wk>>
  BY OthersKeep DEF UdpInv
<1>2. \A s \in Slots : sess[s] \in Session
  BY DEF UdpInv, LoanInv, Typed
\* Nothing changes, or when a session was last used.
<1>3. ASSUME UNCHANGED reg, (epc' = epc /\ cur' = cur) \/ (epc # "arm" /\ epc' # "arm"),
             \A s \in Slots : Alike(sess'[s], sess[s])
      PROVE  ServeInv'
  BY <1>1, <1>3, QuietServes DEF Arming
<1>4. ASSUME NEW s \in Slots, NEW v \in {"fresh", "quiet", "app"},
             sess' = [sess EXCEPT ![s].seen = v]
      PROVE  \A t \in Slots : Alike(sess'[t], sess[t])
  <2> SUFFICES ASSUME NEW t \in Slots PROVE Alike(sess'[t], sess[t])
    OBVIOUS
  <2>1. sess'[t] \in {sess[t], [sess[t] EXCEPT !.seen = v]}
    BY <1>4 DEF UdpInv, LoanInv, Typed
  <2> QED
    BY <1>2, <2>1 DEF Alike, Session
<1>5. CASE EngTop \/ EngWait \/ EngTun \/ EngTunEnd \/ EngShutdown \/ EngNoGc \/ EngStopPool
  <2>1. UNCHANGED <<sess, reg>> /\ epc # "arm" /\ epc' # "arm"
    BY <1>5 DEF EngTop, EngWait, EngTun, EngTunEnd, EngShutdown, EngNoGc, EngStopPool
  <2> QED
    BY <1>3, <2>1 DEF Alike
<1>6. CASE AskReset \/ Stop \/ Stopped \/ UNCHANGED vars
  <2>1. UNCHANGED <<sess, reg, epc, cur>>
    BY <1>6 DEF AskReset, Stop, Stopped, vars
  <2> QED
    BY <1>3, <2>1 DEF Alike
<1>7. ASSUME NEW s \in Slots, Age(s) PROVE ServeInv'
  BY <1>3, <1>4, <1>7 DEF Age
<1>8. ASSUME NEW i \in Socks, EngEventClosed(i) \/ EngEventRead(i) PROVE ServeInv'
  <2>1. i[1] \in Slots
    BY DEF Socks
  <2>2. CASE EngEventClosed(i)
    BY <1>3, <2>2 DEF EngEventClosed, Alike
  <2>3. CASE EngEventRead(i)
    BY <1>3, <1>4, <2>1, <2>3 DEF EngEventRead
  <2> QED
    BY <1>8, <2>2, <2>3
<1>9. ASSUME NEW i \in Socks, EngEventFatal(i) PROVE ServeInv'
  <2> DEFINE G == {i[1]}
  <2>1. G \in SUBSET {s \in Slots : InHash(s)} /\ CloseSessions(G) /\ \A s \in G : MayClose(s)
    BY <1>9 DEF EngEventFatal, Socks
  <2>2. epc # "arm" /\ epc' # "arm"
    BY <1>9 DEF EngEventFatal
  <2> HIDE DEF G
  <2> QED
    BY <1>1, <2>1, <2>2, CloseServes
<1>10. CASE EngGc
  <2>1. PICK G \in SUBSET {s \in Slots : InHash(s)} :
           CloseSessions(G) /\ \A s \in G : MayClose(s)
    BY <1>10 DEF EngGc
  <2>2. epc # "arm" /\ epc' # "arm"
    BY <1>10 DEF EngGc
  <2> QED
    BY <1>1, <2>1, <2>2, CloseServes
<1> QED
  BY <1>5, <1>6, <1>7, <1>8, <1>9, <1>10, BufferServes, ForwardServes, ArmServes, FlushServes,
     CollectServes DEF Others, EngineStep, EngEvent

LEMMA ServeNext ==
  ASSUME Hard = {}
  PROVE  UdpInv /\ UdpInv' /\ ServeInv /\ [Next]_vars => ServeInv'
<1> SUFFICES ASSUME UdpInv, UdpInv', ServeInv, [Next]_vars PROVE ServeInv'
  OBVIOUS
<1>1. ASSUME NEW w \in Workers, AtWork(w) \/ WDone(w) PROVE ServeInv'
  <2>1. Job(w) \in Slots
    <3>1. CASE AtWork(w)
      BY <3>1, AtWorkWorks DEF UdpInv, LoanInv, Works
    <3>2. CASE WDone(w)
      BY <3>2 DEF WDone, At, Job, UdpInv, LoanInv, JobPlaces, Typed, Wk
    <3> QED
      BY <1>1, <3>1, <3>2
  <2>2. PICK j \in Slots : j = Job(w)
    BY <2>1
  <2> QED
    BY <1>1, <2>2, AtWorkServes, DoneServes
<1>2. ASSUME NEW w \in Workers, Worker(w) PROVE ServeInv'
  BY <1>1, <1>2, TakeServes, ExitServes DEF Worker, AtWork
<1>3. ASSUME NEW k \in Keys, TunDatagram(k) PROVE ServeInv'
  BY <1>3, DatagramServes
<1>4. CASE Others
  BY <1>4, OthersServe
<1> QED
  BY <1>2, <1>3, <1>4 DEF Next, Others

\* Outside the windows of the hard cases a session in use has its sockets,
\* they can wake the engine, what was buffered during the handshake has been
\* forwarded, and EPOLLOUT is asked for exactly while frames wait
\* (udp_session_thread's hand-over, udp_tcp_append, udp_tcp_flush).
THEOREM ServesHolds ==
  ASSUME Hard = {}
  PROVE  Spec => []Serves
<1>1. UdpInv /\ ServeInv => Serves
  <2> SUFFICES ASSUME UdpInv, ServeInv PROVE Serves
    OBVIOUS
  <2>1. \A s \in Slots : sess[s] \in Session /\ SessServes(sess[s], reg, Arming(s))
    BY DEF UdpInv, LoanInv, Typed, ServeInv
  <2>2. PendingForwarded
    BY <2>1 DEF SessServes, PendingForwarded
  <2>3. ASSUME NEW s \in Slots, InHash(s), sess[s].done
        PROVE  /\ sess[s].state = 1 /\ FdsOf(sess[s]) # {}
               /\ \A f \in FdsOf(sess[s]) : reg[f] # None
    BY <2>1, <2>3 DEF InHash, SessServes, Live, Ready, FdsOf
  <2>4. NoDeadSession
    BY <2>3 DEF NoDeadSession
  <2>5. ASSUME NEW s \in Slots, InHash(s), sess[s].done, sess[s].tx > 0, cur # s
        PROVE  \E f \in FdsOf(sess[s]) : reg[f] # None /\ reg[f].out
    BY <2>1, <2>5 DEF InHash, SessServes, Live, Out, Arming, FdsOf
  <2>6. TxWillDrain
    BY <2>5 DEF TxWillDrain
  <2> QED
    BY <2>2, <2>4, <2>6 DEF Serves, TxSound, ServeInv
<1>2. "close_early" \notin Hard
  OBVIOUS
<1> QED
  BY <1>1, <1>2, ServeInit, ServeNext, UdpInvariance, PTL DEF Spec

=============================================================================
