--------------------------- MODULE TcpLifeProofs ---------------------------
(***************************************************************************)
(* Proofs about TcpLife for any number of slots, workers, descriptors and  *)
(* hosts.                                                                  *)
(***************************************************************************)
EXTENDS TcpLife, FiniteSetTheorems, TLAPS

-----------------------------------------------------------------------------
(* Type correctness.                                                       *)

LEMMA BlankType == Blank \in Session
  BY DEF Blank, Session, Places

LEMMA InitType == Init => TypeOK
<1> SUFFICES ASSUME Init PROVE TypeOK
  OBVIOUS
<1>1. sess \in [Slots -> Session]
  BY BlankType DEF Init
<1>2. wpc \in [Workers -> WPCs]
  BY DEF Init, WPCs
<1>3. epc \in EPCs /\ batch \subseteq Items
  BY DEF Init, EPCs
<1>4. queue \in Seq(Slots)
  BY DEF Init
<1>5. /\ wjob \in [Workers -> Slots \cup {None}] /\ wfd \in [Workers -> Fds \cup {None}]
      /\ epoll \in [Fds -> Slots \cup {None}]
  BY DEF Init
<1>6. /\ poolOn \in BOOLEAN /\ running \in BOOLEAN /\ tunOpen \in BOOLEAN
      /\ kick \in BOOLEAN /\ reset \in BOOLEAN
  BY DEF Init
<1>7. /\ count \in Int /\ inflight \in Int /\ open \subseteq Fds
      /\ stop \in {"no", "cleared", "sent"} /\ srvHost \in Hosts
      /\ rpc \in {"idle", "flag", "kick"}
  BY DEF Init
<1> QED
  BY <1>1, <1>2, <1>3, <1>4, <1>5, <1>6, <1>7 DEF TypeOK

\* Parking sessions keeps the table well typed, and so does collecting.
LEMMA DestroyType ==
  ASSUME sess \in [Slots -> Session], NEW S
  PROVE  tcp_session_destroy(S) \in [Slots -> Session]
  BY DEF tcp_session_destroy, Session, Places

LEMMA CollectType ==
  ASSUME TypeOK, NEW st \in [Slots -> Session], tcp_graveyard_collect(st)
  PROVE  /\ sess' \in [Slots -> Session]
         /\ count' \in Int
         /\ open' \subseteq Fds
         /\ epoll' \in [Fds -> Slots \cup {None}]
<1> DEFINE F == {s \in Slots : MayFree(st[s])}
<1>1. Cardinality(F) \in Nat
  <2>1. IsFiniteSet(F)
    BY TcpLifeAssumption, FS_Subset
  <2> QED
    BY <2>1, FS_CardinalityType
<1>2. count' \in Int
  BY <1>1 DEF tcp_graveyard_collect, TypeOK
<1>3. sess' \in [Slots -> Session]
  BY BlankType DEF tcp_graveyard_collect
<1> QED
  BY <1>2, <1>3 DEF tcp_graveyard_collect, TypeOK
\* Every action keeps the types.
LEMMA NextType == TypeOK /\ [Next]_vars => TypeOK'
<1> SUFFICES ASSUME TypeOK, [Next]_vars PROVE TypeOK'
  OBVIOUS
<1> USE DEF TypeOK, poolVars, fdVars, engVars, cfgVars, WGoto, EGoto
<1>1. ASSUME NEW w \in Workers, WTake(w) PROVE TypeOK'
  BY <1>1 DEF WTake, WPCs
<1>2. ASSUME NEW w \in Workers, WExit(w) PROVE TypeOK'
  BY <1>2 DEF WExit, WPCs
<1>3. ASSUME NEW w \in Workers, WSnapshot(w) PROVE TypeOK'
  <2>1. sess' \in [Slots -> Session]
    BY <1>3 DEF WSnapshot, Session
  <2> QED
    BY <1>3, <2>1 DEF WSnapshot, WPCs
<1>4. ASSUME NEW w \in Workers, WSocket(w) PROVE TypeOK'
  BY <1>4 DEF WSocket, WPCs
<1>5. ASSUME NEW w \in Workers, WHandshake(w) PROVE TypeOK'
  BY <1>5 DEF WHandshake, WPCs
<1>6. ASSUME NEW w \in Workers, WStoreFd(w) PROVE TypeOK'
  <2>1. sess' \in [Slots -> Session]
    BY <1>6 DEF WStoreFd, Session
  <2> QED
    BY <1>6, <2>1 DEF WStoreFd, WPCs
<1>7. ASSUME NEW w \in Workers, WStoreReady(w) PROVE TypeOK'
  <2>1. sess' \in [Slots -> Session]
    BY <1>7 DEF WStoreReady, Session
  <2> QED
    BY <1>7, <2>1 DEF WStoreReady, WPCs
<1>8. ASSUME NEW w \in Workers, WAdd(w) PROVE TypeOK'
  <2>1. sess' \in [Slots -> Session]
    <3>1. [sess EXCEPT ![wjob[w]].failed = TRUE] \in [Slots -> Session]
      BY DEF Session
    <3> QED
      BY <1>8, <3>1 DEF WAdd
  <2>2. epoll' \in [Fds -> Slots \cup {None}]
    BY <1>8 DEF WAdd
  <2> QED
    BY <1>8, <2>1, <2>2 DEF WAdd, WPCs
<1>9. ASSUME NEW w \in Workers, WFail(w) PROVE TypeOK'
  <2>1. sess' \in [Slots -> Session]
    BY <1>9 DEF WFail, Session
  <2> QED
    BY <1>9, <2>1 DEF WFail, WPCs
<1>10. ASSUME NEW w \in Workers, WKick(w) PROVE TypeOK'
  BY <1>10 DEF WKick, WPCs
<1>11. ASSUME NEW w \in Workers, WDone(w) PROVE TypeOK'
  <2>1. sess' \in [Slots -> Session]
    BY <1>11 DEF WDone, Session
  <2> QED
    BY <1>11, <2>1 DEF WDone, WPCs
<1>12. ASSUME NEW w \in Workers, WDec(w) PROVE TypeOK'
  BY <1>12 DEF WDec, WPCs
<1>13. ASSUME NEW k \in Keys, TunSyn(k) PROVE TypeOK'
  <2>1. tcp_session_destroy(SessionOf(k)) \in [Slots -> Session]
    BY DestroyType
  <2>2. /\ DnsSession(k) \in Session /\ NewSession(k) \in Session
        /\ [NewSession(k) EXCEPT !.closed = TRUE, !.place = "grave"] \in Session
    BY DEF DnsSession, NewSession, Blank, Session, Places
  <2>3. sess' \in [Slots -> Session]
    BY <1>13, <2>1, <2>2 DEF TunSyn
  <2>4. queue' \in Seq(Slots) /\ inflight' \in Int /\ count' \in Int
    <3>1. CASE count >= MaxTcp
      BY <1>13, <3>1 DEF TunSyn
    <3>2. CASE ~(count >= MaxTcp)
      <4>1. PICK s \in Slots \ Alloc :
              /\ count' = count + 1
              /\ UNCHANGED <<queue, inflight>> \/ hs_submit(s)
        BY <1>13, <3>2 DEF TunSyn, SubmitFails
      <4>2. queue' \in Seq(Slots)
        BY <4>1 DEF hs_submit
      <4>3. inflight' \in Int /\ count' \in Int
        BY <4>1 DEF hs_submit
      <4> QED
        BY <4>2, <4>3
    <3> QED
      BY <3>1, <3>2
  <2>5. UNCHANGED <<wpc, wjob, wfd, poolOn, fdVars, kick, engVars, cfgVars>>
    BY <1>13 DEF TunSyn
  <2> QED
    BY <2>3, <2>4, <2>5
<1>14. ASSUME NEW s \in Slots, TunClose(s) PROVE TypeOK'
  BY <1>14, DestroyType DEF TunClose
<1>15. ASSUME NEW s \in Slots, TunFatal(s) PROVE TypeOK'
  <2>1. sess' \in [Slots -> Session]
    BY <1>15 DEF TunFatal, Session
  <2> QED
    BY <1>15, <2>1 DEF TunFatal
<1>16. ASSUME EngTop PROVE TypeOK'
  BY <1>16 DEF EngTop, EPCs
<1>17. ASSUME EngSoftReset PROVE TypeOK'
  BY <1>17, DestroyType, CollectType DEF EngSoftReset, EPCs
<1>18. ASSUME EngWait PROVE TypeOK'
  <2>1. batch' \subseteq Items
    BY <1>18 DEF EngWait, Items
  <2> QED
    BY <1>18, <2>1 DEF EngWait, EPCs
<1>19. ASSUME EngWaitError PROVE TypeOK'
  BY <1>19 DEF EngWaitError, EPCs
<1>20. ASSUME EngTun PROVE TypeOK'
  BY <1>20 DEF EngTun, EPCs
<1>21. ASSUME EngTunEnd PROVE TypeOK'
  BY <1>21 DEF EngTunEnd, EPCs
<1>22. ASSUME EngKick PROVE TypeOK'
  BY <1>22, DestroyType DEF EngKick, EPCs
<1>23. ASSUME EngFlush PROVE TypeOK'
  BY <1>23, DestroyType DEF EngFlush, EPCs
<1>24. ASSUME NEW s \in Slots, EngEvent(s) PROVE TypeOK'
  BY <1>24, DestroyType DEF EngEvent
<1>25. ASSUME EngShutdown PROVE TypeOK'
  BY <1>25 DEF EngShutdown, EPCs
<1>26. ASSUME EngGc PROVE TypeOK'
  BY <1>26, DestroyType DEF EngGc, EPCs
<1>27. ASSUME EngNoGc PROVE TypeOK'
  BY <1>27 DEF EngNoGc, EPCs
<1>28. ASSUME EngCollect PROVE TypeOK'
  BY <1>28, CollectType DEF EngCollect, EPCs
<1>29. ASSUME EngCloseTun PROVE TypeOK'
  BY <1>29 DEF EngCloseTun, EPCs
<1>30. ASSUME EngStopPool PROVE TypeOK'
  BY <1>30 DEF EngStopPool, EPCs
<1>31. ASSUME EngJoin PROVE TypeOK'
  BY <1>31, DestroyType, CollectType DEF EngJoin, EPCs
<1>32. ASSUME Java PROVE TypeOK'
  BY <1>32 DEF Java, RcUpdateHost, RcFlag, RcKick, StopClear, StopSignal
<1>33. CASE Stopped \/ UNCHANGED vars
  BY <1>33 DEF Stopped, vars
<1> QED
  BY <1>1, <1>2, <1>3, <1>4, <1>5, <1>6, <1>7, <1>8, <1>9, <1>10, <1>11, <1>12,
     <1>13, <1>14, <1>15, <1>16, <1>17, <1>18, <1>19, <1>20, <1>21, <1>22, <1>23,
     <1>24, <1>25, <1>26, <1>27, <1>28, <1>29, <1>30, <1>31, <1>32, <1>33
  DEF Next, Worker, EngineStep

\* Every state of every instance is well typed.
\* Every field keeps its type, whatever the interleaving of the engine, its
\* workers and Java.
THEOREM TypeCorrect == Spec => []TypeOK
  BY InitType, NextType, PTL DEF Spec
-----------------------------------------------------------------------------
(* The inductive invariant.                                                *)

LEMMA InitIInv == Init => IInv
<1> SUFFICES ASSUME Init PROVE IInv
  OBVIOUS
<1>1. TypeOK
  BY InitType
<1>2. \A s \in Slots : sess[s] = Blank
  BY DEF Init
<1>3. WorkerShape
  BY DEF Init, WorkerShape, Busy
<1>4. Loans
  BY DEF Init, Loans
<1>5. FreeIsBlank
  BY <1>2 DEF FreeIsBlank
<1>6. Sockets
  BY <1>2 DEF Init, Sockets, Blank
<1>7. Registered /\ Delivered
  BY DEF Init, Registered, Delivered
<1> QED
  BY <1>1, <1>3, <1>4, <1>5, <1>6, <1>7 DEF IInv

\* What the invariant says of the pool and the sockets depends on three
\* fields of a session only: its memory, its loan and its descriptor.
Same(s) ==
    /\ \/ sess'[s].place = sess[s].place
       \/ sess[s].place = "hash" /\ sess'[s].place = "grave"
    /\ sess'[s].done = sess[s].done
    /\ sess'[s].fd = sess[s].fd
    /\ sess[s].place = "free" => sess'[s] = sess[s]

LEMMA QuietStep ==
  ASSUME IInv, TypeOK', \A s \in Slots : Same(s),
         UNCHANGED <<queue, wpc, wjob, wfd, open, epoll>>, Delivered'
  PROVE  IInv'
<1> USE DEF IInv, TypeOK
<1>1. WorkerShape'
  BY TcpLifeAssumption DEF WorkerShape, Same, Busy
<1>2. Loans'
  BY DEF Loans, OnLoan, Same
<1>3. FreeIsBlank'
  BY DEF FreeIsBlank, Same
<1>4. Sockets'
  BY DEF Sockets, Same
<1>5. Registered'
  BY DEF Registered, Same
<1> QED
  BY <1>1, <1>2, <1>3, <1>4, <1>5

\* Parking sessions that are in the hash touches none of the three.
LEMMA ParkFields ==
  ASSUME TypeOK, NEW S \in SUBSET {s \in Slots : InHash(s)}
  PROVE  \A s \in Slots :
           LET r == tcp_session_destroy(S)[s]
           IN /\ \/ r.place = sess[s].place
                 \/ sess[s].place = "hash" /\ r.place = "grave"
              /\ r.done = sess[s].done
              /\ r.fd = sess[s].fd
              /\ sess[s].place = "free" => r = sess[s]
  BY DEF TypeOK, tcp_session_destroy, InHash, Session

LEMMA ParkIsQuiet ==
  ASSUME TypeOK, NEW S \in SUBSET {s \in Slots : InHash(s)},
         sess' = tcp_session_destroy(S)
  PROVE  \A s \in Slots : Same(s)
  BY ParkFields DEF Same

\* Collecting frees sessions nobody has on loan, with their descriptors and
\* their registrations.  st is the table after the parking that went before.
LEMMA CollectStep ==
  ASSUME IInv, TypeOK', NEW st \in [Slots -> Session], tcp_graveyard_collect(st),
         \A s \in Slots : /\ st[s].place = "free" <=> sess[s].place = "free"
                          /\ st[s].done = sess[s].done
                          /\ st[s].fd = sess[s].fd
                          /\ sess[s].place = "free" => st[s] = sess[s],
         UNCHANGED <<queue, wpc, wjob, wfd>>, batch' = {}
  PROVE  IInv'
<1> DEFINE F == {s \in Slots : MayFree(st[s])}
           dead == {st[s].fd : s \in F}
<1> USE DEF TypeOK
<1>1. /\ sess' = [s \in Slots |-> IF s \in F THEN Blank ELSE st[s]]
      /\ open' = open \ dead
      /\ epoll' = [f \in Fds |-> IF f \in dead THEN None ELSE epoll[f]]
  BY DEF tcp_graveyard_collect
<1>2. \A s \in F : sess[s].done /\ sess[s].fd = st[s].fd
  BY DEF MayFree
<1>3. /\ \A w \in Workers : wjob[w] \notin F
      /\ \A i \in 1..Len(queue) : queue[i] \in Slots /\ queue[i] \notin F
  BY <1>2, TcpLifeAssumption DEF IInv, Loans, OnLoan
<1>4. \A s \in Slots : s \notin F => sess'[s] = st[s]
  BY <1>1
<1>5. \A s \in F : sess'[s] = Blank
  BY <1>1
<1> HIDE DEF F, dead
<1>6. WorkerShape'
  BY <1>3, <1>4, TcpLifeAssumption DEF IInv, WorkerShape, Busy
<1>7. Loans'
  BY <1>3, <1>4 DEF IInv, Loans, OnLoan
<1>8. FreeIsBlank'
  BY <1>4, <1>5 DEF IInv, FreeIsBlank
<1>9. /\ \A s \in Slots : sess'[s].fd # None => s \notin F /\ sess'[s].fd = sess[s].fd
      /\ \A s \in Slots : s \notin F => sess'[s].fd = sess[s].fd
  BY <1>4, <1>5 DEF Blank
<1>10. \A f : f \in dead <=> \E s \in F : sess[s].fd = f
  BY <1>2 DEF dead
<1>11. F \subseteq Slots
  BY DEF F
<1>12. Sockets'
  <2> USE DEF IInv, Sockets
  <2>1. \A w \in Workers : wfd[w] # None => wfd[w] \in open'
    BY <1>1, <1>10, <1>11
  <2>2. \A s \in Slots : sess'[s].fd # None => sess'[s].fd \in open'
    <3> SUFFICES ASSUME NEW s \in Slots, sess'[s].fd # None
                 PROVE  sess'[s].fd \in open'
      OBVIOUS
    <3>1. s \notin F /\ sess'[s].fd = sess[s].fd
      BY <1>9
    <3>2. sess[s].fd \in open
      BY <3>1
    <3>3. sess[s].fd \notin dead
      BY <3>1, <1>10, <1>11
    <3> QED
      BY <1>1, <3>1, <3>2, <3>3
  <2>3. \A s, t \in Slots : sess'[s].fd = sess'[t].fd /\ sess'[s].fd # None => s = t
    BY <1>9
  <2>4. \A w \in Workers, s \in Slots : wfd[w] = sess'[s].fd => wfd[w] = None
    BY <1>9
  <2>5. \A f \in open' : (\E w \in Workers : wfd[w] = f) \/ (\E s \in Slots : sess'[s].fd = f)
    <3> SUFFICES ASSUME NEW f \in open', \A w \in Workers : wfd[w] # f
                 PROVE  \E s \in Slots : sess'[s].fd = f
      OBVIOUS
    <3>1. f \in open /\ f \notin dead
      BY <1>1
    <3>2. PICK s \in Slots : sess[s].fd = f
      BY <3>1
    <3> QED
      BY <3>1, <3>2, <1>9, <1>10
  <2> QED
    BY <2>1, <2>2, <2>3, <2>4, <2>5
<1>13. Registered'
  BY <1>1, <1>9, <1>10 DEF IInv, Registered
<1>14. Delivered'
  BY DEF Delivered
<1> QED
  BY <1>6, <1>7, <1>8, <1>12, <1>13, <1>14 DEF IInv

-----------------------------------------------------------------------------
(* The steps of a worker.                                                  *)

LEMMA SocketsSame ==
  ASSUME Sockets, \A s \in Slots : sess'[s].fd = sess[s].fd, UNCHANGED <<wfd, open>>
  PROVE  Sockets'
  BY DEF Sockets

LEMMA WTakeInv ==
  ASSUME IInv, TypeOK', NEW w \in Workers, WTake(w) PROVE IInv'
<1> USE DEF IInv, TypeOK, WTake, WGoto, fdVars, engVars, WPCs
<1>1. WorkerShape'
  BY TcpLifeAssumption DEF WorkerShape, Busy, Loans, OnLoan
<1>2. Loans'
  BY TcpLifeAssumption DEF Loans, OnLoan, WorkerShape, Busy
<1>3. FreeIsBlank'
  BY DEF FreeIsBlank, Loans, OnLoan, WorkerShape, Busy
<1>4. Sockets'
  BY TcpLifeAssumption DEF Sockets, WorkerShape, Busy
<1>5. Registered'
  BY TcpLifeAssumption DEF Registered, WorkerShape, Busy, Sockets
<1>6. Delivered'
  BY DEF Delivered
<1> QED
  BY <1>1, <1>2, <1>3, <1>4, <1>5, <1>6

LEMMA WExitInv ==
  ASSUME IInv, TypeOK', NEW w \in Workers, WExit(w) PROVE IInv'
<1> USE DEF IInv, TypeOK, WExit, WGoto, fdVars, engVars, WPCs
<1>1. WorkerShape'
  BY TcpLifeAssumption DEF WorkerShape, Busy, Loans, OnLoan
<1>2. Loans'
  BY TcpLifeAssumption DEF Loans, OnLoan, WorkerShape, Busy
<1>3. FreeIsBlank'
  BY DEF FreeIsBlank, Loans, OnLoan, WorkerShape, Busy
<1>4. Sockets'
  BY TcpLifeAssumption DEF Sockets, WorkerShape, Busy
<1>5. Registered'
  BY TcpLifeAssumption DEF Registered, WorkerShape, Busy, Sockets
<1>6. Delivered'
  BY DEF Delivered
<1> QED
  BY <1>1, <1>2, <1>3, <1>4, <1>5, <1>6

LEMMA WSnapshotInv ==
  ASSUME IInv, TypeOK', NEW w \in Workers, WSnapshot(w) PROVE IInv'
<1> USE DEF IInv, TypeOK, WSnapshot, WGoto, fdVars, engVars, WPCs
<1>1. WorkerShape'
  BY TcpLifeAssumption DEF WorkerShape, Busy, Loans, OnLoan
<1>2. Loans'
  BY TcpLifeAssumption DEF Loans, OnLoan, WorkerShape, Busy
<1>3. FreeIsBlank'
  BY DEF FreeIsBlank, Loans, OnLoan, WorkerShape, Busy
<1>4. Sockets'
  BY TcpLifeAssumption DEF Sockets, WorkerShape, Busy
<1>5. Registered'
  BY TcpLifeAssumption DEF Registered, WorkerShape, Busy, Sockets
<1>6. Delivered'
  BY DEF Delivered
<1> QED
  BY <1>1, <1>2, <1>3, <1>4, <1>5, <1>6

LEMMA WSocketInv ==
  ASSUME IInv, TypeOK', NEW w \in Workers, WSocket(w) PROVE IInv'
<1> USE DEF IInv, TypeOK, WSocket, WGoto, fdVars, engVars, WPCs
<1>1. WorkerShape'
  BY TcpLifeAssumption DEF WorkerShape, Busy, Loans, OnLoan
<1>2. Loans'
  BY TcpLifeAssumption DEF Loans, OnLoan, WorkerShape, Busy
<1>3. FreeIsBlank'
  BY DEF FreeIsBlank, Loans, OnLoan, WorkerShape, Busy
<1>4. Sockets'
  BY TcpLifeAssumption DEF Sockets, WorkerShape, Busy
<1>5. Registered'
  BY TcpLifeAssumption DEF Registered, WorkerShape, Busy, Sockets
<1>6. Delivered'
  BY DEF Delivered
<1> QED
  BY <1>1, <1>2, <1>3, <1>4, <1>5, <1>6

LEMMA WHandshakeInv ==
  ASSUME IInv, TypeOK', NEW w \in Workers, WHandshake(w) PROVE IInv'
<1> USE DEF IInv, TypeOK, WHandshake, WGoto, fdVars, engVars, WPCs
<1>1. WorkerShape'
  BY TcpLifeAssumption DEF WorkerShape, Busy, Loans, OnLoan
<1>2. Loans'
  BY TcpLifeAssumption DEF Loans, OnLoan, WorkerShape, Busy
<1>3. FreeIsBlank'
  BY DEF FreeIsBlank, Loans, OnLoan, WorkerShape, Busy
<1>4. Sockets'
  BY TcpLifeAssumption DEF Sockets, WorkerShape, Busy
<1>5. Registered'
  BY TcpLifeAssumption DEF Registered, WorkerShape, Busy, Sockets
<1>6. Delivered'
  BY DEF Delivered
<1> QED
  BY <1>1, <1>2, <1>3, <1>4, <1>5, <1>6

LEMMA WStoreFdInv ==
  ASSUME IInv, TypeOK', NEW w \in Workers, WStoreFd(w) PROVE IInv'
<1> USE DEF IInv, TypeOK, WStoreFd, WGoto, fdVars, engVars, WPCs
<1>1. WorkerShape'
  BY TcpLifeAssumption DEF WorkerShape, Busy, Loans, OnLoan
<1>2. Loans'
  BY TcpLifeAssumption DEF Loans, OnLoan, WorkerShape, Busy
<1>3. FreeIsBlank'
  BY DEF FreeIsBlank, Loans, OnLoan, WorkerShape, Busy
<1>4. Sockets'
  BY TcpLifeAssumption DEF Sockets, WorkerShape, Busy
<1>5. Registered'
  BY TcpLifeAssumption DEF Registered, WorkerShape, Busy, Sockets
<1>6. Delivered'
  BY DEF Delivered
<1> QED
  BY <1>1, <1>2, <1>3, <1>4, <1>5, <1>6

LEMMA WStoreReadyInv ==
  ASSUME IInv, TypeOK', NEW w \in Workers, WStoreReady(w) PROVE IInv'
<1> USE DEF IInv, TypeOK, WStoreReady, WGoto, fdVars, engVars, WPCs
<1>1. WorkerShape'
  BY TcpLifeAssumption DEF WorkerShape, Busy, Loans, OnLoan
<1>2. Loans'
  BY TcpLifeAssumption DEF Loans, OnLoan, WorkerShape, Busy
<1>3. FreeIsBlank'
  BY DEF FreeIsBlank, Loans, OnLoan, WorkerShape, Busy
<1>4. Sockets'
  BY TcpLifeAssumption DEF Sockets, WorkerShape, Busy
<1>5. Registered'
  BY TcpLifeAssumption DEF Registered, WorkerShape, Busy, Sockets
<1>6. Delivered'
  BY DEF Delivered
<1> QED
  BY <1>1, <1>2, <1>3, <1>4, <1>5, <1>6

LEMMA WAddInv ==
  ASSUME IInv, TypeOK', NEW w \in Workers, WAdd(w) PROVE IInv'
<1> USE DEF IInv, TypeOK, WGoto, fdVars, engVars, WPCs
<1>1. /\ wpc[w] = "add" /\ wpc' = [wpc EXCEPT ![w] = "kick"]
      /\ UNCHANGED <<queue, wjob, wfd, open, batch, epc>>
  BY DEF WAdd
<1>2. wjob[w] \in Slots /\ sess[wjob[w]].fd \in Fds /\ sess[wjob[w]].place # "free"
  BY <1>1, TcpLifeAssumption DEF WorkerShape, Busy, Session, Loans, OnLoan
<1>3. /\ \A s \in Slots : Same(s)
      /\ FreeIsBlank'
  <2>1. CASE UNCHANGED sess
    BY <2>1 DEF Same, FreeIsBlank
  <2>2. CASE sess' = [sess EXCEPT ![wjob[w]].failed = TRUE]
    BY <1>2, <2>2 DEF Same, FreeIsBlank
  <2> QED
    BY <2>1, <2>2 DEF WAdd
<1>4. WorkerShape'
  BY <1>1, <1>3, TcpLifeAssumption DEF WorkerShape, Busy, Same
<1>5. Loans'
  <2>1. \A s \in Slots : /\ OnLoan(s) => OnLoan(s)'
                         /\ sess'[s].fd = sess[s].fd
    BY <1>3 DEF Same, OnLoan
  <2>2. \A i \in 1..Len(queue) : queue[i] \in Slots
    OBVIOUS
  <2> QED
    BY <1>1, <2>1, <2>2, TcpLifeAssumption DEF Loans, OnLoan
<1>6. Sockets'
  <2>1. \A s \in Slots : sess'[s].fd = sess[s].fd
    BY <1>3 DEF Same
  <2> QED
    BY <1>1, <2>1, SocketsSame
<1>7. Registered'
  <2>1. CASE epoll' = [epoll EXCEPT ![sess[wjob[w]].fd] = wjob[w]]
    BY <1>2, <1>3, <2>1 DEF Registered, Same
  <2>2. CASE UNCHANGED epoll
    BY <1>3, <2>2 DEF Registered, Same
  <2> QED
    BY <2>1, <2>2 DEF WAdd
<1>8. Delivered'
  BY <1>1, <1>3 DEF Delivered, Same
<1> QED
  BY <1>3, <1>4, <1>5, <1>6, <1>7, <1>8

LEMMA WFailInv ==
  ASSUME IInv, TypeOK', NEW w \in Workers, WFail(w) PROVE IInv'
<1> USE DEF IInv, TypeOK, WFail, WGoto, fdVars, engVars, WPCs
<1>1. WorkerShape'
  BY TcpLifeAssumption DEF WorkerShape, Busy, Loans, OnLoan
<1>2. Loans'
  BY TcpLifeAssumption DEF Loans, OnLoan, WorkerShape, Busy
<1>3. FreeIsBlank'
  BY DEF FreeIsBlank, Loans, OnLoan, WorkerShape, Busy
<1>4. Sockets'
  BY TcpLifeAssumption DEF Sockets, WorkerShape, Busy
<1>5. Registered'
  BY TcpLifeAssumption DEF Registered, WorkerShape, Busy, Sockets
<1>6. Delivered'
  BY DEF Delivered
<1> QED
  BY <1>1, <1>2, <1>3, <1>4, <1>5, <1>6

LEMMA WKickInv ==
  ASSUME IInv, TypeOK', NEW w \in Workers, WKick(w) PROVE IInv'
<1> USE DEF IInv, TypeOK, WKick, WGoto, fdVars, engVars, WPCs
<1>1. WorkerShape'
  BY TcpLifeAssumption DEF WorkerShape, Busy, Loans, OnLoan
<1>2. Loans'
  BY TcpLifeAssumption DEF Loans, OnLoan, WorkerShape, Busy
<1>3. FreeIsBlank'
  BY DEF FreeIsBlank, Loans, OnLoan, WorkerShape, Busy
<1>4. Sockets'
  BY TcpLifeAssumption DEF Sockets, WorkerShape, Busy
<1>5. Registered'
  BY TcpLifeAssumption DEF Registered, WorkerShape, Busy, Sockets
<1>6. Delivered'
  BY DEF Delivered
<1> QED
  BY <1>1, <1>2, <1>3, <1>4, <1>5, <1>6

LEMMA WDoneInv ==
  ASSUME IInv, TypeOK', NEW w \in Workers, WDone(w) PROVE IInv'
<1> USE DEF IInv, TypeOK, WDone, WGoto, fdVars, engVars, WPCs
<1>1. WorkerShape'
  BY TcpLifeAssumption DEF WorkerShape, Busy, Loans, OnLoan
<1>2. Loans'
  BY TcpLifeAssumption DEF Loans, OnLoan, WorkerShape, Busy
<1>3. FreeIsBlank'
  BY DEF FreeIsBlank, Loans, OnLoan, WorkerShape, Busy
<1>4. Sockets'
  <2>1. \A s \in Slots : sess'[s].fd = sess[s].fd
    OBVIOUS
  <2>2. UNCHANGED <<wfd, open>>
    OBVIOUS
  <2> QED
    BY <2>1, <2>2 DEF Sockets
<1>5. Registered'
  BY TcpLifeAssumption DEF Registered, WorkerShape, Busy, Sockets
<1>6. Delivered'
  BY DEF Delivered
<1> QED
  BY <1>1, <1>2, <1>3, <1>4, <1>5, <1>6

LEMMA WDecInv ==
  ASSUME IInv, TypeOK', NEW w \in Workers, WDec(w) PROVE IInv'
<1> USE DEF IInv, TypeOK, WDec, WGoto, fdVars, engVars, WPCs
<1>1. WorkerShape'
  BY TcpLifeAssumption DEF WorkerShape, Busy, Loans, OnLoan
<1>2. Loans'
  BY TcpLifeAssumption DEF Loans, OnLoan, WorkerShape, Busy
<1>3. FreeIsBlank'
  BY DEF FreeIsBlank, Loans, OnLoan, WorkerShape, Busy
<1>4. Sockets'
  BY TcpLifeAssumption DEF Sockets, WorkerShape, Busy
<1>5. Registered'
  BY TcpLifeAssumption DEF Registered, WorkerShape, Busy, Sockets
<1>6. Delivered'
  BY DEF Delivered
<1> QED
  BY <1>1, <1>2, <1>3, <1>4, <1>5, <1>6

-----------------------------------------------------------------------------
(* The steps of the engine.                                                *)

\* A new session has no descriptor; it is lent to the pool only unfinished.
LEMMA CreateStep ==
  ASSUME IInv, TypeOK', NEW S \in SUBSET {s \in Slots : InHash(s)},
         NEW n \in Slots \ Alloc, NEW x, x.place # "free", x.fd = None,
         sess' = [tcp_session_destroy(S) EXCEPT ![n] = x],
         \/ UNCHANGED queue
         \/ ~x.done /\ queue' = Append(queue, n),
         UNCHANGED <<wpc, wjob, wfd, open, epoll, batch, epc>>
  PROVE  IInv'
<1> USE DEF IInv, TypeOK
<1>1. /\ sess[n].place = "free" /\ sess[n] = Blank /\ sess[n].fd = None
      /\ sess'[n] = x
  <2>1. sess[n].place = "free"
    BY DEF Alloc
  <2>2. sess[n] = Blank
    BY <2>1 DEF FreeIsBlank
  <2>3. sess'[n] = x
    BY DEF tcp_session_destroy
  <2> QED
    BY <2>1, <2>2, <2>3 DEF Blank
<1>2. \A s \in Slots : s # n =>
        /\ sess'[s].place = "free" <=> sess[s].place = "free"
        /\ sess'[s].done = sess[s].done
        /\ sess'[s].fd = sess[s].fd
        /\ sess[s].place = "free" => sess'[s] = sess[s]
  <2>1. \A s \in Slots : s # n => sess'[s] = tcp_session_destroy(S)[s]
    BY DEF tcp_session_destroy
  <2> QED
    BY <2>1, ParkFields
<1>3. \A s \in Slots : sess'[s].fd = sess[s].fd
  BY <1>1, <1>2
<1>4. /\ \A w \in Workers : wjob[w] # n
      /\ \A i \in 1..Len(queue) : queue[i] \in Slots /\ queue[i] # n
  <2>1. \A i \in 1..Len(queue) : queue[i] \in Slots
    OBVIOUS
  <2> QED
    BY <1>1, <2>1, TcpLifeAssumption DEF Loans, OnLoan
<1> HIDE DEF TypeOK
<1>5. WorkerShape'
  BY <1>3, TcpLifeAssumption DEF WorkerShape, Busy, TypeOK
<1>6. Loans'
  <2> DEFINE Lent(s) == sess'[s].place # "free" /\ ~sess'[s].done
  <2>1. \A w \in Workers : wjob[w] # None => Lent(wjob[w])
    BY <1>2, <1>4 DEF Loans, OnLoan, TypeOK
  <2>2. \A i \in 1..Len(queue) : Lent(queue[i]) /\ sess'[queue[i]].fd = None
    BY <1>2, <1>4 DEF Loans, OnLoan
  <2>3. CASE UNCHANGED queue
    BY <2>1, <2>2, <2>3 DEF Loans, OnLoan
  <2>4. CASE ~x.done /\ queue' = Append(queue, n)
    <3> queue \in Seq(Slots)
      BY DEF TypeOK
    <3>1. /\ Len(queue') = Len(queue) + 1 /\ Len(queue) \in Nat
          /\ \A i \in 1..Len(queue) : queue'[i] = queue[i]
          /\ queue'[Len(queue) + 1] = n
      BY <2>4
    <3>2. \A i \in 1..Len(queue') : i \in 1..Len(queue) \/ i = Len(queue) + 1
      BY <3>1
    <3>3. Lent(n) /\ sess'[n].fd = None
      BY <1>1, <2>4
    <3>4. \A i \in 1..Len(queue') : Lent(queue'[i]) /\ sess'[queue'[i]].fd = None
      BY <2>2, <3>1, <3>2, <3>3
    <3>5. \A i, j \in 1..Len(queue') : queue'[i] = queue'[j] => i = j
      BY <3>1, <3>2, <1>4 DEF Loans
    <3>6. \A w \in Workers, i \in 1..Len(queue') : wjob[w] # queue'[i]
      BY <3>1, <3>2, <1>4 DEF Loans
    <3> QED
      BY <2>1, <3>4, <3>5, <3>6 DEF Loans, OnLoan
  <2> QED
    BY <2>3, <2>4
<1>7. FreeIsBlank'
  BY <1>1, <1>2 DEF FreeIsBlank
<1>8. Sockets'
  BY <1>3, SocketsSame
<1>9. Registered'
  BY <1>3, TcpLifeAssumption DEF Registered, TypeOK
<1>10. Delivered'
  BY <1>1, <1>2 DEF Delivered
<1> QED
  BY <1>5, <1>6, <1>7, <1>8, <1>9, <1>10

LEMMA TunSynInv ==
  ASSUME IInv, TypeOK', NEW k \in Keys, TunSyn(k) PROVE IInv'
<1>1. SessionOf(k) \in SUBSET {s \in Slots : InHash(s)}
  BY DEF SessionOf, Live
<1>2. UNCHANGED <<wpc, wjob, wfd, open, epoll, batch, epc>>
  BY DEF TunSyn, fdVars, engVars
<1>3. CASE count >= MaxTcp
  <2>1. sess' = tcp_session_destroy(SessionOf(k)) /\ UNCHANGED queue
    BY <1>3 DEF TunSyn
  <2>2. \A s \in Slots : Same(s)
    BY <1>1, <2>1, ParkIsQuiet DEF IInv
  <2>3. Delivered'
    BY <1>2, <2>2 DEF IInv, Delivered, Same
  <2> QED
    BY <1>2, <2>1, <2>2, <2>3, QuietStep
<1>4. CASE ~(count >= MaxTcp)
  <2> DEFINE parked == [NewSession(k) EXCEPT !.closed = TRUE, !.place = "grave"]
  <2>1. PICK n \in Slots \ Alloc :
          \/ /\ sess' = [tcp_session_destroy(SessionOf(k)) EXCEPT ![n] = DnsSession(k)]
             /\ UNCHANGED queue
          \/ /\ sess' = [tcp_session_destroy(SessionOf(k)) EXCEPT ![n] = NewSession(k)]
             /\ queue' = Append(queue, n)
          \/ /\ sess' = [tcp_session_destroy(SessionOf(k)) EXCEPT ![n] = parked]
             /\ UNCHANGED queue
    BY <1>4 DEF TunSyn, hs_submit, SubmitFails
  <2>2. \A x \in {DnsSession(k), NewSession(k), parked} : x.place # "free" /\ x.fd = None
    BY DEF DnsSession, NewSession, Blank
  <2>3. ~NewSession(k).done
    BY DEF NewSession, Blank
  <2> QED
    BY <1>1, <1>2, <2>1, <2>2, <2>3, CreateStep
<1> QED
  BY <1>3, <1>4

\* Engine steps that park sessions or only move the engine thread along.
LEMMA EngineQuietSame ==
  ASSUME IInv,
         \/ \E s \in Slots : TunClose(s) \/ TunFatal(s) \/ EngEvent(s)
         \/ EngTop \/ EngWait \/ EngWaitError \/ EngTun \/ EngTunEnd \/ EngKick
         \/ EngFlush \/ EngShutdown \/ EngGc \/ EngNoGc \/ EngCloseTun
         \/ EngStopPool \/ Java \/ Stopped \/ UNCHANGED vars
  PROVE  /\ UNCHANGED <<queue, wpc, wjob, wfd, open, epoll>>
         /\ \A s \in Slots : Same(s)
<1> USE DEF EGoto, poolVars, fdVars, engVars, cfgVars
<1>1. UNCHANGED <<queue, wpc, wjob, wfd, open, epoll>>
  BY DEF TunClose, TunFatal, EngEvent, EngTop, EngWait, EngWaitError, EngTun, EngTunEnd,
     EngKick, EngFlush, EngShutdown, EngGc, EngNoGc, EngCloseTun, EngStopPool,
     Java, RcUpdateHost, RcFlag, RcKick, StopClear, StopSignal, Stopped, vars
<1>2. \A s \in Slots : Same(s)
  <2>1. ASSUME NEW t \in Slots, TunClose(t) \/ EngEvent(t) PROVE \A s \in Slots : Same(s)
    <3>1. CASE UNCHANGED sess
      BY <3>1 DEF Same
    <3>2. CASE InHash(t) /\ sess' = tcp_session_destroy({t})
      BY <3>2, ParkIsQuiet DEF IInv
    <3> QED
      BY <2>1, <3>1, <3>2 DEF TunClose, EngEvent, Live
  <2>2. ASSUME NEW t \in Slots, TunFatal(t) PROVE \A s \in Slots : Same(s)
    BY <2>2 DEF TunFatal, Live, InHash, Same, IInv, TypeOK, Session
  <2>3. ASSUME EngKick PROVE \A s \in Slots : Same(s)
    <3>1. PICK G \in SUBSET {s \in Slots : InHash(s)} : sess' = tcp_session_destroy(G)
      BY <2>3 DEF EngKick, UpTo, Live
    <3> QED
      BY <3>1, ParkIsQuiet DEF IInv
  <2>4. ASSUME EngFlush PROVE \A s \in Slots : Same(s)
    <3>1. PICK G \in SUBSET {s \in Slots : InHash(s)} : sess' = tcp_session_destroy(G)
      BY <2>4 DEF EngFlush, Live
    <3> QED
      BY <3>1, ParkIsQuiet DEF IInv
  <2>5. ASSUME EngGc PROVE \A s \in Slots : Same(s)
    <3>1. PICK G \in SUBSET {s \in Slots : InHash(s)} : sess' = tcp_session_destroy(G)
      BY <2>5 DEF EngGc, UpTo, Live
    <3> QED
      BY <3>1, ParkIsQuiet DEF IInv
  <2>6. ASSUME UNCHANGED sess PROVE \A s \in Slots : Same(s)
    BY <2>6 DEF Same
  <2> QED
    BY <2>1, <2>2, <2>3, <2>4, <2>5, <2>6
    DEF EngTop, EngWait, EngWaitError, EngTun, EngTunEnd, EngShutdown, EngNoGc, EngCloseTun,
        EngStopPool, Java, RcUpdateHost, RcFlag, RcKick, StopClear, StopSignal, Stopped, vars
<1> QED
  BY <1>1, <1>2

LEMMA EngineQuietInv ==
  ASSUME IInv, TypeOK',
         \/ \E s \in Slots : TunClose(s) \/ TunFatal(s) \/ EngEvent(s)
         \/ EngTop \/ EngWait \/ EngWaitError \/ EngTun \/ EngTunEnd \/ EngKick
         \/ EngFlush \/ EngShutdown \/ EngGc \/ EngNoGc \/ EngCloseTun
         \/ EngStopPool \/ Java \/ Stopped \/ UNCHANGED vars
  PROVE  IInv'
<1> USE DEF EGoto, poolVars, fdVars, engVars, cfgVars
<1>1. UNCHANGED <<queue, wpc, wjob, wfd, open, epoll>>
  BY EngineQuietSame
<1>2. \A s \in Slots : Same(s)
  BY EngineQuietSame
<1>3. Delivered'
  <2>1. ASSUME EngWait PROVE Delivered'
    <3>1. \A s \in batch' \cap Slots : \E f \in Fds : epoll[f] = s
      BY <2>1, TcpLifeAssumption DEF EngWait
    <3>2. \A f \in Fds : epoll[f] # None => sess[epoll[f]].place # "free"
      BY TcpLifeAssumption DEF IInv, Registered, FreeIsBlank, Blank, TypeOK
    <3>3. \A s \in batch' \cap Slots : sess[s].place # "free"
      BY <3>1, <3>2, TcpLifeAssumption
    <3> QED
      BY <2>1, <3>3 DEF EngWait, Delivered
  <2>2. ASSUME batch' \subseteq batch,
               epc' \in {"batch", "tun", "flush"} \/ batch' = {}
        PROVE  Delivered'
    BY <1>2, <2>2 DEF IInv, Delivered, Same
  <2>3. batch' \subseteq batch \/ EngWait
    BY DEF TunClose, TunFatal, EngEvent, EngTop, EngWaitError, EngTun, EngTunEnd,
     EngKick, EngFlush, EngShutdown, EngGc, EngNoGc, EngCloseTun, EngStopPool,
     Java, RcUpdateHost, RcFlag, RcKick, StopClear, StopSignal, Stopped, vars
  <2>4. epc' \in {"batch", "tun", "flush"} \/ batch' = {} \/ EngWait
    BY DEF IInv, Delivered, TunClose, TunFatal, EngEvent, EngTop, EngWaitError, EngTun, EngTunEnd,
     EngKick, EngFlush, EngShutdown, EngGc, EngNoGc, EngCloseTun, EngStopPool,
     Java, RcUpdateHost, RcFlag, RcKick, StopClear, StopSignal, Stopped, vars
  <2> QED
    BY <2>1, <2>2, <2>3, <2>4
<1> QED
  BY <1>1, <1>2, <1>3, QuietStep

LEMMA EngineCollectInv ==
  ASSUME IInv, TypeOK', EngSoftReset \/ EngCollect \/ EngJoin
  PROVE  IInv'
<1>1. UNCHANGED <<queue, wpc, wjob, wfd>> /\ batch' = {}
  BY DEF EngSoftReset, EngCollect, EngJoin, poolVars, IInv, Delivered
<1>2. CASE tcp_graveyard_collect(sess)
  BY <1>1, <1>2, CollectStep DEF IInv, TypeOK
<1>3. CASE tcp_graveyard_collect(tcp_session_destroy({s \in Slots : InHash(s)}))
  <2> DEFINE st == tcp_session_destroy({s \in Slots : InHash(s)})
  <2>1. st \in [Slots -> Session]
    BY DestroyType DEF IInv, TypeOK
  <2>2. \A s \in Slots : /\ st[s].place = "free" <=> sess[s].place = "free"
                         /\ st[s].done = sess[s].done
                         /\ st[s].fd = sess[s].fd
                         /\ sess[s].place = "free" => st[s] = sess[s]
    BY ParkFields DEF IInv
  <2> HIDE DEF st
  <2>3. tcp_graveyard_collect(st)
    BY <1>3 DEF st
  <2> QED
    BY <1>1, <2>1, <2>2, <2>3, CollectStep
<1> QED
  BY <1>2, <1>3 DEF EngSoftReset, EngCollect, EngJoin

LEMMA NextIInv == IInv /\ [Next]_vars => IInv'
<1> SUFFICES ASSUME IInv, [Next]_vars PROVE IInv'
  OBVIOUS
<1>1. TypeOK'
  BY NextType DEF IInv
<1>2. ASSUME NEW w \in Workers, Worker(w) PROVE IInv'
  BY <1>1, <1>2, WTakeInv, WExitInv, WSnapshotInv, WSocketInv, WHandshakeInv, WStoreFdInv,
     WStoreReadyInv, WAddInv, WFailInv, WKickInv, WDoneInv, WDecInv DEF Worker
<1>3. ASSUME NEW k \in Keys, TunSyn(k) PROVE IInv'
  BY <1>1, <1>3, TunSynInv
<1>4. CASE EngSoftReset \/ EngCollect \/ EngJoin
  BY <1>1, <1>4, EngineCollectInv
<1> QED
  BY <1>1, <1>2, <1>3, <1>4, EngineQuietInv DEF Next, EngineStep

\* The inductive invariant: what the engine, a worker and the queue may
\* assume about a session and its socket at every step of the others.
THEOREM Invariance == Spec => []IInv
  BY InitIInv, NextIInv, PTL DEF Spec

-----------------------------------------------------------------------------
(* What follows from it.                                                   *)

LEMMA IInvNoUseAfterFree == IInv => NoUseAfterFree
<1> SUFFICES ASSUME IInv PROVE NoUseAfterFree
  OBVIOUS
<1>1. ASSUME NEW s \in Queued PROVE sess[s].place # "free"
  BY <1>1 DEF Queued, IInv, Loans, OnLoan, TypeOK
<1>2. ASSUME NEW s \in Jobs PROVE sess[s].place # "free"
  BY <1>2 DEF Jobs, IInv, Loans, OnLoan
<1>3. ASSUME NEW s \in batch \cap Slots PROVE sess[s].place # "free"
  BY <1>3 DEF IInv, Delivered
<1>4. ASSUME NEW f \in Fds, epoll[f] # None
      PROVE  sess[epoll[f]].place # "free" /\ sess[epoll[f]].fd = f
  <2>1. epoll[f] \in Slots /\ sess[epoll[f]].fd = f /\ f # None
    BY <1>4, TcpLifeAssumption DEF IInv, Registered, TypeOK
  <2> QED
    BY <2>1 DEF IInv, FreeIsBlank, Blank
<1> QED
  BY <1>1, <1>2, <1>3, <1>4 DEF NoUseAfterFree, InUse

\* No interleaving of the engine, the workers, a soft reset and a stop leaves
\* a worker, a queued job, an epoll registration or an event of the current
\* round pointing at freed memory.
THEOREM UseAfterFreeImpossible == Spec => []NoUseAfterFree
  BY Invariance, IInvNoUseAfterFree, PTL

LEMMA IInvSocketOwnership == IInv => SocketOwnership
<1> SUFFICES ASSUME IInv, NEW f \in Fds
             PROVE  Cardinality(Holders(f)) = IF f \in open THEN 1 ELSE 0
  BY DEF SocketOwnership
<1>0. f # None
  BY TcpLifeAssumption
<1>1. CASE f \notin open
  <2>1. Holders(f) = {}
    BY <1>0, <1>1 DEF Holders, IInv, Sockets
  <2> QED
    BY <1>1, <2>1, FS_EmptySet
<1>2. CASE f \in open
  <2>1. PICK h : h \in Holders(f)
    BY <1>2 DEF Holders, IInv, Sockets
  <2>2. ASSUME NEW g \in Holders(f) PROVE g = h
    BY <1>0, <2>1, <2>2 DEF Holders, IInv, Sockets
  <2>3. Holders(f) = {h}
    BY <2>1, <2>2
  <2> QED
    BY <1>2, <2>3, FS_Singleton
<1> QED
  BY <1>1, <1>2

\* Every protected socket that Java has opened is held by exactly one worker
\* or session until it is released, and a released one by nobody.
THEOREM SocketsOwned == Spec => []SocketOwnership
  BY Invariance, IInvSocketOwnership, PTL

-----------------------------------------------------------------------------
(* The two-phase release: every step parks, lends, returns or frees.       *)

LEMMA StageType ==
  ASSUME TypeOK'
  PROVE  /\ Stage' \in [Slots -> Release!Stages]
         /\ InUse' \subseteq Slots
<1>1. Stage' \in [Slots -> Release!Stages]
  BY DEF Stage, Release!Stages
<1>2. InUse' \subseteq Slots
  <2>1. \A i \in DOMAIN queue' : queue'[i] \in Slots
    BY DEF TypeOK
  <2>2. \A w \in Workers : wjob'[w] \in Slots \cup {None}
    BY DEF TypeOK
  <2> QED
    BY <2>1, <2>2 DEF InUse, Queued, Jobs
<1> QED
  BY <1>1, <1>2

\* A step that frees and lends nothing.
LEMMA ParkStep ==
  ASSUME IInv, IInv', InUse' \subseteq InUse,
         \A s \in Slots : \/ sess'[s].place = sess[s].place
                          \/ sess[s].place = "hash" /\ sess'[s].place = "grave"
  PROVE  Release!TPNext
<1>1. /\ Stage' \in [Slots -> Release!Stages]
      /\ InUse' \subseteq Slots
  BY StageType DEF IInv
<1>2. ASSUME NEW s \in Slots PROVE Release!Return(s) \/ Release!Park(s)
  <2>1. CASE sess'[s].place = sess[s].place
    BY <2>1 DEF Release!Return, Stage
  <2>2. CASE sess[s].place = "hash" /\ sess'[s].place = "grave"
    BY <2>2 DEF Release!Park, Stage
  <2> QED
    BY <1>2, <2>1, <2>2
<1> QED
  BY <1>1, <1>2 DEF Release!TPNext

\* A worker takes a session from the queue or returns the one it has; it
\* parks and frees none.
LEMMA WorkerLoans ==
  ASSUME IInv, NEW w \in Workers, Worker(w)
  PROVE  /\ \A s \in Slots : sess'[s].place = sess[s].place
         /\ InUse' \subseteq InUse
         /\ \A s \in Slots : s \in InUse => s \in InUse' \/ sess'[s].done
         /\ \A s \in Slots : sess[s].done => sess'[s].done
<1> USE DEF IInv, TypeOK, WGoto, fdVars, engVars, cfgVars
<1>1. CASE WTake(w)
  <2>1. /\ queue # <<>> /\ queue \in Seq(Slots) /\ UNCHANGED sess
        /\ wjob[w] = None /\ wjob' = [wjob EXCEPT ![w] = Head(queue)]
        /\ queue' = Tail(queue)
    BY <1>1 DEF WTake, WorkerShape, Busy
  <2>2. Queued = {Head(queue)} \cup Queued'
    <3>1. /\ Len(queue) \in Nat /\ Len(queue) >= 1 /\ Len(queue') = Len(queue) - 1
          /\ Head(queue) = queue[1]
          /\ \A i \in 1..Len(queue') : queue'[i] = queue[i + 1]
      BY <2>1
    <3>2. /\ DOMAIN queue = 1..Len(queue)
          /\ DOMAIN queue' = 1..Len(queue')
      BY <2>1
    <3>3. ASSUME NEW s \in Queued PROVE s = Head(queue) \/ s \in Queued'
      <4>1. PICK i \in 1..Len(queue) : s = queue[i]
        BY <3>2, <3>3 DEF Queued
      <4>2. CASE i = 1
        BY <3>1, <4>1, <4>2
      <4>3. CASE i # 1
        <5>1. i - 1 \in 1..Len(queue') /\ queue'[i - 1] = s
          BY <3>1, <4>1, <4>3
        <5> QED
          BY <3>2, <5>1 DEF Queued
      <4> QED
        BY <4>2, <4>3
    <3>4. ASSUME NEW s \in Queued' PROVE s \in Queued
      <4>1. PICK i \in 1..Len(queue') : s = queue'[i]
        BY <3>2, <3>4 DEF Queued
      <4>2. i + 1 \in 1..Len(queue) /\ queue[i + 1] = s
        BY <3>1, <4>1
      <4> QED
        BY <3>2, <4>2 DEF Queued
    <3>5. Head(queue) \in Queued
      BY <3>1, <3>2 DEF Queued
    <3> QED
      BY <3>3, <3>4, <3>5
  <2>3. Jobs' = Jobs \cup {Head(queue)}
    <3>1. Head(queue) # None
      BY <2>1, TcpLifeAssumption
    <3> QED
      BY <2>1, <3>1 DEF Jobs
  <2> QED
    BY <2>1, <2>2, <2>3 DEF InUse
<1>2. CASE WDone(w)
  <2>1. /\ wjob[w] \in Slots /\ sess' = [sess EXCEPT ![wjob[w]].done = TRUE]
        /\ wjob' = [wjob EXCEPT ![w] = None] /\ UNCHANGED queue
    BY <1>2, TcpLifeAssumption DEF WDone, WorkerShape, Busy
  <2>2. /\ \A s \in Slots : sess'[s].place = sess[s].place
        /\ \A s \in Slots : sess[s].done => sess'[s].done
        /\ sess'[wjob[w]].done
    BY <2>1
  <2>3. Jobs' \subseteq Jobs /\ \A s \in Jobs : s \in Jobs' \/ s = wjob[w]
    BY <2>1 DEF Jobs
  <2> QED
    BY <2>1, <2>2, <2>3 DEF InUse, Queued
<1>3. ASSUME UNCHANGED <<queue, wjob>>,
             /\ \A s \in Slots : sess'[s].place = sess[s].place
             /\ \A s \in Slots : sess[s].done => sess'[s].done
      PROVE  /\ \A s \in Slots : sess'[s].place = sess[s].place
             /\ InUse' \subseteq InUse
             /\ \A s \in Slots : s \in InUse => s \in InUse' \/ sess'[s].done
             /\ \A s \in Slots : sess[s].done => sess'[s].done
  BY <1>3 DEF InUse, Queued, Jobs
<1>4. ASSUME ~WTake(w), ~WDone(w)
      PROVE  /\ UNCHANGED <<queue, wjob>>
             /\ \A s \in Slots : sess'[s].place = sess[s].place
             /\ \A s \in Slots : sess[s].done => sess'[s].done
  <2>1. UNCHANGED <<queue, wjob>>
    BY <1>4 DEF Worker, WExit, WSnapshot, WSocket, WHandshake, WStoreFd, WStoreReady,
       WAdd, WFail, WKick, WDec
  <2>2. ASSUME UNCHANGED sess
        PROVE  \A s \in Slots : sess'[s].place = sess[s].place /\ sess'[s].done = sess[s].done
    BY <2>2
  <2>3. ASSUME WSnapshot(w) \/ WStoreFd(w) \/ WStoreReady(w) \/ WFail(w)
               \/ sess' = [sess EXCEPT ![wjob[w]].failed = TRUE]
        PROVE  \A s \in Slots : sess'[s].place = sess[s].place /\ sess'[s].done = sess[s].done
    <3>1. \A s \in Slots : s # wjob[w] => sess'[s] = sess[s]
      BY <2>3 DEF WSnapshot, WStoreFd, WStoreReady, WFail
    <3>2. ASSUME wjob[w] \in Slots
          PROVE  /\ sess'[wjob[w]].place = sess[wjob[w]].place
                 /\ sess'[wjob[w]].done = sess[wjob[w]].done
      <4>1. sess[wjob[w]] \in Session
        BY <3>2
      <4> QED
        BY <2>3, <3>2, <4>1 DEF WSnapshot, WStoreFd, WStoreReady, WFail, Session
    <3> QED
      BY <3>1, <3>2
  <2> QED
    BY <1>4, <2>1, <2>2, <2>3
    DEF Worker, WExit, WSocket, WHandshake, WAdd, WKick, WDec
<1> QED
  BY <1>1, <1>2, <1>3, <1>4

\* What a step does to a session it neither creates nor frees.
Kept(s) ==
    /\ \/ sess'[s].place = sess[s].place
       \/ sess[s].place = "hash" /\ sess'[s].place = "grave"
    /\ sess'[s].done = sess[s].done

\* SYN: the old session of the endpoint is parked, a new one is created and,
\* when it waits for thread_done, lent to the pool.
LEMMA CreateLoans ==
  ASSUME IInv, NEW k \in Keys, TunSyn(k)
  PROVE  \/ InUse' = InUse /\ \A s \in Slots : Kept(s)
         \/ \E n \in Slots :
              /\ \A s \in Slots \ {n} : Kept(s)
              /\ sess[n].place = "free" /\ sess'[n].place \in {"hash", "grave"}
              /\ InUse \subseteq InUse' /\ InUse' \subseteq InUse \cup {n}
              /\ sess'[n].done \/ n \in InUse' \/ ~poolOn \/ JobAllocFails
<1> DEFINE st == tcp_session_destroy(SessionOf(k))
           parked == [NewSession(k) EXCEPT !.closed = TRUE, !.place = "grave"]
<1>1. \A s \in Slots :
        /\ st[s].place = sess[s].place \/ (sess[s].place = "hash" /\ st[s].place = "grave")
        /\ st[s].done = sess[s].done
  <2>1. SessionOf(k) \in SUBSET {s \in Slots : InHash(s)}
    BY DEF SessionOf, Live
  <2> QED
    BY <2>1, ParkFields DEF IInv
<1>2. UNCHANGED wjob
  BY DEF TunSyn
<1>3. DOMAIN st = Slots
  BY DEF tcp_session_destroy
<1>4. CASE sess' = st /\ UNCHANGED queue
  <2>1. InUse' = InUse
    BY <1>2, <1>4 DEF InUse, Queued, Jobs
  <2> HIDE DEF st
  <2> QED
    BY <1>1, <1>4, <2>1 DEF Kept
<1>5. CASE ~(count >= MaxTcp)
  <2>1. PICK n \in Slots \ Alloc :
          \/ /\ sess' = [st EXCEPT ![n] = DnsSession(k)]
             /\ UNCHANGED queue
          \/ /\ sess' = [st EXCEPT ![n] = NewSession(k)]
             /\ queue' = Append(queue, n)
          \/ /\ sess' = [st EXCEPT ![n] = parked]
             /\ UNCHANGED queue
             /\ ~poolOn \/ JobAllocFails
    BY <1>5 DEF TunSyn, hs_submit, SubmitFails
  <2>2. /\ DnsSession(k).place = "hash" /\ DnsSession(k).done
        /\ NewSession(k).place = "hash" /\ parked.place = "grave"
    BY DEF DnsSession, NewSession, Blank
  <2>3. sess[n].place = "free"
    BY <2>1 DEF Alloc
  <2> HIDE DEF st, parked
  <2>4. \A s \in Slots \ {n} : sess'[s] = st[s]
    BY <2>1, <1>3
  <2>5. CASE UNCHANGED queue
    <3>1. InUse' = InUse
      BY <1>2, <2>5 DEF InUse, Queued, Jobs
    <3>2. sess'[n].place \in {"hash", "grave"}
      BY <2>1, <2>2, <1>3
    <3>3. sess'[n].done \/ ~poolOn \/ JobAllocFails \/ queue' = Append(queue, n)
      BY <2>1, <2>2, <1>3
    <3>4. queue' # Append(queue, n)
      BY <2>5 DEF IInv, TypeOK
    <3> QED
      BY <1>1, <2>1, <2>3, <2>4, <3>1, <3>2, <3>3, <3>4 DEF Kept
  <2>6. CASE queue' = Append(queue, n)
    <3>1. Queued' = Queued \cup {n}
      <4> queue \in Seq(Slots)
        BY DEF IInv, TypeOK
      <4>1. /\ Len(queue) \in Nat /\ DOMAIN queue = 1..Len(queue)
            /\ DOMAIN queue' = 1..(Len(queue) + 1)
            /\ \A i \in 1..Len(queue) : queue'[i] = queue[i]
            /\ queue'[Len(queue) + 1] = n
        BY <2>6
      <4>2. ASSUME NEW s \in Queued' PROVE s \in Queued \cup {n}
        <5>1. PICK i \in 1..(Len(queue) + 1) : s = queue'[i]
          BY <4>1, <4>2 DEF Queued
        <5>2. i \in 1..Len(queue) \/ i = Len(queue) + 1
          BY <4>1
        <5> QED
          BY <4>1, <5>1, <5>2 DEF Queued
      <4>3. ASSUME NEW s \in Queued PROVE s \in Queued'
        <5>1. PICK i \in 1..Len(queue) : s = queue[i]
          BY <4>1, <4>3 DEF Queued
        <5>2. i \in DOMAIN queue' /\ queue'[i] = s
          BY <4>1, <5>1
        <5> QED
          BY <5>2 DEF Queued
      <4>4. n \in Queued'
        <5>1. Len(queue) + 1 \in DOMAIN queue'
          BY <4>1
        <5> QED
          BY <4>1, <5>1 DEF Queued
      <4> QED
        BY <4>2, <4>3, <4>4
    <3>2. InUse' = InUse \cup {n}
      BY <1>2, <3>1 DEF InUse, Jobs
    <3>3. sess'[n].place \in {"hash", "grave"}
      BY <2>1, <2>2, <1>3
    <3> QED
      BY <1>1, <2>1, <2>3, <2>4, <3>2, <3>3 DEF Kept
  <2> QED
    BY <2>1, <2>5, <2>6
<1> QED
  BY <1>4, <1>5 DEF TunSyn

\* Collecting frees only sessions that nobody has on loan.
LEMMA CollectLoans ==
  ASSUME IInv, EngSoftReset \/ EngCollect \/ EngJoin
  PROVE  /\ InUse' = InUse
         /\ \A s \in Slots : \/ Kept(s)
                             \/ /\ sess[s].place # "free" /\ sess'[s].place = "free"
                                /\ s \notin InUse
<1>1. InUse' = InUse
  BY DEF EngSoftReset, EngCollect, EngJoin, poolVars, InUse, Queued, Jobs
<1>2. PICK st \in [Slots -> Session] :
        /\ tcp_graveyard_collect(st)
        /\ \A s \in Slots :
             /\ st[s].place = sess[s].place \/ (sess[s].place = "hash" /\ st[s].place = "grave")
             /\ st[s].done = sess[s].done
  <2>1. CASE tcp_graveyard_collect(sess)
    BY <2>1 DEF IInv, TypeOK
  <2>2. CASE tcp_graveyard_collect(tcp_session_destroy({s \in Slots : InHash(s)}))
    BY <2>2, DestroyType, ParkFields DEF IInv, TypeOK
  <2> QED
    BY <2>1, <2>2 DEF EngSoftReset, EngCollect, EngJoin
<1>3. ASSUME NEW s \in Slots, sess[s].done PROVE s \notin InUse
  BY <1>3, TcpLifeAssumption DEF InUse, Queued, Jobs, IInv, Loans, OnLoan, TypeOK
<1>4. ASSUME NEW s \in Slots
      PROVE  \/ Kept(s)
             \/ sess[s].place # "free" /\ sess'[s].place = "free" /\ s \notin InUse
  <2>1. CASE MayFree(st[s])
    <3>1. sess'[s] = Blank
      BY <1>2, <2>1 DEF tcp_graveyard_collect
    <3> QED
      BY <1>2, <1>3, <2>1, <3>1 DEF MayFree, Blank
  <2>2. CASE ~MayFree(st[s])
    <3>1. sess'[s] = st[s]
      BY <1>2, <2>2 DEF tcp_graveyard_collect
    <3> QED
      BY <1>2, <3>1 DEF Kept
  <2> QED
    BY <2>1, <2>2
<1> QED
  BY <1>1, <1>4

\* The other steps of the engine and of Java neither create, lend nor free.
LEMMA QuietLoans ==
  ASSUME IInv,
         \/ \E s \in Slots : TunClose(s) \/ TunFatal(s) \/ EngEvent(s)
         \/ EngTop \/ EngWait \/ EngWaitError \/ EngTun \/ EngTunEnd \/ EngKick
         \/ EngFlush \/ EngShutdown \/ EngGc \/ EngNoGc \/ EngCloseTun
         \/ EngStopPool \/ Java \/ Stopped \/ UNCHANGED vars
  PROVE  InUse' = InUse /\ \A s \in Slots : Kept(s)
<1>1. UNCHANGED <<queue, wjob>> /\ \A s \in Slots : Same(s)
  BY EngineQuietSame
<1> QED
  BY <1>1 DEF InUse, Queued, Jobs, Same, Kept

LEMMA ReleaseInit == Init => Release!TPInit
<1> SUFFICES ASSUME Init PROVE Release!TPInit
  OBVIOUS
<1>1. \A s \in Slots : sess[s].place = "free"
  BY DEF Init, Blank
<1>2. Stage = [s \in Slots |-> "free"]
  BY <1>1 DEF Stage
<1>3. InUse = {}
  BY DEF Init, InUse, Queued, Jobs
<1> QED
  BY <1>2, <1>3 DEF Release!TPInit

LEMMA ReleaseNext == IInv /\ IInv' /\ [Next]_vars => Release!TPNext
<1> SUFFICES ASSUME IInv, IInv', [Next]_vars PROVE Release!TPNext
  OBVIOUS
<1>1. Stage' \in [Slots -> Release!Stages] /\ InUse' \subseteq Slots
  BY StageType DEF IInv
<1>2. ASSUME NEW s \in Slots, Kept(s), s \in InUse' => s \in InUse
      PROVE  Release!Return(s) \/ Release!Park(s)
  BY <1>2 DEF Kept, Stage, Release!Return, Release!Park
<1>3. ASSUME NEW w \in Workers, Worker(w) PROVE Release!TPNext
  BY <1>3, WorkerLoans, ParkStep
<1>4. ASSUME NEW k \in Keys, TunSyn(k) PROVE Release!TPNext
  <2>1. CASE InUse' = InUse /\ \A s \in Slots : Kept(s)
    BY <1>1, <1>2, <2>1 DEF Release!TPNext
  <2>2. CASE \E n \in Slots :
              /\ \A s \in Slots \ {n} : Kept(s)
              /\ sess[n].place = "free" /\ sess'[n].place \in {"hash", "grave"}
              /\ InUse' \subseteq InUse \cup {n}
    <3>1. PICK n \in Slots :
              /\ \A s \in Slots \ {n} : Kept(s)
              /\ sess[n].place = "free" /\ sess'[n].place \in {"hash", "grave"}
              /\ InUse' \subseteq InUse \cup {n}
      BY <2>2
    <3>2. Release!Create(n)
      BY <3>1 DEF Release!Create, Stage
    <3>3. ASSUME NEW s \in Slots \ {n} PROVE Release!Return(s) \/ Release!Park(s)
      BY <1>2, <3>1
    <3> QED
      BY <1>1, <3>2, <3>3 DEF Release!TPNext
  <2> QED
    BY <1>4, <2>1, <2>2, CreateLoans
<1>5. CASE EngSoftReset \/ EngCollect \/ EngJoin
  <2>1. ASSUME NEW s \in Slots, ~Kept(s) PROVE Release!Free(s)
    <3>1. /\ sess[s].place # "free" /\ sess'[s].place = "free"
          /\ s \notin InUse /\ s \notin InUse'
      BY <1>5, <2>1, CollectLoans
    <3>2. Stage'[s] = "free" /\ Stage[s] # "free"
      BY <3>1 DEF Stage, IInv, TypeOK, Session, Places
    <3> QED
      BY <3>1, <3>2 DEF Release!Free
  <2>2. ASSUME NEW s \in Slots, Kept(s) PROVE Release!Return(s) \/ Release!Park(s)
    BY <1>2, <1>5, <2>2, CollectLoans
  <2> QED
    BY <1>1, <2>1, <2>2 DEF Release!TPNext
<1>6. CASE ~(\E w \in Workers : Worker(w)) /\ ~(\E k \in Keys : TunSyn(k))
           /\ ~(EngSoftReset \/ EngCollect \/ EngJoin)
  <2>1. InUse' = InUse /\ \A s \in Slots : Kept(s)
    BY <1>6, QuietLoans DEF Next, EngineStep
  <2> QED
    BY <1>1, <1>2, <2>1 DEF Release!TPNext
<1> QED
  BY <1>3, <1>4, <1>5, <1>6

\* The engine, its workers and Java together implement the two-phase
\* release: each of their steps creates, lends, returns, parks or frees as
\* TwoPhase allows, or leaves the sessions alone.
THEOREM TwoPhaseRefined == Spec => RefinesTwoPhase
  BY Invariance, ReleaseInit, ReleaseNext, PTL DEF Spec, RefinesTwoPhase, Release!TPSpec

-----------------------------------------------------------------------------
(* Every unfinished session has a job.                                     *)

\* The pool stops only after the engine has left the loop that creates
\* sessions, so a submit cannot meet a stopped pool.
FinishInv == /\ SomeoneWillFinish
             /\ epc \in {"join", "stopped"} \/ poolOn

LEMMA FinishInit == Init => FinishInv
<1> SUFFICES ASSUME Init PROVE FinishInv
  OBVIOUS
<1>1. Alloc = {}
  BY DEF Init, Alloc, Blank
<1> QED
  BY <1>1 DEF Init, FinishInv, SomeoneWillFinish

LEMMA PoolOnNext ==
  ASSUME [Next]_vars, epc \in {"join", "stopped"} \/ poolOn
  PROVE  (epc \in {"join", "stopped"} \/ poolOn)'
<1> USE DEF poolVars, engVars, EGoto
<1>1. ASSUME NEW w \in Workers, Worker(w) PROVE UNCHANGED <<epc, poolOn>>
  BY <1>1 DEF Worker, WTake, WExit, WSnapshot, WSocket, WHandshake, WStoreFd, WStoreReady,
     WAdd, WFail, WKick, WDone, WDec
<1>2. ASSUME (\E k \in Keys : TunSyn(k))
               \/ (\E s \in Slots : TunClose(s) \/ TunFatal(s) \/ EngEvent(s))
               \/ Java \/ Stopped \/ UNCHANGED vars
      PROVE  UNCHANGED <<epc, poolOn>>
  BY <1>2 DEF TunSyn, TunClose, TunFatal, EngEvent, Java, RcUpdateHost, RcFlag, RcKick,
     StopClear, StopSignal, Stopped, vars
<1>3. ASSUME EngTop \/ EngWait \/ EngWaitError \/ EngTun \/ EngTunEnd \/ EngKick
               \/ EngFlush \/ EngShutdown \/ EngGc \/ EngNoGc \/ EngCloseTun
               \/ EngSoftReset \/ EngCollect
      PROVE  UNCHANGED poolOn /\ epc \notin {"join", "stopped"}
  BY <1>3 DEF EngTop, EngWait, EngWaitError, EngTun, EngTunEnd, EngKick, EngFlush,
     EngShutdown, EngGc, EngNoGc, EngCloseTun, EngSoftReset, EngCollect
<1>4. ASSUME EngStopPool \/ EngJoin PROVE epc' \in {"join", "stopped"}
  BY <1>4 DEF EngStopPool, EngJoin
<1> QED
  BY <1>1, <1>2, <1>3, <1>4 DEF Next, EngineStep

LEMMA FinishNext ==
  ASSUME ~JobAllocFails, IInv, IInv', FinishInv, [Next]_vars
  PROVE  FinishInv'
<1>1. (epc \in {"join", "stopped"} \/ poolOn)'
  BY PoolOnNext DEF FinishInv
\* A session that was there before: it keeps its job or is finished.
<1>2. ASSUME NEW s \in Slots, Kept(s), s \in InUse => s \in InUse',
             sess'[s].place # "free", ~sess'[s].done
      PROVE  s \in InUse'
  BY <1>2 DEF Kept, FinishInv, SomeoneWillFinish, Alloc
<1>3. ASSUME NEW w \in Workers, Worker(w) PROVE SomeoneWillFinish'
  BY <1>3, WorkerLoans DEF FinishInv, SomeoneWillFinish, Alloc
<1>4. ASSUME NEW k \in Keys, TunSyn(k) PROVE SomeoneWillFinish'
  <2>1. CASE InUse' = InUse /\ \A s \in Slots : Kept(s)
    BY <1>2, <2>1 DEF SomeoneWillFinish, Alloc
  <2>2. CASE \E n \in Slots :
              /\ \A s \in Slots \ {n} : Kept(s)
              /\ InUse \subseteq InUse'
              /\ sess'[n].done \/ n \in InUse' \/ ~poolOn \/ JobAllocFails
    <3>1. poolOn
      BY <1>4 DEF TunSyn, FinishInv
    <3> QED
      BY <1>2, <2>2, <3>1 DEF SomeoneWillFinish, Alloc
  <2> QED
    BY <1>4, <2>1, <2>2, CreateLoans
<1>5. CASE EngSoftReset \/ EngCollect \/ EngJoin
  BY <1>1, <1>2, <1>5, CollectLoans DEF FinishInv, SomeoneWillFinish, Alloc
<1>6. CASE ~(\E w \in Workers : Worker(w)) /\ ~(\E k \in Keys : TunSyn(k))
           /\ ~(EngSoftReset \/ EngCollect \/ EngJoin)
  <2>1. InUse' = InUse /\ \A s \in Slots : Kept(s)
    BY <1>6, QuietLoans DEF Next, EngineStep
  <2> QED
    BY <1>1, <1>2, <2>1 DEF FinishInv, SomeoneWillFinish, Alloc
<1> QED
  BY <1>1, <1>3, <1>4, <1>5, <1>6 DEF FinishInv

\* As long as malloc gives hs_submit its job, every session that still waits
\* for thread_done is queued or with a worker, so its memory and its place in
\* the session count cannot be lost.
THEOREM SomeoneFinishes ==
  ASSUME ~JobAllocFails PROVE Spec => []SomeoneWillFinish
<1>1. IInv /\ IInv' /\ FinishInv /\ [Next]_vars => FinishInv'
  BY FinishNext
<1>2. FinishInv => SomeoneWillFinish
  BY DEF FinishInv
<1> QED
  BY <1>1, <1>2, FinishInit, Invariance, PTL DEF Spec

-----------------------------------------------------------------------------
(* What a step carries over of a session that is live after it.            *)

\* The session was live before, for the same endpoint, and talks to the
\* server it talked to or to the present one.
Carries(s) ==
    Live(s)' => /\ Live(s) /\ sess'[s].key = sess[s].key
                /\ sess'[s].peer = sess[s].peer \/ sess'[s].peer = srvHost

LEMMA SameCarries ==
  ASSUME UNCHANGED sess
  PROVE  \A s \in Slots : Carries(s)
  BY DEF Carries, Live, InHash

LEMMA ParkCarries ==
  ASSUME TypeOK, NEW S, sess' = tcp_session_destroy(S)
  PROVE  \A s \in Slots : Carries(s)
  BY DEF Carries, Live, InHash, tcp_session_destroy, TypeOK, Session

LEMMA CollectCarries ==
  ASSUME TypeOK, NEW S, tcp_graveyard_collect(tcp_session_destroy(S))
  PROVE  \A s \in Slots : Carries(s) /\ (Live(s)' => s \notin S)
<1> SUFFICES ASSUME NEW s \in Slots, Live(s)'
             PROVE  Carries(s) /\ s \notin S
  BY DEF Carries
<1> DEFINE st == tcp_session_destroy(S)
<1>1. sess'[s] = Blank \/ sess'[s] = st[s]
  BY DEF tcp_graveyard_collect
<1>2. sess'[s] = st[s] /\ st[s].place = "hash"
  BY <1>1 DEF Live, InHash, Blank
<1>3. s \notin S /\ st[s] = sess[s]
  <2>1. s \in S => st[s] = [sess[s] EXCEPT !.closed = TRUE, !.place = "grave"]
    BY DEF tcp_session_destroy
  <2>2. s \in S => st[s].place = "grave"
    BY <2>1 DEF TypeOK, Session
  <2>3. s \notin S
    BY <1>2, <2>2
  <2> QED
    BY <2>3 DEF tcp_session_destroy
<1> QED
  BY <1>2, <1>3 DEF Carries, Live, InHash

LEMMA WorkerCarries ==
  ASSUME IInv, NEW w \in Workers, Worker(w)
  PROVE  \A s \in Slots : Carries(s)
<1>1. CASE UNCHANGED sess
  BY <1>1, SameCarries
<1>2. CASE \/ WSnapshot(w) \/ WStoreFd(w) \/ WStoreReady(w) \/ WFail(w) \/ WDone(w)
           \/ wpc[w] = "add" /\ sess' = [sess EXCEPT ![wjob[w]].failed = TRUE]
  <2> DEFINE j == wjob[w]
  <2>1. j \in Slots
    <3>1. wpc[w] \in Busy
      BY <1>2 DEF WSnapshot, WStoreFd, WStoreReady, WFail, WDone, Busy
    <3>2. j # None /\ j \in Slots \cup {None}
      BY <3>1 DEF IInv, TypeOK, WorkerShape
    <3> QED
      BY <3>2
  <2> HIDE DEF j
  <2>2. \/ sess' = [sess EXCEPT ![j].peer = srvHost]
        \/ sess' = [sess EXCEPT ![j].fd = wfd[w]]
        \/ sess' = [sess EXCEPT ![j].state = 1]
        \/ sess' = [sess EXCEPT ![j].failed = TRUE]
        \/ sess' = [sess EXCEPT ![j].done = TRUE]
    BY <1>2 DEF j, WSnapshot, WStoreFd, WStoreReady, WFail, WDone
  <2>3. \A s \in Slots \ {j} : sess'[s] = sess[s]
    BY <2>2 DEF IInv, TypeOK
  <2>4. /\ sess'[j].place = sess[j].place /\ sess'[j].closed = sess[j].closed
        /\ sess'[j].key = sess[j].key
        /\ sess'[j].peer = sess[j].peer \/ sess'[j].peer = srvHost
    <3>1. sess \in [Slots -> Session] /\ sess[j] \in Session
      BY <2>1 DEF IInv, TypeOK
    <3> QED
      BY <2>1, <2>2, <3>1 DEF Session
  <2> QED
    BY <2>3, <2>4 DEF Carries, Live, InHash
<1> QED
  BY <1>1, <1>2 DEF Worker, WTake, WExit, WSocket, WHandshake, WAdd, WKick, WDec

\* tcp_handle_packet closes the endpoint's old session before it makes the
\* new one.
LEMMA CreateCarries ==
  ASSUME IInv, NEW k \in Keys, TunSyn(k)
  PROVE  \/ \A s \in Slots : Carries(s)
         \/ \E n \in Slots :
              /\ \A s \in Slots \ {n} : Carries(s) /\ (Live(s)' => sess[s].key # k)
              /\ sess'[n].key = k /\ sess'[n].peer = None
<1> DEFINE st == tcp_session_destroy(SessionOf(k))
           parked == [NewSession(k) EXCEPT !.closed = TRUE, !.place = "grave"]
<1>1. CASE sess' = st
  BY <1>1, ParkCarries DEF IInv
<1>2. CASE ~(count >= MaxTcp)
  <2>1. PICK n \in Slots \ Alloc :
          \/ sess' = [st EXCEPT ![n] = DnsSession(k)]
          \/ sess' = [st EXCEPT ![n] = NewSession(k)]
          \/ sess' = [st EXCEPT ![n] = parked]
    BY <1>2 DEF TunSyn, hs_submit, SubmitFails
  <2>2. \A x \in {DnsSession(k), NewSession(k), parked} : x.key = k /\ x.peer = None
    BY DEF DnsSession, NewSession, Blank
  <2>3. DOMAIN st = Slots
    BY DEF tcp_session_destroy
  <2>4. \A s \in Slots : s \notin SessionOf(k) => st[s] = sess[s]
    BY DEF tcp_session_destroy
  <2>5. \A s \in SessionOf(k) : st[s].place = "grave"
    BY DEF tcp_session_destroy, SessionOf, IInv, TypeOK, Session
  <2> HIDE DEF st, parked
  <2>6. sess'[n].key = k /\ sess'[n].peer = None
    BY <2>1, <2>2, <2>3
  <2>7. ASSUME NEW s \in Slots \ {n}, Live(s)'
        PROVE  Carries(s) /\ sess[s].key # k
    <3>1. sess'[s] = st[s]
      BY <2>1, <2>3
    <3>2. s \notin SessionOf(k)
      BY <2>5, <2>7, <3>1 DEF Live, InHash
    <3>3. sess'[s] = sess[s]
      BY <2>4, <3>1, <3>2
    <3> QED
      BY <2>7, <3>2, <3>3 DEF Carries, Live, InHash, SessionOf
  <2>8. \A s \in Slots \ {n} : Carries(s) /\ (Live(s)' => sess[s].key # k)
    BY <2>7 DEF Carries
  <2> QED
    BY <2>6, <2>8
<1> QED
  BY <1>1, <1>2 DEF TunSyn

\* The other steps of the engine and of Java.
LEMMA QuietCarries ==
  ASSUME IInv,
         \/ \E s \in Slots : TunClose(s) \/ TunFatal(s) \/ EngEvent(s)
         \/ EngineStep \/ EngWaitError \/ Java \/ Stopped \/ UNCHANGED vars
  PROVE  \A s \in Slots : Carries(s)
<1>1. ASSUME NEW t \in Slots, TunFatal(t) PROVE \A s \in Slots : Carries(s)
  BY <1>1 DEF TunFatal, Carries, Live, InHash, IInv, TypeOK, Session
<1>2. ASSUME NEW S, sess' = tcp_session_destroy(S) PROVE \A s \in Slots : Carries(s)
  BY <1>2, ParkCarries DEF IInv
<1>3. CASE EngCollect
  <2>1. tcp_session_destroy({}) = sess
    BY DEF tcp_session_destroy, IInv, TypeOK
  <2> QED
    BY <1>3, <2>1, CollectCarries DEF EngCollect, IInv
<1>4. CASE EngSoftReset \/ EngJoin
  BY <1>4, CollectCarries DEF EngSoftReset, EngJoin, IInv
<1>5. ASSUME \E s \in Slots : TunClose(s) \/ EngEvent(s)
      PROVE  UNCHANGED sess \/ \E S : sess' = tcp_session_destroy(S)
  BY <1>5 DEF TunClose, EngEvent
<1>6. ASSUME EngKick \/ EngFlush \/ EngGc
      PROVE  \E S : sess' = tcp_session_destroy(S)
  BY <1>6 DEF EngKick, EngFlush, EngGc
<1>7. ASSUME EngTop \/ EngWait \/ EngWaitError \/ EngTun \/ EngTunEnd \/ EngShutdown
             \/ EngNoGc \/ EngCloseTun \/ EngStopPool \/ Java \/ Stopped \/ UNCHANGED vars
      PROVE  UNCHANGED sess
  BY <1>7 DEF EngTop, EngWait, EngWaitError, EngTun, EngTunEnd, EngShutdown, EngNoGc,
     EngCloseTun, EngStopPool, Java, RcUpdateHost, RcFlag, RcKick, StopClear, StopSignal,
     Stopped, vars
<1>8. \/ \E s \in Slots : TunFatal(s)
      \/ \E s \in Slots : TunClose(s) \/ EngEvent(s)
      \/ EngCollect \/ EngSoftReset \/ EngJoin \/ EngKick \/ EngFlush \/ EngGc
      \/ EngTop \/ EngWait \/ EngWaitError \/ EngTun \/ EngTunEnd \/ EngShutdown
      \/ EngNoGc \/ EngCloseTun \/ EngStopPool \/ Java \/ Stopped \/ UNCHANGED vars
  BY DEF EngineStep
<1> QED
  BY <1>1, <1>2, <1>3, <1>4, <1>5, <1>6, <1>7, <1>8, SameCarries

-----------------------------------------------------------------------------
(* One session per endpoint.                                               *)

LEMMA OneLiveNext ==
  ASSUME IInv, OneLivePerEndpoint, [Next]_vars
  PROVE  OneLivePerEndpoint'
<1>1. ASSUME \A s \in Slots : Carries(s) PROVE OneLivePerEndpoint'
  BY <1>1 DEF OneLivePerEndpoint, Carries
<1>2. ASSUME NEW k \in Keys, TunSyn(k) PROVE OneLivePerEndpoint'
  <2>1. ASSUME NEW n \in Slots,
               \A s \in Slots \ {n} : Carries(s) /\ (Live(s)' => sess[s].key # k),
               sess'[n].key = k
        PROVE  OneLivePerEndpoint'
    BY <2>1 DEF OneLivePerEndpoint, Carries
  <2> QED
    BY <1>1, <1>2, <2>1, CreateCarries
<1>3. CASE \E w \in Workers : Worker(w)
  BY <1>1, <1>3, WorkerCarries
<1>4. CASE ~(\E w \in Workers : Worker(w)) /\ ~(\E k \in Keys : TunSyn(k))
  BY <1>1, <1>4, QuietCarries DEF Next
<1> QED
  BY <1>2, <1>3, <1>4

\* An App endpoint never has two sessions that both take its packets
\* (tcp_handle_packet closes the failed one before it makes another).
THEOREM OneSessionPerEndpoint == Spec => []OneLivePerEndpoint
<1>1. Init => OneLivePerEndpoint
  BY DEF Init, OneLivePerEndpoint, Live, InHash, Blank
<1>2. IInv /\ OneLivePerEndpoint /\ [Next]_vars => OneLivePerEndpoint'
  BY OneLiveNext
<1> QED
  BY <1>1, <1>2, Invariance, PTL DEF Spec

-----------------------------------------------------------------------------
(* The server a session talks to.                                          *)

\* Only the top of the loop, a soft reset and Java touch what a pending
\* reset consists of.
LEMMA ResetKept ==
  ASSUME \/ \E w \in Workers : Worker(w)
         \/ \E k \in Keys : TunSyn(k)
         \/ \E s \in Slots : TunClose(s) \/ TunFatal(s) \/ EngEvent(s)
         \/ EngWait \/ EngTun \/ EngTunEnd \/ EngKick \/ EngFlush \/ EngShutdown \/ EngGc
         \/ EngNoGc \/ EngCollect \/ EngCloseTun \/ EngStopPool \/ EngJoin
         \/ Stopped \/ UNCHANGED vars
  PROVE  UNCHANGED <<srvHost, reset, rpc, running>> /\ (epc = "reset" => epc' = "reset")
<1> USE DEF poolVars, fdVars, engVars, cfgVars, EGoto
<1>1. ASSUME NEW w \in Workers, Worker(w)
      PROVE  UNCHANGED <<srvHost, reset, rpc, running, epc>>
  BY <1>1 DEF Worker, WTake, WExit, WSnapshot, WSocket, WHandshake, WStoreFd, WStoreReady,
     WAdd, WFail, WKick, WDone, WDec
<1>2. ASSUME \/ \E k \in Keys : TunSyn(k)
             \/ \E s \in Slots : TunClose(s) \/ TunFatal(s) \/ EngEvent(s)
             \/ Stopped \/ UNCHANGED vars
      PROVE  UNCHANGED <<srvHost, reset, rpc, running, epc>>
  BY <1>2 DEF TunSyn, TunClose, TunFatal, EngEvent, Stopped, vars
<1>3. ASSUME EngWait \/ EngTun \/ EngTunEnd \/ EngKick \/ EngFlush \/ EngShutdown \/ EngGc
             \/ EngNoGc \/ EngCollect \/ EngCloseTun \/ EngStopPool \/ EngJoin
      PROVE  UNCHANGED <<srvHost, reset, rpc, running>> /\ epc # "reset"
  BY <1>3 DEF EngWait, EngTun, EngTunEnd, EngKick, EngFlush, EngShutdown, EngGc, EngNoGc,
     EngCollect, EngCloseTun, EngStopPool, EngJoin
<1> QED
  BY <1>1, <1>2, <1>3

LEMMA NoStaleNext ==
  ASSUME IInv, NoStaleServer, [Next]_vars
  PROVE  NoStaleServer'
<1> USE DEF poolVars, fdVars, engVars, cfgVars, EGoto
<1>1. ASSUME UNCHANGED <<srvHost, reset, rpc, running>>, epc = "reset" => epc' = "reset",
             NEW s \in Slots, Carries(s), Live(s)', sess'[s].peer \notin {None, srvHost'}
      PROVE  ResetComing' \/ ~running'
  BY <1>1 DEF NoStaleServer, ResetComing, Carries
<1>2. ASSUME UNCHANGED <<srvHost, reset, rpc, running>>, epc = "reset" => epc' = "reset",
             \A s \in Slots : Carries(s)
      PROVE  NoStaleServer'
  BY <1>1, <1>2 DEF NoStaleServer
<1>3. CASE \E w \in Workers : Worker(w)
  BY <1>2, <1>3, WorkerCarries, ResetKept
<1>4. ASSUME NEW k \in Keys, TunSyn(k) PROVE NoStaleServer'
  <2>1. UNCHANGED <<srvHost, reset, rpc, running>> /\ (epc = "reset" => epc' = "reset")
    BY <1>4, ResetKept
  <2>2. CASE \A s \in Slots : Carries(s)
    BY <1>2, <2>1, <2>2
  <2>3. ASSUME NEW n \in Slots, \A s \in Slots \ {n} : Carries(s), sess'[n].peer = None
        PROVE  NoStaleServer'
    BY <1>1, <2>1, <2>3 DEF NoStaleServer
  <2> QED
    BY <1>4, <2>2, <2>3, CreateCarries
<1>5. CASE EngTop
  <2>1. \A s \in Slots : Carries(s)
    BY <1>5, SameCarries DEF EngTop
  <2>2. UNCHANGED <<srvHost, rpc, running>> /\ (ResetComing => ResetComing' \/ ~running')
    BY <1>5 DEF EngTop, ResetComing
  <2> QED
    BY <2>1, <2>2 DEF NoStaleServer, Carries
<1>6. CASE EngSoftReset
  <2>1. \A s \in Slots : Live(s)' => Live(s) /\ ~InHash(s)
    BY <1>6, CollectCarries DEF EngSoftReset, IInv, Carries
  <2> QED
    BY <2>1 DEF NoStaleServer, Live
<1>7. CASE EngWaitError \/ StopClear
  BY <1>7 DEF EngWaitError, StopClear, NoStaleServer
<1>8. CASE \E h \in Hosts : RcUpdateHost(h)
  BY <1>8 DEF RcUpdateHost, NoStaleServer, ResetComing
<1>9. CASE RcFlag
  BY <1>9 DEF RcFlag, NoStaleServer, ResetComing
<1>10. CASE RcKick \/ StopSignal
  <2>1. UNCHANGED <<sess, srvHost, reset, running, epc>> /\ (rpc = "flag" => rpc' = "flag")
    BY <1>10 DEF RcKick, StopSignal
  <2> QED
    BY <2>1 DEF NoStaleServer, ResetComing, Live, InHash
<1>11. CASE \/ \E s \in Slots : TunClose(s) \/ TunFatal(s) \/ EngEvent(s)
            \/ EngWait \/ EngTun \/ EngTunEnd \/ EngKick \/ EngFlush \/ EngShutdown \/ EngGc
            \/ EngNoGc \/ EngCollect \/ EngCloseTun \/ EngStopPool \/ EngJoin
            \/ Stopped \/ UNCHANGED vars
  <2>1. \A s \in Slots : Carries(s)
    BY <1>11, QuietCarries DEF EngineStep
  <2> QED
    BY <1>2, <1>11, <2>1, ResetKept
<1> QED
  BY <1>3, <1>4, <1>5, <1>6, <1>7, <1>8, <1>9, <1>10, <1>11 DEF Next, EngineStep, Java

\* After a reconnect a session that talks to the old server is about to be
\* reset (tun_socks_reconnect, srv_snapshot, engine_soft_reset).
THEOREM OldServerLeft == Spec => []NoStaleServer
<1>1. Init => NoStaleServer
  BY DEF Init, NoStaleServer, Live, InHash, Blank
<1>2. IInv /\ NoStaleServer /\ [Next]_vars => NoStaleServer'
  BY NoStaleNext
<1> QED
  BY <1>1, <1>2, Invariance, PTL DEF Spec

-----------------------------------------------------------------------------
(* The session count.                                                      *)

CountRight == count = Cardinality(Alloc) /\ count <= MaxTcp

LEMMA AllocFinite == IsFiniteSet(Alloc) /\ Cardinality(Alloc) \in Nat
<1>1. Alloc \in SUBSET Slots
  BY DEF Alloc
<1> QED
  BY <1>1, TcpLifeAssumption, FS_Subset, FS_CardinalityType

LEMMA CountKept ==
  ASSUME CountRight, UNCHANGED count,
         \A s \in Slots : sess'[s].place = "free" <=> sess[s].place = "free"
  PROVE  CountRight'
<1>1. Alloc' = Alloc
  BY DEF Alloc
<1> QED
  BY <1>1 DEF CountRight

LEMMA CountCreate ==
  ASSUME IInv, CountRight, NEW k \in Keys, TunSyn(k)
  PROVE  CountRight'
<1> DEFINE st == tcp_session_destroy(SessionOf(k))
           parked == [NewSession(k) EXCEPT !.closed = TRUE, !.place = "grave"]
<1>1. \A s \in Slots : st[s].place = "free" <=> sess[s].place = "free"
  <2>1. SessionOf(k) \in SUBSET {s \in Slots : InHash(s)}
    BY DEF SessionOf, Live
  <2> QED
    BY <2>1, ParkFields DEF IInv
<1>2. CASE count >= MaxTcp
  <2>1. sess' = st /\ UNCHANGED count
    BY <1>2 DEF TunSyn
  <2> HIDE DEF st
  <2> QED
    BY <1>1, <2>1, CountKept
<1>3. CASE ~(count >= MaxTcp)
  <2>1. PICK n \in Slots \ Alloc :
          /\ count' = count + 1
          /\ \/ sess' = [st EXCEPT ![n] = DnsSession(k)]
             \/ sess' = [st EXCEPT ![n] = NewSession(k)]
             \/ sess' = [st EXCEPT ![n] = parked]
    BY <1>3 DEF TunSyn, hs_submit, SubmitFails
  <2>2. \A x \in {DnsSession(k), NewSession(k), parked} : x.place # "free"
    BY DEF DnsSession, NewSession, Blank
  <2>3. DOMAIN st = Slots
    BY DEF tcp_session_destroy
  <2> HIDE DEF st, parked
  <2>4. sess'[n].place # "free" /\ \A s \in Slots \ {n} : sess'[s] = st[s]
    BY <2>1, <2>2, <2>3
  <2>5. Alloc' = Alloc \cup {n}
    BY <1>1, <2>1, <2>4 DEF Alloc
  <2>6. Cardinality(Alloc \cup {n}) = Cardinality(Alloc) + 1
    BY <2>1, AllocFinite, FS_AddElement
  <2>7. count' = Cardinality(Alloc')
    BY <2>1, <2>5, <2>6 DEF CountRight
  <2>8. count' <= MaxTcp
    BY <1>3, <2>1, AllocFinite, TcpLifeAssumption DEF CountRight
  <2> QED
    BY <2>7, <2>8 DEF CountRight
<1> QED
  BY <1>2, <1>3

LEMMA CountCollect ==
  ASSUME IInv, CountRight, EngSoftReset \/ EngCollect \/ EngJoin
  PROVE  CountRight'
<1>1. PICK st \in [Slots -> Session] :
        /\ tcp_graveyard_collect(st)
        /\ \A s \in Slots : st[s].place = "free" <=> sess[s].place = "free"
  <2>1. CASE tcp_graveyard_collect(sess)
    BY <2>1 DEF IInv, TypeOK
  <2>2. CASE tcp_graveyard_collect(tcp_session_destroy({s \in Slots : InHash(s)}))
    BY <2>2, DestroyType, ParkFields DEF IInv, TypeOK
  <2> QED
    BY <2>1, <2>2 DEF EngSoftReset, EngCollect, EngJoin
<1> DEFINE F == {s \in Slots : MayFree(st[s])}
<1>2. /\ sess' = [s \in Slots |-> IF s \in F THEN Blank ELSE st[s]]
      /\ count' = count - Cardinality(F)
  BY <1>1 DEF tcp_graveyard_collect
<1>3. F \subseteq Alloc
  BY <1>1 DEF MayFree, Alloc
<1> HIDE DEF F
<1>4. Alloc' = Alloc \ F
  BY <1>1, <1>2 DEF Alloc, Blank
<1>5. /\ Cardinality(Alloc \ F) = Cardinality(Alloc) - Cardinality(Alloc \cap F)
      /\ Cardinality(F) \in Nat
  <2>1. IsFiniteSet(F)
    BY <1>3, AllocFinite, FS_Subset
  <2> QED
    BY <2>1, AllocFinite, FS_Difference, FS_CardinalityType
<1>6. Alloc \cap F = F
  BY <1>3
<1>7. count' = Cardinality(Alloc') /\ count' <= count
  BY <1>2, <1>4, <1>5, <1>6, AllocFinite DEF CountRight
<1> QED
  BY <1>7, AllocFinite, TcpLifeAssumption DEF CountRight, IInv, TypeOK

LEMMA CountNext ==
  ASSUME IInv, CountRight, [Next]_vars
  PROVE  CountRight'
<1> USE DEF poolVars, fdVars, engVars, cfgVars, EGoto
<1>1. CASE \E w \in Workers : Worker(w)
  <2>1. UNCHANGED count
    BY <1>1 DEF Worker, WTake, WExit, WSnapshot, WSocket, WHandshake, WStoreFd, WStoreReady,
       WAdd, WFail, WKick, WDone, WDec
  <2>2. \A s \in Slots : sess'[s].place = sess[s].place
    BY <1>1, WorkerLoans
  <2> QED
    BY <2>1, <2>2, CountKept
<1>2. CASE \E k \in Keys : TunSyn(k)
  BY <1>2, CountCreate
<1>3. CASE EngSoftReset \/ EngCollect \/ EngJoin
  BY <1>3, CountCollect
<1>4. CASE \/ \E s \in Slots : TunClose(s) \/ TunFatal(s) \/ EngEvent(s)
           \/ EngTop \/ EngWait \/ EngWaitError \/ EngTun \/ EngTunEnd \/ EngKick
           \/ EngFlush \/ EngShutdown \/ EngGc \/ EngNoGc \/ EngCloseTun
           \/ EngStopPool \/ Java \/ Stopped \/ UNCHANGED vars
  <2>1. UNCHANGED count
    BY <1>4 DEF TunClose, TunFatal, EngEvent, EngTop, EngWait, EngWaitError, EngTun, EngTunEnd,
     EngKick, EngFlush, EngShutdown, EngGc, EngNoGc, EngCloseTun, EngStopPool,
     Java, RcUpdateHost, RcFlag, RcKick, StopClear, StopSignal, Stopped, vars
  <2>2. \A s \in Slots : sess'[s].place = "free" <=> sess[s].place = "free"
    BY <1>4, EngineQuietSame DEF Same
  <2> QED
    BY <2>1, <2>2, CountKept
<1> QED
  BY <1>1, <1>2, <1>3, <1>4 DEF Next, EngineStep

-----------------------------------------------------------------------------
(* The handshakes under way.                                               *)

Handling == {w \in Workers : wpc[w] \notin {"idle", "exited"}}

InflightRight == inflight = Len(queue) + Cardinality(Handling)

LEMMA HandlingFinite == IsFiniteSet(Handling) /\ Cardinality(Handling) \in Nat
<1>1. Handling \in SUBSET Workers
  BY DEF Handling
<1> QED
  BY <1>1, PoolAssumption, FS_Subset, FS_CardinalityType

LEMMA InflightNext ==
  ASSUME TypeOK, InflightRight, [Next]_vars
  PROVE  InflightRight'
<1> USE DEF poolVars, fdVars, engVars, cfgVars, WGoto, EGoto, TypeOK
<1>1. Len(queue) \in Nat
  OBVIOUS
<1>2. ASSUME NEW w \in Workers, WTake(w) PROVE InflightRight'
  <2>1. Handling' = Handling \cup {w} /\ w \notin Handling
    BY <1>2 DEF WTake, Handling
  <2>2. Len(queue') = Len(queue) - 1 /\ inflight' = inflight
    BY <1>2 DEF WTake
  <2>3. Cardinality(Handling') = Cardinality(Handling) + 1
    BY <2>1, HandlingFinite, FS_AddElement
  <2> QED
    BY <1>1, <2>2, <2>3, HandlingFinite DEF InflightRight
<1>3. ASSUME NEW w \in Workers, WDec(w) PROVE InflightRight'
  <2>1. Handling' = Handling \ {w} /\ w \in Handling
    BY <1>3 DEF WDec, Handling
  <2>2. queue' = queue /\ inflight' = inflight - 1
    BY <1>3 DEF WDec
  <2>3. Cardinality(Handling') = Cardinality(Handling) - 1
    BY <2>1, HandlingFinite, FS_RemoveElement
  <2> QED
    BY <1>1, <2>2, <2>3, HandlingFinite DEF InflightRight
<1>4. ASSUME NEW w \in Workers, Worker(w), ~WTake(w), ~WDec(w) PROVE InflightRight'
  <2>1. UNCHANGED <<queue, inflight>>
    BY <1>4 DEF Worker, WExit, WSnapshot, WSocket, WHandshake, WStoreFd, WStoreReady,
       WAdd, WFail, WKick, WDone
  <2>2. /\ \A v \in Workers \ {w} : wpc'[v] = wpc[v]
        /\ wpc[w] \in {"idle", "exited"} <=> wpc'[w] \in {"idle", "exited"}
    BY <1>4 DEF Worker, WExit, WSnapshot, WSocket, WHandshake, WStoreFd, WStoreReady,
       WAdd, WFail, WKick, WDone
  <2>3. Handling' = Handling
    BY <2>2 DEF Handling
  <2> QED
    BY <2>1, <2>3 DEF InflightRight
<1>5. ASSUME NEW k \in Keys, TunSyn(k) PROVE InflightRight'
  <2>1. Handling' = Handling
    BY <1>5 DEF TunSyn, Handling
  <2>2. \/ UNCHANGED <<queue, inflight>>
        \/ \E s \in Slots : queue' = Append(queue, s) /\ inflight' = inflight + 1
    BY <1>5 DEF TunSyn, hs_submit, SubmitFails
  <2>3. UNCHANGED <<queue, inflight>> \/ (Len(queue') = Len(queue) + 1 /\ inflight' = inflight + 1)
    BY <2>2
  <2> QED
    BY <1>1, <2>1, <2>3, HandlingFinite DEF InflightRight
<1>6. ASSUME UNCHANGED <<queue, inflight, wpc>> PROVE InflightRight'
  BY <1>6 DEF InflightRight, Handling
<1>7. CASE \/ \E s \in Slots : TunClose(s) \/ TunFatal(s) \/ EngEvent(s)
           \/ EngineStep \/ EngWaitError \/ Java \/ Stopped \/ UNCHANGED vars
  <2>1. UNCHANGED <<queue, inflight, wpc>>
    BY <1>7 DEF TunClose, TunFatal, EngEvent, EngineStep, EngTop, EngWait, EngWaitError, EngTun,
     EngTunEnd, EngKick, EngFlush, EngShutdown, EngGc, EngNoGc, EngCloseTun, EngStopPool,
     EngSoftReset, EngCollect, EngJoin,
     Java, RcUpdateHost, RcFlag, RcKick, StopClear, StopSignal, Stopped, vars
  <2> QED
    BY <1>6, <2>1
<1> QED
  BY <1>2, <1>3, <1>4, <1>5, <1>7 DEF Next

\* Each session is counted once as long as its memory is in use, each
\* handshake as long as it is queued or with a worker (g.tcp_session_count,
\* g.handshake_inflight).
THEOREM CountersRight == Spec => []CountersExact
<1>1. Init => CountRight /\ InflightRight
  <2> SUFFICES ASSUME Init PROVE CountRight /\ InflightRight
    OBVIOUS
  <2>1. Alloc = {} /\ Handling = {} /\ Len(queue) = 0 /\ count = 0 /\ inflight = 0
    BY DEF Init, Alloc, Handling, Blank
  <2> QED
    BY <2>1, FS_EmptySet, TcpLifeAssumption DEF CountRight, InflightRight
<1>2. IInv /\ CountRight /\ InflightRight /\ [Next]_vars => CountRight' /\ InflightRight'
  BY CountNext, InflightNext DEF IInv
<1>3. CountRight /\ InflightRight => CountersExact
  BY DEF CountRight, InflightRight, Handling, CountersExact
<1> QED
  BY <1>1, <1>2, <1>3, Invariance, PTL DEF Spec

-----------------------------------------------------------------------------
(* What a stop leaves behind.                                              *)

\* A worker leaves only an empty queue behind, which nobody fills again; the
\* engine thread ends only after all of them, and with every session freed.
StopInv ==
    /\ \A w \in Workers : wpc[w] = "exited" => ~poolOn /\ queue = <<>>
    /\ epc = "stopped" => Alloc = {} /\ \A w \in Workers : wpc[w] = "exited"

\* Nobody has a session on loan once all workers have left.
LEMMA NobodyAtWork ==
  ASSUME IInv, StopInv, \A w \in Workers : wpc[w] = "exited"
  PROVE  InUse = {} /\ queue = <<>>
<1>1. queue = <<>>
  BY PoolAssumption DEF StopInv
<1>2. \A w \in Workers : wjob[w] = None
  BY DEF IInv, WorkerShape, Busy
<1> QED
  BY <1>1, <1>2 DEF InUse, Queued, Jobs

\* So the collection at the end frees every session.
LEMMA JoinFrees ==
  ASSUME IInv, StopInv, SomeoneWillFinish, EngJoin
  PROVE  Alloc' = {}
<1> DEFINE st == tcp_session_destroy({s \in Slots : InHash(s)})
<1>1. \A s \in Slots : sess[s].place # "free" => sess[s].done
  BY NobodyAtWork DEF EngJoin, SomeoneWillFinish, Alloc
<1>2. \A s \in Slots : sess[s].place # "free" => MayFree(st[s])
  <2>1. \A s \in Slots : st[s].done = sess[s].done
    BY ParkFields DEF IInv
  <2>2. \A s \in Slots : sess[s].place # "free" => st[s].place = "grave"
    BY DEF tcp_session_destroy, InHash, IInv, TypeOK, Session, Places
  <2> QED
    BY <1>1, <2>1, <2>2 DEF MayFree
<1>3. \A s \in Slots : sess[s].place = "free" => st[s].place = "free"
  BY ParkFields DEF IInv
<1> HIDE DEF st
<1>4. sess' = [s \in Slots |-> IF MayFree(st[s]) THEN Blank ELSE st[s]]
  BY DEF EngJoin, tcp_graveyard_collect, st
<1>5. \A s \in Slots : sess'[s].place = "free"
  BY <1>2, <1>3, <1>4 DEF Blank
<1> QED
  BY <1>5 DEF Alloc

LEMMA StopNext ==
  ASSUME IInv, StopInv, FinishInv, [Next]_vars
  PROVE  StopInv'
<1> USE DEF poolVars, fdVars, engVars, cfgVars, WGoto, EGoto
<1>1. ASSUME NEW w \in Workers, Worker(w) PROVE StopInv'
  <2>1. wpc[w] # "exited" /\ UNCHANGED <<epc, poolOn>>
    BY <1>1 DEF Worker, WTake, WExit, WSnapshot, WSocket, WHandshake, WStoreFd, WStoreReady,
       WAdd, WFail, WKick, WDone, WDec
  <2>2. epc # "stopped"
    BY <2>1 DEF StopInv
  <2>3. \A v \in Workers : wpc'[v] = "exited" => wpc[v] = "exited" \/ (~poolOn /\ queue = <<>>)
    BY <1>1 DEF Worker, WTake, WExit, WSnapshot, WSocket, WHandshake, WStoreFd, WStoreReady,
       WAdd, WFail, WKick, WDone, WDec, IInv, TypeOK
  <2>4. queue = <<>> => queue' = <<>>
    BY <1>1 DEF Worker, WTake, WExit, WSnapshot, WSocket, WHandshake, WStoreFd, WStoreReady,
       WAdd, WFail, WKick, WDone, WDec
  <2> QED
    BY <2>1, <2>2, <2>3, <2>4 DEF StopInv
<1>2. ASSUME NEW k \in Keys, TunSyn(k) PROVE StopInv'
  <2>1. epc = "tun" /\ poolOn /\ UNCHANGED <<wpc, poolOn, epc>>
    BY <1>2 DEF TunSyn, FinishInv
  <2> QED
    BY <2>1 DEF StopInv
<1>3. CASE EngJoin
  <2>1. Alloc' = {} /\ \A w \in Workers : wpc[w] = "exited"
    BY <1>3, JoinFrees DEF FinishInv, EngJoin
  <2>2. UNCHANGED <<wpc, poolOn, queue>>
    BY <1>3 DEF EngJoin
  <2> QED
    BY <2>1, <2>2 DEF StopInv
<1>4. CASE EngStopPool
  BY <1>4 DEF EngStopPool, StopInv
<1>5. CASE \/ \E s \in Slots : TunClose(s) \/ TunFatal(s) \/ EngEvent(s)
           \/ EngTop \/ EngWait \/ EngTun \/ EngTunEnd \/ EngKick \/ EngFlush \/ EngShutdown
           \/ EngGc \/ EngNoGc \/ EngCollect \/ EngCloseTun \/ EngSoftReset \/ EngWaitError
  <2>1. UNCHANGED <<wpc, poolOn, queue>> /\ epc' # "stopped"
    BY <1>5 DEF TunClose, TunFatal, EngEvent, EngTop, EngWait, EngWaitError, EngTun,
     EngTunEnd, EngKick, EngFlush, EngShutdown, EngGc, EngNoGc, EngCloseTun, EngSoftReset,
     EngCollect
  <2> QED
    BY <2>1 DEF StopInv
<1>6. CASE Java \/ Stopped \/ UNCHANGED vars
  <2>1. UNCHANGED <<wpc, poolOn, queue, epc, sess>>
    BY <1>6 DEF Java, RcUpdateHost, RcFlag, RcKick, StopClear, StopSignal, Stopped, vars
  <2> QED
    BY <2>1 DEF StopInv, Alloc
<1> QED
  BY <1>1, <1>2, <1>3, <1>4, <1>5, <1>6 DEF Next, EngineStep

LEMMA StoppedClean ==
  ASSUME IInv, StopInv, CountersExact
  PROVE  CleanStop
<1> SUFFICES ASSUME epc = "stopped"
             PROVE  /\ Alloc = {} /\ open = {} /\ queue = <<>>
                    /\ count = 0 /\ inflight = 0
                    /\ \A f \in Fds : epoll[f] = None
  BY DEF CleanStop
<1>1. Alloc = {} /\ \A w \in Workers : wpc[w] = "exited"
  BY DEF StopInv
<1>2. queue = <<>>
  BY <1>1, NobodyAtWork
<1>3. \A s \in Slots : sess[s] = Blank
  BY <1>1 DEF Alloc, IInv, FreeIsBlank
<1>4. \A w \in Workers : wfd[w] = None
  BY <1>1 DEF IInv, WorkerShape
<1>5. open = {}
  <2>1. ASSUME NEW f \in open PROVE FALSE
    <3>1. f \in Fds /\ f # None
      BY TcpLifeAssumption DEF IInv, TypeOK
    <3> QED
      BY <1>3, <1>4, <3>1 DEF IInv, Sockets, Blank
  <2> QED
    BY <2>1
<1>6. \A f \in Fds : epoll[f] = None
  <2>1. ASSUME NEW f \in Fds, epoll[f] # None PROVE FALSE
    <3>1. epoll[f] \in Slots /\ f # None
      BY <2>1, TcpLifeAssumption DEF IInv, TypeOK
    <3> QED
      BY <1>3, <2>1, <3>1 DEF IInv, Registered, Blank
  <2> QED
    BY <2>1
<1>7. count = 0 /\ inflight = 0
  <2>1. {w \in Workers : wpc[w] \notin {"idle", "exited"}} = {}
    BY <1>1
  <2>2. Cardinality(Alloc) = 0 /\ Cardinality({w \in Workers : wpc[w] \notin {"idle", "exited"}}) = 0
    BY <1>1, <2>1, FS_EmptySet
  <2>3. Len(queue) = 0
    BY <1>2
  <2> QED
    BY <2>2, <2>3 DEF CountersExact
<1> QED
  BY <1>1, <1>2, <1>5, <1>6, <1>7

\* The sessions add up while the engine runs, and a stop leaves no session,
\* socket, registration or job behind (engine_loop's shutdown, hs_pool_stop,
\* tcp_shutdown_collect), as long as malloc gives hs_submit its job.
THEOREM BooksBalanced ==
  ASSUME ~JobAllocFails PROVE Spec => []BooksBalance
<1>1. Init => StopInv
  <2> SUFFICES ASSUME Init PROVE StopInv
    OBVIOUS
  <2>1. epc # "stopped" /\ \A w \in Workers : wpc[w] = "idle"
    BY DEF Init
  <2> QED
    BY <2>1 DEF StopInv
<1>2. IInv /\ IInv' /\ FinishInv /\ [Next]_vars => FinishInv'
  BY FinishNext
<1>3. IInv /\ FinishInv /\ StopInv /\ [Next]_vars => StopInv'
  BY StopNext
<1>4. IInv /\ StopInv /\ CountersExact => BooksBalance
  BY StoppedClean DEF BooksBalance
<1> QED
  BY <1>1, <1>2, <1>3, <1>4, FinishInit, Invariance, CountersRight, PTL DEF Spec

=============================================================================
