------------------------ MODULE EventLoopCountProofs ------------------------
(***************************************************************************)
(* The client counter and the timers, for every number of descriptors,     *)
(* workers and clients.                                                    *)
(***************************************************************************)
EXTENDS EventLoopProofs, FiniteSetTheorems

\* process() never closes a connection: only the main thread changes
\* m_user_count and the set of open descriptors.
OnlyMainCloses == "FAIL" \notin Outcomes

\* The counter is right wherever that is so, and then the test of main.c:218
\* limits the clients served at once ...
WithinMaxFd == Cardinality(open) <= MAX_FD

\* ... and timer_lst has one timer of every client, and no other (the
\* comments at main.c:277, 316 and 347).
TimersMatchConnections == AtRest => NoneLeftBehind

\* No connection was closed without its timer: a worker that closes one marks
\* the descriptor by a live timer, until accept() leaks it, and for ever then.
Unmarked ==
    /\ \A f \in FD : /\ ~leaked[f]
                     /\ timer[f] = "live" => f \in open \/ (mpc \in Closing /\ mfd = f)
    /\ Accepting => timer[mfd] # "live"

MarkInv == \A w \in Workers : wpc[w] \in WorkerClosing => timer[wjob[w]] = "live"

\* The counter lags behind the descriptors by the one the main thread is about
\* to count, or to forget; MAX_FD is tested before accept().
CountInv ==
    /\ mpc \notin {"init_load", "init_store"} \cup Closing => m_user_count = Cardinality(open)
    /\ Accepting => m_user_count = Cardinality(open) - 1
    /\ mpc \in Closing => m_user_count = Cardinality(open) + 1
    /\ mpc \in {"init_store", "cb_store"} => mtmp = m_user_count
    /\ WithinMaxFd

LEMMA CountsOfOpen ==
    ASSUME TypeOK, NEW f \in FD
    PROVE  /\ Cardinality(open) \in Nat
           /\ f \notin open => Cardinality(open \cup {f}) = Cardinality(open) + 1
           /\ f \in open => Cardinality(open \ {f}) = Cardinality(open) - 1
<1>1. IsFiniteSet(open)
  BY EventLoopAssumption, FS_Subset DEF TypeOK, KernelTypes
<1> QED
  BY <1>1, FS_CardinalityType, FS_AddElement, FS_RemoveElement

LEMMA CountInit == Init => MarkInv /\ Unmarked /\ CountInv
BY FS_EmptySet, EventLoopAssumption
   DEF Init, MarkInv, Unmarked, CountInv, Accepting, Closing, WorkerClosing, WithinMaxFd

\* Where the descriptor in hand is.
LEMMA InHand ==
    ASSUME TypeOK, OneShotInv
    PROVE  /\ \A f \in FD : interest[f] # "none" <=> f \in open
           /\ Accepting => mfd \in open /\ mfd \in FD
           /\ mpc \in Handling => mfd \in open /\ mfd \in FD
           /\ mpc \in Closing => mfd \notin open /\ mfd \in FD
BY Consts DEF TypeOK, KernelTypes, MainTypes, OneShotInv, Registered, MainPhase, Armed,
   Accepting, Handling, Closing

\* Steps that touch none of descriptors, counter and timers.
Aside ==
    \/ UNCHANGED <<open, m_user_count, timer, leaked, mpc, mfd, mtmp>>
    \/ /\ UNCHANGED <<open, m_user_count, timer, leaked>>
       /\ mpc \notin {"init_load", "init_store"} \cup Closing
       /\ mpc' \notin {"init_load", "init_store"} \cup Closing

LEMMA MainAside ==
    ASSUME TypeOK,
           \/ Clients \/ NotAccepted \/ EpollWait \/ ReadOnce \/ IOFails
           \/ WriteNothing \/ Write \/ WriteRearm \/ EndBatch
           \/ (\E f \in FD : Dispatch(f)) \/ UNCHANGED vars
    PROVE  Aside
<1> USE DEF Aside, Closing
<1>1. CASE Clients
  BY <1>1 DEF Clients, Connect, Send, HangUp, timers, main
<1>2. CASE NotAccepted
  BY <1>2 DEF NotAccepted, timers, main
<1>3. CASE EpollWait \/ ReadOnce \/ IOFails \/ WriteNothing \/ Write \/ WriteRearm \/ EndBatch
  BY <1>3 DEF EpollWait, ReadOnce, IOFails, WriteNothing, Write, WriteRearm, EndBatch,
     modfd, goto, kernel, timers
<1>4. ASSUME NEW f \in FD, Dispatch(f) PROVE Aside
  <2>1. event[f] \in {"HUP", "IN", "OUT"}
    BY <1>4 DEF Dispatch, TypeOK, MainTypes
  <2> QED
    BY <1>4, <2>1 DEF Dispatch, goto, kernel, timers
<1>5. CASE UNCHANGED vars
  BY <1>5 DEF vars, kernel, timers, main
<1> QED
  BY <1>1, <1>2, <1>3, <1>4, <1>5

\* What accept(), init() and the two halves of cb_func() change.
LEMMA AcceptFacts ==
    ASSUME TypeOK, NEW f \in FD, Accept(f)
    PROVE  /\ f \notin open /\ open' = open \cup {f} /\ m_user_count < MAX_FD
           /\ mpc = "dispatch" /\ mpc' = "init_load" /\ mfd' = f
           /\ UNCHANGED <<m_user_count, timer, leaked>>
BY EventLoopAssumption DEF Accept, FreeFds, busy, goto, timers, TypeOK, SlotTypes

LEMMA InitStoreFacts ==
    ASSUME TypeOK, InitStore
    PROVE  /\ open' = open /\ m_user_count' = mtmp + 1 /\ mfd \in FD
           /\ mpc = "init_store" /\ mpc' = "dispatch" /\ mfd' = NoFd
           /\ \A f \in FD : f # mfd => timer'[f] = timer[f] /\ leaked'[f] = leaked[f]
           /\ timer'[mfd] = "live"
           /\ leaked'[mfd] <=> leaked[mfd] \/ timer[mfd] = "live"
<1>1. mfd \in FD /\ timer \in [FD -> {"unset", "live", "dangling"}] /\ leaked \in [FD -> BOOLEAN]
  BY DEF InitStore, TypeOK, SlotTypes, MainTypes
<1> QED
  BY <1>1 DEF InitStore, add_timer, goto, kernel

LEMMA CbCloseFacts ==
    ASSUME TypeOK, OneShotInv, cb_func
    PROVE  /\ mfd \in FD /\ mfd \in open /\ open' = open \ {mfd}
           /\ mpc = "cb_close" /\ mpc' = "cb_load" /\ mfd' = mfd
           /\ UNCHANGED <<m_user_count, timer, leaked>>
BY InHand DEF cb_func, removefd, goto, timers, Handling

LEMMA CbStoreFacts ==
    ASSUME TypeOK, CbStore
    PROVE  /\ open' = open /\ m_user_count' = mtmp - 1 /\ mfd \in FD
           /\ mpc = "cb_store" /\ mpc' = "dispatch" /\ mfd' = NoFd
           /\ timer' = [timer EXCEPT ![mfd] = "dangling"] /\ leaked' = leaked
BY DEF CbStore, OneClientLess, del_timer, goto, kernel, TypeOK, MainTypes

\* A worker that closes a connection leaves a live timer behind.
LEMMA CloseConnFacts ==
    ASSUME TypeOK, OneShotInv, TimerInv, NEW w \in Workers, CloseConn(w)
    PROVE  /\ wjob[w] \in FD /\ open' = open \ {wjob[w]} /\ timer[wjob[w]] = "live"
           /\ mfd # wjob[w]
           /\ UNCHANGED <<m_user_count, timer, leaked, mpc, mfd, mtmp, wjob>>
           /\ wpc' = [wpc EXCEPT ![w] = "clear_sockfd"]
<1>1. wjob[w] \in FD /\ wjob[w] # NoFd /\ wjob[w] \in open /\ mfd # wjob[w]
  BY Consts DEF CloseConn, TypeOK, PoolTypes, OneShotInv, WorkerPhase, JobAlone
<1>2. m_sockfd[wjob[w]] = wjob[w] /\ interest[wjob[w]] # "none"
  BY <1>1 DEF OneShotInv, Registered
<1>3. timer[wjob[w]] = "live"
  BY <1>1, <1>2 DEF TimerInv
<1> QED
  BY <1>1, <1>2, <1>3 DEF CloseConn, removefd, step, timers, main

\* Other steps of a worker.
LEMMA WorkerAside ==
    ASSUME NEW w \in Workers, Worker(w), ~CloseConn(w)
    PROVE  /\ UNCHANGED <<open, timer, leaked, mpc, mfd, mtmp>>
           /\ wpc[w] \notin WorkerClosing => m_user_count' = m_user_count
<1>1. CASE Take(w) \/ Process(w) \/ Rearm(w)
  BY <1>1 DEF Take, Process, Rearm, modfd, kernel, timers, main
<1>2. CASE ClearSockfd(w) \/ DecLoad(w) \/ DecStore(w)
  BY <1>2 DEF ClearSockfd, DecLoad, DecStore, kernel, timers, main, WorkerClosing
<1> QED
  BY <1>1, <1>2 DEF Worker

LEMMA MarkStep ==
    TypeOK /\ OneShotInv /\ TimerInv /\ MarkInv /\ [Next]_vars => MarkInv'
<1> SUFFICES ASSUME TypeOK, OneShotInv, TimerInv, MarkInv, [Next]_vars PROVE MarkInv'
  OBVIOUS
<1>t. /\ timer \in [FD -> {"unset", "live", "dangling"}]
      /\ wpc \in [Workers -> WorkerPC]
      /\ wjob \in [Workers -> FD \cup {NoFd}]
      /\ \A w \in Workers : wjob[w] = NoFd <=> wpc[w] = "idle"
  BY DEF TypeOK, SlotTypes, PoolTypes
<1>j. \A w \in Workers : wpc[w] \in WorkerClosing => mfd # wjob[w] /\ wjob[w] \in FD
  BY <1>t DEF OneShotInv, JobAlone, WorkerClosing
<1> USE DEF MarkInv, WorkerClosing
<1>1. ASSUME UNCHANGED <<timer, wpc, wjob>> PROVE MarkInv'
  BY <1>1
<1>2. CASE Clients \/ EpollWait \/ NotAccepted \/ (\E f \in FD : Accept(f) \/ Dispatch(f))
  BY <1>1, <1>2 DEF Clients, Connect, Send, HangUp, EpollWait, NotAccepted, Accept, Dispatch,
     timers, pool
<1>3. CASE LoadCount \/ ReadOnce \/ IOFails \/ WriteNothing \/ Write \/ WriteRearm
           \/ cb_func \/ EndBatch \/ UNCHANGED vars
  BY <1>1, <1>3 DEF LoadCount, ReadOnce, IOFails, WriteNothing, Write, WriteRearm, cb_func,
     EndBatch, vars, timers, pool
<1>4. CASE InitStore
  BY <1>4, <1>j, <1>t, InitStoreFacts DEF InitStore, pool
<1>5. CASE CbStore
  BY <1>5, <1>j, <1>t, CbStoreFacts DEF CbStore, pool
<1>6. ASSUME NEW w \in Workers, Worker(w) PROVE MarkInv'
  <2>1. CASE CloseConn(w)
    BY <2>1, <1>t, CloseConnFacts
  <2>2. CASE ~CloseConn(w)
    <3>1. timer' = timer
      BY <1>6, <2>2, WorkerAside
    <3>2. \A v \in Workers : wpc'[v] \in WorkerClosing =>
             wpc[v] \in WorkerClosing /\ wjob'[v] = wjob[v]
      <4>1. CASE Take(w)
        BY <4>1, <1>t DEF Take, step
      <4>2. CASE Process(w)
        <5>1. PICK pc \in {"rearm_in", "rearm_out", "close_conn"} : wpc' = [wpc EXCEPT ![w] = pc]
          BY <4>2, Consts DEF Process, AfterProcess, AllOutcomes, step
        <5> QED
          BY <4>2, <5>1, <1>t DEF Process
      <4>3. CASE Rearm(w)
        BY <4>3, <1>t DEF Rearm, step
      <4>4. CASE ClearSockfd(w) \/ DecLoad(w) \/ DecStore(w)
        BY <4>4, <1>t DEF ClearSockfd, DecLoad, DecStore, step
      <4> QED
        BY <1>6, <2>2, <4>1, <4>2, <4>3, <4>4 DEF Worker
    <3> QED
      BY <3>1, <3>2
  <2> QED
    BY <2>1, <2>2
<1> QED
  BY <1>2, <1>3, <1>4, <1>5, <1>6 DEF Next, Main

\* A mark stays: who is unmarked was.
LEMMA UnmarkedBefore ==
    TypeOK /\ OneShotInv /\ TimerInv /\ [Next]_vars /\ Unmarked' => Unmarked
<1> SUFFICES ASSUME TypeOK, OneShotInv, TimerInv, [Next]_vars, Unmarked' PROVE Unmarked
  OBVIOUS
<1>i. /\ Accepting => mfd \in open /\ mfd \in FD
      /\ mpc \in Closing => mfd \notin open /\ mfd \in FD
  BY InHand
<1> USE DEF Unmarked, Accepting, Closing
<1>1. CASE Aside
  BY <1>1 DEF Aside
<1>2. ASSUME NEW f \in FD, Accept(f) PROVE Unmarked
  BY <1>2, AcceptFacts
<1>3. CASE LoadCount
  BY <1>3 DEF LoadCount, kernel, timers
<1>4. CASE InitStore
  BY <1>4, <1>i, InitStoreFacts
<1>5. CASE cb_func
  BY <1>5, CbCloseFacts
<1>6. CASE CbStore
  <2>1. timer \in [FD -> {"unset", "live", "dangling"}]
    BY DEF TypeOK, SlotTypes
  <2> QED
    BY <1>6, <2>1, CbStoreFacts
<1>7. ASSUME NEW w \in Workers, CloseConn(w) PROVE Unmarked
  BY <1>7, CloseConnFacts
<1>8. ASSUME NEW w \in Workers, Worker(w), ~CloseConn(w) PROVE Unmarked
  BY <1>8, WorkerAside
<1> QED
  BY <1>1, <1>2, <1>3, <1>4, <1>5, <1>6, <1>7, <1>8, MainAside DEF Next, Main

\* While there is no mark the main thread alone counts.
LEMMA CountStep ==
    TypeOK /\ OneShotInv /\ TimerInv /\ MarkInv /\ (Unmarked => CountInv) /\ [Next]_vars
        => (Unmarked => CountInv)'
<1> SUFFICES ASSUME TypeOK, OneShotInv, TimerInv, MarkInv, Unmarked => CountInv, [Next]_vars,
                    Unmarked'
             PROVE  CountInv'
  OBVIOUS
<1>c. Unmarked /\ CountInv
  BY UnmarkedBefore
<1>t. m_user_count \in Int /\ MAX_FD \in Nat
  BY EventLoopAssumption DEF TypeOK, SlotTypes
<1> USE DEF CountInv, WithinMaxFd, Accepting, Closing
<1>1. CASE Aside
  BY <1>c, <1>1 DEF Aside
<1>2. ASSUME NEW f \in FD, Accept(f) PROVE CountInv'
  <2>1. Cardinality(open') = Cardinality(open) + 1 /\ Cardinality(open) \in Nat
    BY <1>2, AcceptFacts, CountsOfOpen
  <2> QED
    BY <1>2, <2>1, <1>t, <1>c, AcceptFacts
<1>3. CASE LoadCount
  BY <1>3, <1>c DEF LoadCount, kernel, timers
<1>4. CASE InitStore
  <2>1. Cardinality(open) \in Nat
    BY <1>4, InitStoreFacts, CountsOfOpen
  <2> QED
    BY <1>4, <2>1, <1>t, <1>c, InitStoreFacts
<1>5. CASE cb_func
  <2>1. Cardinality(open') = Cardinality(open) - 1 /\ Cardinality(open) \in Nat
    BY <1>5, CbCloseFacts, CountsOfOpen
  <2> QED
    BY <1>5, <2>1, <1>t, <1>c, CbCloseFacts
<1>6. CASE CbStore
  <2>1. Cardinality(open) \in Nat
    BY <1>6, CbStoreFacts, CountsOfOpen
  <2> QED
    BY <1>6, <2>1, <1>t, <1>c, CbStoreFacts
<1>7. ASSUME NEW w \in Workers, CloseConn(w) PROVE FALSE
  BY <1>7, CloseConnFacts DEF Unmarked
<1>8. ASSUME NEW w \in Workers, Worker(w), ~CloseConn(w) PROVE CountInv'
  <2>1. wpc[w] \notin WorkerClosing
    <3>1. SUFFICES ASSUME wpc[w] \in WorkerClosing PROVE FALSE
      OBVIOUS
    <3>2. wjob[w] \in FD /\ wjob[w] # NoFd
      BY <3>1, Consts DEF TypeOK, PoolTypes, WorkerClosing
    <3>3. wjob[w] \notin open /\ mfd # wjob[w] /\ timer[wjob[w]] = "live"
      BY <3>1, <3>2 DEF OneShotInv, WorkerPhase, JobAlone, MarkInv
    <3> QED
      BY <3>2, <3>3, <1>c DEF Unmarked
  <2> QED
    BY <1>8, <2>1, <1>c, WorkerAside
<1> QED
  BY <1>1, <1>2, <1>3, <1>4, <1>5, <1>6, <1>7, <1>8, MainAside DEF Next, Main

\* If process() closes no connection, none is marked.
LEMMA UnmarkedStep ==
    OnlyMainCloses /\ TypeOK /\ OneShotInv /\ TimerInv /\ Unmarked /\ [Next]_vars => Unmarked'
<1> SUFFICES ASSUME OnlyMainCloses, TypeOK, OneShotInv, TimerInv, Unmarked, [Next]_vars
             PROVE  Unmarked'
  OBVIOUS
<1> USE Consts DEF Unmarked, Accepting, Closing
<1>1. CASE Aside
  BY <1>1 DEF Aside
<1>2. ASSUME NEW f \in FD, Accept(f) PROVE Unmarked'
  BY <1>2, AcceptFacts
<1>3. CASE LoadCount
  BY <1>3 DEF LoadCount, kernel, timers
<1>4. CASE InitStore
  <2>1. mfd \in open
    BY <1>4, InHand, InitStoreFacts
  <2> QED
    BY <1>4, <2>1, InitStoreFacts
<1>5. CASE cb_func
  BY <1>5, CbCloseFacts
<1>6. CASE CbStore
  <2>1. timer \in [FD -> {"unset", "live", "dangling"}]
    BY DEF TypeOK, SlotTypes
  <2> QED
    BY <1>6, <2>1, CbStoreFacts
<1>7. ASSUME NEW w \in Workers, CloseConn(w) PROVE FALSE
  BY <1>7 DEF CloseConn, OnlyMainCloses, OneShotInv, WorkerPhase
<1>8. ASSUME NEW w \in Workers, Worker(w), ~CloseConn(w) PROVE Unmarked'
  BY <1>8, WorkerAside
<1> QED
  BY <1>1, <1>2, <1>3, <1>4, <1>5, <1>6, <1>7, <1>8, MainAside DEF Next, Main

LEMMA CountAlways ==
    ASSUME Safe
    PROVE  Spec => [](TypeOK /\ OneShotInv /\ TimerInv /\ MarkInv /\ (Unmarked => CountInv))
BY TypeInit, TypeStep, OneShotInit, OneShotStep, TimerInit, TimerStep, CountInit, MarkStep,
   CountStep, PTL DEF Spec

LEMMA UnmarkedAlways == ASSUME OnlyMainCloses PROVE Spec => [](OneShotInv /\ TimerInv /\ Unmarked /\ CountInv)
<1>1. Safe
  BY DEF OnlyMainCloses, Safe
<1> QED
  BY <1>1, CountAlways, CountInit, UnmarkedStep, PTL DEF Spec

\* Until a worker has closed a connection, m_user_count is the number of open
\* descriptors whenever no thread is in the middle of a change (main.c:99,
\* http_conn.cpp:137, 147).
THEOREM UserCountIsExact == ASSUME Safe PROVE Spec => []UserCountExact
<1>1. AtRest /\ NoneLeftBehind => Unmarked
  BY DEF AtRest, NoneLeftBehind, Unmarked, Accepting, Closing
<1>2. (Unmarked => CountInv) => UserCountExact
  BY <1>1 DEF CountInv, UserCountExact, AtRest, Closing
<1> QED
  BY <1>2, CountAlways, PTL

\* If process() closes no connection, there are never more than MAX_FD clients
\* (main.c:218).
THEOREM MaxFdIsRespected == ASSUME OnlyMainCloses PROVE Spec => []WithinMaxFd
<1>1. CountInv => WithinMaxFd
  BY DEF CountInv
<1> QED
  BY <1>1, UnmarkedAlways, PTL

\* If process() closes no connection, timer_lst has one timer of every client,
\* and no other (main.c:227-237, 277-281).
THEOREM TimersMatch == ASSUME OnlyMainCloses PROVE Spec => []TimersMatchConnections
<1>1. OneShotInv /\ TimerInv /\ Unmarked => TimersMatchConnections
  BY DEF OneShotInv, Registered, TimerInv, Unmarked, TimersMatchConnections, NoneLeftBehind,
     AtRest, Accepting, Closing
<1> QED
  BY <1>1, UnmarkedAlways, PTL
=============================================================================
