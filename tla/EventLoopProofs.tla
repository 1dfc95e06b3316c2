-------------------------- MODULE EventLoopProofs --------------------------
(***************************************************************************)
(* What holds of EventLoop for every number of descriptors, workers and    *)
(* clients.                                                                *)
(***************************************************************************)
EXTENDS EventLoop, TLAPS

(***************************************************************************)
(* Types                                                                   *)
(***************************************************************************)
LEMMA Consts ==
    NoFd \notin FD /\ Backlog \in Nat \ {0} /\ Outcomes \subseteq AllOutcomes
BY EventLoopAssumption

LEMMA ReadyEventType ==
    ASSUME NEW f
    PROVE  ReadyEvent(f) \in {"none", "HUP", "IN", "OUT"}
BY DEF ReadyEvent

LEMMA RemovefdTypes ==
    ASSUME KernelTypes, NEW fd \in FD, removefd(fd)
    PROVE  KernelTypes' /\ waiting' = waiting
BY DEF removefd, KernelTypes

LEMMA TypeInit == Init => TypeOK
<1> SUFFICES ASSUME Init PROVE TypeOK
  OBVIOUS
<1>1. bytes_to_send \in [FD -> BOOLEAN] /\ leaked \in [FD -> BOOLEAN]
      /\ listenEvent \in BOOLEAN
  BY Zenon DEF Init
<1>2. waiting \in 0 .. Backlog /\ (listenEvent => waiting > 0) /\ queue \in Seq(FD)
  BY EventLoopAssumption DEF Init
<1>3. /\ open \subseteq FD /\ mtmp \in Int /\ m_user_count \in Int
      /\ wtmp \in [Workers -> Int]
  BY DEF Init
<1>4. /\ interest \in [FD -> {"none", "off", "in", "out"}]
      /\ peer \in [FD -> {"quiet", "sent", "gone"}]
      /\ timer \in [FD -> {"unset", "live", "dangling"}]
      /\ event \in [FD -> {"none", "HUP", "IN", "OUT"}]
      /\ m_sockfd \in [FD -> FD \cup {NoFd}]
  BY DEF Init
<1>5. /\ mpc \in MainPC /\ mfd \in FD \cup {NoFd}
      /\ mfd = NoFd <=> mpc \in {"wait", "dispatch"}
  BY DEF Init, MainPC
<1>6. /\ wpc \in [Workers -> WorkerPC] /\ wjob \in [Workers -> FD \cup {NoFd}]
      /\ \A w \in Workers : wjob[w] = NoFd <=> wpc[w] = "idle"
  BY DEF Init, WorkerPC
<1> QED
  BY <1>1, <1>2, <1>3, <1>4, <1>5, <1>6
     DEF TypeOK, KernelTypes, SlotTypes, MainTypes, PoolTypes

LEMMA TypeStep == TypeOK /\ [Next]_vars => TypeOK'
<1> SUFFICES ASSUME TypeOK, [Next]_vars PROVE TypeOK'
  OBVIOUS
<1> USE Consts DEF TypeOK, KernelTypes, SlotTypes, MainTypes, PoolTypes, kernel, slots, timers, main, batch, pool
<1>1. CASE Clients
  <2>1. CASE Connect
    BY <2>1 DEF Connect
  <2>2. CASE \E f \in FD : Send(f)
    BY <2>2 DEF Send
  <2>3. CASE \E f \in FD : HangUp(f)
    BY <2>3 DEF HangUp
  <2> QED
    BY <1>1, <2>1, <2>2, <2>3 DEF Clients
<1>2. CASE EpollWait
  BY <1>2, ReadyEventType DEF EpollWait, AfterDelivery, goto, MainPC
<1>3. CASE NotAccepted
  <2>1. waiting' = waiting - 1 \/ waiting' = waiting
    BY <1>3 DEF NotAccepted
  <2>2. waiting' \in 0 .. Backlog /\ listenEvent' = FALSE
    BY <1>3, <2>1 DEF NotAccepted
  <2> QED
    BY <1>3, <2>2 DEF NotAccepted
<1>4. CASE \E f \in FD : Accept(f)
  <2> PICK f \in FD : Accept(f)
    BY <1>4
  <2>0. listenEvent' \in BOOLEAN /\ ~listenEvent'
    BY Zenon DEF Accept
  <2>1. waiting' \in 0 .. Backlog
    BY DEF Accept
  <2>2. mpc' \in MainPC /\ mfd' = f /\ mpc' = "init_load" /\ mtmp' = 0
    BY DEF Accept, goto, MainPC
  <2>3. /\ open' \subseteq FD
        /\ interest' \in [FD -> {"none", "off", "in", "out"}]
        /\ m_sockfd' \in [FD -> FD \cup {NoFd}]
    BY DEF Accept
  <2>4. UNCHANGED <<peer, bytes_to_send, m_user_count, timers, event, pool>>
    BY DEF Accept
  <2>5. KernelTypes' /\ SlotTypes'
    BY <2>1, <2>3, <2>4
  <2>6. event' = event
    BY DEF Accept
  <2>7. MainTypes'
    BY <2>0, <2>2, <2>6
  <2>8. PoolTypes'
    BY <2>4
  <2> HIDE DEF KernelTypes, SlotTypes, MainTypes, PoolTypes
  <2> QED
    BY <2>5, <2>7, <2>8
<1>5. CASE LoadCount
  BY <1>5 DEF LoadCount, MainPC, Closing
<1>6. CASE InitStore
  BY <1>6 DEF InitStore, init, add_timer, goto, MainPC
<1>7. CASE \E f \in FD : Dispatch(f)
  BY <1>7 DEF Dispatch, goto, MainPC, Handling
<1>8. CASE ReadOnce
  BY <1>8 DEF ReadOnce, goto, MainPC
<1>9. CASE IOFails
  BY <1>9 DEF IOFails, goto, MainPC, Handling
<1>10. CASE WriteNothing
  BY <1>10 DEF WriteNothing, modfd, goto, MainPC
<1>11. CASE Write
  <2>1. mfd \in FD
    BY <1>11 DEF Write
  <2>2. bytes_to_send' \in [FD -> BOOLEAN]
    BY <1>11, <2>1 DEF Write
  <2>3. mpc' \in MainPC /\ mfd' = mfd /\ mtmp' = 0 /\ mpc' \notin {"wait", "dispatch"}
    BY <1>11 DEF Write, goto, MainPC, Handling
  <2> QED
    BY <1>11, <2>1, <2>2, <2>3 DEF Write
<1>12. CASE WriteRearm
  BY <1>12 DEF WriteRearm, modfd, ArmFor, goto, MainPC
<1>13. CASE cb_func
  BY <1>13 DEF cb_func, removefd, goto, MainPC, Closing
<1>14. CASE CbStore
  BY <1>14 DEF CbStore, OneClientLess, del_timer, goto, MainPC
<1>15. CASE EndBatch
  BY <1>15 DEF EndBatch, goto, MainPC
<1>16. ASSUME NEW w \in Workers, Worker(w) PROVE TypeOK'
  <2> USE DEF WorkerPC, WorkerClosing, step
  <2>1. CASE Take(w)
    BY <2>1 DEF Take
  <2>2. CASE Process(w)
    <3>1. wjob[w] \in FD
      BY <2>2 DEF Process
    <3>2. bytes_to_send' \in [FD -> BOOLEAN]
      BY <2>2, <3>1, Zenon DEF Process
    <3>3. wpc' \in [Workers -> WorkerPC] /\ wpc'[w] # "idle"
      BY <2>2 DEF Process, AfterProcess, AllOutcomes
    <3> QED
      BY <2>2, <3>1, <3>2, <3>3 DEF Process
  <2>3. CASE CloseConn(w)
    <3>1. wjob[w] \in FD
      BY <2>3 DEF CloseConn
    <3>2. PICK fd \in FD : removefd(fd) \/ UNCHANGED kernel
      BY <2>3, <3>1 DEF CloseConn
    <3>3. KernelTypes' /\ waiting' = waiting
      <4>1. CASE removefd(fd)
        BY <4>1, RemovefdTypes
      <4>2. CASE UNCHANGED kernel
        BY <4>2
      <4> QED
        BY <3>2, <4>1, <4>2
    <3>4. \E pc \in {"clear_sockfd", "rearm_out"} : wpc' = [wpc EXCEPT ![w] = pc]
      BY <2>3, Zenon DEF CloseConn
    <3>5. /\ wpc[w] # "idle" /\ w \in Workers
          /\ UNCHANGED <<slots, m_user_count, timers, main, batch, queue, wjob, wtmp>>
      BY <2>3 DEF CloseConn
    <3> QED
      BY <3>3, <3>4, <3>5
  <2>4. CASE ClearSockfd(w)
    BY <2>4 DEF ClearSockfd
  <2>5. CASE DecLoad(w)
    BY <2>5 DEF DecLoad
  <2>6. CASE DecStore(w)
    BY <2>6 DEF DecStore, OneClientLess
  <2>7. CASE Rearm(w)
    BY <2>7 DEF Rearm, modfd, ArmFor
  <2> QED
    BY <1>16, <2>1, <2>2, <2>3, <2>4, <2>5, <2>6, <2>7 DEF Worker
<1>17. CASE UNCHANGED vars
  BY <1>17 DEF vars
<1> QED
  BY <1>1, <1>2, <1>3, <1>4, <1>5, <1>6, <1>7, <1>8, <1>9, <1>10, <1>11,
     <1>12, <1>13, <1>14, <1>15, <1>16, <1>17 DEF Next, Main

\* Variables and program counters keep to their types, however threads and
\* clients interleave: the whole state space of main.c and http_conn.cpp.
THEOREM TypeCorrect == Spec => []TypeOK
BY TypeInit, TypeStep, PTL DEF Spec
(***************************************************************************)
(* Timers                                                                  *)
(***************************************************************************)
Accepting == mpc \in {"init_load", "init_store"}

\* A registered socket has a timer, except while init() is still to be
\* followed by new util_timer; so has a socket of the batch.  When del_timer()
\* runs, nothing can bring an event of that socket any more.
TimerInv ==
    /\ mpc \in Handling \cup Closing => timer[mfd] = "live" /\ event[mfd] = "none"
    /\ mpc \in Closing => interest[mfd] = "none"
    /\ \A f \in FD : event[f] # "none" => timer[f] = "live"
    /\ \A f \in FD : interest[f] # "none" /\ ~(Accepting /\ mfd = f) => timer[f] = "live"

LEMMA TimerInit == Init => TimerInv
BY DEF Init, TimerInv, Handling, Closing

LEMMA TimerStep == TypeOK /\ TimerInv /\ [Next]_vars => TimerInv'
<1> SUFFICES ASSUME TypeOK, TimerInv, [Next]_vars PROVE TimerInv'
  OBVIOUS
<1>t. /\ interest \in [FD -> {"none", "off", "in", "out"}]
      /\ timer \in [FD -> {"unset", "live", "dangling"}]
      /\ event \in [FD -> {"none", "HUP", "IN", "OUT"}]
      /\ m_sockfd \in [FD -> FD \cup {NoFd}]
      /\ mfd \in FD \cup {NoFd} /\ (mfd = NoFd <=> mpc \in {"wait", "dispatch"})
      /\ NoFd \notin FD
  BY Consts DEF TypeOK, KernelTypes, SlotTypes, MainTypes
<1> USE <1>t DEF TimerInv, Accepting, Handling, Closing
<1>1. ASSUME UNCHANGED <<interest, timer, event, mpc, mfd>> PROVE TimerInv'
  BY <1>1
<1>2. CASE Clients
  BY <1>2, <1>1 DEF Clients, Connect, Send, HangUp, timers, main, batch
<1>3. CASE EpollWait
  BY <1>3 DEF EpollWait, AfterDelivery, ReadyEvent, Armed, goto, timers
<1>4. CASE NotAccepted
  BY <1>4, <1>1 DEF NotAccepted, timers, main
<1>5. ASSUME NEW f \in FD, Accept(f) PROVE TimerInv'
  BY <1>5 DEF Accept, goto, timers
<1>6. CASE LoadCount
  BY <1>6 DEF LoadCount, kernel, timers, batch
<1>7. CASE InitStore
  BY <1>7 DEF InitStore, add_timer, goto, kernel, batch
<1>8. ASSUME NEW f \in FD, Dispatch(f) PROVE TimerInv'
  BY <1>8 DEF Dispatch, goto, kernel, timers
<1>9. CASE ReadOnce
  BY <1>9 DEF ReadOnce, goto, timers, batch
<1>10. CASE IOFails
  BY <1>10 DEF IOFails, goto, kernel, timers, batch
<1>11. CASE WriteNothing
  BY <1>11 DEF WriteNothing, modfd, goto, timers, batch
<1>12. CASE Write
  BY <1>12 DEF Write, goto, kernel, timers, batch
<1>13. CASE WriteRearm
  BY <1>13 DEF WriteRearm, modfd, ArmFor, goto, timers, batch
<1>14. CASE cb_func
  BY <1>14 DEF cb_func, removefd, goto, timers, batch
<1>15. CASE CbStore
  BY <1>15 DEF CbStore, del_timer, goto, kernel, batch
<1>16. CASE EndBatch
  BY <1>16 DEF EndBatch, goto, kernel, timers, batch
<1>17. ASSUME NEW w \in Workers, Worker(w) PROVE TimerInv'
  <2>1. UNCHANGED <<timers, main, batch>>
    BY <1>17, Zenon DEF Worker, Take, Process, CloseConn, ClearSockfd, DecLoad,
       DecStore, Rearm
  <2>2. \A f \in FD : interest'[f] # "none" => interest[f] # "none"
    <3>1. CASE CloseConn(w)
      BY <3>1 DEF CloseConn, removefd, kernel
    <3>2. CASE Rearm(w)
      BY <3>2 DEF Rearm, modfd
    <3>3. CASE UNCHANGED kernel
      BY <3>3 DEF kernel
    <3> QED
      BY <1>17, <3>1, <3>2, <3>3 DEF Worker, Take, Process, ClearSockfd, DecLoad, DecStore
  <2> QED
    BY <2>1, <2>2 DEF timers, main, batch
<1>18. CASE UNCHANGED vars
  BY <1>18, <1>1 DEF vars, kernel, timers, main, batch
<1> QED
  BY <1>2, <1>3, <1>4, <1>5, <1>6, <1>7, <1>8, <1>9, <1>10, <1>11, <1>12,
     <1>13, <1>14, <1>15, <1>16, <1>17, <1>18 DEF Next, Main

\* Whatever process() does, and however soon accept() reuses a descriptor, the
\* main thread never takes from users_timer[] a timer it has deleted
\* (main.c:278-281, 292-321, 327-352).
THEOREM TimersAreLive == Spec => []NoDanglingTimer
<1>1. TimerInv => NoDanglingTimer
  BY DEF TimerInv, NoDanglingTimer
<1> QED
  BY <1>1, TypeCorrect, TimerInit, TimerStep, PTL DEF Spec

(***************************************************************************)
(* One thread per socket                                                   *)
(***************************************************************************)

\* Either process() never closes a connection, or the number of a descriptor
\* is not used again before the worker that closed it has left process().
Safe == "FAIL" \notin Outcomes \/ ~PromptReuse

\* The registrations are those of the open sockets, whose slots know them.
Registered ==
    \A f \in FD : /\ interest[f] # "none" <=> f \in open
                  /\ f \in open => m_sockfd[f] = f

\* Who may have a socket together with whom: nobody.
ArmedAlone ==
    \A f \in FD : Armed(f) => /\ ~Queued(f) /\ ~WorkerHas(f)
                              /\ mfd = f => Accepting
EventAlone ==
    \A f \in FD : event[f] # "none" =>
        /\ interest[f] = "off" /\ mfd # f /\ ~Queued(f) /\ ~WorkerHas(f)
QueuedOnce ==
    /\ \A i, j \in DOMAIN queue : queue[i] = queue[j] => i = j
    /\ \A i \in DOMAIN queue : /\ queue[i] \in open /\ mfd # queue[i]
                               /\ ~WorkerHas(queue[i])
JobAlone ==
    \A w \in Workers : wjob[w] # NoFd =>
        /\ mfd # wjob[w]
        /\ \A v \in Workers \ {w} : wjob[v] # wjob[w]

\* What the program counters say of the socket in hand.
MainPhase ==
    /\ Accepting => Armed(mfd)
    /\ mpc \in Handling => interest[mfd] = "off"
    /\ mpc \in Closing => mfd \notin open
    /\ mpc = "wait" => \A f \in FD : event[f] = "none"
WorkerPhase ==
    \A w \in Workers :
        /\ wpc[w] \in {"process", "close_conn", "rearm_in"} => wjob[w] \in open
        /\ wpc[w] \in WorkerClosing => wjob[w] \notin open
        /\ wpc[w] = "rearm_out" /\ wjob[w] \notin open => m_sockfd[wjob[w]] = NoFd
        /\ wpc[w] \in {"dec_load", "dec_store"} => m_sockfd[wjob[w]] = NoFd
        /\ wpc[w] \in {"close_conn"} \cup WorkerClosing => "FAIL" \in Outcomes
        /\ wpc[w] # "idle" /\ wjob[w] \notin open => "FAIL" \in Outcomes

OneShotInv ==
    /\ Registered /\ ArmedAlone /\ EventAlone /\ QueuedOnce /\ JobAlone
    /\ MainPhase /\ WorkerPhase /\ NoLostConnection

LEMMA OneShotInit == Init => OneShotInv
BY Consts DEF Init, OneShotInv, Registered, ArmedAlone, EventAlone, QueuedOnce,
   JobAlone, MainPhase, WorkerPhase, NoLostConnection, Armed, Queued, WorkerHas,
   MainHas, Accepting, Handling, Closing, WorkerClosing

LEMMA OneShotStep == Safe /\ TypeOK /\ OneShotInv /\ [Next]_vars => OneShotInv'
<1> SUFFICES ASSUME Safe, TypeOK, OneShotInv, [Next]_vars PROVE OneShotInv'
  OBVIOUS
<1>t. /\ open \subseteq FD
      /\ interest \in [FD -> {"none", "off", "in", "out"}]
      /\ event \in [FD -> {"none", "HUP", "IN", "OUT"}]
      /\ m_sockfd \in [FD -> FD \cup {NoFd}]
      /\ queue \in Seq(FD)
      /\ wpc \in [Workers -> WorkerPC]
      /\ wjob \in [Workers -> FD \cup {NoFd}]
      /\ mfd \in FD \cup {NoFd} /\ (mfd = NoFd <=> mpc \in {"wait", "dispatch"})
      /\ mpc \in MainPC
      /\ \A w \in Workers : wjob[w] = NoFd <=> wpc[w] = "idle"
      /\ NoFd \notin FD
  BY Consts DEF TypeOK, KernelTypes, SlotTypes, MainTypes, PoolTypes
<1>i. /\ Registered /\ ArmedAlone /\ EventAlone /\ QueuedOnce /\ JobAlone
      /\ MainPhase /\ WorkerPhase /\ NoLostConnection
  BY DEF OneShotInv
<1> USE DEF OneShotInv, Registered, ArmedAlone, EventAlone, QueuedOnce, JobAlone,
       MainPhase, WorkerPhase, NoLostConnection, Safe, MainPC, WorkerPC,
       Armed, Queued, WorkerHas, MainHas, Accepting, Handling, Closing, WorkerClosing
<1>1. ASSUME UNCHANGED <<open, interest, event, m_sockfd, queue, wpc, wjob, mpc, mfd>>
      PROVE  OneShotInv'
  BY <1>1
<1>2. CASE Clients
  BY <1>2, <1>1 DEF Clients, Connect, Send, HangUp, slots, main, batch, pool
<1>3. CASE EpollWait
  BY <1>3, <1>t, <1>i DEF EpollWait, AfterDelivery, ReadyEvent, goto, slots, pool
<1>4. CASE NotAccepted
  BY <1>4, <1>t, <1>i DEF NotAccepted, slots, main, pool
<1>5. ASSUME NEW f \in FD, Accept(f) PROVE OneShotInv'
  BY <1>5, <1>t, <1>i DEF Accept, FreeFds, goto, pool
<1>6. CASE LoadCount
  BY <1>6, <1>t, <1>i DEF LoadCount, kernel, slots, batch, pool
<1>7. CASE InitStore
  BY <1>7, <1>t, <1>i DEF InitStore, goto, kernel, batch, pool
<1>8. ASSUME NEW f \in FD, Dispatch(f) PROVE OneShotInv'
  BY <1>8, <1>t, <1>i DEF Dispatch, goto, kernel, slots, pool
<1>9. CASE ReadOnce
  <2>1. /\ mfd \in open /\ queue' = Append(queue, mfd) /\ mfd \in FD
        /\ UNCHANGED <<open, interest, event, m_sockfd, wpc, wjob>>
        /\ mfd' = NoFd /\ mpc' = "dispatch" /\ mpc \in Handling
    BY <1>9, <1>t DEF ReadOnce, goto, slots, batch
  <2>2. /\ DOMAIN queue' = 1 .. Len(queue) + 1
        /\ queue'[Len(queue) + 1] = mfd
        /\ \A i \in DOMAIN queue : i \in DOMAIN queue' /\ queue'[i] = queue[i]
        /\ \A i \in DOMAIN queue' : i \in DOMAIN queue \/ i = Len(queue) + 1
    BY <2>1, <1>t
  <2>3. \A f \in FD : Queued(f)' <=> Queued(f) \/ f = mfd
    BY <2>2
  <2>4. QueuedOnce'
    BY <2>1, <2>2, <1>t, <1>i
  <2>5. NoLostConnection'
    BY <2>1, <2>3, <1>t, <1>i
  <2>6. Registered' /\ ArmedAlone' /\ EventAlone' /\ JobAlone' /\ MainPhase' /\ WorkerPhase'
    BY <2>1, <2>3, <1>t, <1>i
  <2> QED
    BY <2>4, <2>5, <2>6
<1>10. CASE IOFails
  BY <1>10, <1>t, <1>i DEF IOFails, goto, kernel, slots, batch, pool
<1>11. CASE WriteNothing
  BY <1>11, <1>t, <1>i DEF WriteNothing, modfd, goto, slots, batch, pool
<1>12. CASE Write
  BY <1>12, <1>t, <1>i DEF Write, goto, kernel, batch, pool
<1>13. CASE WriteRearm
  BY <1>13, <1>t, <1>i DEF WriteRearm, modfd, ArmFor, goto, slots, batch, pool
<1>14. CASE cb_func
  BY <1>14, <1>t, <1>i DEF cb_func, removefd, goto, slots, batch, pool
<1>15. CASE CbStore
  BY <1>15, <1>t, <1>i DEF CbStore, goto, kernel, slots, batch, pool
<1>16. CASE EndBatch
  BY <1>16, <1>t, <1>i DEF EndBatch, goto, kernel, slots, batch, pool
<1>17. ASSUME NEW w \in Workers, Take(w) PROVE OneShotInv'
  <2> DEFINE head == Head(queue)
  <2>1. /\ queue # <<>> /\ head = queue[1] /\ 1 \in DOMAIN queue
        /\ wpc[w] = "idle" /\ queue' = Tail(queue)
        /\ wjob' = [wjob EXCEPT ![w] = head]
        /\ wpc' = [wpc EXCEPT ![w] = "process"]
        /\ UNCHANGED <<open, interest, event, m_sockfd, mpc, mfd>>
    BY <1>17, <1>t DEF Take, step, kernel, slots, main, batch
  <2> HIDE DEF head
  <2>2. /\ \A i \in DOMAIN queue' : i + 1 \in DOMAIN queue /\ queue'[i] = queue[i + 1]
        /\ \A i \in DOMAIN queue : i # 1 => i - 1 \in DOMAIN queue' /\ queue'[i - 1] = queue[i]
        /\ DOMAIN queue \subseteq Nat /\ DOMAIN queue' \subseteq Nat
    BY <2>1, <1>t
  <2>3. head \in FD /\ head \in open /\ head # NoFd /\ mfd # head
        /\ \A v \in Workers : wjob[v] # head
    BY <2>1, <1>t, <1>i
  <2>4. \A f \in FD : Queued(f) <=> Queued(f)' \/ f = head
    <3>1. ASSUME NEW f \in FD, Queued(f)' PROVE Queued(f)
      BY <3>1, <2>2
    <3>2. ASSUME NEW f \in FD, Queued(f), f # head PROVE Queued(f)'
      <4>1. PICK i \in DOMAIN queue : queue[i] = f
        BY <3>2
      <4>2. i - 1 \in DOMAIN queue' /\ queue'[i - 1] = f
        BY <4>1, <3>2, <2>1, <2>2
      <4> QED
        BY <4>2
    <3> QED
      BY <3>1, <3>2, <2>1
  <2>5. \A f \in FD : WorkerHas(f)' <=> WorkerHas(f) \/ f = head
    BY <2>1, <2>3, <1>t
  <2>6. QueuedOnce'
    <3>1. \A i, j \in DOMAIN queue' : queue'[i] = queue'[j] => i = j
      BY <2>2, <1>i
    <3>2. \A i \in DOMAIN queue' : queue'[i] # head
      BY <2>1, <2>2, <1>i
    <3>3. \A i \in DOMAIN queue' : \E j \in DOMAIN queue : queue'[i] = queue[j]
      BY <2>2
    <3>4. \A i \in DOMAIN queue : queue[i] \in FD
      BY <1>t
    <3> QED
      BY <3>1, <3>2, <3>3, <3>4, <2>1, <2>5, <1>i
  <2>7. NoLostConnection'
    BY <2>1, <2>4, <2>5, <1>t, <1>i
  <2>8. Registered' /\ ArmedAlone' /\ EventAlone' /\ MainPhase'
    BY <2>1, <2>3, <2>4, <2>5, <1>t, <1>i
  <2>9. JobAlone' /\ WorkerPhase'
    BY <2>1, <2>3, <1>t, <1>i
  <2> QED
    BY <2>6, <2>7, <2>8, <2>9
<1>18. ASSUME NEW w \in Workers, Process(w) PROVE OneShotInv'
  <2>1. PICK outcome \in Outcomes : wpc' = [wpc EXCEPT ![w] = AfterProcess(outcome)]
    BY <1>18 DEF Process, step
  <2>2. /\ AfterProcess(outcome) \in {"rearm_in", "rearm_out", "close_conn"}
        /\ AfterProcess(outcome) = "close_conn" => "FAIL" \in Outcomes
    BY <2>1, Consts DEF AfterProcess, AllOutcomes
  <2>3. /\ wpc[w] = "process"
        /\ UNCHANGED <<open, interest, event, m_sockfd, queue, mpc, mfd, wjob>>
    BY <1>18 DEF Process, kernel, main, batch
  <2> HIDE DEF AfterProcess
  <2> QED
    BY <2>1, <2>2, <2>3, <1>t, <1>i
<1>19. ASSUME NEW w \in Workers, CloseConn(w) PROVE OneShotInv'
  BY <1>19, <1>t, <1>i DEF CloseConn, removefd, step, kernel, slots, main, batch
<1>20. ASSUME NEW w \in Workers, ClearSockfd(w) PROVE OneShotInv'
  BY <1>20, <1>t, <1>i DEF ClearSockfd, step, kernel, main, batch
<1>21. ASSUME NEW w \in Workers, DecLoad(w) PROVE OneShotInv'
  BY <1>21, <1>t, <1>i DEF DecLoad, step, kernel, slots, main, batch
<1>22. ASSUME NEW w \in Workers, DecStore(w) PROVE OneShotInv'
  BY <1>22, <1>t, <1>i DEF DecStore, step, kernel, slots, main, batch
<1>23. ASSUME NEW w \in Workers, Rearm(w) PROVE OneShotInv'
  BY <1>23, <1>t, <1>i DEF Rearm, modfd, ArmFor, step, slots, main, batch
<1>24. CASE UNCHANGED vars
  BY <1>24, <1>1 DEF vars, kernel, slots, main, batch, pool
<1> QED
  BY <1>2, <1>3, <1>4, <1>5, <1>6, <1>7, <1>8, <1>9, <1>10, <1>11, <1>12,
     <1>13, <1>14, <1>15, <1>16, <1>17, <1>18, <1>19, <1>20, <1>21, <1>22,
     <1>23, <1>24 DEF Next, Main, Worker

\* As long as the number of a descriptor is not used again before the worker
\* that closed it has left process() - or no worker closes one - every socket
\* is treated by one thread at any moment (http_conn.cpp:95).
THEOREM OneThreadPerSocketHolds ==
    ASSUME Safe PROVE Spec => []OneThreadPerSocket
<1>1. TypeOK /\ OneShotInv => OneThreadPerSocket
  BY Consts DEF TypeOK, MainTypes, PoolTypes, OneShotInv, JobAlone, EventAlone,
     OneThreadPerSocket, MainHas, WorkerHas
<1> QED
  BY <1>1, TypeCorrect, OneShotInit, OneShotStep, PTL DEF Spec

\* ... and no open connection is forgotten by all of them.
THEOREM NoConnectionIsLost ==
    ASSUME Safe PROVE Spec => []NoLostConnection
<1>1. OneShotInv => NoLostConnection
  BY DEF OneShotInv
<1> QED
  BY <1>1, TypeCorrect, OneShotInit, OneShotStep, PTL DEF Spec

(***************************************************************************)
(* Responses                                                               *)
(***************************************************************************)
\* InterestMatchesResponse, and what it becomes in whose hands the slot is: an
\* event, the list of the pool, a worker, the main thread.
ResponseInv ==
    /\ InterestMatchesResponse
    /\ Accepting => interest[mfd] = "in"
    /\ \A f \in FD : /\ event[f] = "IN" => ~bytes_to_send[f]
                     /\ event[f] = "OUT" => bytes_to_send[f]
    /\ \A i \in DOMAIN queue : ~bytes_to_send[queue[i]]
    /\ mpc \in {"read", "rearm_in"} => ~bytes_to_send[mfd]
    /\ mpc \in {"write", "rearm_out"} => bytes_to_send[mfd]
    /\ \A w \in Workers :
        /\ wpc[w] \in {"process", "rearm_in"} => ~bytes_to_send[wjob[w]]
        /\ wpc[w] = "rearm_out" /\ wjob[w] \in open => bytes_to_send[wjob[w]]

LEMMA ResponseInit == Init => ResponseInv
BY DEF Init, ResponseInv, InterestMatchesResponse, Armed, Accepting

LEMMA ResponseStep ==
    Safe /\ TypeOK /\ OneShotInv /\ ResponseInv /\ [Next]_vars => ResponseInv'
<1> SUFFICES ASSUME Safe, TypeOK, OneShotInv, ResponseInv, [Next]_vars PROVE ResponseInv'
  OBVIOUS
<1>t. /\ open \subseteq FD
      /\ interest \in [FD -> {"none", "off", "in", "out"}]
      /\ event \in [FD -> {"none", "HUP", "IN", "OUT"}]
      /\ m_sockfd \in [FD -> FD \cup {NoFd}]
      /\ queue \in Seq(FD)
      /\ wpc \in [Workers -> WorkerPC]
      /\ wjob \in [Workers -> FD \cup {NoFd}]
      /\ mfd \in FD \cup {NoFd} /\ (mfd = NoFd <=> mpc \in {"wait", "dispatch"})
      /\ mpc \in MainPC
      /\ \A w \in Workers : wjob[w] = NoFd <=> wpc[w] = "idle"
      /\ NoFd \notin FD
  BY Consts DEF TypeOK, KernelTypes, SlotTypes, MainTypes, PoolTypes
<1>b. bytes_to_send \in [FD -> BOOLEAN]
  BY DEF TypeOK, SlotTypes
<1>i. /\ Registered /\ ArmedAlone /\ EventAlone /\ QueuedOnce /\ JobAlone
      /\ MainPhase /\ WorkerPhase
  BY DEF OneShotInv
<1>r. ResponseInv
  OBVIOUS
<1> USE DEF ResponseInv, InterestMatchesResponse, Registered, ArmedAlone, EventAlone,
        QueuedOnce, JobAlone, MainPhase, WorkerPhase, Safe, MainPC, WorkerPC,
        Armed, Queued, WorkerHas, Accepting, Handling, Closing, WorkerClosing
<1>1. ASSUME UNCHANGED <<open, interest, event, bytes_to_send, queue, wpc, wjob, mpc, mfd>>
      PROVE  ResponseInv'
  BY <1>1
<1>2. CASE Clients
  BY <1>2, <1>1 DEF Clients, Connect, Send, HangUp, slots, main, batch, pool
<1>3. CASE EpollWait
  BY <1>3, <1>t, <1>i, <1>r DEF EpollWait, AfterDelivery, ReadyEvent, goto, slots, pool
<1>4. CASE NotAccepted
  BY <1>4, <1>1 DEF NotAccepted, slots, main, pool
<1>5. ASSUME NEW f \in FD, Accept(f) PROVE ResponseInv'
  BY <1>5, <1>t, <1>i, <1>r DEF Accept, FreeFds, goto, pool
<1>6. CASE LoadCount
  BY <1>6, <1>t, <1>r DEF LoadCount, kernel, slots, batch, pool
<1>7. CASE InitStore
  BY <1>7, <1>t, <1>b, <1>i, <1>r DEF InitStore, init, goto, kernel, batch, pool
<1>8. ASSUME NEW f \in FD, Dispatch(f) PROVE ResponseInv'
  BY <1>8, <1>t, <1>i, <1>r DEF Dispatch, goto, kernel, slots, pool
<1>9. CASE ReadOnce
  BY <1>9, <1>t, <1>i, <1>r DEF ReadOnce, goto, slots, batch
<1>10. CASE IOFails
  BY <1>10, <1>t, <1>i, <1>r DEF IOFails, goto, kernel, slots, batch, pool
<1>11. CASE WriteNothing
  BY <1>11, <1>t, <1>i, <1>r DEF WriteNothing, modfd, goto, slots, batch, pool
<1>12. CASE Write
  BY <1>12, <1>t, <1>b, <1>i, <1>r DEF Write, goto, kernel, batch, pool
<1>13. CASE WriteRearm
  BY <1>13, <1>t, <1>i, <1>r DEF WriteRearm, modfd, ArmFor, goto, slots, batch, pool
<1>14. CASE cb_func
  BY <1>14, <1>t, <1>i, <1>r DEF cb_func, removefd, goto, slots, batch, pool
<1>15. CASE CbStore
  BY <1>15, <1>t, <1>i, <1>r DEF CbStore, goto, kernel, slots, batch, pool
<1>16. CASE EndBatch
  BY <1>16, <1>t, <1>i, <1>r DEF EndBatch, goto, kernel, slots, batch, pool
<1>17. ASSUME NEW w \in Workers, Take(w) PROVE ResponseInv'
  BY <1>17, <1>t, <1>i, <1>r DEF Take, step, kernel, slots, main, batch
<1>18. ASSUME NEW w \in Workers, Process(w) PROVE ResponseInv'
  <2> DEFINE f == wjob[w]
  <2>1. /\ f \in FD /\ wpc[w] = "process" /\ f \in open /\ interest[f] = "off"
        /\ event[f] = "none" /\ mfd # f
        /\ \A i \in DOMAIN queue : queue[i] # f
        /\ \A v \in Workers \ {w} : wjob[v] # f
        /\ UNCHANGED <<open, interest, event, queue, mpc, mfd, wjob>>
    BY <1>18, <1>t, <1>i DEF Process, kernel, main, batch
  <2>2. PICK outcome \in Outcomes :
            /\ wpc' = [wpc EXCEPT ![w] = AfterProcess(outcome)]
            /\ bytes_to_send' = [bytes_to_send EXCEPT ![f] = @ \/ outcome = "RESPONSE"]
    BY <1>18 DEF Process, step
  <2>3. /\ AfterProcess(outcome) \in {"rearm_in", "rearm_out", "close_conn"}
        /\ AfterProcess(outcome) = "rearm_in" => outcome = "NO_REQUEST"
        /\ AfterProcess(outcome) = "rearm_out" => outcome = "RESPONSE"
    BY <2>2, Consts DEF AfterProcess, AllOutcomes
  <2>4. /\ \A g \in FD \ {f} : bytes_to_send'[g] <=> bytes_to_send[g]
        /\ bytes_to_send'[f] <=> outcome = "RESPONSE"
    <3>1. ~bytes_to_send[f]
      BY <2>1, <1>r
    <3> HIDE DEF f
    <3> QED
      BY <2>1, <2>2, <3>1, <1>b, Zenon
  <2> HIDE DEF f, AfterProcess
  <2>5. \A v \in Workers :
            /\ v # w => wpc'[v] = wpc[v] /\ wjob[v] # f
            /\ wpc'[w] = AfterProcess(outcome)
    BY <2>1, <2>2, <1>t
  <2>6. \A i \in DOMAIN queue : queue[i] \in FD \ {f}
    BY <2>1, <1>t
  <2>7. \A v \in Workers : v # w /\ wpc[v] # "idle" => wjob[v] \in FD \ {f}
    BY <2>5, <1>t
  <2>8. wjob[w] = f
    BY DEF f
  <2>9. \A v \in Workers :
        /\ wpc'[v] \in {"process", "rearm_in"} => ~bytes_to_send'[wjob'[v]]
        /\ wpc'[v] = "rearm_out" /\ wjob'[v] \in open' => bytes_to_send'[wjob'[v]]
    BY <2>1, <2>3, <2>4, <2>5, <2>7, <2>8, <1>r
  <2>10. mpc \in {"read", "rearm_in", "write", "rearm_out"} => mfd \in FD \ {f}
    BY <2>1, <1>t
  <2> QED
    BY <2>1, <2>4, <2>6, <2>9, <2>10, <1>r
<1>19. ASSUME NEW w \in Workers, CloseConn(w) PROVE ResponseInv'
  <2> DEFINE f == wjob[w]
  <2>1. /\ f \in FD /\ wpc[w] = "close_conn" /\ f \in open /\ m_sockfd[f] = f
        /\ mfd # f
        /\ UNCHANGED <<event, bytes_to_send, queue, mpc, mfd, wjob>>
    BY <1>19, <1>t, <1>i DEF CloseConn, slots, main, batch
  <2>2. /\ open' = open \ {f} /\ interest' = [interest EXCEPT ![f] = "none"]
        /\ wpc' = [wpc EXCEPT ![w] = "clear_sockfd"]
    BY <1>19, <2>1, <1>t DEF CloseConn, removefd, step
  <2> HIDE DEF f
  <2> QED
    BY <2>1, <2>2, <1>t, <1>r
<1>20. ASSUME NEW w \in Workers, ClearSockfd(w) \/ DecLoad(w) \/ DecStore(w) PROVE ResponseInv'
  BY <1>20, <1>t, <1>i, <1>r DEF ClearSockfd, DecLoad, DecStore, step, kernel, slots, main, batch
<1>23. ASSUME NEW w \in Workers, Rearm(w) PROVE ResponseInv'
  BY <1>23, <1>t, <1>i, <1>r DEF Rearm, modfd, ArmFor, step, slots, main, batch
<1>24. CASE UNCHANGED vars
  BY <1>24, <1>1 DEF vars, kernel, slots, main, batch, pool
<1> QED
  BY <1>2, <1>3, <1>4, <1>5, <1>6, <1>7, <1>8, <1>9, <1>10, <1>11, <1>12,
     <1>13, <1>14, <1>15, <1>16, <1>17, <1>18, <1>19, <1>20, <1>23, <1>24 DEF Next, Main, Worker

\* Under the same condition a socket that nobody works on waits for EPOLLOUT
\* exactly when its slot has a response to send (http_conn.cpp:622, 817, 825):
\* no response waits for the client to speak first.
THEOREM InterestMatchesResponseHolds ==
    ASSUME Safe PROVE Spec => []InterestMatchesResponse
<1>1. ResponseInv => InterestMatchesResponse
  BY DEF ResponseInv
<1> QED
  BY <1>1, TypeCorrect, OneShotInit, OneShotStep, ResponseInit, ResponseStep, PTL DEF Spec

(***************************************************************************)
(* The refinement                                                          *)
(***************************************************************************)
Own == [f \in FD |-> OwnerOf(f)]

LEMMA OwnerOfCases ==
    ASSUME NEW f \in FD
    PROVE  /\ f \notin open => OwnerOf(f) = "free"
           /\ f \in open /\ Armed(f) => OwnerOf(f) = "epoll"
           /\ f \in open /\ ~Armed(f) /\ MainHas(f) => OwnerOf(f) = "main"
           /\ f \in open /\ ~Armed(f) /\ ~MainHas(f) => OwnerOf(f) = "pool"
BY DEF OwnerOf

LEMMA OwnerOfCasesNext ==
    ASSUME NEW f \in FD
    PROVE  /\ f \notin open' => OwnerOf(f)' = "free"
           /\ f \in open' /\ Armed(f)' => OwnerOf(f)' = "epoll"
           /\ f \in open' /\ ~Armed(f)' /\ MainHas(f)' => OwnerOf(f)' = "main"
           /\ f \in open' /\ ~Armed(f)' /\ ~MainHas(f)' => OwnerOf(f)' = "pool"
BY DEF OwnerOf

\* OwnerOf depends on three things only.
LEMMA OwnerUnchanged ==
    ASSUME UNCHANGED <<open, interest>>,
           \A f \in FD : f \in open /\ ~Armed(f) => (MainHas(f)' <=> MainHas(f))
    PROVE  Own' = Own
<1>1. \A f \in FD : OwnerOf(f)' = OwnerOf(f)
  BY DEF OwnerOf, Armed
<1> QED
  BY <1>1 DEF Own

\* A change of the owner of one descriptor.
LEMMA OwnerPassed ==
    ASSUME NEW f \in FD, NEW from, NEW to,
           OwnerOf(f) = from, OwnerOf(f)' = to,
           \A g \in FD \ {f} : /\ g \in open' <=> g \in open
                               /\ interest'[g] = interest[g]
                               /\ MainHas(g)' <=> MainHas(g)
    PROVE  Ownership!Pass(f, from, to)
<1>1. \A g \in FD \ {f} : OwnerOf(g)' = OwnerOf(g)
  BY DEF OwnerOf, Armed
<1>2. Own' = [Own EXCEPT ![f] = to] /\ Own[f] = from
  BY <1>1 DEF Own
<1> QED
  BY <1>2 DEF Ownership!Pass, Own

LEMMA OwnershipInit == Init => Ownership!Init
BY DEF Init, Ownership!Init, OwnerOf

LEMMA OwnershipStep ==
    Safe /\ TypeOK /\ OneShotInv /\ [Next]_vars => [Ownership!Next]_Own
<1> SUFFICES ASSUME Safe, TypeOK, OneShotInv, [Next]_vars
             PROVE  Ownership!Next \/ Own' = Own
  OBVIOUS
<1>t. /\ open \subseteq FD
      /\ interest \in [FD -> {"none", "off", "in", "out"}]
      /\ event \in [FD -> {"none", "HUP", "IN", "OUT"}]
      /\ m_sockfd \in [FD -> FD \cup {NoFd}]
      /\ wpc \in [Workers -> WorkerPC]
      /\ wjob \in [Workers -> FD \cup {NoFd}]
      /\ mfd \in FD \cup {NoFd} /\ (mfd = NoFd <=> mpc \in {"wait", "dispatch"})
      /\ \A w \in Workers : wjob[w] = NoFd <=> wpc[w] = "idle"
      /\ NoFd \notin FD
  BY Consts DEF TypeOK, KernelTypes, SlotTypes, MainTypes, PoolTypes
<1>i. /\ Registered /\ ArmedAlone /\ EventAlone /\ JobAlone /\ MainPhase /\ WorkerPhase
  BY DEF OneShotInv
<1>s. ASSUME UNCHANGED <<open, interest, event, mfd>> PROVE Own' = Own
  BY <1>s, OwnerUnchanged DEF MainHas
<1>p. ASSUME NEW f \in FD, NEW from, NEW to, Ownership!Pass(f, from, to),
             <<from, to>> \in {<<"free", "epoll">>, <<"main", "epoll">>, <<"pool", "epoll">>,
                               <<"main", "pool">>, <<"main", "free">>, <<"pool", "free">>}
      PROVE  Ownership!Next
  BY <1>p DEF Ownership!Next, Ownership!Accepted, Ownership!Armed, Ownership!Appended,
              Ownership!Closed
\* The main thread gives the slot in its hands away, or a worker its job.
<1>m. ASSUME NEW f \in FD, f \in open, ~Armed(f), mfd = f, event[f] = "none",
             event' = event, mfd' \in {f, NoFd},
             \A g \in FD \ {f} : /\ g \in open' <=> g \in open
                                 /\ interest'[g] = interest[g],
             \/ f \notin open'
             \/ f \in open' /\ mfd' = NoFd
      PROVE  Ownership!Next
  <2>1. MainHas(f) /\ (mfd' = NoFd => ~MainHas(f)')
    BY <1>m, <1>t DEF MainHas
  <2>2. \A g \in FD \ {f} : MainHas(g)' <=> MainHas(g)
    BY <1>m, <1>t DEF MainHas
  <2>3. OwnerOf(f) = "main"
    BY <1>m, <2>1, OwnerOfCases
  <2>4. OwnerOf(f)' \in {"free", "epoll", "pool"}
    BY <1>m, <2>1, OwnerOfCasesNext
  <2>5. Ownership!Pass(f, "main", OwnerOf(f)')
    BY <1>m, <2>2, <2>3, OwnerPassed
  <2> QED
    BY <2>4, <2>5, <1>p
<1>w. ASSUME NEW f \in FD, f \in open, ~Armed(f), mfd # f, event[f] = "none",
             UNCHANGED <<event, mfd>>,
             \A g \in FD \ {f} : /\ g \in open' <=> g \in open
                                 /\ interest'[g] = interest[g],
             f \notin open' \/ Armed(f)'
      PROVE  Ownership!Next
  <2>1. ~MainHas(f) /\ \A g \in FD : MainHas(g)' <=> MainHas(g)
    BY <1>w DEF MainHas
  <2>2. OwnerOf(f) = "pool"
    BY <1>w, <2>1, OwnerOfCases
  <2>3. OwnerOf(f)' \in {"free", "epoll"}
    BY <1>w, OwnerOfCasesNext
  <2>4. Ownership!Pass(f, "pool", OwnerOf(f)')
    BY <1>w, <2>1, <2>2, OwnerPassed
  <2> QED
    BY <2>3, <2>4, <1>p
<1> USE DEF Armed, MainHas, WorkerHas, Accepting, Handling, Closing, WorkerClosing,
            Registered, ArmedAlone, EventAlone, JobAlone, MainPhase, WorkerPhase
<1>1. CASE EpollWait
  <2> DEFINE S == {f \in FD : event'[f] # "none"}
  <2>1. /\ open' = open /\ mpc = "wait" /\ mfd = NoFd /\ mfd' = NoFd
        /\ \A f \in FD : event[f] = "none"
        /\ \A f \in FD : f \in S => Armed(f) /\ interest'[f] = "off"
        /\ \A f \in FD : f \notin S => interest'[f] = interest[f]
    BY <1>1, <1>t, <1>i DEF EpollWait, ReadyEvent, AfterDelivery, goto
  <2>2. \A f \in S : OwnerOf(f) = "epoll" /\ OwnerOf(f)' = "main"
    BY <2>1, <1>t, <1>i DEF OwnerOf
  <2>3. \A f \in FD \ S : OwnerOf(f)' = OwnerOf(f)
    BY <2>1, <1>t, <1>i DEF OwnerOf
  <2>4. CASE S = {}
    BY <2>3, <2>4 DEF Own
  <2>5. CASE S # {}
    <3>1. Own' = [f \in FD |-> IF f \in S THEN "main" ELSE Own[f]]
      BY <2>2, <2>3 DEF Own
    <3>2. Ownership!Delivered(S)
      BY <2>2, <2>5, <3>1 DEF Ownership!Delivered, Own
    <3> QED
      BY <3>2 DEF Ownership!Next
  <2> QED
    BY <2>4, <2>5
<1>2. ASSUME NEW f \in FD, Accept(f) PROVE Ownership!Next
  <2>1. OwnerOf(f) = "free" /\ OwnerOf(f)' = "epoll"
    BY <1>2, <1>t, <1>i DEF Accept, FreeFds, OwnerOf
  <2>2. Ownership!Pass(f, "free", "epoll")
    BY <1>2, <2>1, <1>t, OwnerPassed DEF Accept, goto
  <2> QED
    BY <2>2, <1>p
<1>3. CASE LoadCount \/ IOFails \/ Write
  BY <1>3, <1>s DEF LoadCount, IOFails, Write, goto, kernel, batch
<1>4. CASE InitStore \/ CbStore
  BY <1>4, <1>t, <1>i, OwnerUnchanged DEF InitStore, CbStore, goto, kernel, batch
<1>5. ASSUME NEW f \in FD, Dispatch(f) PROVE Own' = Own
  BY <1>5, <1>t, <1>i, OwnerUnchanged DEF Dispatch, goto, kernel
<1>6. CASE ReadOnce
  <2>1. /\ mfd \in FD /\ mfd \in open /\ interest[mfd] = "off" /\ event[mfd] = "none"
        /\ mfd' = NoFd /\ UNCHANGED <<open, interest, event>>
    BY <1>6, <1>t, <1>i DEF ReadOnce, goto, batch
  <2> QED
    BY <2>1, <1>m, <1>t
<1>7. CASE WriteNothing \/ WriteRearm
  <2>1. /\ mfd \in FD /\ mfd' = NoFd /\ event' = event /\ event[mfd] = "none"
        /\ mfd \in open /\ interest[mfd] = "off"
        /\ \E ev \in {"in", "out"} : modfd(mfd, ev)
    BY <1>7, <1>t, <1>i DEF WriteNothing, WriteRearm, ArmFor, goto, batch
  <2>2. /\ open' = open /\ interest'[mfd] \in {"in", "out"}
        /\ \A g \in FD \ {mfd} : interest'[g] = interest[g]
    BY <2>1, <1>t DEF modfd
  <2> QED
    BY <2>1, <2>2, <1>m, <1>t
<1>8. CASE cb_func
  <2>1. /\ mfd \in FD /\ mfd \in open /\ interest[mfd] = "off"
        /\ open' = open \ {mfd} /\ mfd' = mfd /\ event' = event /\ event[mfd] = "none"
        /\ \A g \in FD \ {mfd} : interest'[g] = interest[g]
    BY <1>8, <1>t, <1>i DEF cb_func, removefd, goto, batch
  <2> QED
    BY <2>1, <1>m
<1>9. CASE NotAccepted \/ EndBatch
  BY <1>9, <1>t, <1>s DEF NotAccepted, EndBatch, goto, kernel, main, batch
<1>14. CASE Clients
  BY <1>14, <1>s DEF Clients, Connect, Send, HangUp, main, batch
<1>10. ASSUME NEW w \in Workers, CloseConn(w) PROVE Ownership!Next
  <2> DEFINE f == wjob[w]
  <2>1. /\ f \in FD /\ f \in open /\ m_sockfd[f] = f /\ interest[f] = "off"
        /\ event[f] = "none" /\ mfd # f
        /\ open' = open \ {f} /\ UNCHANGED <<event, mfd>>
        /\ \A g \in FD \ {f} : interest'[g] = interest[g]
    BY <1>10, <1>t, <1>i DEF CloseConn, removefd, main, batch
  <2> HIDE DEF f
  <2> QED
    BY <2>1, <1>w, <1>t
<1>11. ASSUME NEW w \in Workers, Rearm(w) PROVE Ownership!Next \/ Own' = Own
  <2> DEFINE f == wjob[w]
  <2>1. /\ f \in FD /\ event[f] = "none" /\ mfd # f
        /\ UNCHANGED <<event, mfd>>
        /\ \E ev \in {"in", "out"} : modfd(m_sockfd[f], ev)
    BY <1>11, <1>t, <1>i DEF Rearm, ArmFor, main, batch
  <2>2. CASE f \in open
    <3>1. /\ open' = open /\ interest[f] = "off" /\ interest'[f] \in {"in", "out"}
          /\ \A g \in FD \ {f} : interest'[g] = interest[g]
      BY <2>1, <2>2, <1>t, <1>i DEF modfd
    <3> HIDE DEF f
    <3> QED
      BY <2>1, <2>2, <3>1, <1>w, <1>t
  <2>3. CASE f \notin open
    <3>1. m_sockfd[f] = NoFd
      BY <1>11, <2>3, <1>t, <1>i DEF Rearm
    <3> QED
      BY <2>1, <3>1, <1>t, <1>s DEF modfd
  <2> QED
    BY <2>2, <2>3
<1>12. ASSUME NEW w \in Workers,
              Take(w) \/ Process(w) \/ ClearSockfd(w) \/ DecLoad(w) \/ DecStore(w)
       PROVE  Own' = Own
  BY <1>12, <1>s DEF Take, Process, ClearSockfd, DecLoad, DecStore, kernel, main, batch
<1>13. CASE UNCHANGED vars
  BY <1>13, <1>s DEF vars, kernel, main, batch
<1> QED
  BY <1>1, <1>2, <1>3, <1>4, <1>5, <1>6, <1>7, <1>8, <1>9, <1>10, <1>11, <1>12,
     <1>13, <1>14 DEF Next, Main, Worker

\* The event loop with its workers implements the abstract specification:
\* main.c and http_conn.cpp pass a descriptor from owner to owner, one at a
\* time, and never to two of them.
THEOREM EventLoopImplementsOwnership ==
    ASSUME Safe PROVE Spec => OwnershipSpec
<1>1. OwnershipSpec <=> Ownership!Init /\ [][Ownership!Next]_Own
  BY DEF OwnershipSpec, Ownership!Spec, Own
<1> QED
  BY <1>1, TypeCorrect, OneShotInit, OneShotStep, OwnershipInit, OwnershipStep, PTL DEF Spec

=============================================================================
