----------------------------- MODULE EventLoop -----------------------------
(***************************************************************************)
(* The life of client connections in the server: the main thread's epoll   *)
(* loop (main.c:189-362), the connection objects it shares with the worker *)
(* threads (http_conn::init, read_once, write, process, close_conn) and    *)
(* the EPOLLONESHOT registrations that pass a socket from one thread to    *)
(* the other (addfd, modfd, removefd).                                     *)
(*                                                                         *)
(* A step is the code between two accesses to what another thread may      *)
(* touch; m_user_count-- is a load and a store, as the makefile's build    *)
(* without optimisation makes it.  The bytes of requests and responses     *)
(* belong to other modules: here a request is "there is something to read" *)
(* and a response is bytes_to_send > 0.  The thread pool is not in the     *)
(* repository: it is a FIFO list of slots and a set of workers that call   *)
(* process(), as main.c:127-130 and 300 use it.                            *)
(***************************************************************************)
EXTENDS Integers, Sequences, FiniteSets

CONSTANTS
    FD,          \* the descriptors a client socket may get: slots of users[]
    NoFd,        \* -1
    Workers,     \* threads of the pool
    MAX_FD,      \* limit on m_user_count
    Backlog,     \* bound: clients waiting to be accepted, listen(listenfd, 5)
    Outcomes,    \* what process() may make of a request, part of AllOutcomes
    PromptReuse, \* may accept() return the number of a descriptor whose
                 \* closing worker is still inside process()?
    CountBound,  \* bound: no client connects while m_user_count, or what a
                 \* worker loaded of it, is below -CountBound
    QueueBound   \* bound: no client sends while more slots are queued

AllOutcomes == {"NO_REQUEST", "RESPONSE", "FAIL"}

ASSUME EventLoopAssumption ==
    /\ NoFd \notin FD
    /\ IsFiniteSet(FD)
    /\ MAX_FD \in Nat \ {0}
    /\ Backlog \in Nat \ {0}
    /\ Outcomes \subseteq AllOutcomes
    /\ PromptReuse \in BOOLEAN
    /\ CountBound \in Nat /\ QueueBound \in Nat

VARIABLES
    open,          \* client descriptors that are open
    interest,      \* registration in the event table: "none" is not
                   \* registered, "off" is registered but disarmed
    waiting,       \* clients in the listen queue
    peer,          \* "sent" something not yet received, "gone" (shut down)
    m_sockfd,      \* users[fd].m_sockfd
    bytes_to_send, \* is users[fd].bytes_to_send positive?
    m_user_count,
    timer,         \* users_timer[fd].timer: never set, in timer_lst, deleted
    leaked,        \* timer_lst has a timer users_timer[fd] points to no more
    mpc, mfd, mtmp,  \* main thread: where it is, its slot, loaded count
    event,         \* entries of events[] still to be treated
    listenEvent,
    queue,         \* slots appended to the pool
    wpc, wjob, wtmp  \* workers: the same as mpc, mfd, mtmp

kernel == <<open, interest, waiting, peer>>
slots  == <<m_sockfd, bytes_to_send>>
timers == <<timer, leaked>>
main   == <<mpc, mfd, mtmp>>
batch  == <<event, listenEvent>>
pool   == <<queue, wpc, wjob, wtmp>>
vars   == <<kernel, slots, m_user_count, timers, main, batch, pool>>

Handling == {"read", "write", "rearm_in", "rearm_out", "cb_close"}
Closing  == {"cb_load", "cb_store"}
MainPC   == {"wait", "dispatch", "init_load", "init_store"} \cup Handling \cup Closing

WorkerClosing == {"clear_sockfd", "dec_load", "dec_store"}
WorkerPC == {"idle", "process", "close_conn", "rearm_in", "rearm_out"} \cup WorkerClosing

Init ==
    /\ open = {} /\ interest = [f \in FD |-> "none"]
    /\ waiting = 0 /\ peer = [f \in FD |-> "quiet"]
    /\ m_sockfd = [f \in FD |-> NoFd]
    /\ bytes_to_send = [f \in FD |-> FALSE]
    /\ m_user_count = 0
    /\ timer = [f \in FD |-> "unset"] /\ leaked = [f \in FD |-> FALSE]
    /\ mpc = "wait" /\ mfd = NoFd /\ mtmp = 0
    /\ event = [f \in FD |-> "none"] /\ listenEvent = FALSE
    /\ queue = <<>>
    /\ wpc = [w \in Workers |-> "idle"] /\ wjob = [w \in Workers |-> NoFd]
    /\ wtmp = [w \in Workers |-> 0]

(***************************************************************************)
(* Kernel: descriptors and the event table                                 *)
(***************************************************************************)
Armed(f) == interest[f] \in {"in", "out"}

\* What epoll_wait reports of f; a hang-up is looked at first (main.c:275).
ReadyEvent(f) ==
    CASE Armed(f) /\ peer[f] = "gone"            -> "HUP"
      [] interest[f] = "in" /\ peer[f] = "sent"  -> "IN"
      [] interest[f] = "out" /\ peer[f] # "gone" -> "OUT"
      [] OTHER                                   -> "none"

\* Mutant: the registration is made without EPOLLONESHOT.
LevelTriggered(f) == interest[f]

\* EPOLLONESHOT: a delivered event disarms the registration.
AfterDelivery(f) == IF ReadyEvent(f) # "none" THEN "off" ELSE interest[f]

\* modfd(): EPOLL_CTL_MOD fails, unnoticed, on what is not registered.
modfd(fd, ev) ==
    /\ interest' = IF fd \in FD /\ interest[fd] # "none"
                   THEN [interest EXCEPT ![fd] = ev] ELSE interest
    /\ UNCHANGED <<open, waiting, peer>>

\* EPOLL_CTL_DEL and close(): removefd(), and the same two calls in cb_func.
removefd(fd) ==
    /\ open' = open \ {fd}
    /\ interest' = [interest EXCEPT ![fd] = "none"]
    /\ peer' = [peer EXCEPT ![fd] = "quiet"]
    /\ UNCHANGED waiting

\* Numbers accept() may return: any that is free, since other threads keep
\* opening and closing files below it.
FreeFds == {f \in FD \ open : PromptReuse \/ \A w \in Workers : wjob[w] # f}

Connect ==
    /\ waiting < Backlog
    /\ \A n \in {m_user_count} \cup {wtmp[w] : w \in Workers} : n >= -CountBound
    /\ waiting' = waiting + 1
    /\ UNCHANGED <<open, interest, peer, slots, m_user_count, timers, main, batch, pool>>

Send(f) ==
    /\ f \in open /\ peer[f] = "quiet" /\ Len(queue) <= QueueBound
    /\ peer' = [peer EXCEPT ![f] = "sent"]
    /\ UNCHANGED <<open, interest, waiting, slots, m_user_count, timers, main, batch, pool>>

HangUp(f) ==
    /\ f \in open /\ peer[f] # "gone"
    /\ peer' = [peer EXCEPT ![f] = "gone"]
    /\ UNCHANGED <<open, interest, waiting, slots, m_user_count, timers, main, batch, pool>>

Clients == Connect \/ \E f \in FD : Send(f) \/ HangUp(f)

(***************************************************************************)
(* Main thread                                                             *)
(***************************************************************************)
goto(pc, f) == mpc' = pc /\ mfd' = f /\ mtmp' = 0

\* epoll_wait() returns everything that is ready, and blocks on nothing.
EpollWait ==
    /\ mpc = "wait"
    /\ waiting > 0 \/ \E f \in FD : ReadyEvent(f) # "none"
    /\ event' = [f \in FD |-> ReadyEvent(f)]
    /\ listenEvent' = (waiting > 0)
    /\ interest' = [f \in FD |-> AfterDelivery(f)]
    /\ goto("dispatch", NoFd)
    /\ UNCHANGED <<open, waiting, peer, slots, m_user_count, timers, pool>>

busy == m_user_count >= MAX_FD

\* Mutant: the event is not used up, as if accept() were called in a loop.
AcceptAgain ==
    /\ mpc = "dispatch" /\ listenEvent
    /\ waiting' = waiting - 1
    /\ UNCHANGED <<open, interest, peer, slots, m_user_count, timers, main, batch, pool>>

\* accept() fails (the client left, or no descriptor: then it stays in the
\* queue), or the server is busy and show_error() closes the descriptor.
NotAccepted ==
    /\ mpc = "dispatch" /\ listenEvent
    /\ listenEvent' = FALSE
    /\ waiting' \in {waiting - 1} \cup (IF FreeFds = {} THEN {waiting} ELSE {})
    /\ UNCHANGED <<open, interest, peer, slots, m_user_count, timers, main, event, pool>>

\* accept() and http_conn::init() up to m_user_count++.
Accept(f) ==
    /\ mpc = "dispatch" /\ listenEvent
    /\ f \in FreeFds /\ ~busy
    /\ listenEvent' = FALSE
    /\ waiting' = waiting - 1
    /\ open' = open \cup {f}
    /\ m_sockfd' = [m_sockfd EXCEPT ![f] = f]
    /\ interest' = [interest EXCEPT ![f] = "in"]
    /\ goto("init_load", f)
    /\ UNCHANGED <<peer, bytes_to_send, m_user_count, timers, event, pool>>

\* The load of m_user_count++ in init(), of m_user_count-- in cb_func().
LoadCount ==
    /\ mpc \in {"init_load", "cb_load"}
    /\ mtmp' = m_user_count
    /\ mpc' = IF mpc = "init_load" THEN "init_store" ELSE "cb_store"
    /\ UNCHANGED <<kernel, slots, m_user_count, timers, mfd, batch, pool>>

\* The private init(): whatever is left of an earlier request is dropped.
init(f) == bytes_to_send' = [bytes_to_send EXCEPT ![f] = FALSE]

\* The new timer takes the place of what users_timer[f].timer pointed to.
add_timer(f) ==
    /\ leaked' = [leaked EXCEPT ![f] = @ \/ timer[f] = "live"]
    /\ timer' = [timer EXCEPT ![f] = "live"]

\* The store of m_user_count++, and what follows up to the next event.
InitStore ==
    /\ mpc = "init_store"
    /\ m_user_count' = mtmp + 1
    /\ init(mfd)
    /\ add_timer(mfd)
    /\ goto("dispatch", NoFd)
    /\ UNCHANGED <<kernel, m_sockfd, batch, pool>>

Dispatch(f) ==
    /\ mpc = "dispatch" /\ event[f] # "none"
    /\ goto(CASE event[f] = "HUP" -> "cb_close"
              [] event[f] = "IN"  -> "read"
              [] event[f] = "OUT" -> "write", f)
    /\ event' = [event EXCEPT ![f] = "none"]
    /\ UNCHANGED <<kernel, slots, m_user_count, timers, listenEvent, pool>>

\* read_once() reads something: the slot is appended to the pool.
ReadOnce ==
    /\ mpc = "read"
    /\ LET s == m_sockfd[mfd] IN
       /\ s \in open /\ peer[s] # "quiet"
       /\ peer' = [peer EXCEPT ![s] = IF @ = "sent" THEN "quiet" ELSE @]
    /\ queue' = Append(queue, mfd)
    /\ goto("dispatch", NoFd)
    /\ UNCHANGED <<open, interest, waiting, slots, m_user_count, timers, batch,
                   wpc, wjob, wtmp>>

\* read_once() returns false (full buffer, end of file, error); so does
\* write() (writev error).
IOFails ==
    /\ mpc = "read" \/ (mpc = "write" /\ bytes_to_send[mfd])
    /\ goto("cb_close", mfd)
    /\ UNCHANGED <<kernel, slots, m_user_count, timers, batch, pool>>

\* write() with nothing to send, the branch at http_conn.cpp:622.
WriteNothing ==
    /\ mpc = "write" /\ ~bytes_to_send[mfd]
    /\ modfd(m_sockfd[mfd], "in")
    /\ goto("dispatch", NoFd)
    /\ UNCHANGED <<slots, m_user_count, timers, batch, pool>>

\* writev() sends all that is left, or fills the socket buffer (EAGAIN).
Write ==
    /\ mpc = "write" /\ bytes_to_send[mfd]
    /\ m_sockfd[mfd] \in open
    /\ \/ /\ bytes_to_send' = [bytes_to_send EXCEPT ![mfd] = FALSE]
          /\ goto("rearm_in", mfd)
       \/ /\ UNCHANGED bytes_to_send
          /\ goto("rearm_out", mfd)
    /\ UNCHANGED <<kernel, m_sockfd, m_user_count, timers, batch, pool>>

\* Mutants: no modfd() after an incomplete request or a complete response;
\* EPOLLIN instead of EPOLLOUT after a response that was cut short.
NoRearm(pc) == IF pc = "rearm_in" THEN "off" ELSE "out"
AlwaysIn(pc) == "in"

\* What modfd() asks for at the end of write() and of process().
ArmFor(pc) == IF pc = "rearm_in" THEN "in" ELSE "out"

WriteRearm ==
    /\ mpc \in {"rearm_in", "rearm_out"}
    /\ modfd(m_sockfd[mfd], ArmFor(mpc))
    /\ goto("dispatch", NoFd)
    /\ UNCHANGED <<slots, m_user_count, timers, batch, pool>>

\* Mutant: cb_func() without EPOLL_CTL_DEL and close().
StaysOpen ==
    /\ mpc = "cb_close"
    /\ goto("cb_load", mfd)
    /\ UNCHANGED <<kernel, slots, m_user_count, timers, batch, pool>>

\* cb_func(): it does not touch users[fd].
cb_func ==
    /\ mpc = "cb_close"
    /\ removefd(mfd)
    /\ goto("cb_load", mfd)
    /\ UNCHANGED <<slots, m_user_count, timers, batch, pool>>

\* Mutant: a client that leaves is not counted.
NotCounted(n) == n

OneClientLess(n) == n - 1

\* users_timer[fd].timer keeps pointing to the timer it deletes.
del_timer(f) == timer' = [timer EXCEPT ![f] = "dangling"] /\ UNCHANGED leaked

CbStore ==
    /\ mpc = "cb_store"
    /\ m_user_count' = OneClientLess(mtmp)
    /\ del_timer(mfd)
    /\ goto("dispatch", NoFd)
    /\ UNCHANGED <<kernel, slots, batch, pool>>

EndBatch ==
    /\ mpc = "dispatch" /\ ~listenEvent
    /\ \A f \in FD : event[f] = "none"
    /\ goto("wait", NoFd)
    /\ UNCHANGED <<kernel, slots, m_user_count, timers, batch, pool>>

Main ==
    \/ EpollWait \/ NotAccepted \/ LoadCount \/ InitStore
    \/ \E f \in FD : Accept(f) \/ Dispatch(f)
    \/ ReadOnce \/ IOFails \/ WriteNothing \/ Write \/ WriteRearm
    \/ cb_func \/ CbStore \/ EndBatch

(***************************************************************************)
(* Worker threads                                                          *)
(***************************************************************************)
step(w, pc) == wpc' = [wpc EXCEPT ![w] = pc]

Take(w) ==
    /\ wpc[w] = "idle" /\ queue # <<>>
    /\ wjob' = [wjob EXCEPT ![w] = Head(queue)]
    /\ queue' = Tail(queue)
    /\ step(w, "process")
    /\ UNCHANGED <<kernel, slots, m_user_count, timers, main, batch, wtmp>>

\* The three ways out of process(): the request is incomplete, a response
\* is in the write buffer, a response could not be made.
AfterProcess(outcome) ==
    CASE outcome = "NO_REQUEST" -> "rearm_in"
      [] outcome = "RESPONSE"   -> "rearm_out"
      [] outcome = "FAIL"       -> "close_conn"

Process(w) ==
    /\ wpc[w] = "process"
    /\ \E outcome \in Outcomes :
        /\ step(w, AfterProcess(outcome))
        /\ bytes_to_send' =
            [bytes_to_send EXCEPT ![wjob[w]] = @ \/ outcome = "RESPONSE"]
    /\ UNCHANGED <<kernel, m_sockfd, m_user_count, timers, main, batch, queue, wjob, wtmp>>

\* close_conn(): the test, and removefd(m_epollfd, m_sockfd).
CloseConn(w) ==
    /\ wpc[w] = "close_conn"
    /\ \/ /\ m_sockfd[wjob[w]] # NoFd
          /\ removefd(m_sockfd[wjob[w]])
          /\ step(w, "clear_sockfd")
       \/ /\ m_sockfd[wjob[w]] = NoFd
          /\ UNCHANGED kernel
          /\ step(w, "rearm_out")
    /\ UNCHANGED <<slots, m_user_count, timers, main, batch, queue, wjob, wtmp>>

\* m_sockfd = -1
ClearSockfd(w) ==
    /\ wpc[w] = "clear_sockfd"
    /\ m_sockfd' = [m_sockfd EXCEPT ![wjob[w]] = NoFd]
    /\ step(w, "dec_load")
    /\ UNCHANGED <<kernel, bytes_to_send, m_user_count, timers, main, batch,
                   queue, wjob, wtmp>>

\* m_user_count--
DecLoad(w) ==
    /\ wpc[w] = "dec_load"
    /\ wtmp' = [wtmp EXCEPT ![w] = m_user_count]
    /\ step(w, "dec_store")
    /\ UNCHANGED <<kernel, slots, m_user_count, timers, main, batch, queue, wjob>>

DecStore(w) ==
    /\ wpc[w] = "dec_store"
    /\ m_user_count' = OneClientLess(wtmp[w])
    /\ wtmp' = [wtmp EXCEPT ![w] = 0]
    /\ step(w, "rearm_out")
    /\ UNCHANGED <<kernel, slots, timers, main, batch, queue, wjob>>

\* Mutant: modfd() at the beginning of process(), while the worker goes on.
RearmFirst(w) ==
    /\ wpc[w] \in {"rearm_in", "rearm_out"}
    /\ modfd(m_sockfd[wjob[w]], ArmFor(wpc[w]))
    /\ step(w, IF wpc[w] = "rearm_in" THEN "process" ELSE "idle")
    /\ wjob' = [wjob EXCEPT ![w] = IF wpc[w] = "rearm_in" THEN @ ELSE NoFd]
    /\ UNCHANGED <<slots, m_user_count, timers, main, batch, queue, wtmp>>

\* The modfd() that ends process(), also after close_conn().
Rearm(w) ==
    /\ wpc[w] \in {"rearm_in", "rearm_out"}
    /\ modfd(m_sockfd[wjob[w]], ArmFor(wpc[w]))
    /\ step(w, "idle")
    /\ wjob' = [wjob EXCEPT ![w] = NoFd]
    /\ UNCHANGED <<slots, m_user_count, timers, main, batch, queue, wtmp>>

Worker(w) ==
    \/ Take(w) \/ Process(w) \/ CloseConn(w) \/ ClearSockfd(w)
    \/ DecLoad(w) \/ DecStore(w) \/ Rearm(w)

Next == Clients \/ Main \/ \E w \in Workers : Worker(w)

Spec == Init /\ [][Next]_vars

\* The scheduler runs the main thread and every worker; clients owe nothing.
FairSpec == Spec /\ WF_vars(Main) /\ \A w \in Workers : WF_vars(Worker(w))
(***************************************************************************)
(* Properties                                                              *)
(***************************************************************************)
Queued(f)    == \E i \in DOMAIN queue : queue[i] = f
WorkerHas(f) == \E w \in Workers : wjob[w] = f
MainHas(f)   == event[f] # "none" \/ mfd = f

KernelTypes ==
    /\ open \subseteq FD
    /\ interest \in [FD -> {"none", "off", "in", "out"}]
    /\ waiting \in 0 .. Backlog
    /\ peer \in [FD -> {"quiet", "sent", "gone"}]

SlotTypes ==
    /\ m_sockfd \in [FD -> FD \cup {NoFd}]
    /\ bytes_to_send \in [FD -> BOOLEAN]
    /\ m_user_count \in Int
    /\ timer \in [FD -> {"unset", "live", "dangling"}]
    /\ leaked \in [FD -> BOOLEAN]

MainTypes ==
    /\ mpc \in MainPC /\ mfd \in FD \cup {NoFd} /\ mtmp \in Int
    /\ mfd = NoFd <=> mpc \in {"wait", "dispatch"}
    /\ event \in [FD -> {"none", "HUP", "IN", "OUT"}]
    /\ listenEvent \in BOOLEAN /\ (listenEvent => waiting > 0)

PoolTypes ==
    /\ queue \in Seq(FD)
    /\ wpc \in [Workers -> WorkerPC]
    /\ wjob \in [Workers -> FD \cup {NoFd}]
    /\ wtmp \in [Workers -> Int]
    /\ \A w \in Workers : wjob[w] = NoFd <=> wpc[w] = "idle"

\* The type invariant: a thread has a slot exactly while it handles one, and
\* accept() is called only while a client waits.
TypeOK == KernelTypes /\ SlotTypes /\ MainTypes /\ PoolTypes

\* A socket is treated by one thread at any moment (the comment at
\* http_conn.cpp:95): a slot a worker is in is in no other worker and not in
\* the hands of the main thread.
OneThreadPerSocket ==
    \A w \in Workers : wjob[w] # NoFd =>
        /\ ~MainHas(wjob[w])
        /\ \A v \in Workers \ {w} : wjob[v] # wjob[w]

\* No connection is forgotten: an open socket is armed, or some thread or
\* the pool's list has it and will arm or close it (every path of main.c:202
\* and of process() ends in modfd() or in a close).
NoLostConnection ==
    \A f \in open : Armed(f) \/ MainHas(f) \/ Queued(f) \/ WorkerHas(f)

\* While nobody works on a connection it waits for EPOLLOUT exactly when its
\* slot has bytes to send, so that write() never meets an empty response
\* ("it does not happen normally", http_conn.cpp:621) and a response is never
\* left waiting for the client to speak first.
InterestMatchesResponse ==
    \A f \in FD : Armed(f) /\ mfd # f => (interest[f] = "out" <=> bytes_to_send[f])

\* The timer that main.c:278, 292 and 327 take from users_timer[] and
\* dereference before they test it is one that exists, whatever other
\* threads closed and accept() reused.
NoDanglingTimer == mpc \in Handling \cup Closing => timer[mfd] = "live"

\* No thread is between a change of open and its change of m_user_count.
AtRest ==
    /\ mpc \notin {"init_load", "init_store"} \cup Closing
    /\ \A w \in Workers : wpc[w] \notin WorkerClosing

\* Timers and connections belong together.  A worker that closes a connection
\* leaves its timer behind; the main thread does not.
NoneLeftBehind == \A f \in FD : ~leaked[f] /\ (timer[f] = "live" <=> f \in open)

\* The ++ and -- of m_user_count (main.c:99, http_conn.cpp:137, 147) are not
\* atomic.  It is the number of clients nevertheless, until a worker has closed
\* a connection in close_conn(): as long as none has left its timer behind.
UserCountExact == AtRest /\ NoneLeftBehind => m_user_count = Cardinality(open)

\* A request handed to the pool is answered or waits for its rest: its
\* socket goes back to the event table (http_conn.cpp:817, 825).
RequestComesBack == \A f \in FD : Queued(f) ~> interest[f] # "off"

\* What a client sends is read, or the connection ends, unless a response
\* the client does not take stands in the way (main.c:289).
DataIsRead ==
    \A f \in FD : peer[f] = "sent" ~> peer[f] # "sent" \/ interest[f] = "out"

\* The abstract specification: who owns a descriptor.
OwnerOf(f) ==
    CASE f \notin open              -> "free"
      [] f \in open /\ Armed(f)     -> "epoll"
      [] f \in open /\ ~Armed(f)    -> IF MainHas(f) THEN "main" ELSE "pool"

Ownership == INSTANCE ConnOwnership WITH owner <- [f \in FD |-> OwnerOf(f)]

\* Descriptors pass from owner to owner as ConnOwnership says.
OwnershipSpec == Ownership!Spec
=============================================================================
