--------------------------- MODULE ConnectionPool ---------------------------
(***************************************************************************)
(* The pool of database connections (sql_connection_pool.cpp): the list    *)
(* connList under the mutex lock, and the semaphore reserve that counts    *)
(* what the list can give.  A thread takes a connection for the time of    *)
(* one connectionRAII object.  GetConnection looks at the size of the list *)
(* before it waits and without the lock, and ReleaseConnection posts after *)
(* it unlocks, so that list and semaphore disagree for a while.            *)
(*                                                                         *)
(* connList.size(), the one access without a lock, is an int that another  *)
(* thread may be about to change: it is read as before or after a change.  *)
(***************************************************************************)
EXTENDS Integers, Sequences, FiniteSets

CONSTANTS
    Threads,  \* threads that use the pool: main thread and workers
    Conns,    \* MYSQL objects mysql_real_connect() may return
    NoThread, \* the mutex is free
    NULL

ASSUME ConnectionPoolAssumption ==
    /\ IsFiniteSet(Threads) /\ NoThread \notin Threads
    /\ IsFiniteSet(Conns) /\ NULL \notin Conns

VARIABLES
    connList, reserve, lock, MaxConn, CurConn, FreeConn,
    pc,   \* what each thread does next
    conn  \* the connection it took from the list

vars == <<connList, reserve, lock, MaxConn, CurConn, FreeConn, pc, conn>>

counts == <<MaxConn, CurConn, FreeConn>>

Getting   == {"wait", "get_lock", "front", "pop_front"}
Releasing == {"put_lock", "push_back", "post"}
PC == {"outside", "use"} \cup Getting \cup Releasing

\* connection_pool::init(): n connections, all different.
Init ==
    \E n \in 1 .. Cardinality(Conns) :
        /\ connList \in {s \in [1 .. n -> Conns] :
                            \A i, j \in 1 .. n : s[i] = s[j] => i = j}
        /\ reserve = n /\ FreeConn = n /\ CurConn = 0 /\ MaxConn = n
        /\ lock = NoThread
        /\ pc = [t \in Threads |-> "outside"]
        /\ conn = [t \in Threads |-> NULL]

goto(t, there) == pc' = [pc EXCEPT ![t] = there]

\* Mutant: the mutex stops nobody.
NoMutex(t) == lock' = t

acquire(t) == lock = NoThread /\ lock' = t
release    == lock' = NoThread

(***************************************************************************)
(* GetConnection                                                           *)
(***************************************************************************)
\* connList.size() == 0: return NULL.
Refused(t) ==
    /\ pc[t] = "outside" /\ connList = <<>>
    /\ goto(t, "use")
    /\ UNCHANGED <<connList, reserve, lock, counts, conn>>

NotEmpty(t) ==
    /\ pc[t] = "outside" /\ connList # <<>>
    /\ goto(t, "wait")
    /\ UNCHANGED <<connList, reserve, lock, counts, conn>>

\* Mutant: the size test is taken for the semaphore.
NoWait(t) ==
    /\ pc[t] = "wait"
    /\ goto(t, "get_lock")
    /\ UNCHANGED <<connList, reserve, lock, counts, conn>>

Wait(t) ==
    /\ pc[t] = "wait" /\ reserve > 0
    /\ reserve' = reserve - 1
    /\ goto(t, "get_lock")
    /\ UNCHANGED <<connList, lock, counts, conn>>

GetLock(t) ==
    /\ pc[t] = "get_lock"
    /\ acquire(t)
    /\ goto(t, "front")
    /\ UNCHANGED <<connList, reserve, counts, conn>>

Front(t) ==
    /\ pc[t] = "front" /\ connList # <<>>
    /\ conn' = [conn EXCEPT ![t] = Head(connList)]
    /\ goto(t, "pop_front")
    /\ UNCHANGED <<connList, reserve, lock, counts>>

\* pop_front(), the counters, and the unlock.
PopFront(t) ==
    /\ pc[t] = "pop_front" /\ connList # <<>>
    /\ connList' = Tail(connList)
    /\ FreeConn' = FreeConn - 1 /\ CurConn' = CurConn + 1
    /\ release
    /\ goto(t, "use")
    /\ UNCHANGED <<reserve, MaxConn, conn>>

(***************************************************************************)
(* ReleaseConnection, called by ~connectionRAII                            *)
(***************************************************************************)
\* Mutant: a post for a connection that was never taken.
PostsForNull(t) ==
    /\ pc[t] = "use" /\ conn[t] = NULL
    /\ goto(t, "post")
    /\ UNCHANGED <<connList, reserve, lock, counts, conn>>

\* conn == NULL: return false.
NothingToRelease(t) ==
    /\ pc[t] = "use" /\ conn[t] = NULL
    /\ goto(t, "outside")
    /\ UNCHANGED <<connList, reserve, lock, counts, conn>>

\* Mutant: the connection is not put back.
Leaks(t) ==
    /\ pc[t] = "use" /\ conn[t] # NULL
    /\ conn' = [conn EXCEPT ![t] = NULL]
    /\ goto(t, "outside")
    /\ UNCHANGED <<connList, reserve, lock, counts>>

Release(t) ==
    /\ pc[t] = "use" /\ conn[t] # NULL
    /\ goto(t, "put_lock")
    /\ UNCHANGED <<connList, reserve, lock, counts, conn>>

PutLock(t) ==
    /\ pc[t] = "put_lock"
    /\ acquire(t)
    /\ goto(t, "push_back")
    /\ UNCHANGED <<connList, reserve, counts, conn>>

\* Mutant: CurConn is not counted down.
PushBackOnly(t) ==
    /\ pc[t] = "push_back"
    /\ connList' = Append(connList, conn[t])
    /\ FreeConn' = FreeConn + 1
    /\ conn' = [conn EXCEPT ![t] = NULL]
    /\ release
    /\ goto(t, "post")
    /\ UNCHANGED <<reserve, MaxConn, CurConn>>

\* push_back(), the counters, and the unlock.
PushBack(t) ==
    /\ pc[t] = "push_back"
    /\ connList' = Append(connList, conn[t])
    /\ FreeConn' = FreeConn + 1 /\ CurConn' = CurConn - 1
    /\ conn' = [conn EXCEPT ![t] = NULL]
    /\ release
    /\ goto(t, "post")
    /\ UNCHANGED <<reserve, MaxConn>>

\* Mutant: no post.
NoPost(t) ==
    /\ pc[t] = "post"
    /\ goto(t, "outside")
    /\ UNCHANGED <<connList, reserve, lock, counts, conn>>

Post(t) ==
    /\ pc[t] = "post"
    /\ reserve' = reserve + 1
    /\ goto(t, "outside")
    /\ UNCHANGED <<connList, lock, counts, conn>>

\* What a thread goes on with once it has called GetConnection.
GoOn(t) ==
    \/ Wait(t) \/ GetLock(t) \/ Front(t) \/ PopFront(t)
    \/ NothingToRelease(t) \/ Release(t) \/ PutLock(t) \/ PushBack(t) \/ Post(t)

Next == \E t \in Threads : Refused(t) \/ NotEmpty(t) \/ GoOn(t)

Spec == Init /\ [][Next]_vars

\* Threads run, and a database query ends; nobody has to ask for a
\* connection, and neither mutex nor semaphore is fair.
FairSpec == Spec /\ \A t \in Threads : WF_vars(GoOn(t))

(***************************************************************************)
(* Properties                                                              *)
(***************************************************************************)
\* Threads a connection belongs to: what Front(t) saw is still in the list.
Holders == {t \in Threads : pc[t] \in {"use", "put_lock", "push_back"} /\ conn[t] # NULL}

\* Threads that took from the semaphore and not yet from the list, and
\* threads that put into the list and not yet into the semaphore.
Promised == {t \in Threads : pc[t] \in {"get_lock", "front", "pop_front"}}
Unposted == {t \in Threads : pc[t] = "post"}

\* The type invariant.
TypeOK ==
    /\ connList \in Seq(Conns)
    /\ MaxConn \in Nat
    /\ reserve \in 0 .. MaxConn
    /\ lock \in Threads \cup {NoThread}
    /\ CurConn \in Int /\ FreeConn \in Int
    /\ pc \in [Threads -> PC]
    /\ conn \in [Threads -> Conns \cup {NULL}]

\* A connection is used by one thread at a time and is not in the list while
\* it is used ("a mutex makes it thread-safe", CGImysql/README.md): a MYSQL
\* object must not serve two queries at once.
NoSharedConnection ==
    /\ \A t, u \in Holders : conn[t] = conn[u] => t = u
    /\ \A t \in Holders : \A i \in DOMAIN connList : connList[i] # conn[t]
    /\ \A i, j \in DOMAIN connList : connList[i] = connList[j] => i = j

\* The list is not empty where front() and pop_front() are called
\* (sql_connection_pool.cpp:71-72), although its size was read without the
\* lock: what is in the semaphore is in the list.
NeverPopsEmpty ==
    \A t \in Threads : pc[t] \in {"front", "pop_front"} => connList # <<>>

\* Whoever has the lock finds the counters right: FreeConn connections are
\* in the list, CurConn are out, and together they are all there are.
CountersExact ==
    /\ FreeConn = Len(connList)
    /\ CurConn = Cardinality(Holders)
    /\ FreeConn + CurConn = MaxConn

\* With no more threads than connections GetConnection never returns NULL,
\* which its callers do not test (http_conn.cpp:33-38, 517).
EnoughForAll ==
    Cardinality(Threads) <= MaxConn =>
        \A t \in Threads : pc[t] = "use" => conn[t] # NULL

\* If threads wait for a connection one of them gets one, however few there
\* are: no post is lost between list, mutex and semaphore.
WaitersAreServed ==
    (\E t \in Threads : pc[t] = "wait") ~> (\E t \in Threads : pc[t] = "pop_front")
=============================================================================
