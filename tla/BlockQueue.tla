----------------------------- MODULE BlockQueue -----------------------------
(***************************************************************************)
(* block_queue<T> (block_queue.h): a ring buffer under one mutex, with a   *)
(* condition variable for threads that find it empty.                      *)
(*                                                                         *)
(* Every function holds m_mutex from its first access to its last, so one  *)
(* call is one step, but for a wait, which gives the mutex away.  pop()    *)
(* without a timeout never gives it back.                                  *)
(***************************************************************************)
EXTENDS Integers, Sequences

CONSTANTS
    Threads, Items,
    NoItem,      \* what is in a slot, or a call's item, that was never set
    NoThread,    \* m_mutex is free
    m_max_size,  \* the constructor exits if it is not positive
    MaxCalls     \* bound: calls in all

ASSUME BlockQueueAssumption ==
    /\ NoItem \notin Items /\ NoThread \notin Threads
    /\ m_max_size \in Nat \ {0} /\ MaxCalls \in Nat

VARIABLES
    m_array, m_size, m_front, m_back, m_mutex,
    pc,       \* the function each thread is in, and where it waits in it
    item,     \* the argument of its push()
    outcome,  \* the call that returned last
    calls

ring == <<m_array, m_size, m_front, m_back>>
vars == <<ring, m_mutex, pc, item, outcome, calls>>

Functions == {"push", "pop", "timed pop", "clear", "look"}
Slots == 0 .. m_max_size - 1

\* The queue, first item first.
Contents == [i \in 1 .. m_size |-> m_array[(m_front + i) % m_max_size]]

Abstract == INSTANCE Fifo WITH queue <- Contents, Capacity <- m_max_size

Init ==
    /\ m_array = [i \in Slots |-> NoItem]
    /\ m_size = 0 /\ m_front = -1 /\ m_back = -1
    /\ m_mutex = NoThread
    /\ pc = [t \in Threads |-> "idle"] /\ item = [t \in Threads |-> NoItem]
    /\ outcome = Abstract!Outcome("none", FALSE, NoItem)
    /\ calls = 0

Call(t) ==
    /\ pc[t] = "idle" /\ calls < MaxCalls
    /\ \E f \in Functions, x \in Items :
           /\ pc' = [pc EXCEPT ![t] = f]
           /\ item' = [item EXCEPT ![t] = IF f = "push" THEN x ELSE NoItem]
    /\ calls' = calls + 1
    /\ UNCHANGED <<ring, m_mutex, outcome>>

\* Thread t is at p and gets the mutex.
at(t, p) == pc[t] = p /\ m_mutex = NoThread /\ UNCHANGED <<item, calls>>

return(t, op, ok, x) ==
    /\ pc' = [pc EXCEPT ![t] = "idle"]
    /\ outcome' = Abstract!Outcome(op, ok, x)

\* Who is woken has to get the mutex again; a pop() then looks again.
Woken(p) == CASE p = "pop waits" -> "pop" [] p = "timed pop waits" -> "woken" [] OTHER -> p

\* Mutant: nobody is woken.
NoBroadcast(t) == pc' = [pc EXCEPT ![t] = "idle"]

\* boardcast(), and the return of the thread that calls it.
boardcast(t) == pc' = [s \in Threads |-> IF s = t THEN "idle" ELSE Woken(pc[s])]

\* Mutant: one item too many.
OneTooMany == m_size > m_max_size

IsFull == m_size >= m_max_size

\* Mutant: the early return keeps the mutex.
RefuseLocked(t) ==
    /\ at(t, "push") /\ IsFull
    /\ boardcast(t) /\ outcome' = Abstract!Outcome("push", FALSE, item[t])
    /\ m_mutex' = t
    /\ UNCHANGED ring

RefusedPush(t) ==
    /\ at(t, "push") /\ IsFull
    /\ boardcast(t) /\ outcome' = Abstract!Outcome("push", FALSE, item[t])
    /\ UNCHANGED <<ring, m_mutex>>

Push(t) ==
    /\ at(t, "push") /\ ~IsFull
    /\ m_back' = (m_back + 1) % m_max_size
    /\ m_array' = [m_array EXCEPT ![m_back'] = item[t]]
    /\ m_size' = m_size + 1
    /\ boardcast(t) /\ outcome' = Abstract!Outcome("push", TRUE, item[t])
    /\ UNCHANGED <<m_front, m_mutex>>

Wait(t, f, there) ==
    /\ at(t, f) /\ m_size <= 0
    /\ pc' = [pc EXCEPT ![t] = there]
    /\ UNCHANGED <<ring, m_mutex, outcome>>

\* Mutant: the item is read before m_front is moved.
TakesBefore(t, op) ==
    /\ m_size > 0
    /\ m_front' = (m_front + 1) % m_max_size
    /\ m_size' = m_size - 1
    /\ return(t, op, TRUE, m_array[m_front % m_max_size])
    /\ UNCHANGED <<m_array, m_back>>

Takes(t, op) ==
    /\ m_size > 0
    /\ m_front' = (m_front + 1) % m_max_size
    /\ m_size' = m_size - 1
    /\ return(t, op, TRUE, m_array[m_front'])
    /\ UNCHANGED <<m_array, m_back>>

\* pop(item) returns with the mutex locked.
Pop(t) == at(t, "pop") /\ Takes(t, "pop") /\ m_mutex' = t

TimedPop(t) ==
    /\ at(t, "timed pop") \/ at(t, "woken")
    /\ Takes(t, "timed pop")
    /\ UNCHANGED m_mutex

\* After one wake-up it does not wait again; after the deadline it does not
\* look again.
TimedPopFails(t) ==
    /\ (at(t, "woken") /\ m_size <= 0) \/ at(t, "timed out")
    /\ return(t, "timed pop", FALSE, NoItem)
    /\ UNCHANGED <<ring, m_mutex>>

\* The deadline leaves out the microseconds of now and takes milliseconds for
\* microseconds: it is past at once or up to a second ahead.
Timeout(t) ==
    /\ pc[t] = "timed pop waits"
    /\ pc' = [pc EXCEPT ![t] = "timed out"]
    /\ UNCHANGED <<ring, m_mutex, item, outcome, calls>>

SpuriousWakeup(t) ==
    /\ pc[t] \in {"pop waits", "timed pop waits"}
    /\ pc' = [pc EXCEPT ![t] = Woken(@)]
    /\ UNCHANGED <<ring, m_mutex, item, outcome, calls>>

clear(t) ==
    /\ at(t, "clear")
    /\ m_size' = 0 /\ m_front' = -1 /\ m_back' = -1
    /\ return(t, "clear", TRUE, NoItem)
    /\ UNCHANGED <<m_array, m_mutex>>

back(t) ==
    \/ m_size = 0 /\ return(t, "back", FALSE, NoItem)
    \/ m_size # 0 /\ return(t, "back", TRUE, m_array[m_back])

\* full(), empty() and back(value).
Look(t) ==
    /\ at(t, "look")
    /\ \/ return(t, "full", IsFull, NoItem)
       \/ return(t, "empty", m_size = 0, NoItem)
       \/ back(t)
    /\ UNCHANGED <<ring, m_mutex>>

Step(t) ==
    \/ RefusedPush(t) \/ Push(t) \/ clear(t) \/ Look(t)
    \/ Wait(t, "pop", "pop waits") \/ Pop(t)
    \/ Wait(t, "timed pop", "timed pop waits") \/ TimedPop(t) \/ TimedPopFails(t) \/ Timeout(t)

Next == \E t \in Threads : Call(t) \/ Step(t) \/ SpuriousWakeup(t)

Spec == Init /\ [][Next]_vars

\* Threads run, and deadlines pass.
FairSpec == Spec /\ \A t \in Threads : WF_vars(Step(t))

(***************************************************************************)
(* Properties                                                              *)
(***************************************************************************)
\* The type invariant.
TypeOK ==
    /\ m_array \in [Slots -> Items \cup {NoItem}]
    /\ m_size \in 0 .. m_max_size
    /\ m_front \in -1 .. m_max_size - 1 /\ m_back \in -1 .. m_max_size - 1
    /\ m_mutex \in Threads \cup {NoThread}
    /\ pc \in [Threads -> Functions \cup
               {"idle", "pop waits", "timed pop waits", "woken", "timed out"}]
    /\ item \in [Threads -> Items \cup {NoItem}]
    /\ outcome \in [op : Functions \cup {"none", "full", "empty", "back"}, ok : BOOLEAN,
                   item : Items \cup {NoItem}]
    /\ calls \in Nat

\* The ring buffer is a bounded queue: m_front, m_back and m_size, each moved
\* by other functions, wrapped round and reset by clear() (block_queue.h:131,
\* 149, 179, 31), always say which slots hold which items in which order.
FifoSpec == Abstract!Spec

\* No thread sleeps while there is something to take: the broadcast of push()
\* (block_queue.h:132) reaches whoever found the queue empty.
NobodySleeps ==
    \A t \in Threads : pc[t] \in {"pop waits", "timed pop waits"} => m_size = 0

\* pop(item) has returned with the mutex, and nobody will get it again.
leaked == m_mutex # NoThread /\ outcome.op = "pop"

\* Unless it is pop(item), or pop(item) has taken an item before, every call
\* returns: each early return gives the mutex back (block_queue.h:28-183).
EveryCallReturns ==
    \A t \in Threads : pc[t] \in Functions \ {"pop"} ~> pc[t] = "idle" \/ leaked
=============================================================================
