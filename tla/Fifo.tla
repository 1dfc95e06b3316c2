-------------------------------- MODULE Fifo --------------------------------
(***************************************************************************)
(* What a bounded queue promises: items come out once, in the order they   *)
(* went in; an item is refused only when the queue is full.                *)
(***************************************************************************)
EXTENDS Integers, Sequences

CONSTANTS Items, NoItem, Capacity

VARIABLES
    queue,
    outcome    \* the call that returned last: what it says, and with what item

Outcome(op, ok, x) == [op |-> op, ok |-> ok, item |-> x]

Init ==
    /\ queue = <<>>
    /\ outcome = Outcome("none", FALSE, NoItem)

Full == Len(queue) = Capacity

Enqueue(x) == ~Full /\ queue' = Append(queue, x)

Dequeue(x) == queue # <<>> /\ x = Head(queue) /\ queue' = Tail(queue)

Put(x) == Enqueue(x) /\ outcome' = Outcome("push", TRUE, x)

Refuse(x) ==
    /\ Full
    /\ outcome' = Outcome("push", FALSE, x)
    /\ UNCHANGED queue

Get(op) == \E x \in Items : Dequeue(x) /\ outcome' = Outcome(op, TRUE, x)

\* A call that gave up, even if an item has come in the meantime.
GetNothing ==
    /\ outcome' = Outcome("timed pop", FALSE, NoItem)
    /\ UNCHANGED queue

Clear ==
    /\ queue' = <<>>
    /\ outcome' = Outcome("clear", TRUE, NoItem)

Look ==
    /\ outcome' \in {Outcome("full", Full, NoItem), Outcome("empty", queue = <<>>, NoItem),
                     IF queue = <<>> THEN Outcome("back", FALSE, NoItem)
                     ELSE Outcome("back", TRUE, queue[Len(queue)])}
    /\ UNCHANGED queue

Next ==
    \/ \E x \in Items : Put(x) \/ Refuse(x)
    \/ Get("pop") \/ Get("timed pop") \/ GetNothing \/ Clear \/ Look

Spec == Init /\ [][Next]_<<queue, outcome>>
=============================================================================
