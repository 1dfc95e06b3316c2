--------------------------- MODULE ConnOwnership ---------------------------
(***************************************************************************)
(* What the EPOLLONESHOT protocol of the server promises about a client    *)
(* socket, free of the mechanism: every descriptor has exactly one owner.  *)
(*                                                                         *)
(*   free   the descriptor is not open                                     *)
(*   epoll  it is armed in the kernel event table, nobody works on it      *)
(*   main   the main thread has an event of it to treat                    *)
(*   pool   the thread pool has it: queued, or inside process()            *)
(*                                                                         *)
(* EventLoop implements this specification (EventLoop!OwnershipSpec).      *)
(***************************************************************************)
CONSTANT FD

VARIABLE owner

Owners == {"free", "epoll", "main", "pool"}

Init == owner = [f \in FD |-> "free"]

\* f moves from one owner to another.
Pass(f, from, to) ==
    /\ owner[f] = from
    /\ owner' = [owner EXCEPT ![f] = to]

\* accept() returns a descriptor nobody was using and addfd() arms it.
Accepted(f) == Pass(f, "free", "epoll")

\* epoll_wait() hands a batch of armed sockets, all at once, to the main
\* thread; being one-shot they are armed no longer.
Delivered(S) ==
    /\ S # {}
    /\ \A f \in S : owner[f] = "epoll"
    /\ owner' = [f \in FD |-> IF f \in S THEN "main" ELSE owner[f]]

\* modfd() by whoever had the socket.
Armed(f) == Pass(f, "main", "epoll") \/ Pass(f, "pool", "epoll")

\* threadpool::append()
Appended(f) == Pass(f, "main", "pool")

\* cb_func() in the main thread, close_conn() in a worker.
Closed(f) == Pass(f, "main", "free") \/ Pass(f, "pool", "free")

Next ==
    \/ \E f \in FD : Accepted(f) \/ Armed(f) \/ Appended(f) \/ Closed(f)
    \/ \E S \in SUBSET FD : Delivered(S)

Spec == Init /\ [][Next]_owner
=============================================================================
