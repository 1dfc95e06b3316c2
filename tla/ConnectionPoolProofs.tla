------------------------ MODULE ConnectionPoolProofs ------------------------
(***************************************************************************)
(* What holds of ConnectionPool for every number of threads and of         *)
(* connections.                                                            *)
(***************************************************************************)
EXTENDS ConnectionPool, FiniteSetTheorems, TLAPS

(***************************************************************************)
(* The inductive invariant                                                 *)
(***************************************************************************)
Types ==
    /\ connList \in Seq(Conns)
    /\ MaxConn \in Nat /\ reserve \in Nat
    /\ lock \in Threads \cup {NoThread}
    /\ CurConn \in Int /\ FreeConn \in Int
    /\ pc \in [Threads -> PC]
    /\ conn \in [Threads -> Conns \cup {NULL}]

InSection == {"front", "pop_front", "push_back"}

\* The lock belongs to the thread between lock() and unlock().
LockOwned == \A t \in Threads : pc[t] \in InSection <=> lock = t

\* A thread has a connection from front() to push_back().
ConnWhere ==
    \A t \in Threads :
        /\ pc[t] \in {"outside", "wait", "get_lock", "front", "post"} => conn[t] = NULL
        /\ pc[t] \in {"pop_front", "put_lock", "push_back"} => conn[t] # NULL

\* What front() returned is what pop_front() will remove.
FrontIsHead ==
    \A t \in Threads : pc[t] = "pop_front" => connList # <<>> /\ conn[t] = connList[1]

\* Every connection in the list is in the semaphore, or on its way into it
\* or out of the list.
TokensMatch ==
    reserve + Cardinality(Promised) + Cardinality(Unposted) = Len(connList)

PoolInv ==
    /\ Types /\ LockOwned /\ ConnWhere /\ FrontIsHead
    /\ NoSharedConnection /\ TokensMatch /\ CountersExact

(***************************************************************************)
(* Counting threads                                                        *)
(***************************************************************************)
LEMMA Count ==
    ASSUME NEW S \in SUBSET Threads
    PROVE  IsFiniteSet(S) /\ Cardinality(S) \in Nat
BY FS_Subset, FS_CardinalityType, ConnectionPoolAssumption

LEMMA CountAdd ==
    ASSUME NEW S \in SUBSET Threads, NEW t \in Threads, t \notin S
    PROVE  Cardinality(S \cup {t}) = Cardinality(S) + 1
BY Count, FS_AddElement

LEMMA CountRemove ==
    ASSUME NEW S \in SUBSET Threads, NEW t \in S
    PROVE  Cardinality(S \ {t}) = Cardinality(S) - 1
BY Count, FS_RemoveElement

\* Where the sets of threads change when one thread moves.
LEMMA PromisedMoves ==
    ASSUME Types, NEW t \in Threads, NEW p \in PC, goto(t, p)
    PROVE  Promised' = IF p \in {"get_lock", "front", "pop_front"}
                       THEN Promised \cup {t} ELSE Promised \ {t}
BY DEF Types, goto, Promised

LEMMA UnpostedMoves ==
    ASSUME Types, NEW t \in Threads, NEW p \in PC, goto(t, p)
    PROVE  Unposted' = IF p = "post" THEN Unposted \cup {t} ELSE Unposted \ {t}
BY DEF Types, goto, Unposted

LEMMA HoldersMove ==
    ASSUME Types, NEW t \in Threads, NEW p \in PC, goto(t, p),
           \A u \in Threads \ {t} : conn'[u] = conn[u]
    PROVE  Holders' = IF p \in {"use", "put_lock", "push_back"} /\ conn'[t] # NULL
                      THEN Holders \cup {t} ELSE Holders \ {t}
BY DEF Types, goto, Holders

(***************************************************************************)
(* Types, and who has what                                                 *)
(***************************************************************************)
LEMMA TypesInit == Init => Types
BY ConnectionPoolAssumption, FS_CardinalityType DEF Init, Types, PC

LEMMA TypesStep == Types /\ ConnWhere /\ [Next]_vars => Types'
<1> SUFFICES ASSUME Types, ConnWhere, [Next]_vars PROVE Types'
  OBVIOUS
<1> USE DEF Types, PC, Getting, Releasing, goto, counts
<1>1. ASSUME NEW t \in Threads, Refused(t) \/ NotEmpty(t)
      PROVE  Types'
  BY <1>1 DEF Refused, NotEmpty
<1>2. ASSUME NEW t \in Threads, Wait(t) \/ GetLock(t) \/ Post(t) PROVE Types'
  BY <1>2 DEF Wait, GetLock, Post, acquire
<1>3. ASSUME NEW t \in Threads, Front(t) PROVE Types'
  BY <1>3 DEF Front
<1>4. ASSUME NEW t \in Threads, PopFront(t) PROVE Types'
  BY <1>4 DEF PopFront, release
<1>5. ASSUME NEW t \in Threads, NothingToRelease(t) \/ Release(t) \/ PutLock(t)
      PROVE  Types'
  BY <1>5 DEF NothingToRelease, Release, PutLock, acquire
<1>6. ASSUME NEW t \in Threads, PushBack(t) PROVE Types'
  BY <1>6 DEF PushBack, release, ConnWhere
<1>7. CASE UNCHANGED vars
  BY <1>7 DEF vars
<1> QED
  BY <1>1, <1>2, <1>3, <1>4, <1>5, <1>6, <1>7 DEF Next, GoOn

LEMMA LockOwnedStep ==
    Types /\ LockOwned /\ [Next]_vars => LockOwned'
<1> SUFFICES ASSUME Types, LockOwned, [Next]_vars PROVE LockOwned'
  OBVIOUS
<1>n. NoThread \notin Threads
  BY ConnectionPoolAssumption
<1> USE <1>n DEF Types, LockOwned, InSection, PC, Getting, Releasing, goto, counts
<1>1. ASSUME NEW t \in Threads,
             \/ Refused(t) \/ NotEmpty(t) \/ Wait(t) \/ Post(t)
             \/ NothingToRelease(t) \/ Release(t)
      PROVE  LockOwned'
  BY <1>1 DEF Refused, NotEmpty, Wait, Post, NothingToRelease, Release
<1>2. ASSUME NEW t \in Threads, GetLock(t) \/ PutLock(t) PROVE LockOwned'
  BY <1>2 DEF GetLock, PutLock, acquire
<1>3. ASSUME NEW t \in Threads, Front(t) PROVE LockOwned'
  BY <1>3 DEF Front
<1>4. ASSUME NEW t \in Threads, PopFront(t) \/ PushBack(t) PROVE LockOwned'
  BY <1>4 DEF PopFront, PushBack, release
<1>5. CASE UNCHANGED vars
  BY <1>5 DEF vars
<1> QED
  BY <1>1, <1>2, <1>3, <1>4, <1>5 DEF Next, GoOn

LEMMA ConnWhereStep ==
    Types /\ ConnWhere /\ [Next]_vars => ConnWhere'
<1> SUFFICES ASSUME Types, ConnWhere, [Next]_vars PROVE ConnWhere'
  OBVIOUS
<1>n. NULL \notin Conns
  BY ConnectionPoolAssumption
<1> USE <1>n DEF Types, ConnWhere, PC, Getting, Releasing, goto, counts
<1>1. ASSUME NEW t \in Threads,
             \/ Refused(t) \/ NotEmpty(t) \/ Wait(t) \/ Post(t)
             \/ NothingToRelease(t) \/ Release(t) \/ GetLock(t) \/ PutLock(t)
      PROVE  ConnWhere'
  BY <1>1 DEF Refused, NotEmpty, Wait, Post, NothingToRelease, Release, GetLock, PutLock
<1>2. ASSUME NEW t \in Threads, Front(t) PROVE ConnWhere'
  <2>1. Head(connList) \in Conns
    BY <1>2 DEF Front
  <2> QED
    BY <1>2, <2>1 DEF Front
<1>3. ASSUME NEW t \in Threads, PopFront(t) \/ PushBack(t) PROVE ConnWhere'
  BY <1>3 DEF PopFront, PushBack
<1>4. CASE UNCHANGED vars
  BY <1>4 DEF vars
<1> QED
  BY <1>1, <1>2, <1>3, <1>4 DEF Next, GoOn

LEMMA FrontIsHeadStep ==
    Types /\ LockOwned /\ FrontIsHead /\ [Next]_vars => FrontIsHead'
<1> SUFFICES ASSUME Types, LockOwned, FrontIsHead, [Next]_vars PROVE FrontIsHead'
  OBVIOUS
<1> USE DEF Types, FrontIsHead, PC, Getting, Releasing, goto, counts
<1>1. ASSUME NEW t \in Threads,
             \/ Refused(t) \/ NotEmpty(t) \/ Wait(t) \/ Post(t)
             \/ NothingToRelease(t) \/ Release(t) \/ GetLock(t) \/ PutLock(t)
      PROVE  FrontIsHead'
  BY <1>1 DEF Refused, NotEmpty, Wait, Post, NothingToRelease, Release, GetLock, PutLock
<1>2. ASSUME NEW t \in Threads, Front(t) PROVE FrontIsHead'
  BY <1>2 DEF Front
<1>3. ASSUME NEW t \in Threads, PopFront(t) \/ PushBack(t) PROVE FrontIsHead'
  <2>1. \A u \in Threads \ {t} : pc'[u] # "pop_front"
    BY <1>3 DEF PopFront, PushBack, LockOwned, InSection
  <2>2. pc'[t] # "pop_front"
    BY <1>3 DEF PopFront, PushBack
  <2> QED
    BY <2>1, <2>2
<1>4. CASE UNCHANGED vars
  BY <1>4 DEF vars
<1> QED
  BY <1>1, <1>2, <1>3, <1>4 DEF Next, GoOn

(***************************************************************************)
(* Holders, and connections in the list                                    *)
(***************************************************************************)
\* A connection changes hands only in PopFront and PushBack.
LEMMA HoldersKept ==
    ASSUME Types, ConnWhere, [Next]_vars,
           ~ \E t \in Threads : PopFront(t) \/ PushBack(t)
    PROVE  /\ Holders' = Holders
           /\ connList' = connList
           /\ UNCHANGED counts
           /\ \A t \in Holders : conn'[t] = conn[t]
<1> USE DEF Types, ConnWhere, PC, Getting, Releasing, goto, counts, Holders
<1>1. ASSUME NEW t \in Threads,
             \/ Refused(t) \/ NotEmpty(t) \/ Wait(t) \/ Post(t)
             \/ NothingToRelease(t) \/ Release(t) \/ GetLock(t) \/ PutLock(t)
      PROVE  Holders' = Holders /\ connList' = connList /\ UNCHANGED counts /\ conn' = conn
  BY <1>1 DEF Refused, NotEmpty, Wait, Post, NothingToRelease, Release, GetLock, PutLock
<1>2. ASSUME NEW t \in Threads, Front(t)
      PROVE  /\ Holders' = Holders /\ connList' = connList /\ UNCHANGED counts
             /\ \A u \in Threads \ {t} : conn'[u] = conn[u]
             /\ t \notin Holders
  BY <1>2 DEF Front
<1>3. CASE UNCHANGED vars
  BY <1>3 DEF vars
<1> QED
  BY <1>1, <1>2, <1>3 DEF Next, GoOn

LEMMA HoldersPop ==
    ASSUME Types, ConnWhere, FrontIsHead, NEW t \in Threads, PopFront(t)
    PROVE  /\ t \notin Holders /\ Holders' = Holders \cup {t}
           /\ conn' = conn /\ conn[t] = connList[1] /\ connList # <<>>
           /\ connList' = Tail(connList)
           /\ FreeConn' = FreeConn - 1 /\ CurConn' = CurConn + 1
           /\ MaxConn' = MaxConn
<1>1. conn' = conn /\ conn[t] # NULL /\ pc[t] = "pop_front" /\ goto(t, "use")
  BY DEF PopFront, ConnWhere
<1>2. Holders' = Holders \cup {t}
  BY <1>1, HoldersMove DEF PC
<1>3. t \notin Holders
  BY <1>1 DEF Holders
<1> QED
  BY <1>1, <1>2, <1>3 DEF PopFront, FrontIsHead

LEMMA HoldersPush ==
    ASSUME Types, ConnWhere, NEW t \in Threads, PushBack(t)
    PROVE  /\ t \in Holders /\ Holders' = Holders \ {t}
           /\ conn' = [conn EXCEPT ![t] = NULL]
           /\ connList' = Append(connList, conn[t]) /\ conn[t] \in Conns
           /\ FreeConn' = FreeConn + 1 /\ CurConn' = CurConn - 1
           /\ MaxConn' = MaxConn
<1>1. /\ conn' = [conn EXCEPT ![t] = NULL] /\ conn[t] # NULL
      /\ pc[t] = "push_back" /\ goto(t, "post")
  BY DEF PushBack, ConnWhere
<1>2. Holders' = Holders \ {t}
  BY <1>1, HoldersMove DEF PC, Types, Releasing
<1> QED
  BY <1>1, <1>2 DEF PushBack, Holders, Types

LEMMA NoSharedStep ==
    Types /\ ConnWhere /\ FrontIsHead /\ NoSharedConnection /\ [Next]_vars
    => NoSharedConnection'
<1> SUFFICES ASSUME Types, ConnWhere, FrontIsHead, NoSharedConnection, [Next]_vars
             PROVE  NoSharedConnection'
  OBVIOUS
<1>1. ASSUME NEW t \in Threads, PopFront(t) PROVE NoSharedConnection'
  <2>1. /\ connList \in Seq(Conns) /\ connList # <<>>
        /\ connList' = Tail(connList) /\ conn[t] = connList[1]
        /\ conn' = conn /\ Holders' = Holders \cup {t}
    BY <1>1, HoldersPop DEF Types
  <2>2. /\ Len(connList) \in Nat \ {0} /\ DOMAIN connList = 1 .. Len(connList)
        /\ DOMAIN connList' = 1 .. Len(connList) - 1
        /\ \A i \in 1 .. Len(connList) - 1 : connList'[i] = connList[i + 1]
    BY <2>1
  <2>3. \A i \in DOMAIN connList' : connList'[i] # conn[t]
    BY <2>1, <2>2 DEF NoSharedConnection
  <2>4. \A i, j \in DOMAIN connList' : connList'[i] = connList'[j] => i = j
    <3>1. \A i, j \in 1 .. Len(connList) : connList[i] = connList[j] => i = j
      BY <2>2 DEF NoSharedConnection
    <3>2. SUFFICES ASSUME NEW i \in 1 .. Len(connList) - 1,
                          NEW j \in 1 .. Len(connList) - 1,
                          connList[i + 1] = connList[j + 1]
                   PROVE  i = j
      BY <2>2
    <3> QED
      BY <2>2, <3>1, <3>2
  <2>5. \A u \in Holders : conn[u] # conn[t]
                           /\ \A i \in DOMAIN connList' : connList'[i] # conn[u]
    BY <2>1, <2>2 DEF NoSharedConnection
  <2> QED
    BY <2>1, <2>3, <2>4, <2>5 DEF NoSharedConnection
<1>2. ASSUME NEW t \in Threads, PushBack(t) PROVE NoSharedConnection'
  <2>1. /\ t \in Holders /\ Holders' = Holders \ {t}
        /\ connList \in Seq(Conns) /\ conn[t] \in Conns
        /\ connList' = Append(connList, conn[t])
        /\ \A u \in Holders \ {t} : conn'[u] = conn[u]
    BY <1>2, HoldersPush DEF Types, Holders
  <2>2. /\ DOMAIN connList = 1 .. Len(connList) /\ Len(connList) \in Nat
        /\ DOMAIN connList' = 1 .. Len(connList) + 1
        /\ \A i \in 1 .. Len(connList) : connList'[i] = connList[i]
        /\ connList'[Len(connList) + 1] = conn[t]
    BY <2>1
  <2>3. \A i, j \in DOMAIN connList' : connList'[i] = connList'[j] => i = j
    BY <2>1, <2>2 DEF NoSharedConnection
  <2>4. \A u \in Holders \ {t} : conn[u] # conn[t]
                           /\ \A i \in DOMAIN connList' : connList'[i] # conn[u]
    BY <2>1, <2>2 DEF NoSharedConnection
  <2> QED
    BY <2>1, <2>3, <2>4 DEF NoSharedConnection
<1>3. CASE ~ \E t \in Threads : PopFront(t) \/ PushBack(t)
  BY <1>3, HoldersKept DEF NoSharedConnection
<1> QED
  BY <1>1, <1>2, <1>3

LEMMA CountersStep ==
    Types /\ ConnWhere /\ FrontIsHead /\ CountersExact /\ [Next]_vars
    => CountersExact'
<1> SUFFICES ASSUME Types, ConnWhere, FrontIsHead, CountersExact, [Next]_vars
             PROVE  CountersExact'
  OBVIOUS
<1>h. Holders \in SUBSET Threads /\ Cardinality(Holders) \in Nat /\ Len(connList) \in Nat
  BY Count DEF Holders, Types
<1>1. ASSUME NEW t \in Threads, PopFront(t) PROVE CountersExact'
  <2>1. Len(connList') = Len(connList) - 1
    BY <1>1, HoldersPop DEF Types
  <2>2. Cardinality(Holders') = Cardinality(Holders) + 1
    BY <1>1, <1>h, HoldersPop, CountAdd
  <2> QED
    BY <1>1, <1>h, <2>1, <2>2, HoldersPop DEF CountersExact, Types
<1>2. ASSUME NEW t \in Threads, PushBack(t) PROVE CountersExact'
  <2>1. Len(connList') = Len(connList) + 1
    BY <1>2, HoldersPush DEF Types
  <2>2. Cardinality(Holders') = Cardinality(Holders) - 1
    BY <1>2, <1>h, HoldersPush, CountRemove
  <2> QED
    BY <1>2, <1>h, <2>1, <2>2, HoldersPush DEF CountersExact, Types
<1>3. CASE ~ \E t \in Threads : PopFront(t) \/ PushBack(t)
  BY <1>3, HoldersKept DEF CountersExact, counts
<1> QED
  BY <1>1, <1>2, <1>3

(***************************************************************************)
(* Semaphore and list                                                      *)
(***************************************************************************)
LEMMA TokensStep ==
    Types /\ ConnWhere /\ TokensMatch /\ [Next]_vars => TokensMatch'
<1> SUFFICES ASSUME Types, ConnWhere, TokensMatch, [Next]_vars PROVE TokensMatch'
  OBVIOUS
<1>s. Promised \in SUBSET Threads /\ Unposted \in SUBSET Threads
  BY DEF Promised, Unposted
<1>h. /\ Cardinality(Promised) \in Nat /\ Cardinality(Unposted) \in Nat
      /\ Len(connList) \in Nat /\ reserve \in Nat
  BY <1>s, Count DEF Types
<1>1. ASSUME NEW t \in Threads, NEW p \in PC, goto(t, p),
             pc[t] \notin {"get_lock", "front", "pop_front", "post"},
             p \notin {"get_lock", "front", "pop_front", "post"},
             reserve' = reserve, connList' = connList
      PROVE  TokensMatch'
  <2>1. Promised' = Promised /\ Unposted' = Unposted
    BY <1>1, PromisedMoves, UnpostedMoves DEF Promised, Unposted
  <2> QED
    BY <1>1, <2>1 DEF TokensMatch
<1>2. ASSUME NEW t \in Threads,
             \/ Refused(t) \/ NotEmpty(t) \/ NothingToRelease(t) \/ Release(t) \/ PutLock(t)
      PROVE  TokensMatch'
  BY <1>1, <1>2 DEF Refused, NotEmpty, NothingToRelease, Release, PutLock, PC, Getting, Releasing
<1>3. ASSUME NEW t \in Threads, Wait(t) PROVE TokensMatch'
  <2>1. /\ goto(t, "get_lock") /\ "get_lock" \in PC /\ pc[t] = "wait"
        /\ reserve' = reserve - 1 /\ connList' = connList
    BY <1>3 DEF Wait, PC, Getting
  <2>2. t \notin Promised /\ t \notin Unposted
    BY <2>1 DEF Promised, Unposted
  <2>3. Promised' = Promised \cup {t} /\ Unposted' = Unposted
    BY <2>1, <2>2, PromisedMoves, UnpostedMoves
  <2> QED
    BY <1>h, <1>s, <2>1, <2>2, <2>3, CountAdd DEF TokensMatch
<1>4. ASSUME NEW t \in Threads, GetLock(t) \/ Front(t) PROVE TokensMatch'
  <2>1. PICK p \in {"front", "pop_front"} :
          /\ goto(t, p) /\ p \in PC /\ pc[t] \in {"get_lock", "front"}
          /\ reserve' = reserve /\ connList' = connList
    BY <1>4 DEF GetLock, Front, PC, Getting
  <2>2. t \in Promised /\ t \notin Unposted
    BY <2>1 DEF Promised, Unposted
  <2>3. Promised' = Promised /\ Unposted' = Unposted
    BY <2>1, <2>2, PromisedMoves, UnpostedMoves
  <2> QED
    BY <2>1, <2>3 DEF TokensMatch
<1>5. ASSUME NEW t \in Threads, PopFront(t) PROVE TokensMatch'
  <2>1. goto(t, "use") /\ "use" \in PC /\ pc[t] = "pop_front" /\ reserve' = reserve
    BY <1>5 DEF PopFront, PC
  <2>2. t \in Promised /\ t \notin Unposted
    BY <2>1 DEF Promised, Unposted
  <2>3. Promised' = Promised \ {t} /\ Unposted' = Unposted
    BY <2>1, <2>2, PromisedMoves, UnpostedMoves
  <2>4. Len(connList') = Len(connList) - 1
    BY <1>5 DEF Types, PopFront
  <2>5. Cardinality(Promised') = Cardinality(Promised) - 1
    BY <1>s, <2>2, <2>3, CountRemove
  <2> QED
    BY <1>h, <2>1, <2>3, <2>4, <2>5 DEF TokensMatch
<1>6. ASSUME NEW t \in Threads, PushBack(t) PROVE TokensMatch'
  <2>1. goto(t, "post") /\ "post" \in PC /\ pc[t] = "push_back" /\ reserve' = reserve
    BY <1>6 DEF PushBack, PC, Releasing
  <2>2. t \notin Promised /\ t \notin Unposted
    BY <2>1 DEF Promised, Unposted
  <2>3. Promised' = Promised /\ Unposted' = Unposted \cup {t}
    BY <2>1, <2>2, PromisedMoves, UnpostedMoves
  <2>4. Len(connList') = Len(connList) + 1
    BY <1>6, HoldersPush DEF Types
  <2>5. /\ Cardinality(Unposted') = Cardinality(Unposted) + 1
        /\ Cardinality(Promised') = Cardinality(Promised)
    BY <1>s, <2>2, <2>3, CountAdd
  <2> QED
    BY <1>h, <2>1, <2>4, <2>5 DEF TokensMatch
<1>7. ASSUME NEW t \in Threads, Post(t) PROVE TokensMatch'
  <2>1. /\ goto(t, "outside") /\ "outside" \in PC /\ pc[t] = "post"
        /\ reserve' = reserve + 1 /\ connList' = connList
    BY <1>7 DEF Post, PC
  <2>2. t \notin Promised /\ t \in Unposted
    BY <2>1 DEF Promised, Unposted
  <2>3. Promised' = Promised /\ Unposted' = Unposted \ {t}
    BY <2>1, <2>2, PromisedMoves, UnpostedMoves
  <2>4. Cardinality(Unposted') = Cardinality(Unposted) - 1
    BY <1>s, <2>2, <2>3, CountRemove
  <2> QED
    BY <1>h, <2>1, <2>3, <2>4 DEF TokensMatch
<1>8. CASE UNCHANGED vars
  BY <1>8 DEF vars, TokensMatch, Promised, Unposted
<1> QED
  BY <1>2, <1>3, <1>4, <1>5, <1>6, <1>7, <1>8 DEF Next, GoOn

(***************************************************************************)
(* The theorems                                                            *)
(***************************************************************************)
LEMMA PoolInvInit == Init => PoolInv
<1> SUFFICES ASSUME Init PROVE PoolInv
  OBVIOUS
<1>1. PICK n \in 1 .. Cardinality(Conns) :
        /\ connList \in [1 .. n -> Conns]
        /\ \A i, j \in 1 .. n : connList[i] = connList[j] => i = j
        /\ reserve = n /\ FreeConn = n /\ CurConn = 0 /\ MaxConn = n
        /\ lock = NoThread
        /\ pc = [t \in Threads |-> "outside"]
        /\ conn = [t \in Threads |-> NULL]
  BY DEF Init
<1>2. n \in Nat /\ Len(connList) = n /\ DOMAIN connList = 1 .. n
  BY <1>1, FS_CardinalityType, ConnectionPoolAssumption
<1>3. Holders = {} /\ Promised = {} /\ Unposted = {}
  BY <1>1 DEF Holders, Promised, Unposted
<1>4. LockOwned /\ ConnWhere /\ FrontIsHead
  BY <1>1, ConnectionPoolAssumption DEF LockOwned, ConnWhere, FrontIsHead, InSection
<1>5. TokensMatch /\ CountersExact
  BY <1>1, <1>2, <1>3, FS_EmptySet DEF TokensMatch, CountersExact
<1>6. NoSharedConnection
  BY <1>1, <1>2, <1>3 DEF NoSharedConnection
<1> QED
  BY <1>4, <1>5, <1>6, TypesInit DEF PoolInv

LEMMA PoolInvStep == PoolInv /\ [Next]_vars => PoolInv'
BY TypesStep, LockOwnedStep, ConnWhereStep, FrontIsHeadStep, NoSharedStep,
   CountersStep, TokensStep DEF PoolInv

LEMMA PoolInvAlways == Spec => []PoolInv
BY PoolInvInit, PoolInvStep, PTL DEF Spec

\* Every step of the pool keeps the type invariant; in particular the
\* semaphore never exceeds the number of connections.
THEOREM TypeCorrect == Spec => []TypeOK
<1>1. PoolInv => TypeOK
  <2> SUFFICES ASSUME PoolInv PROVE TypeOK
    OBVIOUS
  <2>1. /\ Cardinality(Promised) \in Nat /\ Cardinality(Unposted) \in Nat
        /\ Cardinality(Holders) \in Nat /\ Len(connList) \in Nat
    BY Count DEF Promised, Unposted, Holders, PoolInv, Types
  <2>2. reserve \in 0 .. MaxConn
    BY <2>1 DEF PoolInv, Types, TokensMatch, CountersExact
  <2> QED
    BY <2>2 DEF PoolInv, Types, TypeOK
<1> QED
  BY <1>1, PoolInvAlways, PTL

\* A connection is never used by two threads, nor while it is in the list.
THEOREM NoConnectionIsShared == Spec => []NoSharedConnection
BY PoolInvAlways, PTL DEF PoolInv

\* front() and pop_front() are called on a list that is not empty.
THEOREM ListNeverPoppedEmpty == Spec => []NeverPopsEmpty
<1>1. PoolInv => NeverPopsEmpty
  <2> SUFFICES ASSUME PoolInv, NEW t \in Threads, pc[t] \in {"front", "pop_front"},
                      connList = <<>>
               PROVE  FALSE
    BY DEF NeverPopsEmpty
  <2>1. t \in Promised /\ Promised \in SUBSET Threads /\ Unposted \in SUBSET Threads
    BY DEF Promised, Unposted
  <2>2. /\ Cardinality(Promised) \in Nat /\ Cardinality(Unposted) \in Nat
        /\ IsFiniteSet(Promised) /\ reserve \in Nat
    BY <2>1, Count DEF PoolInv, Types
  <2>3. Cardinality(Promised) = 0
    BY <2>2 DEF PoolInv, TokensMatch
  <2> QED
    BY <2>1, <2>2, <2>3, FS_EmptySet
<1> QED
  BY <1>1, PoolInvAlways, PTL

\* FreeConn and CurConn count the connections in the list and out of it.
THEOREM CountersAreExact == Spec => []CountersExact
BY PoolInvAlways, PTL DEF PoolInv

\* With no more threads than connections nobody is refused.
THEOREM NobodyIsRefused == Spec => []EnoughForAll
<1>1. Init => EnoughForAll
  BY DEF Init, EnoughForAll
<1>2. PoolInv /\ EnoughForAll /\ [Next]_vars => EnoughForAll'
  <2> SUFFICES ASSUME PoolInv, EnoughForAll, [Next]_vars,
                      Cardinality(Threads) <= MaxConn', NEW u \in Threads',
                      pc'[u] = "use"
               PROVE  conn'[u] # NULL
    BY DEF EnoughForAll
  <2>m. MaxConn' = MaxConn
    BY DEF Next, GoOn, vars, counts, Refused, NotEmpty, Wait, GetLock, Front, PopFront,
           NothingToRelease, Release, PutLock, PushBack, Post
  <2>u. u \in Threads /\ (pc[u] = "use" => conn[u] # NULL)
    BY <2>m DEF EnoughForAll
  <2>t. pc \in [Threads -> PC] /\ conn \in [Threads -> Conns \cup {NULL}]
    BY DEF PoolInv, Types
  <2>1. ASSUME NEW t \in Threads, Refused(t) PROVE conn'[u] # NULL
    <3>1. Holders \in SUBSET (Threads \ {t}) /\ Len(connList) = 0
      BY <2>1 DEF Holders, Refused
    <3>2. Cardinality(Threads \ {t}) = Cardinality(Threads) - 1
      BY CountRemove
    <3>3. Cardinality(Holders) <= Cardinality(Threads \ {t})
      BY <3>1, Count, FS_Subset
    <3>4. Cardinality(Holders) \in Nat /\ Cardinality(Threads) \in Nat
      BY <3>1, Count
    <3>5. Cardinality(Holders) = MaxConn
      BY <3>1, <3>4 DEF PoolInv, CountersExact, Types
    <3> QED
      BY <3>2, <3>3, <3>4, <3>5, <2>m DEF PoolInv, Types
  <2>2. ASSUME NEW t \in Threads, PopFront(t) PROVE conn'[u] # NULL
    <3>1. conn' = conn /\ conn[t] # NULL /\ pc' = [pc EXCEPT ![t] = "use"]
      BY <2>2 DEF PopFront, goto, PoolInv, ConnWhere
    <3> QED
      BY <3>1, <2>u, <2>t
  <2>3. ASSUME NEW t \in Threads, NEW p \in PC \ {"use"}, goto(t, p),
               \A v \in Threads \ {t} : conn'[v] = conn[v]
        PROVE  conn'[u] # NULL
    BY <2>3, <2>u, <2>t DEF goto
  <2>4. ASSUME NEW t \in Threads,
               \/ NotEmpty(t) \/ Wait(t) \/ GetLock(t) \/ Front(t) \/ NothingToRelease(t)
               \/ Release(t) \/ PutLock(t) \/ PushBack(t) \/ Post(t)
        PROVE  conn'[u] # NULL
    <3>1. \A v \in Threads \ {t} : conn'[v] = conn[v]
      BY <2>4, <2>t DEF NotEmpty, Wait, GetLock, Front, NothingToRelease, Release, PutLock,
                  PushBack, Post
    <3>2. \E p \in PC \ {"use"} : goto(t, p)
      BY <2>4 DEF NotEmpty, Wait, GetLock, Front, NothingToRelease, Release, PutLock,
                  PushBack, Post, PC, Getting, Releasing
    <3> QED
      BY <2>3, <3>1, <3>2
  <2>5. CASE UNCHANGED vars
    BY <2>5, <2>u DEF vars
  <2> QED
    BY <2>1, <2>2, <2>4, <2>5 DEF Next, GoOn
<1> QED
  BY <1>1, <1>2, PoolInvAlways, PTL DEF Spec
=============================================================================
