---------------------------- MODULE LogFileProofs ----------------------------
(***************************************************************************)
(* What holds of LogFile for any number of writers and lines, files of any *)
(* length, and any number of days.                                         *)
(***************************************************************************)
EXTENDS LogFile, FiniteSetTheorems, SequenceTheorems, TLAPS

(***************************************************************************)
(* The buffer and the disk                                                 *)
(***************************************************************************)
LEMMA BagType ==
    ASSUME NEW B, IsABag(B), NEW x \in DOMAIN B
    PROVE  B[x] \in Nat /\ B[x] > 0
BY DEF IsABag

LEMMA BagSum ==
    ASSUME NEW A, NEW B, IsABag(A), IsABag(B)
    PROVE  /\ IsABag(A (+) B)
           /\ DOMAIN (A (+) B) = DOMAIN A \cup DOMAIN B
           /\ \A x \in DOMAIN A : x \notin DOMAIN B => (A (+) B)[x] = A[x]
           /\ \A x \in DOMAIN B : x \notin DOMAIN A => (A (+) B)[x] = B[x]
<1>1. \A x \in DOMAIN A : A[x] \in Nat /\ A[x] > 0
  BY BagType
<1>2. \A x \in DOMAIN B : B[x] \in Nat /\ B[x] > 0
  BY BagType
<1>3. A (+) B = [x \in DOMAIN A \cup DOMAIN B |->
                    (IF x \in DOMAIN A THEN A[x] ELSE 0) + (IF x \in DOMAIN B THEN B[x] ELSE 0)]
  BY DEF (+)
<1>4. \A x \in DOMAIN A \cup DOMAIN B : (A (+) B)[x] \in {n \in Nat : n > 0}
  BY <1>1, <1>2, <1>3
<1>5. IsABag(A (+) B)
  BY <1>3, <1>4 DEF IsABag
<1> QED
  BY <1>1, <1>2, <1>3, <1>5

\* fflush() and fclose() move every line of the buffer to the open file.
LEMMA FlushMoves ==
    ASSUME IsABag(buffered), IsABag(disk), fflush
    PROVE  /\ buffered' = EmptyBag /\ DOMAIN buffered' = {} /\ IsABag(buffered')
           /\ IsABag(disk')
           /\ DOMAIN disk' = DOMAIN disk \cup ({m_fp} \X DOMAIN buffered)
           /\ \A x \in DOMAIN disk :
                x \notin {m_fp} \X DOMAIN buffered => disk'[x] = disk[x]
           /\ \A l \in DOMAIN buffered :
                <<m_fp, l>> \notin DOMAIN disk => disk'[<<m_fp, l>>] = buffered[l]
<1> DEFINE moved == [f \in {m_fp} \X DOMAIN buffered |-> buffered[f[2]]]
<1>1. DOMAIN moved = {m_fp} \X DOMAIN buffered /\ IsABag(moved)
  <2>1. \A f \in {m_fp} \X DOMAIN buffered : f[2] \in DOMAIN buffered
    OBVIOUS
  <2>2. \A f \in {m_fp} \X DOMAIN buffered : moved[f] \in {n \in Nat : n > 0}
    BY <2>1, BagType
  <2> QED
    BY <2>2 DEF IsABag
<1>2. \A l \in DOMAIN buffered : moved[<<m_fp, l>>] = buffered[l] /\ <<m_fp, l>> \in DOMAIN moved
  OBVIOUS
<1>3. disk' = disk (+) moved /\ buffered' = EmptyBag
  BY DEF fflush
<1>4. DOMAIN EmptyBag = {} /\ IsABag(EmptyBag)
  BY DEF EmptyBag, SetToBag, IsABag
<1> HIDE DEF moved
<1>5. /\ IsABag(disk (+) moved) /\ DOMAIN (disk (+) moved) = DOMAIN disk \cup DOMAIN moved
      /\ \A x \in DOMAIN disk : x \notin DOMAIN moved => (disk (+) moved)[x] = disk[x]
      /\ \A x \in DOMAIN moved : x \notin DOMAIN disk => (disk (+) moved)[x] = moved[x]
  BY <1>1, BagSum
<1>6. \A l \in DOMAIN buffered : <<m_fp, l>> \notin DOMAIN disk => disk'[<<m_fp, l>>] = buffered[l]
  BY <1>2, <1>3, <1>5
<1>7. /\ IsABag(disk') /\ DOMAIN disk' = DOMAIN disk \cup ({m_fp} \X DOMAIN buffered)
      /\ \A x \in DOMAIN disk :
            x \notin {m_fp} \X DOMAIN buffered => disk'[x] = disk[x]
  BY <1>1, <1>3, <1>5
<1> QED
  BY <1>3, <1>4, <1>6, <1>7

LEMMA FputsAdds ==
    ASSUME IsABag(buffered), NEW k, fputs(k)
    PROVE  /\ disk' = disk /\ IsABag(buffered')
           /\ DOMAIN buffered' = DOMAIN buffered \cup {k}
           /\ \A l \in DOMAIN buffered : l # k => buffered'[l] = buffered[l]
           /\ k \notin DOMAIN buffered => buffered'[k] = 1
<1> DEFINE new == SetToBag({k})
<1>1. IsABag(new) /\ DOMAIN new = {k} /\ new[k] = 1
  BY DEF SetToBag, IsABag
<1>2. disk' = disk /\ buffered' = buffered (+) new
  BY DEF fputs
<1> HIDE DEF new
<1>3. /\ IsABag(buffered (+) new) /\ DOMAIN (buffered (+) new) = DOMAIN buffered \cup DOMAIN new
      /\ \A x \in DOMAIN buffered : x \notin DOMAIN new => (buffered (+) new)[x] = buffered[x]
      /\ \A x \in DOMAIN new : x \notin DOMAIN buffered => (buffered (+) new)[x] = new[x]
  BY <1>1, BagSum
<1> QED
  BY <1>1, <1>2, <1>3

(***************************************************************************)
(* Types                                                                   *)
(***************************************************************************)
LEMMA Consts ==
    /\ m_split_lines \in Nat \ {0} /\ max_queue_size \in Nat \ {0}
    /\ MaxLines \in Nat /\ MaxDay \in Nat \ {0} /\ 1 \in Days
BY LogFileAssumption DEF Days

LEMMA TypeInit == Init => TypeOK
<1> SUFFICES ASSUME Init PROVE TypeOK
  OBVIOUS
<1>1. DOMAIN EmptyBag = {} /\ IsABag(EmptyBag)
  BY DEF EmptyBag, SetToBag, IsABag
<1>2. <<1, 0>> \in Days \X Nat /\ 0 \in 0 .. MaxLines /\ <<>> \in Seq(Lines) /\ Len(<<>>) = 0
  BY Consts, EmptySeq
<1>3. Len(queue) <= max_queue_size
  BY <1>2, Consts DEF Init
<1>4. /\ pc \in [Writers -> {"start", "count", "full", "push", "fputs", "written", "flushed"}]
      /\ number \in [Writers -> 0 .. MaxLines] /\ my_tm \in [Writers -> Days]
  BY <1>2, Consts DEF Init
<1> QED
  BY <1>1, <1>2, <1>3, <1>4, Consts DEF Init, TypeOK

\* What a writer's step keeps.
LEMMA StepType ==
    ASSUME TypeOK, NEW w \in Writers, NEW here, 
           NEW there \in {"full", "push", "fputs", "written", "flushed"}, step(w, here, there)
    PROVE  /\ pc' \in [Writers -> {"start", "count", "full", "push", "fputs", "written", "flushed"}]
           /\ number' = number /\ my_tm' = my_tm
           /\ number' \in [Writers -> 0 .. MaxLines] /\ my_tm' \in [Writers -> Days]
           /\ m_is_async' = m_is_async /\ today' = today
           /\ m_is_async' \in BOOLEAN /\ today' \in Days
           /\ pc[w] = here /\ pc'[w] = there /\ \A v \in Writers \ {w} : pc'[v] = pc[v]
BY DEF step, TypeOK

\* A writer that has a line has one of its lines.
LEMMA LineType ==
    ASSUME TypeOK, NEW w \in Writers, number[w] > 0
    PROVE  line(w) \in Lines
<1>1. number[w] \in 0 .. MaxLines /\ number[w] > 0
  BY DEF TypeOK
<1>2. number[w] \in 1 .. MaxLines
  BY <1>1, Consts
<1> QED
  BY <1>2 DEF line, Lines

\* The queue and what is taken from it.
LEMMA QueueTake ==
    ASSUME TypeOK, NEW l, Queue!Dequeue(l)
    PROVE  /\ l \in Lines /\ queue' \in Seq(Lines) /\ Len(queue) > 0
           /\ Len(queue') = Len(queue) - 1 /\ l = queue[1]
           /\ \A i \in 1 .. Len(queue') : queue'[i] = queue[i + 1]
<1>1. queue \in Seq(Lines) /\ queue # <<>> /\ l = Head(queue) /\ queue' = Tail(queue)
  BY DEF TypeOK, Queue!Dequeue
<1>2. Len(queue) \in Nat /\ Len(queue) > 0
  BY <1>1, EmptySeq
<1>3. /\ l \in Lines /\ queue' \in Seq(Lines) /\ Len(queue') = Len(queue) - 1
      /\ \A i \in 1 .. Len(queue') : queue'[i] = queue[i + 1]
  BY <1>1, HeadTailProperties
<1>4. l = queue[1]
  BY <1>1, <1>2
<1> QED
  BY <1>2, <1>3, <1>4

LEMMA QueuePut ==
    ASSUME TypeOK, NEW l \in Lines, Queue!Enqueue(l)
    PROVE  /\ queue' \in Seq(Lines) /\ Len(queue) < max_queue_size
           /\ Len(queue') = Len(queue) + 1 /\ queue'[Len(queue) + 1] = l
           /\ \A i \in 1 .. Len(queue) : queue'[i] = queue[i]
<1>1. queue \in Seq(Lines) /\ queue' = Append(queue, l) /\ Len(queue) # max_queue_size
  BY DEF TypeOK, Queue!Enqueue, Queue!Full
<1>2. Len(queue) \in Nat /\ Len(queue) <= max_queue_size /\ max_queue_size \in Nat
  BY <1>1, Consts DEF TypeOK
<1>3. Len(queue) < max_queue_size
  BY <1>1, <1>2
<1>4. /\ Append(queue, l) \in Seq(Lines) /\ Len(Append(queue, l)) = Len(queue) + 1
      /\ \A i \in 1 .. Len(queue) : Append(queue, l)[i] = queue[i]
      /\ Append(queue, l)[Len(queue) + 1] = l
  BY <1>1, AppendProperties
<1> QED
  BY <1>1, <1>3, <1>4

\* A writer that hands on a line has one.
NumberInv == \A w \in Writers : pc[w] # "start" => number[w] > 0

LogInv == TypeOK /\ NumberInv

LEMMA LogInit == Init => LogInv
BY TypeInit DEF LogInv, Init, NumberInv

LEMMA LogStep ==
    ASSUME LogInv, [Next]_vars
    PROVE  LogInv'
<1>t. TypeOK /\ NumberInv
  BY DEF LogInv
<1>b. /\ IsABag(buffered) /\ DOMAIN buffered \subseteq Lines
      /\ IsABag(disk) /\ DOMAIN disk \subseteq (Days \X Nat) \X Lines
  BY <1>t DEF TypeOK
<1>1. CASE Midnight
  <2>1. today' \in Days
    BY <1>1, <1>t, Consts DEF Midnight, TypeOK, Days
  <2>2. TypeOK'
    BY <1>1, <1>t, <2>1 DEF Midnight, TypeOK, log, block_queue
  <2> QED
    BY <1>1, <1>t, <2>2 DEF Midnight, LogInv, NumberInv
<1>2. CASE Take
  <2>1. PICK l \in Lines : Queue!Dequeue(l) /\ taken' = l
    BY <1>2 DEF Take
  <2>2. queue' \in Seq(Lines) /\ Len(queue') = Len(queue) - 1 /\ taken' \in Lines
    BY <1>t, <2>1, QueueTake
  <2>3. Len(queue') <= max_queue_size
    BY <1>t, <2>2, Consts DEF TypeOK
  <2>4. TypeOK'
    BY <1>2, <1>t, <2>2, <2>3 DEF Take, TypeOK, log
  <2> QED
    BY <1>2, <1>t, <2>4 DEF Take, LogInv, NumberInv
<1>3. CASE WriteTaken
  <2>1. taken \in Lines /\ fputs(taken) /\ taken' = NoLine
    BY <1>3, <1>t DEF WriteTaken, TypeOK
  <2>2. /\ disk' = disk /\ IsABag(buffered') /\ DOMAIN buffered' \subseteq Lines
    <3>1. disk' = disk /\ IsABag(buffered') /\ DOMAIN buffered' = DOMAIN buffered \cup {taken}
      BY <1>b, <2>1, FputsAdds
    <3> QED
      BY <1>b, <2>1, <3>1
  <2>3. TypeOK'
    BY <1>3, <1>t, <2>1, <2>2 DEF WriteTaken, TypeOK, block_queue
  <2> QED
    BY <1>3, <1>t, <2>3 DEF WriteTaken, LogInv, NumberInv
<1>4. ASSUME NEW w \in Writers, Stamp(w)
      PROVE  LogInv'
  <2>1. /\ pc' = [pc EXCEPT ![w] = "count"] /\ number' = [number EXCEPT ![w] = @ + 1]
        /\ my_tm' = [my_tm EXCEPT ![w] = today] /\ number[w] < MaxLines
    BY <1>4 DEF Stamp
  <2>2. number[w] + 1 \in 0 .. MaxLines /\ number[w] + 1 > 0
    BY <1>t, <2>1, Consts DEF TypeOK
  <2>3. /\ pc' \in [Writers -> {"start", "count", "full", "push", "fputs", "written", "flushed"}]
        /\ number' \in [Writers -> 0 .. MaxLines] /\ my_tm' \in [Writers -> Days]
    BY <1>t, <2>1, <2>2 DEF TypeOK
  <2>4. TypeOK'
    BY <1>4, <1>t, <2>3 DEF Stamp, TypeOK, log, block_queue
  <2>5. NumberInv'
    BY <1>t, <2>1, <2>2 DEF NumberInv, TypeOK
  <2> QED
    BY <2>4, <2>5 DEF LogInv
<1>5. ASSUME NEW w \in Writers, NEW here,
             NEW there \in {"full", "push", "fputs", "written", "flushed"}, step(w, here, there),
             here # "start",
             IsABag(buffered'), DOMAIN buffered' \subseteq Lines,
             IsABag(disk'), DOMAIN disk' \subseteq (Days \X Nat) \X Lines,
             m_today' \in Days, m_count' \in Nat, m_fp' \in Days \X Nat,
             queue' \in Seq(Lines), Len(queue') <= max_queue_size,
             taken' = taken, dropped' \subseteq Lines
      PROVE  LogInv'
  <2>1. /\ pc' \in [Writers -> {"start", "count", "full", "push", "fputs", "written", "flushed"}]
        /\ number' \in [Writers -> 0 .. MaxLines] /\ my_tm' \in [Writers -> Days]
        /\ m_is_async' \in BOOLEAN /\ today' \in Days
        /\ number' = number /\ pc[w] = here /\ \A v \in Writers \ {w} : pc'[v] = pc[v]
    BY <1>t, <1>5, StepType
  <2>2. TypeOK'
    BY <1>t, <1>5, <2>1 DEF TypeOK
  <2>3. NumberInv'
    BY <1>t, <1>5, <2>1 DEF NumberInv
  <2> QED
    BY <2>2, <2>3 DEF LogInv
<1>6. ASSUME NEW w \in Writers, Count(w)
      PROVE  LogInv'
  <2>1. step(w, "count", "full") /\ UNCHANGED <<queue, dropped, taken>>
    BY <1>6 DEF Count, block_queue
  <2>2. /\ IsABag(buffered') /\ DOMAIN buffered' \subseteq Lines
        /\ IsABag(disk') /\ DOMAIN disk' \subseteq (Days \X Nat) \X Lines
    <3>1. CASE fflush
      <4>1. {m_fp} \X DOMAIN buffered \subseteq (Days \X Nat) \X Lines
        BY <1>t, <1>b DEF TypeOK
      <4> QED
        BY <1>b, <3>1, <4>1, FlushMoves
    <3>2. CASE buffered' = buffered /\ disk' = disk
      BY <1>b, <3>2
    <3> QED
      BY <1>6, <3>1, <3>2 DEF Count
  <2>3. m_today' \in Days /\ m_count' \in Nat /\ m_fp' \in Days \X Nat
    <3>1. /\ my_tm[w] \in Days /\ m_count + 1 \in Nat /\ 0 \in Nat
          /\ (m_count + 1) \div m_split_lines \in Nat
      <4>1. m_count \in Nat /\ my_tm[w] \in Days /\ m_split_lines \in Nat \ {0}
        BY <1>t, Consts DEF TypeOK
      <4> QED
        BY <4>1
    <3>2. m_today \in Days /\ m_fp \in Days \X Nat
      BY <1>t DEF TypeOK
    <3> QED
      BY <1>6, <3>1, <3>2 DEF Count, NextFile
  <2>4. queue \in Seq(Lines) /\ Len(queue) <= max_queue_size /\ dropped \subseteq Lines
    BY <1>t DEF TypeOK
  <2> QED
    BY <1>5, <2>1, <2>2, <2>3, <2>4
<1>s. /\ m_today \in Days /\ m_count \in Nat /\ m_fp \in Days \X Nat
      /\ queue \in Seq(Lines) /\ Len(queue) <= max_queue_size /\ dropped \subseteq Lines
  BY <1>t DEF TypeOK
<1>7. ASSUME NEW w \in Writers, Full(w)
      PROVE  LogInv'
  <2>1. /\ step(w, "full", "push") \/ step(w, "full", "fputs")
        /\ UNCHANGED <<m_today, m_count, m_fp, buffered, disk, queue, dropped, taken>>
    BY <1>7 DEF Full, log, block_queue
  <2>2. CASE step(w, "full", "push")
    BY <1>5, <1>b, <1>s, <2>1, <2>2
  <2>3. CASE step(w, "full", "fputs")
    BY <1>5, <1>b, <1>s, <2>1, <2>3
  <2> QED
    BY <2>1, <2>2, <2>3
<1>8. ASSUME NEW w \in Writers, Push(w)
      PROVE  LogInv'
  <2>1. /\ step(w, "push", "written")
        /\ UNCHANGED <<m_today, m_count, m_fp, buffered, disk, taken>>
    BY <1>8 DEF Push, log
  <2>2. line(w) \in Lines
    BY <1>t, <2>1, LineType DEF NumberInv, step
  <2>3. queue' \in Seq(Lines) /\ Len(queue') <= max_queue_size /\ dropped' \subseteq Lines
    <3>1. CASE Queue!Enqueue(line(w)) /\ dropped' = dropped
      <4>1. queue' \in Seq(Lines) /\ Len(queue) < max_queue_size /\ Len(queue') = Len(queue) + 1
        BY <1>t, <2>2, <3>1, QueuePut
      <4>2. Len(queue) \in Nat /\ max_queue_size \in Nat
        BY <1>s, Consts
      <4> QED
        BY <1>s, <3>1, <4>1, <4>2
    <3>2. CASE dropped' = dropped \cup {line(w)} /\ queue' = queue
      BY <1>s, <2>2, <3>2
    <3> QED
      BY <1>8, <3>1, <3>2 DEF Push
  <2> QED
    BY <1>5, <1>b, <1>s, <2>1, <2>3
<1>9. ASSUME NEW w \in Writers, Fputs(w)
      PROVE  LogInv'
  <2>1. /\ step(w, "fputs", "written") /\ fputs(line(w))
        /\ UNCHANGED <<m_today, m_count, m_fp, queue, dropped, taken>>
    BY <1>9 DEF Fputs, block_queue
  <2>2. line(w) \in Lines
    BY <1>t, <2>1, LineType DEF NumberInv, step
  <2>3. disk' = disk /\ IsABag(buffered') /\ DOMAIN buffered' \subseteq Lines
    <3>1. disk' = disk /\ IsABag(buffered') /\ DOMAIN buffered' = DOMAIN buffered \cup {line(w)}
      BY <1>b, <2>1, FputsAdds
    <3> QED
      BY <1>b, <2>2, <3>1
  <2> QED
    BY <1>5, <1>b, <1>s, <2>1, <2>3
<1>10. ASSUME NEW w \in Writers, flush(w)
       PROVE  LogInv'
  <2>1. /\ step(w, "written", "flushed") /\ fflush
        /\ UNCHANGED <<m_today, m_count, m_fp, queue, dropped, taken>>
    BY <1>10 DEF flush, block_queue
  <2>2. {m_fp} \X DOMAIN buffered \subseteq (Days \X Nat) \X Lines
    BY <1>s, <1>b
  <2>3. /\ IsABag(buffered') /\ DOMAIN buffered' \subseteq Lines
        /\ IsABag(disk') /\ DOMAIN disk' \subseteq (Days \X Nat) \X Lines
    BY <1>b, <2>1, <2>2, FlushMoves
  <2> QED
    BY <1>5, <1>s, <2>1, <2>3
<1>11. CASE UNCHANGED vars
  <2>1. TypeOK'
    BY <1>11, <1>t DEF vars, log, block_queue, TypeOK
  <2> QED
    BY <1>11, <1>t, <2>1 DEF vars, LogInv, NumberInv
<1> QED
  BY <1>1, <1>2, <1>3, <1>4, <1>6, <1>7, <1>8, <1>9, <1>10, <1>11 DEF Next, write_log

(***************************************************************************)
(* Every line is in one place                                              *)
(***************************************************************************)
\* The places of a line, kind by kind.
HeldBy(l)   == {v \in Writers : line(v) = l /\ pc[v] \in Holding}
QueuedAt(l) == {j \in DOMAIN queue : queue[j] = l}
Taken(l)    == {l} \cap {taken}
Dropped(l)  == {l} \cap dropped
Buffered(l) == {d \in Copies(buffered) : d[1] = l}
OnDisk(l)   == {d \in Copies(disk) : d[1][2] = l}

One(S) == \E x : S = {x}

Nowhere(l) ==
    /\ HeldBy(l) = {} /\ QueuedAt(l) = {} /\ Taken(l) = {} /\ Dropped(l) = {}
    /\ Buffered(l) = {} /\ OnDisk(l) = {}
IsHeld(l) ==
    /\ One(HeldBy(l)) /\ QueuedAt(l) = {} /\ Taken(l) = {} /\ Dropped(l) = {}
    /\ Buffered(l) = {} /\ OnDisk(l) = {}
IsQueued(l) ==
    /\ HeldBy(l) = {} /\ One(QueuedAt(l)) /\ Taken(l) = {} /\ Dropped(l) = {}
    /\ Buffered(l) = {} /\ OnDisk(l) = {}
IsTaken(l) ==
    /\ HeldBy(l) = {} /\ QueuedAt(l) = {} /\ One(Taken(l)) /\ Dropped(l) = {}
    /\ Buffered(l) = {} /\ OnDisk(l) = {}
IsDropped(l) ==
    /\ HeldBy(l) = {} /\ QueuedAt(l) = {} /\ Taken(l) = {} /\ One(Dropped(l))
    /\ Buffered(l) = {} /\ OnDisk(l) = {}
IsBuffered(l) ==
    /\ HeldBy(l) = {} /\ QueuedAt(l) = {} /\ Taken(l) = {} /\ Dropped(l) = {}
    /\ One(Buffered(l)) /\ OnDisk(l) = {}
IsOnDisk(l) ==
    /\ HeldBy(l) = {} /\ QueuedAt(l) = {} /\ Taken(l) = {} /\ Dropped(l) = {}
    /\ Buffered(l) = {} /\ One(OnDisk(l))

InOnePlace(l) ==
    IsHeld(l) \/ IsQueued(l) \/ IsTaken(l) \/ IsDropped(l) \/ IsBuffered(l) \/ IsOnDisk(l)

\* The lines that were begun.
Begun == {l \in Lines : l[2] <= number[l[1]]}

OnceInv == \A l \in Lines : IF l \in Begun THEN InOnePlace(l) ELSE Nowhere(l)

\* What the invariant is for.
LEMMA OnePlace ==
    ASSUME NEW l, InOnePlace(l)
    PROVE  Cardinality(Places(l)) = 1
<1> DEFINE P1 == {<<"writer", w>> : w \in HeldBy(l)}
           P2 == {<<"queue", i>> : i \in QueuedAt(l)}
           P3 == {<<"log thread", x>> : x \in Taken(l)}
           P4 == {<<"dropped", x>> : x \in Dropped(l)}
           P5 == {<<"buffer", c>> : c \in Buffered(l)}
           P6 == {<<"disk", c>> : c \in OnDisk(l)}
<1>1. Places(l) = P1 \cup P2 \cup P3 \cup P4 \cup P5 \cup P6
  BY DEF Places, HeldBy, QueuedAt, Taken, Dropped, Buffered, OnDisk
<1>2. /\ HeldBy(l) = {} => P1 = {}
      /\ QueuedAt(l) = {} => P2 = {}
      /\ Taken(l) = {} => P3 = {}
      /\ Dropped(l) = {} => P4 = {}
      /\ Buffered(l) = {} => P5 = {}
      /\ OnDisk(l) = {} => P6 = {}
  OBVIOUS
<1>3. /\ One(HeldBy(l)) => One(P1)
      /\ One(QueuedAt(l)) => One(P2)
      /\ One(Taken(l)) => One(P3)
      /\ One(Dropped(l)) => One(P4)
      /\ One(Buffered(l)) => One(P5)
      /\ One(OnDisk(l)) => One(P6)
  <2>1. ASSUME NEW tag, NEW S, One(S) PROVE One({<<tag, x>> : x \in S})
    <3>1. PICK x : S = {x}
      BY <2>1 DEF One
    <3>2. {<<tag, y>> : y \in S} = {<<tag, x>>}
      BY <3>1
    <3> QED
      BY <3>2 DEF One
  <2> QED
    BY <2>1
<1> HIDE DEF P1, P2, P3, P4, P5, P6
<1> DEFINE All == P1 \cup P2 \cup P3 \cup P4 \cup P5 \cup P6
<1>4. One(All)
  <2>1. CASE IsHeld(l)
    <3>1. One(P1) /\ P2 = {} /\ P3 = {} /\ P4 = {} /\ P5 = {} /\ P6 = {}
      BY <1>2, <1>3, <2>1 DEF IsHeld
    <3>2. All = P1
      BY <3>1
    <3> QED
      BY <3>1, <3>2
  <2>2. CASE IsQueued(l)
    <3>1. One(P2) /\ P1 = {} /\ P3 = {} /\ P4 = {} /\ P5 = {} /\ P6 = {}
      BY <1>2, <1>3, <2>2 DEF IsQueued
    <3>2. All = P2
      BY <3>1
    <3> QED
      BY <3>1, <3>2
  <2>3. CASE IsTaken(l)
    <3>1. One(P3) /\ P1 = {} /\ P2 = {} /\ P4 = {} /\ P5 = {} /\ P6 = {}
      BY <1>2, <1>3, <2>3 DEF IsTaken
    <3>2. All = P3
      BY <3>1
    <3> QED
      BY <3>1, <3>2
  <2>4. CASE IsDropped(l)
    <3>1. One(P4) /\ P1 = {} /\ P2 = {} /\ P3 = {} /\ P5 = {} /\ P6 = {}
      BY <1>2, <1>3, <2>4 DEF IsDropped
    <3>2. All = P4
      BY <3>1
    <3> QED
      BY <3>1, <3>2
  <2>5. CASE IsBuffered(l)
    <3>1. One(P5) /\ P1 = {} /\ P2 = {} /\ P3 = {} /\ P4 = {} /\ P6 = {}
      BY <1>2, <1>3, <2>5 DEF IsBuffered
    <3>2. All = P5
      BY <3>1
    <3> QED
      BY <3>1, <3>2
  <2>6. CASE IsOnDisk(l)
    <3>1. One(P6) /\ P1 = {} /\ P2 = {} /\ P3 = {} /\ P4 = {} /\ P5 = {}
      BY <1>2, <1>3, <2>6 DEF IsOnDisk
    <3>2. All = P6
      BY <3>1
    <3> QED
      BY <3>1, <3>2
  <2> QED
    BY <2>1, <2>2, <2>3, <2>4, <2>5, <2>6 DEF InOnePlace
<1>5. PICK p : Places(l) = {p}
  BY <1>1, <1>4 DEF One
<1> QED
  BY <1>5, FS_Singleton

LEMMA CopiesOf ==
    ASSUME NEW bag, NEW d
    PROVE  d \in Copies(bag) <=> \E x \in DOMAIN bag : \E n \in 1 .. bag[x] : d = <<x, n>>
BY DEF Copies

LEMMA BufferedOf ==
    ASSUME IsABag(buffered), NEW l
    PROVE  /\ l \notin DOMAIN buffered <=> Buffered(l) = {}
           /\ l \in DOMAIN buffered => Buffered(l) = {<<l, n>> : n \in 1 .. buffered[l]}
           /\ One(Buffered(l)) => buffered[l] = 1
<1>1. \A d : d \in Buffered(l) <=> l \in DOMAIN buffered /\ \E n \in 1 .. buffered[l] : d = <<l, n>>
  BY CopiesOf DEF Buffered
<1>2. l \in DOMAIN buffered => buffered[l] \in Nat /\ buffered[l] > 0
  BY BagType
<1>3. l \in DOMAIN buffered => 1 \in 1 .. buffered[l] /\ buffered[l] \in 1 .. buffered[l]
  BY <1>2
<1>4. l \in DOMAIN buffered => <<l, 1>> \in Buffered(l) /\ <<l, buffered[l]>> \in Buffered(l)
  BY <1>1, <1>3
<1>5. l \notin DOMAIN buffered <=> Buffered(l) = {}
  BY <1>1, <1>4
<1>6. l \in DOMAIN buffered => Buffered(l) = {<<l, n>> : n \in 1 .. buffered[l]}
  BY <1>1
<1>7. One(Buffered(l)) => buffered[l] = 1
  <2>1. One(Buffered(l)) => <<l, 1>> = <<l, buffered[l]>>
    BY <1>4, <1>5 DEF One
  <2> QED
    BY <2>1
<1> QED
  BY <1>5, <1>6, <1>7

LEMMA OnDiskOf ==
    ASSUME IsABag(disk), NEW l
    PROVE  /\ OnDisk(l) = {} <=> \A x \in DOMAIN disk : x[2] # l
           /\ \A d : d \in OnDisk(l) <=>
                \E x \in DOMAIN disk : x[2] = l /\ \E n \in 1 .. disk[x] : d = <<x, n>>
<1>1. \A d : d \in OnDisk(l) <=>
        \E x \in DOMAIN disk : x[2] = l /\ \E n \in 1 .. disk[x] : d = <<x, n>>
  BY CopiesOf DEF OnDisk
<1>2. \A x \in DOMAIN disk : 1 \in 1 .. disk[x]
  <2>1. \A x \in DOMAIN disk : disk[x] \in Nat /\ disk[x] > 0
    BY BagType
  <2> QED
    BY <2>1
<1>3. \A x \in DOMAIN disk : x[2] = l => <<x, 1>> \in OnDisk(l)
  BY <1>1, <1>2
<1> QED
  BY <1>1, <1>3

\* What the places of a line become with the steps: its writer,
LEMMA HeldStays ==
    ASSUME TypeOK, NEW w \in Writers, NEW here,
           NEW there \in {"full", "push", "fputs", "written", "flushed"}, step(w, here, there),
           here \in Holding <=> there \in Holding
    PROVE  /\ \A l : HeldBy(l)' = HeldBy(l)
           /\ Begun' = Begun
<1>1. /\ number' = number /\ pc[w] = here /\ pc'[w] = there
      /\ \A v \in Writers \ {w} : pc'[v] = pc[v]
  BY StepType
<1>2. \A v \in Writers : line(v)' = line(v) /\ (pc'[v] \in Holding <=> pc[v] \in Holding)
  BY <1>1 DEF line
<1> QED
  BY <1>1, <1>2 DEF HeldBy, Begun, line

LEMMA HeldLeaves ==
    ASSUME TypeOK, NumberInv, OnceInv, NEW w \in Writers, NEW here \in Holding,
           NEW there \in {"written", "flushed"}, step(w, here, there), NEW k, k = line(w)
    PROVE  /\ \A l : l # k => HeldBy(l)' = HeldBy(l)
           /\ HeldBy(k)' = {}
           /\ Begun' = Begun
           /\ k \in Begun /\ IsHeld(k)
<1>1. /\ number' = number /\ pc[w] = here /\ pc'[w] = there
      /\ \A v \in Writers \ {w} : pc'[v] = pc[v]
  BY StepType
<1>2. /\ \A v \in Writers : line(v)' = line(v)
      /\ \A v \in Writers \ {w} : pc'[v] \in Holding <=> pc[v] \in Holding
      /\ pc[w] \in Holding /\ pc'[w] \notin Holding
  BY <1>1 DEF line, Holding
<1>3. number[w] > 0
  BY <1>1 DEF NumberInv, Holding
<1>4. k \in Lines /\ k[1] = w /\ k[2] = number[w]
  BY <1>3, LineType DEF line
<1>5. k \in Begun
  <2>1. number[w] \in Int
    BY DEF TypeOK
  <2> QED
    BY <1>4, <2>1 DEF Begun
<1>6. w \in HeldBy(k)
  BY <1>2 DEF HeldBy
<1>7. IsHeld(k)
  <2>1. InOnePlace(k)
    BY <1>4, <1>5 DEF OnceInv
  <2> QED
    BY <1>6, <2>1 DEF InOnePlace, IsHeld, IsQueued, IsTaken, IsDropped, IsBuffered, IsOnDisk
<1>8. HeldBy(k) = {w}
  BY <1>6, <1>7 DEF IsHeld, One
<1>9. HeldBy(k)' = {}
  <2>1. \A v \in Writers \ {w} : ~(line(v)' = k /\ pc'[v] \in Holding)
    BY <1>2, <1>8 DEF HeldBy
  <2> QED
    BY <1>2, <2>1 DEF HeldBy
<1>10. \A l : l # k => HeldBy(l)' = HeldBy(l)
  <2>1. \A l : l # k => \A v \in Writers :
            (line(v)' = l /\ pc'[v] \in Holding) <=> (line(v) = l /\ pc[v] \in Holding)
    BY <1>2
  <2> QED
    BY <2>1 DEF HeldBy
<1> QED
  BY <1>1, <1>5, <1>7, <1>9, <1>10 DEF Begun

\* the queue,
LEMMA QueuedPut ==
    ASSUME TypeOK, NEW k \in Lines, Queue!Enqueue(k), QueuedAt(k) = {}
    PROVE  /\ \A l : l # k => QueuedAt(l)' = QueuedAt(l)
           /\ One(QueuedAt(k)')
<1>1. /\ queue \in Seq(Lines) /\ queue' \in Seq(Lines)
      /\ Len(queue') = Len(queue) + 1 /\ queue'[Len(queue) + 1] = k
      /\ \A i \in 1 .. Len(queue) : queue'[i] = queue[i]
  BY QueuePut DEF TypeOK
<1>2. /\ DOMAIN queue = 1 .. Len(queue) /\ DOMAIN queue' = 1 .. Len(queue') /\ Len(queue) \in Nat
  BY <1>1
<1>3. DOMAIN queue' = DOMAIN queue \cup {Len(queue) + 1} /\ Len(queue) + 1 \notin DOMAIN queue
  BY <1>1, <1>2
<1>4. \A l : l # k => QueuedAt(l)' = QueuedAt(l)
  BY <1>1, <1>2, <1>3 DEF QueuedAt
<1>5. QueuedAt(k)' = {Len(queue) + 1}
  BY <1>1, <1>2, <1>3 DEF QueuedAt
<1> QED
  BY <1>4, <1>5 DEF One

LEMMA QueuedTake ==
    ASSUME TypeOK, NEW k, Queue!Dequeue(k)
    PROVE  /\ \A l : QueuedAt(l) = {} => QueuedAt(l)' = {}
           /\ \A l : l # k => (One(QueuedAt(l)) => One(QueuedAt(l)'))
           /\ 1 \in QueuedAt(k)
           /\ One(QueuedAt(k)) => QueuedAt(k)' = {}
<1>1. /\ queue \in Seq(Lines) /\ queue' \in Seq(Lines) /\ Len(queue) > 0
      /\ Len(queue') = Len(queue) - 1 /\ k = queue[1]
      /\ \A i \in 1 .. Len(queue') : queue'[i] = queue[i + 1]
  BY QueueTake DEF TypeOK
<1>2. DOMAIN queue = 1 .. Len(queue) /\ DOMAIN queue' = 1 .. Len(queue') /\ Len(queue) \in Nat
  BY <1>1
<1>3. /\ \A i \in DOMAIN queue' : i \in Int /\ i + 1 \in DOMAIN queue /\ i + 1 # 1 /\ queue'[i] = queue[i + 1]
      /\ \A j \in DOMAIN queue : j # 1 => j - 1 \in DOMAIN queue' /\ queue'[j - 1] = queue[j] /\ j \in Int
  <2>1. Len(queue) \in Nat /\ Len(queue) > 0 /\ Len(queue') = Len(queue) - 1
    BY <1>1, <1>2
  <2>2. ASSUME NEW i \in DOMAIN queue'
        PROVE  i \in Int /\ i + 1 \in DOMAIN queue /\ i + 1 # 1 /\ queue'[i] = queue[i + 1]
    <3>1. i \in 1 .. Len(queue')
      BY <1>2, <2>2
    <3>2. i \in Int /\ i + 1 \in 1 .. Len(queue) /\ i + 1 # 1
      BY <2>1, <3>1
    <3> QED
      BY <1>1, <1>2, <3>1, <3>2
  <2>3. ASSUME NEW j \in DOMAIN queue, j # 1
        PROVE  j - 1 \in DOMAIN queue' /\ queue'[j - 1] = queue[j] /\ j \in Int
    <3>1. j \in 1 .. Len(queue)
      BY <1>2, <2>3
    <3>2. j \in Int /\ j - 1 \in 1 .. Len(queue') /\ (j - 1) + 1 = j
      BY <2>1, <2>3, <3>1
    <3>3. queue'[j - 1] = queue[(j - 1) + 1]
      BY <1>1, <3>2
    <3> QED
      BY <1>2, <3>2, <3>3
  <2> QED
    BY <2>2, <2>3
<1>4. 1 \in QueuedAt(k)
  BY <1>1, <1>2 DEF QueuedAt
<1>5. /\ \A l, i : i \in QueuedAt(l)' => i \in Int /\ i + 1 \in QueuedAt(l) /\ i + 1 # 1
      /\ \A l : l # k => \A j \in QueuedAt(l) : j \in Int /\ j - 1 \in QueuedAt(l)'
  BY <1>1, <1>3 DEF QueuedAt
<1>6. \A l : QueuedAt(l) = {} => QueuedAt(l)' = {}
  BY <1>5
<1>7. One(QueuedAt(k)) => QueuedAt(k)' = {}
  BY <1>4, <1>5 DEF One
<1>8. ASSUME NEW l, l # k, One(QueuedAt(l))
      PROVE  One(QueuedAt(l)')
  <2>1. PICK j : QueuedAt(l) = {j}
    BY <1>8 DEF One
  <2>2. j \in Int /\ j - 1 \in QueuedAt(l)'
    BY <1>5, <1>8, <2>1
  <2>3. \A i \in QueuedAt(l)' : i = j - 1
    <3>1. \A i \in QueuedAt(l)' : i \in Int /\ i + 1 = j
      BY <1>5, <2>1
    <3> QED
      BY <2>2, <3>1
  <2>4. QueuedAt(l)' = {j - 1}
    BY <2>2, <2>3
  <2> QED
    BY <2>4 DEF One
<1> QED
  BY <1>4, <1>6, <1>7, <1>8

\* and the buffer and the disk.
LEMMA BufferedPut ==
    ASSUME TypeOK, NEW k, fputs(k), Buffered(k) = {}
    PROVE  /\ \A l : l # k => Buffered(l)' = Buffered(l)
           /\ One(Buffered(k)')
           /\ \A l : OnDisk(l)' = OnDisk(l)
<1>1. IsABag(buffered)
  BY DEF TypeOK
<1>2. /\ disk' = disk /\ IsABag(buffered') /\ DOMAIN buffered' = DOMAIN buffered \cup {k}
      /\ \A l \in DOMAIN buffered : l # k => buffered'[l] = buffered[l]
      /\ k \notin DOMAIN buffered => buffered'[k] = 1
  BY <1>1, FputsAdds
<1>3. k \notin DOMAIN buffered
  BY <1>1, BufferedOf
<1>4. ASSUME NEW l, l # k PROVE Buffered(l)' = Buffered(l)
  <2>1. \A d : d \in Buffered(l)' <=> l \in DOMAIN buffered' /\ \E n \in 1 .. buffered'[l] : d = <<l, n>>
    BY CopiesOf DEF Buffered
  <2>2. \A d : d \in Buffered(l) <=> l \in DOMAIN buffered /\ \E n \in 1 .. buffered[l] : d = <<l, n>>
    BY CopiesOf DEF Buffered
  <2>3. l \in DOMAIN buffered' <=> l \in DOMAIN buffered
    BY <1>2, <1>4
  <2>4. l \in DOMAIN buffered => buffered'[l] = buffered[l]
    BY <1>2, <1>4
  <2> QED
    BY <2>1, <2>2, <2>3, <2>4
<1>5. Buffered(k)' = {<<k, 1>>}
  <2>1. \A d : d \in Buffered(k)' <=> k \in DOMAIN buffered' /\ \E n \in 1 .. buffered'[k] : d = <<k, n>>
    BY CopiesOf DEF Buffered
  <2>2. k \in DOMAIN buffered' /\ buffered'[k] = 1
    BY <1>2, <1>3
  <2>3. \A n : n \in 1 .. 1 <=> n = 1
    OBVIOUS
  <2> QED
    BY <2>1, <2>2, <2>3
<1>6. \A l : OnDisk(l)' = OnDisk(l)
  BY <1>2 DEF OnDisk, Copies
<1> QED
  BY <1>4, <1>5, <1>6 DEF One

LEMMA BufferedFlush ==
    ASSUME TypeOK, fflush, NEW l
    PROVE  /\ Buffered(l)' = {}
           /\ Buffered(l) = {} => OnDisk(l)' = OnDisk(l)
           /\ One(Buffered(l)) /\ OnDisk(l) = {} => One(OnDisk(l)')
<1>1. IsABag(buffered) /\ IsABag(disk)
  BY DEF TypeOK
<1>2. /\ DOMAIN buffered' = {} /\ IsABag(buffered') /\ IsABag(disk')
      /\ DOMAIN disk' = DOMAIN disk \cup ({m_fp} \X DOMAIN buffered)
      /\ \A x \in DOMAIN disk : x \notin {m_fp} \X DOMAIN buffered => disk'[x] = disk[x]
      /\ <<m_fp, l>> \notin DOMAIN disk =>
            (l \in DOMAIN buffered => disk'[<<m_fp, l>>] = buffered[l])
  BY <1>1, FlushMoves
<1>3. Buffered(l)' = {}
  BY <1>2 DEF Buffered, Copies
<1>4. \A d : d \in OnDisk(l) <=>
        \E x \in DOMAIN disk : x[2] = l /\ \E n \in 1 .. disk[x] : d = <<x, n>>
  BY CopiesOf DEF OnDisk
<1>5. \A d : d \in OnDisk(l)' <=>
        \E x \in DOMAIN disk' : x[2] = l /\ \E n \in 1 .. disk'[x] : d = <<x, n>>
  BY CopiesOf DEF OnDisk
<1>6. Buffered(l) = {} => OnDisk(l)' = OnDisk(l)
  <2> SUFFICES ASSUME Buffered(l) = {} PROVE OnDisk(l)' = OnDisk(l)
    OBVIOUS
  <2>1. l \notin DOMAIN buffered
    BY <1>1, BufferedOf
  <2>2. \A x : x \in {m_fp} \X DOMAIN buffered => x[2] # l
    BY <2>1
  <2>3. \A x : x[2] = l => (x \in DOMAIN disk' <=> x \in DOMAIN disk)
    BY <1>2, <2>2
  <2>4. \A x \in DOMAIN disk : x[2] = l => disk'[x] = disk[x]
    BY <1>2, <2>2
  <2>5. \A d : d \in OnDisk(l)' <=> d \in OnDisk(l)
    BY <1>4, <1>5, <2>3, <2>4
  <2> QED
    BY <2>5
<1>7. One(Buffered(l)) /\ OnDisk(l) = {} => One(OnDisk(l)')
  <2> SUFFICES ASSUME One(Buffered(l)), OnDisk(l) = {} PROVE One(OnDisk(l)')
    OBVIOUS
  <2>1. l \in DOMAIN buffered /\ buffered[l] = 1
    <3>1. One(Buffered(l)) => Buffered(l) # {}
      BY DEF One
    <3> QED
      BY <1>1, <3>1, BufferedOf
  <2>2. \A x \in DOMAIN disk : x[2] # l
    BY <1>1, OnDiskOf
  <2>3. <<m_fp, l>> \notin DOMAIN disk /\ <<m_fp, l>> \in DOMAIN disk' /\ disk'[<<m_fp, l>>] = 1
    BY <1>2, <2>1, <2>2
  <2>4. \A x \in DOMAIN disk' : x[2] = l => x = <<m_fp, l>>
    BY <1>2, <2>2
  <2>5. \A n : n \in 1 .. 1 <=> n = 1
    OBVIOUS
  <2>6. \A d : d \in OnDisk(l)' <=> d = <<<<m_fp, l>>, 1>>
    BY <1>5, <2>3, <2>4, <2>5
  <2>7. OnDisk(l)' = {<<<<m_fp, l>>, 1>>}
    BY <2>6
  <2> QED
    BY <2>7 DEF One
<1> QED
  BY <1>3, <1>6, <1>7

\* A line that no step touches stays where it is.
LEMMA SamePlace ==
    ASSUME NEW l, HeldBy(l)' = HeldBy(l), QueuedAt(l)' = QueuedAt(l), Taken(l)' = Taken(l),
           Dropped(l)' = Dropped(l), Buffered(l)' = Buffered(l), OnDisk(l)' = OnDisk(l)
    PROVE  (Nowhere(l) => Nowhere(l)') /\ (InOnePlace(l) => InOnePlace(l)')
<1>1. Nowhere(l) => Nowhere(l)'
  BY DEF Nowhere
<1>2. (IsHeld(l) => IsHeld(l)') /\ (IsQueued(l) => IsQueued(l)') /\ (IsTaken(l) => IsTaken(l)')
  BY DEF IsHeld, IsQueued, IsTaken, One
<1>3. /\ IsDropped(l) => IsDropped(l)'
      /\ IsBuffered(l) => IsBuffered(l)'
      /\ IsOnDisk(l) => IsOnDisk(l)'
  BY DEF IsDropped, IsBuffered, IsOnDisk, One
<1> QED
  BY <1>1, <1>2, <1>3 DEF InOnePlace

LEMMA FlushPlace ==
    ASSUME TypeOK, fflush, NEW l, HeldBy(l)' = HeldBy(l), QueuedAt(l)' = QueuedAt(l),
           Taken(l)' = Taken(l), Dropped(l)' = Dropped(l)
    PROVE  (Nowhere(l) => Nowhere(l)') /\ (InOnePlace(l) => InOnePlace(l)')
<1>1. /\ Buffered(l)' = {}
      /\ Buffered(l) = {} => OnDisk(l)' = OnDisk(l)
      /\ One(Buffered(l)) /\ OnDisk(l) = {} => One(OnDisk(l)')
  BY BufferedFlush
<1>2. CASE Buffered(l) = {}
  BY <1>1, <1>2, SamePlace
<1>3. CASE Buffered(l) # {}
  <2>1. ~Nowhere(l) /\ (InOnePlace(l) => IsBuffered(l))
    BY <1>3 DEF Nowhere, InOnePlace, IsHeld, IsQueued, IsTaken, IsDropped, IsBuffered, IsOnDisk
  <2>2. IsBuffered(l) => IsOnDisk(l)'
    BY <1>1 DEF IsBuffered, IsOnDisk
  <2> QED
    BY <2>1, <2>2 DEF InOnePlace
<1> QED
  BY <1>2, <1>3

LEMMA OnceInit == Init => OnceInv
<1> SUFFICES ASSUME Init, NEW l \in Lines PROVE l \notin Begun /\ Nowhere(l)
  BY DEF OnceInv
<1>1. l[1] \in Writers /\ l[2] \in 1 .. MaxLines
  BY DEF Lines
<1>2. l \notin Begun
  BY <1>1, Consts DEF Begun, Init
<1>3. DOMAIN EmptyBag = {}
  BY DEF EmptyBag, SetToBag
<1>4. Buffered(l) = {} /\ OnDisk(l) = {}
  BY <1>3 DEF Init, Buffered, OnDisk, Copies
<1>5. HeldBy(l) = {} /\ Dropped(l) = {}
  BY DEF Init, HeldBy, Holding, Dropped
<1>6. QueuedAt(l) = {}
  <2>1. DOMAIN queue = {}
    BY EmptySeq DEF Init
  <2> QED
    BY <2>1 DEF QueuedAt
<1>7. Taken(l) = {}
  <2>1. l \in Writers \X Nat
    BY <1>1, Consts DEF Lines
  <2> QED
    BY <2>1, LogFileAssumption DEF Init, Taken
<1> QED
  BY <1>2, <1>4, <1>5, <1>6, <1>7 DEF Nowhere

LEMMA OnceStep ==
    ASSUME LogInv, OnceInv, [Next]_vars
    PROVE  OnceInv'
<1>t. TypeOK /\ NumberInv
  BY DEF LogInv
<1> DEFINE Kept(l) == (Nowhere(l) => Nowhere(l)') /\ (InOnePlace(l) => InOnePlace(l)')
<1>n. NoLine \notin Lines
  BY LogFileAssumption DEF Lines
<1>k. ASSUME Begun' = Begun, \A l \in Lines : Kept(l)
      PROVE  OnceInv'
  BY <1>k DEF OnceInv
<1>1. CASE Midnight \/ UNCHANGED vars
  <2>1. UNCHANGED <<buffered, disk, queue, dropped, taken, pc, number>>
    BY <1>1 DEF Midnight, log, block_queue, vars
  <2>2. Begun' = Begun
    BY <2>1 DEF Begun
  <2>3. \A l : /\ HeldBy(l)' = HeldBy(l) /\ QueuedAt(l)' = QueuedAt(l) /\ Taken(l)' = Taken(l)
               /\ Dropped(l)' = Dropped(l) /\ Buffered(l)' = Buffered(l) /\ OnDisk(l)' = OnDisk(l)
    BY <2>1 DEF HeldBy, line, QueuedAt, Taken, Dropped, Buffered, OnDisk, Copies
  <2> QED
    BY <1>k, <2>2, <2>3, SamePlace
<1>2. CASE Take
  <2>1. PICK k \in Lines : Queue!Dequeue(k) /\ taken' = k
    BY <1>2 DEF Take
  <2>2. /\ taken = NoLine /\ UNCHANGED <<buffered, disk, dropped, pc, number>>
    BY <1>2 DEF Take, log
  <2>3. \A l : /\ HeldBy(l)' = HeldBy(l) /\ Dropped(l)' = Dropped(l)
               /\ Buffered(l)' = Buffered(l) /\ OnDisk(l)' = OnDisk(l)
    BY <2>2 DEF HeldBy, line, Dropped, Buffered, OnDisk, Copies
  <2>4. /\ \A l \in Lines : Taken(l) = {}
        /\ \A l : l # k => Taken(l)' = {}
        /\ Taken(k)' = {k}
    BY <1>n, <2>1, <2>2 DEF Taken
  <2>5. /\ \A l : QueuedAt(l) = {} => QueuedAt(l)' = {}
        /\ \A l : l # k => (One(QueuedAt(l)) => One(QueuedAt(l)'))
        /\ 1 \in QueuedAt(k)
        /\ One(QueuedAt(k)) => QueuedAt(k)' = {}
    BY <1>t, <2>1, QueuedTake
  <2>6. ASSUME NEW l \in Lines, l # k
        PROVE  Kept(l)
    <3>1. CASE One(QueuedAt(l))
      <4>1. ~Nowhere(l) /\ (InOnePlace(l) => IsQueued(l))
        BY <3>1 DEF One, Nowhere, InOnePlace, IsHeld, IsQueued, IsTaken, IsDropped, IsBuffered, IsOnDisk
      <4>2. IsQueued(l) => IsQueued(l)'
        BY <2>3, <2>4, <2>5, <2>6, <3>1 DEF IsQueued
      <4> QED
        BY <4>1, <4>2 DEF InOnePlace
    <3>2. CASE QueuedAt(l) = {}
      <4>1. QueuedAt(l)' = QueuedAt(l) /\ Taken(l)' = Taken(l)
        BY <2>4, <2>5, <2>6, <3>2
      <4> QED
        BY <2>3, <4>1, SamePlace
    <3>3. CASE ~One(QueuedAt(l)) /\ QueuedAt(l) # {}
      BY <3>3 DEF Nowhere, InOnePlace, IsHeld, IsQueued, IsTaken, IsDropped, IsBuffered, IsOnDisk
    <3> QED
      BY <3>1, <3>2, <3>3
  <2>7. Kept(k)
    <3>1. ~Nowhere(k) /\ (InOnePlace(k) => IsQueued(k))
      BY <2>5 DEF Nowhere, InOnePlace, IsHeld, IsQueued, IsTaken, IsDropped, IsBuffered, IsOnDisk
    <3>2. IsQueued(k) => IsTaken(k)'
      BY <2>3, <2>4, <2>5 DEF IsQueued, IsTaken, One
    <3> QED
      BY <3>1, <3>2 DEF InOnePlace
  <2>8. Begun' = Begun
    BY <2>2 DEF Begun
  <2> QED
    BY <1>k, <2>6, <2>7, <2>8
<1>3. CASE WriteTaken
  <2>1. /\ taken \in Lines /\ fputs(taken) /\ taken' = NoLine
        /\ UNCHANGED <<queue, dropped, pc, number>>
    BY <1>3, <1>t DEF WriteTaken, TypeOK, block_queue
  <2> DEFINE k == taken
  <2>2. IsTaken(k)
    <3>1. k \in Taken(k) /\ k \in Lines
      BY <2>1 DEF Taken
    <3>2. InOnePlace(k)
      BY <3>1 DEF OnceInv, Nowhere
    <3> QED
      BY <3>1, <3>2 DEF InOnePlace, IsHeld, IsQueued, IsTaken, IsDropped, IsBuffered, IsOnDisk
  <2>3. /\ \A l : l # k => Buffered(l)' = Buffered(l)
        /\ \A l : l = k => One(Buffered(l)')
        /\ \A l : OnDisk(l)' = OnDisk(l)
    <3> HIDE DEF k
    <3>1. ASSUME NEW j, j = k
          PROVE  /\ \A l : l # j => Buffered(l)' = Buffered(l)
                 /\ One(Buffered(j)')
                 /\ \A l : OnDisk(l)' = OnDisk(l)
      <4>1. fputs(j) /\ Buffered(j) = {}
        BY <2>1, <2>2, <3>1 DEF k, IsTaken
      <4> QED
        BY <1>t, <4>1, BufferedPut
    <3> QED
      BY <3>1
  <2>4. \A l : /\ HeldBy(l)' = HeldBy(l) /\ Dropped(l)' = Dropped(l) /\ QueuedAt(l)' = QueuedAt(l)
               /\ l \in Lines => Taken(l)' = {}
               /\ l # k => Taken(l) = {}
    BY <1>n, <2>1 DEF HeldBy, line, Dropped, QueuedAt, Taken
  <2>5. ASSUME NEW l \in Lines
        PROVE  Kept(l)
    <3>1. CASE l # k
      BY <2>3, <2>4, <3>1, SamePlace
    <3>2. CASE l = k
      <4>1. IsTaken(l) /\ One(Buffered(l)') /\ OnDisk(l)' = OnDisk(l)
        BY <2>2, <2>3, <3>2
      <4>2. IsBuffered(l)' /\ ~Nowhere(l)
        BY <2>4, <4>1 DEF IsTaken, IsBuffered, Nowhere, One
      <4> QED
        BY <4>2 DEF InOnePlace
    <3> QED
      BY <3>1, <3>2
  <2>6. Begun' = Begun
    BY <2>1 DEF Begun
  <2> QED
    BY <1>k, <2>5, <2>6
<1>4. ASSUME NEW w \in Writers, Stamp(w)
      PROVE  OnceInv'
  <2>1. /\ pc' = [pc EXCEPT ![w] = "count"] /\ number' = [number EXCEPT ![w] = @ + 1]
        /\ pc[w] \notin Holding /\ UNCHANGED <<buffered, disk, queue, dropped, taken>>
    BY <1>4 DEF Stamp, log, block_queue, Holding
  <2>2. /\ DOMAIN pc = Writers /\ DOMAIN number = Writers
        /\ \A v \in Writers : number[v] \in Nat
    BY <1>t DEF TypeOK
  <2>a. PICK k : k = <<w, number[w] + 1>>
    OBVIOUS
  <2>3. /\ pc'[w] \in Holding /\ line(w)' = k /\ line(w) # k
        /\ \A v \in Writers \ {w} : pc'[v] = pc[v] /\ line(v)' = line(v) /\ line(v)' # k
    BY <2>1, <2>2, <2>a DEF line, Holding
  <2>4. k \notin Begun /\ (k \in Lines => k \in Begun')
    <3>1. number'[w] = number[w] + 1 /\ number[w] \in Nat
      BY <2>1, <2>2
    <3> QED
      BY <2>a, <3>1 DEF Begun
  <2>5. \A l \in Lines : l # k => (l \in Begun' <=> l \in Begun)
    <3> SUFFICES ASSUME NEW l \in Lines, l # k PROVE l \in Begun' <=> l \in Begun
      OBVIOUS
    <3>1. l[1] \in Writers /\ l[2] \in Int /\ l = <<l[1], l[2]>>
      BY DEF Lines
    <3>2. CASE l[1] = w
      <4>1. number'[w] = number[w] + 1 /\ number[w] \in Nat /\ l[2] # number[w] + 1
        BY <2>1, <2>2, <2>a, <3>1, <3>2
      <4> QED
        BY <3>1, <3>2, <4>1 DEF Begun
    <3>3. CASE l[1] # w
      BY <2>1, <2>2, <3>1, <3>3 DEF Begun
    <3> QED
      BY <3>2, <3>3
  <2>6. \A l : /\ QueuedAt(l)' = QueuedAt(l) /\ Taken(l)' = Taken(l) /\ Dropped(l)' = Dropped(l)
               /\ Buffered(l)' = Buffered(l) /\ OnDisk(l)' = OnDisk(l)
    BY <2>1 DEF QueuedAt, Taken, Dropped, Buffered, OnDisk, Copies
  <2>7. \A l : l # k => HeldBy(l)' = HeldBy(l)
    <3>1. ASSUME NEW l, l # k, NEW v \in Writers
          PROVE  (line(v)' = l /\ pc'[v] \in Holding) <=> (line(v) = l /\ pc[v] \in Holding)
      BY <2>1, <2>3, <3>1
    <3> QED
      BY <3>1 DEF HeldBy
  <2>8. HeldBy(k)' = {w}
    BY <2>3 DEF HeldBy
  <2>9. ASSUME NEW l \in Lines
        PROVE  IF l \in Begun' THEN InOnePlace(l)' ELSE Nowhere(l)'
    <3>1. CASE l = k
      BY <2>4, <2>6, <2>8, <2>9, <3>1 DEF OnceInv, Nowhere, InOnePlace, IsHeld, One
    <3>2. CASE l # k
      <4>1. Kept(l)
        BY <2>6, <2>7, <3>2, SamePlace
      <4> QED
        BY <2>5, <2>9, <3>2, <4>1 DEF OnceInv
    <3> QED
      BY <3>1, <3>2
  <2> QED
    BY <2>9 DEF OnceInv
<1>5. ASSUME NEW w \in Writers, Count(w)
      PROVE  OnceInv'
  <2>1. step(w, "count", "full") /\ UNCHANGED <<queue, dropped, taken>>
    BY <1>5 DEF Count, block_queue
  <2>2. (\A l : HeldBy(l)' = HeldBy(l)) /\ Begun' = Begun
    <3>1. "count" \in Holding /\ "full" \in Holding
      BY DEF Holding
    <3> QED
      BY <1>t, <2>1, <3>1, HeldStays
  <2>3. \A l : QueuedAt(l)' = QueuedAt(l) /\ Taken(l)' = Taken(l) /\ Dropped(l)' = Dropped(l)
    BY <2>1 DEF QueuedAt, Taken, Dropped
  <2>4. CASE fflush
    BY <1>k, <1>t, <2>2, <2>3, <2>4, FlushPlace
  <2>5. CASE buffered' = buffered /\ disk' = disk
    <3>1. \A l : Buffered(l)' = Buffered(l) /\ OnDisk(l)' = OnDisk(l)
      BY <2>5 DEF Buffered, OnDisk, Copies
    <3> QED
      BY <1>k, <2>2, <2>3, <3>1, SamePlace
  <2> QED
    BY <1>5, <2>4, <2>5 DEF Count
<1>6. ASSUME NEW w \in Writers, Full(w)
      PROVE  OnceInv'
  <2>1. /\ step(w, "full", "push") \/ step(w, "full", "fputs")
        /\ UNCHANGED <<buffered, disk, queue, dropped, taken>>
    BY <1>6 DEF Full, log, block_queue
  <2>2. "full" \in Holding /\ "push" \in Holding /\ "fputs" \in Holding
    BY DEF Holding
  <2>3. (\A l : HeldBy(l)' = HeldBy(l)) /\ Begun' = Begun
    <3>1. CASE step(w, "full", "push")
      BY <1>t, <2>2, <3>1, HeldStays
    <3>2. CASE step(w, "full", "fputs")
      BY <1>t, <2>2, <3>2, HeldStays
    <3> QED
      BY <2>1, <3>1, <3>2
  <2>4. \A l : /\ QueuedAt(l)' = QueuedAt(l) /\ Taken(l)' = Taken(l) /\ Dropped(l)' = Dropped(l)
               /\ Buffered(l)' = Buffered(l) /\ OnDisk(l)' = OnDisk(l)
    BY <2>1 DEF QueuedAt, Taken, Dropped, Buffered, OnDisk, Copies
  <2> QED
    BY <1>k, <2>3, <2>4, SamePlace
<1>7. ASSUME NEW w \in Writers, Push(w)
      PROVE  OnceInv'
  <2>1. /\ step(w, "push", "written") /\ UNCHANGED <<buffered, disk, taken>>
        /\ \/ Queue!Enqueue(line(w)) /\ dropped' = dropped
           \/ dropped' = dropped \cup {line(w)} /\ queue' = queue
    BY <1>7 DEF Push, log
  <2>2. PICK k : k = line(w)
    OBVIOUS
  <2>3. /\ \A l : l # k => HeldBy(l)' = HeldBy(l)
        /\ HeldBy(k)' = {} /\ Begun' = Begun /\ k \in Begun /\ IsHeld(k)
    <3>1. "push" \in Holding
      BY DEF Holding
    <3> QED
      BY <1>t, <2>1, <2>2, <3>1, HeldLeaves
  <2>4. \A l : Taken(l)' = Taken(l) /\ Buffered(l)' = Buffered(l) /\ OnDisk(l)' = OnDisk(l)
    BY <2>1 DEF Taken, Buffered, OnDisk, Copies
  <2>5. CASE Queue!Enqueue(k) /\ dropped' = dropped
    <3>1. (\A l : l # k => QueuedAt(l)' = QueuedAt(l)) /\ One(QueuedAt(k)')
      <4>1. k \in Lines /\ QueuedAt(k) = {}
        BY <2>3 DEF Begun, IsHeld
      <4> QED
        BY <1>t, <2>5, <4>1, QueuedPut
    <3>2. \A l : Dropped(l)' = Dropped(l)
      BY <2>5 DEF Dropped
    <3>3. \A l \in Lines : l # k => Kept(l)
      BY <2>3, <2>4, <3>1, <3>2, SamePlace
    <3>4. Kept(k)
      <4>1. IsQueued(k)' /\ ~Nowhere(k)
        BY <2>3, <2>4, <3>1, <3>2 DEF IsHeld, IsQueued, Nowhere, One
      <4> QED
        BY <4>1 DEF InOnePlace
    <3> QED
      BY <1>k, <2>3, <3>3, <3>4
  <2>6. CASE dropped' = dropped \cup {k} /\ queue' = queue
    <3>1. \A l : QueuedAt(l)' = QueuedAt(l)
      BY <2>6 DEF QueuedAt
    <3>2. (\A l : l # k => Dropped(l)' = Dropped(l)) /\ Dropped(k)' = {k}
      BY <2>6 DEF Dropped
    <3>3. \A l \in Lines : l # k => Kept(l)
      BY <2>3, <2>4, <3>1, <3>2, SamePlace
    <3>4. Kept(k)
      <4>1. IsDropped(k)' /\ ~Nowhere(k)
        BY <2>3, <2>4, <3>1, <3>2 DEF IsHeld, IsDropped, Nowhere, One
      <4> QED
        BY <4>1 DEF InOnePlace
    <3> QED
      BY <1>k, <2>3, <3>3, <3>4
  <2> QED
    BY <2>1, <2>2, <2>5, <2>6
<1>8. ASSUME NEW w \in Writers, Fputs(w)
      PROVE  OnceInv'
  <2>1. /\ step(w, "fputs", "written") /\ fputs(line(w))
        /\ UNCHANGED <<queue, dropped, taken>>
    BY <1>8 DEF Fputs, block_queue
  <2>2. PICK k : k = line(w)
    OBVIOUS
  <2>3. /\ \A l : l # k => HeldBy(l)' = HeldBy(l)
        /\ HeldBy(k)' = {} /\ Begun' = Begun /\ k \in Begun /\ IsHeld(k)
    <3>1. "fputs" \in Holding
      BY DEF Holding
    <3> QED
      BY <1>t, <2>1, <2>2, <3>1, HeldLeaves
  <2>4. \A l : Taken(l)' = Taken(l) /\ QueuedAt(l)' = QueuedAt(l) /\ Dropped(l)' = Dropped(l)
    BY <2>1 DEF Taken, QueuedAt, Dropped
  <2>5. /\ \A l : l # k => Buffered(l)' = Buffered(l)
        /\ One(Buffered(k)') /\ \A l : OnDisk(l)' = OnDisk(l)
    <3>1. fputs(k) /\ Buffered(k) = {}
      BY <2>1, <2>2, <2>3 DEF IsHeld
    <3> QED
      BY <1>t, <3>1, BufferedPut
  <2>6. \A l \in Lines : l # k => Kept(l)
    BY <2>3, <2>4, <2>5, SamePlace
  <2>7. Kept(k)
    <3>1. IsBuffered(k)' /\ ~Nowhere(k)
      BY <2>3, <2>4, <2>5 DEF IsHeld, IsBuffered, Nowhere, One
    <3> QED
      BY <3>1 DEF InOnePlace
  <2> QED
    BY <1>k, <2>3, <2>6, <2>7
<1>9. ASSUME NEW w \in Writers, flush(w)
      PROVE  OnceInv'
  <2>1. /\ step(w, "written", "flushed") /\ fflush /\ UNCHANGED <<queue, dropped, taken>>
    BY <1>9 DEF flush, block_queue
  <2>2. (\A l : HeldBy(l)' = HeldBy(l)) /\ Begun' = Begun
    <3>1. "written" \notin Holding /\ "flushed" \notin Holding
      BY DEF Holding
    <3> QED
      BY <1>t, <2>1, <3>1, HeldStays
  <2>3. \A l : QueuedAt(l)' = QueuedAt(l) /\ Taken(l)' = Taken(l) /\ Dropped(l)' = Dropped(l)
    BY <2>1 DEF QueuedAt, Taken, Dropped
  <2> QED
    BY <1>k, <1>t, <2>1, <2>2, <2>3, FlushPlace
<1> QED
  BY <1>1, <1>2, <1>3, <1>4, <1>5, <1>6, <1>7, <1>8, <1>9 DEF Next, write_log

\* A writer at push() found room in the queue: if there is no more now, there
\* is another writer; and that is how lines are dropped.
Another == \E v, w \in Writers : v # w

DropInv ==
    /\ \A w \in Writers : pc[w] = "push" =>
        m_is_async /\ (Another \/ Len(queue) < max_queue_size)
    /\ dropped # {} => m_is_async /\ Another

LEMMA DropInit == Init => DropInv
BY DEF Init, DropInv

LEMMA DropStep ==
    ASSUME LogInv, DropInv, [Next]_vars
    PROVE  DropInv'
<1>t. TypeOK
  BY DEF LogInv
<1>1. ASSUME UNCHANGED <<m_is_async, dropped>>, UNCHANGED queue \/ Len(queue') < max_queue_size,
             \A w \in Writers : pc'[w] = "push" => pc[w] = "push"
      PROVE  DropInv'
  BY <1>1 DEF DropInv, Another
<1>2. CASE Midnight \/ WriteTaken \/ UNCHANGED vars
  <2>1. UNCHANGED <<m_is_async, dropped, queue, pc>>
    BY <1>2 DEF Midnight, WriteTaken, vars, block_queue
  <2> QED
    BY <1>1, <2>1
<1>3. CASE Take
  <2>1. PICK l \in Lines : Queue!Dequeue(l)
    BY <1>3 DEF Take
  <2>2. Len(queue) > 0 /\ Len(queue') = Len(queue) - 1
    BY <1>t, <2>1, QueueTake
  <2>3. queue \in Seq(Lines) /\ Len(queue) <= max_queue_size
    BY <1>t DEF TypeOK
  <2>4. Len(queue) \in Nat
    BY <2>3
  <2>5. Len(queue') < max_queue_size
    BY <2>2, <2>3, <2>4, Consts
  <2>6. UNCHANGED <<m_is_async, dropped, pc>>
    BY <1>3 DEF Take
  <2> QED
    BY <1>1, <2>5, <2>6
<1>4. ASSUME NEW w \in Writers, Stamp(w)
      PROVE  DropInv'
  <2>1. /\ UNCHANGED <<m_is_async, dropped, queue>> /\ pc' = [pc EXCEPT ![w] = "count"]
        /\ DOMAIN pc = Writers
    BY <1>4, <1>t DEF Stamp, block_queue, TypeOK
  <2>2. \A v \in Writers : pc'[v] = "push" => pc[v] = "push"
    BY <2>1
  <2> QED
    BY <1>1, <2>1, <2>2
<1>5. ASSUME NEW w \in Writers, NEW here, NEW there \in {"full", "fputs", "written", "flushed"},
             step(w, here, there), UNCHANGED <<queue, dropped>>
      PROVE  DropInv'
  <2>1. /\ pc'[w] = there /\ there # "push" /\ m_is_async' = m_is_async
        /\ \A v \in Writers \ {w} : pc'[v] = pc[v]
    BY <1>t, <1>5, StepType
  <2> QED
    BY <1>1, <1>5, <2>1
<1>6. ASSUME NEW w \in Writers, Count(w) \/ Fputs(w) \/ flush(w)
      PROVE  DropInv'
  <2>1. /\ step(w, "count", "full") \/ step(w, "fputs", "written") \/ step(w, "written", "flushed")
        /\ UNCHANGED <<queue, dropped>>
    BY <1>6 DEF Count, Fputs, flush, block_queue
  <2> QED
    BY <1>5, <2>1
<1>7. ASSUME NEW w \in Writers, Full(w)
      PROVE  DropInv'
  <2>1. UNCHANGED <<queue, dropped>>
    BY <1>7 DEF Full, block_queue
  <2>2. CASE step(w, "full", "fputs")
    BY <1>5, <2>1, <2>2
  <2>3. CASE m_is_async /\ ~Queue!Full /\ step(w, "full", "push")
    <3>1. Len(queue) < max_queue_size
      <4>1. queue \in Seq(Lines) /\ Len(queue) <= max_queue_size /\ Len(queue) # max_queue_size
        BY <1>t, <2>3 DEF TypeOK, Queue!Full
      <4>2. Len(queue) \in Nat
        BY <4>1
      <4> QED
        BY <4>1, <4>2, Consts
    <3>2. m_is_async' = m_is_async
      BY <2>3 DEF step
    <3> QED
      BY <2>1, <2>3, <3>1, <3>2 DEF DropInv, Another
  <2> QED
    BY <1>7, <2>2, <2>3 DEF Full
<1>8. ASSUME NEW w \in Writers, Push(w)
      PROVE  DropInv'
  <2>1. /\ step(w, "push", "written")
        /\ \/ dropped' = dropped
           \/ Queue!Full /\ dropped' = dropped \cup {line(w)} /\ queue' = queue
    BY <1>8 DEF Push
  <2>2. /\ pc[w] = "push" /\ pc'[w] = "written" /\ m_is_async' = m_is_async
        /\ \A v \in Writers \ {w} : pc'[v] = pc[v]
    BY <1>t, <2>1, StepType
  <2>3. m_is_async /\ (Another \/ Len(queue) < max_queue_size)
    BY <2>2 DEF DropInv
  <2>4. \A v \in Writers : pc'[v] = "push" => Another
    BY <2>2 DEF Another
  <2>5. CASE dropped' = dropped
    BY <2>2, <2>3, <2>4, <2>5 DEF DropInv, Another
  <2>6. CASE Queue!Full
    <3>1. ~(Len(queue) < max_queue_size)
      BY <2>6, Consts DEF Queue!Full
    <3> QED
      BY <2>2, <2>3, <2>4, <3>1 DEF DropInv, Another
  <2> QED
    BY <2>1, <2>5, <2>6
<1> QED
  BY <1>2, <1>3, <1>4, <1>6, <1>7, <1>8 DEF Next, write_log

\* The variables have their types, and the queue never holds more than
\* max_queue_size lines (log.cpp:105-164, block_queue.h:128-140).
THEOREM TypeCorrect == Spec => []TypeOK
<1>1. LogInv => TypeOK
  BY DEF LogInv
<1> QED
  BY LogInit, LogStep, <1>1, PTL DEF Spec

LEMMA OnceMeans ==
    ASSUME LogInv, OnceInv, DropInv
    PROVE  EveryLineOnce
<1>1. ASSUME NEW w \in Writers, NEW i \in 1 .. number[w]
      PROVE  Cardinality(Places(<<w, i>>)) = 1
  <2>1. number[w] \in 0 .. MaxLines
    BY DEF LogInv, TypeOK
  <2>2. i \in 1 .. MaxLines /\ i <= number[w]
    BY <1>1, <2>1, Consts
  <2>3. <<w, i>> \in Begun /\ <<w, i>> \in Lines
    BY <2>2 DEF Begun, Lines
  <2> QED
    BY <2>3, OnePlace DEF OnceInv
<1>2. Another => Cardinality(Writers) > 1
  <2>1. SUFFICES ASSUME NEW v \in Writers, NEW w \in Writers, v # w
                 PROVE  Cardinality(Writers) > 1
    BY DEF Another
  <2>2. IsFiniteSet({v, w}) /\ Cardinality({v, w}) = 2
    <3>1. IsFiniteSet({v}) /\ Cardinality({v}) = 1
      BY FS_Singleton
    <3>2. IsFiniteSet({v} \cup {w}) /\ Cardinality({v} \cup {w}) = Cardinality({v}) + 1
      BY <2>1, <3>1, FS_AddElement
    <3>3. {v, w} = {v} \cup {w}
      OBVIOUS
    <3> QED
      BY <3>1, <3>2, <3>3
  <2>3. IsFiniteSet(Writers) /\ {v, w} \subseteq Writers
    BY LogFileAssumption
  <2>4. Cardinality({v, w}) <= Cardinality(Writers)
    BY <2>3, FS_Subset
  <2>5. Cardinality(Writers) \in Nat
    BY <2>3, FS_CardinalityType
  <2> QED
    BY <2>2, <2>4, <2>5
<1> QED
  BY <1>1, <1>2 DEF EveryLineOnce, DropInv

\* However writers, rotation, flush(), the queue and the log thread interleave,
\* a line that was begun is in one place and there once; only an asynchronous
\* log with two writers drops one (log.cpp:105-175).
THEOREM EveryLineOnceHolds == Spec => []EveryLineOnce
<1>1. LogInv /\ OnceInv /\ DropInv => EveryLineOnce
  BY OnceMeans
<1>2. LogInv /\ OnceInv /\ DropInv /\ [Next]_vars => LogInv' /\ OnceInv' /\ DropInv'
  BY LogStep, OnceStep, DropStep
<1> QED
  BY LogInit, OnceInit, DropInit, <1>1, <1>2, PTL DEF Spec

(***************************************************************************)
(* The files of the first day                                              *)
(***************************************************************************)
\* The lines that were counted and are not in the buffer yet.
InFlight  == {w \in Writers : pc[w] \in {"full", "push", "fputs"}}
LogThread == IF taken = NoLine THEN 0 ELSE 1
Late      == Cardinality(InFlight) + Len(queue) + LogThread

\* The most there can be of them.
Slack == Cardinality(Writers) + IF m_is_async THEN max_queue_size + 1 ELSE 0

OnFile(f) == {x \in DOMAIN disk : x[1] = f}
OpenSize  == Cardinality(OnFile(m_fp)) + Cardinality(DOMAIN buffered)

\* The inductive invariant: with the lines that may still come, the open file
\* has as many as were counted for it and those that were late when it was
\* opened; a file that was closed never gets another.
FileInv ==
    /\ IsFiniteSet(DOMAIN disk) /\ IsFiniteSet(DOMAIN buffered)
    /\ ~m_is_async => Len(queue) = 0 /\ taken = NoLine
    /\ today = 1 =>
        /\ m_today = 1 /\ \A w \in Writers : my_tm[w] = 1
        /\ m_fp = <<1, m_count \div m_split_lines>>
        /\ \A x \in DOMAIN disk : x[1][2] <= m_count \div m_split_lines
        /\ OpenSize + Late <= (m_count % m_split_lines) + Slack
        /\ \A f : f # m_fp => Cardinality(OnFile(f)) <= (m_split_lines - 1) + Slack

LEMMA FileTypes ==
    ASSUME LogInv, FileInv
    PROVE  /\ \A f : IsFiniteSet(OnFile(f)) /\ Cardinality(OnFile(f)) \in Nat
           /\ Cardinality(DOMAIN buffered) \in Nat /\ OpenSize \in Nat
           /\ IsFiniteSet(Writers) /\ Cardinality(Writers) \in Nat /\ Slack \in Nat
           /\ IsFiniteSet(InFlight) /\ Cardinality(InFlight) \in Nat
           /\ Cardinality(InFlight) <= Cardinality(Writers)
           /\ Len(queue) \in Nat /\ LogThread \in {0, 1} /\ Late \in Nat
           /\ Late <= Slack
<1>1. ASSUME NEW f PROVE IsFiniteSet(OnFile(f)) /\ Cardinality(OnFile(f)) \in Nat
  <2>1. OnFile(f) \subseteq DOMAIN disk
    BY DEF OnFile
  <2>2. IsFiniteSet(OnFile(f))
    BY <2>1, FS_Subset DEF FileInv
  <2> QED
    BY <2>2, FS_CardinalityType
<1>2. Cardinality(DOMAIN buffered) \in Nat
  BY FS_CardinalityType DEF FileInv
<1>3. OpenSize \in Nat
  BY <1>1, <1>2 DEF OpenSize
<1>4. IsFiniteSet(Writers) /\ Cardinality(Writers) \in Nat
  BY LogFileAssumption, FS_CardinalityType
<1>5. Slack \in Nat
  BY <1>4, Consts DEF Slack
<1>6. /\ IsFiniteSet(InFlight) /\ Cardinality(InFlight) \in Nat
      /\ Cardinality(InFlight) <= Cardinality(Writers)
  <2>1. InFlight \subseteq Writers
    BY DEF InFlight
  <2>2. IsFiniteSet(InFlight) /\ Cardinality(InFlight) <= Cardinality(Writers)
    BY <1>4, <2>1, FS_Subset
  <2> QED
    BY <2>2, FS_CardinalityType
<1>7. Len(queue) \in Nat /\ Len(queue) <= max_queue_size /\ LogThread \in {0, 1}
  <2>1. queue \in Seq(Lines) /\ Len(queue) <= max_queue_size
    BY DEF LogInv, TypeOK
  <2> QED
    BY <2>1 DEF LogThread
<1>8. Late \in Nat /\ Late <= Slack
  <2>1. ~m_is_async => Len(queue) = 0 /\ LogThread = 0
    BY DEF FileInv, LogThread
  <2> HIDE DEF LogThread
  <2>2. CASE m_is_async
    BY <1>4, <1>6, <1>7, <2>2, Consts DEF Late, Slack
  <2>3. CASE ~m_is_async
    BY <1>4, <1>6, <1>7, <2>1, <2>3 DEF Late, Slack
  <2> QED
    BY <2>2, <2>3
<1> QED
  BY <1>1, <1>2, <1>3, <1>4, <1>5, <1>6, <1>7, <1>8

\* A step of a writer and the lines that are late.
LEMMA FlightStep ==
    ASSUME LogInv, FileInv, NEW w \in Writers, NEW here,
           NEW there \in {"full", "push", "fputs", "written", "flushed"}, step(w, here, there)
    PROVE  LET Late3 == {"full", "push", "fputs"} IN
           /\ here \notin Late3 /\ there \in Late3 => Cardinality(InFlight)' = Cardinality(InFlight) + 1
           /\ here \in Late3 /\ there \notin Late3 => Cardinality(InFlight)' = Cardinality(InFlight) - 1
           /\ (here \in Late3 <=> there \in Late3) => Cardinality(InFlight)' = Cardinality(InFlight)
<1> DEFINE Late3 == {"full", "push", "fputs"}
<1>1. pc[w] = here /\ pc'[w] = there /\ \A v \in Writers \ {w} : pc'[v] = pc[v]
  BY StepType DEF LogInv
<1>2. /\ InFlight = {v \in Writers : pc[v] \in Late3}
      /\ InFlight' = {v \in Writers : pc'[v] \in Late3}
  BY DEF InFlight
<1> HIDE DEF Late3
<1>3. IsFiniteSet(InFlight)
  BY FileTypes
<1>4. ASSUME here \notin Late3, there \in Late3
      PROVE  Cardinality(InFlight)' = Cardinality(InFlight) + 1
  <2>1. w \notin InFlight /\ InFlight' = InFlight \cup {w}
    BY <1>1, <1>2, <1>4
  <2>2. Cardinality(InFlight \cup {w}) = Cardinality(InFlight) + 1
    BY <1>3, <2>1, FS_AddElement
  <2> QED
    BY <2>1, <2>2
<1>5. ASSUME here \in Late3, there \notin Late3
      PROVE  Cardinality(InFlight)' = Cardinality(InFlight) - 1
  <2>1. w \in InFlight /\ InFlight' = InFlight \ {w}
    BY <1>1, <1>2, <1>5
  <2>2. Cardinality(InFlight \ {w}) = Cardinality(InFlight) - 1
    BY <1>3, <2>1, FS_RemoveElement
  <2> QED
    BY <2>1, <2>2
<1>6. ASSUME here \in Late3 <=> there \in Late3
      PROVE  Cardinality(InFlight)' = Cardinality(InFlight)
  <2>1. InFlight' = InFlight
    BY <1>1, <1>2, <1>6
  <2> QED
    BY <2>1
<1> QED
  BY <1>4, <1>5, <1>6 DEF Late3

\* What fputs() and fflush() do to the sizes of the files.
LEMMA FputsSize ==
    ASSUME LogInv, FileInv, NEW k, fputs(k), m_fp' = m_fp
    PROVE  /\ DOMAIN disk' = DOMAIN disk /\ IsFiniteSet(DOMAIN buffered')
           /\ OpenSize' <= OpenSize + 1 /\ OpenSize' \in Nat
<1>1. disk' = disk /\ DOMAIN buffered' = DOMAIN buffered \cup {k}
  <2>1. IsABag(buffered)
    BY DEF LogInv, TypeOK
  <2> QED
    BY <2>1, FputsAdds
<1>2. IsFiniteSet(DOMAIN buffered) /\ Cardinality(DOMAIN buffered) \in Nat
  BY FileTypes DEF FileInv
<1>3. /\ IsFiniteSet(DOMAIN buffered \cup {k})
      /\ \/ Cardinality(DOMAIN buffered \cup {k}) = Cardinality(DOMAIN buffered)
         \/ Cardinality(DOMAIN buffered \cup {k}) = Cardinality(DOMAIN buffered) + 1
  BY <1>2, FS_AddElement
<1>4. OnFile(m_fp)' = OnFile(m_fp) /\ Cardinality(OnFile(m_fp)) \in Nat
  BY <1>1, FileTypes DEF OnFile
<1> QED
  BY <1>1, <1>2, <1>3, <1>4 DEF OpenSize

LEMMA FlushSize ==
    ASSUME LogInv, FileInv, fflush
    PROVE  /\ IsFiniteSet(DOMAIN disk') /\ DOMAIN buffered' = {}
           /\ \A x \in DOMAIN disk' : x \in DOMAIN disk \/ x[1] = m_fp
           /\ \A f : f # m_fp => OnFile(f)' = OnFile(f)
           /\ \A f : f = m_fp => Cardinality(OnFile(f)') \in Nat /\ Cardinality(OnFile(f)') <= OpenSize
<1>1. /\ DOMAIN buffered' = {}
      /\ DOMAIN disk' = DOMAIN disk \cup ({m_fp} \X DOMAIN buffered)
  <2>1. IsABag(buffered) /\ IsABag(disk)
    BY DEF LogInv, TypeOK
  <2> QED
    BY <2>1, FlushMoves
<1> DEFINE moved == {m_fp} \X DOMAIN buffered
<1>2. IsFiniteSet(moved) /\ Cardinality(moved) = Cardinality(DOMAIN buffered)
  <2>1. IsFiniteSet({m_fp}) /\ Cardinality({m_fp}) = 1
    BY FS_Singleton
  <2>2. IsFiniteSet(DOMAIN buffered) /\ Cardinality(DOMAIN buffered) \in Nat
    BY FileTypes DEF FileInv
  <2>3. IsFiniteSet(moved) /\ Cardinality(moved) = Cardinality({m_fp}) * Cardinality(DOMAIN buffered)
    BY <2>1, <2>2, FS_Product
  <2> QED
    BY <2>1, <2>2, <2>3
<1>4. \A x : x \in moved => x[1] = m_fp
  OBVIOUS
<1>5. DOMAIN disk' = DOMAIN disk \cup moved
  BY <1>1
<1> HIDE DEF moved
<1>3. IsFiniteSet(DOMAIN disk')
  <2>1. IsFiniteSet(DOMAIN disk)
    BY DEF FileInv
  <2>2. IsFiniteSet(DOMAIN disk \cup moved)
    BY <1>2, <2>1, FS_Union
  <2> QED
    BY <1>5, <2>2
<1>6. \A f : f # m_fp => OnFile(f)' = OnFile(f)
  BY <1>4, <1>5 DEF OnFile
<1>7. ASSUME NEW f, f = m_fp
      PROVE  Cardinality(OnFile(f)') \in Nat /\ Cardinality(OnFile(f)') <= OpenSize
  <2>1. OnFile(f)' = OnFile(f) \cup moved
    BY <1>4, <1>5, <1>7 DEF OnFile
  <2>2. IsFiniteSet(OnFile(f)) /\ Cardinality(OnFile(f)) \in Nat
    BY FileTypes
  <2>3. /\ IsFiniteSet(OnFile(f) \cup moved) /\ IsFiniteSet(OnFile(f) \cap moved)
        /\ Cardinality(OnFile(f) \cup moved)
             = Cardinality(OnFile(f)) + Cardinality(moved) - Cardinality(OnFile(f) \cap moved)
    BY <1>2, <2>2, FS_Union, FS_Intersection
  <2>4. /\ Cardinality(OnFile(f) \cup moved) \in Nat /\ Cardinality(OnFile(f) \cap moved) \in Nat
        /\ Cardinality(moved) \in Nat
    BY <1>2, <2>3, FS_CardinalityType
  <2>5. Cardinality(OnFile(f) \cup moved) <= Cardinality(OnFile(f)) + Cardinality(moved)
    BY <2>2, <2>3, <2>4
  <2>6. Cardinality(OnFile(f)) + Cardinality(moved) = OpenSize
    BY <1>2, <1>7 DEF OpenSize
  <2> QED
    BY <2>1, <2>4, <2>5, <2>6
<1> QED
  BY <1>1, <1>3, <1>4, <1>5, <1>6, <1>7

LEMMA FileInit == Init => FileInv
<1> SUFFICES ASSUME Init PROVE FileInv
  OBVIOUS
<1>1. DOMAIN disk = {} /\ DOMAIN buffered = {}
  BY DEF Init, EmptyBag, SetToBag
<1>2. IsFiniteSet({}) /\ Cardinality({}) = 0
  BY FS_EmptySet
<1>3. \A f : OnFile(f) = {}
  BY <1>1 DEF OnFile
<1>c. /\ \A f : Cardinality(OnFile(f)) = 0
      /\ Cardinality(DOMAIN buffered) = 0
  BY <1>1, <1>2, <1>3, Zenon
<1>4. OpenSize = 0
  BY <1>c DEF OpenSize
<1>5. Len(queue) = 0 /\ taken = NoLine
  BY EmptySeq DEF Init
<1>6. Late = 0
  <2>1. InFlight = {}
    BY DEF Init, InFlight
  <2> QED
    BY <1>2, <1>5, <2>1 DEF Late, LogThread
<1>7. Slack \in Nat
  <2>1. Cardinality(Writers) \in Nat
    BY LogFileAssumption, FS_CardinalityType
  <2> QED
    BY <2>1, Consts DEF Slack
<1>8. 0 \div m_split_lines = 0 /\ 0 % m_split_lines = 0 /\ m_split_lines - 1 \in Nat
  BY Consts
<1>9. /\ m_today = 1 /\ \A w \in Writers : my_tm[w] = 1
      /\ m_count = 0 /\ m_fp = <<1, 0>>
  BY DEF Init
<1>10. OpenSize + Late <= (m_count % m_split_lines) + Slack
  BY <1>4, <1>6, <1>7, <1>8, <1>9
<1>11. \A f : f # m_fp => Cardinality(OnFile(f)) <= (m_split_lines - 1) + Slack
  BY <1>c, <1>7, <1>8
<1> QED
  BY <1>1, <1>2, <1>5, <1>8, <1>9, <1>10, <1>11 DEF FileInv

\* A step that opens no file.
LEMMA SameFile ==
    ASSUME LogInv, FileInv, UNCHANGED <<m_is_async, today, m_today, m_fp>>,
           m_count' \in Nat, m_count' \div m_split_lines = m_count \div m_split_lines,
           today = 1 => \A w \in Writers : my_tm'[w] = 1,
           ~m_is_async => Len(queue') = 0 /\ taken' = NoLine,
           \/ fflush
           \/ DOMAIN disk' = DOMAIN disk /\ IsFiniteSet(DOMAIN buffered'),
           OpenSize + Late <= (m_count % m_split_lines) + Slack =>
                OpenSize' + Late' <= (m_count' % m_split_lines) + Slack
    PROVE  FileInv'
<1>1. IsFiniteSet(DOMAIN disk') /\ IsFiniteSet(DOMAIN buffered')
  <2>1. CASE fflush
    <3>1. IsFiniteSet({})
      BY FS_EmptySet
    <3> QED
      BY <2>1, <3>1, FlushSize
  <2>2. CASE DOMAIN disk' = DOMAIN disk /\ IsFiniteSet(DOMAIN buffered')
    BY <2>2 DEF FileInv
  <2> QED
    BY <2>1, <2>2
<1>2. Slack' = Slack
  BY DEF Slack
<1>3. ASSUME today' = 1
      PROVE  /\ m_today' = 1 /\ \A w \in Writers : my_tm'[w] = 1
             /\ m_fp' = <<1, m_count' \div m_split_lines>>
             /\ \A x \in DOMAIN disk' : x[1][2] <= m_count' \div m_split_lines
             /\ OpenSize' + Late' <= (m_count' % m_split_lines) + Slack'
             /\ \A f : f # m_fp' => Cardinality(OnFile(f)') <= (m_split_lines - 1) + Slack'
  <2>1. /\ today = 1 /\ m_today = 1
        /\ m_fp = <<1, m_count \div m_split_lines>>
        /\ \A x \in DOMAIN disk : x[1][2] <= m_count \div m_split_lines
        /\ OpenSize + Late <= (m_count % m_split_lines) + Slack
        /\ \A f : f # m_fp => Cardinality(OnFile(f)) <= (m_split_lines - 1) + Slack
    BY <1>3 DEF FileInv
  <2>2. m_count \div m_split_lines \in Int
    <3>1. m_count \in Nat
      BY DEF LogInv, TypeOK
    <3> QED
      BY <3>1, Consts
  <2>3. /\ \A x \in DOMAIN disk' : x \in DOMAIN disk \/ x[1] = m_fp
        /\ \A f : f # m_fp => OnFile(f)' = OnFile(f)
    <3>1. CASE fflush
      BY <3>1, FlushSize
    <3>2. CASE DOMAIN disk' = DOMAIN disk
      BY <3>2 DEF OnFile
    <3> QED
      BY <3>1, <3>2
  <2>4. m_fp' = m_fp /\ m_today' = m_today /\ m_count' \div m_split_lines = m_count \div m_split_lines
    OBVIOUS
  <2>5. \A x \in DOMAIN disk' : x[1][2] <= m_count \div m_split_lines
    <3>1. \A x : x[1] = m_fp => x[1][2] <= m_count \div m_split_lines
      BY <2>1, <2>2
    <3> QED
      BY <2>1, <2>3, <3>1
  <2>6. \A f : f # m_fp => Cardinality(OnFile(f)') <= (m_split_lines - 1) + Slack
    BY <2>1, <2>3
  <2>7. OpenSize' + Late' <= (m_count' % m_split_lines) + Slack
    BY <2>1
  <2>8. \A w \in Writers : my_tm'[w] = 1
    BY <2>1
  <2> QED
    BY <1>2, <2>1, <2>4, <2>5, <2>6, <2>7, <2>8
<1>4. ~m_is_async' => Len(queue') = 0 /\ taken' = NoLine
  OBVIOUS
<1> QED
  BY <1>1, <1>3, <1>4 DEF FileInv

\* The count of lines and its files.
LEMMA CountDiv ==
    ASSUME NEW n \in Nat, NEW s \in Nat \ {0}
    PROVE  /\ n \div s \in Nat /\ n % s \in Nat /\ n % s <= s - 1
           /\ (n + 1) % s = 0 => (n + 1) \div s = (n \div s) + 1
           /\ (n + 1) % s # 0 => (n + 1) \div s = n \div s /\ (n + 1) % s = (n % s) + 1
<1>1. PICK q \in Nat, r \in Nat : q = n \div s /\ r = n % s
  OBVIOUS
<1>2. n = s * q + r /\ r < s
  BY <1>1
<1>3. CASE r + 1 < s
  <2>1. n + 1 = s * q + (r + 1) /\ 0 <= r + 1 /\ r + 1 < s
    BY <1>2, <1>3
  <2>2. (n + 1) \div s = q /\ (n + 1) % s = r + 1
    BY <2>1
  <2> QED
    BY <1>1, <1>2, <2>2
<1>4. CASE r + 1 = s
  <2>1. n + 1 = s * q + s
    BY <1>2, <1>4
  <2>2. PICK p \in Nat : p = q + 1
    OBVIOUS
  <2>3. s * p = s * q + s
    BY <2>2
  <2>4. n + 1 = s * p + 0
    BY <2>1, <2>3
  <2>5. (n + 1) \div s = p /\ (n + 1) % s = 0
    BY <2>4
  <2> QED
    BY <1>1, <1>2, <2>2, <2>5
<1> QED
  BY <1>2, <1>3, <1>4

LEMMA CountFile ==
    ASSUME LogInv, FileInv, NEW w \in Writers, Count(w)
    PROVE  FileInv'
<1>1. step(w, "count", "full") /\ UNCHANGED <<queue, dropped, taken>>
  BY DEF Count, block_queue
<1>2. UNCHANGED <<m_is_async, today, my_tm>>
  BY <1>1 DEF step
<1>3. /\ Cardinality(InFlight) \in Nat /\ Len(queue) \in Nat /\ LogThread \in {0, 1}
      /\ OpenSize \in Nat /\ Slack \in Nat /\ Late \in Nat
  BY FileTypes
<1>4. Late' = Late + 1
  <2>1. Cardinality(InFlight)' = Cardinality(InFlight) + 1
    BY <1>1, FlightStep
  <2>2. LogThread' = LogThread /\ Len(queue') = Len(queue)
    BY <1>1 DEF LogThread
  <2> HIDE DEF LogThread
  <2> QED
    BY <1>3, <2>1, <2>2 DEF Late
<1>5. Late' <= Slack
  <2>1. InFlight' \subseteq Writers /\ IsFiniteSet(Writers)
    BY LogFileAssumption DEF InFlight
  <2>2. Cardinality(InFlight') <= Cardinality(Writers) /\ Cardinality(InFlight') \in Nat
    BY <2>1, FS_Subset, FS_CardinalityType
  <2>3. /\ LogThread' = LogThread /\ Len(queue') = Len(queue)
        /\ Len(queue) <= max_queue_size
        /\ ~m_is_async => Len(queue) = 0 /\ LogThread = 0
    BY <1>1 DEF LogThread, FileInv, LogInv, TypeOK
  <2>4. Cardinality(Writers) \in Nat
    BY <2>1, FS_CardinalityType
  <2> HIDE DEF LogThread
  <2>5. Late' = Cardinality(InFlight') + (Len(queue) + LogThread)
    BY <1>3, <2>2, <2>3 DEF Late
  <2>6. CASE m_is_async
    BY <1>3, <2>2, <2>3, <2>4, <2>5, <2>6, Consts DEF Slack
  <2>7. CASE ~m_is_async
    BY <1>3, <2>2, <2>3, <2>4, <2>5, <2>7 DEF Slack
  <2> QED
    BY <2>6, <2>7
<1>6. m_count \in Nat /\ m_split_lines \in Nat \ {0}
  BY Consts DEF LogInv, TypeOK
<1>7. /\ m_count \div m_split_lines \in Nat /\ m_count % m_split_lines \in Nat
      /\ m_count % m_split_lines <= m_split_lines - 1
      /\ (m_count + 1) % m_split_lines = 0 =>
            (m_count + 1) \div m_split_lines = (m_count \div m_split_lines) + 1
      /\ (m_count + 1) % m_split_lines # 0 =>
            /\ (m_count + 1) \div m_split_lines = m_count \div m_split_lines
            /\ (m_count + 1) % m_split_lines = (m_count % m_split_lines) + 1
  BY <1>6, CountDiv
<1>8. Slack' = Slack /\ (~m_is_async' => Len(queue') = 0 /\ taken' = NoLine)
  BY <1>1, <1>2 DEF Slack, FileInv
<1>9. ASSUME fflush
      PROVE  IsFiniteSet(DOMAIN disk') /\ IsFiniteSet(DOMAIN buffered')
  <2>1. IsFiniteSet({})
    BY FS_EmptySet
  <2> QED
    BY <1>9, <2>1, FlushSize
<1>10. CASE m_today # my_tm[w] /\ fflush
  <2>1. today' # 1
    BY <1>2, <1>10 DEF FileInv
  <2> QED
    BY <1>8, <1>9, <1>10, <2>1 DEF FileInv
<1>11. CASE m_today = my_tm[w] /\ (m_count + 1) % m_split_lines = 0 /\ fflush /\ NextFile(w)
            /\ UNCHANGED m_today
  <2>1. ASSUME today' = 1
        PROVE  /\ m_today' = 1 /\ \A v \in Writers : my_tm'[v] = 1
               /\ m_fp' = <<1, m_count' \div m_split_lines>>
               /\ \A x \in DOMAIN disk' : x[1][2] <= m_count' \div m_split_lines
               /\ OpenSize' + Late' <= (m_count' % m_split_lines) + Slack'
               /\ \A f : f # m_fp' => Cardinality(OnFile(f)') <= (m_split_lines - 1) + Slack'
    <3>1. /\ today = 1 /\ m_today = 1 /\ \A v \in Writers : my_tm[v] = 1
          /\ m_fp = <<1, m_count \div m_split_lines>>
          /\ \A x \in DOMAIN disk : x[1][2] <= m_count \div m_split_lines
          /\ OpenSize + Late <= (m_count % m_split_lines) + Slack
          /\ \A f : f # m_fp => Cardinality(OnFile(f)) <= (m_split_lines - 1) + Slack
      BY <1>2, <2>1 DEF FileInv
    <3>2. /\ m_count' = m_count + 1 /\ m_fp' = <<1, (m_count + 1) \div m_split_lines>>
          /\ m_fp' = <<1, m_count' \div m_split_lines>>
          /\ m_count' % m_split_lines = 0
          /\ m_count' \div m_split_lines = (m_count \div m_split_lines) + 1
      BY <1>7, <1>11, <3>1 DEF NextFile
    <3>3. /\ DOMAIN buffered' = {}
          /\ \A x \in DOMAIN disk' : x \in DOMAIN disk \/ x[1] = m_fp
          /\ \A f : f # m_fp => OnFile(f)' = OnFile(f)
          /\ \A f : f = m_fp => Cardinality(OnFile(f)') \in Nat /\ Cardinality(OnFile(f)') <= OpenSize
      BY <1>11, FlushSize
    <3>4. \A x \in DOMAIN disk' : x[1][2] <= m_count \div m_split_lines
      <4>1. \A x : x[1] = m_fp => x[1][2] <= m_count \div m_split_lines
        BY <1>7, <3>1
      <4> QED
        BY <3>1, <3>3, <4>1
    <3>5. \A x \in DOMAIN disk' : x[1][2] \in Int
      <4>1. \A x \in DOMAIN disk : x[1][2] \in Int
        BY DEF LogInv, TypeOK
      <4>2. \A x : x[1] = m_fp => x[1][2] \in Int
        BY <1>7, <3>1
      <4> QED
        BY <3>3, <4>1, <4>2
    <3>6. \A x \in DOMAIN disk' : x[1][2] <= m_count' \div m_split_lines /\ x[1] # m_fp'
      <4> SUFFICES ASSUME NEW x \in DOMAIN disk'
                   PROVE  x[1][2] <= m_count' \div m_split_lines /\ x[1] # m_fp'
        OBVIOUS
      <4>1. x[1][2] <= m_count \div m_split_lines /\ x[1][2] \in Int
        BY <3>4, <3>5
      <4>2. /\ x[1][2] <= (m_count \div m_split_lines) + 1
            /\ x[1][2] # (m_count \div m_split_lines) + 1
        BY <1>7, <4>1
      <4>3. m_fp'[2] = (m_count \div m_split_lines) + 1
        BY <3>2
      <4> QED
        BY <3>2, <4>2, <4>3
    <3>7. OpenSize' + Late' <= (m_count' % m_split_lines) + Slack'
      <4>1. OnFile(m_fp)' = {}
        BY <3>6 DEF OnFile
      <4>2. Cardinality({}) = 0
        BY FS_EmptySet
      <4>3. Cardinality(OnFile(m_fp)') = 0 /\ Cardinality(DOMAIN buffered') = 0
        BY <3>3, <4>1, <4>2, Zenon
      <4>4. OpenSize' = 0
        BY <4>3 DEF OpenSize
      <4> QED
        BY <1>3, <1>4, <1>5, <1>8, <3>2, <4>4
    <3>8. ASSUME NEW f, f # m_fp'
          PROVE  Cardinality(OnFile(f)') <= (m_split_lines - 1) + Slack'
      <4>1. CASE f = m_fp
        <5>1. Cardinality(OnFile(f)') \in Nat /\ Cardinality(OnFile(f)') <= OpenSize
          BY <3>3, <4>1
        <5> QED
          BY <1>3, <1>6, <1>7, <1>8, <3>1, <5>1
      <4>2. CASE f # m_fp
        BY <1>8, <3>1, <3>3, <4>2
      <4> QED
        BY <4>1, <4>2
    <3>9. m_today' = 1 /\ \A v \in Writers : my_tm'[v] = 1
      BY <1>2, <1>11, <3>1
    <3> QED
      BY <3>2, <3>6, <3>7, <3>8, <3>9
  <2> QED
    BY <1>8, <1>9, <1>11, <2>1 DEF FileInv
<1>12. CASE m_today = my_tm[w] /\ (m_count + 1) % m_split_lines # 0 /\ m_count' = m_count + 1
            /\ UNCHANGED <<m_today, m_fp, buffered, disk>>
  <2>1. /\ m_count' \in Nat
        /\ m_count' \div m_split_lines = m_count \div m_split_lines
        /\ m_count' % m_split_lines = (m_count % m_split_lines) + 1
    BY <1>6, <1>7, <1>12
  <2>2. OpenSize' = OpenSize
    BY <1>12 DEF OpenSize, OnFile
  <2>3. OpenSize + Late <= (m_count % m_split_lines) + Slack =>
            OpenSize' + Late' <= (m_count' % m_split_lines) + Slack
    BY <1>3, <1>4, <1>7, <2>1, <2>2
  <2>4. today = 1 => \A v \in Writers : my_tm'[v] = 1
    BY <1>2 DEF FileInv
  <2>5. DOMAIN disk' = DOMAIN disk /\ IsFiniteSet(DOMAIN buffered')
    BY <1>12 DEF FileInv
  <2>6. ~m_is_async => Len(queue') = 0 /\ taken' = NoLine
    BY <1>2, <1>8
  <2>7. UNCHANGED <<m_is_async, today, m_today, m_fp>>
    BY <1>2, <1>12
  <2> QED
    BY <2>1, <2>3, <2>4, <2>5, <2>6, <2>7, SameFile
<1> QED
  BY <1>10, <1>11, <1>12 DEF Count

LEMMA FileStep ==
    ASSUME LogInv, DropInv, FileInv, [Next]_vars
    PROVE  FileInv'
<1>t. TypeOK
  BY DEF LogInv
<1>d. /\ m_count \in Nat /\ m_count % m_split_lines \in Nat /\ today \in Int /\ today >= 1
      /\ IsFiniteSet(DOMAIN disk) /\ IsFiniteSet(DOMAIN buffered)
      /\ ~m_is_async => Len(queue) = 0 /\ taken = NoLine
      /\ today = 1 => \A w \in Writers : my_tm[w] = 1
  <2>1. m_count \in Nat /\ today \in Days
    BY <1>t DEF TypeOK
  <2>2. m_count % m_split_lines \in Nat /\ today \in Int /\ today >= 1
    BY <2>1, CountDiv, Consts DEF Days
  <2> QED
    BY <2>1, <2>2 DEF FileInv
<1>f. /\ Cardinality(InFlight) \in Nat /\ Len(queue) \in Nat /\ LogThread \in {0, 1}
      /\ OpenSize \in Nat /\ Slack \in Nat /\ Late \in Nat
      /\ Late = Cardinality(InFlight) + Len(queue) + LogThread
  BY FileTypes DEF Late
<1>l. Late' = Cardinality(InFlight)' + Len(queue') + LogThread'
  BY DEF Late
<1>k. ASSUME UNCHANGED <<m_is_async, today, m_today, m_fp, m_count, my_tm>>,
             ~m_is_async => Len(queue') = 0 /\ taken' = NoLine,
             fflush \/ (DOMAIN disk' = DOMAIN disk /\ IsFiniteSet(DOMAIN buffered')),
             OpenSize' \in Nat, Late' \in Nat, OpenSize' + Late' <= OpenSize + Late
      PROVE  FileInv'
  <2>1. OpenSize + Late <= (m_count % m_split_lines) + Slack =>
            OpenSize' + Late' <= (m_count' % m_split_lines) + Slack
    <3>1. m_count' % m_split_lines = m_count % m_split_lines
      BY <1>k
    <3> QED
      BY <1>d, <1>f, <1>k, <3>1
  <2> QED
    BY <1>d, <1>k, <2>1, SameFile
<1>1. CASE Midnight
  <2>1. /\ today' = today + 1 /\ UNCHANGED <<m_is_async, disk, buffered, queue, taken>>
    BY <1>1 DEF Midnight, log, block_queue
  <2>2. today' # 1
    BY <1>d, <2>1
  <2> QED
    BY <1>d, <2>1, <2>2 DEF FileInv
<1>2. CASE Take
  <2>1. PICK l \in Lines : Queue!Dequeue(l) /\ taken' = l
    BY <1>2 DEF Take
  <2>2. /\ taken = NoLine
        /\ UNCHANGED <<m_is_async, today, m_today, m_fp, m_count, my_tm, disk, buffered, pc>>
    BY <1>2 DEF Take, log
  <2>3. Len(queue) > 0 /\ Len(queue') = Len(queue) - 1
    BY <1>t, <2>1, QueueTake
  <2>4. m_is_async
    BY <1>d, <1>f, <2>3
  <2>5. InFlight' = InFlight /\ OpenSize' = OpenSize
    BY <2>2 DEF InFlight, OpenSize, OnFile
  <2>6. LogThread = 0 /\ LogThread' \in {0, 1}
    BY <2>2 DEF LogThread
  <2>7. Late' \in Nat /\ OpenSize' + Late' <= OpenSize + Late
    <3>1. Cardinality(InFlight)' = Cardinality(InFlight)
      BY <2>5
    <3> HIDE DEF LogThread
    <3> QED
      BY <1>f, <1>l, <2>3, <2>5, <2>6, <3>1
  <2> QED
    BY <1>d, <1>f, <1>k, <2>2, <2>4, <2>5, <2>7
<1>3. CASE WriteTaken
  <2>1. /\ taken # NoLine /\ fputs(taken) /\ taken' = NoLine
        /\ UNCHANGED <<m_is_async, today, m_today, m_fp, m_count, my_tm, queue, pc>>
    BY <1>3 DEF WriteTaken, block_queue
  <2>2. /\ DOMAIN disk' = DOMAIN disk /\ IsFiniteSet(DOMAIN buffered')
        /\ OpenSize' <= OpenSize + 1 /\ OpenSize' \in Nat
    BY <2>1, FputsSize
  <2>3. LogThread = 1 /\ LogThread' = 0 /\ InFlight' = InFlight
    BY <2>1 DEF LogThread, InFlight
  <2>4. Late' \in Nat /\ OpenSize' + Late' <= OpenSize + Late
    <3>1. Cardinality(InFlight)' = Cardinality(InFlight) /\ Len(queue') = Len(queue)
      BY <2>1, <2>3
    <3> QED
      BY <1>f, <1>l, <2>2, <2>3, <3>1
  <2> QED
    BY <1>d, <1>k, <2>1, <2>2, <2>4
<1>4. ASSUME NEW w \in Writers, Stamp(w)
      PROVE  FileInv'
  <2>1. /\ pc[w] \in {"start", "written", "flushed"} /\ pc' = [pc EXCEPT ![w] = "count"]
        /\ my_tm' = [my_tm EXCEPT ![w] = today]
        /\ UNCHANGED <<m_is_async, today, m_today, m_fp, m_count, disk, buffered, queue, taken>>
    BY <1>4 DEF Stamp, log, block_queue
  <2>2. DOMAIN pc = Writers /\ DOMAIN my_tm = Writers
    BY <1>t DEF TypeOK
  <2>3. InFlight' = InFlight
    BY <2>1, <2>2 DEF InFlight
  <2>4. OpenSize' = OpenSize /\ Late' = Late
    BY <2>1, <2>3 DEF OpenSize, OnFile, Late, LogThread
  <2>5. today = 1 => \A v \in Writers : my_tm'[v] = 1
    BY <1>d, <2>1, <2>2
  <2>6. m_count' % m_split_lines = m_count % m_split_lines /\ m_count' \in Nat
        /\ m_count' \div m_split_lines = m_count \div m_split_lines
    BY <1>d, <2>1
  <2> QED
    BY <1>d, <2>1, <2>4, <2>5, <2>6, SameFile
<1>5. ASSUME NEW w \in Writers, Count(w)
      PROVE  FileInv'
  BY <1>5, CountFile
<1>6. ASSUME NEW w \in Writers, Full(w)
      PROVE  FileInv'
  <2>1. /\ step(w, "full", "push") \/ step(w, "full", "fputs")
        /\ UNCHANGED <<m_today, m_fp, m_count, disk, buffered, queue, taken>>
    BY <1>6 DEF Full, log, block_queue
  <2>2. /\ UNCHANGED <<m_is_async, today, my_tm>> /\ Cardinality(InFlight)' = Cardinality(InFlight)
    <3>1. CASE step(w, "full", "push")
      BY <3>1, FlightStep DEF step
    <3>2. CASE step(w, "full", "fputs")
      BY <3>2, FlightStep DEF step
    <3> QED
      BY <2>1, <3>1, <3>2
  <2>3. OpenSize' = OpenSize /\ Late' = Late
    BY <2>1, <2>2 DEF OpenSize, OnFile, Late, LogThread
  <2>4. OpenSize' + Late' <= OpenSize + Late
    BY <1>f, <2>3
  <2> QED
    BY <1>d, <1>f, <1>k, <2>1, <2>2, <2>3, <2>4
<1>7. ASSUME NEW w \in Writers, Push(w)
      PROVE  FileInv'
  <2>1. /\ step(w, "push", "written")
        /\ UNCHANGED <<m_today, m_fp, m_count, disk, buffered, taken>>
        /\ Queue!Enqueue(line(w)) \/ queue' = queue
    BY <1>7 DEF Push, log
  <2>2. /\ UNCHANGED <<m_is_async, today, my_tm>>
        /\ Cardinality(InFlight)' = Cardinality(InFlight) - 1
    BY <2>1, FlightStep DEF step
  <2>3. m_is_async
    BY <2>1 DEF step, DropInv
  <2>4. Len(queue') = Len(queue) + 1 \/ Len(queue') = Len(queue)
    <3>1. line(w) \in Lines
      BY <2>1, LineType DEF LogInv, NumberInv, step
    <3> QED
      BY <1>t, <2>1, <3>1, QueuePut
  <2>5. OpenSize' = OpenSize /\ LogThread' = LogThread
    BY <2>1 DEF OpenSize, OnFile, LogThread
  <2>6. Cardinality(InFlight)' \in Nat
    <3>1. InFlight' \subseteq Writers /\ IsFiniteSet(Writers)
      BY LogFileAssumption DEF InFlight
    <3> QED
      BY <3>1, FS_Subset, FS_CardinalityType
  <2>7. Late' \in Nat /\ Late' <= Late
    <3>1. LogThread' \in Nat /\ Len(queue') \in Nat /\ Len(queue') <= Len(queue) + 1
      BY <1>f, <2>4, <2>5
    <3>2. Late' \in Nat
      BY <1>l, <2>6, <3>1
    <3> QED
      BY <1>f, <1>l, <2>2, <2>5, <2>6, <3>1, <3>2
  <2>8. OpenSize' + Late' <= OpenSize + Late
    BY <1>f, <2>5, <2>7
  <2> QED
    BY <1>d, <1>f, <1>k, <2>1, <2>2, <2>3, <2>5, <2>7, <2>8
<1>8. ASSUME NEW w \in Writers, Fputs(w)
      PROVE  FileInv'
  <2>1. /\ step(w, "fputs", "written") /\ fputs(line(w))
        /\ UNCHANGED <<m_today, m_fp, m_count, queue, taken>>
    BY <1>8 DEF Fputs, block_queue
  <2>2. /\ UNCHANGED <<m_is_async, today, my_tm>>
        /\ Cardinality(InFlight)' = Cardinality(InFlight) - 1
    BY <2>1, FlightStep DEF step
  <2>3. /\ DOMAIN disk' = DOMAIN disk /\ IsFiniteSet(DOMAIN buffered')
        /\ OpenSize' <= OpenSize + 1 /\ OpenSize' \in Nat
    BY <2>1, FputsSize
  <2>4. LogThread' = LogThread /\ Len(queue') = Len(queue)
    BY <2>1 DEF LogThread
  <2>5. Cardinality(InFlight)' \in Nat
    <3>1. InFlight' \subseteq Writers /\ IsFiniteSet(Writers)
      BY LogFileAssumption DEF InFlight
    <3> QED
      BY <3>1, FS_Subset, FS_CardinalityType
  <2>6. Late' \in Nat /\ OpenSize' + Late' <= OpenSize + Late
    BY <1>f, <1>l, <2>2, <2>3, <2>4, <2>5
  <2> QED
    BY <1>d, <1>k, <2>1, <2>2, <2>3, <2>6
<1>9. ASSUME NEW w \in Writers, flush(w)
      PROVE  FileInv'
  <2>1. /\ step(w, "written", "flushed") /\ fflush
        /\ UNCHANGED <<m_today, m_fp, m_count, queue, taken>>
    BY <1>9 DEF flush, block_queue
  <2>2. /\ UNCHANGED <<m_is_async, today, my_tm>>
        /\ Cardinality(InFlight)' = Cardinality(InFlight)
    BY <2>1, FlightStep DEF step
  <2>3. OpenSize' \in Nat /\ OpenSize' <= OpenSize
    <3>1. DOMAIN buffered' = {} /\ Cardinality({}) = 0
      BY <2>1, FlushSize, FS_EmptySet
    <3>2. Cardinality(DOMAIN buffered') = 0
      BY <3>1, Zenon
    <3>3. Cardinality(OnFile(m_fp)') \in Nat /\ Cardinality(OnFile(m_fp)') <= OpenSize
      <4>1. \A f : f = m_fp => Cardinality(OnFile(f)') \in Nat /\ Cardinality(OnFile(f)') <= OpenSize
        BY <2>1, FlushSize
      <4>2. \A f : f = m_fp => OnFile(f)' = OnFile(m_fp)'
        BY <2>1 DEF OnFile
      <4> QED
        BY <4>1, <4>2
    <3> QED
      BY <1>f, <3>2, <3>3 DEF OpenSize
  <2>4. Late' = Late
    BY <2>1, <2>2 DEF Late, LogThread
  <2>5. OpenSize' + Late' <= OpenSize + Late
    BY <1>f, <2>3, <2>4
  <2> QED
    BY <1>d, <1>f, <1>k, <2>1, <2>2, <2>3, <2>4, <2>5
<1>10. CASE UNCHANGED vars
  BY <1>10 DEF vars, log, block_queue, FileInv, OpenSize, OnFile, Late, InFlight, LogThread, Slack
<1> QED
  BY <1>1, <1>2, <1>3, <1>4, <1>5, <1>6, <1>7, <1>8, <1>9, <1>10 DEF Next, write_log

\* On a day without midnight no file gets more than m_split_lines lines and
\* those that were late when it was opened (log.cpp:105-164).
THEOREM FilesAreBoundedHolds == Spec => []FilesAreBounded
<1>1. ASSUME LogInv, FileInv
      PROVE  FilesAreBounded
  <2> SUFFICES ASSUME today = 1, NEW f
               PROVE  Size(f) <= m_split_lines + Cardinality(Writers) - 1
                                 + IF m_is_async THEN max_queue_size + 1 ELSE 0
    BY DEF FilesAreBounded
  <2>1. /\ OpenSize \in Nat /\ Late \in Nat /\ Slack \in Nat /\ Cardinality(Writers) \in Nat
        /\ Cardinality(OnFile(f)) \in Nat
    BY <1>1, FileTypes
  <2>2. m_count % m_split_lines \in Nat /\ m_count % m_split_lines <= m_split_lines - 1
    BY <1>1, Consts, CountDiv DEF LogInv, TypeOK
  <2>3. /\ OpenSize + Late <= (m_count % m_split_lines) + Slack
        /\ f # m_fp => Cardinality(OnFile(f)) <= (m_split_lines - 1) + Slack
    BY <1>1 DEF FileInv
  <2>4. Size(f) <= (m_split_lines - 1) + Slack
    <3>1. CASE f = m_fp
      <4>1. Size(f) = OpenSize
        BY <3>1 DEF Size, OpenSize, OnFile
      <4> QED
        BY <2>1, <2>2, <2>3, <4>1, Consts
    <3>2. CASE f # m_fp
      <4>1. Size(f) = Cardinality(OnFile(f)) + 0
        BY <3>2 DEF Size, OnFile
      <4> QED
        BY <2>1, <2>3, <3>2, <4>1
    <3> QED
      BY <3>1, <3>2
  <2> DEFINE queued == IF m_is_async THEN max_queue_size + 1 ELSE 0
  <2>5. (m_split_lines - 1) + Slack = m_split_lines + Cardinality(Writers) - 1 + queued
    <3>1. queued \in Nat /\ Slack = Cardinality(Writers) + queued
      BY Consts DEF Slack
    <3> HIDE DEF queued
    <3> QED
      BY <2>1, <3>1, Consts
  <2> QED
    BY <2>4, <2>5
<1>2. LogInv /\ DropInv /\ FileInv /\ [Next]_vars => LogInv' /\ DropInv' /\ FileInv'
  BY LogStep, DropStep, FileStep
<1> QED
  BY LogInit, DropInit, FileInit, <1>1, <1>2, PTL DEF Spec

(***************************************************************************)
(* What flush() promises in a synchronous log                              *)
(***************************************************************************)
\* The line of a writer is on the disk, or in the buffer and the next fflush()
\* or fclose() brings it there.
Reached(l) == \E x \in DOMAIN disk : x[2] = l
Written(l) == l \in DOMAIN buffered \/ Reached(l)

\* The inductive invariant: in a synchronous log a line that was written
\* stays in the buffer or on the disk, whatever the other writers do to both.
ReachInv ==
    /\ DOMAIN pc = Writers /\ DOMAIN number = Writers
    /\ ~m_is_async => \A w \in Writers :
        /\ pc[w] # "push"
        /\ pc[w] = "written" => Written(line(w))
        /\ pc[w] = "flushed" => Reached(line(w))

\* The two ways the buffer and the disk change.
LEMMA FlushReaches ==
    ASSUME fflush
    PROVE  /\ \A l : Reached(l) => Reached(l)'
           /\ \A l : Written(l) => Reached(l)'
<1>1. DOMAIN disk' = DOMAIN disk \cup ({m_fp} \X DOMAIN buffered)
  BY DEF fflush, (+)
<1>2. \A l : l \in DOMAIN buffered => <<m_fp, l>> \in DOMAIN disk' /\ <<m_fp, l>>[2] = l
  BY <1>1
<1> QED
  BY <1>1, <1>2 DEF Reached, Written

LEMMA FputsWrites ==
    ASSUME NEW k, fputs(k)
    PROVE  /\ \A l : Reached(l) => Reached(l)'
           /\ \A l : Written(l) => Written(l)'
           /\ Written(k)'
<1>1. disk' = disk /\ DOMAIN buffered' = DOMAIN buffered \cup {k}
  BY DEF fputs, (+), SetToBag
<1> QED
  BY <1>1 DEF Reached, Written

LEMMA ReachInit == Init => ReachInv
BY DEF Init, ReachInv

\* A step of a writer that neither flushes nor takes the line of another.
LEMMA StepReach ==
    ASSUME ReachInv, NEW w \in Writers, NEW here, NEW there, step(w, here, there),
           \A l : Reached(l) => Reached(l)', \A l : Written(l) => Written(l)',
           ~m_is_async => /\ there # "push"
                          /\ there = "written" => Written(line(w))'
                          /\ there = "flushed" => Reached(line(w))'
    PROVE  ReachInv'
<1>1. /\ DOMAIN pc = Writers /\ pc' = [pc EXCEPT ![w] = there]
      /\ m_is_async' = m_is_async /\ number' = number
  BY DEF step, ReachInv
<1>2. \A v \in Writers : line(v)' = line(v) /\ (v # w => pc'[v] = pc[v]) /\ pc'[w] = there
  BY <1>1 DEF line
<1>3. ASSUME ~m_is_async, NEW v \in Writers
      PROVE  /\ pc'[v] # "push"
             /\ pc'[v] = "written" => Written(line(v))'
             /\ pc'[v] = "flushed" => Reached(line(v))'
  <2>1. CASE v = w
    BY <1>2, <1>3, <2>1
  <2>2. CASE v # w
    <3>1. /\ pc[v] # "push"
          /\ pc[v] = "written" => Written(line(v))
          /\ pc[v] = "flushed" => Reached(line(v))
      BY <1>3 DEF ReachInv
    <3>2. (Written(line(v)) => Written(line(v))') /\ (Reached(line(v)) => Reached(line(v))')
      <4>1. line(v)' = line(v)
        BY <1>2
      <4> QED
        BY <4>1 DEF Written, Reached
    <3> QED
      BY <1>2, <2>2, <3>1, <3>2
  <2> QED
    BY <2>1, <2>2
<1> QED
  BY <1>1, <1>3 DEF ReachInv

LEMMA NothingWritten ==
    ASSUME buffered' = buffered, disk' = disk
    PROVE  /\ \A l : Reached(l) => Reached(l)'
           /\ \A l : Written(l) => Written(l)'
BY DEF Reached, Written

LEMMA ReachStep ==
    ASSUME ReachInv, [Next]_vars
    PROVE  ReachInv'
<1> DEFINE Kept == (\A l : Reached(l) => Reached(l)') /\ (\A l : Written(l) => Written(l)')
<1>1. ASSUME Kept, UNCHANGED <<m_is_async, pc, number>>
      PROVE  ReachInv'
  <2>1. \A v \in Writers : line(v)' = line(v)
    BY <1>1 DEF line
  <2> QED
    BY <1>1, <2>1 DEF ReachInv, Written, Reached
<1>2. CASE Midnight \/ Take \/ UNCHANGED vars
  <2>1. UNCHANGED <<m_is_async, pc, number, buffered, disk>>
    BY <1>2 DEF Midnight, Take, vars, log
  <2> QED
    BY <2>1, <1>1, NothingWritten
<1>3. CASE WriteTaken
  <2>1. fputs(taken) /\ UNCHANGED <<m_is_async, pc, number>>
    BY <1>3 DEF WriteTaken
  <2> QED
    BY <2>1, <1>1, FputsWrites
<1>4. ASSUME NEW w \in Writers, Stamp(w)
      PROVE  ReachInv'
  <2>1. /\ pc' = [pc EXCEPT ![w] = "count"] /\ number' = [number EXCEPT ![w] = @ + 1]
        /\ m_is_async' = m_is_async /\ buffered' = buffered /\ disk' = disk
    BY <1>4 DEF Stamp, log
  <2>2. \A v \in Writers : v # w => line(v)' = line(v) /\ pc'[v] = pc[v]
    BY <2>1 DEF line, ReachInv
  <2>3. pc'[w] = "count"
    BY <2>1 DEF ReachInv
  <2> QED
    BY <2>1, <2>2, <2>3 DEF ReachInv, Written, Reached
<1>5. ASSUME NEW w \in Writers, Count(w)
      PROVE  ReachInv'
  <2>1. step(w, "count", "full")
    BY <1>5 DEF Count
  <2>2. Kept
    <3>1. CASE fflush
      BY <3>1, FlushReaches DEF Written
    <3>2. CASE buffered' = buffered /\ disk' = disk
      BY <3>2, NothingWritten
    <3> QED
      BY <1>5, <3>1, <3>2 DEF Count
  <2> QED
    BY <2>1, <2>2, StepReach
<1>6. ASSUME NEW w \in Writers, Full(w)
      PROVE  ReachInv'
  <2>1. Kept
    BY <1>6, NothingWritten DEF Full, log
  <2>2. CASE m_is_async /\ step(w, "full", "push")
    BY <2>1, <2>2, StepReach
  <2>3. CASE step(w, "full", "fputs")
    BY <2>1, <2>3, StepReach
  <2> QED
    BY <1>6, <2>2, <2>3 DEF Full
<1>7. ASSUME NEW w \in Writers, Push(w)
      PROVE  ReachInv'
  <2>1. step(w, "push", "written") /\ Kept
    BY <1>7, NothingWritten DEF Push, log
  <2>2. m_is_async
    BY <2>1 DEF ReachInv, step
  <2> QED
    BY <2>1, <2>2, StepReach
<1>8. ASSUME NEW w \in Writers, Fputs(w)
      PROVE  ReachInv'
  <2>1. step(w, "fputs", "written") /\ fputs(line(w))
    BY <1>8 DEF Fputs
  <2>2. Kept /\ Written(line(w))'
    <3>1. line(w)' = line(w)
      BY <2>1 DEF step, line
    <3>2. buffered' = buffered (+) SetToBag({line(w)})
      BY <2>1 DEF fputs
    <3>3. line(w) \in DOMAIN buffered'
      BY <3>2 DEF (+), SetToBag
    <3> QED
      BY <2>1, <3>1, <3>3, FputsWrites DEF Written
  <2> QED
    BY <2>1, <2>2, StepReach
<1>9. ASSUME NEW w \in Writers, flush(w)
      PROVE  ReachInv'
  <2>1. step(w, "written", "flushed") /\ fflush
    BY <1>9 DEF flush
  <2>2. Kept
    BY <2>1, FlushReaches DEF Written
  <2>3. ~m_is_async => Reached(line(w))'
    <3>1. line(w)' = line(w)
      BY <2>1 DEF step, line
    <3>2. ~m_is_async => Written(line(w))
      BY <2>1 DEF step, ReachInv
    <3>3. Written(line(w)) => \E x \in DOMAIN disk' : x[2] = line(w)
      BY <2>1, FlushReaches DEF Reached
    <3> QED
      BY <3>1, <3>2, <3>3 DEF Reached
  <2> QED
    BY <2>1, <2>2, <2>3, StepReach
<1> QED
  BY <1>2, <1>3, <1>4, <1>5, <1>6, <1>7, <1>8, <1>9 DEF Next, write_log

\* In a synchronous log a writer that has called flush() finds its line on the
\* disk, however many other writers rotate, flush and write between its
\* fputs() and its flush() (log.cpp:112, 162-175).
THEOREM FlushedIsOnDiskHolds == Spec => []FlushedIsOnDisk
<1>1. ReachInv => FlushedIsOnDisk
  BY DEF ReachInv, FlushedIsOnDisk, Reached
<1>2. ReachInv /\ [Next]_vars => ReachInv'
  BY ReachStep
<1> QED
  BY ReachInit, <1>1, <1>2, PTL DEF Spec
=============================================================================
