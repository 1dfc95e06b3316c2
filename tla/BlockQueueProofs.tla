-------------------------- MODULE BlockQueueProofs --------------------------
(***************************************************************************)
(* What holds of BlockQueue for every number of threads, items and slots.  *)
(***************************************************************************)
EXTENDS BlockQueue, SequenceTheorems, TLAPS

\* m_back is m_size slots after m_front, around the end or not, and is a slot
\* when there is an item.
RingInv ==
    /\ m_back = m_front + m_size \/ m_back = m_front + m_size - m_max_size
    /\ m_size > 0 => m_back # -1

PushHasItem == \A t \in Threads : pc[t] = "push" => item[t] \in Items

\* No slot in use is one that was never set.
SlotsFilled == Contents \in Seq(Items)

QueueInv == TypeOK /\ RingInv /\ NobodySleeps /\ PushHasItem /\ SlotsFilled

(***************************************************************************)
(* The ring buffer                                                         *)
(***************************************************************************)
LEMMA Numbers ==
    ASSUME TypeOK
    PROVE  /\ m_max_size \in Nat /\ m_max_size > 0
           /\ m_size \in Nat /\ m_size <= m_max_size
           /\ m_front \in Int /\ -1 <= m_front /\ m_front < m_max_size
           /\ m_back \in Int /\ -1 <= m_back /\ m_back < m_max_size
<1>1. /\ m_max_size \in Nat \ {0} /\ m_size \in 0 .. m_max_size
      /\ m_front \in -1 .. m_max_size - 1 /\ m_back \in -1 .. m_max_size - 1
  BY BlockQueueAssumption, Zenon DEF TypeOK
<1> QED BY <1>1

LEMMA InSlots == ASSUME NEW x \in Int PROVE x % m_max_size \in Slots
BY BlockQueueAssumption DEF Slots

LEMMA ContentsType ==
    ASSUME TypeOK
    PROVE  /\ Contents \in Seq(Items \cup {NoItem})
           /\ Len(Contents) = m_size
           /\ \A i \in 1 .. m_size : Contents[i] = m_array[(m_front + i) % m_max_size]
<1>1. m_size \in Nat /\ m_front \in Int
  BY Numbers
<1>2. ASSUME NEW i \in 1 .. m_size
      PROVE  m_array[(m_front + i) % m_max_size] \in Items \cup {NoItem}
  <2>1. (m_front + i) % m_max_size \in Slots
    BY <1>1, InSlots
  <2> QED BY <2>1 DEF TypeOK
<1>3. Contents \in [1 .. m_size -> Items \cup {NoItem}]
  BY <1>2 DEF Contents
<1> QED BY <1>1, <1>3 DEF Contents

\* Where push() stores its item.
LEMMA PushRing ==
    ASSUME TypeOK, RingInv, m_size < m_max_size, m_back' = (m_back + 1) % m_max_size
    PROVE  /\ m_back' = (m_front + m_size + 1) % m_max_size
           /\ m_back' \in Slots
           /\ m_back' = m_front + m_size + 1 \/ m_back' = m_front + m_size + 1 - m_max_size
           /\ \A i \in 1 .. m_size : (m_front + i) % m_max_size # m_back'
<1> DEFINE n == m_max_size
<1>1. /\ n \in Nat /\ n > 0 /\ m_size \in Nat
      /\ m_front \in Int /\ -1 <= m_front /\ m_front < n
      /\ m_back \in Int /\ -1 <= m_back /\ m_back < n
  BY Numbers
<1>2. m_size < n /\ (m_back = m_front + m_size \/ m_back = m_front + m_size - n)
      /\ m_back' = (m_back + 1) % n
  BY DEF RingInv
<1> HIDE DEF n
<1>3. /\ m_back + 1 \in Nat /\ m_back + 1 < n + n
      /\ m_front + m_size + 1 \in Nat /\ m_front + m_size + 1 < n + n
  BY <1>1, <1>2
<1>4. m_back' = IF m_back + 1 < n THEN m_back + 1 ELSE m_back + 1 - n
  BY <1>1, <1>2, <1>3
<1>5. (m_front + m_size + 1) % n
        = IF m_front + m_size + 1 < n THEN m_front + m_size + 1 ELSE m_front + m_size + 1 - n
  BY <1>1, <1>3
<1>6. m_back' = (m_front + m_size + 1) % n
  BY <1>1, <1>2, <1>4, <1>5
<1>7. ASSUME NEW i \in 1 .. m_size PROVE (m_front + i) % n # m_back'
  <2>1. m_front + i \in Nat /\ m_front + i < n + n
    BY <1>1, <1>2
  <2>2. (m_front + i) % n = IF m_front + i < n THEN m_front + i ELSE m_front + i - n
    BY <1>1, <2>1
  <2> QED BY <1>1, <1>2, <1>5, <1>6, <2>2
<1>8. m_back' = m_front + m_size + 1 \/ m_back' = m_front + m_size + 1 - n
  BY <1>1, <1>5, <1>6
<1>9. m_back' \in Slots
  BY <1>1, <1>2, InSlots
<1> QED BY <1>6, <1>7, <1>8, <1>9 DEF n

\* What a pop() takes, and what it leaves.
LEMMA PopRing ==
    ASSUME TypeOK, RingInv, m_size > 0, m_front' = (m_front + 1) % m_max_size
    PROVE  /\ m_front' \in Slots
           /\ m_back = m_front' + (m_size - 1) \/ m_back = m_front' + (m_size - 1) - m_max_size
           /\ \A i \in 1 .. m_size - 1 :
                  (m_front' + i) % m_max_size = (m_front + (i + 1)) % m_max_size
<1> DEFINE n == m_max_size
<1>1. /\ n \in Nat /\ n > 0 /\ m_size \in Nat /\ 0 < m_size /\ m_size <= n
      /\ m_front \in Int /\ -1 <= m_front /\ m_front < n
      /\ m_back \in Int /\ -1 <= m_back /\ m_back < n
  BY Numbers
<1>2. m_front' = (m_front + 1) % n
  OBVIOUS
<1>r. m_back = m_front + m_size \/ m_back = m_front + m_size - n
  BY DEF RingInv
<1> HIDE DEF n
<1>3. m_front + 1 \in Nat /\ m_front + 1 < n + n
  BY <1>1
<1>4. m_front' = IF m_front + 1 < n THEN m_front + 1 ELSE m_front + 1 - n
  BY <1>1, <1>2, <1>3
<1>5. m_back = m_front' + (m_size - 1) \/ m_back = m_front' + (m_size - 1) - n
  <2>1. CASE m_front + 1 < n
    BY <1>1, <1>r, <1>4, <2>1
  <2>2. CASE m_front + 1 = n /\ m_front' = 0
    BY <1>1, <1>r, <2>2
  <2> QED BY <1>1, <1>4, <2>1, <2>2
<1>6. ASSUME NEW i \in 1 .. m_size - 1 PROVE (m_front' + i) % n = (m_front + (i + 1)) % n
  <2>1. /\ m_front' + i \in Nat /\ m_front' + i < n + n
        /\ m_front + (i + 1) \in Nat /\ m_front + (i + 1) < n + n
    BY <1>1, <1>4
  <2>2. (m_front' + i) % n = IF m_front' + i < n THEN m_front' + i ELSE m_front' + i - n
    BY <1>1, <2>1
  <2>3. (m_front + (i + 1)) % n
          = IF m_front + (i + 1) < n THEN m_front + (i + 1) ELSE m_front + (i + 1) - n
    BY <1>1, <2>1
  <2> QED BY <1>1, <1>4, <2>2, <2>3
<1>7. m_front' \in Slots
  BY <1>1, <1>2, InSlots
<1> QED BY <1>5, <1>6, <1>7 DEF n

\* What back() reads.
LEMMA BackIsLast ==
    ASSUME TypeOK, RingInv, m_size # 0
    PROVE  m_back \in Slots /\ m_back = (m_front + m_size) % m_max_size
<1> DEFINE n == m_max_size
<1>1. /\ n \in Nat /\ n > 0 /\ m_size \in Nat /\ m_size <= n
      /\ m_front \in Int /\ -1 <= m_front /\ m_front < n
      /\ m_back \in Int /\ -1 <= m_back /\ m_back < n
  BY Numbers
<1>2. /\ m_back = m_front + m_size \/ m_back = m_front + m_size - n
      /\ m_back # -1
  BY <1>1 DEF RingInv
<1>3. m_back \in 0 .. n - 1
  BY <1>1, <1>2
<1>4. m_back \in Slots
  BY <1>3 DEF Slots
<1> HIDE DEF n
<1>5. m_front + m_size \in Nat /\ m_front + m_size < n + n
  BY <1>1
<1>6. (m_front + m_size) % n = IF m_front + m_size < n THEN m_front + m_size ELSE m_front + m_size - n
  BY <1>1, <1>5
<1>7. m_back = (m_front + m_size) % n
  BY <1>1, <1>2, <1>3, <1>6
<1> QED BY <1>4, <1>7 DEF n

(***************************************************************************)
(* Types                                                                   *)
(***************************************************************************)
Places == Functions \cup {"idle", "pop waits", "timed pop waits", "woken", "timed out"}

Outcomes ==
    [op : Functions \cup {"none", "full", "empty", "back"}, ok : BOOLEAN,
     item : Items \cup {NoItem}]

\* Where boardcast() sends threads.
LEMMA BroadcastType ==
    ASSUME pc \in [Threads -> Places], NEW t \in Threads, boardcast(t)
    PROVE  pc' \in [Threads -> Places]
BY DEF boardcast, Woken, Places, Functions

LEMMA TypeInit == Init => TypeOK
<1> SUFFICES ASSUME Init PROVE TypeOK
  OBVIOUS
<1>1. m_max_size \in Nat \ {0}
  BY BlockQueueAssumption
<1>2. 0 \in 0 .. m_max_size /\ -1 \in -1 .. m_max_size - 1 /\ 0 \in Nat
  BY <1>1
<1>3. outcome \in Outcomes
  BY DEF Init, Abstract!Outcome, Outcomes, Functions
<1> QED BY <1>2, <1>3 DEF Init, TypeOK, Slots, Outcomes

\* Steps that leave the ring buffer alone.
Aside(t) ==
    \/ Call(t) \/ RefusedPush(t) \/ Look(t) \/ TimedPopFails(t) \/ Timeout(t)
    \/ SpuriousWakeup(t) \/ Wait(t, "pop", "pop waits")
    \/ Wait(t, "timed pop", "timed pop waits")

LEMMA AsideType ==
    ASSUME TypeOK, RingInv, NEW t \in Threads, Aside(t)
    PROVE  TypeOK' /\ UNCHANGED <<ring, m_mutex>>
<1>0. /\ pc \in [Threads -> Places] /\ item \in [Threads -> Items \cup {NoItem}]
      /\ m_array \in [Slots -> Items \cup {NoItem}] /\ calls \in Nat
  BY DEF TypeOK, Places, Outcomes
<1>1. UNCHANGED <<ring, m_mutex>>
  BY DEF Aside, Call, RefusedPush, Look, back, TimedPopFails, Timeout, SpuriousWakeup, Wait
<1>2. pc' \in [Threads -> Places]
  <2>1. CASE RefusedPush(t)
    BY <1>0, <2>1, BroadcastType DEF RefusedPush
  <2>2. CASE Call(t) \/ Look(t) \/ TimedPopFails(t) \/ Timeout(t)
    BY <1>0, <2>2 DEF Call, Look, back, TimedPopFails, Timeout, return, Places, Functions
  <2>3. CASE SpuriousWakeup(t) \/ Wait(t, "pop", "pop waits")
             \/ Wait(t, "timed pop", "timed pop waits")
    BY <1>0, <2>3 DEF SpuriousWakeup, Wait, Woken, Places, Functions
  <2> QED BY <2>1, <2>2, <2>3 DEF Aside
<1>3. item' \in [Threads -> Items \cup {NoItem}]
  <2>1. CASE Call(t)
    BY <1>0, <2>1 DEF Call
  <2> QED BY <1>0, <2>1 DEF Aside, RefusedPush, Look, TimedPopFails, Timeout, SpuriousWakeup, Wait, at
<1>4. calls' \in Nat
  <2>1. CASE Call(t)
    BY <1>0, <2>1 DEF Call
  <2> QED BY <1>0, <2>1 DEF Aside, RefusedPush, Look, TimedPopFails, Timeout, SpuriousWakeup, Wait, at
<1>5. outcome' \in Outcomes
  <2>1. CASE outcome' = outcome
    BY <2>1 DEF TypeOK, Outcomes
  <2>2. CASE RefusedPush(t)
    BY <1>0, <2>2 DEF RefusedPush, Abstract!Outcome, Outcomes, Functions
  <2>3. CASE TimedPopFails(t)
    BY <2>3 DEF TimedPopFails, return, Abstract!Outcome, Outcomes, Functions
  <2>4. CASE Look(t)
    <3>1. m_size # 0 => m_array[m_back] \in Items \cup {NoItem}
      BY BackIsLast DEF TypeOK
    <3>2. ASSUME NEW x \in Items \cup {NoItem}, outcome' = Abstract!Outcome("back", TRUE, x)
          PROVE  outcome' \in Outcomes
      BY <3>2 DEF Abstract!Outcome, Outcomes
    <3>3. ASSUME outcome' = Abstract!Outcome("back", FALSE, NoItem) PROVE outcome' \in Outcomes
      BY <3>3 DEF Abstract!Outcome, Outcomes
    <3>4. ASSUME NEW ok \in BOOLEAN, outcome' = Abstract!Outcome("full", ok, NoItem)
                     \/ outcome' = Abstract!Outcome("empty", ok, NoItem)
          PROVE  outcome' \in Outcomes
      BY <3>4 DEF Abstract!Outcome, Outcomes
    <3>5. IsFull \in BOOLEAN /\ (m_size = 0) \in BOOLEAN
      BY DEF IsFull
    <3>6. CASE return(t, "full", IsFull, NoItem) \/ return(t, "empty", m_size = 0, NoItem)
      BY <3>4, <3>5, <3>6, Zenon DEF return
    <3>7. CASE m_size # 0 /\ return(t, "back", TRUE, m_array[m_back])
      BY <3>1, <3>2, <3>7 DEF return
    <3> QED BY <2>4, <3>3, <3>6, <3>7 DEF Look, back, return
  <2> QED BY <2>1, <2>2, <2>3, <2>4
          DEF Aside, Call, Timeout, SpuriousWakeup, Wait
<1> QED BY <1>1, <1>2, <1>3, <1>4, <1>5 DEF TypeOK, ring, Places, Outcomes

LEMMA RingType ==
    ASSUME TypeOK, RingInv, NEW t \in Threads, Push(t) \/ Pop(t) \/ TimedPop(t) \/ clear(t)
    PROVE  TypeOK'
<1>0. /\ pc \in [Threads -> Places] /\ item \in [Threads -> Items \cup {NoItem}]
      /\ m_array \in [Slots -> Items \cup {NoItem}]
  BY DEF TypeOK, Places, Outcomes
<1>n. m_max_size \in Nat /\ m_max_size > 0 /\ m_size \in Nat /\ m_size <= m_max_size
  BY Numbers
<1>1. CASE Push(t)
  <2>1. m_size < m_max_size /\ m_size' = m_size + 1 /\ m_back' = (m_back + 1) % m_max_size
    BY <1>1, <1>n DEF Push, IsFull
  <2>2. m_back' \in Slots
    BY <2>1, PushRing
  <2>3. m_size' \in 0 .. m_max_size
    BY <1>n, <2>1
  <2>4. m_back' \in -1 .. m_max_size - 1
    BY <1>n, <2>2 DEF Slots
  <2>5. pc' \in [Threads -> Places]
    BY <1>0, <1>1, BroadcastType DEF Push
  <2>6. outcome' \in Outcomes
    BY <1>0, <1>1 DEF Push, Abstract!Outcome, Outcomes, Functions
  <2>7. m_array' \in [Slots -> Items \cup {NoItem}]
    BY <1>0, <1>1 DEF Push
  <2> QED BY <1>1, <2>3, <2>4, <2>5, <2>6, <2>7, Zenon DEF Push, at, TypeOK, Places, Outcomes
<1>2. CASE Pop(t) \/ TimedPop(t)
  <2>1. Takes(t, "pop") \/ Takes(t, "timed pop")
    BY <1>2 DEF Pop, TimedPop
  <2>2. m_size > 0 /\ m_size' = m_size - 1
    BY <2>1 DEF Takes
  <2>3. m_front' \in Slots
    BY <2>1, <2>2, PopRing DEF Takes
  <2>4. m_size' \in 0 .. m_max_size
    BY <1>n, <2>2
  <2>5. m_front' \in -1 .. m_max_size - 1
    BY <1>n, <2>3 DEF Slots
  <2>6. pc' \in [Threads -> Places]
    BY <1>0, <2>1 DEF Takes, return, Places
  <2>7. outcome' \in Outcomes
    <3>1. m_array[m_front'] \in Items \cup {NoItem}
      BY <1>0, <2>3
    <3>2. ASSUME NEW x \in Items \cup {NoItem}, outcome' = Abstract!Outcome("pop", TRUE, x)
          PROVE  outcome' \in Outcomes
      BY <3>2 DEF Abstract!Outcome, Outcomes, Functions
    <3>3. ASSUME NEW x \in Items \cup {NoItem},
                 outcome' = Abstract!Outcome("timed pop", TRUE, x)
          PROVE  outcome' \in Outcomes
      BY <3>3 DEF Abstract!Outcome, Outcomes, Functions
    <3> QED BY <2>1, <3>1, <3>2, <3>3 DEF Takes, return
  <2>8. m_array' = m_array /\ m_back' = m_back /\ item' = item /\ calls' = calls
        /\ m_mutex' \in Threads \cup {NoThread}
    BY <1>2, <2>1 DEF Pop, TimedPop, Takes, at, TypeOK
  <2> QED BY <2>4, <2>5, <2>6, <2>7, <2>8, Zenon DEF TypeOK, Places, Outcomes
<1>3. CASE clear(t)
  <2>1. pc' \in [Threads -> Places]
    BY <1>0, <1>3 DEF clear, return, Places
  <2>2. outcome' \in Outcomes
    BY <1>3 DEF clear, return, Abstract!Outcome, Outcomes, Functions
  <2>3. m_size' \in 0 .. m_max_size /\ m_front' \in -1 .. m_max_size - 1
        /\ m_back' \in -1 .. m_max_size - 1
    BY <1>3, <1>n DEF clear
  <2> QED BY <1>3, <2>1, <2>2, <2>3, Zenon DEF clear, at, TypeOK, Places, Outcomes
<1> QED BY <1>1, <1>2, <1>3

(***************************************************************************)
(* The ring buffer as a sequence                                           *)
(***************************************************************************)
LEMMA PushContents ==
    ASSUME QueueInv, TypeOK', NEW t \in Threads, Push(t)
    PROVE  /\ Contents' = Append(Contents, item[t])
           /\ RingInv'
<1> DEFINE S == Items \cup {NoItem}
<1>0. TypeOK /\ RingInv
  BY DEF QueueInv
<1>1. /\ m_size \in Nat /\ m_size < m_max_size /\ m_size' = m_size + 1 /\ m_front' = m_front
      /\ m_back' = (m_back + 1) % m_max_size
      /\ m_array' = [m_array EXCEPT ![m_back'] = item[t]]
  BY <1>0, Numbers DEF Push, IsFull
<1>2. /\ m_back' = (m_front + m_size + 1) % m_max_size /\ m_back' \in Slots
      /\ m_back' = m_front + m_size + 1 \/ m_back' = m_front + m_size + 1 - m_max_size
      /\ \A i \in 1 .. m_size : (m_front + i) % m_max_size # m_back'
  BY <1>0, <1>1, PushRing
<1>3. RingInv'
  <2>1. m_front + m_size + 1 = m_front + (m_size + 1)
    BY <1>0, Numbers
  <2>2. m_back' # -1
    BY <1>2, BlockQueueAssumption DEF Slots
  <2> QED BY <1>0, <1>1, <1>2, <2>1, <2>2, Numbers DEF RingInv
<1>4. item[t] \in S /\ m_array \in [Slots -> S]
  BY <1>0 DEF TypeOK
<1>5. /\ Contents \in Seq(S) /\ Len(Contents) = m_size
      /\ \A i \in 1 .. m_size : Contents[i] = m_array[(m_front + i) % m_max_size]
  BY <1>0, ContentsType
<1>6. /\ Contents' \in Seq(S) /\ Len(Contents') = m_size + 1
      /\ \A i \in 1 .. m_size + 1 : Contents'[i] = m_array'[(m_front + i) % m_max_size]
  <2>1. (/\ Contents \in Seq(Items \cup {NoItem})
         /\ Len(Contents) = m_size
         /\ \A i \in 1 .. m_size : Contents[i] = m_array[(m_front + i) % m_max_size])'
    BY ContentsType, PTL
  <2> QED BY <1>1, <2>1
<1>7. /\ Append(Contents, item[t]) \in Seq(S) /\ Len(Append(Contents, item[t])) = m_size + 1
      /\ \A i \in 1 .. m_size : Append(Contents, item[t])[i] = Contents[i]
      /\ Append(Contents, item[t])[m_size + 1] = item[t]
  BY <1>4, <1>5, AppendProperties
<1>8. ASSUME NEW i \in 1 .. m_size + 1 PROVE Contents'[i] = Append(Contents, item[t])[i]
  <2>1. CASE i \in 1 .. m_size
    <3>1. (m_front + i) % m_max_size \in Slots
      BY <1>0, <2>1, Numbers, InSlots
    <3>2. m_array'[(m_front + i) % m_max_size] = m_array[(m_front + i) % m_max_size]
      BY <1>1, <1>2, <1>4, <2>1, <3>1
    <3> QED BY <1>5, <1>6, <1>7, <2>1, <3>2
  <2>2. CASE i = m_size + 1
    <3>1. (m_front + i) % m_max_size = m_back'
      <4>1. m_front + i = m_front + m_size + 1
        BY <1>0, <2>2, Numbers
      <4> QED BY <1>2, <4>1
    <3>2. m_array'[m_back'] = item[t]
      BY <1>1, <1>2, <1>4
    <3> QED BY <1>6, <1>7, <2>2, <3>1, <3>2
  <2>3. i \in 1 .. m_size \/ i = m_size + 1
    BY <1>1
  <2> QED BY <2>1, <2>2, <2>3
<1>9. Contents' = Append(Contents, item[t])
  <2> HIDE DEF S
  <2> QED BY <1>1, <1>6, <1>7, <1>8, SeqEqual
<1> QED BY <1>3, <1>9

LEMMA TakeContents ==
    ASSUME QueueInv, TypeOK', NEW t \in Threads, NEW op, Takes(t, op)
    PROVE  /\ Contents # <<>> /\ Contents' = Tail(Contents)
           /\ outcome' = Abstract!Outcome(op, TRUE, Head(Contents))
           /\ RingInv'
<1> DEFINE S == Items \cup {NoItem}
<1>0. TypeOK /\ RingInv
  BY DEF QueueInv
<1>1. /\ m_size \in Nat /\ m_size > 0 /\ m_size' = m_size - 1 /\ m_back' = m_back
      /\ m_front' = (m_front + 1) % m_max_size /\ m_array' = m_array
      /\ outcome' = Abstract!Outcome(op, TRUE, m_array[m_front'])
  BY <1>0, Numbers DEF Takes, return
<1>2. /\ m_back = m_front' + (m_size - 1) \/ m_back = m_front' + (m_size - 1) - m_max_size
      /\ \A i \in 1 .. m_size - 1 :
             (m_front' + i) % m_max_size = (m_front + (i + 1)) % m_max_size
  BY <1>0, <1>1, PopRing
<1>3. RingInv'
  BY <1>0, <1>1, <1>2 DEF RingInv
<1>5. /\ Contents \in Seq(S) /\ Len(Contents) = m_size
      /\ \A i \in 1 .. m_size : Contents[i] = m_array[(m_front + i) % m_max_size]
  BY <1>0, ContentsType
<1>6. /\ Contents' \in Seq(S) /\ Len(Contents') = m_size - 1
      /\ \A i \in 1 .. m_size - 1 : Contents'[i] = m_array[(m_front' + i) % m_max_size]
  <2>1. (/\ Contents \in Seq(Items \cup {NoItem})
         /\ Len(Contents) = m_size
         /\ \A i \in 1 .. m_size : Contents[i] = m_array[(m_front + i) % m_max_size])'
    BY ContentsType, PTL
  <2> QED BY <1>1, <2>1
<1>7. Contents # <<>>
  BY <1>1, <1>5
<1>8. Head(Contents) = m_array[m_front']
  <2>1. Head(Contents) = Contents[1] /\ 1 \in 1 .. m_size
    BY <1>1, <1>5, <1>7
  <2> QED BY <1>1, <1>5, <2>1
<1>9. /\ Tail(Contents) \in Seq(S) /\ Len(Tail(Contents)) = m_size - 1
      /\ \A i \in 1 .. m_size - 1 : Tail(Contents)[i] = Contents[i + 1]
  <2> HIDE DEF S
  <2> QED BY <1>5, <1>7, HeadTailProperties
<1>10. ASSUME NEW i \in 1 .. m_size - 1 PROVE Contents'[i] = Tail(Contents)[i]
  <2>1. i + 1 \in 1 .. m_size
    BY <1>1
  <2>2. Contents[i + 1] = m_array[(m_front + (i + 1)) % m_max_size]
    BY <1>5, <2>1
  <2> QED BY <1>2, <1>6, <1>9, <2>2
<1>11. Contents' = Tail(Contents)
  <2> HIDE DEF S
  <2> QED BY <1>6, <1>9, <1>10, SeqEqual
<1> QED BY <1>1, <1>3, <1>7, <1>8, <1>11

(***************************************************************************)
(* The invariant                                                           *)
(***************************************************************************)
LEMMA InvInit == Init => QueueInv
<1> SUFFICES ASSUME Init PROVE QueueInv
  OBVIOUS
<1>1. m_size = 0 /\ m_front = -1 /\ m_back = -1
  BY DEF Init
<1>2. RingInv
  BY <1>1 DEF RingInv
<1>3. NobodySleeps
  BY <1>1 DEF NobodySleeps
<1>4. PushHasItem
  BY DEF Init, PushHasItem
<1>5. SlotsFilled
  <2>1. Contents \in Seq(Items \cup {NoItem}) /\ Len(Contents) = 0
    BY <1>1, TypeInit, ContentsType
  <2> QED BY <2>1 DEF SlotsFilled
<1> QED BY <1>2, <1>3, <1>4, <1>5, TypeInit DEF QueueInv

LEMMA SleepStep ==
    ASSUME QueueInv, NEW t \in Threads, Aside(t) \/ Push(t) \/ Pop(t) \/ TimedPop(t) \/ clear(t)
    PROVE  NobodySleeps'
<1> USE DEF NobodySleeps
<1>0. pc \in [Threads -> Places] /\ NobodySleeps
  BY DEF QueueInv, TypeOK, Places
<1>n. m_size \in Nat
  BY Numbers DEF QueueInv
<1>m. (m_size <= 0 => m_size = 0) /\ (m_size > 0 => m_size # 0)
  BY <1>n
<1>1. CASE Push(t) \/ RefusedPush(t)
  BY <1>0, <1>1 DEF Push, RefusedPush, boardcast, Woken
<1>2. CASE Pop(t) \/ TimedPop(t)
  <2>1. m_size > 0 /\ \A s \in Threads : pc[s] \notin {"pop waits", "timed pop waits"}
    BY <1>0, <1>2, <1>m DEF Pop, TimedPop, Takes
  <2> QED BY <1>0, <1>2, <2>1 DEF Pop, TimedPop, Takes, return
<1>3. CASE clear(t)
  BY <1>3 DEF clear
<1>4. CASE Wait(t, "pop", "pop waits") \/ Wait(t, "timed pop", "timed pop waits")
  <2>1. m_size = 0 /\ m_size' = m_size
    BY <1>4, <1>m DEF Wait, ring
  <2> QED BY <2>1
<1>5. CASE Call(t) \/ Look(t) \/ TimedPopFails(t) \/ Timeout(t)
  BY <1>0, <1>5 DEF Call, Look, back, TimedPopFails, Timeout, return, ring, Functions
<1>6. CASE SpuriousWakeup(t)
  BY <1>0, <1>6 DEF SpuriousWakeup, Woken, ring
<1> QED BY <1>1, <1>2, <1>3, <1>4, <1>5, <1>6 DEF Aside

LEMMA ItemStep ==
    ASSUME QueueInv, NEW t \in Threads, Aside(t) \/ Push(t) \/ Pop(t) \/ TimedPop(t) \/ clear(t)
    PROVE  PushHasItem'
<1> USE DEF PushHasItem
<1>0. /\ pc \in [Threads -> Places] /\ PushHasItem
      /\ item \in [Threads -> Items \cup {NoItem}]
  BY DEF QueueInv, TypeOK, Places
<1>1. CASE Call(t)
  BY <1>0, <1>1 DEF Call
<1>2. ASSUME item' = item, \A s \in Threads : pc'[s] = "push" => pc[s] = "push"
      PROVE  PushHasItem'
  BY <1>0, <1>2
<1>3. CASE Push(t) \/ RefusedPush(t)
  BY <1>0, <1>2, <1>3 DEF Push, RefusedPush, boardcast, Woken, at
<1>4. CASE Pop(t) \/ TimedPop(t) \/ clear(t)
  BY <1>0, <1>2, <1>4 DEF Pop, TimedPop, clear, Takes, return, at
<1>5. CASE Look(t) \/ TimedPopFails(t) \/ Timeout(t) \/ SpuriousWakeup(t)
  BY <1>0, <1>2, <1>5 DEF Look, back, TimedPopFails, Timeout, SpuriousWakeup, Woken, return, at
<1>6. CASE Wait(t, "pop", "pop waits") \/ Wait(t, "timed pop", "timed pop waits")
  BY <1>0, <1>2, <1>6 DEF Wait, at
<1> QED BY <1>1, <1>3, <1>4, <1>5, <1>6 DEF Aside

LEMMA StepKinds ==
    ASSUME [Next]_vars
    PROVE  \/ \E t \in Threads : Aside(t)
           \/ \E t \in Threads : Push(t)
           \/ \E t \in Threads : Pop(t) \/ TimedPop(t)
           \/ \E t \in Threads : clear(t)
           \/ UNCHANGED vars
BY DEF Next, Step, Aside

LEMMA AsideContents ==
    ASSUME QueueInv, NEW t \in Threads, Aside(t)
    PROVE  Contents' = Contents
BY AsideType DEF QueueInv, Contents, ring

LEMMA ClearContents ==
    ASSUME QueueInv, TypeOK', NEW t \in Threads, clear(t)
    PROVE  Contents' = <<>>
<1>1. m_size' = 0
  BY DEF clear
<1>2. (/\ Contents \in Seq(Items \cup {NoItem})
       /\ Len(Contents) = m_size
       /\ \A i \in 1 .. m_size : Contents[i] = m_array[(m_front + i) % m_max_size])'
  BY ContentsType, PTL
<1> QED BY <1>1, <1>2

LEMMA FilledStep ==
    ASSUME QueueInv, TypeOK', NEW t \in Threads,
           Aside(t) \/ Push(t) \/ Pop(t) \/ TimedPop(t) \/ clear(t)
    PROVE  SlotsFilled'
<1> USE DEF SlotsFilled
<1>0. Contents \in Seq(Items)
  BY DEF QueueInv
<1>1. CASE Aside(t)
  BY <1>0, <1>1, AsideContents
<1>2. CASE Push(t)
  <2>1. item[t] \in Items
    BY <1>2 DEF QueueInv, PushHasItem, Push, at
  <2>2. Contents' = Append(Contents, item[t])
    BY <1>2, PushContents
  <2> QED BY <1>0, <2>1, <2>2, AppendProperties
<1>3. CASE Pop(t) \/ TimedPop(t)
  <2>1. Contents # <<>> /\ Contents' = Tail(Contents)
    BY <1>3, TakeContents DEF Pop, TimedPop
  <2> QED BY <1>0, <2>1, HeadTailProperties
<1>4. CASE clear(t)
  <2>1. Contents' = <<>>
    BY <1>4, ClearContents
  <2> QED BY <2>1
<1> QED BY <1>1, <1>2, <1>3, <1>4

LEMMA InvStep == QueueInv /\ [Next]_vars => QueueInv'
<1> SUFFICES ASSUME QueueInv, [Next]_vars PROVE QueueInv'
  OBVIOUS
<1>0. TypeOK /\ RingInv /\ NobodySleeps /\ PushHasItem /\ SlotsFilled
  BY DEF QueueInv
<1>1. ASSUME NEW t \in Threads, Aside(t) PROVE QueueInv'
  <2>1. TypeOK' /\ UNCHANGED <<ring, m_mutex>>
    BY <1>0, <1>1, AsideType
  <2>2. RingInv'
    BY <1>0, <2>1 DEF RingInv, ring
  <2>3. NobodySleeps'
    BY <1>1, SleepStep
  <2> QED BY <1>1, <2>1, <2>2, <2>3, ItemStep, FilledStep DEF QueueInv
<1>2. ASSUME NEW t \in Threads, Push(t) PROVE QueueInv'
  <2>1. TypeOK'
    BY <1>0, <1>2, RingType
  <2>2. RingInv'
    BY <1>2, <2>1, PushContents
  <2>3. NobodySleeps'
    BY <1>2, SleepStep
  <2> QED BY <1>2, <2>1, <2>2, <2>3, ItemStep, FilledStep DEF QueueInv
<1>3. ASSUME NEW t \in Threads, Pop(t) \/ TimedPop(t) PROVE QueueInv'
  <2>1. TypeOK'
    BY <1>0, <1>3, RingType
  <2>2. RingInv'
    BY <1>3, <2>1, TakeContents DEF Pop, TimedPop
  <2>3. NobodySleeps'
    BY <1>3, SleepStep
  <2> QED BY <1>3, <2>1, <2>2, <2>3, ItemStep, FilledStep DEF QueueInv
<1>4. ASSUME NEW t \in Threads, clear(t) PROVE QueueInv'
  <2>1. TypeOK'
    BY <1>0, <1>4, RingType
  <2>2. RingInv'
    BY <1>4 DEF clear, RingInv
  <2>3. NobodySleeps'
    BY <1>4, SleepStep
  <2> QED BY <1>4, <2>1, <2>2, <2>3, ItemStep, FilledStep DEF QueueInv
<1>5. CASE UNCHANGED vars
  BY <1>0, <1>5 DEF vars, ring, QueueInv, TypeOK, RingInv, NobodySleeps, PushHasItem,
                    SlotsFilled, Contents
<1> QED BY <1>1, <1>2, <1>3, <1>4, <1>5, StepKinds

\* The invariant holds in every state.
LEMMA Invariant == Spec => []QueueInv
BY InvInit, InvStep, PTL DEF Spec

\* Every call keeps the types; m_front and m_back stay inside the array.
THEOREM TypeCorrect == Spec => []TypeOK
<1>1. QueueInv => TypeOK
  BY DEF QueueInv
<1> QED BY <1>1, Invariant, PTL

\* No thread sleeps in pop() while there is an item.
THEOREM NobodySleepsHolds == Spec => []NobodySleeps
<1>1. QueueInv => NobodySleeps
  BY DEF QueueInv
<1> QED BY <1>1, Invariant, PTL

(***************************************************************************)
(* The refinement of Fifo                                                  *)
(***************************************************************************)
LEMMA FifoInit == Init => Abstract!Init
<1> SUFFICES ASSUME Init PROVE Abstract!Init
  OBVIOUS
<1>1. Contents \in Seq(Items \cup {NoItem}) /\ Len(Contents) = 0
  BY TypeInit, ContentsType DEF Init
<1>2. Contents = <<>>
  BY <1>1
<1> QED BY <1>2 DEF Init, Abstract!Init

LEMMA FullIsFull == ASSUME QueueInv PROVE Abstract!Full <=> IsFull
<1>1. Len(Contents) = m_size
  BY ContentsType DEF QueueInv
<1>2. m_size \in Nat /\ m_size <= m_max_size /\ m_max_size \in Nat
  BY Numbers DEF QueueInv
<1> QED BY <1>1, <1>2 DEF Abstract!Full, IsFull

LEMMA LookStep ==
    ASSUME QueueInv, NEW t \in Threads, Look(t)
    PROVE  Abstract!Look
<1>0. TypeOK /\ RingInv
  BY DEF QueueInv
<1>1. Contents' = Contents
  BY AsideContents DEF Aside
<1>2. Len(Contents) = m_size /\ (Contents = <<>> <=> m_size = 0) /\ m_size \in Nat
  BY <1>0, ContentsType, Numbers
<1>3. m_size # 0 => m_array[m_back] = Contents[Len(Contents)]
  BY <1>0, <1>2, BackIsLast, ContentsType
<1>4. CASE return(t, "full", IsFull, NoItem)
  <2>1. IsFull = Abstract!Full
    BY FullIsFull DEF Abstract!Full, IsFull
  <2> QED BY <1>1, <1>4, <2>1, Zenon DEF Abstract!Look, return
<1>5. CASE return(t, "empty", m_size = 0, NoItem)
  <2>1. (m_size = 0) = (Contents = <<>>)
    BY <1>2
  <2> QED BY <1>1, <1>5, <2>1, Zenon DEF Abstract!Look, return
<1>6. CASE m_size = 0 /\ return(t, "back", FALSE, NoItem)
  BY <1>1, <1>2, <1>6, Zenon DEF Abstract!Look, return
<1>7. CASE m_size # 0 /\ return(t, "back", TRUE, m_array[m_back])
  BY <1>1, <1>2, <1>3, <1>7, Zenon DEF Abstract!Look, return
<1> QED BY <1>4, <1>5, <1>6, <1>7 DEF Look, back

LEMMA FifoStep ==
    QueueInv /\ QueueInv' /\ [Next]_vars => [Abstract!Next]_<<Contents, outcome>>
<1> SUFFICES ASSUME QueueInv, QueueInv', [Next]_vars
             PROVE  [Abstract!Next]_<<Contents, outcome>>
  OBVIOUS
<1>0. TypeOK'
  BY DEF QueueInv
<1>1. ASSUME NEW t \in Threads, Aside(t) PROVE [Abstract!Next]_<<Contents, outcome>>
  <2>1. Contents' = Contents
    BY <1>1, AsideContents
  <2>2. CASE RefusedPush(t)
    <3>1. item[t] \in Items
      BY <2>2 DEF QueueInv, PushHasItem, RefusedPush, at
    <3>2. Abstract!Refuse(item[t])
      BY <2>1, <2>2, FullIsFull DEF RefusedPush, Abstract!Refuse
    <3> QED BY <3>1, <3>2 DEF Abstract!Next
  <2>3. CASE Look(t)
    BY <2>3, LookStep DEF Abstract!Next
  <2>4. CASE TimedPopFails(t)
    BY <2>1, <2>4 DEF TimedPopFails, return, Abstract!Next, Abstract!GetNothing
  <2>5. CASE outcome' = outcome
    BY <2>1, <2>5
  <2> QED BY <1>1, <2>2, <2>3, <2>4, <2>5 DEF Aside, Call, Timeout, SpuriousWakeup, Wait
<1>2. ASSUME NEW t \in Threads, Push(t) PROVE [Abstract!Next]_<<Contents, outcome>>
  <2>1. Contents' = Append(Contents, item[t])
    BY <1>0, <1>2, PushContents
  <2>2. Abstract!Put(item[t])
    BY <1>2, <2>1, FullIsFull DEF Push, Abstract!Put, Abstract!Enqueue
  <2>3. item[t] \in Items
    BY <1>2 DEF QueueInv, PushHasItem, Push, at
  <2> QED BY <2>2, <2>3 DEF Abstract!Next
<1>3. ASSUME NEW t \in Threads, Pop(t) \/ TimedPop(t)
      PROVE  [Abstract!Next]_<<Contents, outcome>>
  <2>1. ASSUME NEW op, Takes(t, op) PROVE Abstract!Get(op)
    <3>1. /\ Contents # <<>> /\ Contents' = Tail(Contents)
          /\ outcome' = Abstract!Outcome(op, TRUE, Head(Contents))
      BY <1>0, <2>1, TakeContents
    <3>2. Head(Contents) \in Items
      BY <3>1, HeadTailProperties DEF QueueInv, SlotsFilled
    <3> QED BY <3>1, <3>2 DEF Abstract!Get, Abstract!Dequeue
  <2>2. Abstract!Get("pop") \/ Abstract!Get("timed pop")
    BY <1>3, <2>1 DEF Pop, TimedPop
  <2> QED BY <2>2 DEF Abstract!Next
<1>4. ASSUME NEW t \in Threads, clear(t) PROVE [Abstract!Next]_<<Contents, outcome>>
  <2>2. Contents' = <<>>
    BY <1>0, <1>4, ClearContents
  <2> QED BY <1>4, <2>2 DEF clear, return, Abstract!Clear, Abstract!Next
<1>5. CASE UNCHANGED vars
  BY <1>5 DEF vars, ring, Contents
<1> QED BY <1>1, <1>2, <1>3, <1>4, <1>5, StepKinds

\* For every number of threads, slots and calls the ring buffer is a bounded
\* queue: nothing is lost, repeated, reordered or refused with room left.
THEOREM BlockQueueImplementsFifo == Spec => FifoSpec
<1>1. Init => Abstract!Init
  BY FifoInit
<1>2. QueueInv /\ QueueInv' /\ [Next]_vars => [Abstract!Next]_<<Contents, outcome>>
  BY FifoStep
<1> QED BY <1>1, <1>2, Invariant, PTL DEF Spec, FifoSpec, Abstract!Spec
=============================================================================
