------------------------------- MODULE LogFile -------------------------------
(***************************************************************************)
(* Log::write_log() and Log::flush() (log.cpp), called by the main thread  *)
(* and the workers: the files a line may go to, the stdio buffer of the    *)
(* open one and, in asynchronous mode, the block_queue and its thread.     *)
(*                                                                         *)
(* Everything but the queue is used under m_mutex, so a section is a step; *)
(* a line is complete with its string log_str.  The buffer reaches the     *)
(* disk with fflush() and fclose() alone: that stdio may write it earlier  *)
(* changes nothing here, nor does the order of the lines in a file.        *)
(***************************************************************************)
EXTENDS Integers, Sequences, FiniteSets, Bags

CONSTANTS
    Writers,
    NoLine,          \* the log thread holds no line
    m_split_lines,   \* lines of a file
    max_queue_size,
    MaxLines,        \* bound: lines of a writer
    MaxDay           \* bound: the last day

ASSUME LogFileAssumption ==
    /\ IsFiniteSet(Writers) /\ NoLine \notin Writers \X Nat
    /\ m_split_lines \in Nat \ {0} /\ max_queue_size \in Nat \ {0}
    /\ MaxLines \in Nat /\ MaxDay \in Nat \ {0}

VARIABLES
    m_is_async,
    today,                  \* the day it is
    m_today, m_count, m_fp,
    buffered,               \* bag of lines in the buffer of m_fp
    disk,                   \* bag of the lines that were written, with their files
    queue,                  \* the block_queue
    taken,                  \* the line the log thread holds
    dropped,                \* lines push() refused
    pc, number, my_tm       \* of each writer

log == <<m_today, m_count, m_fp, buffered, disk>>
block_queue == <<queue, dropped>>
vars == <<m_is_async, today, log, block_queue, taken, pc, number, my_tm>>

Lines == Writers \X (1 .. MaxLines)
Days  == 1 .. MaxDay

\* block_queue<string> as BlockQueue implements it; its results are used at
\* once or not at all.
Queue == INSTANCE Fifo WITH
    Items <- Lines, NoItem <- NoLine, Capacity <- max_queue_size, outcome <- NoLine

\* Log::init() opens the file of the day.  Nothing in the repository calls it.
Init ==
    /\ m_is_async \in BOOLEAN
    /\ today = 1 /\ m_today = 1 /\ m_count = 0 /\ m_fp = <<1, 0>>
    /\ buffered = EmptyBag /\ disk = EmptyBag
    /\ queue = <<>> /\ taken = NoLine /\ dropped = {}
    /\ pc = [w \in Writers |-> "start"] /\ number = [w \in Writers |-> 0]
    /\ my_tm = [w \in Writers |-> 1]

line(w) == <<w, number[w]>>

\* Writer w goes from one place to another.
step(w, here, there) ==
    /\ pc[w] = here /\ pc' = [pc EXCEPT ![w] = there]
    /\ UNCHANGED <<m_is_async, today, number, my_tm>>

Midnight ==
    /\ today < MaxDay /\ today' = today + 1
    /\ UNCHANGED <<m_is_async, log, block_queue, taken, pc, number, my_tm>>

\* gettimeofday() and localtime() for the next line, before the mutex.  Some
\* callers do not call flush() between two lines.
Stamp(w) ==
    /\ pc[w] \in {"start", "written", "flushed"} /\ number[w] < MaxLines
    /\ pc' = [pc EXCEPT ![w] = "count"]
    /\ number' = [number EXCEPT ![w] = @ + 1]
    /\ my_tm' = [my_tm EXCEPT ![w] = today]
    /\ UNCHANGED <<m_is_async, today, log, block_queue, taken>>

\* Mutant: the buffer of the old file is forgotten.
Forgets == buffered' = EmptyBag /\ UNCHANGED disk

fflush ==
    /\ disk' = disk (+) [f \in {m_fp} \X DOMAIN buffered |-> buffered[f[2]]]
    /\ buffered' = EmptyBag

fputs(l) == buffered' = buffered (+) SetToBag({l}) /\ UNCHANGED disk

\* Mutant: the count starts again with every file.
CountsAgain(w) ==
    /\ m_fp' = <<my_tm[w], (m_count + 1) \div m_split_lines>>
    /\ m_count' = 0

\* The next file of a day.
NextFile(w) ==
    /\ m_fp' = <<my_tm[w], (m_count + 1) \div m_split_lines>>
    /\ m_count' = m_count + 1

\* m_count++, and a new file for another day or after m_split_lines lines.
Count(w) ==
    /\ step(w, "count", "full")
    /\ \/ /\ m_today # my_tm[w]
          /\ fflush /\ m_fp' = <<my_tm[w], 0>>
          /\ m_today' = my_tm[w] /\ m_count' = 0
       \/ /\ m_today = my_tm[w] /\ (m_count + 1) % m_split_lines = 0
          /\ fflush /\ NextFile(w)
          /\ UNCHANGED m_today
       \/ /\ m_today = my_tm[w] /\ (m_count + 1) % m_split_lines # 0
          /\ m_count' = m_count + 1
          /\ UNCHANGED <<m_today, m_fp, buffered, disk>>
    /\ UNCHANGED <<block_queue, taken>>

\* What full() says is used after its mutex is given back.
Full(w) ==
    /\ IF m_is_async /\ ~Queue!Full THEN step(w, "full", "push") ELSE step(w, "full", "fputs")
    /\ UNCHANGED <<log, block_queue, taken>>

\* Mutant: push() does not look whether there is room.
PushesAnyway(w) ==
    /\ step(w, "push", "written")
    /\ queue' = Append(queue, line(w))
    /\ UNCHANGED <<log, dropped, taken>>

\* The result of push() is not looked at.
Push(w) ==
    /\ step(w, "push", "written")
    /\ \/ Queue!Enqueue(line(w)) /\ UNCHANGED dropped
       \/ Queue!Full /\ dropped' = dropped \cup {line(w)} /\ UNCHANGED queue
    /\ UNCHANGED <<log, taken>>

Fputs(w) ==
    /\ step(w, "fputs", "written")
    /\ fputs(line(w))
    /\ UNCHANGED <<m_today, m_count, m_fp, block_queue, taken>>

\* Mutant: flush() without fflush().
NoFlush(w) ==
    /\ step(w, "written", "flushed")
    /\ UNCHANGED <<log, block_queue, taken>>

\* Log::flush(), of whatever file is open now.
flush(w) ==
    /\ step(w, "written", "flushed")
    /\ fflush
    /\ UNCHANGED <<m_today, m_count, m_fp, block_queue, taken>>

\* The log thread: a pop() that gives the queue's mutex back, which is the one
\* with a timeout (the other stops the log, BlockQueue), and fputs() under
\* m_mutex.
Take ==
    /\ taken = NoLine
    /\ \E l \in Lines : Queue!Dequeue(l) /\ taken' = l
    /\ UNCHANGED <<m_is_async, today, log, dropped, pc, number, my_tm>>

WriteTaken ==
    /\ taken # NoLine
    /\ fputs(taken) /\ taken' = NoLine
    /\ UNCHANGED <<m_is_async, today, m_today, m_count, m_fp, block_queue, pc, number, my_tm>>

write_log(w) == Count(w) \/ Full(w) \/ Push(w) \/ Fputs(w)

Next ==
    \/ Midnight \/ Take \/ WriteTaken
    \/ \E w \in Writers : Stamp(w) \/ write_log(w) \/ flush(w)

Spec == Init /\ [][Next]_vars

(***************************************************************************)
(* Properties                                                              *)
(***************************************************************************)
\* The type invariant.
TypeOK ==
    /\ m_is_async \in BOOLEAN
    /\ today \in Days /\ m_today \in Days
    /\ m_count \in Nat /\ m_fp \in Days \X Nat
    /\ IsABag(buffered) /\ DOMAIN buffered \subseteq Lines
    /\ IsABag(disk) /\ DOMAIN disk \subseteq (Days \X Nat) \X Lines
    /\ queue \in Seq(Lines) /\ Len(queue) <= max_queue_size
    /\ taken \in Lines \cup {NoLine} /\ dropped \subseteq Lines
    /\ pc \in [Writers -> {"start", "count", "full", "push", "fputs", "written", "flushed"}]
    /\ number \in [Writers -> 0 .. MaxLines] /\ my_tm \in [Writers -> Days]

\* A writer that has a line to hand on.
Holding == {"count", "full", "push", "fputs"}

\* The elements of a bag, told apart.
Copies(bag) == UNION {{x} \X (1 .. bag[x]) : x \in DOMAIN bag}

\* Where a line is, and how often: with its writer, in the queue, with the log
\* thread, refused, in the buffer, on the disk.
Places(l) ==
    {<<"writer", w>> : w \in {v \in Writers : line(v) = l /\ pc[v] \in Holding}}
    \cup {<<"queue", i>> : i \in {j \in DOMAIN queue : queue[j] = l}}
    \cup {<<"log thread", x>> : x \in {l} \cap {taken}}
    \cup {<<"dropped", x>> : x \in {l} \cap dropped}
    \cup {<<"buffer", c>> : c \in {d \in Copies(buffered) : d[1] = l}}
    \cup {<<"disk", c>> : c \in {d \in Copies(disk) : d[1][2] = l}}

\* Through rotation, the queue and its thread a line is never doubled, and
\* never lost but by a push() into a queue that has become full, which only
\* an asynchronous log with another writer can meet (log.cpp:155-164).
EveryLineOnce ==
    /\ \A w \in Writers : \A i \in 1 .. number[w] : Cardinality(Places(<<w, i>>)) = 1
    /\ dropped # {} => m_is_async /\ Cardinality(Writers) > 1

\* The lines of a file, each of which is there once (EveryLineOnce).
Size(f) ==
    Cardinality({x \in DOMAIN disk : x[1] = f})
        + IF m_fp = f THEN Cardinality(DOMAIN buffered) ELSE 0

\* A file may get more than m_split_lines lines, those that were counted for
\* an earlier one and written late: one of each other writer, the queue, and
\* the one of the log thread; not more, on a day without midnight
\* (log.cpp:105-164).
FilesAreBounded ==
    today = 1 =>
        \A f \in {m_fp} \cup {x[1] : x \in DOMAIN disk} :
            Size(f) <= m_split_lines + Cardinality(Writers) - 1
                       + IF m_is_async THEN max_queue_size + 1 ELSE 0

\* In a synchronous log flush() puts the caller's line on the disk, though
\* another writer may have changed the file since (log.cpp:112, 169-175).
FlushedIsOnDisk ==
    \A w \in Writers :
        ~m_is_async /\ pc[w] = "flushed" => \E x \in DOMAIN disk : x[2] = line(w)
=============================================================================
