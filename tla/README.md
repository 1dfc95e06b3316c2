# TLA+ models of TinyServer

TinyServer (`src/myTiny`) is a small HTTP server: one thread waits in
`epoll_wait` and does all socket input and output, a pool of workers parses
requests and prepares responses, accounts live in MySQL, and a log writes to
files.  This directory holds TLA+ modules translated from its code, the TLC
runs that check them, and proofs for TLAPS.

The code is modelled as the makefile builds it: without optimisation, with the
level-triggered variants of `main.c` and `http_conn.cpp` (`http_conn.cpp:8,11`).
Some lines of the repository do not compile as they stand (a misspelt name, a
missing bracket, `sem(int nem)` that reads `num`); they are read as what they
plainly mean.  `threadpool/` and `timer/` are included by `main.c` but are not in
the repository; what the models need of them is taken from how `main.c` uses
them and marked external in `PROJECT.json`.

## The system

| Part | State | Operations | Other parts it meets |
|---|---|---|---|
| Event loop, `main.c:189-362` | `events[]`, `timeout`, `stop_server` | accept, hang-up, read and write branches, `cb_func` | fills `users[]`, appends slots to the pool, owns the timers |
| Connection object `http_conn` | `m_sockfd`, `bytes_to_send`, buffers, parser state; static `m_user_count`, `m_epollfd` | `init`, `read_once`, `process`, `write`, `close_conn`; `addfd`, `modfd`, `removefd` | main thread and workers take turns, by EPOLLONESHOT |
| Request parser, `http_conn.cpp:176-464` | `m_read_buf`, `m_checked_idx`, `m_start_line`, `m_check_state`, `m_content_length`, `m_linger`, `m_string` | `parse_line`, `parse_requset_line`, `parse_headers`, `parse_content`, `process_read` | called by `process` as often as data arrives |
| Request handling and accounts, `http_conn.cpp:28-58, 466-605` | map `users` under `m_lock`, table `user` | `initmysql_result`, `do_requset` (login, registration, pages) | all workers share the map |
| Response writer, `http_conn.cpp:616-810` | `m_write_buf`, `m_iv`, `bytes_have_send`, mapped file | `add_response`, `process_write`, `write` | prepared by a worker, sent by the main thread |
| Connection pool, `CGImysql/` | `connList`, `reserve`, `lock`, `FreeConn`, `CurConn` | `init`, `GetConnection`, `ReleaseConnection`, `DestroyPool`, `connectionRAII` | workers and main thread |
| Lock wrappers, `lock/locker.h` | a pthread object each | `sem`, `locker`, `cond` | pool, accounts, log |
| Log queue, `log/block_queue.h` | ring buffer, mutex, condition | `push`, `pop`, timed `pop`, `full`, `front`, `clear` | writers and the log thread |
| Log, `log/log.cpp` | file, line count, day | `init`, `write_log`, `flush` | every thread |
| Timers and signals, `main.c:44-88, 284-287` | `timer_lst`, `users_timer[]`, pipe | `sig_handler`, `timer_handler`, `cb_func` | the branch that reads the pipe is empty |

What makes each of them correct:

* event loop and connection objects: a socket is treated by one thread at a
  time, no socket is forgotten in the disarmed state, each is closed once, the
  client counter and the timers match the connections;
* parser: its answer does not depend on how `recv` cuts the stream, and every
  complete request is recognised;
* writer: the client gets the whole response, however often the socket is full;
* accounts: an account a client was told of stays, also after a restart; the map and the
  table agree; a name is registered once (which the code does not achieve);
* pool: a connection serves one thread at a time and none is lost; waiting
  threads are served;
* queue and log: no line lost, none twice, in order, in the file it is counted
  for.

What is hard to test, at the line where it bites, is the list `hazards` of
`PROJECT.json`.

## Modules

| Module | Models | Extends or instantiates |
|---|---|---|
| `EventLoop` | event loop, connection objects as owners of sockets, workers | instantiates `ConnOwnership` |
| `ConnOwnership` | abstract: each descriptor has one owner and is passed on along seven arrows | |
| `EventLoopProofs` | theorems about `EventLoop` | `EventLoop`, `TLAPS` |
| `EventLoopCountProofs` | theorems about the client counter, its limit and the timers | `EventLoopProofs` |
| `ConnectionPool` | the database connection pool | |
| `ConnectionPoolProofs` | theorems about `ConnectionPool` | `ConnectionPool`, `TLAPS` |
| `HttpRead` | reading and parsing one request | |
| `HttpWrite` | making and sending the responses of the connections of one slot | |
| `HttpReadProofs` | theorems about `HttpRead` | `HttpRead`, `TLAPS` |
| `HttpWriteProofs` | theorems about `HttpWrite` | `HttpWrite`, `TLAPS` |
| `Accounts` | login and registration, the map `users`, the table, restarts | instantiates `AccountSet` |
| `AccountSet` | abstract: what registration promises where nothing keeps a name from being stored twice | |
| `AccountsProofs` | theorems about `Accounts` | `Accounts`, `TLAPS` |
| `BlockQueue` | the ring buffer `block_queue`, its mutex and condition | instantiates `Fifo` |
| `Fifo` | abstract: a bounded queue | |
| `BlockQueueProofs` | theorems about `BlockQueue` | `BlockQueue`, `TLAPS` |
| `LogFile` | `write_log` and `flush`: rotation, midnight, both modes | instantiates `Fifo` as its queue |
| `LogFileProofs` | theorems about `LogFile` | `LogFile`, `TLAPS` |
| `MC*` | the constants of the runs | the module each is named after |

**EventLoop.**  A step is the code between two accesses to something another
thread may touch.  `mpc`, `mfd`, `mtmp` are the main thread's place, its slot and
the value of `m_user_count` it loaded; `wpc`, `wjob`, `wtmp` the same of a worker.
`interest` is the epoll registration (`"off"`: registered, disarmed by
EPOLLONESHOT), `peer` what a client has sent or that it has left, `event` what is
left of `events[]`.  Every branch of the event loop is an action: `EpollWait`,
`Accept`/`NotAccepted`, `LoadCount`/`InitStore` (the `++` in `init` and what
follows it), `Dispatch`, `ReadOnce`, `IOFails`, `Write`, `WriteNothing`,
`WriteRearm`, `cb_func`, `CbStore`.  A worker runs `Take`, `Process`, and then either
`Rearm` or the three parts of `close_conn` and `Rearm`.  What the request was is left
to chance (`Outcomes`).

**ConnOwnership** says what EPOLLONESHOT is for: a descriptor is free, or watched
by epoll, or in the main thread's hands, or in the pool's, and no thread takes it
from another.  `EventLoop` defines `owner` from its state (`OwnerOf`) and implements it.

**ConnectionPool.**  One `pc` per thread.  The test of the size, the wait, the lock,
`front`, `pop_front` with the counters and the unlock, the lock, `push_back`, and the post are
steps of their own.  `MaxConn` is chosen when the pool is initialised, so that one run has
scarce and plentiful connections.

**HttpRead.**  A request is a record (method, headers, length of the body, which line
has a wrong end), turned into a stream of symbols one by one: the request line, a
header, CR, LF, a body byte.  `Begin(r, k)` is the place where line k begins, in closed form, so
that `Stream` needs no recursion.  `ReadOnce` takes any number of symbols.  Each pass of the loop
in `process_read` is two steps, the loop condition (`EnterBody`, `ParseLine`) and the
`switch` (`RequestLine`, `Header`, `EmptyLine`, `Content`).  `m_content_length` has
the eight bits of the code.

**HttpWrite.**  A byte is a symbol that says what it is a byte of (`<<"404", 2>>`), so that
`got`, what the client received, can be compared with the response it should have got.
`SendFile`, `SendErrorPage` and `NoResponse` are the cases of `process_write`, with the file
`do_requset` found.  `iv0`, `iv1` are `m_iv`, with a base counted from the start of the buffer or of the
file; `Gathered` is what `writev` would send, a byte outside of its buffer being
`"stray"`.  Each pass of the loop in `write` is `WritePart`, `WriteRest`, `WouldBlock` or
`WriteFails`.  Requests follow one another as long as the responses say keep-alive, and
when a connection has ended, at any point of a response, the slot is given to the next
(`Accept`), with the iovecs and the mapping that `init` leaves alone.  `m_file_address` starts as whatever
was in the slot; `mappings` counts the files that are mapped for the slot, and `abandoned` the clients that left
while a file was being sent, whose mapping nobody releases (`HangUp`).  `unmap` takes its length from the
last file asked for, so that in a slot with an old mapping it may release nothing.

**Accounts.**  A worker goes through `do_requset` in the steps between which another may
come: the search in the map (which takes no lock), the lock, the query, and `Insert`, which
is `users.insert`, the unlock and the page.  `users.find` without the lock may miss a name
while another worker is in `users.insert` (`Misses`); that it may also crash is a `Restart`,
which may come at any time and runs `initmysql_result`.  The table is the one `src/myTiny/README.md:30-33`
creates: no column is a key, so INSERT adds a second row of a name as it adds the first.  Whether queries may
fail (`reliable`) is chosen at the start; a query that fails may have added its row.

**AccountSet** is what a client may count on with that table: a stored account stays; the password a name
logs in with is set once and changes only where the server is started again, which may choose another of the
name's stored passwords; a client is told only of a stored account; and nothing but stored accounts logs in while no query
fails.  `Accounts` implements it with the rows of the table as `accounts` and the map `users` as `login`.  That a name is
stored once is not in it: the run `once` shows why.

**BlockQueue.**  Every function holds `m_mutex` throughout, so one call is one step, but for a
wait, which is two: `pc` says who waits and who was woken, and who was woken competes for
the mutex like any caller.  `pop(item)` leaves with the mutex.  Spurious wake-ups may happen, and
a deadline may pass at any time, which covers its wrong arithmetic (`block_queue.h:164-165`).
`m_array[front]` and `m_fron` (lines 151, 192) are read as `m_front`.

**Fifo** is a sequence with a capacity; `BlockQueue` maps `m_front`, `m_size` and `m_array` to it
(`Contents`), and remembers in `outcome` what the last call returned.

**LogFile.**  A line is its writer and a number.  `write_log` is four sections: count and
rotate, `full`, `push` or `fputs`; the date is taken before the first.  The stdio
buffer and the disk are bags of lines: a file has no order here, but a line that is there
twice is seen.  Nothing in the repository calls `Log::init`; the model starts behind it.  The queue is `Fifo`, which `BlockQueue` implements.  Its thread, `async_write_log`, is not in
the repository; it is taken to use the `pop` that gives the mutex back.

## Runs

| Run | Shows | Bounds |
|---|---|---|
| `oneshot` | one thread per socket, no lost connection, EPOLLOUT exactly for responses, an exact client counter until a worker closes a connection, refinement of `ConnOwnership`, requests come back, data is read | 2 descriptors, 2 workers, 1 client waiting; descriptors not reused while their closing worker is in `process` |
| `reuse` | no deleted timer is used, however soon a descriptor is reused | 1 descriptor, 2 workers |
| `race` (violated) | two threads on one socket after early reuse | as `oneshot` |
| `pool` | no shared connection, no pop of an empty list, exact counters, enough for all, waiters served | 3 threads, 1 to 3 connections |
| `read` | the right answer for every way to cut a request, none forgotten | up to 2 headers, body up to 2 bytes, buffer of 11 symbols (some requests do not fit) |
| `read_body` (violated) | a body in two pieces is never complete | the same, nothing wrong with the requests |
| `write` | each client gets its response and nothing else, only clients that leave during a file leave a mapping, responses end | 3 requests on one or more connections of a slot, a header of 4 bytes, page of 2, file of 3; `writev` stops at most once inside the header |
| `write_pieces` (violated) | a header sent in three pieces is damaged | 1 request, the header cut twice |
| `accounts` | who was told has a row, the map knows the table, refinement of `AccountSet`, a page for every request | 2 workers, 2 names, 2 passwords, 6 kinds of request, 3 requests, 1 restart, a table of at most two rows at first |
| `once` (violated) | two workers register one name, with no query failing | the same, with an empty table at first |
| `queue` | refinement of `Fifo`, no thread sleeps beside an item, calls return | 3 threads, 2 items, 2 places, 5 calls |
| `log` | no line doubled or lost but by a full queue, length of files, `flush` | 2 writers, 3 lines each, 2 lines a file, queue of 1, 2 days |

Why the bounds are enough.  Two descriptors and two workers have every pair that can
meet: two workers, a worker and the main thread, on one slot or on two; a third of
either adds nothing that two of them do not show, and the theorems hold for any number.
`Backlog` clients wait at most.  `QueueBound` and `CountBound` stop clients, not the server: nobody sends
while more slots are queued, nobody connects while lost updates
have taken the counter below `-CountBound`.  With `CHECK_DEADLOCK FALSE` in `oneshot` and `reuse` the
run may stop there; that no connection is forgotten before it does is `NoLostConnection`, and `pool` checks deadlock.  In `HttpRead` the run ends
with the answer, or when a client has nothing more to send.  In `HttpWrite` it ends when the
connection is closed or the last request is answered.
Three threads and one to three connections have a pool that is
scarce and one that is not.  Two headers are the smallest number that
has an order, a body of two bytes the smallest that can be cut.
In `HttpWrite` a header of four bytes can be cut at three places, a page and a file can be cut, and
their lengths differ so that one is not taken for another; the third request follows a
response that followed another.  `HeaderCuts` says how often `writev` may stop inside the header
of one response.
Two workers with one name are what registration has to stand; the third request comes after, or
tries to log in.  One restart is enough to compare the map with the table, and it may come between
any two steps.  Five calls fill a queue of two, empty it, wrap both indices round and clear it;
three threads are a producer and two that wait.  Three lines of each of two writers fill a file,
its successor and the queue, with a writer that is held up between counting and writing; the
bounds in `FilesAreBounded` are reached in both modes.

Fairness.  `EventLoop`: the scheduler runs the main thread and each worker (weak fairness
of each); clients owe nothing.  `ConnectionPool`: a thread that has asked for a connection goes
on, which includes that a query ends; mutex and semaphore are not assumed to be fair, and
so the property is that some waiting thread is served.  `HttpRead`: the client sends its whole
request and the threads run.  `HttpWrite`: worker and main thread run, and a client that does not
leave takes its response, so that `writev` does not answer EAGAIN for ever (strong fairness
of sending, which alternates with waiting).  `Accounts`: workers run, queries end, and a mutex that
becomes free again and again is got at last (strong fairness of `Lock`); a restart ends all requests.
`BlockQueue`: threads run and deadlines pass.  `LogFile` has no liveness property: a line
in the queue depends on a thread whose code is not there.

Three conditions of passing runs are assumptions about the environment and not about the code:
`PromptReuse = FALSE` in `oneshot`, without which `race` shows what happens, and
`BodyInPieces = FALSE` in `read`, without which `read_body` does, and `HeaderCuts = 1` in
`write`, without which `write_pieces` does: a header of a hundred bytes is rarely cut even once.

## Proofs

`EventLoopProofs`, for any number of descriptors, workers and clients, from
`EventLoopAssumption` (the constants have their types):

* `TypeCorrect`: the type invariant.
* `TimersAreLive`: the main thread never uses a deleted timer.  The invariant behind it
  (`TimerInv`) says that an open descriptor the main thread knows has a live timer,
  because only the main thread makes and deletes timers and only it accepts; no
  condition on reuse is needed.
* `OneThreadPerSocketHolds`, `NoConnectionIsLost`,
  `EventLoopImplementsOwnership`, under `Safe`: `process` never closes a connection, or a descriptor is
  not reused while the worker that closes it is in `process`.  `OneShotInv` is the inductive
  invariant.  `OneThreadPerSocket` by itself is not inductive: that a worker is alone with a
  slot follows from how it got it, so the invariant says of every place a slot can be in
  (armed, an event, the queue, a job, the main thread) that it is in no other, and
  at which places of `close_conn` the descriptor is already closed.
* `InterestMatchesResponseHolds`, under `Safe`: `ResponseInv` says for each place a slot can be in
  whether it has bytes to send; who has the slot is in `OneShotInv`.

`EventLoopCountProofs`.  `UserCountIsExact`, under `Safe`: `m_user_count` is right until a worker has closed
a connection.  A worker that closes one leaves its timer behind, and nothing ever takes that away, so "no timer was
left behind" (`Unmarked`) says that no worker has come to the counter; `MarkInv` says that the mark is there before
the worker loads the counter, and `CountInv`, which holds as long as there is none, by how much the counter is behind the set
of descriptors at each place of the main thread.  `MaxFdIsRespected` and `TimersMatch`, under `OnlyMainCloses`
(`process` never closes a connection): the limit `MAX_FD` holds, and exactly the open connections have a timer.
No run checks these two: without the condition the code does not keep them (see below).

`ConnectionPoolProofs`, for any number of threads and connections, from
`ConnectionPoolAssumption` (finite sets): `TypeCorrect`, `NoConnectionIsShared`,
`ListNeverPoppedEmpty`, `CountersAreExact`, `NobodyIsRefused`.  `PoolInv` is
inductive.  The size of the list is read without the lock, so nothing a thread
knows keeps the list from being empty when it pops; what does is `TokensMatch`: semaphore,
threads between semaphore and list, and threads between list and post
add up to the length of the list.  `FrontIsHead` says that what `front`
returned is what `pop_front` removes, which needs the lock (`LockOwned`).

`AccountsProofs`, for any workers, names, passwords and bounds, from `AccountsAssumption`:
`TypeCorrect`, `ToldIsStoredHolds`, `StoredIsKnownHolds`, `AccountSetImplemented`.
`AccountsInv` is inductive.  What refinement needs is that a worker that comes to `users.insert` has its row in the
table if its INSERT said so (`ResultIsTrue`), and that it said so if no query fails (`ResultIsGood`); that only one
worker is between lock and unlock (`LockOwned`); and that a restart loads for each name a password of one of its rows
(`LoadedIsLoad`), the last, which exists because the rows of a name are finitely many (`LastRow`).

`BlockQueueProofs`, for any threads, items and size, from `BlockQueueAssumption`: `TypeCorrect`,
`NobodySleepsHolds`, `BlockQueueImplementsFifo`.  `QueueInv` adds that `m_back` is `m_size` places behind `m_front`
(`RingInv`; before the first push, and after `clear`, both are -1), that the slots in
between have been filled (`SlotsFilled`) and that a thread in `push` has an item.

`HttpWriteProofs`, for every length of headers, pages and files, from `HttpWriteAssumption` and
`OneCut` (`writev` stops at most once inside a header; with more it is wrong, see below):
`TypeCorrect`, `ResponseIsExactHolds`; and `MappingReleasedHolds` without `OneCut`, by `MappingInv`: while a file is being
sent its address is in `m_file_address`, so that `unmap` releases it and not another.  `WriteInv` says that the
iovecs are at the next byte: in the header (`InHeader`) or, with nothing left of the header, in the file (`InFile`).
That what they gather is the rest of the response (`GatheredIsRest`) is a fact about
subsequences of the two buffers; that `write` moves them to the next byte (`SentAdvances`) is where
`OneCut` is needed, since `write` compares the bytes sent with what is left of the header, not with its length.

`HttpReadProofs`, for any requests and any size of the read buffer, from `HttpReadAssumption`:

* `TypeCorrect`, which is about the indices: `m_start_line`, `m_checked_idx`, `m_read_idx` and the
  size of the buffer stay in this order through every call, so that `parse_line` never looks behind
  what was read (`ParseInBuffer`).  It needs no condition.
* `AnswerIsRightHolds`, if `ShortBodies`: no body is longer than 127 bytes, the most that
  `m_content_length`, a `char`, can tell.  How `recv` cuts the stream does not matter, the body included:
  a body in pieces may keep the parser from answering, but not from answering right.
* `WrongLineGetsNoAnswer`, if `ShortBodies`: a request with a wrong line end is never answered, unless its request
  line was found wrong before.
* `LinesAreLinesHolds` and `NoRequestMeansIncompleteHolds`, if `ShortBodies` and not `BodyInPieces`;
  `read_body` shows that the second is false with a body in pieces.

None of the properties behind these is inductive: what `process_read` makes of a line depends on all it did in
earlier calls.  `ParseInv` says how far it is.  It looks for the end of a line k (`AtLine`), has found it
and turned it into two zeros (`OnLine`), or waits for the body (`InContent`); what is in the buffer behind
that place is what the client sent (`Agrees`), and method, keep-alive and length are those of the
lines before k (`Accepted`).  The steps are then proved line by line: `ParseAtLine` says what `parse_line`
can find on line k, whatever part of it has come, and `TextOfLine` that `get_line` gives the text of the
line and stops at its zeros.  Around them stand facts about the stream alone (`Shape`, `StreamShape`,
`LoneCR`).  When the empty line has been read, all headers are in `Accepted`, which is what the answer needs.
The invariant was checked with TLC on the bounds of `read` before it was proved, with bodies in pieces too.

`LogFileProofs`, for any writers, lines, days, sizes of file and queue, and both modes, from
`LogFileAssumption`:

* `TypeCorrect`; with it, that the queue never holds more than its size.
* `EveryLineOnceHolds`.  `OnceInv` says of every line that was begun that it is in one place, and names
  which (with its writer, in the queue, with the log thread, dropped, in the buffer, on the disk), and
  of every other line that it is nowhere; so each step moves a line from one place to the next.
  `DropInv` is why only an asynchronous log with two writers loses one: a writer that stands before
  `push` found room, and only another writer can have taken it.
* `FilesAreBoundedHolds`.  `FileInv` counts: the lines of the open file, and those that were counted but are
  late (`Late`: with a writer, in the queue, with the log thread), are no more than `m_count` has counted
  for this file and the `Slack` there was when it was opened; a closed file has what it had then.
* `FlushedIsOnDiskHolds`.  A line written is in the buffer or on the disk, and every change of file goes
  through `fflush` (`ReachInv`).

Every safety property the passing runs check is a theorem, under the conditions named above; those
conditions are the ones of the runs, or weaker.  Only model-checked: all liveness (`RequestComesBack`,
`DataIsRead`, `WaitersAreServed`, `RequestIsRecognised`, `ResponseEnds`, `EveryRequestGetsAPage`,
`EveryCallReturns`), since fairness is beyond the prover.

## What the code does otherwise than its comments say

Four runs are violated, with the line and the comment or document each contradicts in the `findings` of
`PROJECT.json`: early reuse of a descriptor (`race`), bodies in pieces (`read_body`), headers sent in three pieces
(`write_pieces`), one name registered twice (`once`).  In the last, both clients are told that they are registered;
while the server runs the first password logs in, after a restart the second.

Without a run of their own:

* `m_user_count` is changed by workers (`http_conn.cpp:137`) and by the main thread
  (`http_conn.cpp:147`, `main.c:99`) without a lock.  As soon as `process` closes a connection,
  `EventLoop` loses updates (`DecLoad`, `DecStore` between `LoadCount` and `InitStore` or `CbStore`): the
  comment at `http_conn.cpp:130` says that closing makes the number one less.  `UserCountExact` therefore
  speaks of the time before; without `NoneLeftBehind` it is violated with the constants of `oneshot`.
* A client that leaves while a file is being sent leaves it mapped: `cb_func` (`main.c:91-103`) does not call `unmap`,
  and `init` (`http_conn.cpp:141-173`) keeps `m_file_address`.  In the next connection of the slot a file replaces the address,
  so that the old mapping is lost; an error page calls `munmap` with the length of the last file asked for.
* A line that does not end in CR LF is LINE_BAD, which `process_read` treats like LINE_OPEN
  (`http_conn.cpp:416, 463`): no answer, no close, as the theorem `WrongLineGetsNoAnswer` says of every
  such request.  `http_conn.h:50` says that a wrong message is answered.
* A missing file and an empty one get no response (`NoResponse`), although `http_conn.h:51` and
  `http_conn.cpp:794` say they do.
* When INSERT fails, the name is put in the map all the same (`http_conn.cpp:519`): with a database
  that fails the client is told `registerError` and can log in until the next restart.
* `block_queue.h:11` says that who adds to a full queue is suspended; `push` returns false, and
  `write_log` does not look (`log.cpp:157`).
* `pop(item)` returns with the mutex locked (`block_queue.h:153`).  `EveryCallReturns` holds
  only with that exception (`leaked`): a log whose thread uses it stops after one line.
* `log.cpp:170-175` flushes the open file, not the lines that wait in the queue.

With more threads than connections `GetConnection` returns NULL instead of waiting
(`sql_connection_pool.cpp:66`, the action `Refused`), which `http_conn.cpp:33-38` does not test;
`EnoughForAll` says when that cannot happen.

## Not modelled

* Timers beyond their existence, and signals: the branch of `main.c:284-287` that
  should read the pipe is empty, so `timeout` and `stop_server` never change and
  the code behind them is not reached.
* Sockets and epoll beyond registrations, readiness and reuse of numbers; the
  edge-triggered variants, which are not built.
* Static pages, the makefile, failures of pthread and memory allocation.
* In `do_requset`, how name and password are cut out of the body; a start without a database.
* A request after "Connection: close", which is parsed with the indices of the last one: `HttpRead` and `HttpWrite` are not
  composed, and the one's symbols are not the other's.
* `DestroyPool`: a static destructor runs it, and the server ends only by `exit(1)` in
  `connection_pool::init`, where it locks the mutex it already has.
* `front`, `size`, `max_size` and the destructor of `block_queue`; `cond::signal`.
* In the log, the order of lines in a file, a file that cannot be opened, and the static buffer of
  `localtime`.

## Plan

What could come next, the most useful first:

1. `HttpRead` and `HttpWrite` composed: two requests on one connection, the second after
   "Connection: close".
2. `LogFile` with the names of the files as written (`log.cpp:49-66, 117-129`), and with `fopen`
   failing.
