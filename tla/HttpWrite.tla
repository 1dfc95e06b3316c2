----------------------------- MODULE HttpWrite -----------------------------
(***************************************************************************)
(* How the responses of the connections of one slot of users[] are made    *)
(* and sent: a worker finds the file (the end of do_requset) and fills     *)
(* m_write_buf and the two iovecs (process_write); the main thread sends   *)
(* them with writev(), which may take any part of what is left, and goes   *)
(* on when the socket is writable again (write).                           *)
(*                                                                         *)
(* Bytes are symbols that tell where they come from.  A status line with   *)
(* its headers has HeadLen of them, the text of an error page FormLen, a   *)
(* file FileLen.  Everything fits into WRITE_BUFFER_SIZE.  A client that   *)
(* was told "Connection: close" sends no more.                             *)
(***************************************************************************)
EXTENDS Integers, Sequences

CONSTANTS
    Targets,              \* what requests ask for, part of AllTargets
    HeadLen, FormLen, FileLen,
    HeaderCuts,           \* how often writev() may stop inside m_write_buf
    MaxRequests           \* bound: requests in all

AllTargets == {"file", "empty", "missing", "hidden", "directory", "malformed"}

ASSUME HttpWriteAssumption ==
    /\ Targets \subseteq AllTargets
    /\ {HeadLen, FormLen, FileLen} \subseteq Nat \ {0}
    /\ HeaderCuts \in Nat /\ MaxRequests \in Nat

VARIABLES
    pc,        \* "in", "out": the socket waits for EPOLLIN, EPOLLOUT;
               \* "process", "write": a worker, the main thread, has it;
               \* "told": as "in", after a response that said "close";
               \* "dropped": close_conn(); "closed": cb_func()
    target,    \* what the last request asked for
    requests,  \* how many there were
    cuts,      \* how often this response was cut inside m_write_buf
    got,       \* what the client got of this response
    m_linger, m_write_buf, iv0, iv1, m_iv_count,
    bytes_to_send, bytes_have_send,
    m_file_address,  \* "null", "mapped", or "invalid": MAP_FAILED, or what was
                     \* there before the slot was used
    mappings,        \* files that are mapped for this slot
    abandoned        \* clients that left while a file was being sent

mapping == <<m_file_address, mappings, abandoned>>
buffers == <<m_write_buf, iv0, iv1, m_iv_count, bytes_to_send, bytes_have_send>>
vars == <<pc, target, requests, cuts, got, m_linger, buffers, mapping>>

m_write_idx == Len(m_write_buf)

(***************************************************************************)
(* Responses                                                               *)
(***************************************************************************)
Part(name, len) == [i \in 1 .. len |-> <<name, i>>]

Head_200 == Part("200", HeadLen)
Page(status) == Part(status, HeadLen) \o Part("form", FormLen)
File == Part("file", FileLen)

\* What process_read() and do_requset() make of a request.
do_requset(t) ==
    CASE t = "missing"                    -> "NO_RESOURCE"
      [] t = "hidden"                     -> "FORBIDDEN_REQUEST"
      [] t \in {"directory", "malformed"} -> "BAD_REQUEST"
      [] t \in {"file", "empty"}          -> "FILE_REQUEST"

iovec(base, len) == [base |-> base, len |-> len]

\* Neither the constructor nor init() sets m_file_address.
Init ==
    /\ pc = "in" /\ target = "none" /\ requests = 0 /\ cuts = 0 /\ got = <<>>
    /\ m_linger = FALSE
    /\ m_write_buf = <<>> /\ iv0 = iovec(0, 0) /\ iv1 = iovec(0, 0) /\ m_iv_count = 0
    /\ bytes_to_send = 0 /\ bytes_have_send = 0
    /\ m_file_address \in {"null", "invalid"} /\ mappings = 0 /\ abandoned = 0

\* A complete request comes in, with Connection: keep-alive or without.
Request ==
    /\ pc = "in" /\ requests < MaxRequests
    /\ target' \in Targets
    /\ m_linger' \in BOOLEAN
    /\ requests' = requests + 1 /\ cuts' = 0 /\ got' = <<>>
    /\ pc' = "process"
    /\ UNCHANGED <<buffers, mapping>>

\* The client leaves: cb_func() closes, and does not call unmap().
HangUp ==
    /\ pc \in {"in", "out", "told"}
    /\ pc' = "closed"
    /\ abandoned' = IF pc = "out" /\ target = "file" THEN abandoned + 1 ELSE abandoned
    /\ UNCHANGED <<target, requests, cuts, got, m_linger, buffers, m_file_address, mappings>>

\* Mutant: the indices of the last response are kept.
NoInit == m_linger' = FALSE /\ UNCHANGED <<m_write_buf, bytes_to_send, bytes_have_send>>

\* The private init(): the iovecs and the mapping are left as they are.
init ==
    /\ m_linger' = FALSE /\ m_write_buf' = <<>>
    /\ bytes_to_send' = 0 /\ bytes_have_send' = 0

\* accept() gives the next client the number: init(sockfd, addr).
Accept ==
    /\ pc \in {"dropped", "closed"}
    /\ init
    /\ pc' = "in" /\ target' = "none" /\ got' = <<>> /\ cuts' = 0
    /\ UNCHANGED <<requests, iv0, iv1, m_iv_count, mapping>>

(***************************************************************************)
(* process_write(), in a worker                                            *)
(***************************************************************************)
\* add_response() appends to what is in the buffer.
add_response(bytes) == m_write_buf' = m_write_buf \o bytes

\* A file that is not empty: the header in one iovec, the file in the other.
\* A mapping an earlier client left behind is forgotten.
SendFile ==
    /\ pc = "process" /\ target = "file"
    /\ m_file_address' = "mapped" /\ mappings' = mappings + 1
    /\ add_response(Head_200)
    /\ iv0' = iovec(0, Len(m_write_buf'))
    /\ iv1' = iovec(0, FileLen)
    /\ m_iv_count' = 2
    /\ bytes_to_send' = Len(m_write_buf') + FileLen
    /\ pc' = "out"
    /\ UNCHANGED <<target, requests, cuts, got, m_linger, bytes_have_send, abandoned>>

\* 403, and 404 for BAD_REQUEST: all in one iovec.
SendErrorPage ==
    /\ pc = "process" /\ do_requset(target) \in {"FORBIDDEN_REQUEST", "BAD_REQUEST"}
    /\ add_response(Page(IF target = "hidden" THEN "403" ELSE "404"))
    /\ iv0' = iovec(0, Len(m_write_buf'))
    /\ m_iv_count' = 1
    /\ bytes_to_send' = Len(m_write_buf')
    /\ pc' = "out"
    /\ UNCHANGED <<target, requests, cuts, got, m_linger, iv1, bytes_have_send,
                   mapping>>

\* There is no case for NO_RESOURCE, and the one for an empty file (mmap() of
\* nothing fails) writes a page and falls through to "return false":
\* process() calls close_conn().
NoResponse ==
    /\ pc = "process"
    /\ \/ target = "missing" /\ UNCHANGED <<m_write_buf, m_file_address>>
       \/ target = "empty" /\ add_response(Page("200")) /\ m_file_address' = "invalid"
    /\ pc' = "dropped"
    /\ UNCHANGED <<target, requests, cuts, got, m_linger, iv0, iv1, m_iv_count,
                   bytes_to_send, bytes_have_send, mappings, abandoned>>

(***************************************************************************)
(* write(), in the main thread                                             *)
(***************************************************************************)
Writable ==
    /\ pc = "out"
    /\ pc' = "write"
    /\ UNCHANGED <<target, requests, cuts, got, m_linger, buffers, mapping>>

\* The bytes of an iovec; what lies outside of its buffer is anything.
Bytes(iv, buffer) ==
    [i \in 1 .. iv.len |->
        IF iv.base + i \in DOMAIN buffer THEN buffer[iv.base + i] ELSE <<"stray", 0>>]

Gathered ==
    Bytes(iv0, m_write_buf) \o (IF m_iv_count = 2 THEN Bytes(iv1, File) ELSE <<>>)

\* What writev() may send: something, if there is anything.
MaySend(n) ==
    /\ IF Gathered = <<>> THEN n = 0 ELSE n \in 1 .. Len(Gathered)
    /\ bytes_have_send + n < m_write_idx => cuts < HeaderCuts

\* Mutant: where the file goes on is counted from the first byte of all.
FromStart(have) == have

FileOffset(have) == have - m_write_idx

\* Mutant: the mapping is kept.
KeepMapping == UNCHANGED <<m_file_address, mappings>>

\* munmap() takes the length from m_file_stat: after an error page that may be
\* another file than the one an earlier client left mapped, and too short.
unmap ==
    /\ m_file_address' = "null"
    /\ \/ m_file_address = "mapped" /\ mappings' = mappings - 1
       \/ m_file_address # "mapped" /\ mappings' = mappings
       \/ target # "file" /\ mappings' = mappings

\* The iovecs after have bytes, left of all still to come.
Advance(have, left) ==
    \/ /\ have >= iv0.len
       /\ iv0' = [iv0 EXCEPT !.len = 0]
       /\ iv1' = iovec(FileOffset(have), left)
    \/ /\ have < iv0.len
       /\ iv0' = iovec(have, iv0.len - have)
       /\ UNCHANGED iv1

Sent(n) ==
    /\ MaySend(n)
    /\ got' = got \o SubSeq(Gathered, 1, n)
    /\ cuts' = IF bytes_have_send + n < m_write_idx THEN cuts + 1 ELSE cuts
    /\ Advance(bytes_have_send + n, bytes_to_send - n)
    /\ UNCHANGED <<target, requests, m_iv_count>>

\* writev() sends a part: once more round the loop.
WritePart ==
    /\ pc = "write"
    /\ \E n \in 0 .. bytes_to_send - 1 :
        /\ Sent(n)
        /\ bytes_have_send' = bytes_have_send + n
        /\ bytes_to_send' = bytes_to_send - n
    /\ UNCHANGED <<pc, m_linger, m_write_buf, mapping>>

\* writev() sends the rest.
WriteRest ==
    /\ pc = "write"
    /\ Sent(bytes_to_send)
    /\ unmap /\ UNCHANGED abandoned
    /\ \/ m_linger /\ init /\ pc' = "in"
       \/ /\ ~m_linger /\ pc' = "told"
          /\ bytes_have_send' = bytes_have_send + bytes_to_send /\ bytes_to_send' = 0
          /\ UNCHANGED <<m_linger, m_write_buf>>

\* Mutant: the socket is armed for EPOLLIN.
WaitsForClient ==
    /\ pc = "write"
    /\ pc' = "told"
    /\ UNCHANGED <<target, requests, cuts, got, m_linger, buffers, mapping>>

\* EAGAIN: modfd(..., EPOLLOUT).
WouldBlock ==
    /\ pc = "write"
    /\ pc' = "out"
    /\ UNCHANGED <<target, requests, cuts, got, m_linger, buffers, mapping>>

\* Any other error of writev().
WriteFails ==
    /\ pc = "write"
    /\ unmap /\ UNCHANGED abandoned
    /\ pc' = "closed"
    /\ UNCHANGED <<target, requests, cuts, got, m_linger, buffers>>

process_write == SendFile \/ SendErrorPage \/ NoResponse
write == WritePart \/ WriteRest \/ WouldBlock \/ WriteFails

Next == Request \/ HangUp \/ Accept \/ process_write \/ Writable \/ write

Spec == Init /\ [][Next]_vars

\* Worker and main thread run, and a client that stays takes its response.
FairSpec ==
    /\ Spec
    /\ WF_vars(process_write) /\ WF_vars(Writable) /\ WF_vars(write)
    /\ SF_vars(WritePart \/ WriteRest)

(***************************************************************************)
(* Properties                                                              *)
(***************************************************************************)
\* The response a request should get.
Response ==
    CASE target = "none"   -> <<>>
      [] target = "file"   -> Head_200 \o File
      [] target = "hidden" -> Page("403")
      [] OTHER             -> Page("404")

MappingTypes ==
    /\ m_file_address \in {"null", "mapped", "invalid"}
    /\ mappings \in Nat /\ abandoned \in Nat

\* The type invariant.
TypeOK ==
    /\ pc \in {"in", "out", "told", "process", "write", "dropped", "closed"}
    /\ target \in Targets \cup {"none"}
    /\ requests \in 0 .. MaxRequests /\ cuts \in 0 .. HeaderCuts
    /\ m_linger \in BOOLEAN
    /\ m_write_idx \in {0, HeadLen, HeadLen + FormLen}
    /\ iv0.base \in 0 .. m_write_idx \/ m_write_idx = 0
    /\ m_iv_count \in 0 .. 2
    /\ bytes_to_send \in 0 .. HeadLen + FormLen + FileLen
    /\ bytes_have_send \in 0 .. HeadLen + FormLen + FileLen
    /\ MappingTypes

\* However writev() cuts a response, and whatever was sent, or left half sent,
\* by the slot before, the client gets the bytes of its own response in their order,
\* and all of them before the server waits for the next request
\* (http_conn.cpp:644-658: offsets and lengths of both iovecs and two
\* counters are moved on together).
ResponseIsExact ==
    /\ pc \in {"out", "write", "in", "told"} =>
        got = SubSeq(Response, 1, Len(got))
    /\ pc \in {"out", "write"} => Len(got) + bytes_to_send = Len(Response)
    /\ pc \in {"in", "told"} => got = Response

\* write() releases the mapping of every file it sends to the end, or fails to
\* send (unmap(), http_conn.cpp:607, 640, 662), also in a slot where others were
\* left: besides the file being sent no more are mapped than clients have left
\* in the middle of one, when nobody calls unmap() (main.c:91-103).
MappingReleased ==
    mappings <= abandoned + (IF pc \in {"out", "write"} /\ target = "file" THEN 1 ELSE 0)

\* A response that was begun comes to its end, or the connection does.
ResponseEnds ==
    pc = "out" ~> (pc \in {"in", "told"} /\ got = Response) \/ pc = "closed"
=============================================================================
