------------------------------ MODULE HttpRead ------------------------------
(***************************************************************************)
(* How one request is read and parsed: read_once() fills m_read_buf with   *)
(* whatever recv() returns, and process_read() runs the two state machines *)
(* over it, line by line, as often as the socket becomes readable, until   *)
(* it can tell what the request is.  EventLoop shows that one thread at a  *)
(* time does this to a connection.                                         *)
(*                                                                         *)
(* A request is a record, not text.  What the parser looks for is one      *)
(* symbol of the stream: the request line, a header, a CR, a LF, a byte of *)
(* the body.  So the stream can be cut by recv() wherever it matters:      *)
(* between lines, between CR and LF, inside a line end and inside a body.  *)
(* Indices count from 0, as in the code.                                   *)
(***************************************************************************)
EXTENDS Integers, Sequences, FiniteSets

CONSTANTS
    Requests,         \* the requests a client may send: see RequestType
    READ_BUFFER_SIZE,
    BodyInPieces      \* may recv() return a part of a message body?

\* line: method of the request line, "junk" if it is not one.
\* headers: "keep" is Connection: keep-alive, "len" is Content-length with
\* the length of the body, "junk" any other.
\* bare: the line that ends in lone, and not in CR LF; 0 if none does.
RequestType ==
    [line : {"GET", "POST", "junk"}, headers : Seq({"keep", "len", "junk"}),
     body : Nat, bare : Nat, lone : {"CR", "LF"}]

ASSUME HttpReadAssumption ==
    /\ Requests \subseteq RequestType
    /\ \A r \in Requests : r.body > 0 => \E i \in DOMAIN r.headers : r.headers[i] = "len"
    /\ \A r \in Requests : r.bare <= Len(r.headers) + 2
    /\ READ_BUFFER_SIZE \in Nat \ {0}
    /\ BodyInPieces \in BOOLEAN

VARIABLES
    request,       \* what the client sends
    pc,            \* "recv": the socket is armed, or the main thread reads;
                   \* "while", "line": a worker is in process_read()
    ret,           \* what process_read() returned last
    m_read_buf, m_checked_idx, m_start_line, m_check_state, line_status,
    m_method, m_linger, m_content_length, m_string

parser == <<m_checked_idx, m_start_line, m_check_state, line_status>>
found  == <<m_method, m_linger, m_content_length, m_string>>
vars   == <<request, pc, ret, m_read_buf, parser, found>>

(***************************************************************************)
(* The request as a stream of symbols                                      *)
(***************************************************************************)
CRLF == <<"CR", "LF">>

LineEnd(r, k) == IF r.bare = k THEN <<r.lone>> ELSE CRLF

\* Lines of the request: request line, headers, and the empty line.
NumLines(r) == Len(r.headers) + 2

LineText(r, k) ==
    CASE k = 1           -> <<r.line>>
      [] k = NumLines(r) -> <<>>
      [] OTHER           -> <<r.headers[k - 1]>>

Line(r, k) == LineText(r, k) \o LineEnd(r, k)

\* Where line k begins, counted from 0, and behind the last line the body: the
\* last line has no text, and the bare one only one symbol for its end.
Begin(r, k) ==
    3 * (k - 1) - (IF k > NumLines(r) THEN 1 ELSE 0)
                - (IF 0 < r.bare /\ r.bare < k THEN 1 ELSE 0)

HeadLen(r) == Begin(r, NumLines(r) + 1)

LineAt(r, i) == CHOOSE k \in 1 .. NumLines(r) : Begin(r, k) <= i /\ i < Begin(r, k + 1)

Stream(r) ==
    [i \in 1 .. HeadLen(r) + r.body |->
        IF i > HeadLen(r) THEN "x"
        ELSE LET k == LineAt(r, i - 1) IN Line(r, k)[i - Begin(r, k)]]

\* Where a line or the body begins.
Beginnings(r) == {Begin(r, k) : k \in 1 .. NumLines(r) + 1}

(***************************************************************************)
(* The buffer                                                              *)
(***************************************************************************)
m_read_idx == Len(m_read_buf)

byte(i) == m_read_buf[i + 1]

\* The string that begins at i: it ends before the next '\0'.
StringAt(i) ==
    LET nul == {j \in i .. m_read_idx - 1 : byte(j) = "NUL"}
        end == IF nul = {} THEN m_read_idx
               ELSE CHOOSE j \in nul : \A k \in nul : j <= k
    IN  SubSeq(m_read_buf, i + 1, end)

\* atol() into m_content_length, which is a char (http_conn.h:160).
char(n) == ((n + 128) % 256) - 128

Init ==
    /\ request \in Requests
    /\ pc = "recv" /\ ret = "none"
    /\ m_read_buf = <<>>
    /\ m_checked_idx = 0 /\ m_start_line = 0
    /\ m_check_state = "REQUESTLINE" /\ line_status = "OK"
    /\ m_method = "GET" /\ m_linger = FALSE
    /\ m_content_length = 0 /\ m_string = <<>>

(***************************************************************************)
(* read_once(), in the main thread                                         *)
(***************************************************************************)
\* Mutant: the buffer is filled from the beginning.
Overwrites(bytes) == bytes

Received(bytes) == m_read_buf \o bytes

\* What recv() may have read when it has read n symbols in all.
MayHaveRead(n) ==
    BodyInPieces \/ n <= HeadLen(request) \/ n = Len(Stream(request))

\* recv() returns some of what the client sent; then a worker enters
\* process_read().
ReadOnce ==
    /\ pc = "recv"
    /\ \E n \in m_read_idx + 1 .. Len(Stream(request)) :
        /\ n <= READ_BUFFER_SIZE
        /\ MayHaveRead(n) \/ n = READ_BUFFER_SIZE
        /\ m_read_buf' = Received(SubSeq(Stream(request), m_read_idx + 1, n))
    /\ line_status' = "OK"
    /\ pc' = "while"
    /\ UNCHANGED <<request, ret, m_checked_idx, m_start_line, m_check_state, found>>

\* The buffer is full and there is more to read: cb_func() closes.
BufferFull ==
    /\ pc = "recv"
    /\ m_read_idx >= READ_BUFFER_SIZE /\ m_read_idx < Len(Stream(request))
    /\ pc' = "closed"
    /\ UNCHANGED <<request, ret, m_read_buf, parser, found>>

(***************************************************************************)
(* parse_line()                                                            *)
(***************************************************************************)
\* The first CR or LF that is not yet checked; m_read_idx if there is none.
NextBreak ==
    LET breaks == {i \in m_checked_idx .. m_read_idx - 1 : byte(i) \in {"CR", "LF"}}
    IN  IF breaks = {} THEN m_read_idx
        ELSE CHOOSE i \in breaks : \A j \in breaks : i <= j

\* Mutant: the second increment of m_checked_idx is left out.
AfterCR(i) == i + 1

AfterCRLF(i) == i + 2

\* Status, m_checked_idx, and where the line end becomes two '\0'.
parse_line ==
    LET i == NextBreak
        result(status, checked, nul) ==
            [status |-> status, checked |-> checked, nul |-> nul]
    IN  IF i = m_read_idx \/ (byte(i) = "CR" /\ i + 1 = m_read_idx)
          THEN result("OPEN", i, {})
        ELSE IF byte(i) = "CR" /\ byte(i + 1) = "LF"
          THEN result("OK", AfterCRLF(i), {i, i + 1})
        ELSE IF byte(i) = "LF" /\ i > 1 /\ byte(i - 1) = "CR"
          THEN result("OK", i + 1, {i - 1, i})
        ELSE result("BAD", i, {})

(***************************************************************************)
(* process_read(), in a worker                                             *)
(***************************************************************************)
\* The loop condition in the body: the line is not looked for.
InBody == m_check_state = "CONTENT" /\ line_status = "OK"

EnterBody ==
    /\ pc = "while" /\ InBody
    /\ pc' = "line"
    /\ UNCHANGED <<request, ret, m_read_buf, parser, found>>

ParseLine ==
    /\ pc = "while" /\ ~InBody
    /\ LET line == parse_line IN
       /\ line_status' = line.status
       /\ m_checked_idx' = line.checked
       /\ m_read_buf' = [j \in DOMAIN m_read_buf |->
                            IF j - 1 \in line.nul THEN "NUL" ELSE m_read_buf[j]]
       /\ \/ line.status = "OK" /\ pc' = "line" /\ UNCHANGED ret
          \/ line.status # "OK" /\ pc' = "recv" /\ ret' = "NO_REQUEST"
    /\ UNCHANGED <<request, m_start_line, m_check_state, found>>

\* Mutant: the next line is not marked.
KeepsStart == UNCHANGED m_start_line

text == StringAt(m_start_line)

NextStart == m_start_line' = m_checked_idx

answer(code) == pc' = "done" /\ ret' = code
goOn         == pc' = "while" /\ UNCHANGED ret

\* A line may turn out wrong before or behind its method.
RequestLine ==
    /\ pc = "line" /\ m_check_state = "REQUESTLINE"
    /\ NextStart
    /\ \/ /\ text \in {<<"GET">>, <<"POST">>}
          /\ m_method' = text[1]
          /\ m_check_state' = "HEADER"
          /\ goOn
       \/ /\ text \notin {<<"GET">>, <<"POST">>}
          /\ m_method' \in {m_method, "GET", "POST"}
          /\ answer("BAD_REQUEST")
          /\ UNCHANGED m_check_state
    /\ UNCHANGED <<request, m_read_buf, m_checked_idx, line_status,
                   m_linger, m_content_length, m_string>>

\* Mutant: whether there is a body is taken from the method.
BodyIfPost == m_method = "POST"

HasBody == m_content_length # 0

Header ==
    /\ pc = "line" /\ m_check_state = "HEADER" /\ text # <<>>
    /\ NextStart
    /\ m_linger' = (m_linger \/ text = <<"keep">>)
    /\ m_content_length' = IF text[1] = "len" THEN char(request.body) ELSE m_content_length
    /\ goOn
    /\ UNCHANGED <<request, m_read_buf, m_checked_idx, m_check_state, line_status,
                   m_method, m_string>>

EmptyLine ==
    /\ pc = "line" /\ m_check_state = "HEADER" /\ text = <<>>
    /\ NextStart
    /\ \/ HasBody /\ m_check_state' = "CONTENT" /\ goOn
       \/ ~HasBody /\ UNCHANGED m_check_state /\ answer("GET_REQUEST")
    /\ UNCHANGED <<request, m_read_buf, m_checked_idx, line_status, found>>

\* Mutant: off by one.
MoreThanBody == m_read_idx > m_content_length + m_checked_idx

\* parse_content(): is the body there?
WholeBody == m_read_idx >= m_content_length + m_checked_idx

\* The NUL at text[m_content_length] (http_conn.cpp:390) lies behind the body and
\* so behind what was read: nothing looks at it but the reader of m_string.
Content ==
    /\ pc = "line" /\ m_check_state = "CONTENT"
    /\ NextStart
    /\ \/ /\ WholeBody
          /\ m_string' = SubSeq(m_read_buf, m_start_line + 1, m_start_line + m_content_length)
          /\ answer("GET_REQUEST")
          /\ UNCHANGED line_status
       \/ /\ ~WholeBody
          /\ line_status' = "OPEN"
          /\ goOn
          /\ UNCHANGED m_string
    /\ UNCHANGED <<request, m_read_buf, m_checked_idx, m_check_state,
                   m_method, m_linger, m_content_length>>

process_read == EnterBody \/ ParseLine \/ RequestLine \/ Header \/ EmptyLine \/ Content

Next == ReadOnce \/ BufferFull \/ process_read

Spec == Init /\ [][Next]_vars

\* The client sends all of its request, and the threads run.
FairSpec == Spec /\ WF_vars(Next)

(***************************************************************************)
(* Properties                                                              *)
(***************************************************************************)
WellFormed(r) == r.line # "junk" /\ r.bare = 0

Has(r, header) == \E i \in DOMAIN r.headers : r.headers[i] = header

Complete == m_read_idx = Len(Stream(request))

\* The type invariant.
TypeOK ==
    /\ request \in Requests
    /\ pc \in {"recv", "while", "line", "done", "closed"}
    /\ ret \in {"none", "NO_REQUEST", "GET_REQUEST", "BAD_REQUEST"}
    /\ m_read_idx <= READ_BUFFER_SIZE
    /\ m_checked_idx \in 0 .. m_read_idx
    /\ m_start_line \in 0 .. m_checked_idx
    /\ m_check_state \in {"REQUESTLINE", "HEADER", "CONTENT"}
    /\ line_status \in {"OK", "BAD", "OPEN"}
    /\ m_method \in {"GET", "POST"} /\ m_linger \in BOOLEAN
    /\ m_content_length \in -128 .. 127

\* However recv() cuts the stream, the answer of process_read() is the one
\* the request as a whole deserves: method, keep-alive and body are those
\* the client sent, and only a bad request line makes a bad request.
AnswerIsRight ==
    /\ pc = "done" /\ ret = "GET_REQUEST" =>
        /\ Complete /\ WellFormed(request)
        /\ m_method = request.line
        /\ m_linger = Has(request, "keep")
        /\ m_string = [i \in 1 .. request.body |-> "x"]
    /\ pc = "done" /\ ret = "BAD_REQUEST" => request.line = "junk"

\* A line that is looked at begins where a line of the request begins: no
\* cut makes the parser start in the middle of one (m_start_line and
\* m_checked_idx survive from one process_read() to the next).
LinesAreLines == pc = "line" => m_start_line \in Beginnings(request)

\* NO_REQUEST means "the request is incomplete, go on watching for data"
\* (http_conn.h:48): it is not what process_read() says of one it has got.
NoRequestMeansIncomplete ==
    pc = "recv" /\ ret = "NO_REQUEST" /\ WellFormed(request) => ~Complete

\* The client gets an answer in the end: a request that fits into the buffer
\* is recognised, a longer one ends the connection.
RequestIsRecognised ==
    WellFormed(request) ~> \/ pc = "done" /\ ret = "GET_REQUEST"
                           \/ pc = "closed" /\ Len(Stream(request)) > READ_BUFFER_SIZE
=============================================================================
