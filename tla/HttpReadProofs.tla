--------------------------- MODULE HttpReadProofs ---------------------------
(***************************************************************************)
(* The indices of the parser stay in order and in the buffer, for every    *)
(* set of requests, every buffer and every way recv() cuts the stream; and *)
(* what process_read() makes of the stream is right.  ParseInv says how    *)
(* far it is: it looks for the end of line k (AtLine), has found it        *)
(* (OnLine) or waits for the body (InContent), and knows of the lines      *)
(* before just what they say (Accepted).  So the proof follows the request *)
(* line by line, and needs first what its stream looks like around a line. *)
(***************************************************************************)
EXTENDS HttpRead, WellFoundedInduction, SequenceTheorems, TLAPS

\* The inductive invariant: the type invariant, with the buffer a sequence.
ReadInv ==
    /\ TypeOK
    /\ \E S : m_read_buf \in Seq(S)

\* A set of numbers that is not empty has a smallest.
LEMMA Smallest ==
    ASSUME NEW T \in SUBSET Nat, T # {}
    PROVE  \E i \in T : \A j \in T : i <= j
<1> DEFINE R == OpToRel(<, Nat)
<1>1. IsWellFoundedOn(R, Nat)
  BY NatLessThanWellFounded
<1>2. \A x, y \in Nat : x < y => <<x, y>> \in R
  BY DEF OpToRel
<1> HIDE DEF R
<1>3. PICK i \in T : \A j \in T : ~ (<<j, i>> \in R)
  BY <1>1, WFMin
<1>4. \A j \in T : i <= j
  <2>1. \A j \in T : i \in Nat /\ j \in Nat /\ ~ (j < i)
    BY <1>2, <1>3
  <2> QED
    BY <2>1
<1> QED
  BY <1>4

\* parse_line() stays in the buffer: it goes on from where it was, finds its
\* line end before m_read_idx, and never looks at the symbol behind it.
LEMMA ParseInBuffer ==
    ASSUME m_read_idx \in Nat, m_checked_idx \in 0 .. m_read_idx
    PROVE  /\ parse_line.status \in {"OK", "BAD", "OPEN"}
           /\ parse_line.checked \in m_checked_idx .. m_read_idx
<1> DEFINE breaks == {j \in m_checked_idx .. m_read_idx - 1 : byte(j) \in {"CR", "LF"}}
           i == NextBreak
<1>1. i \in m_checked_idx .. m_read_idx
  <2>1. CASE breaks = {}
    <3>1. i = m_read_idx
      BY <2>1 DEF NextBreak
    <3> QED
      BY <3>1
  <2>2. CASE breaks # {}
    <3>1. breaks \in SUBSET Nat /\ breaks \subseteq m_checked_idx .. m_read_idx
      OBVIOUS
    <3>2. i = CHOOSE j \in breaks : \A k \in breaks : j <= k
      BY <2>2 DEF NextBreak
    <3> HIDE DEF breaks, i
    <3>3. \E j \in breaks : \A k \in breaks : j <= k
      BY <2>2, <3>1, Smallest
    <3>4. i \in breaks
      BY <3>2, <3>3
    <3> QED
      BY <3>1, <3>4
  <2> QED
    BY <2>1, <2>2
<1>2. i + 1 <= m_read_idx \/ i = m_read_idx
  BY <1>1
<1> HIDE DEF i
<1>3. \/ parse_line = [status |-> "OPEN", checked |-> i, nul |-> {}]
      \/ /\ i # m_read_idx /\ i + 1 # m_read_idx
         /\ parse_line = [status |-> "OK", checked |-> i + 2, nul |-> {i, i + 1}]
      \/ /\ i # m_read_idx
         /\ parse_line = [status |-> "OK", checked |-> i + 1, nul |-> {i - 1, i}]
      \/ parse_line = [status |-> "BAD", checked |-> i, nul |-> {}]
  BY DEF parse_line, AfterCRLF, i
<1>4. CASE parse_line = [status |-> "OPEN", checked |-> i, nul |-> {}]
  BY <1>1, <1>4
<1>5. CASE /\ i # m_read_idx /\ i + 1 # m_read_idx
           /\ parse_line = [status |-> "OK", checked |-> i + 2, nul |-> {i, i + 1}]
  <2>1. i + 2 \in m_checked_idx .. m_read_idx
    BY <1>1, <1>2, <1>5
  <2> QED
    BY <1>5, <2>1
<1>6. CASE /\ i # m_read_idx
           /\ parse_line = [status |-> "OK", checked |-> i + 1, nul |-> {i - 1, i}]
  <2>1. i + 1 \in m_checked_idx .. m_read_idx
    BY <1>1, <1>2, <1>6
  <2> QED
    BY <1>6, <2>1
<1>7. CASE parse_line = [status |-> "BAD", checked |-> i, nul |-> {}]
  BY <1>1, <1>7
<1> QED
  BY <1>3, <1>4, <1>5, <1>6, <1>7

\* What recv() brings is put behind what is there.
LEMMA ReceivedFits ==
    ASSUME \E S : m_read_buf \in Seq(S), NEW s, NEW n \in Nat, n >= m_read_idx + 1
    PROVE  /\ \E S : Received(SubSeq(s, m_read_idx + 1, n)) \in Seq(S)
           /\ Len(Received(SubSeq(s, m_read_idx + 1, n))) = n
<1>1. PICK S : m_read_buf \in Seq(S)
  OBVIOUS
<1> DEFINE N == {s[i] : i \in m_read_idx + 1 .. n}
           new == SubSeq(s, m_read_idx + 1, n)
           U == S \cup N
<1>2. m_read_idx \in Nat /\ m_read_idx = Len(m_read_buf)
  BY <1>1 DEF m_read_idx
<1>3. new \in Seq(N) /\ Len(new) = n - m_read_idx
  <2>1. \A i \in m_read_idx + 1 .. n : s[i] \in N
    OBVIOUS
  <2>2. m_read_idx + 1 \in Int /\ n \in Int /\ m_read_idx + 1 <= n
    BY <1>2
  <2> HIDE DEF N
  <2>3. /\ SubSeq(s, m_read_idx + 1, n) \in Seq(N)
        /\ Len(SubSeq(s, m_read_idx + 1, n)) = n - (m_read_idx + 1) + 1
    BY <2>1, <2>2, SubSeqProperties
  <2>4. n - (m_read_idx + 1) + 1 = n - m_read_idx
    BY <1>2
  <2> QED
    BY <2>3, <2>4
<1> HIDE DEF N, new
<1>4. m_read_buf \in Seq(U) /\ new \in Seq(U)
  <2>1. S \subseteq U /\ N \subseteq U
    OBVIOUS
  <2> HIDE DEF U
  <2> QED
    BY <1>1, <1>3, <2>1, SeqMonotonic
<1> HIDE DEF U
<1>5. m_read_buf \o new \in Seq(U) /\ Len(m_read_buf \o new) = Len(m_read_buf) + Len(new)
  BY <1>4, ConcatProperties
<1>6. Len(m_read_buf \o new) = n
  BY <1>2, <1>3, <1>5
<1> QED
  BY <1>5, <1>6 DEF Received, new

\* m_content_length is a char.
LEMMA CharType == ASSUME NEW n \in Nat PROVE char(n) \in -128 .. 127
<1>1. (n + 128) % 256 \in 0 .. 255
  OBVIOUS
<1> QED
  BY <1>1 DEF char

\* The invariant holds before the first recv().
LEMMA ReadInit == Init => ReadInv
<1> SUFFICES ASSUME Init PROVE ReadInv
  OBVIOUS
<1>1. m_read_buf \in Seq({}) /\ m_read_idx = 0
  BY EmptySeq DEF Init, m_read_idx
<1>2. READ_BUFFER_SIZE \in Nat
  BY HttpReadAssumption
<1>3. TypeOK
  <2>1. /\ 0 <= READ_BUFFER_SIZE /\ 0 \in 0 .. 0 /\ 0 \in -128 .. 127
        /\ FALSE \in BOOLEAN
    BY <1>2
  <2> QED
    BY <1>1, <2>1 DEF Init, TypeOK
<1> QED
  BY <1>1, <1>3 DEF ReadInv

\* A step of a worker that looks at a line: the buffer stays as it is, and the
\* next line begins where parse_line() stopped.
LEMMA LineStep ==
    ASSUME ReadInv, UNCHANGED <<request, m_read_buf, m_checked_idx>>, NextStart,
           pc' \in {"while", "done"},
           ret' \in {"none", "NO_REQUEST", "GET_REQUEST", "BAD_REQUEST"},
           m_check_state' \in {"REQUESTLINE", "HEADER", "CONTENT"},
           line_status' \in {"OK", "BAD", "OPEN"},
           m_method' \in {"GET", "POST"}, m_linger' \in BOOLEAN,
           m_content_length' \in -128 .. 127
    PROVE  ReadInv'
<1>1. TypeOK /\ m_read_idx' = m_read_idx
  BY DEF ReadInv, m_read_idx
<1>2. m_start_line' \in 0 .. m_checked_idx
  <2>1. m_start_line' = m_checked_idx /\ m_checked_idx \in 0 .. m_read_idx
    BY <1>1 DEF NextStart, TypeOK
  <2> QED
    BY <2>1
<1>3. TypeOK'
  BY <1>1, <1>2 DEF TypeOK
<1>4. (\E S : m_read_buf \in Seq(S))'
  BY DEF ReadInv
<1> QED
  BY <1>3, <1>4 DEF ReadInv

\* It is kept by whatever the two threads do.
LEMMA ReadStep ==
    ASSUME ReadInv, [Next]_vars
    PROVE  ReadInv'
<1>t. TypeOK /\ \E S : m_read_buf \in Seq(S)
  BY DEF ReadInv
<1>l. m_read_idx \in Nat /\ READ_BUFFER_SIZE \in Nat
  BY <1>t, HttpReadAssumption DEF m_read_idx
<1>1. CASE ReadOnce
  <2>1. PICK n \in m_read_idx + 1 .. Len(Stream(request)) :
            /\ n <= READ_BUFFER_SIZE
            /\ m_read_buf' = Received(SubSeq(Stream(request), m_read_idx + 1, n))
    BY <1>1 DEF ReadOnce
  <2>2. n \in Nat /\ n >= m_read_idx + 1
    BY <1>l, <2>1
  <2>3. (\E S : m_read_buf \in Seq(S))' /\ m_read_idx' = n
    BY <1>t, <2>1, <2>2, ReceivedFits DEF m_read_idx
  <2>4. /\ line_status' = "OK" /\ pc' = "while"
        /\ UNCHANGED <<request, ret, m_checked_idx, m_start_line, m_check_state, found>>
    BY <1>1 DEF ReadOnce
  <2>5. m_checked_idx \in 0 .. n
    BY <1>t, <1>l, <2>2 DEF TypeOK
  <2>6. TypeOK'
    BY <1>t, <2>1, <2>3, <2>4, <2>5 DEF TypeOK, found
  <2> QED
    BY <2>3, <2>6 DEF ReadInv
<1>2. CASE BufferFull \/ EnterBody \/ UNCHANGED vars
  <2>1. /\ UNCHANGED <<request, ret, m_read_buf, parser, found>>
        /\ pc' \in {"closed", "line", pc}
    BY <1>2 DEF BufferFull, EnterBody, vars
  <2>2. m_read_idx' = m_read_idx
    BY <2>1 DEF m_read_idx
  <2>3. TypeOK'
    BY <1>t, <2>1, <2>2 DEF TypeOK, parser, found
  <2> QED
    BY <1>t, <2>1, <2>3 DEF ReadInv
<1>3. CASE ParseLine
  <2>1. /\ line_status' = parse_line.status /\ m_checked_idx' = parse_line.checked
        /\ m_read_buf' = [j \in DOMAIN m_read_buf |->
                            IF j - 1 \in parse_line.nul THEN "NUL" ELSE m_read_buf[j]]
        /\ pc' \in {"line", "recv"} /\ ret' \in {ret, "NO_REQUEST"}
        /\ UNCHANGED <<request, m_start_line, m_check_state, found>>
    BY <1>3 DEF ParseLine
  <2>2. m_checked_idx \in 0 .. m_read_idx /\ m_start_line \in 0 .. m_checked_idx
    BY <1>t DEF TypeOK
  <2>3. /\ parse_line.status \in {"OK", "BAD", "OPEN"}
        /\ parse_line.checked \in m_checked_idx .. m_read_idx
    BY <1>l, <2>2, ParseInBuffer
  <2>4. (\E S : m_read_buf \in Seq(S))' /\ m_read_idx' = m_read_idx
    <3>1. PICK S : m_read_buf \in Seq(S)
      BY <1>t
    <3> DEFINE U == S \cup {"NUL"}
    <3>2. m_read_buf' \in [1 .. Len(m_read_buf) -> U]
      BY <2>1, <3>1
    <3>3. m_read_buf' \in Seq(U) /\ Len(m_read_buf') = Len(m_read_buf)
      BY <1>l, <3>2 DEF m_read_idx
    <3> QED
      BY <3>3 DEF m_read_idx
  <2>5. m_checked_idx' \in 0 .. m_read_idx' /\ m_start_line' \in 0 .. m_checked_idx'
    BY <1>l, <2>1, <2>2, <2>3, <2>4
  <2>6. TypeOK'
    BY <1>t, <2>1, <2>3, <2>4, <2>5 DEF TypeOK, found
  <2> QED
    BY <2>4, <2>6 DEF ReadInv
<1>4. CASE RequestLine
  <2>1. m_method' \in {"GET", "POST"}
    <3>1. CASE text = <<"GET">> \/ text = <<"POST">>
      BY <1>4, <3>1 DEF RequestLine
    <3>2. CASE text \notin {<<"GET">>, <<"POST">>}
      BY <1>4, <1>t, <3>2 DEF RequestLine, TypeOK
    <3> QED
      BY <3>1, <3>2
  <2> QED
    BY <1>4, <1>t, <2>1, LineStep DEF RequestLine, goOn, answer, TypeOK
<1>5. CASE Header
  <2>1. m_content_length' \in -128 .. 127
    <3>1. request.body \in Nat
      BY <1>t, HttpReadAssumption DEF TypeOK, RequestType
    <3>2. char(request.body) \in -128 .. 127
      BY <3>1, CharType
    <3> QED
      BY <1>5, <1>t, <3>2 DEF Header, TypeOK
  <2>2. m_linger' \in BOOLEAN
    BY <1>5 DEF Header
  <2> QED
    BY <1>5, <1>t, <2>1, <2>2, LineStep DEF Header, goOn, TypeOK
<1>6. CASE EmptyLine
  BY <1>6, <1>t, LineStep DEF EmptyLine, goOn, answer, found, TypeOK
<1>7. CASE Content
  BY <1>7, <1>t, LineStep DEF Content, goOn, answer, TypeOK
<1> QED
  BY <1>1, <1>2, <1>3, <1>4, <1>5, <1>6, <1>7 DEF Next, process_read

\* However recv() cuts whatever the client sends, the indices of the parser
\* stay in order and inside the buffer: m_start_line, m_checked_idx,
\* m_read_idx, READ_BUFFER_SIZE (http_conn.cpp:178-260, 404-470).
THEOREM TypeCorrect == Spec => []TypeOK
<1>1. ReadInv /\ [Next]_vars => ReadInv'
  BY ReadStep
<1>2. ReadInv => TypeOK
  BY DEF ReadInv
<1> QED
  BY ReadInit, <1>1, <1>2, PTL DEF Spec

(***************************************************************************)
(* The stream of a request                                                 *)
(***************************************************************************)
\* The symbol at place i, counted from 0.
Sym(r, i) == Stream(r)[i + 1]

\* Where the text of line k ends.
TextEnd(r, k) == Begin(r, k) + IF k < NumLines(r) THEN 1 ELSE 0

\* What the text of a line can be.
Words == {"GET", "POST", "junk", "keep", "len"}

\* What HttpReadAssumption says of the fields of a request.
LEMMA RequestFields ==
    ASSUME NEW r \in Requests
    PROVE  /\ r.line \in {"GET", "POST", "junk"} /\ r.headers \in Seq({"keep", "len", "junk"})
           /\ r.body \in Nat /\ r.bare \in Nat /\ r.lone \in {"CR", "LF"}
           /\ Len(r.headers) \in Nat /\ NumLines(r) \in Nat /\ NumLines(r) >= 2
           /\ r.bare <= NumLines(r)
           /\ r.body > 0 => Has(r, "len")
<1>1. r \in RequestType
  BY HttpReadAssumption
<1>2. /\ r.line \in {"GET", "POST", "junk"} /\ r.headers \in Seq({"keep", "len", "junk"})
      /\ r.body \in Nat /\ r.bare \in Nat /\ r.lone \in {"CR", "LF"}
  BY <1>1 DEF RequestType
<1>3. Len(r.headers) \in Nat
  BY <1>2
<1> QED
  BY <1>2, <1>3, HttpReadAssumption DEF NumLines, Has

\* Where line k and its text begin and end.
LEMMA Shape ==
    ASSUME NEW r \in Requests, NEW k \in 1 .. NumLines(r)
    PROVE  /\ k \in Int /\ Begin(r, k) \in Nat /\ Begin(r, k + 1) \in Nat /\ HeadLen(r) \in Nat
           /\ TextEnd(r, k) \in Nat /\ TextEnd(r, k) \in {Begin(r, k), Begin(r, k) + 1}
           /\ k < NumLines(r) => TextEnd(r, k) = Begin(r, k) + 1
           /\ k = NumLines(r) => TextEnd(r, k) = Begin(r, k) /\ Begin(r, k + 1) = HeadLen(r)
           /\ r.bare # k => Begin(r, k + 1) = TextEnd(r, k) + 2
           /\ r.bare = k => Begin(r, k + 1) = TextEnd(r, k) + 1
           /\ Begin(r, k + 1) <= HeadLen(r)
           /\ k < NumLines(r) => Begin(r, k + 1) < HeadLen(r)
<1>1. NumLines(r) \in Nat /\ r.bare \in Nat
  BY RequestFields
<1> QED
  BY <1>1 DEF Begin, HeadLen, TextEnd

\* The lines lie one behind the other.
LEMMA Monotone ==
    ASSUME NEW r \in Requests, NEW j \in 1 .. NumLines(r), NEW k \in 1 .. NumLines(r), j < k
    PROVE  Begin(r, j + 1) <= Begin(r, k)
<1>1. NumLines(r) \in Nat /\ r.bare \in Nat
  BY RequestFields
<1> QED
  BY <1>1 DEF Begin

\* A place between two line ends is in that line.
LEMMA LineThere ==
    ASSUME NEW r \in Requests, NEW k \in 1 .. NumLines(r), NEW i \in Int,
           Begin(r, k) <= i, i < Begin(r, k + 1)
    PROVE  LineAt(r, i) = k
<1>1. LineAt(r, i) = CHOOSE j \in 1 .. NumLines(r) : Begin(r, j) <= i /\ i < Begin(r, j + 1)
  BY DEF LineAt
<1>2. /\ LineAt(r, i) \in 1 .. NumLines(r)
      /\ Begin(r, LineAt(r, i)) <= i /\ i < Begin(r, LineAt(r, i) + 1)
  BY <1>1
<1>3. ASSUME NEW j \in 1 .. NumLines(r), Begin(r, j) <= i, i < Begin(r, j + 1)
      PROVE  j = k
  <2>1. /\ Begin(r, j) \in Int /\ Begin(r, k) \in Int
        /\ Begin(r, j + 1) \in Int /\ Begin(r, k + 1) \in Int
        /\ j \in Int /\ k \in Int
    BY Shape
  <2>2. ~(j < k)
    BY <1>3, <2>1, Monotone
  <2>3. ~(k < j)
    BY <1>3, <2>1, Monotone
  <2> QED
    BY <2>1, <2>2, <2>3
<1> QED
  BY <1>2, <1>3

\* The symbols of a sequence with one put in front of it.
LEMMA Behind ==
    ASSUME NEW S, NEW a \in S, NEW t \in Seq(S)
    PROVE  /\ (<<a>> \o t)[1] = a
           /\ \A i \in 1 .. Len(t) : (<<a>> \o t)[i + 1] = t[i]
<1>1. <<a>> \in Seq(S) /\ Len(<<a>>) = 1 /\ <<a>>[1] = a /\ Len(t) \in Nat
  OBVIOUS
<1>2. \A i \in 1 .. Len(<<a>>) + Len(t) :
        (<<a>> \o t)[i] = IF i <= Len(<<a>>) THEN <<a>>[i] ELSE t[i - Len(<<a>>)]
  BY <1>1, ConcatProperties
<1>3. \A i \in 1 .. 1 + Len(t) : (<<a>> \o t)[i] = IF i <= 1 THEN a ELSE t[i - 1]
  BY <1>1, <1>2
<1>4. (<<a>> \o t)[1] = a
  BY <1>1, <1>3
<1>5. ASSUME NEW i \in 1 .. Len(t) PROVE (<<a>> \o t)[i + 1] = t[i]
  <2>1. i + 1 \in 1 .. 1 + Len(t) /\ ~(i + 1 <= 1) /\ (i + 1) - 1 = i
    BY <1>1
  <2> QED
    BY <1>3, <2>1
<1> QED
  BY <1>4, <1>5

\* The symbols of line k.
LEMMA LineSymbols ==
    ASSUME NEW r \in Requests, NEW k \in 1 .. NumLines(r)
    PROVE  /\ k < NumLines(r) => /\ LineText(r, k) = <<Line(r, k)[1]>> /\ Line(r, k)[1] \in Words
                                 /\ r.bare # k => Line(r, k)[2] = "CR" /\ Line(r, k)[3] = "LF"
                                 /\ r.bare = k => Line(r, k)[2] = r.lone
           /\ k = NumLines(r) => /\ LineText(r, k) = <<>>
                                 /\ r.bare # k => Line(r, k)[1] = "CR" /\ Line(r, k)[2] = "LF"
                                 /\ r.bare = k => Line(r, k)[1] = r.lone
<1>1. NumLines(r) \in Nat /\ NumLines(r) = Len(r.headers) + 2 /\ r.headers \in Seq({"keep", "len", "junk"})
      /\ Len(r.headers) \in Nat
  BY RequestFields DEF NumLines
<1>2. CASE k < NumLines(r)
  <2>1. PICK a \in Words : LineText(r, k) = <<a>>
    <3>1. CASE k = 1
      BY <1>2, <3>1, RequestFields DEF LineText, Words
    <3>2. CASE k # 1
      <4>1. k - 1 \in 1 .. Len(r.headers)
        BY <1>1, <1>2, <3>2
      <4>2. r.headers[k - 1] \in {"keep", "len", "junk"}
        BY <1>1, <4>1, ElementOfSeq
      <4>3. LineText(r, k) = <<r.headers[k - 1]>>
        BY <1>1, <1>2, <3>2 DEF LineText
      <4> QED
        BY <4>2, <4>3 DEF Words
    <3> QED
      BY <3>1, <3>2
  <2>2. CASE r.bare # k
    <3>1. Line(r, k) = <<a>> \o <<"CR", "LF">>
      BY <2>1, <2>2 DEF Line, LineEnd, CRLF
    <3> DEFINE S == Words \cup {"CR", "LF"}
    <3>2. a \in S /\ <<"CR", "LF">> \in Seq(S) /\ Len(<<"CR", "LF">>) = 2
      BY DEF Words
    <3> HIDE DEF S
    <3>3. /\ (<<a>> \o <<"CR", "LF">>)[1] = a
          /\ \A i \in 1 .. 2 : (<<a>> \o <<"CR", "LF">>)[i + 1] = <<"CR", "LF">>[i]
      BY <3>2, Behind
    <3>4. Line(r, k)[1] = a /\ Line(r, k)[2] = "CR" /\ Line(r, k)[3] = "LF"
      BY <3>1, <3>3
    <3> QED
      BY <1>2, <2>1, <2>2, <3>4
  <2>3. CASE r.bare = k
    <3>1. Line(r, k) = <<a>> \o <<r.lone>>
      BY <2>1, <2>3 DEF Line, LineEnd
    <3> DEFINE S == Words \cup {r.lone}
    <3>2. a \in S /\ <<r.lone>> \in Seq(S) /\ Len(<<r.lone>>) = 1
      OBVIOUS
    <3> HIDE DEF S
    <3>3. /\ (<<a>> \o <<r.lone>>)[1] = a
          /\ \A i \in 1 .. 1 : (<<a>> \o <<r.lone>>)[i + 1] = <<r.lone>>[i]
      BY <3>2, Behind
    <3>4. Line(r, k)[1] = a /\ Line(r, k)[2] = r.lone
      BY <3>1, <3>3
    <3> QED
      BY <1>2, <2>1, <2>3, <3>4
  <2> QED
    BY <2>2, <2>3
<1>3. CASE k = NumLines(r)
  <2>1. LineText(r, k) = <<>>
    BY <1>1, <1>3 DEF LineText
  <2>2. \A s : Line(r, k) = <<>> \o LineEnd(r, k)
    BY <2>1 DEF Line
  <2>3. CASE r.bare # k
    <3>1. Line(r, k) = <<>> \o <<"CR", "LF">>
      BY <2>2, <2>3 DEF LineEnd, CRLF
    <3>2. Line(r, k) = <<"CR", "LF">>
      BY <3>1
    <3> QED
      BY <1>3, <2>1, <2>3, <3>2
  <2>4. CASE r.bare = k
    <3>1. Line(r, k) = <<>> \o <<r.lone>>
      BY <2>2, <2>4 DEF LineEnd
    <3>2. Line(r, k) = <<r.lone>>
      BY <3>1
    <3> QED
      BY <1>3, <2>1, <2>4, <3>2
  <2> QED
    BY <2>3, <2>4
<1> QED
  BY <1>1, <1>2, <1>3

\* Head and body make the stream, and the body is all x.
LEMMA StreamLength ==
    ASSUME NEW r \in Requests
    PROVE  /\ Len(Stream(r)) = HeadLen(r) + r.body /\ HeadLen(r) \in Nat /\ r.body \in Nat
           /\ DOMAIN Stream(r) = 1 .. Len(Stream(r))
           /\ \A i \in Int : HeadLen(r) <= i /\ i < Len(Stream(r)) => Sym(r, i) = "x"
<1>1. HeadLen(r) \in Nat /\ r.body \in Nat
  <2>1. 1 \in 1 .. NumLines(r)
    BY RequestFields
  <2> QED
    BY <2>1, Shape, RequestFields
<1>2. DOMAIN Stream(r) = 1 .. HeadLen(r) + r.body
  BY DEF Stream
<1>3. Len(Stream(r)) = HeadLen(r) + r.body
  <2>1. HeadLen(r) + r.body \in Nat
    BY <1>1
  <2>2. PICK n \in Nat : n = HeadLen(r) + r.body
    BY <2>1
  <2>3. PICK T : Stream(r) \in [1 .. n -> T]
    <3>1. Stream(r) \in [1 .. n -> {Stream(r)[i] : i \in 1 .. n}]
      BY <2>2 DEF Stream
    <3> QED
      BY <3>1
  <2>4. Len(Stream(r)) = n
    BY <2>3, LenProperties, SeqDef
  <2> QED
    BY <2>2, <2>4
<1>4. ASSUME NEW i \in Int, HeadLen(r) <= i, i < Len(Stream(r)) PROVE Sym(r, i) = "x"
  <2>1. i + 1 \in 1 .. HeadLen(r) + r.body /\ i + 1 > HeadLen(r)
    BY <1>1, <1>3, <1>4
  <2> QED
    BY <2>1 DEF Sym, Stream
<1> QED
  BY <1>1, <1>2, <1>3, <1>4

\* Line k in the stream.
LEMMA StreamLine ==
    ASSUME NEW r \in Requests, NEW k \in 1 .. NumLines(r), NEW i \in Int,
           Begin(r, k) <= i, i < Begin(r, k + 1)
    PROVE  Sym(r, i) = Line(r, k)[(i + 1) - Begin(r, k)]
<1>1. LineAt(r, i) = k
  BY LineThere
<1>2. i + 1 \in 1 .. HeadLen(r) + r.body /\ ~(i + 1 > HeadLen(r)) /\ (i + 1) - 1 = i
  BY Shape, StreamLength
<1>3. Stream(r)[i + 1] = Line(r, LineAt(r, (i + 1) - 1))[(i + 1) - Begin(r, LineAt(r, (i + 1) - 1))]
  BY <1>2 DEF Stream
<1> QED
  BY <1>1, <1>2, <1>3 DEF Sym

\* What stands in and behind line k.
LEMMA StreamShape ==
    ASSUME NEW r \in Requests, NEW k \in 1 .. NumLines(r)
    PROVE  /\ \A i \in Begin(r, k) .. TextEnd(r, k) - 1 :
                Sym(r, i) \in Words /\ LineText(r, k) = <<Sym(r, i)>>
           /\ r.bare # k => Sym(r, TextEnd(r, k)) = "CR" /\ Sym(r, TextEnd(r, k) + 1) = "LF"
           /\ r.bare = k => Sym(r, TextEnd(r, k)) = r.lone
<1> DEFINE b == Begin(r, k)
           e == TextEnd(r, k)
           n == Begin(r, k + 1)
<1>1. /\ b \in Nat /\ n \in Nat /\ e \in Nat /\ k \in Int
      /\ e \in {b, b + 1}
      /\ k < NumLines(r) => e = b + 1
      /\ k = NumLines(r) => e = b
      /\ r.bare # k => n = e + 2
      /\ r.bare = k => n = e + 1
  BY Shape
<1>2. \A i \in Int : b <= i /\ i < n => Sym(r, i) = Line(r, k)[(i + 1) - b]
  BY StreamLine
<1>3. NumLines(r) \in Int /\ (k < NumLines(r) \/ k = NumLines(r))
  BY RequestFields
<1> HIDE DEF b, e, n
<1>4. CASE k < NumLines(r)
  <2>1. Sym(r, b) = Line(r, k)[1]
    <3>1. b <= b /\ b < n /\ (b + 1) - b = 1
      BY <1>1, <1>4
    <3> QED
      BY <1>1, <1>2, <3>1
  <2>2. Sym(r, b) \in Words /\ LineText(r, k) = <<Sym(r, b)>>
    BY <1>4, <2>1, LineSymbols
  <2>3. Sym(r, e) = Line(r, k)[2]
    <3>1. b <= e /\ e < n /\ (e + 1) - b = 2
      BY <1>1, <1>4
    <3> QED
      BY <1>1, <1>2, <3>1
  <2>4. r.bare # k => Sym(r, e + 1) = Line(r, k)[3]
    <3>1. r.bare # k => b <= e + 1 /\ e + 1 < n /\ ((e + 1) + 1) - b = 3 /\ e + 1 \in Int
      BY <1>1, <1>4
    <3> QED
      BY <1>2, <3>1
  <2>5. \A i \in b .. e - 1 : i = b
    BY <1>1, <1>4
  <2>6. /\ r.bare # k => Sym(r, e) = "CR" /\ Sym(r, e + 1) = "LF"
        /\ r.bare = k => Sym(r, e) = r.lone
    BY <1>4, <2>3, <2>4, LineSymbols
  <2> QED
    BY <2>2, <2>5, <2>6 DEF b, e
<1>5. CASE k = NumLines(r)
  <2>3. Sym(r, e) = Line(r, k)[1]
    <3>1. b <= e /\ e < n /\ (e + 1) - b = 1
      BY <1>1, <1>5
    <3> QED
      BY <1>1, <1>2, <3>1
  <2>4. r.bare # k => Sym(r, e + 1) = Line(r, k)[2]
    <3>1. r.bare # k => b <= e + 1 /\ e + 1 < n /\ ((e + 1) + 1) - b = 2 /\ e + 1 \in Int
      BY <1>1, <1>5
    <3> QED
      BY <1>2, <3>1
  <2>5. b .. e - 1 = {}
    BY <1>1, <1>5
  <2>6. /\ r.bare # k => Sym(r, e) = "CR" /\ Sym(r, e + 1) = "LF"
        /\ r.bare = k => Sym(r, e) = r.lone
    BY <1>5, <2>3, <2>4, LineSymbols
  <2> QED
    BY <2>5, <2>6 DEF b, e
<1> QED
  BY <1>3, <1>4, <1>5

\* Behind a lone CR there is no LF.
LEMMA LoneCR ==
    ASSUME NEW r \in Requests, NEW k \in 1 .. NumLines(r), r.bare = k,
           TextEnd(r, k) + 1 < Len(Stream(r))
    PROVE  Sym(r, TextEnd(r, k) + 1) # "LF"
<1> DEFINE n == Begin(r, k + 1)
<1>1. n \in Nat /\ n = TextEnd(r, k) + 1 /\ k \in Int /\ n <= HeadLen(r)
  BY Shape
<1>2. NumLines(r) \in Int /\ (k < NumLines(r) \/ k = NumLines(r))
  BY RequestFields
<1>3. CASE k = NumLines(r)
  <2>1. n = HeadLen(r)
    BY <1>3, Shape
  <2>2. Sym(r, n) = "x"
    BY <1>1, <2>1, StreamLength
  <2> QED
    BY <1>1, <2>2
<1>4. CASE k < NumLines(r)
  <2>1. k + 1 \in 1 .. NumLines(r) /\ r.bare # k + 1
    BY <1>1, <1>2, <1>4
  <2> DEFINE m == k + 1
             e == TextEnd(r, m)
  <2> HIDE DEF m
  <2>2. m \in 1 .. NumLines(r) /\ r.bare # m
    BY <2>1 DEF m
  <2>3. /\ \A i \in Begin(r, m) .. e - 1 : Sym(r, i) \in Words
        /\ Sym(r, e) = "CR"
    BY <2>2, StreamShape
  <2>4. n = Begin(r, m) /\ e \in {n, n + 1}
    BY <2>2, Shape DEF m
  <2> HIDE DEF e, n
  <2>5. Sym(r, n) \in Words \/ Sym(r, n) = "CR"
    <3>1. CASE e = n
      BY <2>3, <3>1
    <3>2. CASE e = n + 1
      <4>1. n \in Begin(r, m) .. e - 1
        BY <1>1, <2>4, <3>2
      <4> QED
        BY <2>3, <4>1
    <3> QED
      BY <2>4, <3>1, <3>2
  <2> QED
    BY <1>1, <2>5 DEF Words
<1> QED
  BY <1>2, <1>3, <1>4

(***************************************************************************)
(* The parser and the stream                                               *)
(***************************************************************************)
\* What is in the buffer from a place on is what the client sent.
Agrees(from) == \A i \in from .. m_read_idx - 1 : byte(i) = Sym(request, i)

\* What the parser knows of the lines before line k.
Accepted(k) ==
    /\ ~(0 < request.bare /\ request.bare < k) /\ m_string = <<>>
    /\ k > 1 => request.line # "junk" /\ m_method = request.line
    /\ m_linger = \E i \in 1 .. k - 2 : request.headers[i] = "keep"
    /\ m_content_length =
            IF \E i \in 1 .. k - 2 : request.headers[i] = "len" THEN request.body ELSE 0

\* It looks for the end of line k.
AtLine(k) ==
    /\ Accepted(k)
    /\ m_check_state = IF k = 1 THEN "REQUESTLINE" ELSE "HEADER"
    /\ m_start_line = Begin(request, k)
    /\ m_checked_idx \in Begin(request, k) .. TextEnd(request, k)
    /\ Agrees(Begin(request, k))
    /\ k > 1 => byte(Begin(request, k) - 1) = "NUL"
    /\ pc = "recv" /\ request.bare # k => m_read_idx <= TextEnd(request, k) + 1

\* It has found it.
OnLine(k) ==
    /\ Accepted(k)
    /\ m_check_state = IF k = 1 THEN "REQUESTLINE" ELSE "HEADER"
    /\ m_start_line = Begin(request, k)
    /\ request.bare # k /\ line_status = "OK"
    /\ m_checked_idx = Begin(request, k + 1)
    /\ \A i \in Begin(request, k) .. TextEnd(request, k) - 1 : byte(i) = Sym(request, i)
    /\ byte(TextEnd(request, k)) = "NUL" /\ byte(TextEnd(request, k) + 1) = "NUL"
    /\ Agrees(Begin(request, k + 1))

\* It waits for the body.
InContent ==
    /\ m_check_state = "CONTENT"
    /\ request.bare = 0 /\ Accepted(NumLines(request)) /\ request.body > 0
    /\ m_content_length = request.body
    /\ HeadLen(request) <= m_start_line
    /\ Agrees(HeadLen(request))
    /\ ~BodyInPieces =>
        /\ m_start_line = HeadLen(request)
        /\ m_checked_idx = HeadLen(request) \/ (pc = "recv" /\ m_read_idx = READ_BUFFER_SIZE)
        /\ pc = "recv" => m_read_idx < Len(Stream(request))
        /\ pc = "while" /\ line_status # "OK" => m_read_idx < Len(Stream(request))

\* The inductive invariant of the parser.
ParseInv ==
    /\ ReadInv
    /\ m_read_idx <= Len(Stream(request))
    /\ MayHaveRead(m_read_idx) \/ m_read_idx = READ_BUFFER_SIZE
    /\ pc \in {"recv", "while"} =>
            InContent \/ \E k \in 1 .. NumLines(request) : AtLine(k)
    /\ pc = "line" => InContent \/ \E k \in 1 .. NumLines(request) : OnLine(k)
    /\ AnswerIsRight

\* The indices that ReadInv bounds, as numbers.
LEMMA Indices ==
    ASSUME ReadInv
    PROVE  /\ request \in Requests
           /\ m_read_idx \in Nat /\ READ_BUFFER_SIZE \in Nat /\ m_read_idx <= READ_BUFFER_SIZE
           /\ m_checked_idx \in Nat /\ m_start_line \in Nat
           /\ m_start_line <= m_checked_idx /\ m_checked_idx <= m_read_idx
           /\ DOMAIN m_read_buf = 1 .. m_read_idx /\ m_read_idx = Len(m_read_buf)
<1>1. m_read_idx \in Nat /\ DOMAIN m_read_buf = 1 .. m_read_idx /\ m_read_idx = Len(m_read_buf)
  BY DEF ReadInv, m_read_idx
<1> QED
  BY <1>1, HttpReadAssumption DEF ReadInv, TypeOK

\* Where parse_line() finds the next CR or LF.
LEMMA FirstBreak ==
    ASSUME ReadInv, NEW i \in m_checked_idx .. m_read_idx,
           \A j \in m_checked_idx .. i - 1 : byte(j) \notin {"CR", "LF"},
           i = m_read_idx \/ byte(i) \in {"CR", "LF"}
    PROVE  NextBreak = i
<1> DEFINE breaks == {j \in m_checked_idx .. m_read_idx - 1 : byte(j) \in {"CR", "LF"}}
<1>1. m_checked_idx \in Nat /\ m_read_idx \in Nat /\ m_checked_idx <= m_read_idx
  BY Indices
<1>2. \A j \in breaks : j \in Int /\ i <= j
  BY <1>1
<1>3. NextBreak = IF breaks = {} THEN m_read_idx
                  ELSE CHOOSE x \in breaks : \A y \in breaks : x <= y
  BY DEF NextBreak
<1>4. CASE i = m_read_idx
  <2>1. breaks = {}
    BY <1>1, <1>4
  <2> QED
    BY <1>3, <1>4, <2>1
<1>5. CASE i # m_read_idx
  <2>1. i \in breaks
    BY <1>1, <1>5
  <2> HIDE DEF breaks
  <2>2. \A x \in breaks : (\A y \in breaks : x <= y) => x = i
    BY <1>1, <1>2, <2>1
  <2>3. \A y \in breaks : i <= y
    BY <1>2
  <2> QED
    BY <1>3, <2>1, <2>2, <2>3
<1> QED
  BY <1>4, <1>5

\* What get_line() gives is the text of the line.
LEMMA TextOfLine ==
    ASSUME ReadInv, NEW k \in 1 .. NumLines(request), OnLine(k)
    PROVE  text = LineText(request, k)
<1> DEFINE b == Begin(request, k)
           e == TextEnd(request, k)
<1>1. /\ request \in Requests /\ m_read_idx \in Nat /\ DOMAIN m_read_buf = 1 .. m_read_idx
      /\ m_checked_idx <= m_read_idx
  BY Indices
<1>2. /\ b \in Nat /\ e \in Nat /\ e \in {b, b + 1} /\ Begin(request, k + 1) = e + 2
      /\ k \in Int
      /\ k < NumLines(request) => e = b + 1
      /\ k = NumLines(request) => e = b
  BY <1>1, Shape DEF OnLine
<1>3. /\ m_start_line = b /\ m_checked_idx = e + 2
      /\ \A i \in b .. e - 1 : byte(i) = Sym(request, i)
      /\ byte(e) = "NUL"
  BY <1>2 DEF OnLine
<1>4. \A i \in b .. e - 1 : Sym(request, i) \in Words /\ LineText(request, k) = <<Sym(request, i)>>
  BY <1>1, StreamShape
<1>5. k < NumLines(request) \/ (k = NumLines(request) /\ LineText(request, k) = <<>>)
  BY <1>1, <1>2, RequestFields, LineSymbols
<1> HIDE DEF b, e
<1> DEFINE nul == {j \in b .. m_read_idx - 1 : byte(j) = "NUL"}
<1>6. text = SubSeq(m_read_buf, b + 1, IF nul = {} THEN m_read_idx
                                       ELSE CHOOSE j \in nul : \A i \in nul : j <= i)
  BY <1>3 DEF text, StringAt
<1>7. e \in nul
  BY <1>1, <1>2, <1>3
<1>8. \A j \in nul : j \in Int /\ e <= j
  <2>1. "NUL" \notin Words
    BY DEF Words
  <2> SUFFICES ASSUME NEW j \in nul PROVE j \in Int /\ e <= j
    OBVIOUS
  <2>2. j \in Int /\ b <= j /\ byte(j) = "NUL"
    BY <1>2
  <2>3. j \notin b .. e - 1
    BY <1>3, <1>4, <2>1, <2>2
  <2> QED
    BY <1>2, <2>2, <2>3
<1> HIDE DEF nul
<1>9. text = SubSeq(m_read_buf, b + 1, e)
  <2>1. \A x \in nul : (\A y \in nul : x <= y) => x = e
    BY <1>2, <1>7, <1>8
  <2>2. \A y \in nul : e <= y
    BY <1>8
  <2> QED
    BY <1>6, <1>7, <2>1, <2>2
<1>10. CASE e = b
  <2>1. text = <<>>
    <3>1. b + 1 \in Int /\ e \in Int /\ e < b + 1
      BY <1>2, <1>10
    <3> QED
      BY <1>9, <3>1, SubSeqEmpty
  <2> QED
    BY <1>2, <1>5, <1>10, <2>1
<1>11. CASE e = b + 1
  <2> DEFINE S == {byte(b)}
             t == SubSeq(m_read_buf, b + 1, e)
  <2>1. b + 1 \in Int /\ e \in Int /\ b + 1 <= e /\ \A i \in b + 1 .. e : m_read_buf[i] \in S
    BY <1>2, <1>11 DEF byte
  <2> HIDE DEF S
  <2>2. /\ t \in Seq(S) /\ Len(t) = e - (b + 1) + 1
        /\ \A i \in 1 .. e - (b + 1) + 1 : t[i] = m_read_buf[(b + 1) + i - 1]
    BY <2>1, SubSeqProperties
  <2>3. e - (b + 1) + 1 = 1 /\ (b + 1) + 1 - 1 = b + 1
    BY <1>2, <1>11
  <2>4. Len(t) = 1 /\ t[1] = byte(b)
    BY <2>2, <2>3 DEF byte
  <2> HIDE DEF t
  <2>5. t = <<byte(b)>>
    <3>1. PICK a : a = byte(b)
      OBVIOUS
    <3>2. <<a>> \in Seq(S) /\ Len(<<a>>) = 1 /\ <<a>>[1] = a
      <4>1. a \in S
        BY <3>1 DEF S
      <4> QED
        BY <4>1
    <3>3. Len(t) = Len(<<a>>) /\ \A i \in 1 .. Len(t) : t[i] = <<a>>[i]
      BY <2>4, <3>1, <3>2
    <3>4. t = <<a>>
      BY <2>2, <3>2, <3>3, SeqEqual
    <3> QED
      BY <3>1, <3>4
  <2>6. b \in b .. e - 1
    BY <1>2, <1>11
  <2>7. LineText(request, k) = <<byte(b)>>
    BY <1>3, <1>4, <2>6
  <2> QED
    BY <1>9, <2>5, <2>7 DEF t
<1> QED
  BY <1>2, <1>10, <1>11

\* recv() puts the next symbols of the stream behind those that are there.
LEMMA ReceivedBytes ==
    ASSUME ReadInv, NEW n \in m_read_idx + 1 .. Len(Stream(request)),
           m_read_buf' = Received(SubSeq(Stream(request), m_read_idx + 1, n))
    PROVE  /\ m_read_idx' = n
           /\ \A i \in 0 .. n - 1 :
                byte(i)' = IF i < m_read_idx THEN byte(i) ELSE Sym(request, i)
<1> DEFINE s == Stream(request)
           new == SubSeq(s, m_read_idx + 1, n)
           N == {s[i] : i \in m_read_idx + 1 .. n}
<1>1. m_read_idx \in Nat /\ m_read_idx = Len(m_read_buf)
  BY Indices
<1>2. n \in Nat /\ n >= m_read_idx + 1
  BY <1>1
<1>3. PICK S : m_read_buf \in Seq(S)
  BY DEF ReadInv
<1> DEFINE U == S \cup N
<1>4. /\ new \in Seq(N) /\ Len(new) = n - m_read_idx
      /\ \A i \in 1 .. n - m_read_idx : new[i] = s[m_read_idx + i]
  <2>1. \A i \in m_read_idx + 1 .. n : s[i] \in N
    OBVIOUS
  <2>2. m_read_idx + 1 \in Int /\ n \in Int /\ m_read_idx + 1 <= n
    BY <1>1, <1>2
  <2> HIDE DEF N, s
  <2>3. /\ SubSeq(s, m_read_idx + 1, n) \in Seq(N)
        /\ Len(SubSeq(s, m_read_idx + 1, n)) = n - (m_read_idx + 1) + 1
        /\ \A i \in 1 .. n - (m_read_idx + 1) + 1 :
              SubSeq(s, m_read_idx + 1, n)[i] = s[(m_read_idx + 1) + i - 1]
    BY <2>1, <2>2, SubSeqProperties
  <2>4. /\ n - (m_read_idx + 1) + 1 = n - m_read_idx
        /\ \A i \in Int : (m_read_idx + 1) + i - 1 = m_read_idx + i
    BY <1>1, <1>2
  <2>5. \A i \in 1 .. n - m_read_idx : i \in Int /\ new[i] = s[(m_read_idx + 1) + i - 1]
    BY <1>1, <1>2, <2>3, <2>4
  <2>6. \A i \in 1 .. n - m_read_idx : new[i] = s[m_read_idx + i]
    BY <2>4, <2>5, Zenon
  <2> QED
    BY <2>3, <2>4, <2>6
<1> HIDE DEF N, new
<1>5. m_read_buf \in Seq(U) /\ new \in Seq(U)
  <2>1. S \subseteq U /\ N \subseteq U
    OBVIOUS
  <2> HIDE DEF U
  <2> QED
    BY <1>3, <1>4, <2>1, SeqMonotonic
<1> HIDE DEF U
<1>6. /\ Len(m_read_buf \o new) = Len(m_read_buf) + Len(new)
      /\ \A i \in 1 .. Len(m_read_buf) + Len(new) :
            (m_read_buf \o new)[i] = IF i <= Len(m_read_buf) THEN m_read_buf[i] ELSE new[i - Len(m_read_buf)]
  BY <1>5, ConcatProperties
<1>7. m_read_buf' = m_read_buf \o new
  BY DEF Received, new
<1>8. Len(m_read_buf) + Len(new) = n
  BY <1>1, <1>2, <1>4
<1>9. m_read_idx' = n
  BY <1>6, <1>7, <1>8 DEF m_read_idx
<1>10. ASSUME NEW i \in 0 .. n - 1
       PROVE  byte(i)' = IF i < m_read_idx THEN byte(i) ELSE Sym(request, i)
  <2>1. i + 1 \in 1 .. n /\ i \in Int
    BY <1>2
  <2>2. m_read_buf'[i + 1] = IF i + 1 <= m_read_idx THEN m_read_buf[i + 1] ELSE new[(i + 1) - m_read_idx]
    BY <1>1, <1>6, <1>7, <1>8, <2>1
  <2>3. CASE i < m_read_idx
    <3>1. i + 1 <= m_read_idx
      BY <1>1, <2>1, <2>3
    <3> QED
      BY <2>2, <2>3, <3>1 DEF byte
  <2>4. CASE ~(i < m_read_idx)
    <3>1. /\ ~(i + 1 <= m_read_idx) /\ (i + 1) - m_read_idx \in 1 .. n - m_read_idx
          /\ m_read_idx + ((i + 1) - m_read_idx) = i + 1
      BY <1>1, <1>2, <2>1, <2>4
    <3>2. new[(i + 1) - m_read_idx] = s[i + 1]
      BY <1>4, <3>1
    <3> QED
      BY <2>2, <2>4, <3>1, <3>2 DEF byte, Sym
  <2> QED
    BY <2>3, <2>4
<1> QED
  BY <1>9, <1>10

\* recv() brings more of the line that is looked for, or of the body.
LEMMA ReadOnceKeeps ==
    ASSUME ParseInv, ReadOnce, ReadInv'
    PROVE  ParseInv'
<1>1. ReadInv /\ pc = "recv"
  BY DEF ParseInv, ReadOnce
<1>2. PICK n \in m_read_idx + 1 .. Len(Stream(request)) :
        /\ n <= READ_BUFFER_SIZE
        /\ MayHaveRead(n) \/ n = READ_BUFFER_SIZE
        /\ m_read_buf' = Received(SubSeq(Stream(request), m_read_idx + 1, n))
  BY DEF ReadOnce
<1>3. /\ line_status' = "OK" /\ pc' = "while"
      /\ UNCHANGED <<request, ret, m_checked_idx, m_start_line, m_check_state,
                     m_method, m_linger, m_content_length, m_string>>
  BY DEF ReadOnce, found
<1>4. /\ m_read_idx' = n
      /\ \A i \in 0 .. n - 1 : byte(i)' = IF i < m_read_idx THEN byte(i) ELSE Sym(request, i)
  BY <1>1, <1>2, ReceivedBytes
<1>5. /\ request \in Requests /\ m_read_idx \in Nat /\ READ_BUFFER_SIZE \in Nat
      /\ m_checked_idx \in Nat /\ m_checked_idx <= m_read_idx
      /\ HeadLen(request) \in Nat /\ Len(Stream(request)) \in Nat
  BY <1>1, Indices, StreamLength
<1>6. n \in Nat /\ n > m_read_idx /\ n <= Len(Stream(request))
  BY <1>2, <1>5
<1>7. ASSUME NEW f \in Nat, Agrees(f)
      PROVE  Agrees(f)'
  <2>1. ASSUME NEW i \in f .. n - 1 PROVE byte(i)' = Sym(request, i)
    <3>1. i \in 0 .. n - 1
      BY <1>6
    <3>2. i < m_read_idx => i \in f .. m_read_idx - 1
      BY <1>5, <1>6
    <3> QED
      BY <1>4, <1>7, <3>1, <3>2 DEF Agrees
  <2>2. \A i : Sym(request, i)' = Sym(request, i)
    BY <1>3 DEF Sym, Stream
  <2> QED
    BY <1>4, <2>1, <2>2 DEF Agrees
<1>8. CASE InContent
  <2>1. /\ HeadLen(request)' = HeadLen(request) /\ Accepted(NumLines(request))'
    BY <1>3, <1>8 DEF InContent, Accepted
  <2>2. Agrees(HeadLen(request))'
    <3>1. \A f : f = HeadLen(request) => Agrees(f)'
      BY <1>5, <1>7, <1>8 DEF InContent
    <3> QED
      BY <2>1, <3>1 DEF Agrees
  <2>3. ~BodyInPieces => m_checked_idx = HeadLen(request) /\ m_start_line = HeadLen(request)
    BY <1>2, <1>5, <1>6, <1>8 DEF InContent
  <2>4. InContent'
    BY <1>3, <1>8, <2>1, <2>2, <2>3 DEF InContent
  <2> QED
    BY <1>2, <1>3, <1>4, <1>6, <2>4 DEF ParseInv, MayHaveRead, AnswerIsRight
<1>9. ASSUME NEW k \in 1 .. NumLines(request), AtLine(k)
      PROVE  AtLine(k)'
  <2>1. Begin(request, k) \in Nat
    BY <1>5, Shape
  <2>2. Agrees(Begin(request, k))'
    <3>1. \A f : f = Begin(request, k) => Agrees(f)'
      BY <1>7, <1>9, <2>1 DEF AtLine
    <3> QED
      BY <1>3, <3>1 DEF Agrees
  <2>3. k > 1 => (byte(Begin(request, k) - 1) = "NUL")'
    <3> SUFFICES ASSUME k > 1 PROVE (byte(Begin(request, k) - 1) = "NUL")'
      OBVIOUS
    <3>1. PICK i : i = Begin(request, k) - 1
      OBVIOUS
    <3>2. i \in Int /\ i < m_read_idx /\ byte(i) = "NUL"
      BY <1>5, <1>9, <2>1, <3>1 DEF AtLine
    <3>3. i >= 0
      <4>1. NumLines(request) \in Nat /\ request.bare \in Nat
        BY <1>5, RequestFields
      <4> QED
        BY <3>1, <4>1 DEF Begin
    <3>4. byte(i)' = byte(i)
      BY <1>4, <1>6, <1>5, <3>2, <3>3
    <3>5. (Begin(request, k) - 1)' = i
      BY <1>3, <3>1
    <3> QED
      BY <3>2, <3>4, <3>5 DEF byte
  <2> QED
    BY <1>3, <1>9, <2>2, <2>3 DEF AtLine, Accepted
<1> QED
  <2>1. CASE \E k \in 1 .. NumLines(request) : AtLine(k)
    <3>1. (\E k \in 1 .. NumLines(request) : AtLine(k))'
      BY <1>3, <1>9, <2>1
    <3> QED
      BY <1>2, <1>3, <1>4, <1>6, <3>1 DEF ParseInv, MayHaveRead, AnswerIsRight
  <2> QED
    BY <1>1, <1>8, <2>1 DEF ParseInv

\* parse_line() at line k: the line is not there yet, or does not end as it
\* should, or is there.
LEMMA ParseAtLine ==
    ASSUME ReadInv, NEW k \in 1 .. NumLines(request), AtLine(k),
           m_read_idx <= Len(Stream(request))
    PROVE  \/ /\ parse_line.status \in {"OPEN", "BAD"} /\ parse_line.nul = {}
              /\ parse_line.checked \in Begin(request, k) .. TextEnd(request, k)
              /\ request.bare # k => m_read_idx <= TextEnd(request, k) + 1
           \/ /\ parse_line.status = "OK"
              /\ parse_line.checked = TextEnd(request, k) + 2
              /\ parse_line.nul = {TextEnd(request, k), TextEnd(request, k) + 1}
              /\ request.bare # k /\ TextEnd(request, k) + 2 <= m_read_idx
<1> DEFINE b == Begin(request, k)
           e == TextEnd(request, k)
<1>1. /\ request \in Requests /\ m_read_idx \in Nat /\ m_checked_idx \in Nat
      /\ m_checked_idx <= m_read_idx
  BY Indices
<1>2. /\ b \in Nat /\ e \in Nat /\ e \in {b, b + 1} /\ k \in Int
      /\ k < NumLines(request) => e = b + 1
      /\ k = NumLines(request) => e = b
      /\ k < NumLines(request) \/ k = NumLines(request)
  BY <1>1, Shape, RequestFields
<1>3. /\ m_checked_idx \in b .. e
      /\ \A i \in b .. m_read_idx - 1 : byte(i) = Sym(request, i)
      /\ k > 1 => byte(b - 1) = "NUL"
  BY DEF AtLine, Agrees
<1>4. /\ \A i \in b .. e - 1 : Sym(request, i) \in Words
      /\ request.bare # k => Sym(request, e) = "CR" /\ Sym(request, e + 1) = "LF"
      /\ request.bare = k => Sym(request, e) = request.lone
  BY <1>1, StreamShape
<1>5. request.bare = k /\ e + 1 < Len(Stream(request)) => Sym(request, e + 1) # "LF"
  BY <1>1, LoneCR
<1>6. request.lone \in {"CR", "LF"} /\ NumLines(request) >= 2 /\ NumLines(request) \in Nat
  BY <1>1, RequestFields
<1>l. Len(Stream(request)) \in Nat
  BY <1>1, StreamLength
<1> HIDE DEF b, e
<1>7. \A i \in m_checked_idx .. e - 1 : i < m_read_idx => byte(i) \notin {"CR", "LF"}
  <2> SUFFICES ASSUME NEW i \in m_checked_idx .. e - 1, i < m_read_idx
               PROVE  byte(i) \notin {"CR", "LF"}
    OBVIOUS
  <2>1. i \in b .. e - 1 /\ i \in b .. m_read_idx - 1
    BY <1>1, <1>2, <1>3
  <2>2. byte(i) \in Words
    BY <1>3, <1>4, <2>1
  <2> QED
    BY <2>2 DEF Words
<1>8. CASE m_read_idx <= e
  <2>1. NextBreak = m_read_idx
    <3>1. m_read_idx \in m_checked_idx .. m_read_idx
      BY <1>1
    <3>2. \A j \in m_checked_idx .. m_read_idx - 1 : byte(j) \notin {"CR", "LF"}
      <4>1. \A j \in m_checked_idx .. m_read_idx - 1 : j \in m_checked_idx .. e - 1 /\ j < m_read_idx
        BY <1>1, <1>2, <1>8
      <4> QED
        BY <1>7, <4>1
    <3> QED
      BY <3>1, <3>2, FirstBreak
  <2>2. parse_line = [status |-> "OPEN", checked |-> m_read_idx, nul |-> {}]
    BY <2>1 DEF parse_line
  <2>3. m_read_idx \in b .. e /\ m_read_idx <= e + 1
    BY <1>1, <1>2, <1>3, <1>8
  <2> QED
    BY <2>2, <2>3 DEF b, e
<1>9. CASE m_read_idx > e
  <2>1. /\ e \in m_checked_idx .. m_read_idx /\ e # m_read_idx /\ e \in b .. m_read_idx - 1
        /\ e \in b .. e
    BY <1>1, <1>2, <1>3, <1>9
  <2>2. byte(e) = Sym(request, e) /\ Sym(request, e) \in {"CR", "LF"}
    BY <1>3, <1>4, <1>6, <2>1
  <2>3. NextBreak = e
    <3>1. \A j \in m_checked_idx .. e - 1 : byte(j) \notin {"CR", "LF"}
      BY <1>1, <1>2, <1>7, <1>9
    <3> QED
      BY <2>1, <2>2, <3>1, FirstBreak
  <2> DEFINE result(status, checked, nul) == [status |-> status, checked |-> checked, nul |-> nul]
  <2>4. parse_line =
          IF e = m_read_idx \/ (byte(e) = "CR" /\ e + 1 = m_read_idx)
            THEN result("OPEN", e, {})
          ELSE IF byte(e) = "CR" /\ byte(e + 1) = "LF"
            THEN result("OK", e + 2, {e, e + 1})
          ELSE IF byte(e) = "LF" /\ e > 1 /\ byte(e - 1) = "CR"
            THEN result("OK", e + 1, {e - 1, e})
          ELSE result("BAD", e, {})
    BY <2>3 DEF parse_line, AfterCRLF
  <2>5. CASE e + 1 = m_read_idx /\ byte(e) = "CR"
    <3>1. parse_line = result("OPEN", e, {})
      BY <2>4, <2>5
    <3>2. m_read_idx <= e + 1
      BY <1>1, <1>2, <2>5
    <3> QED
      BY <2>1, <3>1, <3>2 DEF b, e
  <2>6. CASE e + 1 # m_read_idx /\ byte(e) = "CR"
    <3>1. e + 1 \in b .. m_read_idx - 1 /\ e + 2 <= m_read_idx /\ e + 1 < Len(Stream(request))
      BY <1>1, <1>2, <1>9, <1>l, <2>6
    <3>2. byte(e + 1) = Sym(request, e + 1)
      BY <1>3, <3>1
    <3>3. CASE request.bare # k
      <4>1. parse_line = result("OK", e + 2, {e, e + 1})
        BY <1>4, <2>1, <2>4, <2>6, <3>2, <3>3
      <4> QED
        BY <3>1, <3>3, <4>1 DEF e
    <3>4. CASE request.bare = k
      <4>1. byte(e + 1) # "LF"
        BY <1>5, <3>1, <3>2, <3>4
      <4>2. parse_line = result("BAD", e, {})
        BY <2>1, <2>4, <2>6, <4>1
      <4> QED
        BY <2>1, <3>4, <4>2 DEF b, e
    <3> QED
      BY <3>3, <3>4
  <2>7. CASE byte(e) = "LF"
    <3>1. request.bare = k
      BY <1>4, <2>2, <2>7
    <3>2. e > 1 => byte(e - 1) # "CR"
      <4> SUFFICES ASSUME e > 1 PROVE byte(e - 1) # "CR"
        OBVIOUS
      <4>1. CASE k < NumLines(request)
        <5>1. e - 1 \in b .. e - 1 /\ e - 1 \in b .. m_read_idx - 1
          BY <1>1, <1>2, <1>9, <4>1
        <5>2. byte(e - 1) \in Words
          BY <1>3, <1>4, <5>1
        <5> QED
          BY <5>2 DEF Words
      <4>2. CASE k = NumLines(request)
        <5>1. e = b /\ k > 1
          BY <1>2, <1>6, <4>2
        <5> QED
          BY <1>3, <5>1
      <4> QED
        BY <1>2, <4>1, <4>2
    <3>3. parse_line = result("BAD", e, {})
      BY <2>1, <2>4, <2>7, <3>2
    <3> QED
      BY <2>1, <3>1, <3>3 DEF b, e
  <2> QED
    BY <2>2, <2>5, <2>6, <2>7
<1> QED
  BY <1>1, <1>2, <1>8, <1>9

\* While the parser waits for the body it finds no line.
LEMMA ParseContent ==
    ASSUME ReadInv, InContent, m_read_idx <= Len(Stream(request))
    PROVE  parse_line = [status |-> "OPEN", checked |-> m_read_idx, nul |-> {}]
<1>1. /\ request \in Requests /\ m_read_idx \in Nat /\ m_checked_idx \in Nat
      /\ m_checked_idx <= m_read_idx /\ m_start_line <= m_checked_idx /\ m_start_line \in Nat
  BY Indices
<1>2. /\ HeadLen(request) \in Nat /\ Len(Stream(request)) \in Nat
      /\ \A i \in Int : HeadLen(request) <= i /\ i < Len(Stream(request)) => Sym(request, i) = "x"
  BY <1>1, StreamLength
<1>3. HeadLen(request) <= m_start_line /\ \A i \in HeadLen(request) .. m_read_idx - 1 : byte(i) = Sym(request, i)
  BY DEF InContent, Agrees
<1>4. \A j \in m_checked_idx .. m_read_idx - 1 : byte(j) \notin {"CR", "LF"}
  <2> SUFFICES ASSUME NEW j \in m_checked_idx .. m_read_idx - 1 PROVE byte(j) \notin {"CR", "LF"}
    OBVIOUS
  <2>1. /\ j \in HeadLen(request) .. m_read_idx - 1 /\ j \in Int
        /\ HeadLen(request) <= j /\ j < Len(Stream(request))
    BY <1>1, <1>2, <1>3
  <2>2. byte(j) = "x"
    BY <1>2, <1>3, <2>1
  <2> QED
    BY <2>2
<1>5. m_read_idx \in m_checked_idx .. m_read_idx
  BY <1>1
<1>6. NextBreak = m_read_idx
  BY <1>4, <1>5, FirstBreak
<1> QED
  BY <1>6 DEF parse_line

\* parse_line() finds the end of line k, or all of the buffer belongs to it.
LEMMA ParseLineKeeps ==
    ASSUME ParseInv, ParseLine, ReadInv'
    PROVE  ParseInv'
<1>1. /\ ReadInv /\ pc = "while" /\ m_read_idx <= Len(Stream(request))
      /\ MayHaveRead(m_read_idx) \/ m_read_idx = READ_BUFFER_SIZE
  BY DEF ParseInv, ParseLine
<1>2. /\ line_status' = parse_line.status /\ m_checked_idx' = parse_line.checked
      /\ m_read_buf' = [j \in DOMAIN m_read_buf |->
                            IF j - 1 \in parse_line.nul THEN "NUL" ELSE m_read_buf[j]]
      /\ \/ parse_line.status = "OK" /\ pc' = "line"
         \/ parse_line.status # "OK" /\ pc' = "recv"
      /\ UNCHANGED <<request, m_start_line, m_check_state, m_method, m_linger, m_content_length, m_string>>
  BY DEF ParseLine, found
<1>3. /\ request \in Requests /\ m_read_idx \in Nat /\ m_checked_idx \in Nat
      /\ DOMAIN m_read_buf = 1 .. m_read_idx /\ m_read_idx = Len(m_read_buf)
      /\ m_checked_idx <= m_read_idx /\ m_start_line \in Nat /\ m_start_line <= m_checked_idx
  BY <1>1, Indices
<1>4. /\ m_read_idx' = m_read_idx
      /\ \A i \in 0 .. m_read_idx - 1 : byte(i)' = IF i \in parse_line.nul THEN "NUL" ELSE byte(i)
  <2>1. m_read_idx' \in Nat /\ DOMAIN m_read_buf' = 1 .. m_read_idx'
    <3>1. \E S : m_read_buf' \in Seq(S)
      BY DEF ReadInv
    <3> QED
      BY <3>1 DEF m_read_idx
  <2>2. DOMAIN m_read_buf' = 1 .. m_read_idx
    BY <1>2, <1>3
  <2>3. m_read_idx' = m_read_idx
    BY <1>3, <2>1, <2>2
  <2>4. ASSUME NEW i \in 0 .. m_read_idx - 1
        PROVE  byte(i)' = IF i \in parse_line.nul THEN "NUL" ELSE byte(i)
    <3>1. i + 1 \in DOMAIN m_read_buf /\ (i + 1) - 1 = i
      BY <1>3
    <3> QED
      BY <1>2, <3>1 DEF byte
  <2> QED
    BY <2>3, <2>4
<1>5. /\ \A i : Sym(request, i)' = Sym(request, i)
      /\ HeadLen(request)' = HeadLen(request) /\ HeadLen(request) \in Nat
      /\ \A j : Accepted(j) => Accepted(j)'
      /\ \A j : Begin(request, j)' = Begin(request, j)
      /\ NumLines(request)' = NumLines(request)
  BY <1>2, <1>3, StreamLength DEF Sym, Accepted
<1>6. ASSUME pc' # "done", (InContent \/ \E k \in 1 .. NumLines(request) : AtLine(k))' \/ pc' # "recv",
             pc' = "line" => (InContent \/ \E k \in 1 .. NumLines(request) : OnLine(k))'
      PROVE  ParseInv'
  BY <1>1, <1>2, <1>4, <1>6 DEF ParseInv, MayHaveRead, AnswerIsRight
<1>7. CASE InContent
  <2>1. parse_line = [status |-> "OPEN", checked |-> m_read_idx, nul |-> {}]
    BY <1>1, <1>7, ParseContent
  <2>2. pc' = "recv" /\ m_checked_idx' = m_read_idx /\ line_status' = "OPEN"
    BY <1>2, <2>1
  <2>3. \A i \in 0 .. m_read_idx - 1 : byte(i)' = byte(i)
    BY <1>4, <2>1
  <2>4. Agrees(HeadLen(request))'
    <3>1. \A i \in HeadLen(request) .. m_read_idx - 1 : i \in 0 .. m_read_idx - 1
      BY <1>3, <1>5
    <3> QED
      BY <1>4, <1>5, <1>7, <2>3, <3>1 DEF Agrees, InContent
  <2>5. ~BodyInPieces => /\ m_read_idx < Len(Stream(request))
                         /\ m_read_idx = HeadLen(request) \/ m_read_idx = READ_BUFFER_SIZE
    <3> SUFFICES ASSUME ~BodyInPieces
                 PROVE  /\ m_read_idx < Len(Stream(request))
                        /\ m_read_idx = HeadLen(request) \/ m_read_idx = READ_BUFFER_SIZE
      OBVIOUS
    <3>1. m_read_idx < Len(Stream(request))
      BY <1>1, <1>7 DEF InContent, ParseLine, InBody
    <3>2. m_read_idx >= HeadLen(request)
      BY <1>3, <1>5, <1>7 DEF InContent
    <3>3. Len(Stream(request)) \in Nat
      BY <1>3, StreamLength
    <3>4. MayHaveRead(m_read_idx) => m_read_idx <= HeadLen(request)
      BY <1>3, <3>1, <3>3 DEF MayHaveRead
    <3> QED
      BY <1>1, <1>3, <1>5, <3>1, <3>2, <3>4
  <2>6. InContent'
    BY <1>2, <1>4, <1>5, <1>7, <2>2, <2>4, <2>5 DEF InContent
  <2> QED
    BY <1>6, <2>2, <2>6
<1>8. ASSUME NEW k \in 1 .. NumLines(request), AtLine(k)
      PROVE  ParseInv'
  <2> DEFINE b == Begin(request, k)
             e == TextEnd(request, k)
  <2>1. /\ b \in Nat /\ e \in Nat /\ e \in {b, b + 1} /\ k \in Int
        /\ request.bare # k => Begin(request, k + 1) = e + 2
    BY <1>3, Shape
  <2>2. \/ /\ parse_line.status \in {"OPEN", "BAD"} /\ parse_line.nul = {}
           /\ parse_line.checked \in b .. e
           /\ request.bare # k => m_read_idx <= e + 1
        \/ /\ parse_line.status = "OK"
           /\ parse_line.checked = e + 2 /\ parse_line.nul = {e, e + 1}
           /\ request.bare # k /\ e + 2 <= m_read_idx
    BY <1>1, <1>8, ParseAtLine
  <2>3. b' = b /\ e' = e
    BY <1>2
  <2>4. /\ m_start_line = b /\ Agrees(b) /\ b <= m_read_idx
        /\ k > 1 => byte(b - 1) = "NUL"
    BY <1>3, <2>1, <1>8 DEF AtLine
  <2> HIDE DEF b, e
  <2>5. CASE /\ parse_line.status \in {"OPEN", "BAD"} /\ parse_line.nul = {}
             /\ parse_line.checked \in b .. e
             /\ request.bare # k => m_read_idx <= e + 1
    <3>1. pc' = "recv" /\ \A i \in 0 .. m_read_idx - 1 : byte(i)' = byte(i)
      BY <1>2, <1>4, <2>5
    <3>2. \A i \in b .. m_read_idx - 1 : i \in 0 .. m_read_idx - 1
      BY <1>3, <2>1
    <3>3. Agrees(b)'
      BY <1>4, <1>5, <2>3, <2>4, <3>1, <3>2 DEF Agrees
    <3>4. k > 1 => (byte(b - 1) = "NUL")'
      <4> SUFFICES ASSUME k > 1 PROVE (byte(b - 1) = "NUL")'
        OBVIOUS
      <4>1. b - 1 \in 0 .. m_read_idx - 1
        <5>1. b >= 1
          <6>1. NumLines(request) \in Nat /\ request.bare \in Nat
            BY <1>3, RequestFields
          <6> QED
            BY <6>1 DEF Begin, b
        <5> QED
          BY <1>3, <2>1, <2>4, <5>1
      <4>2. PICK i \in 0 .. m_read_idx - 1 : i = b - 1
        BY <4>1
      <4>3. byte(i)' = "NUL"
        BY <2>4, <3>1, <4>2
      <4>4. (b - 1)' = i
        BY <2>3, <4>2
      <4> QED
        BY <4>3, <4>4 DEF byte
    <3>5. AtLine(k)'
      BY <1>2, <1>4, <1>5, <1>8, <2>3, <2>5, <3>3, <3>4 DEF AtLine, b, e
    <3>6. (\E j \in 1 .. NumLines(request) : AtLine(j))'
      BY <1>5, <3>5
    <3> QED
      BY <1>6, <3>1, <3>6
  <2>6. CASE /\ parse_line.status = "OK"
             /\ parse_line.checked = e + 2 /\ parse_line.nul = {e, e + 1}
             /\ request.bare # k /\ e + 2 <= m_read_idx
    <3>1. pc' = "line" /\ line_status' = "OK" /\ m_checked_idx' = e + 2
      BY <1>2, <2>6
    <3>2. byte(e)' = "NUL" /\ byte(e + 1)' = "NUL"
      <4>1. e \in 0 .. m_read_idx - 1 /\ e + 1 \in 0 .. m_read_idx - 1
        BY <1>3, <2>1, <2>6
      <4>2. PICK i \in 0 .. m_read_idx - 1, j \in 0 .. m_read_idx - 1 : i = e /\ j = e + 1
        BY <4>1
      <4>3. byte(i)' = "NUL" /\ byte(j)' = "NUL"
        BY <1>4, <2>6, <4>2
      <4>4. e' = i /\ (e + 1)' = j
        BY <2>3, <4>2
      <4> QED
        BY <4>3, <4>4 DEF byte
    <3>3. \A i \in b .. e - 1 : byte(i)' = Sym(request, i)
      <4> SUFFICES ASSUME NEW i \in b .. e - 1 PROVE byte(i)' = Sym(request, i)
        OBVIOUS
      <4>1. /\ i \in 0 .. m_read_idx - 1 /\ i \in b .. m_read_idx - 1
            /\ i \notin {e, e + 1}
        BY <1>3, <2>1, <2>6
      <4> QED
        BY <1>4, <2>4, <2>6, <4>1 DEF Agrees
    <3>4. \A i \in e + 2 .. m_read_idx - 1 : byte(i)' = Sym(request, i)
      <4> SUFFICES ASSUME NEW i \in e + 2 .. m_read_idx - 1 PROVE byte(i)' = Sym(request, i)
        OBVIOUS
      <4>1. /\ i \in 0 .. m_read_idx - 1 /\ i \in b .. m_read_idx - 1
            /\ i \notin {e, e + 1}
        BY <1>3, <2>1, <2>6
      <4> QED
        BY <1>4, <2>4, <2>6, <4>1 DEF Agrees
    <3>5. Begin(request, k + 1)' = e + 2
      BY <1>5, <2>1, <2>6
    <3>6. Agrees(Begin(request, k + 1))'
      BY <1>4, <1>5, <3>4, <3>5 DEF Agrees
    <3>7. OnLine(k)'
      <4>1. /\ Accepted(k)' /\ (m_check_state = IF k = 1 THEN "REQUESTLINE" ELSE "HEADER")'
            /\ m_start_line' = b' /\ request'.bare # k
        BY <1>2, <1>5, <1>8, <2>3, <2>4, <2>6 DEF AtLine
      <4>2. (\A i \in b .. e - 1 : byte(i) = Sym(request, i))'
        BY <1>5, <2>3, <3>3
      <4> QED
        BY <3>1, <3>2, <3>5, <3>6, <4>1, <4>2 DEF OnLine, b, e
    <3>8. (\E j \in 1 .. NumLines(request) : OnLine(j))'
      BY <1>5, <3>7
    <3> QED
      BY <1>6, <3>1, <3>8
  <2> QED
    BY <2>2, <2>5, <2>6
<1> QED
  BY <1>1, <1>7, <1>8 DEF ParseInv

\* Bodies that fit into a char (http_conn.h:160); longer ones are answered wrongly.
ShortBodies == \A r \in Requests : r.body <= 127

\* A short length survives atol() into a char.
LEMMA CharKeeps == ASSUME NEW n \in Nat, n <= 127 PROVE char(n) = n
<1>1. (n + 128) % 256 = n + 128
  OBVIOUS
<1> QED
  BY <1>1 DEF char

\* What all the steps on line k but the last have in common.
LEMMA NextLine ==
    ASSUME ReadInv, NEW k \in 1 .. NumLines(request), OnLine(k), NextStart, k < NumLines(request),
           UNCHANGED <<request, m_read_buf, m_checked_idx>>, pc' = "while",
           Accepted(k + 1)', m_check_state' = "HEADER"
    PROVE  (\E j \in 1 .. NumLines(request) : AtLine(j))'
<1>1. request \in Requests
  BY Indices
<1>2. /\ NumLines(request) \in Nat /\ k \in Int /\ k + 1 \in 1 .. NumLines(request) /\ k + 1 # 1
  BY <1>1, RequestFields
<1>3. /\ Begin(request, k + 1) \in Nat /\ Begin(request, k + 1) - 1 = TextEnd(request, k) + 1
      /\ request.bare # k
  <2>1. request.bare # k
    BY DEF OnLine
  <2>2. Begin(request, k + 1) \in Nat /\ Begin(request, k + 1) = TextEnd(request, k) + 2
        /\ TextEnd(request, k) \in Nat
    BY <1>1, <2>1, Shape
  <2> QED
    BY <2>1, <2>2
<1> DEFINE j == k + 1
<1>4. j \in 1 .. NumLines(request) /\ j # 1
  BY <1>2
<1>5. TextEnd(request, j) \in {Begin(request, j), Begin(request, j) + 1}
  <2> HIDE DEF j
  <2> QED
    BY <1>1, <1>4, Shape
<1>6. /\ m_start_line' = Begin(request, j) /\ m_checked_idx' \in Begin(request, j) .. TextEnd(request, j)
      /\ byte(Begin(request, j) - 1) = "NUL" /\ Agrees(Begin(request, j))
  BY <1>3, <1>5 DEF NextStart, OnLine
<1>7. Agrees(Begin(request, j))' /\ (byte(Begin(request, j) - 1) = "NUL")'
  BY <1>6 DEF Agrees, byte, m_read_idx
<1>8. Accepted(j)'
  OBVIOUS
<1> HIDE DEF j
<1>9. k' = k /\ j' = j
  BY DEF j
<1>10. AtLine(j)'
  BY <1>4, <1>6, <1>7, <1>8, <1>9 DEF AtLine
<1> QED
  BY <1>4, <1>9, <1>10

\* parse_request_line() takes the method, or finds the line is none.
LEMMA RequestLineKeeps ==
    ASSUME ParseInv, RequestLine, ReadInv'
    PROVE  ParseInv'
<1>1. /\ ReadInv /\ pc = "line" /\ m_check_state = "REQUESTLINE" /\ NextStart
      /\ UNCHANGED <<request, m_read_buf, m_checked_idx, line_status, m_linger, m_content_length, m_string>>
  BY DEF ParseInv, RequestLine
<1>2. PICK k \in 1 .. NumLines(request) : OnLine(k)
  BY <1>1 DEF ParseInv, InContent
<1>3. request \in Requests /\ k = 1
  BY <1>1, <1>2, Indices DEF OnLine
<1>4. NumLines(request) \in Nat /\ NumLines(request) >= 2
  BY <1>3, RequestFields
<1>5. text = <<request.line>> /\ request.line \in {"GET", "POST", "junk"}
  <2>1. text = LineText(request, k)
    BY <1>1, <1>2, TextOfLine
  <2> QED
    BY <1>3, <2>1, RequestFields DEF LineText
<1>6. m_read_idx' = m_read_idx /\ Stream(request)' = Stream(request)
  BY <1>1 DEF m_read_idx
<1>7. CASE text \in {<<"GET">>, <<"POST">>} /\ m_method' = text[1] /\ m_check_state' = "HEADER" /\ goOn
  <2>1. m_method' = request.line /\ request.line # "junk" /\ pc' = "while"
    BY <1>5, <1>7 DEF goOn
  <2>2. Accepted(k + 1)'
    <3>1. /\ request.bare \in Nat /\ request.bare # 1 /\ 1 .. k - 2 = {} /\ 1 .. (k + 1) - 2 = {}
          /\ k = 1
      BY <1>2, <1>3, RequestFields DEF OnLine
    <3>2. m_linger = FALSE /\ m_content_length = 0 /\ m_string = <<>>
      BY <1>2, <3>1 DEF OnLine, Accepted
    <3>3. ~(0 < request.bare /\ request.bare < k + 1)
      BY <3>1
    <3> QED
      BY <1>1, <2>1, <3>1, <3>2, <3>3 DEF Accepted
  <2>3. (\E j \in 1 .. NumLines(request) : AtLine(j))'
    <3>1. k < NumLines(request)
      BY <1>3, <1>4
    <3> QED
      BY <1>1, <1>2, <1>7, <2>1, <2>2, <3>1, NextLine
  <2> QED
    BY <1>1, <1>6, <2>1, <2>3 DEF ParseInv, MayHaveRead, AnswerIsRight
<1>8. CASE text \notin {<<"GET">>, <<"POST">>} /\ answer("BAD_REQUEST")
  <2>1. request.line = "junk" /\ pc' = "done" /\ ret' = "BAD_REQUEST"
    BY <1>5, <1>8 DEF answer
  <2> QED
    BY <1>1, <1>6, <2>1 DEF ParseInv, MayHaveRead, AnswerIsRight
<1> QED
  BY <1>7, <1>8 DEF RequestLine

\* parse_headers() takes one header more into account.
LEMMA HeaderKeeps ==
    ASSUME ShortBodies, ParseInv, Header, ReadInv'
    PROVE  ParseInv'
<1>1. /\ ReadInv /\ pc = "line" /\ m_check_state = "HEADER" /\ NextStart /\ text # <<>>
      /\ m_linger' = (m_linger \/ text = <<"keep">>)
      /\ m_content_length' = IF text[1] = "len" THEN char(request.body) ELSE m_content_length
      /\ pc' = "while"
      /\ UNCHANGED <<request, m_read_buf, m_checked_idx, m_check_state, line_status, m_method, m_string>>
  BY DEF ParseInv, Header, goOn
<1>2. PICK k \in 1 .. NumLines(request) : OnLine(k)
  BY <1>1 DEF ParseInv, InContent
<1>3. /\ request \in Requests /\ k # 1 /\ k \in Int /\ NumLines(request) \in Nat
      /\ NumLines(request) = Len(request.headers) + 2 /\ request.bare \in Nat /\ request.body \in Nat
      /\ request.headers \in Seq({"keep", "len", "junk"}) /\ Len(request.headers) \in Nat
  BY <1>1, <1>2, Indices, RequestFields DEF OnLine, NumLines
<1>4. text = LineText(request, k)
  BY <1>1, <1>2, TextOfLine
<1>5. k < NumLines(request)
  <2>1. k # NumLines(request)
    BY <1>1, <1>3, <1>4, LineSymbols
  <2> QED
    BY <1>3, <2>1
<1>6. text = <<request.headers[k - 1]>>
  BY <1>3, <1>4, <1>5 DEF LineText
<1>7. char(request.body) = request.body
  BY <1>3, CharKeeps DEF ShortBodies
<1>8. Accepted(k + 1)'
  <2>1. 1 .. (k + 1) - 2 = (1 .. k - 2) \cup {k - 1}
    BY <1>3
  <2>2. /\ m_linger = \E i \in 1 .. k - 2 : request.headers[i] = "keep"
        /\ m_content_length =
             IF \E i \in 1 .. k - 2 : request.headers[i] = "len" THEN request.body ELSE 0
        /\ ~(0 < request.bare /\ request.bare < k) /\ request.bare # k /\ m_string = <<>>
        /\ request.line # "junk" /\ m_method = request.line
    BY <1>2, <1>3 DEF OnLine, Accepted
  <2>3. m_linger' = \E i \in 1 .. (k + 1) - 2 : request.headers[i] = "keep"
    <3>1. text = <<"keep">> <=> request.headers[k - 1] = "keep"
      BY <1>6
    <3>2. (\E i \in 1 .. (k + 1) - 2 : request.headers[i] = "keep")
            <=> (\E i \in 1 .. k - 2 : request.headers[i] = "keep") \/ request.headers[k - 1] = "keep"
      BY <2>1
    <3> QED
      BY <1>1, <2>2, <3>1, <3>2, Zenon
  <2>4. m_content_length' =
            IF \E i \in 1 .. (k + 1) - 2 : request.headers[i] = "len" THEN request.body ELSE 0
    BY <1>1, <1>6, <1>7, <2>1, <2>2
  <2>5. ~(0 < request.bare /\ request.bare < k + 1)
    BY <1>3, <2>2
  <2> QED
    BY <1>1, <2>2, <2>3, <2>4, <2>5 DEF Accepted
<1>9. (\E j \in 1 .. NumLines(request) : AtLine(j))'
  BY <1>1, <1>2, <1>5, <1>8, NextLine
<1>10. m_read_idx' = m_read_idx /\ Stream(request)' = Stream(request)
  BY <1>1 DEF m_read_idx
<1> QED
  BY <1>1, <1>9, <1>10 DEF ParseInv, MayHaveRead, AnswerIsRight

\* The empty line ends the head: all headers are known, and all of a request
\* without a body is there.
LEMMA EmptyLineKeeps ==
    ASSUME ParseInv, EmptyLine, ReadInv'
    PROVE  ParseInv'
<1>1. /\ ReadInv /\ pc = "line" /\ m_check_state = "HEADER" /\ NextStart /\ text = <<>>
      /\ UNCHANGED <<request, m_read_buf, m_checked_idx, line_status,
                     m_method, m_linger, m_content_length, m_string>>
  BY DEF ParseInv, EmptyLine, found
<1>2. PICK k \in 1 .. NumLines(request) : OnLine(k)
  BY <1>1 DEF ParseInv, InContent
<1>3. /\ request \in Requests /\ k # 1 /\ k \in Int /\ NumLines(request) \in Nat
      /\ NumLines(request) = Len(request.headers) + 2 /\ request.bare \in Nat /\ request.body \in Nat
      /\ DOMAIN request.headers = 1 .. Len(request.headers) /\ Len(request.headers) \in Nat
      /\ request.bare <= NumLines(request)
      /\ request.body > 0 => Has(request, "len")
  BY <1>1, <1>2, Indices, RequestFields DEF OnLine, NumLines
<1>4. k = NumLines(request)
  <2>1. text = LineText(request, k)
    BY <1>1, <1>2, TextOfLine
  <2>2. ASSUME k < NumLines(request) PROVE FALSE
    <3>1. LineText(request, k) = <<Line(request, k)[1]>>
      BY <1>3, <2>2, LineSymbols
    <3>2. PICK a : LineText(request, k) = <<a>>
      BY <3>1
    <3>3. Len(<<a>>) = 1 /\ Len(<<>>) = 0
      OBVIOUS
    <3>4. <<a>> = <<>>
      BY <1>1, <2>1, <3>2
    <3> QED
      BY <3>3, <3>4
  <2>3. k <= NumLines(request)
    BY <1>3
  <2> QED
    BY <1>3, <2>2, <2>3
<1>5. /\ m_checked_idx = HeadLen(request) /\ HeadLen(request) \in Nat
      /\ Agrees(HeadLen(request)) /\ line_status = "OK"
  BY <1>2, <1>3, <1>4, Shape DEF OnLine
<1>6. /\ request.bare = 0 /\ request.line # "junk" /\ m_method = request.line /\ m_string = <<>>
      /\ m_linger = Has(request, "keep")
      /\ m_content_length = request.body
  <2>1. /\ ~(0 < request.bare /\ request.bare < k) /\ request.bare # k /\ m_string = <<>>
        /\ request.line # "junk" /\ m_method = request.line
        /\ m_linger = \E i \in 1 .. k - 2 : request.headers[i] = "keep"
        /\ m_content_length =
             IF \E i \in 1 .. k - 2 : request.headers[i] = "len" THEN request.body ELSE 0
    BY <1>2, <1>3 DEF OnLine, Accepted
  <2>2. 1 .. k - 2 = DOMAIN request.headers
    BY <1>3, <1>4
  <2>3. request.bare = 0
    <3>1. PICK b \in Nat : b = request.bare
      BY <1>3
    <3>2. request.bare <= k /\ ~(0 < request.bare /\ request.bare < k) /\ request.bare # k
      BY <1>3, <1>4, <2>1, Zenon
    <3>4. b <= k /\ ~(0 < b /\ b < k) /\ b # k
      BY <3>1, <3>2, Zenon
    <3>3. b = 0
      <4>1. k \in Int
        BY <1>3, Zenon
      <4> QED
        BY <3>4, <4>1
    <3> QED
      BY <3>1, <3>3
  <2>4. m_content_length = IF Has(request, "len") THEN request.body ELSE 0
    BY <2>1, <2>2 DEF Has
  <2>5. m_linger = Has(request, "keep")
    BY <2>1, <2>2 DEF Has
  <2>6. m_content_length = request.body
    <3>1. ~Has(request, "len") => request.body = 0
      <4>1. PICK b \in Nat : b = request.body
        BY <1>3
      <4>2. b > 0 => Has(request, "len")
        <5>1. request.body > 0 => Has(request, "len")
          BY <1>3, Zenon
        <5> QED
          BY <4>1, <5>1, Zenon
      <4>3. b > 0 \/ b = 0
        OBVIOUS
      <4> QED
        BY <4>1, <4>2, <4>3, Zenon
    <3> QED
      BY <2>4, <3>1, Zenon
  <2> QED
    BY <2>1, <2>3, <2>5, <2>6, Zenon
<1>7. m_read_idx' = m_read_idx /\ Stream(request)' = Stream(request) /\ HeadLen(request)' = HeadLen(request)
  BY <1>1 DEF m_read_idx
<1>8. CASE HasBody /\ m_check_state' = "CONTENT" /\ goOn
  <2>1. request.body > 0 /\ pc' = "while"
    BY <1>3, <1>6, <1>8 DEF HasBody, goOn
  <2>2. Accepted(NumLines(request))'
    BY <1>1, <1>2, <1>4 DEF OnLine, Accepted
  <2>3. m_start_line' = HeadLen(request) /\ Agrees(HeadLen(request))'
    BY <1>1, <1>5, <1>7 DEF NextStart, Agrees, byte
  <2>4. InContent'
    BY <1>1, <1>5, <1>6, <1>7, <1>8, <2>1, <2>2, <2>3 DEF InContent
  <2> QED
    BY <1>1, <1>7, <2>1, <2>4 DEF ParseInv, MayHaveRead, AnswerIsRight
<1>9. CASE ~HasBody /\ answer("GET_REQUEST")
  <2>1. request.body = 0 /\ pc' = "done" /\ ret' = "GET_REQUEST"
    BY <1>6, <1>9 DEF HasBody, answer
  <2>2. m_read_idx = Len(Stream(request))
    <3>1. /\ m_read_idx <= Len(Stream(request)) /\ Len(Stream(request)) = HeadLen(request)
          /\ m_checked_idx <= m_read_idx /\ m_read_idx \in Nat
      BY <1>1, <1>3, <1>5, <2>1, StreamLength, Indices DEF ParseInv
    <3> QED
      BY <1>5, <3>1
  <2>3. m_string = [i \in 1 .. request.body |-> "x"]
    <3>1. 1 .. request.body = {}
      BY <2>1
    <3>2. <<>> = [i \in {} |-> "x"]
      OBVIOUS
    <3> QED
      BY <1>6, <3>1, <3>2
  <2>4. AnswerIsRight'
    BY <1>1, <1>6, <1>7, <2>1, <2>2, <2>3 DEF AnswerIsRight, Complete, WellFormed, Has
  <2> QED
    BY <1>1, <1>7, <2>1, <2>4 DEF ParseInv, MayHaveRead
<1> QED
  BY <1>8, <1>9 DEF EmptyLine

\* parse_content() takes the body when it is there as a whole.
LEMMA ContentKeeps ==
    ASSUME ParseInv, Content, ReadInv'
    PROVE  ParseInv'
<1>1. /\ ReadInv /\ pc = "line" /\ m_check_state = "CONTENT" /\ NextStart
      /\ UNCHANGED <<request, m_read_buf, m_checked_idx, m_check_state,
                     m_method, m_linger, m_content_length>>
      /\ m_read_idx <= Len(Stream(request))
      /\ MayHaveRead(m_read_idx) \/ m_read_idx = READ_BUFFER_SIZE
  BY DEF ParseInv, Content
<1>2. InContent
  <2>1. \A k : ~OnLine(k)
    BY <1>1 DEF OnLine
  <2> QED
    BY <1>1, <2>1 DEF ParseInv
<1>3. /\ request \in Requests /\ m_read_idx \in Nat /\ m_checked_idx \in Nat
      /\ m_start_line \in Nat /\ m_start_line <= m_checked_idx /\ m_checked_idx <= m_read_idx
      /\ DOMAIN m_read_buf = 1 .. m_read_idx
  BY <1>1, Indices
<1>4. /\ HeadLen(request) \in Nat /\ request.body \in Nat
      /\ Len(Stream(request)) = HeadLen(request) + request.body
      /\ \A i \in Int : HeadLen(request) <= i /\ i < Len(Stream(request)) => Sym(request, i) = "x"
  BY <1>3, StreamLength
<1>5. /\ request.bare = 0 /\ Accepted(NumLines(request)) /\ request.body > 0
      /\ m_content_length = request.body /\ HeadLen(request) <= m_start_line
      /\ \A i \in HeadLen(request) .. m_read_idx - 1 : byte(i) = Sym(request, i)
  BY <1>2 DEF InContent, Agrees
<1>6. /\ m_read_idx' = m_read_idx /\ Stream(request)' = Stream(request)
      /\ HeadLen(request)' = HeadLen(request) /\ NumLines(request)' = NumLines(request)
  BY <1>1 DEF m_read_idx
<1>7. CASE /\ WholeBody
           /\ m_string' = SubSeq(m_read_buf, m_start_line + 1, m_start_line + m_content_length)
           /\ answer("GET_REQUEST")
  <2> DEFINE h == HeadLen(request)
             n == request.body
             s == SubSeq(m_read_buf, h + 1, h + n)
             t == [i \in 1 .. n |-> "x"]
  <2>1. h \in Nat /\ n \in Nat /\ n > 0
    BY <1>4, <1>5
  <2>2. m_read_idx >= n + m_checked_idx
    BY <1>5, <1>7 DEF WholeBody
  <2>3. m_read_idx <= h + n /\ h <= m_start_line
    BY <1>1, <1>4, <1>5
  <2>4. Len(Stream(request)) = h + n
    BY <1>4
  <2>5. \A i \in h .. m_read_idx - 1 : byte(i) = Sym(request, i)
    BY <1>5
  <2>6. \A i \in Int : h <= i /\ i < h + n => Sym(request, i) = "x"
    BY <1>4
  <2>7. m_string' = SubSeq(m_read_buf, m_start_line + 1, m_start_line + n)
    BY <1>5, <1>7
  <2> HIDE DEF h, n
  <2>8. m_start_line = h /\ m_read_idx = h + n
    BY <1>3, <2>1, <2>2, <2>3
  <2>9. s = t
    <3>1. h + 1 \in Int /\ h + n \in Int /\ h + 1 <= h + n
      BY <2>1
    <3>2. ASSUME NEW i \in h + 1 .. h + n PROVE m_read_buf[i] = "x"
      <4>1. /\ i - 1 \in Int /\ h <= i - 1 /\ i - 1 < h + n
            /\ i - 1 \in h .. m_read_idx - 1 /\ (i - 1) + 1 = i
        BY <2>1, <2>8
      <4>2. byte(i - 1) = "x"
        BY <2>5, <2>6, <4>1
      <4> QED
        BY <4>1, <4>2 DEF byte
    <3> DEFINE X == {"x"}
    <3>3. \A i \in h + 1 .. h + n : m_read_buf[i] \in X
      BY <3>2
    <3> HIDE DEF X
    <3>4. /\ s \in Seq(X) /\ Len(s) = (h + n) - (h + 1) + 1
      BY <3>1, <3>3, SubSeqProperties
    <3>5. (h + n) - (h + 1) + 1 = n
      BY <2>1
    <3>6. Len(s) = n
      BY <3>4, <3>5
    <3>7. \A i \in 1 .. n : s[i] = "x"
      <4>1. \A i \in 1 .. n : s[i] \in X
        BY <3>4, <3>6, ElementOfSeq
      <4> QED
        BY <4>1 DEF X
    <3>8. t \in Seq(X) /\ Len(t) = n
      <4>1. t \in [1 .. n -> X]
        BY DEF X
      <4> HIDE DEF t
      <4> QED
        BY <2>1, <4>1, LenProperties, SeqDef
    <3>9. \A i \in 1 .. n : t[i] = "x"
      OBVIOUS
    <3> HIDE DEF s, t
    <3> QED
      BY <3>4, <3>6, <3>7, <3>8, <3>9, SeqEqual
  <2>10. m_string' = t
    BY <2>7, <2>8, <2>9
  <2>11. pc' = "done" /\ ret' = "GET_REQUEST"
    BY <1>7 DEF answer
  <2>12. request.line # "junk" /\ m_method = request.line /\ m_linger = Has(request, "keep")
    <3>1. /\ NumLines(request) = Len(request.headers) + 2 /\ Len(request.headers) \in Nat
          /\ DOMAIN request.headers = 1 .. Len(request.headers)
      BY <1>3, RequestFields DEF NumLines
    <3>2. NumLines(request) > 1 /\ 1 .. NumLines(request) - 2 = DOMAIN request.headers
      BY <3>1
    <3> QED
      BY <1>5, <3>2 DEF Accepted, Has
  <2>13. t' = t
    BY <1>1 DEF n
  <2>14. AnswerIsRight'
    BY <1>1, <1>5, <1>6, <2>4, <2>8, <2>10, <2>11, <2>12
       DEF AnswerIsRight, Complete, WellFormed, Has, n
  <2> QED
    BY <1>1, <1>6, <2>11, <2>14 DEF ParseInv, MayHaveRead
<1>8. CASE ~WholeBody /\ line_status' = "OPEN" /\ goOn /\ UNCHANGED m_string
  <2>1. pc' = "while" /\ m_start_line' = m_checked_idx
    BY <1>1, <1>8 DEF goOn, NextStart
  <2>2. Accepted(NumLines(request))'
    BY <1>1, <1>5, <1>6, <1>8 DEF Accepted
  <2>3. Agrees(HeadLen(request))'
    BY <1>1, <1>5, <1>6 DEF Agrees, byte, Sym
  <2>4. ASSUME ~BodyInPieces
        PROVE  m_checked_idx = HeadLen(request) /\ m_read_idx < Len(Stream(request))
    <3>1. m_checked_idx = HeadLen(request)
      BY <1>1, <1>2, <2>4 DEF InContent
    <3>2. ~(m_read_idx >= request.body + m_checked_idx)
      BY <1>5, <1>8 DEF WholeBody
    <3> QED
      BY <1>3, <1>4, <3>1, <3>2
  <2>5. HeadLen(request)' <= m_start_line'
    BY <1>3, <1>4, <1>5, <1>6, <2>1
  <2>6. InContent'
    BY <1>1, <1>5, <1>6, <2>1, <2>2, <2>3, <2>4, <2>5 DEF InContent
  <2> QED
    BY <1>1, <1>6, <2>1, <2>6 DEF ParseInv, MayHaveRead, AnswerIsRight
<1> QED
  BY <1>7, <1>8 DEF Content

\* Neither looks at the buffer.
LEMMA OtherStepsKeep ==
    ASSUME ParseInv, BufferFull \/ EnterBody \/ UNCHANGED vars, ReadInv'
    PROVE  ParseInv'
<1>1. UNCHANGED <<request, ret, m_read_buf, parser, found>>
  BY DEF BufferFull, EnterBody, vars
<1>2. m_read_idx' = m_read_idx /\ Stream(request)' = Stream(request)
  BY <1>1 DEF m_read_idx
<1>3. CASE BufferFull
  <2>1. pc' = "closed"
    BY <1>3 DEF BufferFull
  <2> QED
    BY <1>1, <1>2, <2>1 DEF ParseInv, MayHaveRead, AnswerIsRight
<1>4. CASE EnterBody
  <2>1. pc = "while" /\ pc' = "line" /\ m_check_state = "CONTENT"
    BY <1>4 DEF EnterBody, InBody
  <2>2. InContent
    <3>1. \A k : ~AtLine(k)
      BY <2>1 DEF AtLine
    <3> QED
      BY <2>1, <3>1 DEF ParseInv
  <2>3. Accepted(NumLines(request))' /\ Agrees(HeadLen(request))'
    BY <1>1, <1>2, <2>2 DEF InContent, Accepted, Agrees, byte, Sym, found
  <2>4. InContent'
    BY <1>1, <1>2, <2>1, <2>2, <2>3 DEF InContent, parser, found
  <2> QED
    BY <1>1, <1>2, <2>1, <2>4 DEF ParseInv, MayHaveRead, AnswerIsRight
<1>5. CASE UNCHANGED vars
  <2>1. UNCHANGED <<request, pc, ret, m_read_buf, m_checked_idx, m_start_line, m_check_state,
                    line_status, m_method, m_linger, m_content_length, m_string>>
    BY <1>5 DEF vars, parser, found
  <2>2. /\ InContent => InContent'
        /\ MayHaveRead(m_read_idx)' = MayHaveRead(m_read_idx)
        /\ AnswerIsRight => AnswerIsRight'
    BY <1>2, <2>1 DEF InContent, Accepted, Agrees, byte, Sym, MayHaveRead, AnswerIsRight, Complete
  <2>3. (\E k \in 1 .. NumLines(request) : AtLine(k)) => (\E k \in 1 .. NumLines(request) : AtLine(k))'
    BY <1>2, <2>1 DEF AtLine, Accepted, Agrees, byte, Sym
  <2>4. (\E k \in 1 .. NumLines(request) : OnLine(k)) => (\E k \in 1 .. NumLines(request) : OnLine(k))'
    BY <1>2, <2>1 DEF OnLine, Accepted, Agrees, byte, Sym
  <2> QED
    BY <1>2, <2>1, <2>2, <2>3, <2>4 DEF ParseInv
<1> QED
  BY <1>3, <1>4, <1>5

\* The parser begins on line 1, with an empty buffer.
LEMMA ParseInit == Init => ParseInv
<1> SUFFICES ASSUME Init PROVE ParseInv
  OBVIOUS
<1>1. /\ request \in Requests /\ pc = "recv" /\ ret = "none" /\ m_read_buf = <<>>
      /\ m_checked_idx = 0 /\ m_start_line = 0 /\ m_check_state = "REQUESTLINE"
      /\ m_linger = FALSE /\ m_content_length = 0 /\ m_string = <<>>
  BY DEF Init
<1>2. ReadInv
  BY ReadInit
<1>3. m_read_idx = 0
  BY <1>1 DEF m_read_idx
<1>4. /\ HeadLen(request) \in Nat /\ request.body \in Nat
      /\ Len(Stream(request)) = HeadLen(request) + request.body
      /\ NumLines(request) \in Nat /\ NumLines(request) >= 2 /\ request.bare \in Nat
  BY <1>1, StreamLength, RequestFields
<1>5. 1 \in 1 .. NumLines(request) /\ Begin(request, 1) = 0 /\ TextEnd(request, 1) = 1
  BY <1>4 DEF Begin, TextEnd
<1>6. Accepted(1)
  <2>1. 1 .. 1 - 2 = {} /\ ~(0 < request.bare /\ request.bare < 1) /\ ~(1 > 1)
    BY <1>4
  <2>2. /\ m_linger = \E i \in 1 .. 1 - 2 : request.headers[i] = "keep"
        /\ m_content_length = IF \E i \in 1 .. 1 - 2 : request.headers[i] = "len"
                               THEN request.body ELSE 0
    <3>1. \A h : ~ \E i \in 1 .. 1 - 2 : request.headers[i] = h
      BY <2>1
    <3> QED
      BY <1>1, <3>1, Zenon
  <2> QED
    BY <1>1, <2>1, <2>2, Zenon DEF Accepted
<1>7. AtLine(1)
  <2>1. 0 \in 0 .. 1 /\ 0 .. 0 - 1 = {} /\ 0 <= 1 + 1 /\ ~(1 > 1)
    OBVIOUS
  <2> QED
    BY <1>1, <1>3, <1>5, <1>6, <2>1 DEF AtLine, Agrees
<1>8. 0 <= Len(Stream(request)) /\ MayHaveRead(0)
  BY <1>4 DEF MayHaveRead
<1> QED
  BY <1>1, <1>2, <1>3, <1>5, <1>7, <1>8 DEF ParseInv, AnswerIsRight

\* So each step keeps the invariant.
LEMMA ParseStep ==
    ASSUME ShortBodies, ParseInv, [Next]_vars
    PROVE  ParseInv'
<1>1. ReadInv'
  BY ReadStep DEF ParseInv
<1>2. CASE ReadOnce
  BY <1>1, <1>2, ReadOnceKeeps
<1>3. CASE BufferFull \/ EnterBody \/ UNCHANGED vars
  BY <1>1, <1>3, OtherStepsKeep
<1>4. CASE ParseLine
  BY <1>1, <1>4, ParseLineKeeps
<1>5. CASE RequestLine
  BY <1>1, <1>5, RequestLineKeeps
<1>6. CASE Header
  BY <1>1, <1>6, HeaderKeeps
<1>7. CASE EmptyLine
  BY <1>1, <1>7, EmptyLineKeeps
<1>8. CASE Content
  BY <1>1, <1>8, ContentKeeps
<1> QED
  BY <1>2, <1>3, <1>4, <1>5, <1>6, <1>7, <1>8 DEF Next, process_read

\* Whatever recv() does with a short body, the answer process_read() gives is
\* the one the request as a whole deserves (http_conn.cpp:178-470).
THEOREM AnswerIsRightHolds == ShortBodies => (Spec => []AnswerIsRight)
<1> SUFFICES ASSUME ShortBodies PROVE Spec => []AnswerIsRight
  OBVIOUS
<1>1. ParseInv /\ [Next]_vars => ParseInv'
  BY ParseStep
<1>2. ParseInv => AnswerIsRight
  BY DEF ParseInv
<1> QED
  BY ParseInit, <1>1, <1>2, PTL DEF Spec

\* No cut of the stream, but one in the body, makes parse_line() begin in the
\* middle of a line (http_conn.cpp:211-246).
THEOREM LinesAreLinesHolds == ShortBodies /\ ~BodyInPieces => (Spec => []LinesAreLines)
<1> SUFFICES ASSUME ShortBodies, ~BodyInPieces PROVE Spec => []LinesAreLines
  OBVIOUS
<1>1. ParseInv /\ [Next]_vars => ParseInv'
  BY ParseStep
<1>2. ParseInv => LinesAreLines
  <2> SUFFICES ASSUME ParseInv, pc = "line" PROVE m_start_line \in Beginnings(request)
    BY DEF LinesAreLines
  <2>1. request \in Requests
    BY Indices DEF ParseInv
  <2>2. NumLines(request) \in Nat
    BY <2>1, RequestFields
  <2>3. CASE InContent
    <3>1. m_start_line = Begin(request, NumLines(request) + 1)
      BY <2>3 DEF InContent, HeadLen
    <3>2. NumLines(request) + 1 \in 1 .. NumLines(request) + 1
      BY <2>2
    <3> QED
      BY <3>1, <3>2 DEF Beginnings
  <2>4. CASE \E k \in 1 .. NumLines(request) : OnLine(k)
    <3>1. PICK k \in 1 .. NumLines(request) : m_start_line = Begin(request, k)
      BY <2>4 DEF OnLine
    <3>2. k \in 1 .. NumLines(request) + 1
      BY <2>2
    <3> QED
      BY <3>1, <3>2 DEF Beginnings
  <2> QED
    BY <2>3, <2>4 DEF ParseInv
<1> QED
  BY ParseInit, <1>1, <1>2, PTL DEF Spec

\* NO_REQUEST is never said of a request that is there as a whole, but when a
\* body comes in pieces (http_conn.h:48, http_conn.cpp:404-470).
THEOREM NoRequestMeansIncompleteHolds ==
    ShortBodies /\ ~BodyInPieces => (Spec => []NoRequestMeansIncomplete)
<1> SUFFICES ASSUME ShortBodies, ~BodyInPieces PROVE Spec => []NoRequestMeansIncomplete
  OBVIOUS
<1>1. ParseInv /\ [Next]_vars => ParseInv'
  BY ParseStep
<1>2. ParseInv => NoRequestMeansIncomplete
  <2> SUFFICES ASSUME ParseInv, pc = "recv", request.bare = 0
               PROVE  m_read_idx < Len(Stream(request))
    <3>1. Complete => ~(m_read_idx < Len(Stream(request)))
      <4>1. m_read_idx < Len(Stream(request)) => m_read_idx # Len(Stream(request))
        OBVIOUS
      <4> QED
        BY <4>1 DEF Complete
    <3> QED
      BY <3>1 DEF NoRequestMeansIncomplete, WellFormed
  <2>1. request \in Requests /\ m_read_idx \in Nat
    BY Indices DEF ParseInv
  <2>2. /\ HeadLen(request) \in Nat /\ request.body \in Nat
        /\ Len(Stream(request)) = HeadLen(request) + request.body
    BY <2>1, StreamLength
  <2>3. CASE InContent
    BY <2>3 DEF InContent
  <2>4. ASSUME NEW k \in 1 .. NumLines(request), AtLine(k)
        PROVE  m_read_idx < Len(Stream(request))
    <3>1. request.bare # k
      OBVIOUS
    <3>2. m_read_idx <= TextEnd(request, k) + 1
      BY <2>4, <3>1 DEF AtLine
    <3>3. /\ TextEnd(request, k) \in Nat /\ Begin(request, k + 1) = TextEnd(request, k) + 2
          /\ Begin(request, k + 1) <= HeadLen(request)
      BY <2>1, <3>1, Shape
    <3> QED
      BY <2>1, <2>2, <3>2, <3>3
  <2> QED
    BY <2>3, <2>4 DEF ParseInv
<1> QED
  BY ParseInit, <1>1, <1>2, PTL DEF Spec
\* A request with a line that ends wrongly, but for one with a wrong request
\* line before it, gets no answer at all, however recv() cuts it: LINE_BAD is
\* taken for an incomplete line (http_conn.cpp:416, 463).
THEOREM WrongLineGetsNoAnswer ==
    ShortBodies =>
        (Spec => [](request.bare > 0 /\ request.line # "junk" => pc # "done"))
<1> SUFFICES ASSUME ShortBodies
             PROVE  Spec => [](request.bare > 0 /\ request.line # "junk" => pc # "done")
  OBVIOUS
<1> DEFINE Told == pc = "done" => ret \in {"GET_REQUEST", "BAD_REQUEST"}
<1>1. Init => Told
  BY DEF Init
<1>2. Told /\ [Next]_vars => Told'
  <2> SUFFICES ASSUME Told, [Next]_vars PROVE Told'
    OBVIOUS
  <2>1. CASE ReadOnce \/ BufferFull \/ EnterBody \/ ParseLine \/ Header
    BY <2>1 DEF ReadOnce, BufferFull, EnterBody, ParseLine, Header, goOn
  <2>2. CASE RequestLine \/ EmptyLine \/ Content
    BY <2>2 DEF RequestLine, EmptyLine, Content, goOn, answer
  <2>3. CASE UNCHANGED vars
    BY <2>3 DEF vars
  <2> QED
    BY <2>1, <2>2, <2>3 DEF Next, process_read
<1>3. AnswerIsRight /\ Told => (request.bare > 0 /\ request.line # "junk" => pc # "done")
  <2>1. ~(0 > 0)
    OBVIOUS
  <2> QED
    BY <2>1 DEF AnswerIsRight, WellFormed
<1>4. Spec => []AnswerIsRight
  BY AnswerIsRightHolds
<1> HIDE DEF Told
<1> QED
  BY <1>1, <1>2, <1>3, <1>4, PTL DEF Spec
=============================================================================
