--------------------------- MODULE HttpWriteProofs ---------------------------
(***************************************************************************)
(* What holds of HttpWrite for headers, pages and files of every length,   *)
(* any number of requests, and any pieces writev() makes of a response, as *)
(* long as it stops at most once inside the header.                        *)
(***************************************************************************)
EXTENDS HttpWrite, SequenceTheorems, TLAPS

OneCut == HeaderCuts <= 1

Byte == {"200", "403", "404", "form", "file", "stray"} \X Nat

(***************************************************************************)
(* The inductive invariant                                                 *)
(***************************************************************************)
\* A response is what is in m_write_buf and, for a file, the file.
Answered  == {"file", "hidden", "directory", "malformed"}
Beginning == IF target = "file" THEN Head_200 ELSE Response
Remainder == IF target = "file" THEN File ELSE <<>>

\* No request is begun: nothing is left of the response before.
Fresh == m_write_buf = <<>> /\ bytes_to_send = 0 /\ bytes_have_send = 0

\* The iovecs are at the next byte: in the header, where writev() has been
\* once if it is not at its beginning, or in the file.
InHeader ==
    /\ bytes_have_send < m_write_idx
    /\ bytes_have_send = 0 \/ cuts > 0
    /\ iv0 = iovec(bytes_have_send, m_write_idx - bytes_have_send)
    /\ target = "file" => iv1 = iovec(0, FileLen)
InFile ==
    /\ bytes_have_send >= m_write_idx
    /\ iv0.len = 0
    /\ target = "file" => iv1 = iovec(bytes_have_send - m_write_idx, bytes_to_send)

Sending ==
    /\ target \in Answered
    /\ m_write_buf = Beginning
    /\ m_iv_count = IF target = "file" THEN 2 ELSE 1
    /\ bytes_have_send \in Nat /\ bytes_to_send \in Nat \ {0}
    /\ bytes_have_send + bytes_to_send = Len(Response)
    /\ got = SubSeq(Response, 1, bytes_have_send)
    /\ InHeader \/ InFile

WriteInv ==
    /\ TypeOK
    /\ iv0 \in [base : 0 .. HeadLen + FormLen, len : Nat]
    /\ pc \in {"in", "process"} => Fresh
    /\ pc = "process" => target \in Targets /\ got = <<>> /\ cuts = 0
    /\ pc \in {"in", "told"} => got = Response
    /\ pc \in {"out", "write"} => Sending

(***************************************************************************)
(* Responses                                                               *)
(***************************************************************************)
LEMMA Consts ==
    /\ HeadLen \in Nat \ {0} /\ FormLen \in Nat \ {0} /\ FileLen \in Nat \ {0}
    /\ HeaderCuts \in Nat /\ MaxRequests \in Nat /\ Targets \subseteq AllTargets
BY HttpWriteAssumption

LEMMA PartType ==
    ASSUME NEW name \in {"200", "403", "404", "form", "file"}, NEW len \in Nat
    PROVE  Part(name, len) \in Seq(Byte) /\ Len(Part(name, len)) = len
<1>1. \A i \in 1 .. len : <<name, i>> \in Byte
  BY DEF Byte
<1>2. Part(name, len) \in [1 .. len -> Byte]
  BY <1>1 DEF Part
<1> QED
  BY <1>2

LEMMA PageType ==
    ASSUME NEW status \in {"200", "403", "404"}
    PROVE  Page(status) \in Seq(Byte) /\ Len(Page(status)) = HeadLen + FormLen
<1>1. /\ Part(status, HeadLen) \in Seq(Byte) /\ Len(Part(status, HeadLen)) = HeadLen
      /\ Part("form", FormLen) \in Seq(Byte) /\ Len(Part("form", FormLen)) = FormLen
  BY PartType, Consts
<1> QED
  BY <1>1, ConcatProperties DEF Page

\* m_write_buf and the file make the response.
LEMMA ResponseParts ==
    ASSUME target \in Answered
    PROVE  /\ Beginning \in Seq(Byte) /\ Remainder \in Seq(Byte)
           /\ Response = Beginning \o Remainder /\ Response \in Seq(Byte)
           /\ Len(Beginning) = IF target = "file" THEN HeadLen ELSE HeadLen + FormLen
           /\ Len(Remainder) = IF target = "file" THEN FileLen ELSE 0
<1>1. CASE target = "file"
  <2>1. /\ Head_200 \in Seq(Byte) /\ Len(Head_200) = HeadLen
        /\ File \in Seq(Byte) /\ Len(File) = FileLen
    BY PartType, Consts DEF Head_200, File
  <2>2. Head_200 \o File \in Seq(Byte)
    BY <2>1, ConcatProperties
  <2> QED
    BY <1>1, <2>1, <2>2 DEF Beginning, Remainder, Response
<1>2. CASE target # "file"
  <2>1. Response \in Seq(Byte) /\ Len(Response) = HeadLen + FormLen
    BY <1>2, PageType DEF Answered, Response
  <2>2. Response \o <<>> = Response
    BY <2>1, ConcatEmptySeq
  <2>3. <<>> \in Seq(Byte) /\ Len(<<>>) = 0
    BY EmptySeq
  <2> QED
    BY <1>2, <2>1, <2>2, <2>3 DEF Beginning, Remainder
<1> QED
  BY <1>1, <1>2

(***************************************************************************)
(* writev()                                                                *)
(***************************************************************************)
\* The bytes of an iovec that lies in its buffer.
LEMMA BytesInside ==
    ASSUME NEW B \in Seq(Byte), NEW base \in Nat, NEW len \in Nat, base + len <= Len(B)
    PROVE  Bytes(iovec(base, len), B) = SubSeq(B, base + 1, base + len)
<1> DEFINE G == Bytes(iovec(base, len), B)
           S == SubSeq(B, base + 1, base + len)
<1>1. G = [i \in 1 .. len |->
          IF base + i \in DOMAIN B THEN B[base + i] ELSE <<"stray", 0>>]
  BY DEF Bytes, iovec
<1>2. \A i \in 1 .. len : base + i \in DOMAIN B /\ B[base + i] \in Byte
  OBVIOUS
<1>3. G \in [1 .. len -> Byte]
  BY <1>1, <1>2
<1>4. G \in Seq(Byte) /\ Len(G) = len /\ \A i \in 1 .. len : G[i] = B[base + i]
  <2> HIDE DEF G
  <2> QED
    BY <1>1, <1>2, <1>3
<1>5. /\ S \in Seq(Byte) /\ Len(S) = IF base + 1 <= base + len THEN base + len - (base + 1) + 1 ELSE 0
      /\ \A i \in 1 .. base + len - (base + 1) + 1 : S[i] = B[base + 1 + i - 1]
  <2>1. \A i \in base + 1 .. base + len : B[i] \in Byte
    OBVIOUS
  <2> QED
    BY <2>1, SubSeqProperties
<1> HIDE DEF G, S
<1>6. Len(S) = len /\ \A i \in 1 .. len : S[i] = B[base + i]
  BY <1>5
<1>7. G = S
  BY <1>4, <1>5, <1>6, SeqEqual
<1> QED
  BY <1>7 DEF G, S

\* What is left of a response after h bytes: inside the header, and after it.
LEMMA RestInHeader ==
    ASSUME NEW W \in Seq(Byte), NEW F \in Seq(Byte), NEW h \in Nat, h < Len(W)
    PROVE  SubSeq(W, h + 1, Len(W)) \o F = SubSeq(W \o F, h + 1, Len(W \o F))
<1>1. Len(W) \in Nat /\ Len(F) \in Nat /\ W \o F \in Seq(Byte) /\ Len(W \o F) = Len(W) + Len(F)
  BY ConcatProperties, LenProperties
<1>2. SubSeq(W \o F, h + 1, Len(W)) = SubSeq(W, h + 1, Len(W))
  <2>1. h + 1 \in 1 .. Len(W) /\ Len(W) \in 1 .. Len(W)
    BY <1>1
  <2> QED
    BY <2>1, SubSeqOfConcat1
<1>3. CASE Len(F) = 0
  <2>1. F = <<>>
    BY <1>3, EmptySeq
  <2>2. W \o F = W
    BY <2>1, ConcatEmptySeq
  <2>3. \A i \in h + 1 .. Len(W) : W[i] \in Byte
    OBVIOUS
  <2>4. SubSeq(W, h + 1, Len(W)) \in Seq(Byte)
    BY <1>1, <2>3, SubSeqProperties
  <2>5. SubSeq(W, h + 1, Len(W)) \o <<>> = SubSeq(W, h + 1, Len(W))
    BY <2>4, ConcatEmptySeq
  <2> QED
    BY <2>1, <2>2, <2>5
<1>4. CASE Len(F) # 0
  <2>1. /\ Len(W) + 1 \in Len(W) + 1 .. Len(W) + Len(F)
        /\ Len(W) + Len(F) \in Len(W) + 1 .. Len(W) + Len(F)
        /\ Len(W) + 1 - Len(W) = 1 /\ Len(W) + Len(F) - Len(W) = Len(F)
    BY <1>1, <1>4
  <2>2. SubSeq(W \o F, Len(W) + 1, Len(W) + Len(F)) = SubSeq(F, 1, Len(F))
    BY <2>1, SubSeqOfConcat2
  <2>3. SubSeq(F, 1, Len(F)) = F
    BY SubSeqFull
  <2>4. /\ h + 1 \in 1 .. Len(W \o F) + 1 /\ Len(W) \in h + 1 - 1 .. Len(W \o F)
        /\ Len(W \o F) \in Len(W) .. Len(W \o F)
    BY <1>1
  <2>5. SubSeq(W \o F, h + 1, Len(W)) \o SubSeq(W \o F, Len(W) + 1, Len(W \o F))
            = SubSeq(W \o F, h + 1, Len(W \o F))
    <3> DEFINE X == W \o F
    <3>1. X \in Seq(Byte)
      BY <1>1
    <3>2. h + 1 \in 1 .. Len(X) + 1 /\ Len(W) \in h + 1 - 1 .. Len(X) /\ Len(X) \in Len(W) .. Len(X)
      BY <2>4
    <3> DEFINE m == h + 1
               k == Len(W)
    <3>3. m \in 1 .. Len(X) + 1 /\ k \in m - 1 .. Len(X) /\ Len(X) \in k .. Len(X)
      BY <3>2
    <3> HIDE DEF X, m, k
    <3>4. SubSeq(X, m, k) \o SubSeq(X, k + 1, Len(X)) = SubSeq(X, m, Len(X))
      BY <3>1, <3>3, ConcatAdjacentSubSeq
    <3> QED
      BY <3>4 DEF X, m, k
  <2> QED
    BY <1>1, <1>2, <2>2, <2>3, <2>5
<1> QED
  BY <1>3, <1>4

LEMMA RestInFile ==
    ASSUME NEW W \in Seq(Byte), NEW F \in Seq(Byte), NEW h \in Nat,
           h >= Len(W), h < Len(W) + Len(F)
    PROVE  SubSeq(F, h - Len(W) + 1, Len(F)) = SubSeq(W \o F, h + 1, Len(W \o F))
<1>1. Len(W) \in Nat /\ Len(F) \in Nat /\ Len(W \o F) = Len(W) + Len(F)
  BY ConcatProperties, LenProperties
<1>2. /\ h + 1 \in Len(W) + 1 .. Len(W) + Len(F)
      /\ Len(W) + Len(F) \in Len(W) + 1 .. Len(W) + Len(F)
      /\ h + 1 - Len(W) = h - Len(W) + 1 /\ Len(W) + Len(F) - Len(W) = Len(F)
  BY <1>1
<1>3. SubSeq(W \o F, h + 1, Len(W) + Len(F)) = SubSeq(F, h + 1 - Len(W), Len(W) + Len(F) - Len(W))
  BY <1>2, SubSeqOfConcat2
<1> QED
  BY <1>1, <1>2, <1>3

\* What writev() would send is what is left of the response.
LEMMA GatheredIsRest ==
    ASSUME Sending
    PROVE  Gathered = SubSeq(Response, bytes_have_send + 1, Len(Response))
<1>r. /\ m_write_buf \in Seq(Byte) /\ Remainder \in Seq(Byte)
      /\ Response = m_write_buf \o Remainder
      /\ m_write_idx = Len(m_write_buf) /\ Len(m_write_buf) \in Nat
      /\ Len(Remainder) = IF target = "file" THEN FileLen ELSE 0
      /\ Len(Response) = Len(m_write_buf) + Len(Remainder)
  <2>1. /\ m_write_buf \in Seq(Byte) /\ Remainder \in Seq(Byte)
        /\ Response = m_write_buf \o Remainder
        /\ Len(Remainder) = IF target = "file" THEN FileLen ELSE 0
    BY ResponseParts DEF Sending
  <2> QED
    BY <2>1, ConcatProperties, LenProperties DEF m_write_idx
<1>h. /\ bytes_have_send \in Nat /\ bytes_to_send \in Nat \ {0}
      /\ bytes_have_send + bytes_to_send = Len(Response)
  BY DEF Sending
<1>f. FileLen \in Nat \ {0}
  BY Consts
<1>1. CASE InHeader
  <2>1. Bytes(iv0, m_write_buf) = SubSeq(m_write_buf, bytes_have_send + 1, Len(m_write_buf))
    <3>1. /\ iv0 = iovec(bytes_have_send, Len(m_write_buf) - bytes_have_send)
          /\ bytes_have_send < Len(m_write_buf)
      BY <1>1, <1>r DEF InHeader
    <3>2. /\ Len(m_write_buf) - bytes_have_send \in Nat
          /\ bytes_have_send + (Len(m_write_buf) - bytes_have_send) = Len(m_write_buf)
      BY <3>1, <1>r, <1>h
    <3>3. bytes_have_send + (Len(m_write_buf) - bytes_have_send) <= Len(m_write_buf)
      BY <3>2, <1>r
    <3>4. Bytes(iovec(bytes_have_send, Len(m_write_buf) - bytes_have_send), m_write_buf)
            = SubSeq(m_write_buf, bytes_have_send + 1,
                     bytes_have_send + (Len(m_write_buf) - bytes_have_send))
      <4>1. m_write_buf \in Seq(Byte) /\ bytes_have_send \in Nat
        BY <1>r, <1>h
      <4> QED
        BY <3>2, <3>3, <4>1, BytesInside
    <3> QED
      BY <3>1, <3>2, <3>4
  <2>2. (IF m_iv_count = 2 THEN Bytes(iv1, File) ELSE <<>>) = Remainder
    <3>1. CASE target = "file"
      <4>1. m_iv_count = 2 /\ iv1 = iovec(0, FileLen) /\ Remainder = File /\ Len(File) = FileLen
        BY <1>1, <1>r, <3>1 DEF InHeader, Sending, Remainder
      <4>2. File \in Seq(Byte) /\ 0 \in Nat /\ 0 + FileLen = FileLen /\ 0 + 1 = 1
        BY <1>r, <1>f, <4>1
      <4>3. Bytes(iv1, File) = SubSeq(File, 1, FileLen)
        BY <4>1, <4>2, <1>f, BytesInside
      <4> QED
        BY <4>1, <4>2, <4>3, SubSeqFull
    <3>2. CASE target # "file"
      BY <3>2 DEF Sending, Remainder
    <3> QED
      BY <3>1, <3>2
  <2>3. bytes_have_send < Len(m_write_buf)
    BY <1>1, <1>r DEF InHeader
  <2>4. SubSeq(m_write_buf, bytes_have_send + 1, Len(m_write_buf)) \o Remainder
            = SubSeq(Response, bytes_have_send + 1, Len(Response))
    BY <1>r, <1>h, <2>3, RestInHeader
  <2> QED
    BY <2>1, <2>2, <2>4 DEF Gathered
<1>2. CASE InFile
  <2>1. bytes_have_send >= Len(m_write_buf) /\ iv0.len = 0
    BY <1>2, <1>r DEF InFile
  <2>2. target = "file"
    <3>1. Len(Remainder) # 0
      BY <2>1, <1>h, <1>r
    <3> QED
      BY <3>1, <1>r
  <2>3. /\ m_iv_count = 2 /\ Remainder = File /\ File \in Seq(Byte)
        /\ iv1 = iovec(bytes_have_send - Len(m_write_buf), bytes_to_send)
    BY <1>2, <1>r, <2>2 DEF InFile, Sending, Remainder
  <2>4. /\ bytes_have_send - Len(m_write_buf) \in Nat
        /\ bytes_have_send - Len(m_write_buf) + bytes_to_send = Len(File)
        /\ bytes_have_send < Len(m_write_buf) + Len(File)
    BY <1>h, <1>r, <2>1, <2>3
  <2>5. Bytes(iv1, File) = SubSeq(File, bytes_have_send - Len(m_write_buf) + 1, Len(File))
    BY <1>h, <2>3, <2>4, BytesInside
  <2>6. Bytes(iv1, File) = SubSeq(Response, bytes_have_send + 1, Len(Response))
    BY <1>r, <1>h, <2>1, <2>3, <2>4, <2>5, RestInFile
  <2>7. Bytes(iv0, m_write_buf) = <<>>
    BY <2>1 DEF Bytes
  <2>8. Bytes(iv1, File) \in Seq(Byte)
    <3>1. Response \in Seq(Byte)
      BY <1>r, ConcatProperties
    <3>2. /\ \A i \in bytes_have_send + 1 .. Len(Response) : Response[i] \in Byte
          /\ bytes_have_send + 1 \in Int /\ Len(Response) \in Int
      BY <3>1, <1>h
    <3> HIDE DEF Response
    <3> QED
      BY <3>2, <2>6, SubSeqProperties
  <2>9. <<>> \o Bytes(iv1, File) = Bytes(iv1, File)
    BY <2>8, ConcatEmptySeq
  <2> QED
    BY <2>3, <2>6, <2>7, <2>9 DEF Gathered
<1> QED
  BY <1>1, <1>2 DEF Sending

\* n bytes more of a response.
LEMMA NextBytes ==
    ASSUME NEW R \in Seq(Byte), NEW h \in Nat, h < Len(R), NEW n \in 1 .. Len(R) - h
    PROVE  SubSeq(R, 1, h) \o SubSeq(SubSeq(R, h + 1, Len(R)), 1, n) = SubSeq(R, 1, h + n)
<1>0. Len(R) \in Nat
  BY LenProperties
<1>1. /\ h + 1 \in 1 .. Len(R) /\ Len(R) \in 1 .. Len(R)
      /\ 1 \in 1 .. Len(R) - (h + 1) + 1 /\ n \in 1 .. Len(R) - (h + 1) + 1
      /\ h + 1 + 1 - 1 = h + 1 /\ h + 1 + n - 1 = h + n
  BY <1>0
<1>2. SubSeq(SubSeq(R, h + 1, Len(R)), 1, n) = SubSeq(R, h + 1 + 1 - 1, h + 1 + n - 1)
  BY <1>1, SubSeqOfSubSeq
<1>3. 1 \in 1 .. Len(R) + 1 /\ h \in 1 - 1 .. Len(R) /\ h + n \in h .. Len(R)
  BY <1>0
<1>4. SubSeq(R, 1, h) \o SubSeq(R, h + 1, h + n) = SubSeq(R, 1, h + n)
  BY <1>3, ConcatAdjacentSubSeq
<1> QED
  BY <1>1, <1>2, <1>4

\* writev() moves the iovecs on to the next byte.
LEMMA SentAdvances ==
    ASSUME OneCut, Sending, iv0 \in [base : 0 .. HeadLen + FormLen, len : Nat],
           cuts \in 0 .. HeaderCuts, NEW n \in 0 .. bytes_to_send, Sent(n)
    PROVE  /\ n \in 1 .. bytes_to_send
           /\ got' = SubSeq(Response, 1, bytes_have_send + n)
           /\ cuts' \in 0 .. HeaderCuts
           /\ iv0' \in [base : 0 .. HeadLen + FormLen, len : Nat]
           /\ iv0'.base <= m_write_idx \/ iv0'.base = iv0.base
           /\ (/\ bytes_have_send' = bytes_have_send + n
               /\ bytes_to_send' = bytes_to_send - n
               /\ m_write_buf' = m_write_buf) => (InHeader \/ InFile)'
<1>r. /\ Response \in Seq(Byte) /\ Len(Response) \in Nat
      /\ m_write_idx \in 0 .. HeadLen + FormLen
      /\ HeadLen \in Nat /\ FormLen \in Nat
  BY ResponseParts, Consts, LenProperties DEF Sending, m_write_idx
<1>h. /\ bytes_have_send \in Nat /\ bytes_to_send \in Nat \ {0}
      /\ bytes_have_send + bytes_to_send = Len(Response)
      /\ got = SubSeq(Response, 1, bytes_have_send)
  BY DEF Sending
<1>g. Len(Gathered) = bytes_to_send
  <2>1. /\ \A i \in bytes_have_send + 1 .. Len(Response) : Response[i] \in Byte
        /\ bytes_have_send + 1 \in Int /\ Len(Response) \in Int
        /\ bytes_have_send + 1 <= Len(Response)
    BY <1>r, <1>h
  <2>2. Len(SubSeq(Response, bytes_have_send + 1, Len(Response)))
            = Len(Response) - (bytes_have_send + 1) + 1
    BY <2>1, SubSeqProperties
  <2>3. Len(Response) - (bytes_have_send + 1) + 1 = bytes_to_send
    BY <1>r, <1>h
  <2> QED
    BY <2>2, <2>3, GatheredIsRest
<1>1. n \in 1 .. bytes_to_send
  <2>1. Gathered # <<>>
    BY <1>g, <1>h
  <2> QED
    BY <1>g, <2>1 DEF Sent, MaySend
<1>2. got' = SubSeq(Response, 1, bytes_have_send + n)
  <2>1. bytes_have_send < Len(Response) /\ n \in 1 .. Len(Response) - bytes_have_send
    BY <1>1, <1>h, <1>r
  <2>2. SubSeq(Response, 1, bytes_have_send)
            \o SubSeq(SubSeq(Response, bytes_have_send + 1, Len(Response)), 1, n)
            = SubSeq(Response, 1, bytes_have_send + n)
    BY <1>r, <1>h, <2>1, NextBytes
  <2> QED
    BY <1>h, <2>2, GatheredIsRest DEF Sent
<1>c. HeaderCuts \in Nat /\ HeaderCuts <= 1 /\ cuts \in Nat
  BY Consts DEF OneCut
<1>3. cuts' \in 0 .. HeaderCuts
  BY <1>c DEF Sent, MaySend
<1>v. Advance(bytes_have_send + n, bytes_to_send - n)
  BY DEF Sent
<1>a. /\ bytes_have_send + n < m_write_idx => cuts = 0 /\ cuts' > 0
      /\ target' = target
  BY <1>c DEF Sent, MaySend
<1>4. CASE bytes_have_send + n < m_write_idx
  <2>1. cuts = 0 /\ cuts' > 0
    BY <1>4, <1>a
  <2>2. ~InFile
    BY <1>4, <1>1, <1>h, <1>r DEF InFile
  <2>3. bytes_have_send = 0 /\ iv0 = iovec(0, m_write_idx)
        /\ (target = "file" => iv1 = iovec(0, FileLen))
    <3>1. InHeader
      BY <2>2 DEF Sending
    <3>2. bytes_have_send = 0
      BY <3>1, <2>1, <1>h DEF InHeader
    <3>3. m_write_idx - 0 = m_write_idx
      BY <1>r
    <3> QED
      BY <3>1, <3>2, <3>3 DEF InHeader
  <2>4. iv0.len = m_write_idx
    BY <2>3 DEF iovec
  <2>5. ~(bytes_have_send + n >= iv0.len)
    BY <2>4, <1>4, <1>1, <1>h, <1>r
  <2>6. iv0' = iovec(bytes_have_send + n, m_write_idx - (bytes_have_send + n)) /\ iv1' = iv1
    BY <1>v, <2>4, <2>5 DEF Advance
  <2>7. /\ bytes_have_send + n \in 0 .. HeadLen + FormLen
        /\ m_write_idx - (bytes_have_send + n) \in Nat
    BY <1>4, <1>1, <1>h, <1>r
  <2>8. iv0' \in [base : 0 .. HeadLen + FormLen, len : Nat] /\ iv0'.base <= m_write_idx
    <3>1. bytes_have_send + n <= m_write_idx
      BY <1>4, <1>1, <1>h, <1>r
    <3>2. iv0'.base = bytes_have_send + n
      BY <2>6 DEF iovec
    <3>3. iv0' \in [base : 0 .. HeadLen + FormLen, len : Nat]
      BY <2>6, <2>7 DEF iovec
    <3> QED
      BY <3>1, <3>2, <3>3
  <2>9. ASSUME bytes_have_send' = bytes_have_send + n, m_write_buf' = m_write_buf
        PROVE  InHeader'
    <3>1. m_write_idx' = m_write_idx
      BY <2>9 DEF m_write_idx
    <3>2. (target = "file" => iv1 = iovec(0, FileLen))'
      BY <2>3, <2>6, <1>a DEF iovec
    <3>3. iv0' = iovec(bytes_have_send', m_write_idx' - bytes_have_send')
      BY <2>6, <2>9, <3>1
    <3>4. bytes_have_send' < m_write_idx' /\ cuts' > 0
      BY <1>4, <2>1, <2>9, <3>1
    <3> QED
      BY <3>2, <3>3, <3>4 DEF InHeader, iovec
  <2> QED
    BY <1>1, <1>2, <1>3, <2>8, <2>9
<1>5. CASE ~(bytes_have_send + n < m_write_idx)
  <2>1. bytes_have_send + n >= iv0.len
    <3>1. CASE InHeader
      <4>1. iv0.len = m_write_idx - bytes_have_send
        BY <3>1 DEF InHeader, iovec
      <4> QED
        BY <4>1, <1>1, <1>5, <1>h, <1>r
    <3>2. CASE InFile
      BY <3>2, <1>1, <1>h DEF InFile
    <3> QED
      BY <3>1, <3>2 DEF Sending
  <2>2. /\ iv0' = [iv0 EXCEPT !.len = 0]
        /\ iv1' = iovec((bytes_have_send + n) - m_write_idx, bytes_to_send - n)
    <3>1. ~(bytes_have_send + n < iv0.len)
      <4>1. iv0.len \in Nat
        OBVIOUS
      <4> QED
        BY <4>1, <2>1, <1>1, <1>h
    <3> DEFINE have == bytes_have_send + n
    <3>2. ~(have < iv0.len) /\ Advance(have, bytes_to_send - n)
      BY <1>v, <3>1
    <3>3. FileOffset(have) = have - m_write_idx
      BY DEF FileOffset
    <3> HIDE DEF have
    <3>4. iv0' = [iv0 EXCEPT !.len = 0] /\ iv1' = iovec(FileOffset(have), bytes_to_send - n)
      BY <3>2 DEF Advance
    <3> QED
      BY <3>3, <3>4 DEF have
  <2>3. /\ iv0' \in [base : 0 .. HeadLen + FormLen, len : Nat]
        /\ iv0'.base = iv0.base /\ iv0'.len = 0
    BY <2>2
  <2>4. ASSUME bytes_have_send' = bytes_have_send + n, bytes_to_send' = bytes_to_send - n,
               m_write_buf' = m_write_buf
        PROVE  InFile'
    <3>1. m_write_idx' = m_write_idx
      BY <2>4 DEF m_write_idx
    <3>2. iv1' = iovec(bytes_have_send' - m_write_idx', bytes_to_send')
      <4>1. iv1' = iovec((bytes_have_send + n) - m_write_idx, bytes_to_send - n)
        BY <2>2
      <4> QED
        BY <4>1, <2>4, <3>1
    <3>3. bytes_have_send' >= m_write_idx'
      BY <1>5, <1>1, <1>h, <1>r, <2>4, <3>1
    <3> QED
      BY <2>3, <3>2, <3>3 DEF InFile, iovec
  <2> QED
    BY <1>1, <1>2, <1>3, <2>3, <2>4
<1> QED
  BY <1>4, <1>5

(***************************************************************************)
(* The invariant is inductive                                              *)
(***************************************************************************)
LEMMA ResponseSame ==
    ASSUME target' = target
    PROVE  Response' = Response /\ Beginning' = Beginning
BY DEF Response, Beginning, Page, Part, Head_200, File

LEMMA SendingSame ==
    ASSUME Sending, UNCHANGED <<target, cuts, got, buffers>>
    PROVE  Sending'
<1>1. Response' = Response /\ Beginning' = Beginning
  BY ResponseSame
<1>2. InHeader => InHeader'
  BY DEF InHeader, m_write_idx, buffers, iovec
<1>3. InFile => InFile'
  BY DEF InFile, m_write_idx, buffers, iovec
<1> QED
  BY <1>1, <1>2, <1>3 DEF Sending, Answered, buffers

(***************************************************************************)
(* Mappings                                                                *)
(***************************************************************************)
\* While a file is sent m_file_address is its mapping, and every mapping more
\* is one a client left behind.
MappingInv ==
    /\ MappingTypes /\ MappingReleased
    /\ m_file_address = "mapped" => mappings > 0
    /\ pc \in {"out", "write"} /\ target = "file" => m_file_address = "mapped"

LEMMA MappingInit == Init => MappingInv
BY DEF Init, MappingInv, MappingTypes, MappingReleased

LEMMA MappingStep == MappingInv /\ [Next]_vars => MappingInv'
<1> SUFFICES ASSUME MappingInv, [Next]_vars PROVE MappingInv'
  OBVIOUS
<1> USE DEF MappingInv, MappingTypes, MappingReleased
<1>1. CASE UNCHANGED mapping /\ target' = target /\ pc' \in {"out", "write"} /\ pc \in {"out", "write"}
  BY <1>1 DEF mapping
<1>2. CASE UNCHANGED mapping /\ pc' \notin {"out", "write"} /\ pc \notin {"out", "write"}
  BY <1>2 DEF mapping
<1>3. CASE Request \/ Accept
  BY <1>2, <1>3 DEF Request, Accept
<1>4. CASE HangUp
  BY <1>4 DEF HangUp
<1>5. CASE SendFile
  BY <1>5 DEF SendFile
<1>6. CASE SendErrorPage
  BY <1>6 DEF SendErrorPage, mapping, do_requset
<1>7. CASE NoResponse
  BY <1>7 DEF NoResponse
<1>8. CASE Writable \/ WouldBlock
  BY <1>1, <1>8 DEF Writable, WouldBlock
<1>9. CASE WritePart
  BY <1>1, <1>9 DEF WritePart, Sent
<1>10. CASE WriteRest \/ WriteFails
  <2>1. /\ pc = "write" /\ pc' \notin {"out", "write"}
        /\ unmap /\ abandoned' = abandoned
    BY <1>10 DEF WriteRest, WriteFails
  <2> QED
    BY <2>1 DEF unmap
<1>11. CASE UNCHANGED vars
  BY <1>11 DEF vars, mapping
<1> QED
  BY <1>3, <1>4, <1>5, <1>6, <1>7, <1>8, <1>9, <1>10, <1>11 DEF Next, process_write, write

LEMMA TypeSame ==
    ASSUME TypeOK, iv0 \in [base : 0 .. HeadLen + FormLen, len : Nat],
           UNCHANGED <<requests, cuts, m_linger, buffers>>,
           pc' \in {"in", "out", "told", "process", "write", "dropped", "closed"},
           target' = target, MappingTypes'
    PROVE  TypeOK' /\ iv0' \in [base : 0 .. HeadLen + FormLen, len : Nat]
BY DEF TypeOK, m_write_idx, buffers

LEMMA WriteInit == Init => WriteInv
<1> SUFFICES ASSUME Init PROVE WriteInv
  OBVIOUS
<1>1. TypeOK
  <2>1. m_write_idx = 0
    BY DEF Init, m_write_idx
  <2> QED
    <3>1. /\ 0 \in 0 .. HeadLen + FormLen + FileLen /\ 0 \in 0 .. HeaderCuts
          /\ 0 \in 0 .. MaxRequests /\ 0 \in 0 .. 2 /\ FALSE \in BOOLEAN
      BY Consts
    <3>2. MappingTypes
      BY MappingInit DEF MappingInv
    <3> QED
      BY <2>1, <3>1, <3>2 DEF Init, TypeOK
<1>2. iv0 \in [base : 0 .. HeadLen + FormLen, len : Nat]
  BY Consts DEF Init, iovec
<1>3. pc = "in" /\ Fresh /\ got = Response
  BY DEF Init, Fresh, Response
<1> QED
  BY <1>1, <1>2, <1>3 DEF WriteInv

\* A response that fills the empty buffer B and, for a file, is followed by it.
LEMMA ResponseBegins ==
    ASSUME Fresh, got = <<>>, target \in Answered, UNCHANGED <<target, got, bytes_have_send>>,
           m_write_buf' = Beginning, iv0' = iovec(0, Len(Beginning)),
           m_iv_count' = IF target = "file" THEN 2 ELSE 1,
           target = "file" => iv1' = iovec(0, FileLen),
           bytes_to_send' = Len(Beginning) + Len(Remainder)
    PROVE  Sending'
<1>1. /\ Response' = Response /\ Beginning' = Beginning
      /\ target' = target /\ got' = <<>> /\ bytes_have_send' = 0
  BY ResponseSame DEF Fresh
<1>2. /\ Beginning \in Seq(Byte) /\ Remainder \in Seq(Byte)
      /\ Response = Beginning \o Remainder
      /\ Len(Beginning) \in Nat \ {0} /\ Len(Remainder) \in Nat
  BY ResponseParts, Consts
<1>3. Len(Response) = Len(Beginning) + Len(Remainder)
  BY <1>2, ConcatProperties
<1>4. bytes_to_send' \in Nat \ {0} /\ bytes_have_send' + bytes_to_send' = Len(Response')
  BY <1>1, <1>2, <1>3
<1>5. got' = SubSeq(Response', 1, bytes_have_send')
  BY <1>1, SubSeqEmpty
<1>6. InHeader'
  <2>1. m_write_idx' = Len(Beginning) /\ Len(Beginning) - 0 = Len(Beginning)
    BY <1>2 DEF m_write_idx
  <2>2. bytes_have_send' < m_write_idx'
    BY <1>1, <1>2, <2>1
  <2>3. iv0' = iovec(bytes_have_send', m_write_idx' - bytes_have_send')
    BY <1>1, <2>1
  <2> QED
    BY <1>1, <2>2, <2>3 DEF InHeader, iovec
<1> QED
  BY <1>1, <1>4, <1>5, <1>6 DEF Sending, Answered

LEMMA WriteStep ==
    ASSUME OneCut, WriteInv, MappingTypes', [Next]_vars
    PROVE  WriteInv'
<1>m. MappingTypes'
  OBVIOUS
<1> DEFINE IovecType == iv0 \in [base : 0 .. HeadLen + FormLen, len : Nat]
<1>t. TypeOK /\ IovecType
  BY DEF WriteInv
<1>c. /\ HeadLen \in Nat \ {0} /\ FormLen \in Nat \ {0} /\ FileLen \in Nat \ {0}
      /\ HeaderCuts \in Nat /\ MaxRequests \in Nat /\ Targets \subseteq AllTargets
  BY Consts
<1>1. CASE Request
  <2>1. Fresh
    BY <1>1 DEF WriteInv, Request
  <2>2. Fresh'
    BY <1>1, <2>1 DEF Request, Fresh, buffers
  <2>3. pc' = "process" /\ target' \in Targets /\ got' = <<>> /\ cuts' = 0
    BY <1>1 DEF Request
  <2>4. TypeOK' /\ IovecType'
    <3>1. m_write_idx' = m_write_idx
      BY <1>1 DEF Request, buffers, m_write_idx
    <3>2. requests' \in 0 .. MaxRequests
      BY <1>1, <1>t, <1>c DEF Request, TypeOK
    <3>3. m_linger' \in BOOLEAN
      BY <1>1 DEF Request
    <3>4. cuts' \in 0 .. HeaderCuts
      BY <2>3, <1>c
    <3> QED
      BY <1>1, <1>t, <1>m, <2>3, <3>1, <3>2, <3>3, <3>4 DEF Request, buffers, TypeOK
  <2> QED
    BY <2>2, <2>3, <2>4 DEF WriteInv
<1>2. CASE HangUp
  <2>1. pc' = "closed" /\ TypeOK' /\ IovecType'
    BY <1>2, <1>t, <1>m, TypeSame DEF HangUp, TypeOK
  <2> QED
    BY <2>1 DEF WriteInv
<1>3. CASE Accept
  <2>1. /\ pc' = "in" /\ target' = "none" /\ got' = <<>> /\ cuts' = 0
        /\ m_linger' = FALSE /\ m_write_buf' = <<>> /\ bytes_to_send' = 0 /\ bytes_have_send' = 0
    BY <1>3 DEF Accept, init
  <2>2. Fresh' /\ got' = Response'
    BY <2>1 DEF Fresh, Response
  <2>3. m_write_idx' = 0
    BY <2>1 DEF m_write_idx
  <2>5. TypeOK' /\ IovecType'
    <3>1. 0 \in 0 .. HeadLen + FormLen + FileLen /\ 0 \in 0 .. HeaderCuts /\ FALSE \in BOOLEAN
      BY <1>c
    <3>2. UNCHANGED <<requests, iv0, m_iv_count>>
      BY <1>3 DEF Accept
    <3> QED
      BY <1>t, <1>m, <2>1, <2>3, <3>1, <3>2 DEF TypeOK
  <2> QED
    BY <2>1, <2>2, <2>5 DEF WriteInv
<1>4. CASE SendFile
  <2>1. /\ target = "file" /\ Fresh /\ got = <<>> /\ cuts = 0 /\ m_write_buf = <<>>
    BY <1>4 DEF SendFile, WriteInv, Fresh
  <2>2. Head_200 \in Seq(Byte) /\ Len(Head_200) = HeadLen
    BY PartType, <1>c DEF Head_200
  <2>3. m_write_buf' = Head_200
    BY <1>4, <2>1, <2>2, ConcatEmptySeq DEF SendFile, add_response
  <2>4. /\ Beginning = Head_200 /\ Len(Remainder) = FileLen /\ target \in Answered
    BY <2>1, ResponseParts DEF Beginning, Answered
  <2>5. Sending'
    BY <1>4, <2>1, <2>2, <2>3, <2>4, ResponseBegins DEF SendFile
  <2>6. TypeOK' /\ IovecType'
    <3>1. m_write_idx' = HeadLen
      BY <2>2, <2>3 DEF m_write_idx
    <3>2. /\ iv0' = iovec(0, HeadLen) /\ bytes_to_send' = HeadLen + FileLen
          /\ bytes_have_send' = bytes_have_send /\ m_iv_count' = 2
      BY <1>4, <2>2, <2>3 DEF SendFile
    <3>3. iv0'.base = 0 /\ IovecType'
      BY <3>2, <1>c DEF iovec
    <3>4. /\ bytes_to_send' \in 0 .. HeadLen + FormLen + FileLen
          /\ 0 \in 0 .. m_write_idx'
      BY <3>1, <3>2, <1>c
    <3> QED
      BY <1>4, <1>t, <3>1, <3>2, <3>3, <3>4 DEF SendFile, TypeOK
  <2>7. pc' = "out"
    BY <1>4 DEF SendFile
  <2> QED
    BY <2>5, <2>6, <2>7 DEF WriteInv
<1>5. CASE SendErrorPage
  <2>1. /\ Fresh /\ got = <<>> /\ cuts = 0 /\ m_write_buf = <<>>
        /\ target \in Targets
    BY <1>5 DEF SendErrorPage, WriteInv, Fresh
  <2>2. target \in {"hidden", "directory", "malformed"}
    BY <1>5, <2>1, <1>c DEF SendErrorPage, do_requset, AllTargets
  <2> DEFINE P == Page(IF target = "hidden" THEN "403" ELSE "404")
  <2>3. P \in Seq(Byte) /\ Len(P) = HeadLen + FormLen
    BY PageType
  <2>4. Beginning = P /\ Len(Remainder) = 0 /\ target \in Answered
    BY <2>2, ResponseParts DEF Beginning, Response, Answered
  <2>5. m_write_buf' = m_write_buf \o P
    BY <1>5 DEF SendErrorPage, add_response
  <2> HIDE DEF P
  <2>6. m_write_buf' = P
    BY <2>1, <2>3, <2>5, ConcatEmptySeq
  <2>7. /\ iv0' = iovec(0, Len(P)) /\ bytes_to_send' = Len(P) /\ m_iv_count' = 1
        /\ UNCHANGED <<target, got, bytes_have_send>>
    BY <1>5, <2>6 DEF SendErrorPage
  <2>8. Sending'
    <3>1. target # "file"
      BY <2>2
    <3>2. bytes_to_send' = Len(Beginning) + Len(Remainder)
      BY <2>3, <2>4, <2>7, <1>c
    <3> QED
      BY <2>1, <2>4, <2>6, <2>7, <3>1, <3>2, ResponseBegins
  <2>9. TypeOK' /\ IovecType'
    <3>1. m_write_idx' = HeadLen + FormLen
      BY <2>3, <2>6 DEF m_write_idx
    <3>2. iv0'.base = 0 /\ IovecType'
      BY <2>3, <2>7, <1>c DEF iovec
    <3>3. /\ bytes_to_send' \in 0 .. HeadLen + FormLen + FileLen
          /\ 0 \in 0 .. m_write_idx'
      BY <2>3, <2>7, <3>1, <1>c
    <3> QED
      BY <1>5, <1>t, <2>7, <3>1, <3>2, <3>3 DEF SendErrorPage, TypeOK
  <2>10. pc' = "out"
    BY <1>5 DEF SendErrorPage
  <2> QED
    BY <2>8, <2>9, <2>10 DEF WriteInv
<1>6. CASE NoResponse
  <2>1. Fresh /\ m_write_buf = <<>>
    BY <1>6 DEF NoResponse, WriteInv, Fresh
  <2>2. m_write_idx' \in {0, HeadLen + FormLen}
    <3>1. Len(<<>>) = 0
      BY EmptySeq
    <3>2. Page("200") \in Seq(Byte) /\ Len(Page("200")) = HeadLen + FormLen
      BY PageType
    <3>3. <<>> \o Page("200") = Page("200")
      BY <3>2, ConcatEmptySeq
    <3> QED
      BY <1>6, <2>1, <3>1, <3>2, <3>3 DEF NoResponse, add_response, m_write_idx
  <2>3. iv0' = iv0 /\ IovecType'
    BY <1>6, <1>t DEF NoResponse
  <2>4. iv0'.base \in 0 .. m_write_idx' \/ m_write_idx' = 0
    BY <2>2, <2>3, <1>c
  <2>6. TypeOK' /\ pc' = "dropped"
    BY <1>6, <1>t, <1>m, <2>2, <2>4 DEF NoResponse, TypeOK
  <2> QED
    BY <2>3, <2>6 DEF WriteInv
<1>7. CASE Writable
  <2>1. Sending
    BY <1>7 DEF Writable, WriteInv
  <2>2. Sending'
    BY <1>7, <2>1, SendingSame DEF Writable
  <2>3. pc' = "write" /\ TypeOK' /\ IovecType'
    BY <1>7, <1>t, <1>m, TypeSame DEF Writable, TypeOK
  <2> QED
    BY <2>2, <2>3 DEF WriteInv
<1>8. CASE WritePart
  <2>1. Sending /\ pc = "write"
    BY <1>8 DEF WritePart, WriteInv
  <2>2. /\ bytes_have_send \in Nat /\ bytes_to_send \in Nat \ {0}
        /\ bytes_have_send + bytes_to_send = Len(Response)
    BY <2>1 DEF Sending
  <2>3. PICK n \in 0 .. bytes_to_send - 1 :
            /\ Sent(n)
            /\ bytes_have_send' = bytes_have_send + n
            /\ bytes_to_send' = bytes_to_send - n
    BY <1>8 DEF WritePart
  <2>4. /\ pc' = pc /\ m_linger' = m_linger /\ m_write_buf' = m_write_buf
        /\ UNCHANGED <<target, requests, m_iv_count>>
    BY <1>8, <2>3 DEF WritePart, Sent
  <2>5. n \in 0 .. bytes_to_send
    BY <2>2
  <2>6. cuts \in 0 .. HeaderCuts
    BY <1>t DEF TypeOK
  <2>7. /\ n \in 1 .. bytes_to_send
        /\ got' = SubSeq(Response, 1, bytes_have_send + n)
        /\ cuts' \in 0 .. HeaderCuts
        /\ IovecType'
        /\ iv0'.base <= m_write_idx \/ iv0'.base = iv0.base
        /\ (InHeader \/ InFile)'
    BY <2>1, <2>3, <2>4, <2>5, <2>6, <1>t, SentAdvances
  <2>8. /\ bytes_have_send' \in Nat /\ bytes_to_send' \in Nat \ {0}
        /\ bytes_have_send' + bytes_to_send' = Len(Response)
    BY <2>2, <2>3, <2>7
  <2>9. Sending'
    <3>1. Response' = Response /\ Beginning' = Beginning
      BY <2>4, ResponseSame
    <3>2. got' = SubSeq(Response', 1, bytes_have_send')
      BY <2>3, <2>7, <3>1
    <3> QED
      BY <2>1, <2>4, <2>7, <2>8, <3>1, <3>2 DEF Sending, Answered
  <2>10. TypeOK'
    <3>1. m_write_idx' = m_write_idx /\ m_write_idx \in {0, HeadLen, HeadLen + FormLen}
      BY <1>t, <2>4 DEF m_write_idx, TypeOK
    <3>2. iv0'.base \in 0 .. m_write_idx' \/ m_write_idx' = 0
      <4>1. iv0'.base \in Nat
        BY <2>7, <1>c
      <4>2. iv0.base \in 0 .. m_write_idx \/ m_write_idx = 0
        BY <1>t DEF TypeOK
      <4> QED
        BY <4>1, <4>2, <3>1, <2>7, <1>c
    <3>3. /\ bytes_have_send' \in 0 .. HeadLen + FormLen + FileLen
          /\ bytes_to_send' \in 0 .. HeadLen + FormLen + FileLen
      <4>1. Len(Response) <= HeadLen + FormLen + FileLen
        BY <2>1, <1>c, ResponseParts, ConcatProperties DEF Sending
      <4> QED
        BY <4>1, <2>2, <2>8, <1>c
    <3> QED
      BY <1>t, <1>m, <2>4, <2>7, <3>1, <3>2, <3>3 DEF TypeOK
  <2> QED
    BY <2>1, <2>4, <2>7, <2>9, <2>10 DEF WriteInv
<1>9. CASE WriteRest
  <2>1. Sending /\ pc = "write"
    BY <1>9 DEF WriteRest, WriteInv
  <2>2. /\ bytes_have_send \in Nat /\ bytes_to_send \in Nat \ {0}
        /\ bytes_have_send + bytes_to_send = Len(Response)
    BY <2>1 DEF Sending
  <2>3. Sent(bytes_to_send) /\ UNCHANGED <<target, requests, m_iv_count>>
    BY <1>9 DEF WriteRest, Sent
  <2>4. bytes_to_send \in 0 .. bytes_to_send /\ cuts \in 0 .. HeaderCuts
    BY <2>2, <1>t DEF TypeOK
  <2>5. /\ got' = SubSeq(Response, 1, bytes_have_send + bytes_to_send)
        /\ cuts' \in 0 .. HeaderCuts
        /\ IovecType'
        /\ iv0'.base <= m_write_idx \/ iv0'.base = iv0.base
    BY <2>1, <2>3, <2>4, <1>t, SentAdvances
  <2>6. got' = Response'
    <3>1. Response \in Seq(Byte)
      BY <2>1, ResponseParts DEF Sending
    <3> QED
      BY <2>2, <2>3, <2>5, <3>1, SubSeqFull, ResponseSame
  <2>7. Len(Response) <= HeadLen + FormLen + FileLen
    BY <2>1, <1>c, ResponseParts, ConcatProperties DEF Sending
  <2>8. CASE m_linger /\ init /\ pc' = "in"
    <3>1. /\ m_linger' = FALSE /\ m_write_buf' = <<>>
          /\ bytes_to_send' = 0 /\ bytes_have_send' = 0
      BY <2>8 DEF init
    <3>2. m_write_idx' = 0 /\ Fresh'
      BY <3>1 DEF m_write_idx, Fresh
    <3>3. TypeOK'
      <4>1. 0 \in 0 .. HeadLen + FormLen + FileLen /\ FALSE \in BOOLEAN
        BY <1>c
      <4> QED
        BY <1>t, <1>m, <2>3, <2>5, <2>8, <3>1, <3>2, <4>1 DEF TypeOK
    <3> QED
      BY <2>5, <2>6, <2>8, <3>2, <3>3 DEF WriteInv
  <2>9. CASE /\ ~m_linger /\ pc' = "told"
             /\ bytes_have_send' = bytes_have_send + bytes_to_send /\ bytes_to_send' = 0
             /\ UNCHANGED <<m_linger, m_write_buf>>
    <3>1. m_write_idx' = m_write_idx /\ m_write_idx \in {0, HeadLen, HeadLen + FormLen}
      BY <1>t, <2>9 DEF m_write_idx, TypeOK
    <3>2. iv0'.base \in 0 .. m_write_idx' \/ m_write_idx' = 0
      <4>1. iv0'.base \in Nat
        BY <2>5, <1>c
      <4>2. iv0.base \in 0 .. m_write_idx \/ m_write_idx = 0
        BY <1>t DEF TypeOK
      <4> QED
        BY <4>1, <4>2, <3>1, <2>5, <1>c
    <3>3. /\ bytes_have_send' \in 0 .. HeadLen + FormLen + FileLen
          /\ bytes_to_send' \in 0 .. HeadLen + FormLen + FileLen
      BY <2>2, <2>7, <2>9, <1>c
    <3>4. m_linger' \in BOOLEAN
      BY <1>t, <2>9 DEF TypeOK
    <3>5. TypeOK'
      BY <1>t, <1>m, <2>3, <2>5, <2>9, <3>1, <3>2, <3>3, <3>4 DEF TypeOK
    <3> QED
      BY <2>5, <2>6, <2>9, <3>5 DEF WriteInv
  <2> QED
    BY <1>9, <2>8, <2>9 DEF WriteRest
<1>10. CASE WouldBlock
  <2>1. Sending
    BY <1>10 DEF WouldBlock, WriteInv
  <2>2. Sending'
    BY <1>10, <2>1, SendingSame DEF WouldBlock
  <2>3. pc' = "out" /\ TypeOK' /\ IovecType'
    BY <1>10, <1>t, <1>m, TypeSame DEF WouldBlock, TypeOK
  <2> QED
    BY <2>2, <2>3 DEF WriteInv
<1>11. CASE WriteFails
  <2>1. pc' = "closed" /\ TypeOK' /\ IovecType'
    BY <1>11, <1>t, <1>m, TypeSame DEF WriteFails
  <2> QED
    BY <2>1 DEF WriteInv
<1>12. CASE UNCHANGED vars
  <2>1. TypeOK' /\ IovecType'
    BY <1>12, <1>t, <1>m, TypeSame DEF vars, TypeOK
  <2>2. Sending => Sending'
    BY <1>12, SendingSame DEF vars
  <2>3. Response' = Response
    BY <1>12, ResponseSame DEF vars
  <2>4. Fresh => Fresh'
    BY <1>12 DEF vars, buffers, Fresh
  <2> QED
    BY <1>12, <2>1, <2>2, <2>3, <2>4 DEF WriteInv, vars
<1> QED
  BY <1>1, <1>2, <1>3, <1>4, <1>5, <1>6, <1>7, <1>8, <1>9, <1>10, <1>11, <1>12
     DEF Next, process_write, write

LEMMA WriteInvariant == ASSUME OneCut PROVE Spec => []WriteInv
<1>1. MappingInv => MappingTypes
  BY DEF MappingInv
<1>2. WriteInv /\ MappingTypes' /\ [Next]_vars => WriteInv'
  BY WriteStep
<1> QED
  BY <1>1, <1>2, WriteInit, MappingInit, MappingStep, PTL DEF Spec

(***************************************************************************)
(* Theorems                                                                *)
(***************************************************************************)
\* Whatever the lengths, indices and counters stay within their buffers.
THEOREM TypeCorrect == ASSUME OneCut PROVE Spec => []TypeOK
<1>1. WriteInv => TypeOK
  BY DEF WriteInv
<1> QED
  BY <1>1, WriteInvariant, PTL

\* However writev() cuts responses of whatever length, as long as it stops
\* at most once inside the header of each, every client gets the bytes of its
\* own response in their order, and all of them before the next request
\* (write(), http_conn.cpp:622-678).
THEOREM ResponseIsExactHolds == ASSUME OneCut PROVE Spec => []ResponseIsExact
<1>1. WriteInv => ResponseIsExact
  <2> SUFFICES ASSUME WriteInv PROVE ResponseIsExact
    OBVIOUS
  <2>1. CASE pc \in {"out", "write"}
    <3>1. Sending /\ ~(pc \in {"in", "told"})
      BY <2>1 DEF WriteInv
    <3>2. /\ Response \in Seq(Byte) /\ bytes_have_send \in Nat
          /\ bytes_to_send \in Nat \ {0} /\ bytes_have_send + bytes_to_send = Len(Response)
          /\ got = SubSeq(Response, 1, bytes_have_send)
      BY <3>1, ResponseParts DEF Sending
    <3>3. Len(got) = bytes_have_send
      <4>1. /\ \A i \in 1 .. bytes_have_send : Response[i] \in Byte
            /\ bytes_have_send \in Int /\ 1 \in Int
        BY <3>2
      <4>2. Len(got) = IF 1 <= bytes_have_send THEN bytes_have_send - 1 + 1 ELSE 0
        BY <3>2, <4>1, SubSeqProperties
      <4> QED
        BY <3>2, <4>2
    <3> QED
      BY <3>1, <3>2, <3>3 DEF ResponseIsExact
  <2>2. CASE pc \in {"in", "told"}
    <3>1. got = Response /\ ~(pc \in {"out", "write"})
      BY <2>2 DEF WriteInv
    <3>2. Response \in Seq(Byte)
      <4>1. Targets \subseteq AllTargets /\ target \in Targets \cup {"none"}
        BY Consts DEF WriteInv, TypeOK
      <4>2. CASE target = "none"
        BY <4>2, EmptySeq DEF Response
      <4>3. CASE target \in Answered
        BY <4>3, ResponseParts
      <4>4. CASE target \notin Answered /\ target # "none"
        BY <4>4, PageType DEF Response, Answered
      <4> QED
        BY <4>2, <4>3, <4>4
    <3>3. Response = SubSeq(Response, 1, Len(Response))
      BY <3>2, SubSeqFull
    <3> QED
      BY <3>1, <3>3 DEF ResponseIsExact
  <2> QED
    BY <2>1, <2>2 DEF ResponseIsExact
<1> QED
  BY <1>1, WriteInvariant, PTL

\* However writev() cuts responses and ends, the mapping of a file that was
\* sent, or could not be sent, is released; what stays mapped in a slot was left
\* there by clients that went away in the middle (http_conn.cpp:607, 640, 662).
THEOREM MappingReleasedHolds == Spec => []MappingReleased
<1>1. MappingInv => MappingReleased
  BY DEF MappingInv
<1> QED
  BY <1>1, MappingInit, MappingStep, PTL DEF Spec
=============================================================================
