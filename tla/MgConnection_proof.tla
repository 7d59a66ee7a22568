------------------------- MODULE MgConnection_proof -------------------------
(***************************************************************************)
(* Proofs about MgConnection for any buffer size, any streams, any lengths *)
(* and any number of connections.                                          *)
(***************************************************************************)
EXTENDS MgConnection, SequenceTheorems, TLAPS

(***************************************************************************)
(* The scan of the head.                                                   *)
(***************************************************************************)
\* If the first blank line is at i, HeadLength is what get_request_len reports
\* there.
LEMMA HeadAt ==
    ASSUME NEW b, NEW n \in Nat, NEW i \in 1 .. n - 1, FirstBlank(b, n, i)
    PROVE  HeadLength(b, n) = IF b[i + 1] = "nl" THEN i + 1 ELSE i + 2
<1> DEFINE k == CHOOSE j \in 1 .. n - 1 : FirstBlank(b, n, j)
<1>1. k \in 1 .. n - 1 /\ FirstBlank(b, n, k)
  OBVIOUS
<1>2. HeadLength(b, n) = IF b[k + 1] = "nl" THEN k + 1 ELSE k + 2
  BY DEF HeadLength
<1> HIDE DEF k
<1>3. BlankAt(b, n, i) /\ \A j \in 1 .. i - 1 : ~BlankAt(b, n, j)
  BY DEF FirstBlank
<1>4. BlankAt(b, n, k) /\ \A j \in 1 .. k - 1 : ~BlankAt(b, n, j)
  BY <1>1 DEF FirstBlank
<1>5. ~(k < i) /\ ~(i < k)
  BY <1>1, <1>3, <1>4
<1>6. k = i
  BY <1>1, <1>5
<1> QED BY <1>2, <1>6

\* Without a blank line, -1 tells a control character from nothing.
LEMMA NoBlank ==
    ASSUME NEW b, NEW n \in Nat, ~ \E i \in 1 .. n - 1 : FirstBlank(b, n, i)
    PROVE  /\ HeadLength(b, n) \in {-1, 0}
           /\ HeadLength(b, n) = -1 <=> \E i \in 1 .. n - 1 : b[i] = "ctl"
BY DEF HeadLength

\* get_request_len reports no more bytes than it was given, and a positive
\* length only for a blank line, which ends there.
LEMMA HeadBounds ==
    ASSUME NEW b, NEW n \in Nat
    PROVE  /\ HeadLength(b, n) \in -1 .. n
           /\ HeadLength(b, n) > 0 =>
                  \E i \in 1 .. n - 1 : FirstBlank(b, n, i) /\ i < HeadLength(b, n)
<1>1. CASE \E i \in 1 .. n - 1 : FirstBlank(b, n, i)
  <2>1. PICK i \in 1 .. n - 1 : FirstBlank(b, n, i)
    BY <1>1
  <2>2. BlankAt(b, n, i)
    BY <2>1 DEF FirstBlank
  <2>3. b[i + 1] = "nl" \/ i + 1 < n
    BY <2>2 DEF BlankAt
  <2>4. HeadLength(b, n) = IF b[i + 1] = "nl" THEN i + 1 ELSE i + 2
    BY <2>1, HeadAt
  <2> QED BY <2>1, <2>3, <2>4
<1>2. CASE ~ \E i \in 1 .. n - 1 : FirstBlank(b, n, i)
  BY <1>2, NoBlank
<1> QED BY <1>1, <1>2

\* Bytes that arrive later do not move the first blank line: it lies between
\* bytes that were there.
LEMMA BlankEarlier ==
    ASSUME NEW b, NEW c, NEW n \in Nat, NEW m \in Nat, n <= m,
           \A i \in 1 .. n : b[i] = c[i],
           NEW i \in 1 .. n - 1, FirstBlank(b, n, i)
    PROVE  FirstBlank(c, m, i)
<1>1. BlankAt(b, n, i) /\ \A j \in 1 .. i - 1 : ~BlankAt(b, n, j)
  BY DEF FirstBlank
<1>2. b[i] = c[i] /\ b[i + 1] = c[i + 1]
  OBVIOUS
<1>3. i + 1 < n => b[i + 2] = c[i + 2]
  OBVIOUS
<1>4. BlankAt(c, m, i)
  BY <1>1, <1>2, <1>3 DEF BlankAt
<1>5. ASSUME NEW j \in 1 .. i - 1
      PROVE  ~BlankAt(c, m, j)
  <2>1. ~BlankAt(b, n, j)
    BY <1>1
  <2>2. b[j] = c[j] /\ b[j + 1] = c[j + 1] /\ b[j + 2] = c[j + 2] /\ j + 1 < n
    OBVIOUS
  <2> QED BY <2>1, <2>2 DEF BlankAt
<1> QED BY <1>4, <1>5 DEF FirstBlank

\* A head that was found in the first n bytes is the head of every longer
\* prefix: read_request may scan after every piece.
LEMMA HeadStable ==
    ASSUME NEW b, NEW c, NEW n \in Nat, NEW m \in Nat, n <= m,
           \A i \in 1 .. n : b[i] = c[i],
           HeadLength(b, n) > 0
    PROVE  HeadLength(c, m) = HeadLength(b, n)
<1>1. PICK i \in 1 .. n - 1 : FirstBlank(b, n, i)
  BY HeadBounds
<1>2. FirstBlank(c, m, i)
  BY <1>1, BlankEarlier
<1>3. i \in 1 .. m - 1
  OBVIOUS
<1>4. HeadLength(b, n) = IF b[i + 1] = "nl" THEN i + 1 ELSE i + 2
  BY <1>1, HeadAt
<1>5. HeadLength(c, m) = IF c[i + 1] = "nl" THEN i + 1 ELSE i + 2
  BY <1>2, <1>3, HeadAt
<1>6. b[i + 1] = c[i + 1]
  OBVIOUS
<1> QED BY <1>4, <1>5, <1>6

\* A head that was called malformed has a control character, before the blank
\* line if one comes later.
LEMMA Malformed ==
    ASSUME NEW c, NEW n \in Nat, NEW m \in Nat, n <= m, HeadLength(c, n) < 0
    PROVE  \E i \in 1 .. n : c[i] = "ctl" /\ (HeadLength(c, m) > 0 => HeadLength(c, m) > i)
<1>1. ~ \E i \in 1 .. n - 1 : FirstBlank(c, n, i)
  <2> SUFFICES ASSUME NEW i \in 1 .. n - 1, FirstBlank(c, n, i)
               PROVE  FALSE
    OBVIOUS
  <2> QED BY HeadAt
<1>2. PICK i \in 1 .. n - 1 : c[i] = "ctl"
  BY <1>1, NoBlank
<1>3. i \in 1 .. n /\ c[i] = "ctl"
  BY <1>2
<1>4. ASSUME HeadLength(c, m) > 0
      PROVE  HeadLength(c, m) > i
  <2>1. PICK k \in 1 .. m - 1 : FirstBlank(c, m, k) /\ k < HeadLength(c, m)
    BY <1>4, HeadBounds
  <2>2. ASSUME k < i
        PROVE  FirstBlank(c, n, k)
    <3>1. BlankAt(c, m, k) /\ \A j \in 1 .. k - 1 : ~BlankAt(c, m, j)
      BY <2>1 DEF FirstBlank
    <3>2. k + 1 < n
      <4>1. k + 1 < i \/ k + 1 = i
        BY <2>2
      <4> QED BY <4>1
    <3>3. BlankAt(c, n, k)
      BY <3>1, <3>2 DEF BlankAt
    <3>4. ASSUME NEW j \in 1 .. k - 1
          PROVE  ~BlankAt(c, n, j)
      <4>1. ~BlankAt(c, m, j)
        BY <3>1
      <4>2. j + 1 < n /\ j + 1 < m
        BY <2>2
      <4> QED BY <4>1, <4>2 DEF BlankAt
    <3> QED BY <3>3, <3>4 DEF FirstBlank
  <2>3. ~(k < i)
    BY <1>1, <2>2
  <2>4. HeadLength(c, m) \in Int
    BY HeadBounds
  <2> QED BY <2>1, <2>3, <2>4
<1> QED BY <1>3, <1>4

\* The scan depends on the n bytes only.
LEMMA HeadAgrees ==
    ASSUME NEW b, NEW c, NEW n \in Nat, \A i \in 1 .. n : b[i] = c[i]
    PROVE  HeadLength(b, n) = HeadLength(c, n)
<1>1. HeadLength(b, n) \in -1 .. n /\ HeadLength(c, n) \in -1 .. n
  BY HeadBounds
<1>2. CASE HeadLength(b, n) > 0
  BY <1>2, HeadStable
<1>3. CASE HeadLength(c, n) > 0
  BY <1>3, HeadStable
<1>4. CASE ~(HeadLength(b, n) > 0) /\ ~(HeadLength(c, n) > 0)
  <2>1. ~ \E i \in 1 .. n - 1 : FirstBlank(b, n, i)
    BY <1>4, HeadAt
  <2>2. ~ \E i \in 1 .. n - 1 : FirstBlank(c, n, i)
    BY <1>4, HeadAt
  <2>3. (\E i \in 1 .. n - 1 : b[i] = "ctl") <=> (\E i \in 1 .. n - 1 : c[i] = "ctl")
    OBVIOUS
  <2> QED BY <2>1, <2>2, <2>3, NoBlank
<1> QED BY <1>2, <1>3, <1>4

(***************************************************************************)
(* Cells appended to what the handler has.                                 *)
(***************************************************************************)
LEMMA Extended ==
    ASSUME NEW o \in Seq(Cells), NEW n \in Nat, NEW c \in [1 .. n -> Cells]
    PROVE  /\ o \o c \in Seq(Cells)
           /\ Len(o \o c) = Len(o) + n
           /\ \A i \in 1 .. Len(o) : (o \o c)[i] = o[i]
           /\ \A i \in 1 .. n : (o \o c)[Len(o) + i] = c[i]
<1>1. c \in Seq(Cells) /\ Len(c) = n
  OBVIOUS
<1>2. Len(o) \in Nat
  OBVIOUS
<1>3. /\ o \o c \in Seq(Cells)
      /\ Len(o \o c) = Len(o) + n
      /\ \A i \in 1 .. Len(o) + n :
            (o \o c)[i] = IF i <= Len(o) THEN o[i] ELSE c[i - Len(o)]
  BY <1>1, ConcatProperties
<1>4. ASSUME NEW i \in 1 .. n
      PROVE  (o \o c)[Len(o) + i] = c[i]
  <2>1. Len(o) + i \in 1 .. Len(o) + n /\ ~(Len(o) + i <= Len(o)) /\ Len(o) + i - Len(o) = i
    BY <1>2
  <2> QED BY <1>3, <2>1
<1>5. ASSUME NEW i \in 1 .. Len(o)
      PROVE  (o \o c)[i] = o[i]
  <2>1. i \in 1 .. Len(o) + n /\ i <= Len(o)
    BY <1>2
  <2> QED BY <1>3, <2>1
<1> QED BY <1>3, <1>4, <1>5

(***************************************************************************)
(* The inductive invariant.                                                *)
(***************************************************************************)
PositionInv ==
    /\ pc # "idle" => conn > 0
    /\ conn = 0 => out = <<>> /\ consumed_content = 0
    /\ conn > 0 => taken <= Len(sent[conn])

\* While the head is read, the buffer holds what was received, from the start.
HeadInv ==
    pc \in {"head", "headDone"} =>
        /\ taken = data_len
        /\ consumed_content = 0 /\ content_len = -1 /\ out = <<>>
        /\ nread = want /\ answer = "none"
        /\ request_len <= data_len
        /\ \A i \in 1 .. data_len : buf[i] = <<conn, i>>
        /\ pc = "head" => request_len = 0 /\ data_len < BufSize
        /\ pc = "headDone" => request_len # 0 \/ data_len = BufSize \/ starved

\* While the handler runs, the body is in its place behind the head, and the
\* socket is read only when the buffered part of the body is used up.
ServeInv ==
    Serving =>
        /\ request_len \in 1 .. data_len
        /\ \A i \in request_len + 1 .. data_len : buf[i] = <<conn, i>>
        /\ taken = IF consumed_content < data_len - request_len
                   THEN data_len ELSE request_len + consumed_content
        /\ consumed_content <= content_len \/ (content_len < 0 /\ consumed_content = 0)

\* In the loop of mg_read.
CallInv ==
    pc = "pull" =>
        /\ consumed_content >= data_len - request_len
        /\ left > 0
        /\ left <= content_len - consumed_content
        /\ nread + left = want \/ consumed_content + left = content_len

\* What breaks the process.
BreakInv == pc = "broken" => content_len < -1

Inv ==
    /\ TypeOK
    /\ PositionInv
    /\ HeadInv
    /\ ServeInv
    /\ CallInv
    /\ BodyInOrder
    /\ FramingIndependent
    /\ AnswerFitsStream
    /\ ReadFitsArray
    /\ ShortReadsExplained
    /\ BreakInv
(***************************************************************************)
(* Every step keeps the invariant.                                        *)
(***************************************************************************)
USE ConnectionAssumption

\* The types of the counters in the form the steps below use them.
Numbers ==
    /\ BufSize \in Int /\ BufSize > 0 /\ IntBound \in Int /\ BufSize <= IntBound
    /\ conn \in Int /\ conn >= 0
    /\ request_len \in Int /\ request_len >= -1 /\ request_len <= BufSize
    /\ data_len \in Int /\ (pc # "broken" => data_len >= 0 /\ data_len <= BufSize)
    /\ content_len \in Int
    /\ consumed_content \in Int /\ consumed_content >= 0
    /\ taken \in Int /\ taken >= 0
    /\ left \in Int /\ left >= 0
    /\ nread \in Int /\ nread >= 0
    /\ want \in Int /\ want >= 0

LEMMA NumbersHold == TypeOK => Numbers
<1> SUFFICES ASSUME TypeOK
             PROVE  Numbers
  OBVIOUS
<1>1. BufSize \in Int /\ BufSize > 0 /\ IntBound \in Int /\ BufSize <= IntBound
  OBVIOUS
<1>2. content_len \in Int
  BY DEF TypeOK
<1>3. want \in Int /\ want >= 0
  BY DEF TypeOK
<1> QED BY <1>1, <1>2, <1>3 DEF TypeOK, Numbers

\* A client sends a sequence of bytes.
LEMMA StreamHolds ==
    ASSUME TypeOK, conn > 0
    PROVE  /\ conn \in 1 .. MaxConnections
           /\ sent[conn] \in Seq(Classes)
           /\ Len(sent[conn]) \in Int /\ Len(sent[conn]) >= 0
<1>1. MaxConnections \in Nat
  OBVIOUS
<1>2. conn \in 1 .. MaxConnections
  BY <1>1 DEF TypeOK
<1>3. sent[conn] \in Seq(Classes)
  BY <1>2 DEF TypeOK
<1> QED BY <1>2, <1>3


\* recv returned nothing while the head was read.
LEMMA ReadNothingKeeps ==
    ASSUME Inv, ReadNothing
    PROVE  Inv'
<1>int. Numbers
  BY NumbersHold DEF Inv
<1>TypeOK. TypeOK'
  BY <1>int DEF Inv, Numbers, TypeOK, ReadNothing, lens, call
<1>PositionInv. PositionInv'
  BY <1>int DEF Inv, Numbers, PositionInv, ReadNothing, lens, call
<1>HeadInv. HeadInv'
  BY <1>int DEF Inv, Numbers, HeadInv, ReadNothing, lens, call
<1>ServeInv. ServeInv'
  BY <1>int DEF Inv, Numbers, ServeInv, Serving, HeadInv, HeadComplete, ReadNothing, lens, call
<1>CallInv. CallInv'
  BY <1>int DEF Inv, Numbers, CallInv, ReadNothing, lens, call
<1>BodyInOrder. BodyInOrder'
  BY <1>int DEF Inv, Numbers, BodyInOrder, ReadNothing, lens, call
<1>FramingIndependent. FramingIndependent'
  BY <1>int DEF Inv, Numbers, FramingIndependent, ReadNothing, lens, call
<1>AnswerFitsStream. AnswerFitsStream'
  BY <1>int DEF Inv, Numbers, AnswerFitsStream, FramingIndependent, PositionInv, HeadInv, ServeInv, Serving, TooLarge, Smaller, ReadNothing, lens, call
<1>ReadFitsArray. ReadFitsArray'
  BY <1>int DEF Inv, Numbers, ReadFitsArray, CallInv, ReadNothing, lens, call
<1>ShortReadsExplained. ShortReadsExplained'
  BY <1>int DEF Inv, Numbers, ShortReadsExplained, CallInv, HeadInv, Serving, ReadNothing, lens, call
<1>BreakInv. BreakInv'
  BY <1>int DEF Inv, Numbers, BreakInv, ReadNothing, lens, call
<1> QED BY <1>TypeOK, <1>PositionInv, <1>HeadInv, <1>ServeInv, <1>CallInv, <1>BodyInOrder, <1>FramingIndependent, <1>AnswerFitsStream, <1>ReadFitsArray, <1>ShortReadsExplained, <1>BreakInv DEF Inv

\* The head does not fit.
LEMMA RefuseTooLargeKeeps ==
    ASSUME Inv, RefuseTooLarge
    PROVE  Inv'
<1>int. Numbers
  BY NumbersHold DEF Inv
<1>TypeOK. TypeOK'
  BY <1>int DEF Inv, Numbers, TypeOK, RefuseTooLarge, lens, call
<1>PositionInv. PositionInv'
  BY <1>int DEF Inv, Numbers, PositionInv, RefuseTooLarge, lens, call
<1>HeadInv. HeadInv'
  BY <1>int DEF Inv, Numbers, HeadInv, RefuseTooLarge, lens, call
<1>ServeInv. ServeInv'
  BY <1>int DEF Inv, Numbers, ServeInv, Serving, HeadInv, HeadComplete, RefuseTooLarge, lens, call
<1>CallInv. CallInv'
  BY <1>int DEF Inv, Numbers, CallInv, RefuseTooLarge, lens, call
<1>BodyInOrder. BodyInOrder'
  BY <1>int DEF Inv, Numbers, BodyInOrder, RefuseTooLarge, lens, call
<1>FramingIndependent. FramingIndependent'
  BY <1>int DEF Inv, Numbers, FramingIndependent, RefuseTooLarge, lens, call
<1>AnswerFitsStream. AnswerFitsStream'
  BY <1>int DEF Inv, Numbers, AnswerFitsStream, FramingIndependent, PositionInv, HeadInv, ServeInv, Serving, TooLarge, Smaller, RefuseTooLarge, lens, call
<1>ReadFitsArray. ReadFitsArray'
  BY <1>int DEF Inv, Numbers, ReadFitsArray, CallInv, RefuseTooLarge, lens, call
<1>ShortReadsExplained. ShortReadsExplained'
  BY <1>int DEF Inv, Numbers, ShortReadsExplained, CallInv, HeadInv, Serving, RefuseTooLarge, lens, call
<1>BreakInv. BreakInv'
  BY <1>int DEF Inv, Numbers, BreakInv, RefuseTooLarge, lens, call
<1> QED BY <1>TypeOK, <1>PositionInv, <1>HeadInv, <1>ServeInv, <1>CallInv, <1>BodyInOrder, <1>FramingIndependent, <1>AnswerFitsStream, <1>ReadFitsArray, <1>ShortReadsExplained, <1>BreakInv DEF Inv

\* The head is malformed or incomplete.
LEMMA DropRequestKeeps ==
    ASSUME Inv, DropRequest
    PROVE  Inv'
<1>int. Numbers
  BY NumbersHold DEF Inv
<1>TypeOK. TypeOK'
  BY <1>int DEF Inv, Numbers, TypeOK, DropRequest, lens, call
<1>PositionInv. PositionInv'
  BY <1>int DEF Inv, Numbers, PositionInv, DropRequest, lens, call
<1>HeadInv. HeadInv'
  BY <1>int DEF Inv, Numbers, HeadInv, DropRequest, lens, call
<1>ServeInv. ServeInv'
  BY <1>int DEF Inv, Numbers, ServeInv, Serving, HeadInv, HeadComplete, DropRequest, lens, call
<1>CallInv. CallInv'
  BY <1>int DEF Inv, Numbers, CallInv, DropRequest, lens, call
<1>BodyInOrder. BodyInOrder'
  BY <1>int DEF Inv, Numbers, BodyInOrder, DropRequest, lens, call
<1>FramingIndependent. FramingIndependent'
  BY <1>int DEF Inv, Numbers, FramingIndependent, DropRequest, lens, call
<1>AnswerFitsStream. AnswerFitsStream'
  BY <1>int DEF Inv, Numbers, AnswerFitsStream, FramingIndependent, PositionInv, HeadInv, ServeInv, Serving, TooLarge, Smaller, DropRequest, lens, call
<1>ReadFitsArray. ReadFitsArray'
  BY <1>int DEF Inv, Numbers, ReadFitsArray, CallInv, DropRequest, lens, call
<1>ShortReadsExplained. ShortReadsExplained'
  BY <1>int DEF Inv, Numbers, ShortReadsExplained, CallInv, HeadInv, Serving, DropRequest, lens, call
<1>BreakInv. BreakInv'
  BY <1>int DEF Inv, Numbers, BreakInv, DropRequest, lens, call
<1> QED BY <1>TypeOK, <1>PositionInv, <1>HeadInv, <1>ServeInv, <1>CallInv, <1>BodyInOrder, <1>FramingIndependent, <1>AnswerFitsStream, <1>ReadFitsArray, <1>ShortReadsExplained, <1>BreakInv DEF Inv

\* recv returned nothing while the body was read.
LEMMA PullNothingKeeps ==
    ASSUME Inv, PullNothing
    PROVE  Inv'
<1>int. Numbers
  BY NumbersHold DEF Inv
<1>TypeOK. TypeOK'
  BY <1>int DEF Inv, Numbers, TypeOK, PullNothing, lens, call
<1>PositionInv. PositionInv'
  BY <1>int DEF Inv, Numbers, PositionInv, PullNothing, lens, call
<1>HeadInv. HeadInv'
  BY <1>int DEF Inv, Numbers, HeadInv, PullNothing, lens, call
<1>ServeInv. ServeInv'
  BY <1>int DEF Inv, Numbers, ServeInv, Serving, HeadInv, HeadComplete, PullNothing, lens, call
<1>CallInv. CallInv'
  BY <1>int DEF Inv, Numbers, CallInv, PullNothing, lens, call
<1>BodyInOrder. BodyInOrder'
  BY <1>int DEF Inv, Numbers, BodyInOrder, PullNothing, lens, call
<1>FramingIndependent. FramingIndependent'
  BY <1>int DEF Inv, Numbers, FramingIndependent, PullNothing, lens, call
<1>AnswerFitsStream. AnswerFitsStream'
  BY <1>int DEF Inv, Numbers, AnswerFitsStream, FramingIndependent, PositionInv, HeadInv, ServeInv, Serving, TooLarge, Smaller, PullNothing, lens, call
<1>ReadFitsArray. ReadFitsArray'
  BY <1>int DEF Inv, Numbers, ReadFitsArray, CallInv, PullNothing, lens, call
<1>ShortReadsExplained. ShortReadsExplained'
  BY <1>int DEF Inv, Numbers, ShortReadsExplained, CallInv, HeadInv, Serving, PullNothing, lens, call
<1>BreakInv. BreakInv'
  BY <1>int DEF Inv, Numbers, BreakInv, PullNothing, lens, call
<1> QED BY <1>TypeOK, <1>PositionInv, <1>HeadInv, <1>ServeInv, <1>CallInv, <1>BodyInOrder, <1>FramingIndependent, <1>AnswerFitsStream, <1>ReadFitsArray, <1>ShortReadsExplained, <1>BreakInv DEF Inv

\* The worker is done with the connection.
LEMMA CloseKeeps ==
    ASSUME Inv, Close
    PROVE  Inv'
<1>int. Numbers
  BY NumbersHold DEF Inv
<1>TypeOK. TypeOK'
  BY <1>int DEF Inv, Numbers, TypeOK, Close, lens, call
<1>PositionInv. PositionInv'
  BY <1>int DEF Inv, Numbers, PositionInv, Close, lens, call
<1>HeadInv. HeadInv'
  BY <1>int DEF Inv, Numbers, HeadInv, Close, lens, call
<1>ServeInv. ServeInv'
  BY <1>int DEF Inv, Numbers, ServeInv, Serving, HeadInv, HeadComplete, Close, lens, call
<1>CallInv. CallInv'
  BY <1>int DEF Inv, Numbers, CallInv, Close, lens, call
<1>BodyInOrder. BodyInOrder'
  BY <1>int DEF Inv, Numbers, BodyInOrder, Close, lens, call
<1>FramingIndependent. FramingIndependent'
  BY <1>int DEF Inv, Numbers, FramingIndependent, Close, lens, call
<1>AnswerFitsStream. AnswerFitsStream'
  BY <1>int DEF Inv, Numbers, AnswerFitsStream, FramingIndependent, PositionInv, HeadInv, ServeInv, Serving, TooLarge, Smaller, Close, lens, call
<1>ReadFitsArray. ReadFitsArray'
  BY <1>int DEF Inv, Numbers, ReadFitsArray, CallInv, Close, lens, call
<1>ShortReadsExplained. ShortReadsExplained'
  BY <1>int DEF Inv, Numbers, ShortReadsExplained, CallInv, HeadInv, Serving, Close, lens, call
<1>BreakInv. BreakInv'
  BY <1>int DEF Inv, Numbers, BreakInv, Close, lens, call
<1> QED BY <1>TypeOK, <1>PositionInv, <1>HeadInv, <1>ServeInv, <1>CallInv, <1>BodyInOrder, <1>FramingIndependent, <1>AnswerFitsStream, <1>ReadFitsArray, <1>ShortReadsExplained, <1>BreakInv DEF Inv

\* What the client still sends is read and forgotten.
LEMMA DrainKeeps ==
    ASSUME Inv, NEW n, Drain(n)
    PROVE  Inv'
<1>int. Numbers
  BY NumbersHold DEF Inv
<1>1. pc = "close" /\ conn > 0
  BY DEF Inv, PositionInv, Drain
<1>2. n \in Nat /\ taken' = taken + n /\ taken' <= Len(sent[conn])
  <2>1. Len(sent[conn]) \in Int
    BY <1>1, StreamHolds DEF Inv
  <2>2. taken <= Len(sent[conn])
    BY <1>1 DEF Inv, PositionInv
  <2> QED BY <2>1, <2>2, <1>int DEF Numbers, Drain, Available, Smaller
<1>TypeOK. TypeOK'
  BY <1>2, <1>int DEF Inv, Numbers, TypeOK, Drain, lens, call
<1>PositionInv. PositionInv'
  BY <1>1, <1>2, <1>int DEF Inv, Numbers, PositionInv, Drain, lens, call
<1>HeadInv. HeadInv'
  BY <1>int DEF Inv, Numbers, HeadInv, Drain, lens, call
<1>ServeInv. ServeInv'
  BY <1>int DEF Inv, Numbers, ServeInv, Serving, HeadInv, HeadComplete, Drain, lens, call
<1>CallInv. CallInv'
  BY <1>int DEF Inv, Numbers, CallInv, Drain, lens, call
<1>BodyInOrder. BodyInOrder'
  BY <1>int DEF Inv, Numbers, BodyInOrder, Drain, lens, call
<1>FramingIndependent. FramingIndependent'
  BY <1>int DEF Inv, Numbers, FramingIndependent, Drain, lens, call
<1>AnswerFitsStream. AnswerFitsStream'
  BY <1>int DEF Inv, Numbers, AnswerFitsStream, FramingIndependent, PositionInv, HeadInv, ServeInv, Serving, TooLarge, Smaller, Drain, lens, call
<1>ReadFitsArray. ReadFitsArray'
  BY <1>int DEF Inv, Numbers, ReadFitsArray, CallInv, Drain, lens, call
<1>ShortReadsExplained. ShortReadsExplained'
  BY <1>int DEF Inv, Numbers, ShortReadsExplained, CallInv, HeadInv, Serving, Drain, lens, call
<1>BreakInv. BreakInv'
  BY <1>int DEF Inv, Numbers, BreakInv, Drain, lens, call
<1> QED BY <1>TypeOK, <1>PositionInv, <1>HeadInv, <1>ServeInv, <1>CallInv, <1>BodyInOrder, <1>FramingIndependent, <1>AnswerFitsStream, <1>ReadFitsArray, <1>ShortReadsExplained, <1>BreakInv DEF Inv

\* The assertion of mg_read fails.
LEMMA ReadAbortsKeeps ==
    ASSUME Inv, ReadAborts
    PROVE  Inv'
<1>int. Numbers
  BY NumbersHold DEF Inv
<1>TypeOK. TypeOK'
  BY <1>int DEF Inv, Numbers, TypeOK, ReadAborts, lens, call
<1>PositionInv. PositionInv'
  BY <1>int DEF Inv, Numbers, PositionInv, ReadAborts, lens, call
<1>HeadInv. HeadInv'
  BY <1>int DEF Inv, Numbers, HeadInv, ReadAborts, lens, call
<1>ServeInv. ServeInv'
  BY <1>int DEF Inv, Numbers, ServeInv, Serving, HeadInv, HeadComplete, ReadAborts, lens, call
<1>CallInv. CallInv'
  BY <1>int DEF Inv, Numbers, CallInv, ReadAborts, lens, call
<1>BodyInOrder. BodyInOrder'
  BY <1>int DEF Inv, Numbers, BodyInOrder, ReadAborts, lens, call
<1>FramingIndependent. FramingIndependent'
  BY <1>int DEF Inv, Numbers, FramingIndependent, ReadAborts, lens, call
<1>AnswerFitsStream. AnswerFitsStream'
  BY <1>int DEF Inv, Numbers, AnswerFitsStream, FramingIndependent, PositionInv, HeadInv, ServeInv, Serving, TooLarge, Smaller, ReadAborts, lens, call
<1>ReadFitsArray. ReadFitsArray'
  BY <1>int DEF Inv, Numbers, ReadFitsArray, CallInv, ReadAborts, lens, call
<1>ShortReadsExplained. ShortReadsExplained'
  BY <1>int DEF Inv, Numbers, ShortReadsExplained, CallInv, HeadInv, Serving, ReadAborts, lens, call
<1>BreakInv. BreakInv'
  BY <1>int DEF Inv, Numbers, ServeInv, Serving, BreakInv, BodyNotOverrun, ReadAborts, lens, call
<1> QED BY <1>TypeOK, <1>PositionInv, <1>HeadInv, <1>ServeInv, <1>CallInv, <1>BodyInOrder, <1>FramingIndependent, <1>AnswerFitsStream, <1>ReadFitsArray, <1>ShortReadsExplained, <1>BreakInv DEF Inv

\* memmove would leave the buffer.
LEMMA DiscardLeavesBufferKeeps ==
    ASSUME Inv, DiscardLeavesBuffer
    PROVE  Inv'
<1>int. Numbers
  BY NumbersHold DEF Inv
<1>1. request_len \in 1 .. data_len /\ pc = "handler"
  BY DEF Inv, ServeInv, Serving, DiscardLeavesBuffer
<1>TypeOK. TypeOK'
  BY <1>int DEF Inv, Numbers, TypeOK, DiscardLeavesBuffer, lens, call
<1>PositionInv. PositionInv'
  BY <1>int DEF Inv, Numbers, PositionInv, DiscardLeavesBuffer, lens, call
<1>HeadInv. HeadInv'
  BY <1>int DEF Inv, Numbers, HeadInv, DiscardLeavesBuffer, lens, call
<1>ServeInv. ServeInv'
  BY <1>int DEF Inv, Numbers, ServeInv, Serving, HeadInv, HeadComplete, DiscardLeavesBuffer, lens, call
<1>CallInv. CallInv'
  BY <1>int DEF Inv, Numbers, CallInv, DiscardLeavesBuffer, lens, call
<1>BodyInOrder. BodyInOrder'
  BY <1>int DEF Inv, Numbers, BodyInOrder, DiscardLeavesBuffer, lens, call
<1>FramingIndependent. FramingIndependent'
  BY <1>1, <1>int DEF Inv, Numbers, FramingIndependent, DiscardLeavesBuffer, lens, call
<1>AnswerFitsStream. AnswerFitsStream'
  BY <1>int DEF Inv, Numbers, AnswerFitsStream, FramingIndependent, PositionInv, HeadInv, ServeInv, Serving, TooLarge, Smaller, DiscardLeavesBuffer, lens, call
<1>ReadFitsArray. ReadFitsArray'
  BY <1>int DEF Inv, Numbers, ReadFitsArray, CallInv, DiscardLeavesBuffer, lens, call
<1>ShortReadsExplained. ShortReadsExplained'
  BY <1>int DEF Inv, Numbers, ShortReadsExplained, CallInv, HeadInv, Serving, DiscardLeavesBuffer, lens, call
<1>BreakInv. BreakInv'
  <2>1. ASSUME content_len >= -1
        PROVE  BodyLength \in 0 .. data_len - request_len
    <3>1. content_len < data_len - request_len => AsInt(content_len) = content_len
      BY <1>int, <1>1, <2>1 DEF Numbers, AsInt
    <3> QED BY <1>int, <1>1, <2>1, <3>1 DEF Numbers, BodyLength
  <2>2. content_len >= -1 => Shift \in 0 .. data_len
    BY <1>int, <1>1, <2>1 DEF Numbers, Shift
  <2> QED BY <1>int, <2>2 DEF Numbers, BreakInv, DiscardLeavesBuffer, lens
<1> QED BY <1>TypeOK, <1>PositionInv, <1>HeadInv, <1>ServeInv, <1>CallInv, <1>BodyInOrder, <1>FramingIndependent, <1>AnswerFitsStream, <1>ReadFitsArray, <1>ShortReadsExplained, <1>BreakInv DEF Inv

\* The head is complete, but refused.
LEMMA RefuseRequestKeeps ==
    ASSUME Inv, RefuseRequest
    PROVE  Inv'
<1>int. Numbers
  BY NumbersHold DEF Inv
<1>1. request_len \in 1 .. BufSize
  BY <1>int DEF Inv, Numbers, RefuseRequest, HeadComplete
<1>2. buf' \in [1 .. BufSize -> Cells]
  BY <1>1 DEF Inv, TypeOK, RefuseRequest, Terminated, Nul, Cells
<1>TypeOK. TypeOK'
  BY <1>1, <1>2, <1>int DEF Inv, Numbers, TypeOK, RefuseRequest, HeadComplete, lens, call
<1>PositionInv. PositionInv'
  BY <1>1, <1>2, <1>int DEF Inv, Numbers, PositionInv, RefuseRequest, HeadComplete, lens, call
<1>HeadInv. HeadInv'
  BY <1>1, <1>2, <1>int DEF Inv, Numbers, HeadInv, RefuseRequest, HeadComplete, lens, call
<1>ServeInv. ServeInv'
  BY <1>1, <1>2, <1>int DEF Inv, Numbers, ServeInv, Serving, HeadInv, HeadComplete, RefuseRequest, HeadComplete, lens, call
<1>CallInv. CallInv'
  BY <1>1, <1>2, <1>int DEF Inv, Numbers, CallInv, RefuseRequest, HeadComplete, lens, call
<1>BodyInOrder. BodyInOrder'
  BY <1>1, <1>2, <1>int DEF Inv, Numbers, BodyInOrder, RefuseRequest, HeadComplete, lens, call
<1>FramingIndependent. FramingIndependent'
  BY <1>1, <1>2, <1>int DEF Inv, Numbers, FramingIndependent, RefuseRequest, HeadComplete, lens, call
<1>AnswerFitsStream. AnswerFitsStream'
  BY <1>1, <1>2, <1>int DEF Inv, Numbers, AnswerFitsStream, FramingIndependent, PositionInv, HeadInv, ServeInv, Serving, TooLarge, Smaller, RefuseRequest, HeadComplete, lens, call
<1>ReadFitsArray. ReadFitsArray'
  BY <1>1, <1>2, <1>int DEF Inv, Numbers, ReadFitsArray, CallInv, RefuseRequest, HeadComplete, lens, call
<1>ShortReadsExplained. ShortReadsExplained'
  BY <1>1, <1>2, <1>int DEF Inv, Numbers, ShortReadsExplained, CallInv, HeadInv, Serving, RefuseRequest, HeadComplete, lens, call
<1>BreakInv. BreakInv'
  BY <1>1, <1>2, <1>int DEF Inv, Numbers, BreakInv, RefuseRequest, HeadComplete, lens, call
<1> QED BY <1>TypeOK, <1>PositionInv, <1>HeadInv, <1>ServeInv, <1>CallInv, <1>BodyInOrder, <1>FramingIndependent, <1>AnswerFitsStream, <1>ReadFitsArray, <1>ShortReadsExplained, <1>BreakInv DEF Inv

\* The request goes to the handler.
LEMMA HandleKeeps ==
    ASSUME Inv, NEW length \in ContentLengths, Handle(length)
    PROVE  Inv'
<1>int. Numbers
  BY NumbersHold DEF Inv
<1>1. request_len \in 1 .. BufSize
  BY <1>int DEF Inv, Numbers, Handle, HeadComplete
<1>2. buf' \in [1 .. BufSize -> Cells]
  BY <1>1 DEF Inv, TypeOK, Handle, Terminated, Nul, Cells
<1>TypeOK. TypeOK'
  BY <1>1, <1>2, <1>int DEF Inv, Numbers, TypeOK, Handle, HeadComplete, lens, call
<1>PositionInv. PositionInv'
  BY <1>1, <1>2, <1>int DEF Inv, Numbers, PositionInv, Handle, HeadComplete, lens, call
<1>HeadInv. HeadInv'
  BY <1>1, <1>2, <1>int DEF Inv, Numbers, HeadInv, Handle, HeadComplete, lens, call
<1>ServeInv. ServeInv'
  <2>1. request_len \in 1 .. data_len /\ taken = data_len /\ consumed_content = 0
    BY <1>1, <1>int DEF Inv, Numbers, HeadInv, Handle, HeadComplete
  <2>2. \A i \in request_len + 1 .. data_len : buf'[i] = <<conn, i>>
    BY <1>1, <2>1, <1>int DEF Inv, Numbers, TypeOK, HeadInv, Handle, HeadComplete, Terminated
  <2>3. length \in Int
    OBVIOUS
  <2> QED BY <2>1, <2>2, <2>3, <1>int DEF Inv, Numbers, ServeInv, Handle
<1>CallInv. CallInv'
  BY <1>1, <1>2, <1>int DEF Inv, Numbers, CallInv, Handle, HeadComplete, lens, call
<1>BodyInOrder. BodyInOrder'
  BY <1>1, <1>2, <1>int DEF Inv, Numbers, BodyInOrder, Handle, HeadComplete, lens, call
<1>FramingIndependent. FramingIndependent'
  BY <1>1, <1>2, <1>int DEF Inv, Numbers, FramingIndependent, Handle, HeadComplete, lens, call
<1>AnswerFitsStream. AnswerFitsStream'
  BY <1>1, <1>2, <1>int DEF Inv, Numbers, AnswerFitsStream, FramingIndependent, PositionInv, HeadInv, ServeInv, Serving, TooLarge, Smaller, Handle, HeadComplete, lens, call
<1>ReadFitsArray. ReadFitsArray'
  BY <1>1, <1>2, <1>int DEF Inv, Numbers, ReadFitsArray, CallInv, Handle, HeadComplete, lens, call
<1>ShortReadsExplained. ShortReadsExplained'
  BY <1>1, <1>2, <1>int DEF Inv, Numbers, ShortReadsExplained, CallInv, HeadInv, Serving, Handle, HeadComplete, lens, call
<1>BreakInv. BreakInv'
  BY <1>1, <1>2, <1>int DEF Inv, Numbers, BreakInv, Handle, HeadComplete, lens, call
<1> QED BY <1>TypeOK, <1>PositionInv, <1>HeadInv, <1>ServeInv, <1>CallInv, <1>BodyInOrder, <1>FramingIndependent, <1>AnswerFitsStream, <1>ReadFitsArray, <1>ShortReadsExplained, <1>BreakInv DEF Inv

\* There is no head in nothing.
LEMMA HeadOfNothing ==
    ASSUME NEW b
    PROVE  HeadLength(b, 0) = 0
BY DEF HeadLength

\* The worker takes a connection.
LEMMA BeginKeeps ==
    ASSUME Inv, Begin
    PROVE  Inv'
<1>int. Numbers
  BY NumbersHold DEF Inv
<1>1. data_len' = 0 /\ consumed_content' = 0 /\ content_len' = -1
  BY DEF Begin, Reset
<1>2. request_len' = 0 /\ pc' = "head"
  BY <1>1, HeadOfNothing DEF Begin, Scan
<1>3. conn' \in 1 .. MaxConnections /\ sent'[conn'] \in Seq(Classes)
  <2>1. conn' \in 1 .. MaxConnections
    BY <1>int DEF Inv, Numbers, TypeOK, Begin
  <2> QED BY <2>1 DEF Inv, TypeOK, Begin
<1>4. Len(sent'[conn']) >= 0
  BY <1>3
<1>TypeOK. TypeOK'
  <2>1. request_len' \in -1 .. BufSize /\ data_len' \in 0 .. BufSize /\ data_len' \in Int
    BY <1>1, <1>2, <1>int DEF Numbers
  <2>2. calls' \in 0 .. MaxReads
    BY DEF Begin
  <2>3. conn' \in 0 .. MaxConnections
    BY <1>3
  <2>4. /\ buf' = buf /\ sent' = sent /\ out' = <<>> /\ starved' = FALSE /\ answer' = "none"
        /\ left' = 0 /\ nread' = 0 /\ want' = 0 /\ taken' = 0
    BY DEF Begin
  <2>5. <<>> \in Seq(Cells)
    OBVIOUS
  <2>6. buf \in [1 .. BufSize -> Cells] /\ sent \in [1 .. MaxConnections -> Streams]
    BY DEF Inv, TypeOK
  <2> QED BY ONLY <1>1, <1>2, <2>1, <2>2, <2>3, <2>4, <2>5, <2>6 DEF TypeOK
<1>PositionInv. PositionInv'
  BY <1>1, <1>2, <1>3, <1>4, <1>int DEF Inv, Numbers, PositionInv, Begin, Reset, lens, call
<1>HeadInv. HeadInv'
  BY <1>1, <1>2, <1>3, <1>4, <1>int DEF Inv, Numbers, HeadInv, Begin, Reset, lens, call
<1>ServeInv. ServeInv'
  BY <1>1, <1>2, <1>3, <1>4, <1>int DEF Inv, Numbers, ServeInv, Serving, HeadInv, HeadComplete, Begin, Reset, lens, call
<1>CallInv. CallInv'
  BY <1>1, <1>2, <1>3, <1>4, <1>int DEF Inv, Numbers, CallInv, Begin, Reset, lens, call
<1>BodyInOrder. BodyInOrder'
  BY <1>1, <1>2, <1>3, <1>4, <1>int DEF Inv, Numbers, BodyInOrder, Begin, Reset, lens, call
<1>FramingIndependent. FramingIndependent'
  BY <1>1, <1>2, HeadOfNothing DEF FramingIndependent
<1>AnswerFitsStream. AnswerFitsStream'
  BY <1>1, <1>2, <1>3, <1>4, <1>int DEF Inv, Numbers, AnswerFitsStream, FramingIndependent, PositionInv, HeadInv, ServeInv, Serving, TooLarge, Smaller, Begin, Reset, lens, call
<1>ReadFitsArray. ReadFitsArray'
  BY <1>1, <1>2, <1>3, <1>4, <1>int DEF Inv, Numbers, ReadFitsArray, CallInv, Begin, Reset, lens, call
<1>ShortReadsExplained. ShortReadsExplained'
  BY <1>1, <1>2, <1>3, <1>4, <1>int DEF Inv, Numbers, ShortReadsExplained, CallInv, HeadInv, Serving, Begin, Reset, lens, call
<1>BreakInv. BreakInv'
  BY <1>1, <1>2, <1>3, <1>4, <1>int DEF Inv, Numbers, BreakInv, Begin, Reset, lens, call
<1> QED BY <1>TypeOK, <1>PositionInv, <1>HeadInv, <1>ServeInv, <1>CallInv, <1>BodyInOrder, <1>FramingIndependent, <1>AnswerFitsStream, <1>ReadFitsArray, <1>ShortReadsExplained, <1>BreakInv DEF Inv

\* A piece of the head arrives.
LEMMA ReadHeadKeeps ==
    ASSUME Inv, NEW n \in 1 .. BufSize, ReadHead(n)
    PROVE  Inv'
<1>int. Numbers
  BY NumbersHold DEF Inv
<1>1. /\ n >= 1 /\ data_len + n <= BufSize /\ taken + n <= Len(sent[conn]) /\ n \in Int
      /\ conn > 0 /\ taken = data_len /\ data_len' = data_len + n /\ taken' = taken + n
  BY <1>int DEF Inv, Numbers, PositionInv, HeadInv, ReadHead, Available, Room, Smaller
<1>2. buf' \in [1 .. BufSize -> Cells]
  <2>1. \A i \in 1 .. BufSize : i > data_len => <<conn, taken + (i - data_len)>> \in Cells
    BY <1>1, <1>int DEF Inv, Numbers, Cells
  <2> QED BY <1>1, <2>1, <1>int DEF Inv, Numbers, TypeOK, ReadHead, Received
<1>3. \A i \in 1 .. data_len' : buf'[i] = <<conn, i>>
  <2> SUFFICES ASSUME NEW i \in 1 .. data_len + n
               PROVE  buf'[i] = <<conn, i>>
    BY <1>1
  <2>1. i \in 1 .. BufSize /\ data_len + (i - data_len) = i
    BY <1>1, <1>int DEF Inv, Numbers
  <2>2. buf'[i] = IF i > data_len /\ i <= data_len + n
                  THEN <<conn, taken + (i - data_len)>> ELSE buf[i]
    BY <2>1 DEF ReadHead, Received
  <2>3. CASE i > data_len
    BY <1>1, <2>1, <2>2, <2>3
  <2>4. CASE ~(i > data_len)
    <3>1. i \in 1 .. data_len
      BY <2>1, <2>4, <1>int DEF Inv, Numbers
    <3> QED BY <2>2, <2>4, <3>1 DEF Inv, HeadInv, ReadHead
  <2> QED BY <2>3, <2>4
<1>4. request_len' = HeadLength(sent[conn], data_len')
  <2> DEFINE bytes == [i \in 1 .. data_len' |-> ClassOf(buf'[i])]
  <2>1. \A i \in 1 .. data_len' : bytes[i] = sent[conn][i]
    <3> SUFFICES ASSUME NEW i \in 1 .. data_len'
                 PROVE  ClassOf(buf'[i]) = sent[conn][i]
      OBVIOUS
    <3>1. buf'[i] = <<conn, i>> /\ <<conn, i>> # Nul
      BY <1>1, <1>3 DEF Nul
    <3> QED BY <3>1 DEF ClassOf
  <2>2. data_len' \in Nat
    BY <1>1, <1>int DEF Inv, Numbers
  <2>3. request_len' = HeadLength(bytes, data_len')
    BY DEF ReadHead, Scan
  <2> HIDE DEF bytes
  <2> QED BY <2>1, <2>2, <2>3, HeadAgrees
<1>5. request_len' \in -1 .. data_len'
  BY <1>1, <1>4, HeadBounds, <1>int DEF Inv, Numbers
<1>m. PICK m \in Nat : m = Smaller(Len(sent[conn]), BufSize) /\ data_len' <= m
  BY <1>1, <1>int DEF Inv, Numbers, Smaller
<1>6. request_len' > 0 => request_len' = HeadLength(sent[conn], m)
  <2>1. data_len' \in Nat
    BY <1>1, <1>int DEF Inv, Numbers
  <2> QED BY <1>4, <1>m, <2>1, HeadStable
<1>7. request_len' < 0 =>
         \E i \in 1 .. data_len' :
             /\ sent[conn][i] = "ctl"
             /\ HeadLength(sent[conn], m) > 0 => HeadLength(sent[conn], m) > i
  <2> SUFFICES ASSUME request_len' < 0
               PROVE  \E i \in 1 .. data_len' :
                          /\ sent[conn][i] = "ctl"
                          /\ HeadLength(sent[conn], m) > 0 => HeadLength(sent[conn], m) > i
    OBVIOUS
  <2>1. data_len' \in Nat
    BY <1>1, <1>int DEF Inv, Numbers
  <2> QED BY <1>4, <1>m, <2>1, Malformed
<1>TypeOK. TypeOK'
  BY <1>1, <1>2, <1>3, <1>5, <1>int DEF Inv, Numbers, TypeOK, ReadHead, lens, call
<1>PositionInv. PositionInv'
  BY <1>1, <1>2, <1>3, <1>5, <1>int DEF Inv, Numbers, PositionInv, ReadHead, lens, call
<1>HeadInv. HeadInv'
  BY <1>1, <1>2, <1>3, <1>5, <1>int DEF Inv, Numbers, HeadInv, ReadHead, lens, call
<1>ServeInv. ServeInv'
  BY <1>1, <1>2, <1>3, <1>5, <1>int DEF Inv, Numbers, ServeInv, Serving, HeadInv, HeadComplete, ReadHead, lens, call
<1>CallInv. CallInv'
  BY <1>1, <1>2, <1>3, <1>5, <1>int DEF Inv, Numbers, CallInv, ReadHead, lens, call
<1>BodyInOrder. BodyInOrder'
  <2>1. out' = <<>> /\ consumed_content' = 0
    BY <1>1 DEF Inv, HeadInv, ReadHead
  <2> QED BY <2>1 DEF BodyInOrder
<1>FramingIndependent. FramingIndependent'
  <2>1. conn' = conn /\ sent' = sent
    BY DEF ReadHead
  <2> QED BY <1>4, <1>m, <1>6, <1>7, <2>1 DEF FramingIndependent
<1>AnswerFitsStream. AnswerFitsStream'
  BY <1>1, <1>2, <1>3, <1>5, <1>int DEF Inv, Numbers, AnswerFitsStream, FramingIndependent, PositionInv, HeadInv, ServeInv, Serving, TooLarge, Smaller, ReadHead, lens, call
<1>ReadFitsArray. ReadFitsArray'
  BY <1>1, <1>2, <1>3, <1>5, <1>int DEF Inv, Numbers, ReadFitsArray, CallInv, ReadHead, lens, call
<1>ShortReadsExplained. ShortReadsExplained'
  BY <1>1, <1>2, <1>3, <1>5, <1>int DEF Inv, Numbers, ShortReadsExplained, CallInv, HeadInv, Serving, ReadHead, lens, call
<1>BreakInv. BreakInv'
  BY <1>1, <1>2, <1>3, <1>5, <1>int DEF Inv, Numbers, BreakInv, ReadHead, lens, call
<1> QED BY <1>TypeOK, <1>PositionInv, <1>HeadInv, <1>ServeInv, <1>CallInv, <1>BodyInOrder, <1>FramingIndependent, <1>AnswerFitsStream, <1>ReadFitsArray, <1>ShortReadsExplained, <1>BreakInv DEF Inv

\* The handler returns, the rest is discarded.
LEMMA DiscardKeeps ==
    ASSUME Inv, Discard
    PROVE  Inv'
<1>int. Numbers
  BY NumbersHold DEF Inv
<1> DEFINE shift == Shift
<1>1. shift \in Nat /\ shift <= data_len /\ request_len \in 1 .. data_len
  BY <1>int DEF Inv, Numbers, ServeInv, Serving, Discard
<1>2. data_len' = data_len - shift /\ data_len' \in 0 .. BufSize
  BY <1>1, <1>int DEF Inv, Numbers, Discard
<1>3. buf' \in [1 .. BufSize -> Cells]
  <2>1. \A i \in 1 .. BufSize : i <= data_len - shift => i + shift \in 1 .. BufSize
    BY <1>1, <1>2, <1>int DEF Inv, Numbers, Discard
  <2>2. buf' = [i \in 1 .. BufSize |->
                   IF i <= data_len - shift THEN buf[i + shift] ELSE buf[i]]
    BY DEF Discard, Shifted
  <2> HIDE DEF shift
  <2> QED BY <2>1, <2>2 DEF Inv, TypeOK
<1> HIDE DEF shift
<1>TypeOK. TypeOK'
  BY <1>1, <1>2, <1>3, <1>int DEF Inv, Numbers, TypeOK, Discard, lens, call
<1>PositionInv. PositionInv'
  BY <1>1, <1>2, <1>3, <1>int DEF Inv, Numbers, PositionInv, Discard, lens, call
<1>HeadInv. HeadInv'
  BY <1>1, <1>2, <1>3, <1>int DEF Inv, Numbers, HeadInv, Discard, lens, call
<1>ServeInv. ServeInv'
  BY <1>1, <1>2, <1>3, <1>int DEF Inv, Numbers, ServeInv, Serving, HeadInv, HeadComplete, Discard, lens, call
<1>CallInv. CallInv'
  BY <1>1, <1>2, <1>3, <1>int DEF Inv, Numbers, CallInv, Discard, lens, call
<1>BodyInOrder. BodyInOrder'
  BY <1>1, <1>2, <1>3, <1>int DEF Inv, Numbers, BodyInOrder, Discard, lens, call
<1>FramingIndependent. FramingIndependent'
  BY <1>1, <1>int DEF Inv, Numbers, FramingIndependent, Discard
<1>AnswerFitsStream. AnswerFitsStream'
  BY <1>1, <1>2, <1>3, <1>int DEF Inv, Numbers, AnswerFitsStream, FramingIndependent, PositionInv, HeadInv, ServeInv, Serving, TooLarge, Smaller, Discard, lens, call
<1>ReadFitsArray. ReadFitsArray'
  BY <1>1, <1>2, <1>3, <1>int DEF Inv, Numbers, ReadFitsArray, CallInv, Discard, lens, call
<1>ShortReadsExplained. ShortReadsExplained'
  BY <1>1, <1>2, <1>3, <1>int DEF Inv, Numbers, ShortReadsExplained, CallInv, HeadInv, Serving, Discard, lens, call
<1>BreakInv. BreakInv'
  BY <1>1, <1>2, <1>3, <1>int DEF Inv, Numbers, BreakInv, Discard, lens, call
<1> QED BY <1>TypeOK, <1>PositionInv, <1>HeadInv, <1>ServeInv, <1>CallInv, <1>BodyInOrder, <1>FramingIndependent, <1>AnswerFitsStream, <1>ReadFitsArray, <1>ShortReadsExplained, <1>BreakInv DEF Inv

\* A piece of the body arrives.
LEMMA PullBodyKeeps ==
    ASSUME Inv, NEW n \in Nat, PullBody(n)
    PROVE  Inv'
<1>int. Numbers
  BY NumbersHold DEF Inv
<1>g. n \in 1 .. Smaller(left, Len(sent[conn]) - taken)
  BY DEF PullBody, Available
<1>0. /\ pc = "pull"
      /\ taken' = taken + n /\ consumed_content' = consumed_content + n
      /\ nread' = nread + n /\ left' = left - n
      /\ pc' = (IF left' > 0 THEN "pull" ELSE "handler")
      /\ UNCHANGED <<conn, buf, request_len, data_len, content_len, want, calls,
                     sent, starved, answer>>
  BY DEF PullBody
<1>1. n >= 1 /\ n <= left /\ taken + n <= Len(sent[conn]) /\ conn > 0
  <2>1. conn > 0
    BY <1>0 DEF Inv, PositionInv
  <2>2. Len(sent[conn]) \in Int
    BY <2>1, StreamHolds DEF Inv
  <2> QED BY <1>g, <1>int, <2>1, <2>2 DEF Smaller, Numbers
<1>2. taken = request_len + consumed_content /\ request_len \in 1 .. data_len
      /\ consumed_content >= data_len - request_len
  BY <1>0, <1>int DEF Inv, Numbers, ServeInv, Serving, CallInv
<1>3. FromSocket(n) \in [1 .. n -> Cells] /\ out \in Seq(Cells) /\ out' = out \o FromSocket(n)
  <2>1. \A i \in 1 .. n : <<conn, taken + i>> \in Cells
    BY <1>int DEF Inv, Numbers, Cells
  <2>2. FromSocket(n) \in [1 .. n -> Cells]
    BY <2>1 DEF FromSocket
  <2> QED BY <2>2 DEF Inv, TypeOK, PullBody
<1>4. /\ out' \in Seq(Cells)
      /\ Len(out') = Len(out) + n
      /\ \A i \in 1 .. Len(out) : out'[i] = out[i]
      /\ \A i \in 1 .. n : out'[Len(out) + i] = FromSocket(n)[i]
  <2>1. /\ out \o FromSocket(n) \in Seq(Cells)
        /\ Len(out \o FromSocket(n)) = Len(out) + n
        /\ \A i \in 1 .. Len(out) : (out \o FromSocket(n))[i] = out[i]
        /\ \A i \in 1 .. n : (out \o FromSocket(n))[Len(out) + i] = FromSocket(n)[i]
    BY ONLY <1>3, Extended, n \in Nat
  <2> QED BY ONLY <1>3, <2>1
<1>5. left' \in Nat /\ (pc' = "pull" <=> left' > 0) /\ (pc' = "handler" <=> left' <= 0)
  BY <1>0, <1>1, <1>int DEF Inv, Numbers
<1>TypeOK. TypeOK'
  BY <1>0, <1>1, <1>2, <1>4, <1>5, <1>int DEF Inv, Numbers, TypeOK, lens, call
<1>PositionInv. PositionInv'
  BY <1>0, <1>1, <1>2, <1>5, <1>int DEF Inv, Numbers, PositionInv, lens, call
<1>HeadInv. HeadInv'
  BY <1>0, <1>1, <1>2, <1>5, <1>int DEF Inv, Numbers, HeadInv, lens, call
<1>ServeInv. ServeInv'
  <2>1. \A i \in request_len + 1 .. data_len : buf[i] = <<conn, i>>
    BY <1>0 DEF Inv, ServeInv, Serving
  <2>2. left <= content_len - consumed_content
    BY <1>0 DEF Inv, CallInv
  <2>3. consumed_content' <= content_len /\ taken' = request_len + consumed_content'
        /\ ~(consumed_content' < data_len - request_len)
    BY <1>0, <1>1, <1>2, <1>int, <2>2 DEF Numbers
  <2>4. UNCHANGED <<conn, buf, content_len, data_len, request_len>>
    BY <1>0
  <2> QED BY <1>2, <2>1, <2>3, <2>4 DEF ServeInv
<1>CallInv. CallInv'
  <2>1. left <= content_len - consumed_content
        /\ (nread + left = want \/ consumed_content + left = content_len)
    BY <1>0 DEF Inv, CallInv
  <2>2. UNCHANGED <<want, content_len, data_len, request_len>>
    BY <1>0
  <2> QED BY <1>0, <1>1, <1>2, <1>5, <1>int, <2>1, <2>2 DEF CallInv, Numbers
<1>BodyInOrder. BodyInOrder'
  <2> SUFFICES ASSUME NEW i \in 1 .. Len(out')
               PROVE  out'[i] = <<conn, request_len + i>>
    BY <1>0, <1>4, <1>int DEF Inv, Numbers, BodyInOrder
  <2>1. Len(out) = consumed_content
    BY DEF Inv, BodyInOrder
  <2>2. CASE i <= Len(out)
    BY <1>4, <2>1, <2>2, <1>int DEF Inv, Numbers, BodyInOrder
  <2>3. CASE ~(i <= Len(out))
    <3>1. i - Len(out) \in 1 .. n /\ Len(out) + (i - Len(out)) = i
      BY <1>4, <2>1, <2>3, <1>int DEF Inv, Numbers
    <3>2. out'[i] = FromSocket(n)[i - Len(out)]
      BY <1>4, <3>1
    <3>3. taken + (i - Len(out)) = request_len + i
      BY <1>2, <2>1, <3>1, <1>int DEF Inv, Numbers
    <3> QED BY <3>1, <3>2, <3>3 DEF FromSocket
  <2> QED BY <2>2, <2>3
<1>FramingIndependent. FramingIndependent'
  BY <1>0, <1>1, <1>2, <1>5, <1>int DEF Inv, Numbers, FramingIndependent, lens, call
<1>AnswerFitsStream. AnswerFitsStream'
  BY <1>0, <1>1, <1>2, <1>5, <1>int DEF Inv, Numbers, AnswerFitsStream, FramingIndependent, PositionInv, HeadInv, ServeInv, Serving, TooLarge, Smaller, lens, call
<1>ReadFitsArray. ReadFitsArray'
  <2>1. nread <= want /\ nread + left <= want
    BY <1>0 DEF Inv, ReadFitsArray
  <2>2. nread' <= want' /\ nread' + left' <= want'
    BY <1>0, <1>1, <1>int, <2>1 DEF Numbers
  <2> QED BY <2>2 DEF ReadFitsArray
<1>ShortReadsExplained. ShortReadsExplained'
  BY <1>0, <1>1, <1>2, <1>5, <1>int DEF Inv, Numbers, ShortReadsExplained, CallInv, HeadInv, Serving, lens, call
<1>BreakInv. BreakInv'
  BY <1>0, <1>1, <1>2, <1>5, <1>int DEF Inv, Numbers, BreakInv, lens, call
<1> QED BY <1>TypeOK, <1>PositionInv, <1>HeadInv, <1>ServeInv, <1>CallInv, <1>BodyInOrder, <1>FramingIndependent, <1>AnswerFitsStream, <1>ReadFitsArray, <1>ShortReadsExplained, <1>BreakInv DEF Inv

\* mg_read when the body is used up, or was not announced.
LEMMA ReadNoBodyKeeps ==
    ASSUME Inv, NEW len \in ReadSizes, ~(consumed_content < content_len), StartRead(len)
    PROVE  Inv'
<1>int. Numbers
  BY NumbersHold DEF Inv
<1>1. /\ nread' = 0 /\ left' = 0 /\ pc = "handler" /\ pc' = "handler"
      /\ starved' = FALSE /\ calls < MaxReads /\ calls' = calls + 1
      /\ UNCHANGED <<out, consumed_content, conn, buf, request_len, data_len, content_len,
                     sent, taken, answer>>
  BY DEF StartRead
<1>2. want' = len /\ len \in Nat
  BY DEF StartRead
<1>TypeOK. TypeOK'
  <2>1. calls' \in 0 .. MaxReads
    BY <1>1 DEF Inv, TypeOK
  <2> QED BY <1>1, <1>2, <2>1 DEF Inv, TypeOK
<1>PositionInv. PositionInv'
  BY <1>1, <1>2, <1>int DEF Inv, Numbers, PositionInv, lens, call
<1>HeadInv. HeadInv'
  BY <1>1, <1>2, <1>int DEF Inv, Numbers, HeadInv, lens, call
<1>ServeInv. ServeInv'
  BY <1>1, <1>2, <1>int DEF Inv, Numbers, ServeInv, Serving, HeadInv, HeadComplete, lens, call
<1>CallInv. CallInv'
  BY <1>1, <1>2, <1>int DEF Inv, Numbers, CallInv, lens, call
<1>BodyInOrder. BodyInOrder'
  BY <1>1, <1>2, <1>int DEF Inv, Numbers, BodyInOrder, lens, call
<1>FramingIndependent. FramingIndependent'
  BY <1>1, <1>2, <1>int DEF Inv, Numbers, FramingIndependent, lens, call
<1>AnswerFitsStream. AnswerFitsStream'
  BY <1>1, <1>2, <1>int DEF Inv, Numbers, AnswerFitsStream, FramingIndependent, PositionInv, HeadInv, ServeInv, Serving, TooLarge, Smaller, lens, call
<1>ReadFitsArray. ReadFitsArray'
  BY <1>1, <1>2, <1>int DEF Inv, Numbers, ReadFitsArray, CallInv, lens, call
<1>ShortReadsExplained. ShortReadsExplained'
  BY <1>1, <1>2, <1>int DEF Inv, Numbers, ShortReadsExplained, CallInv, HeadInv, Serving, lens, call
<1>BreakInv. BreakInv'
  BY <1>1, <1>2, <1>int DEF Inv, Numbers, BreakInv, lens, call
<1> QED BY <1>TypeOK, <1>PositionInv, <1>HeadInv, <1>ServeInv, <1>CallInv, <1>BodyInOrder, <1>FramingIndependent, <1>AnswerFitsStream, <1>ReadFitsArray, <1>ShortReadsExplained, <1>BreakInv DEF Inv

\* mg_read up to its loop.
LEMMA StartReadKeeps ==
    ASSUME Inv, NEW len \in ReadSizes, consumed_content < content_len, StartRead(len)
    PROVE  Inv'
<1>int. Numbers
  BY NumbersHold DEF Inv
<1> DEFINE n == Buffered(Ask(len))
<1>0. /\ len \in Nat /\ want' = len /\ pc = "handler" /\ calls < MaxReads /\ calls' = calls + 1
      /\ starved' = FALSE /\ pc' = (IF left' > 0 THEN "pull" ELSE "handler")
      /\ UNCHANGED <<conn, buf, request_len, data_len, content_len, sent, taken, answer>>
  BY DEF StartRead
<1>1. conn > 0 /\ request_len \in 1 .. data_len
  BY <1>0, <1>int DEF Inv, Numbers, PositionInv, ServeInv, Serving
<1>2. Ask(len) \in Nat /\ Ask(len) <= len /\ Ask(len) <= content_len - consumed_content
      /\ (Ask(len) = len \/ Ask(len) = content_len - consumed_content)
  BY <1>0, <1>int DEF Inv, Numbers, Ask, Smaller
<1>3. /\ n \in Nat /\ n <= Ask(len)
      /\ n > 0 => n <= data_len - request_len - consumed_content
      /\ n < Ask(len) => consumed_content + n >= data_len - request_len
  BY <1>1, <1>2, <1>int DEF Inv, Numbers, Buffered, Smaller
<1>4. /\ consumed_content' = consumed_content + n
      /\ nread' = n
      /\ left' = Ask(len) - n
  BY DEF StartRead, StillMissing
<1>o. out' = out \o FromBuffer(n)
  BY DEF StartRead
<1> HIDE DEF n
<1>5. \A i \in 1 .. n : FromBuffer(n)[i] = <<conn, request_len + consumed_content + i>>
  <2> SUFFICES ASSUME NEW i \in 1 .. n
               PROVE  buf[request_len + consumed_content + i] =
                          <<conn, request_len + consumed_content + i>>
    BY DEF FromBuffer
  <2>1. request_len + consumed_content + i \in request_len + 1 .. data_len
    BY <1>1, <1>3, <1>int DEF Inv, Numbers
  <2> QED BY <1>0, <2>1 DEF Inv, ServeInv, Serving
<1>6. FromBuffer(n) \in [1 .. n -> Cells]
  <2>1. \A i \in 1 .. n : <<conn, request_len + consumed_content + i>> \in Cells
    BY <1>1, <1>3, <1>int DEF Inv, Numbers, Cells
  <2> QED BY <1>5, <2>1 DEF FromBuffer
<1>7. /\ out' \in Seq(Cells)
      /\ Len(out') = Len(out) + n
      /\ \A i \in 1 .. Len(out) : out'[i] = out[i]
      /\ \A i \in 1 .. n : out'[Len(out) + i] = FromBuffer(n)[i]
  <2>1. out \in Seq(Cells)
    BY DEF Inv, TypeOK
  <2>2. /\ out \o FromBuffer(n) \in Seq(Cells)
        /\ Len(out \o FromBuffer(n)) = Len(out) + n
        /\ \A i \in 1 .. Len(out) : (out \o FromBuffer(n))[i] = out[i]
        /\ \A i \in 1 .. n : (out \o FromBuffer(n))[Len(out) + i] = FromBuffer(n)[i]
    <3>1. n \in Nat
      BY <1>3
    <3> QED BY ONLY <3>1, <1>6, <2>1, Extended
  <2> QED BY ONLY <1>o, <2>2
<1>8. left' \in Nat /\ (left' > 0 => pc' = "pull") /\ (~(left' > 0) => pc' = "handler")
  BY <1>0, <1>2, <1>3, <1>4
<1>9. taken = IF consumed_content < data_len - request_len
              THEN data_len ELSE request_len + consumed_content
  BY <1>0 DEF Inv, ServeInv, Serving
<1>TypeOK. TypeOK'
  <2>1. calls' \in 0 .. MaxReads
    BY <1>0 DEF Inv, TypeOK
  <2>2. consumed_content' \in Nat /\ nread' \in Nat /\ left' \in Nat
    BY <1>3, <1>4, <1>8, <1>int DEF Numbers
  <2> QED BY <1>0, <1>7, <1>8, <2>1, <2>2 DEF Inv, TypeOK
<1>PositionInv. PositionInv'
  BY <1>0, <1>1, <1>2, <1>3, <1>4, <1>8, <1>9, <1>int DEF Inv, Numbers, PositionInv, lens, call
<1>HeadInv. HeadInv'
  BY <1>0, <1>1, <1>2, <1>3, <1>4, <1>8, <1>9, <1>int DEF Inv, Numbers, HeadInv, lens, call
<1>ServeInv. ServeInv'
  BY <1>0, <1>1, <1>2, <1>3, <1>4, <1>8, <1>9, <1>int DEF Inv, Numbers, ServeInv, Serving, HeadInv, HeadComplete, lens, call
<1>CallInv. CallInv'
  <2> SUFFICES ASSUME left' > 0
               PROVE  /\ consumed_content' >= data_len - request_len
                      /\ left' <= content_len - consumed_content'
                      /\ nread' + left' = want' \/ consumed_content' + left' = content_len
    BY <1>0 DEF CallInv
  <2>1. n < Ask(len)
    BY <1>2, <1>3, <1>4
  <2> QED BY <1>0, <1>2, <1>3, <1>4, <1>int, <2>1 DEF Numbers
<1>BodyInOrder. BodyInOrder'
  <2> SUFFICES ASSUME NEW i \in 1 .. Len(out')
               PROVE  out'[i] = <<conn, request_len + i>>
    BY <1>0, <1>4, <1>7 DEF Inv, BodyInOrder
  <2>1. Len(out) = consumed_content
    BY DEF Inv, BodyInOrder
  <2>2. CASE i <= Len(out)
    BY <1>7, <2>1, <2>2, <1>int DEF Inv, Numbers, BodyInOrder
  <2>3. CASE ~(i <= Len(out))
    <3>1. i - Len(out) \in 1 .. n /\ Len(out) + (i - Len(out)) = i
      BY <1>0, <1>3, <1>7, <2>1, <2>3, <1>int DEF Inv, Numbers
    <3>2. out'[i] = FromBuffer(n)[i - Len(out)]
      BY <1>7, <3>1
    <3>3. request_len + consumed_content + (i - Len(out)) = request_len + i
      BY <1>2, <2>1, <3>1, <1>int DEF Inv, Numbers
    <3> QED BY <1>5, <3>1, <3>2, <3>3
  <2> QED BY <2>2, <2>3
<1>FramingIndependent. FramingIndependent'
  BY <1>0, <1>1, <1>2, <1>3, <1>4, <1>8, <1>9, <1>int DEF Inv, Numbers, FramingIndependent, lens, call
<1>AnswerFitsStream. AnswerFitsStream'
  BY <1>0, <1>1, <1>2, <1>3, <1>4, <1>8, <1>9, <1>int DEF Inv, Numbers, AnswerFitsStream, FramingIndependent, PositionInv, HeadInv, ServeInv, Serving, TooLarge, Smaller, lens, call
<1>ReadFitsArray. ReadFitsArray'
  <2>1. nread' <= want' /\ nread' + left' <= want'
    BY <1>0, <1>2, <1>3, <1>4
  <2> QED BY <2>1 DEF ReadFitsArray
<1>ShortReadsExplained. ShortReadsExplained'
  <2> SUFFICES ASSUME ~(left' > 0)
               PROVE  nread' = want' \/ consumed_content' >= content_len
    BY <1>0 DEF ShortReadsExplained
  <2>1. n = Ask(len)
    BY <1>2, <1>3, <1>4
  <2> QED BY <1>0, <1>2, <1>4, <1>int, <2>1 DEF Numbers
<1>BreakInv. BreakInv'
  BY <1>0, <1>1, <1>2, <1>3, <1>4, <1>8, <1>9, <1>int DEF Inv, Numbers, BreakInv, lens, call
<1> QED BY <1>TypeOK, <1>PositionInv, <1>HeadInv, <1>ServeInv, <1>CallInv, <1>BodyInOrder, <1>FramingIndependent, <1>AnswerFitsStream, <1>ReadFitsArray, <1>ShortReadsExplained, <1>BreakInv DEF Inv

(***************************************************************************)
(* The theorems.                                                           *)
(***************************************************************************)
LEMMA InitInv == Init => Inv
<1> SUFFICES ASSUME Init
             PROVE  Inv
  OBVIOUS
<1>1. BufSize \in Nat /\ MaxConnections \in Nat /\ MaxReads \in Nat
  OBVIOUS
<1>2. TypeOK
  <2>1. Nul \in Cells /\ <<>> \in Seq(Cells)
    BY DEF Nul, Cells
  <2>2. buf \in [1 .. BufSize -> Cells]
    BY <2>1 DEF Init
  <2>3. request_len \in -1 .. BufSize /\ data_len \in 0 .. BufSize /\ data_len \in Int
    BY <1>1 DEF Init
  <2>4. conn \in 0 .. MaxConnections /\ calls \in 0 .. MaxReads
    BY <1>1 DEF Init
  <2>5. out \in Seq(Cells)
    BY <2>1 DEF Init
  <2>6. /\ pc = "idle" /\ starved = FALSE /\ answer = "none"
        /\ content_len = -1 /\ consumed_content = 0 /\ left = 0 /\ nread = 0 /\ want = 0
        /\ sent \in [1 .. MaxConnections -> Streams] /\ taken = 0
    BY DEF Init
  <2> QED BY ONLY <2>2, <2>3, <2>4, <2>5, <2>6 DEF TypeOK
<1>3. BodyInOrder
  BY DEF Init, BodyInOrder
<1>4. PositionInv /\ HeadInv /\ ServeInv /\ CallInv
  BY DEF Init, PositionInv, HeadInv, ServeInv, Serving, CallInv
<1>5. FramingIndependent /\ AnswerFitsStream /\ ReadFitsArray /\ ShortReadsExplained /\ BreakInv
  BY DEF Init, BreakInv, FramingIndependent, AnswerFitsStream, ReadFitsArray, ShortReadsExplained
<1> QED BY <1>2, <1>3, <1>4, <1>5 DEF Inv

LEMMA StutterKeeps == Inv /\ UNCHANGED vars => Inv'
<1> SUFFICES ASSUME Inv, UNCHANGED vars
             PROVE  Inv'
  OBVIOUS
<1> USE DEF vars, lens, call
<1>1. TypeOK' /\ PositionInv'
  BY DEF Inv, TypeOK, PositionInv
<1>2. HeadInv' /\ ServeInv' /\ CallInv'
  BY DEF Inv, HeadInv, ServeInv, Serving, CallInv
<1>3. BodyInOrder' /\ FramingIndependent'
  BY DEF Inv, BodyInOrder, FramingIndependent
<1>4. AnswerFitsStream' /\ ReadFitsArray' /\ ShortReadsExplained' /\ BreakInv'
  BY DEF Inv, AnswerFitsStream, ReadFitsArray, ShortReadsExplained, BreakInv
<1> QED BY <1>1, <1>2, <1>3, <1>4 DEF Inv

\* One step of Next for each action of the worker.
LEMMA StepInv == Inv /\ [Next]_vars => Inv'
<1> SUFFICES ASSUME Inv, [Next]_vars
             PROVE  Inv'
  OBVIOUS
<1>1. CASE Begin
  BY <1>1, BeginKeeps
<1>2. CASE ReadRequest
  BY <1>2, ReadNothingKeeps, ReadHeadKeeps DEF ReadRequest
<1>3. CASE Respond
  BY <1>3, RefuseTooLargeKeeps, DropRequestKeeps, RefuseRequestKeeps, HandleKeeps DEF Respond
<1>4. CASE pc \in {"handler", "pull"} /\ ReadBody
  <2>1. ASSUME NEW len \in ReadSizes, StartRead(len)
        PROVE  Inv'
    BY <2>1, StartReadKeeps, ReadNoBodyKeeps
  <2>2. ASSUME NEW n \in 1 .. Len(sent[conn]), PullBody(n)
        PROVE  Inv'
    <3>1. n \in Nat
      <4>1. conn > 0
        BY <1>4 DEF Inv, PositionInv
      <4>2. Len(sent[conn]) \in Int
        BY <4>1, StreamHolds DEF Inv
      <4> QED BY <4>2
    <3> QED BY <2>2, <3>1, PullBodyKeeps
  <2>3. CASE PullNothing
    BY <2>3, PullNothingKeeps
  <2>4. CASE ReadAborts
    BY <2>4, ReadAbortsKeeps
  <2> QED BY <1>4, <2>1, <2>2, <2>3, <2>4 DEF ReadBody
<1>5. CASE Discard \/ DiscardLeavesBuffer
  BY <1>5, DiscardKeeps, DiscardLeavesBufferKeeps
<1>6. CASE Close
  BY <1>6, CloseKeeps
<1>8. CASE pc = "close" /\ \E n \in 1 .. Len(sent[conn]) : Drain(n)
  BY <1>8, DrainKeeps
<1>7. CASE UNCHANGED vars
  BY <1>7, StutterKeeps
<1> QED BY <1>1, <1>2, <1>3, <1>4, <1>5, <1>6, <1>7, <1>8 DEF Next, Serve

\* The invariant holds in every reachable state of mongoose.c's connection
\* handling, whatever the size of the buffer and whatever clients send.
THEOREM ConnectionInvariant == Spec => []Inv
BY InitInv, StepInv, PTL DEF Spec

\* The lengths of the connection stay within its buffer.
THEOREM ConnectionTypes == Spec => []TypeOK
<1>1. Inv => TypeOK
  BY DEF Inv
<1> QED BY <1>1, ConnectionInvariant, PTL

\* No assertion of process_new_connection, mg_read or
\* discard_current_request_from_buffer fails, and the discard stays within the
\* buffer, unless a request announces a negative length other than -1.
THEOREM BreaksByLengthOnly == Spec => []BrokenByLengthOnly
<1>1. Inv => BrokenByLengthOnly
  <2> SUFFICES ASSUME Inv
               PROVE  BrokenByLengthOnly
    OBVIOUS
  <2>1. Numbers
    BY NumbersHold DEF Inv
  <2>2. pc = "headDone" => data_len >= request_len
    BY <2>1 DEF Inv, HeadInv, Numbers
  <2>3. Serving => data_len - request_len >= 0
    BY <2>1 DEF Inv, ServeInv, Numbers
  <2>4. pc = "broken" => content_len < -1
    BY DEF Inv, BreakInv
  <2> QED BY <2>2, <2>3, <2>4 DEF BrokenByLengthOnly
<1> QED BY <1>1, ConnectionInvariant, PTL

\* mg_read hands out the body of this connection, in order and without a gap,
\* however it was cut into pieces.
THEOREM BodiesAreIntact == Spec => []BodyInOrder
<1>1. Inv => BodyInOrder
  BY DEF Inv
<1> QED BY <1>1, ConnectionInvariant, PTL

\* The pieces in which a head arrives do not change where it ends, and decide
\* whether it is dropped only if it holds a control character.
THEOREM HeadsAreFramed == Spec => []FramingIndependent
<1>1. Inv => FramingIndependent
  BY DEF Inv
<1> QED BY <1>1, ConnectionInvariant, PTL

\* Requests are refused or dropped for a reason that lies in what was sent.
THEOREM AnswersFit == Spec => []AnswerFitsStream
<1>1. Inv => AnswerFitsStream
  BY DEF Inv
<1> QED BY <1>1, ConnectionInvariant, PTL

\* mg_read stays within the array of its caller, and returns less than asked
\* only at the end of the body or when nothing arrives.
THEOREM ReadsAreComplete == Spec => []ReadsComplete
<1>1. Inv => ReadsComplete
  BY DEF Inv, ReadsComplete
<1> QED BY <1>1, ConnectionInvariant, PTL
=============================================================================
