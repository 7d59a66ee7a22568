---------------------------- MODULE MgConnection ----------------------------
(***************************************************************************)
(* One worker of mongoose.c and the connections it serves one after the    *)
(* other: process_new_connection reads the head of a request into the      *)
(* worker's buffer, the handler takes the body with mg_read, first what    *)
(* came with the head and then from the socket, and what is left over is   *)
(* discarded.  The network delivers what the client sent in pieces of any  *)
(* size; recv may also return nothing, because of the receive timeout or   *)
(* because the client closed the connection.                               *)
(*                                                                         *)
(* A byte is represented by where it comes from, <<connection, position>>, *)
(* so that a byte that is lost, repeated or left from another connection   *)
(* shows; what the scan of the head distinguishes is its class.  The       *)
(* buffer is a C array with its first cell numbered 1.                     *)
(***************************************************************************)
EXTENDS Integers, Sequences

CONSTANTS
    BufSize,        \* conn->buf_size
    Streams,        \* what a client may send on a connection
    ContentLengths, \* what get_header and strtoll may find, -1 without header
    IntBound,       \* an int holds the values from -IntBound to IntBound - 1
    ReadSizes,      \* lengths a handler passes to mg_read
    MaxConnections, \* bound: connections served
    MaxReads        \* bound: calls of mg_read by one handler

\* A blank line ends the head; control characters are refused in it.
Classes == {"cr", "nl", "ctl", "txt"}

ASSUME ConnectionAssumption ==
    /\ BufSize \in Nat \ {0}
    /\ Streams \subseteq Seq(Classes)
    /\ ContentLengths \subseteq Int
    /\ IntBound \in Nat /\ BufSize <= IntBound
    /\ ReadSizes \subseteq Nat
    /\ MaxConnections \in Nat
    /\ MaxReads \in Nat

VARIABLES
    pc,          \* what the worker is about to do
    conn,        \* number of the connection
    buf,         \* conn->buf
    request_len, data_len, content_len, consumed_content,
    left,        \* local variable len of mg_read
    nread,       \* local variable nread of mg_read
    want,        \* argument len of the last mg_read
    calls,       \* mg_read calls of this handler
    sent,        \* what the clients send
    taken,       \* bytes of this connection received so far
    out,         \* bytes given to the handler
    starved,     \* the last recv of the last read loop returned nothing
    answer       \* outcome of the connection

lens == <<request_len, data_len, content_len, consumed_content>>
call == <<left, nread, want, calls>>
vars == <<pc, conn, buf, lens, call, sent, taken, out, starved, answer>>

Nul == <<0, 0>>
Cells == Nat \X Nat
ClassOf(c) == IF c = Nul THEN "ctl" ELSE sent[c[1]][c[2]]

Smaller(a, b) == IF a < b THEN a ELSE b

-----------------------------------------------------------------------------
(***************************************************************************)
(* get_request_len.                                                        *)
(***************************************************************************)
\* Of n bytes, those at i and behind it are a blank line.
BlankAt(bytes, n, i) ==
    /\ bytes[i] = "nl"
    /\ \/ bytes[i + 1] = "nl"
       \/ i + 1 < n /\ bytes[i + 1] = "cr" /\ bytes[i + 2] = "nl"

FirstBlank(bytes, n, i) ==
    /\ BlankAt(bytes, n, i)
    /\ \A j \in 1 .. i - 1 : ~BlankAt(bytes, n, j)

\* Length of the head in the first n bytes: up to the first blank line, even if
\* a control character precedes it; else -1 if there is such a character, and 0
\* if nothing speaks against the head yet.
HeadLength(bytes, n) ==
    IF \E i \in 1 .. n - 1 : FirstBlank(bytes, n, i)
    THEN LET i == CHOOSE j \in 1 .. n - 1 : FirstBlank(bytes, n, j)
         IN  IF bytes[i + 1] = "nl" THEN i + 1 ELSE i + 2
    ELSE IF \E i \in 1 .. n - 1 : bytes[i] = "ctl" THEN -1 ELSE 0

\* Mutant: only the bytes of the last recv are scanned.
ScanNew(b, n) ==
    LET new == [i \in 1 .. n - data_len |-> ClassOf(b[data_len + i])]
        k == HeadLength(new, n - data_len)
    IN  IF k > 0 THEN data_len + k ELSE k

\* The scan of the first n cells of a buffer.
Scan(b, n) == HeadLength([i \in 1 .. n |-> ClassOf(b[i])], n)

-----------------------------------------------------------------------------
Init ==
    /\ pc = "idle"
    /\ conn = 0
    /\ buf = [i \in 1 .. BufSize |-> Nul]
    /\ request_len = 0 /\ data_len = 0
    /\ content_len = -1 /\ consumed_content = 0
    /\ left = 0 /\ nread = 0 /\ want = 0 /\ calls = 0
    /\ sent \in [1 .. MaxConnections -> Streams]
    /\ taken = 0
    /\ out = <<>>
    /\ starved = FALSE
    /\ answer = "none"

\* Mutant: the buffer is not emptied.
ResetKeepsData ==
    /\ consumed_content' = 0
    /\ content_len' = -1
    /\ data_len' = data_len

\* reset_per_request_attributes.
Reset ==
    /\ consumed_content' = 0
    /\ content_len' = -1
    /\ data_len' = 0

\* consume_socket returned a connection; process_new_connection up to the
\* first scan of the buffer.
Begin ==
    /\ pc = "idle"
    /\ conn < MaxConnections
    /\ conn' = conn + 1
    /\ Reset
    /\ request_len' = Scan(buf, data_len')
    /\ pc' = IF request_len' = 0 THEN "head" ELSE "headDone"
    /\ left' = 0 /\ nread' = 0 /\ want' = 0 /\ calls' = 0
    /\ taken' = 0
    /\ out' = <<>>
    /\ starved' = FALSE
    /\ answer' = "none"
    /\ UNCHANGED <<buf, sent>>

\* n bytes that recv can return now.
Available(room) == 1 .. Smaller(room, Len(sent[conn]) - taken)

\* The next n bytes of the client in the buffer, behind the d already there.
Received(d, n) ==
    [i \in 1 .. BufSize |->
        IF i > d /\ i <= d + n THEN <<conn, taken + (i - d)>> ELSE buf[i]]

\* Mutant: the data in the buffer do not count.
WholeBuffer == BufSize

\* Room behind the data in the buffer.
Room == BufSize - data_len

\* read_request: one turn of its loop.
ReadHead(n) ==
    /\ pc = "head"
    /\ n \in Available(Room)
    /\ buf' = Received(data_len, n)
    /\ data_len' = data_len + n
    /\ taken' = taken + n
    /\ request_len' = Scan(buf', data_len')
    /\ pc' = IF data_len' < BufSize /\ request_len' = 0 THEN "head" ELSE "headDone"
    /\ UNCHANGED <<conn, content_len, consumed_content, call, sent, out, starved, answer>>

\* Mutant: read_request tries again.
ReadNothingRetries ==
    /\ pc = "head"
    /\ starved' = TRUE
    /\ UNCHANGED <<pc, conn, buf, lens, call, sent, taken, out, answer>>

\* read_request: recv returned nothing.
ReadNothing ==
    /\ pc = "head"
    /\ pc' = "headDone"
    /\ starved' = TRUE
    /\ UNCHANGED <<conn, buf, lens, call, sent, taken, out, answer>>

\* Mutant: a full buffer is refused although the head ends in it.
BufferFull == data_len = BufSize

\* The rest of process_new_connection: a head that does not fit,
TooLarge == request_len = 0 /\ data_len = BufSize

RefuseTooLarge ==
    /\ pc = "headDone"
    /\ TooLarge
    /\ answer' = "413"
    /\ pc' = "close"
    /\ UNCHANGED <<conn, buf, lens, call, sent, taken, out, starved>>

\* no head, or a malformed one,
DropRequest ==
    /\ pc = "headDone"
    /\ ~TooLarge
    /\ request_len <= 0
    /\ pc' = "close"
    /\ UNCHANGED <<conn, buf, lens, call, sent, taken, out, starved, answer>>

HeadComplete == pc = "headDone" /\ ~TooLarge /\ request_len > 0

\* The head is made a string by a terminator in its last byte.
Terminated == [buf EXCEPT ![request_len] = Nul]

\* a head that parse_http_request or the version check refuses,
RefuseRequest ==
    /\ HeadComplete
    /\ buf' = Terminated
    /\ answer' \in {"400", "505"}
    /\ pc' = "close"
    /\ UNCHANGED <<conn, lens, call, sent, taken, out, starved>>

\* and a request that goes to the user's handler.
Handle(length) ==
    /\ HeadComplete
    /\ buf' = Terminated
    /\ content_len' = length
    /\ pc' = "handler"
    /\ starved' = FALSE
    /\ UNCHANGED <<conn, request_len, data_len, consumed_content, call, sent, taken, out, answer>>

-----------------------------------------------------------------------------
(***************************************************************************)
(* mg_read.                                                                *)
(***************************************************************************)
\* Mutant: the end of the body does not limit the length.
AskAll(len) == len

\* What the call may return: no more than its caller's array and the body hold.
Ask(len) == Smaller(len, content_len - consumed_content)

\* Mutant: all that is buffered is copied.
AllBuffered(ask) ==
    IF consumed_content < data_len - request_len
    THEN data_len - request_len - consumed_content
    ELSE 0

\* Body bytes of the buffer that were not returned yet, at most ask.
Buffered(ask) ==
    IF consumed_content < data_len - request_len
    THEN Smaller(ask, data_len - request_len - consumed_content)
    ELSE 0

\* Mutant: every call starts at the beginning of the body.
FromBodyStart(n) == [i \in 1 .. n |-> buf[request_len + i]]

\* The first n of them.
FromBuffer(n) == [i \in 1 .. n |-> buf[request_len + consumed_content + i]]

\* Mutant: a call that found buffered data returns with them.
DoneIfAny(ask, n) == IF n > 0 THEN 0 ELSE ask

\* What is left for the loop over recv when n bytes were buffered.
StillMissing(ask, n) == ask - n

\* What mg_read asserts at its beginning.
BodyNotOverrun ==
    \/ content_len = -1 /\ consumed_content = 0
    \/ consumed_content <= content_len

\* The assertion fails: the process is aborted.
ReadAborts ==
    /\ pc = "handler"
    /\ calls < MaxReads
    /\ ~BodyNotOverrun
    /\ pc' = "broken"
    /\ UNCHANGED <<conn, buf, lens, call, sent, taken, out, starved, answer>>

\* Up to the loop over recv, or to the end if that is not needed.
StartRead(len) ==
    /\ pc = "handler"
    /\ calls < MaxReads
    /\ BodyNotOverrun
    /\ calls' = calls + 1
    /\ want' = len
    /\ starved' = FALSE
    /\ IF consumed_content < content_len
       THEN LET n == Buffered(Ask(len))
            IN  /\ out' = out \o FromBuffer(n)
                /\ consumed_content' = consumed_content + n
                /\ nread' = n
                /\ left' = StillMissing(Ask(len), n)
       ELSE nread' = 0 /\ left' = 0 /\ UNCHANGED <<out, consumed_content>>
    /\ pc' = IF left' > 0 THEN "pull" ELSE "handler"
    /\ UNCHANGED <<conn, buf, request_len, data_len, content_len, sent, taken, answer>>

\* The next n bytes of the client.
FromSocket(n) == [i \in 1 .. n |-> <<conn, taken + i>>]

\* recv returned n bytes of the body.
PullBody(n) ==
    /\ pc = "pull"
    /\ n \in Available(left)
    /\ out' = out \o FromSocket(n)
    /\ taken' = taken + n
    /\ consumed_content' = consumed_content + n
    /\ nread' = nread + n
    /\ left' = left - n
    /\ pc' = IF left' > 0 THEN "pull" ELSE "handler"
    /\ UNCHANGED <<conn, buf, request_len, data_len, content_len, want, calls,
                   sent, starved, answer>>

\* recv returned nothing.
PullNothing ==
    /\ pc = "pull"
    /\ pc' = "handler"
    /\ starved' = TRUE
    /\ UNCHANGED <<conn, buf, lens, call, sent, taken, out, answer>>

-----------------------------------------------------------------------------
\* The conversion (int) content_len.
AsInt(n) ==
    IF -IntBound <= n /\ n < IntBound THEN n
    ELSE ((n + IntBound) % (2 * IntBound)) - IntBound

\* Body bytes in the buffer that belong to this request.
BodyLength ==
    IF content_len = -1 THEN 0
    ELSE IF content_len < data_len - request_len THEN AsInt(content_len)
    ELSE data_len - request_len

\* Distance by which the rest of the buffer is moved.
Shift == request_len + BodyLength

\* The buffer after memmove.
Shifted ==
    [i \in 1 .. BufSize |-> IF i <= data_len - Shift THEN buf[i + Shift] ELSE buf[i]]

\* The handler returned; discard_current_request_from_buffer.
Discard ==
    /\ pc = "handler"
    /\ Shift \in 0 .. data_len
    /\ data_len' = data_len - Shift
    /\ buf' = Shifted
    /\ answer' = "handled"
    /\ pc' = "close"
    /\ UNCHANGED <<conn, request_len, content_len, consumed_content, call, sent,
                   taken, out, starved>>

\* memmove would read before the buffer, or be told a negative length: what
\* follows is undefined.
DiscardLeavesBuffer ==
    /\ pc = "handler"
    /\ Shift \notin 0 .. data_len
    /\ data_len' = data_len - Shift
    /\ pc' = "broken"
    /\ UNCHANGED <<conn, buf, request_len, content_len, consumed_content, call, sent,
                   taken, out, starved, answer>>

\* close_connection reads and forgets what the client still sends, as long as
\* something is there,
Drain(n) ==
    /\ pc = "close"
    /\ n \in Available(Len(sent[conn]))
    /\ taken' = taken + n
    /\ UNCHANGED <<pc, conn, buf, lens, call, sent, out, starved, answer>>

\* and the worker goes back to consume_socket.
Close ==
    /\ pc = "close"
    /\ pc' = "idle"
    /\ UNCHANGED <<conn, buf, lens, call, sent, taken, out, starved, answer>>

ReadRequest == ReadNothing \/ \E n \in 1 .. BufSize : ReadHead(n)
Respond ==
    \/ RefuseTooLarge \/ DropRequest \/ RefuseRequest
    \/ \E length \in ContentLengths : Handle(length)
ReadBody ==
    \/ ReadAborts
    \/ \E len \in ReadSizes : StartRead(len)
    \/ \E n \in 1 .. Len(sent[conn]) : PullBody(n)
    \/ PullNothing

\* What the worker does with a connection.
Serve ==
    \/ ReadRequest
    \/ Respond
    \/ pc \in {"handler", "pull"} /\ ReadBody
    \/ Discard \/ DiscardLeavesBuffer
    \/ pc = "close" /\ \E n \in 1 .. Len(sent[conn]) : Drain(n)
    \/ Close

Next == Begin \/ Serve

Spec == Init /\ [][Next]_vars

\* recv returns after at most the receive timeout, so the worker always goes
\* on; nothing is assumed of the clients.
FairSpec == Spec /\ WF_vars(Serve)

-----------------------------------------------------------------------------
(***************************************************************************)
(* Properties.                                                             *)
(***************************************************************************)
Serving == pc \in {"handler", "pull"}

\* Every variable has its type and, until the process breaks, the lengths stay
\* within the buffer.
TypeOK ==
    /\ pc \in {"idle", "head", "headDone", "handler", "pull", "close", "broken"}
    /\ conn \in 0 .. MaxConnections
    /\ buf \in [1 .. BufSize -> Cells]
    /\ request_len \in -1 .. BufSize
    /\ data_len \in Int /\ (pc # "broken" => data_len \in 0 .. BufSize)
    /\ content_len \in ContentLengths \cup {-1}
    /\ consumed_content \in Nat
    /\ left \in Nat /\ nread \in Nat
    /\ want \in ReadSizes \cup {0}
    /\ calls \in 0 .. MaxReads
    /\ sent \in [1 .. MaxConnections -> Streams]
    /\ taken \in Nat
    /\ out \in Seq(Cells)
    /\ starved \in BOOLEAN
    /\ answer \in {"none", "413", "400", "505", "handled"}

\* The assertions of process_new_connection, mg_read and
\* discard_current_request_from_buffer hold and memmove stays within the buffer,
\* whatever the pieces and the calls, unless the client announced a body of a
\* negative length other than -1.  strtoll returns that unchecked, and the code
\* takes it for an announced length.
BrokenByLengthOnly ==
    /\ pc = "broken" => content_len < -1
    /\ pc = "headDone" => data_len >= request_len
    /\ Serving => data_len - request_len >= 0

\* What the handler got from mg_read is the body, from the first byte behind
\* the head, in order, without a gap, a repetition or a byte of another
\* connection, however the bytes were cut into pieces by the network, the
\* buffer and the calls.
BodyInOrder ==
    /\ Len(out) = consumed_content
    /\ \A i \in 1 .. Len(out) : out[i] = <<conn, request_len + i>>

\* The pieces in which the head arrives matter only to a head with a control
\* character: a length that was found is the length of the head in everything
\* the client sent; a head that was called malformed has a control character,
\* though the blank line may have been missed because it came in a later piece;
\* and a head that is missing is missing in all that was received.
FramingIndependent ==
    conn > 0 =>
        LET stream == sent[conn]
            whole == HeadLength(stream, Smaller(Len(stream), BufSize))
        IN  /\ request_len > 0 => request_len = whole
            /\ request_len < 0 =>
                   \E i \in 1 .. data_len : stream[i] = "ctl" /\ (whole > 0 => whole > i)
            /\ request_len = 0 => HeadLength(stream, data_len) = 0

\* A request is called too large only if its head does not end within the
\* buffer, and is dropped without an answer only if it is malformed or the
\* client stopped sending before the end of the head.
AnswerFitsStream ==
    pc = "close" =>
        /\ answer = "413" => /\ Len(sent[conn]) >= BufSize
                             /\ HeadLength(sent[conn], BufSize) = 0
        /\ answer = "none" => request_len = -1 \/ starved
        /\ answer \in {"400", "505", "handled"} => request_len > 0

\* mg_read never writes past the array of its caller.
ReadFitsArray ==
    /\ nread <= want
    /\ pc = "pull" => nread + left <= want

\* mg_read returns less than it was asked for only at the end of the body or
\* when the client sends nothing: the handlers call it once and take what they
\* get for the whole body.
ShortReadsExplained ==
    pc = "handler" => nread = want \/ consumed_content >= content_len \/ starved

\* Both together: mg_read gives its caller what it asked for, never more, and
\* less only when there is no more.
ReadsComplete == ReadFitsArray /\ ShortReadsExplained

\* A worker is done with every connection after a while, whatever the client
\* sends or does not send, unless the process breaks.
EveryConnectionEnds == pc # "idle" ~> pc \in {"idle", "broken"}
=============================================================================
