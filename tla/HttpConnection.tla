--------------------------- MODULE HttpConnection ---------------------------
(***************************************************************************)
(* handle_connection (http_net.c): the thread that reads one connection,   *)
(* parses what it got (http_parse_message, http_prot.c) and calls the      *)
(* EventCallback, and the peer that sends byte by byte and may close.      *)
(*                                                                         *)
(* The bytes are tokens: "get" is a request line, "head" a header, "clen"  *)
(* a Content-Length header, "eol" a CRLF, "data" a byte of a body, "nul" a *)
(* zero byte, of a body or never written.  Each takes one place in buf.    *)
(*                                                                         *)
(* Unreachable and left out: 86-92, 121-143, 162-167 (read is positive     *)
(* there), 114-119 (the parser returns no error on these arguments).       *)
(***************************************************************************)
EXTENDS Integers, Sequences, FiniteSetsExt

CONSTANTS
    Streams,          \* what a peer may send
    MAX_HEADER_SIZE,
    ContentLength     \* the number that a "clen" announces

Token == {"get", "head", "clen", "eol", "data", "nul"}

ASSUME StreamsAssumption ==
    /\ Streams \subseteq Seq(Token)
    /\ MAX_HEADER_SIZE \in Nat \ {0}
    /\ ContentLength \in Nat \ {0}

VARIABLES
    stream,      \* what this peer sends
    sent, rcvd,  \* how much of it is sent, and received
    line,        \* of the connection: "open", "closed" by the peer, "reset"
    buf, total,  \* the buffer, and the bytes of the header read into it
    read,        \* result of the last tcp_read that was kept
    parsed,      \* what http_parse_message made of the buffer
    called,      \* the messages handed to the callback
    pc, code     \* where the thread is, and what it ended with

peer == <<stream, sent, line>>
vars == <<peer, rcvd, buf, total, read, parsed, called, pc, code>>

Places == 1 .. MAX_HEADER_SIZE
Unparsed == [ret |-> 0, content_len |-> 0, msg |-> "unset"]
Parsed == [ret : {0, 1}, content_len : {0, ContentLength},
           msg : {"unset", "partial", "whole", "malformed"}]

-----------------------------------------------------------------------------
(* Strings in the buffer.                                                  *)

Unterminated(b) == \A i \in Places : b[i] # "nul"

\* What the C string functions see of the buffer.
Text(b) ==
    [i \in 1 .. (IF Unterminated(b) THEN MAX_HEADER_SIZE
                 ELSE Min({i \in Places : b[i] = "nul"}) - 1) |-> b[i]]

\* Where HTTP_HDR_END_DELIM is: two CRLF.
Ends(s) == {i \in 1 .. Len(s) - 1 : s[i] = "eol" /\ s[i + 1] = "eol"}
HasEnd(b) == Ends(Text(b)) # {}

\* A request line, headers, the empty line.
Regular(s) ==
    /\ s[1] = "get"
    /\ \A i \in 2 .. Min(Ends(s)) :
          IF i % 2 = 0 THEN s[i] = "eol" ELSE s[i] \in {"head", "clen"}

\* http_parse_message when the string has the end of a header and is regular.
Message(s) ==
    LET end == Min(Ends(s)) + 1
        len == IF \E i \in 1 .. end : s[i] = "clen" THEN ContentLength ELSE 0
        whole == len \in {0, Len(s) - end}
    IN [ret |-> IF whole THEN 1 ELSE 0, content_len |-> len,
        msg |-> IF whole THEN "whole" ELSE "partial"]

\* When it is not regular, what the parser finds in it is left open.
Parse(s) ==
    IF Ends(s) = {} THEN {Unparsed}
    ELSE IF Regular(s) THEN {Message(s)}
    ELSE {Unparsed, [ret |-> 1, content_len |-> 0, msg |-> "malformed"]}

-----------------------------------------------------------------------------
(* The peer and recv.                                                      *)

PeerSend ==
    /\ line = "open"
    /\ sent < Len(stream)
    /\ sent' = sent + 1
    /\ UNCHANGED <<stream, line, rcvd, buf, total, read, parsed, called, pc, code>>

PeerClose ==
    /\ line = "open"
    /\ line' \in {"closed", "reset"}
    /\ UNCHANGED <<stream, sent, rcvd, buf, total, read, parsed, called, pc, code>>

\* What recv may return when asked for n bytes: how many it got, 0 at the end
\* of a closed connection, -1 when it was reset.  It waits while this is empty;
\* asked for 0 bytes, it waits too until there is something to receive (Linux).
Receivable(n) ==
    IF line = "reset" THEN {-1}
    ELSE IF rcvd = sent THEN IF line = "closed" THEN {0} ELSE {}
    ELSE IF n = 0 THEN {0}
    ELSE 1 .. Min({n, sent - rcvd})

\* The next k bytes of the stream at places at + 1, at + 2, ... of b.
StoreAtStart(b, at, k) ==                                         \* mutant
    [i \in Places |-> IF i <= k THEN stream[rcvd + i] ELSE b[i]]
Store(b, at, k) ==
    [i \in Places |-> IF at < i /\ i <= at + k THEN stream[rcvd + i - at] ELSE b[i]]

-----------------------------------------------------------------------------
(* The thread.                                                             *)

Init ==
    /\ stream \in Streams
    /\ sent = 0 /\ rcvd = 0
    /\ line = "open"
    /\ buf = [i \in Places |-> "nul"]
    /\ total = 0
    /\ read = 0
    /\ parsed = Unparsed
    /\ called = <<>>
    /\ pc = "start"
    /\ code = "none"

\* Every way out closes the socket and frees the buffer.
End(c) == pc' = "ended" /\ code' = c
Goto(next) == pc' = next /\ UNCHANGED code

Start ==
    /\ pc = "start"
    /\ End("ERR_OUT_OF_MEMORY") \/ Goto("header")
    /\ UNCHANGED <<peer, rcvd, buf, total, read, parsed, called>>

MoreHeaderUnlessFull == total < MAX_HEADER_SIZE                   \* mutant
MoreHeader == total < MAX_HEADER_SIZE /\ ~ HasEnd(buf)

\* What the first loop asks for.
RoomWhole == MAX_HEADER_SIZE                                      \* mutant
Room == MAX_HEADER_SIZE - total

\* mutant: only the end of a connection is looked for, not its failure
ReadHeaderUnchecked ==
    /\ pc = "header"
    /\ MoreHeader
    /\ \E k \in Receivable(Room) \ {-1} :
          /\ IF k = 0 THEN End("ERR_IO") ELSE Goto(pc)
          /\ buf' = Store(buf, total, k)
          /\ total' = total + k
          /\ read' = k
          /\ rcvd' = rcvd + k
    /\ UNCHANGED <<peer, parsed, called>>
\* One turn of the first loop.  With nothing to read from a closed connection
\* it changes nothing, and is taken again.
ReadHeader ==
    /\ pc = "header"
    /\ MoreHeader
    /\ \/ /\ -1 \in Receivable(Room)
          /\ End("ERR_IO")
          /\ UNCHANGED <<rcvd, buf, total, read>>
       \/ \E k \in Receivable(Room) \ {-1} :
             /\ buf' = Store(buf, total, k)
             /\ total' = total + k
             /\ read' = k
             /\ rcvd' = rcvd + k
             /\ Goto(pc)
    /\ UNCHANGED <<peer, parsed, called>>

\* The condition of the second loop.  Past the end of a full buffer strstr may
\* find anything, or stop the process.
TestEnd ==
    /\ \/ pc = "header" /\ ~ MoreHeader
       \/ pc = "test"
    /\ \/ (HasEnd(buf) \/ Unterminated(buf)) /\ End("ERR_NONE")
       \/ ~ HasEnd(buf) /\ Goto("message")
       \/ ~ HasEnd(buf) /\ Unterminated(buf) /\ Goto("undefined")
    /\ UNCHANGED <<peer, rcvd, buf, total, read, parsed, called>>

\* The second loop reads over the start of the buffer, and parses.
ReadMessage ==
    /\ pc = "message"
    /\ \/ /\ Receivable(MAX_HEADER_SIZE) \cap {-1, 0} # {}
          /\ End("ERR_IO")
          /\ UNCHANGED <<rcvd, buf, read, parsed>>
       \/ \E k \in Receivable(MAX_HEADER_SIZE) \ {-1, 0} :
             LET b == Store(buf, 0, k)
             IN /\ buf' = b
                /\ read' = k
                /\ rcvd' = rcvd + k
                /\ \/ parsed' \in Parse(Text(b)) /\ Goto("rest")
                   \/ /\ Unterminated(b) \/ (HasEnd(b) /\ ~ Regular(Text(b)))
                      /\ Goto("undefined")
                      /\ UNCHANGED parsed
    /\ UNCHANGED <<peer, total, called>>

\* Then it reads once more behind that, and only if something comes it calls
\* the callback.  buf has not grown: what does not fit is written past its end.
ReadRest ==
    LET got == Receivable(MAX_HEADER_SIZE + parsed.content_len - read)
    IN
    /\ pc = "rest"
    /\ UNCHANGED <<peer, total, parsed>>
    /\ \/ \E k \in got \ {-1, 0} :
             /\ rcvd' = rcvd + k
             /\ read' = read + k
             /\ buf' = Store(buf, read, k)
             /\ \/ /\ read + k > MAX_HEADER_SIZE
                   /\ Goto("undefined")
                   /\ UNCHANGED called
                \/ /\ read + k <= MAX_HEADER_SIZE
                   /\ called' = Append(called, parsed)
                   /\ End("callback") \/ Goto("test")
       \/ /\ got \cap {-1, 0} # {}
          /\ IF parsed.ret = 1 THEN End("parse") ELSE Goto("test")
          /\ UNCHANGED <<rcvd, read, buf, called>>

Thread == Start \/ ReadHeader \/ TestEnd \/ ReadMessage \/ ReadRest
Next == PeerSend \/ PeerClose \/ Thread

Spec == Init /\ [][Next]_vars

\* The thread runs; the peer need not send, nor close.
FairSpec == Spec /\ WF_vars(Thread)

-----------------------------------------------------------------------------
(* Properties.                                                             *)

\* The type invariant.
TypeOK ==
    /\ stream \in Streams
    /\ sent \in 0 .. Len(stream) /\ rcvd \in 0 .. sent
    /\ line \in {"open", "closed", "reset"}
    /\ buf \in [Places -> Token]
    /\ total \in 0 .. MAX_HEADER_SIZE
    /\ read \in 0 .. MAX_HEADER_SIZE + ContentLength
    /\ pc = "rest" => read <= MAX_HEADER_SIZE
    /\ parsed \in Parsed
    /\ called \in Seq(Parsed)
    /\ pc \in {"start", "header", "test", "message", "rest", "undefined", "ended"}

\* However recv cuts the stream, the first loop gathers it unbroken at the start
\* of the buffer, the rest of which stays zero (http_net.c:73-84).
HeaderContiguous ==
    pc \in {"start", "header"} =>
        /\ total = rcvd
        /\ buf = [i \in Places |-> IF i <= total THEN stream[i] ELSE "nul"]

\* Once the peer has sent a header that fits the buffer, wherever it was cut, the
\* first loop is left, even if the peer then keeps silent: it waits for no more
\* than the header (http_net.c:73).
HeaderFits == \E i \in 1 .. MAX_HEADER_SIZE - 1 :
                 /\ i + 1 <= sent
                 /\ stream[i] = "eol" /\ stream[i + 1] = "eol"
                 /\ \A j \in 1 .. i : stream[j] # "nul"
HeaderSeen == HeaderFits ~> pc \notin {"start", "header"}

\* A thread whose peer is gone ends: one that has reset the connection wherever the
\* thread is, one that has closed it once the thread is past the first loop
\* (http_net.c:75-81, 97-105, 148-160).
GoneEnds ==
    line = "reset" \/ (line = "closed" /\ pc \in {"test", "message", "rest"})
        ~> pc \in {"ended", "undefined"}

\* A request received whole is handed to the callback before the connection is
\* closed without an error (provided/handouts/06.http.md:279-280).
RequestDispatched ==
    LET got == SubSeq(stream, 1, rcvd)
    IN pc = "ended" /\ code = "ERR_NONE" /\ Ends(got) # {} =>
          (Regular(got) /\ Message(got).ret = 1 => called # <<>>)

\* When the peer closes, the thread ends (http_net.c:86-92 expect to see a read
\* of nothing).
PeerCloseEnds == (line = "closed") ~> (pc \in {"ended", "undefined"})
=============================================================================
