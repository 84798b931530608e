------------------------ MODULE HttpConnectionProofs ------------------------
(***************************************************************************)
(* The first loop of handle_connection gathers the header unbroken, for    *)
(* every stream, every size of the buffer and every way of cutting what    *)
(* the peer sends; and what the thread keeps stays within its types.       *)
(***************************************************************************)
EXTENDS HttpConnection, TLAPS

\* What recv returns for n bytes, when it returns any.
LEMMA MinOfTwo ==
    ASSUME NEW a \in Int, NEW b \in Int
    PROVE  Min({a, b}) \in Int /\ Min({a, b}) <= a /\ Min({a, b}) <= b
<1>1. \E x \in {a, b} : \A y \in {a, b} : x <= y
  <2>1. CASE a <= b
    BY <2>1
  <2>2. CASE b < a
    BY <2>2
  <2> QED
    BY <2>1, <2>2
<1> QED
  BY <1>1 DEF Min

LEMMA ReceivedFits ==
    ASSUME TypeOK, NEW n \in Int, NEW k \in Receivable(n) \ {-1}
    PROVE  /\ k \in Nat /\ rcvd + k <= sent
           /\ n >= 0 => k <= n
<1>1. rcvd \in Nat /\ sent \in Nat /\ rcvd <= sent /\ sent - rcvd \in Int
  BY StreamsAssumption DEF TypeOK
<1>2. Min({n, sent - rcvd}) \in Int /\ Min({n, sent - rcvd}) <= n
      /\ Min({n, sent - rcvd}) <= sent - rcvd
  BY <1>1, MinOfTwo
<1> QED
  BY <1>1, <1>2 DEF Receivable

\* What is received is put into the buffer as the tokens it is.
LEMMA StoreTyped ==
    ASSUME TypeOK, NEW at \in Int, NEW k \in Nat, rcvd + k <= sent
    PROVE  Store(buf, at, k) \in [Places -> Token]
<1>1. ASSUME NEW i \in Places, at < i, i <= at + k
      PROVE  stream[rcvd + i - at] \in Token
  <2>1. rcvd + i - at \in 1 .. Len(stream)
    BY <1>1, StreamsAssumption DEF TypeOK, Places
  <2>2. stream \in Seq(Token)
    BY StreamsAssumption DEF TypeOK
  <2> QED
    BY <2>1, <2>2
<1>2. \A i \in Places : buf[i] \in Token
  BY DEF TypeOK
<1> QED
  BY <1>1, <1>2 DEF Store

LEMMA ParseTyped ==
    ASSUME NEW s
    PROVE  Parse(s) \subseteq Parsed
<1>1. Unparsed \in Parsed
  BY StreamsAssumption DEF Unparsed, Parsed
<1>2. Message(s) \in Parsed
  BY StreamsAssumption DEF Message, Parsed
<1> QED
  BY <1>1, <1>2 DEF Parse, Parsed

-----------------------------------------------------------------------------
\* One turn of the first loop, and each read of the second.
LEMMA ReadHeaderTyped ==
    ASSUME TypeOK, ReadHeader
    PROVE  TypeOK'
<1>1. CASE End("ERR_IO") /\ UNCHANGED <<rcvd, buf, total, read>>
  BY <1>1 DEF ReadHeader, TypeOK, End, peer
<1>2. ASSUME NEW k \in Receivable(Room) \ {-1},
             buf' = Store(buf, total, k), total' = total + k, read' = k,
             rcvd' = rcvd + k, Goto(pc)
      PROVE  TypeOK'
  <2>1. Room \in Int /\ Room >= 0 /\ total \in Nat
    BY StreamsAssumption DEF Room, TypeOK
  <2>2. k \in Nat /\ rcvd + k <= sent /\ k <= Room
    BY <2>1, ReceivedFits
  <2>3. buf' \in [Places -> Token]
    BY <1>2, <2>1, <2>2, StoreTyped
  <2>4. total' \in 0 .. MAX_HEADER_SIZE /\ read' \in 0 .. MAX_HEADER_SIZE + ContentLength
    BY <1>2, <2>1, <2>2, StreamsAssumption DEF TypeOK, Room
  <2>5. rcvd' \in 0 .. sent'
    BY <1>2, <2>2, StreamsAssumption DEF ReadHeader, TypeOK, peer
  <2> QED
    BY <1>2, <2>3, <2>4, <2>5 DEF ReadHeader, TypeOK, Goto, peer
<1> QED
  BY <1>1, <1>2 DEF ReadHeader

LEMMA ReadMessageTyped ==
    ASSUME TypeOK, ReadMessage
    PROVE  TypeOK'
<1>1. CASE End("ERR_IO") /\ UNCHANGED <<rcvd, buf, read, parsed>>
  BY <1>1 DEF ReadMessage, TypeOK, End, peer
<1>2. ASSUME NEW k \in Receivable(MAX_HEADER_SIZE) \ {-1, 0},
             buf' = Store(buf, 0, k), read' = k, rcvd' = rcvd + k,
             \/ parsed' \in Parse(Text(buf')) /\ Goto("rest")
             \/ Goto("undefined") /\ UNCHANGED parsed
      PROVE  TypeOK'
  <2>1. k \in Nat /\ rcvd + k <= sent /\ k <= MAX_HEADER_SIZE
    BY ReceivedFits, StreamsAssumption
  <2>2. buf' \in [Places -> Token]
    BY <1>2, <2>1, StoreTyped
  <2>3. read' \in 0 .. MAX_HEADER_SIZE + ContentLength /\ read' <= MAX_HEADER_SIZE
    BY <1>2, <2>1, StreamsAssumption
  <2>4. rcvd' \in 0 .. sent'
    BY <1>2, <2>1, StreamsAssumption DEF ReadMessage, TypeOK, peer
  <2>5. parsed' \in Parsed
    BY <1>2, ParseTyped DEF TypeOK
  <2> QED
    BY <1>2, <2>2, <2>3, <2>4, <2>5 DEF ReadMessage, TypeOK, Goto, peer
<1> QED
  BY <1>1, <1>2 DEF ReadMessage

LEMMA ReadRestTyped ==
    ASSUME TypeOK, ReadRest
    PROVE  TypeOK'
<1> DEFINE got == Receivable(MAX_HEADER_SIZE + parsed.content_len - read)
<1>0. /\ parsed.content_len \in 0 .. ContentLength
      /\ read \in 0 .. MAX_HEADER_SIZE
  BY StreamsAssumption DEF ReadRest, TypeOK, Parsed
<1>1. CASE pc' \in {"ended", "test"} /\ UNCHANGED <<rcvd, read, buf, called>>
  BY <1>1 DEF ReadRest, TypeOK, peer
<1>2. ASSUME NEW k \in got \ {-1, 0}, rcvd' = rcvd + k, read' = read + k,
             buf' = Store(buf, read, k), called' \in {called, Append(called, parsed)},
             pc' \in {"undefined", "ended", "test"}
      PROVE  TypeOK'
  <2>1. MAX_HEADER_SIZE + parsed.content_len - read \in Nat
    BY <1>0, StreamsAssumption
  <2>2. k \in Nat /\ rcvd + k <= sent /\ k <= MAX_HEADER_SIZE + parsed.content_len - read
    BY <2>1, ReceivedFits
  <2>3. buf' \in [Places -> Token]
    BY <1>0, <1>2, <2>2, StoreTyped
  <2>4. read' \in 0 .. MAX_HEADER_SIZE + ContentLength
    BY <1>0, <1>2, <2>2, StreamsAssumption
  <2>5. rcvd' \in 0 .. sent'
    BY <1>2, <2>2, StreamsAssumption DEF ReadRest, TypeOK, peer
  <2>6. called' \in Seq(Parsed)
    <3>1. parsed \in Parsed /\ called \in Seq(Parsed)
      BY DEF TypeOK
    <3> QED
      BY <1>2, <3>1
  <2>7. UNCHANGED <<stream, sent, line, total, parsed>>
    BY DEF ReadRest, peer
  <2> QED
    BY <1>2, <2>3, <2>4, <2>5, <2>6, <2>7 DEF TypeOK
<1> QED
  BY <1>1, <1>2 DEF ReadRest, End, Goto

\* What the connection and the thread keep has its types, for any streams and
\* any sizes of the buffer and of a body: in particular the first loop never
\* counts more than the buffer holds.
THEOREM ConnectionTyped == Spec => []TypeOK
<1>1. Init => TypeOK
  BY StreamsAssumption DEF Init, TypeOK, Unparsed, Parsed, Places, Token
<1>2. TypeOK /\ [Next]_vars => TypeOK'
  <2> SUFFICES ASSUME TypeOK, [Next]_vars PROVE TypeOK'
    OBVIOUS
  <2>1. CASE PeerSend
    BY <2>1, StreamsAssumption DEF PeerSend, TypeOK
  <2>2. CASE PeerClose
    BY <2>2 DEF PeerClose, TypeOK
  <2>3. CASE Start
    BY <2>3 DEF Start, End, Goto, TypeOK, peer
  <2>4. CASE TestEnd
    BY <2>4 DEF TestEnd, End, Goto, TypeOK, peer
  <2>5. CASE UNCHANGED vars
    BY <2>5 DEF vars, peer, TypeOK
  <2> QED
    BY <2>1, <2>2, <2>3, <2>4, <2>5, ReadHeaderTyped, ReadMessageTyped, ReadRestTyped
       DEF Next, Thread
<1> QED
  BY <1>1, <1>2, PTL DEF Spec

\* However the peer's bytes are cut, the first loop has them unbroken at the start
\* of the buffer and zeros behind them: the assumption of http_parse_message
\* (http_net.c:73-84, http_prot.h:50).
THEOREM HeaderGathered == Spec => []HeaderContiguous
<1>1. Init => HeaderContiguous
  BY StreamsAssumption DEF Init, HeaderContiguous, Places
<1>2. TypeOK /\ HeaderContiguous /\ [Next]_vars => HeaderContiguous'
  <2> SUFFICES ASSUME TypeOK, HeaderContiguous, [Next]_vars, pc' \in {"start", "header"}
               PROVE  /\ total' = rcvd'
                      /\ buf' = [i \in Places |-> IF i <= total' THEN stream'[i] ELSE "nul"]
    BY DEF HeaderContiguous
  <2>1. CASE PeerSend \/ PeerClose \/ Start \/ UNCHANGED vars
    BY <2>1 DEF PeerSend, PeerClose, Start, End, Goto, HeaderContiguous, peer, vars
  <2>2. CASE ReadHeader
    <3>1. PICK k \in Receivable(Room) \ {-1} :
             /\ buf' = Store(buf, total, k)
             /\ total' = total + k
             /\ rcvd' = rcvd + k
      BY <2>2 DEF ReadHeader, End
    <3>2. stream' = stream /\ pc = "header"
      BY <2>2 DEF ReadHeader, peer
    <3>3. total = rcvd /\ total \in Nat
          /\ buf = [i \in Places |-> IF i <= total THEN stream[i] ELSE "nul"]
      BY <3>2 DEF HeaderContiguous, TypeOK
    <3>4. k \in Nat
      <4>1. Room \in Int
        BY StreamsAssumption DEF Room, TypeOK
      <4> QED
        BY <4>1, ReceivedFits
    <3>5. ASSUME NEW i \in Places
          PROVE  (IF total < i /\ i <= total + k THEN stream[rcvd + i - total] ELSE buf[i])
                     = (IF i <= total' THEN stream'[i] ELSE "nul")
      <4>1. i \in Nat /\ rcvd + i - total = i
        BY <3>3 DEF Places
      <4> QED
        BY <3>1, <3>2, <3>3, <3>4, <4>1
    <3> QED
      BY <3>1, <3>3, <3>5 DEF Store
  <2>3. CASE TestEnd \/ ReadMessage \/ ReadRest
    BY <2>3 DEF TestEnd, ReadMessage, ReadRest, End, Goto
  <2> QED
    BY <2>1, <2>2, <2>3 DEF Next, Thread
<1> QED
  BY <1>1, <1>2, ConnectionTyped, PTL DEF Spec
=============================================================================
