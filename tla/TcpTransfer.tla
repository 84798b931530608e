----------------------------- MODULE TcpTransfer -----------------------------
(***************************************************************************)
(* The two programs that try out the socket layer: tcp-test-client.c sends *)
(* the size of a file, waits for an acknowledgment, sends the file and     *)
(* waits again; tcp-test-server.c serves one such client after another.    *)
(*                                                                         *)
(* Each direction of a connection is one stream of tokens: recv returns    *)
(* any first part of what is in it.  Sizes are written in base BASE, and   *)
(* the limits are scaled with it; "<" and "EOF>" are the delimiter, cut in *)
(* two; "byte" is a byte of a file.  size_str ends with a zero byte that   *)
(* is never written to: what lies behind it is left out.                   *)
(***************************************************************************)
EXTENDS Integers, Sequences, FiniteSetsExt

CONSTANTS
    Clients,
    Sizes,          \* the sizes their files may have
    MAX_FILE_SIZE,  \* what the server takes, and the client's buffer
    TOO_BIG,        \* what the client refuses
    BASE,
    Garbage         \* what size_str may hold before any use

Digits == 0 .. BASE - 1
T(s) == [text |-> s]
Texts(s) == [i \in DOMAIN s |-> T(s[i])]
Bytes(n) == [i \in 1 .. n |-> T("byte")]
Delimiter == Texts(<<"<", "EOF>">>)
SmallFile == Texts(<<"Small", " file">>)
LargeFile == Texts(<<"Large", " file">>)
Accepted == Texts(<<"Accepted">>)
Token == {[digit |-> d] : d \in Digits}
         \cup {T(s) : s \in {"<", "EOF>", "byte", "nul", "Small", "Large", " file", "Accepted"}}

\* What size_str may hold: its last place is never written to.
Buffer == {s \in Seq(Token) : s # <<>> /\ s[Len(s)] = T("nul")}

ASSUME TransferAssumption ==
    /\ Sizes \subseteq Nat
    /\ MAX_FILE_SIZE \in Nat \ {0} /\ TOO_BIG \in Nat
    /\ BASE \in Nat \ {0, 1}
    /\ Garbage \subseteq Buffer
    /\ Clients # {}

VARIABLES
    cpc,        \* where each client is
    size,       \* st_size of its file
    left,       \* what of its file it has not sent
    altered,    \* was its file emptied since? (for the properties)
    clink,      \* the server's end of its connection, as the client meets it
    slink,      \* the client's end, as the server meets it
    up, down,   \* the streams to the server, and to the client
    backlog,    \* the clients connected and not yet accepted
    spc,        \* where the server is
    current,    \* the client it serves
    size_str, file_size,
    content,    \* file_content
    whole       \* was the size received whole? (for the properties)

links == <<clink, slink, up, down>>
client == <<cpc, size, left, altered>>
serverData == <<size_str, file_size, content, whole>>
server == <<spc, current, serverData>>
vars == <<client, links, backlog, server>>

Connected == {"size", "ack", "open", "sending", "final"}
Ended == {"done", "failed", "killed", "crashed"}
Link == {"open", "left", "aborted", "gone"}

-----------------------------------------------------------------------------
(* Numbers and strings.                                                    *)

\* sprintf of a size, by its digits.
Written[n \in Nat] ==
    IF n < BASE THEN <<[digit |-> n]>>
    ELSE Append(Written[n \div BASE], [digit |-> n % BASE])
SizeMessageBare(n) == Written[n]                                  \* mutant
SizeMessage(n) == Written[n] \o Delimiter

IsDelimiter(t) == t \in {T("<"), T("EOF>")}

\* strtok puts a zero byte where the first token of the string ends.
TokenEnds(s) ==
    {i \in DOMAIN s :
        /\ IsDelimiter(s[i])
        /\ \A j \in 1 .. i - 1 : s[j] # T("nul")
        /\ \E j \in 1 .. i - 1 : ~ IsDelimiter(s[j])}
Strtok(s) ==
    IF TokenEnds(s) = {} THEN s ELSE [s EXCEPT ![Min(TokenEnds(s))] = T("nul")]

\* atol reads the digits the string starts with.
Atol(s) ==
    LET n == Min({i \in DOMAIN s : "digit" \notin DOMAIN s[i]}) - 1
        value[i \in 0 .. n] == IF i = 0 THEN 0 ELSE BASE * value[i - 1] + s[i].digit
    IN value[n]

-----------------------------------------------------------------------------
(* The connections.  An end meets the other "open"; "left" when it has     *)
(* closed; "aborted" when it has closed with something unread, so that the *)
(* next call that cannot be served fails; "gone" when nothing more can be  *)
(* sent, and to try raises SIGPIPE.                                        *)

Prefixes(stream, n) == {SubSeq(stream, 1, k) : k \in 1 .. Min({n, Len(stream)})}

\* What recv may return of stream when asked for n tokens, nothing included; it
\* waits while this is empty.
Received(stream, link, n) ==
    IF stream = <<>> THEN IF link \in {"left", "gone"} THEN {<<>>} ELSE {}
    ELSE IF n = 0 THEN {<<>>}
    ELSE Prefixes(stream, n)
RecvFails(stream, link) == stream = <<>> /\ link = "aborted"
After(stream, got) == SubSeq(stream, Len(got) + 1, Len(stream))

\* The other end's view of one that closes with stream not read.
Closing(link, stream) ==
    IF link # "open" THEN link ELSE IF stream = <<>> THEN "left" ELSE "aborted"

Server(to) == spc' = to

-----------------------------------------------------------------------------
(* The client.                                                             *)

Init ==
    /\ cpc = [c \in Clients |-> "stat"]
    /\ size \in [Clients -> Sizes]
    /\ left = [c \in Clients |-> 0]
    /\ altered = [c \in Clients |-> FALSE]
    /\ clink = [c \in Clients |-> "open"] /\ slink = clink
    /\ up = [c \in Clients |-> <<>>] /\ down = up
    /\ backlog = <<>>
    /\ spc = "accept"
    /\ current = CHOOSE c \in Clients : TRUE
    /\ size_str \in Garbage
    /\ file_size = 0
    /\ content = <<>>
    /\ whole = FALSE

Client(c, to) == cpc' = [cpc EXCEPT ![c] = to]

\* The socket is closed, by the program or by the system when it ends, with
\* unread not read; nothing else of the client matters any more.
LeaveWith(c, unread, to) ==
    /\ Client(c, to)
    /\ slink' = [slink EXCEPT ![c] = Closing(@, unread)]
    /\ down' = [down EXCEPT ![c] = <<>>]
    /\ left' = [left EXCEPT ![c] = 0]
    /\ altered' = [altered EXCEPT ![c] = FALSE]
Leave(c, to) == LeaveWith(c, down[c], to)

Stat(c) ==
    /\ cpc[c] = "stat"
    /\ Client(c, "failed") \/ (size[c] < TOO_BIG /\ Client(c, "connect"))
    /\ UNCHANGED <<size, left, altered, links, backlog, server>>

Connect(c) ==
    /\ cpc[c] = "connect"
    /\ \/ Client(c, "failed") /\ UNCHANGED backlog
       \/ /\ spc # "dead"
          /\ Client(c, "size")
          /\ backlog' = Append(backlog, c)
    /\ UNCHANGED <<size, left, altered, links, server>>

\* tcp_send: it fails on an aborted connection and kills the program on one that
\* is gone; what is sent to an end that has left is lost, and may be answered by
\* a reset before the next call.
Send(c, message, rest, to) ==
    \/ /\ clink[c] = "open"
       /\ up' = [up EXCEPT ![c] = @ \o message]
       /\ Client(c, to)
       /\ left' = [left EXCEPT ![c] = rest]
       /\ UNCHANGED <<clink, slink, down, altered>>
    \/ /\ clink[c] = "left"
       /\ clink' \in {clink, [clink EXCEPT ![c] = "gone"]}
       /\ Client(c, to)
       /\ left' = [left EXCEPT ![c] = rest]
       /\ UNCHANGED <<slink, up, down, altered>>
    \/ clink[c] = "aborted" /\ Leave(c, "failed") /\ UNCHANGED <<clink, up>>
    \/ clink[c] = "gone" /\ Leave(c, "killed") /\ UNCHANGED <<clink, up>>

\* size_msg has st_size places: written past its end, it may end the program.
SendSize(c) ==
    /\ cpc[c] = "size"
    /\ \/ Send(c, SizeMessage(size[c]), 0, "ack")
       \/ /\ Len(SizeMessage(size[c])) + 1 > size[c]
          /\ Leave(c, "crashed") /\ UNCHANGED <<clink, up>>
    /\ UNCHANGED <<size, backlog, server>>

\* Only the whole acknowledgment, and nothing more, is taken for one.
ReadAck(c) ==
    /\ cpc[c] = "ack"
    /\ \/ /\ RecvFails(down[c], clink[c])
          /\ Leave(c, "failed")
       \/ \E got \in Received(down[c], clink[c], Len(down[c])) :
             IF got = SmallFile
             THEN /\ down' = [down EXCEPT ![c] = After(@, got)]
                  /\ Client(c, "open")
                  /\ UNCHANGED <<slink, left, altered>>
             ELSE LeaveWith(c, After(down[c], got), "done")
    /\ UNCHANGED <<size, clink, up, backlog, server>>

\* fopen is not checked: without the file fread ends the program.
Open(c) ==
    /\ cpc[c] = "open"
    /\ \/ /\ left' = [left EXCEPT ![c] = IF altered[c] THEN 0 ELSE size[c]]
          /\ Client(c, "sending")
          /\ UNCHANGED <<altered, links>>
       \/ Leave(c, "crashed") /\ UNCHANGED <<clink, up>>
    /\ UNCHANGED <<size, backlog, server>>

\* fread into a buffer of MAX_FILE_SIZE bytes, with n left in the file.
FreadWhole(n) == IF n < MAX_FILE_SIZE THEN 0 ELSE MAX_FILE_SIZE   \* mutant
FreadFull(n) == IF n > 0 THEN MAX_FILE_SIZE ELSE 0                 \* mutant
Fread(n) == Min({n, MAX_FILE_SIZE})

SendFile(c) ==
    /\ cpc[c] = "sending"
    /\ LET n == Fread(left[c])
       IN IF n > 0
          THEN Send(c, Bytes(n), left[c] - n, "sending")
          ELSE Client(c, "final") /\ left' = [left EXCEPT ![c] = 0] /\ UNCHANGED <<altered, links>>
    /\ UNCHANGED <<size, backlog, server>>

ReadFinal(c) ==
    /\ cpc[c] = "final"
    /\ \/ /\ RecvFails(down[c], clink[c])
          /\ Leave(c, "failed")
       \/ \E got \in Received(down[c], clink[c], Len(down[c])) :
             LeaveWith(c, After(down[c], got), "done")
    /\ UNCHANGED <<size, clink, up, backlog, server>>

Run(c) == Stat(c) \/ Connect(c) \/ SendSize(c) \/ ReadAck(c) \/ Open(c)
          \/ SendFile(c) \/ ReadFinal(c)

\* Before or while it is read the file may be emptied.
Empty(c) ==
    /\ cpc[c] \in {"open", "sending"} /\ ~ altered[c]
    /\ altered' = [altered EXCEPT ![c] = TRUE]
    /\ left' = [left EXCEPT ![c] = 0]
    /\ UNCHANGED <<cpc, size, links, backlog, server>>

Killed(c) ==
    /\ cpc[c] \in Connected
    /\ Leave(c, "killed")
    /\ UNCHANGED <<size, clink, up, backlog, server>>

-----------------------------------------------------------------------------
(* The server.                                                             *)

Accept ==
    /\ spc = "accept"
    /\ backlog # <<>>
    /\ current' = Head(backlog)
    /\ backlog' = Tail(backlog)
    /\ Server("size")
    /\ UNCHANGED <<client, links, serverData>>

\* The variables of the loop's body end with it; size_str comes back as it was.
Close ==
    /\ clink' = [clink EXCEPT ![current] = Closing(@, up[current])]
    /\ up' = [up EXCEPT ![current] = <<>>]
    /\ file_size' = 0 /\ content' = <<>> /\ whole' = FALSE
    /\ Server("accept")

\* What is received goes over the start of size_str, which still holds what the
\* last connection left in it; then strtok and atol.
ReadSize ==
    /\ spc = "size"
    /\ \/ /\ RecvFails(up[current], slink[current])
          /\ Close
          /\ UNCHANGED <<size_str, slink, down>>
       \/ \E got \in Received(up[current], slink[current], Len(size_str) - 1) :
             /\ up' = [up EXCEPT ![current] = After(@, got)]
             /\ size_str' = Strtok(got \o SubSeq(size_str, Len(got) + 1, Len(size_str)))
             /\ file_size' = Atol(size_str')
             /\ whole' = (got = SizeMessage(size[current]))
             /\ Server("ack")
             /\ UNCHANGED <<content, clink, slink, down>>
    /\ UNCHANGED <<client, backlog, current>>

\* Every client connected is reset when the server dies.
Die ==
    /\ Server("dead")
    /\ clink' = [c \in Clients |->
          IF c = current \/ \E i \in DOMAIN backlog : backlog[i] = c
          THEN Closing(clink[c], up[c]) ELSE clink[c]]
    /\ backlog' = <<>>
    /\ UNCHANGED <<slink, up, down, file_size, content, whole>>

\* tcp_send, as for the client.
Reply(message, Then) ==
    LET link == slink[current]
    IN \/ /\ link = "open"
          /\ down' = [down EXCEPT ![current] = @ \o message]
          /\ Then
          /\ UNCHANGED <<slink, backlog>>
       \/ /\ link = "left"
          /\ slink' \in {slink, [slink EXCEPT ![current] = "gone"]}
          /\ Then
          /\ UNCHANGED <<down, backlog>>
       \/ link = "aborted" /\ Close /\ UNCHANGED <<slink, down, backlog>>
       \/ link = "gone" /\ Die

Small == file_size < MAX_FILE_SIZE
SendAck ==
    /\ spc = "ack"
    /\ Reply(IF Small THEN SmallFile ELSE LargeFile,
             IF Small THEN Server("file") /\ UNCHANGED <<clink, up, file_size, content, whole>>
             ELSE Close)
    /\ UNCHANGED <<client, current, size_str>>

ReadFileToEnd ==                                                  \* mutant
    /\ spc = "file"
    /\ \/ /\ RecvFails(up[current], slink[current])
          /\ Close
          /\ UNCHANGED <<slink, down>>
       \/ \E got \in Received(up[current], slink[current], file_size) :
             /\ slink[current] # "open"
             /\ content' = got
             /\ up' = [up EXCEPT ![current] = After(@, got)]
             /\ Server("accepted")
             /\ UNCHANGED <<file_size, whole, clink, slink, down>>
    /\ UNCHANGED <<client, backlog, current, size_str>>
ReadFileUnchecked ==                                              \* mutant
    /\ spc = "file"
    /\ \/ /\ RecvFails(up[current], slink[current])
          /\ slink' = [slink EXCEPT ![current] = "gone"]
          /\ Server("accepted")
          /\ UNCHANGED <<file_size, content, whole, clink, up, down>>
       \/ \E got \in Received(up[current], slink[current], file_size) :
             /\ content' = got
             /\ up' = [up EXCEPT ![current] = After(@, got)]
             /\ Server("accepted")
             /\ UNCHANGED <<file_size, whole, clink, slink, down>>
    /\ UNCHANGED <<client, backlog, current, size_str>>
\* One recv: the first part of the file that is there is taken for all of it.
ReadFile ==
    /\ spc = "file"
    /\ \/ /\ RecvFails(up[current], slink[current])
          /\ Close
          /\ UNCHANGED <<slink, down>>
       \/ \E got \in Received(up[current], slink[current], file_size) :
             /\ content' = got
             /\ up' = [up EXCEPT ![current] = After(@, got)]
             /\ Server("accepted")
             /\ UNCHANGED <<file_size, whole, clink, slink, down>>
    /\ UNCHANGED <<client, backlog, current, size_str>>

SendAccepted ==
    /\ spc = "accepted"
    /\ Reply(Accepted, Close)
    /\ UNCHANGED <<client, current, size_str>>

Serve == Accept \/ ReadSize \/ SendAck \/ ReadFile \/ SendAccepted
Next == Serve \/ \E c \in Clients : Run(c) \/ Empty(c) \/ Killed(c)

\* Both programs run; files need not change, nor clients be killed.
Spec == Init /\ [][Next]_vars
FairSpec == Spec /\ WF_vars(Serve) /\ \A c \in Clients : WF_vars(Run(c))

-----------------------------------------------------------------------------
(* Properties.                                                             *)

\* The type invariant.
TypeOK ==
    /\ cpc \in [Clients -> {"stat", "connect"} \cup Connected \cup Ended]
    /\ size \in [Clients -> Sizes]
    /\ left \in [Clients -> Nat] /\ \A c \in Clients : left[c] <= size[c]
    /\ altered \in [Clients -> BOOLEAN]
    /\ clink \in [Clients -> Link] /\ slink \in [Clients -> Link]
    /\ up \in [Clients -> Seq(Token)] /\ down \in [Clients -> Seq(Token)]
    /\ backlog \in Seq(Clients)
    /\ spc \in {"accept", "size", "ack", "file", "accepted", "dead"}
    /\ current \in Clients
    /\ size_str \in Buffer
    /\ file_size \in Nat
    /\ Len(content) < MAX_FILE_SIZE
    /\ whole \in BOOLEAN

\* A size that arrives whole is the one the server works with, whatever size_str
\* held before, and what it then takes for the file is the start of the file and
\* nothing of the size: the delimiter is there for this
\* (provided/handouts/05.socket.md:146-150).
SizeDelimited ==
    spc \in {"ack", "file", "accepted"} /\ whole =>
        /\ file_size = size[current]
        /\ spc = "accepted" => content \in {Bytes(n) : n \in 0 .. size[current]}

\* The two ends wait for each other only over a file of which there was nothing
\* to send (provided/handouts/05.socket.md:120-122 wants them never to).
ClientWaits(c) ==
    cpc[c] \in {"ack", "final"} /\ down[c] = <<>> /\ clink[c] = "open"
ServerWaits == spc \in {"size", "file"} /\ up[current] = <<>> /\ slink[current] = "open"
NeverStuck ==
    ServerWaits /\ ClientWaits(current) => size[current] = 0 \/ altered[current]

\* The server only ever dies of a client that did not run to its end
\* (provided/handouts/05.socket.md:116 wants it never to).
ServerSurvives ==
    spc = "dead" => \E c \in Clients : cpc[c] \in {"killed", "crashed"}

\* Every client that has connected ends, unless some client holds the server up
\* with a file of which there was nothing to send: one is served after another,
\* however the streams are cut and whoever dies.
ClientsServed ==
    \A c \in Clients :
        (cpc[c] \in Connected) ~>
            \/ cpc[c] \in Ended
            \/ \E d \in Clients : cpc[d] = "final" /\ (size[d] = 0 \/ altered[d])
-----------------------------------------------------------------------------
(* The inductive invariant: what the two ends of a connection know of each *)
(* other at each stage of it.                                              *)

Waiting(c) == \E i \in DOMAIN backlog : backlog[i] = c
Serving(c) == c = current /\ spc \in {"size", "ack", "file", "accepted"}
Fallen == {"killed", "crashed"}

\* Until the server has read the size the client sends nothing else, and until
\* it has acknowledged it the client has nothing to read.  Up to its close the
\* server is there for the client, and meets it gone only when it fell: one that
\* reads less than the acknowledgment leaves the rest unread.
Stage(c) == IF Waiting(c) THEN "waiting" ELSE IF Serving(c) THEN spc ELSE "none"
Meets(stage, at, n, server_end, client_end, upward, downward) ==
    /\ at \in {"stat", "connect"} =>
          stage = "none" /\ server_end = "open" /\ upward = <<>> /\ downward = <<>>
    /\ at \notin Ended => client_end = "open"
    /\ stage # "none" =>
          server_end = "open" /\ (client_end \in {"left", "gone"} => at \in Fallen)
    /\ stage \in {"waiting", "size", "ack"} =>
          /\ at \in {"size", "ack"} \cup Fallen
          /\ client_end # "aborted" /\ downward = <<>>
    /\ stage \in {"waiting", "size"} =>
          \/ upward = <<>> /\ at # "ack"
          \/ upward = SizeMessage(n) /\ at # "size"
    /\ stage \in {"ack", "file", "accepted"} => at # "size"
    /\ stage \in {"file", "accepted"} =>
          /\ at = "ack" => downward = SmallFile
          /\ at \in {"open", "sending", "final"} => downward = <<>>
Meeting(c) == Meets(Stage(c), cpc[c], size[c], clink[c], slink[c], up[c], down[c])

\* What is under way of a file whose size arrived whole, and that something is
\* unless there is nothing to send.
Sends(stage, complete, at, n, rest, emptied, upward) ==
    /\ stage \in {"ack", "file"} /\ complete =>
          \E k \in 0 .. n :
              /\ upward = Bytes(k)
              /\ at \in {"ack", "open"} => k = 0
              /\ at = "sending" => k + rest <= n
    /\ stage = "file" /\ at \in {"sending", "final"} /\ ~ emptied =>
          \/ upward # <<>> \/ n = 0
          \/ at = "sending" /\ rest = n
Sent(c) == Sends(Stage(c), whole, cpc[c], size[c], left[c], altered[c], up[c])
Queue ==
    /\ \A i, j \in DOMAIN backlog : backlog[i] = backlog[j] => i = j
    /\ \A c \in Clients : Waiting(c) => ~ Serving(c)
    /\ spc = "file" => file_size < MAX_FILE_SIZE
TransferInv ==
    /\ \A c \in Clients : Meeting(c) /\ Sent(c)
    /\ Queue
    /\ SizeDelimited
    /\ ServerSurvives
=============================================================================
