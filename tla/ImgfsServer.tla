---------------------------- MODULE ImgfsServer -----------------------------
(***************************************************************************)
(* The web service: main and server_startup, http_receive, which makes one *)
(* thread per connection, handle_http_message and its handlers, the mutex  *)
(* around them, and the signal handler that shuts the server down while    *)
(* they run (imgfs_server.c, imgfs_server_service.c, http_net.c:181-239).  *)
(*                                                                         *)
(* A thread's connection brings one message; how it is read is in          *)
(* HttpConnection.  The table of images is reduced to which names are      *)
(* valid and to nb_files; a library call to the steps at which it reads    *)
(* and changes them, and to the errors it may return between them.         *)
(***************************************************************************)
EXTENDS Integers, FiniteSets

CONSTANTS
    Threads,    \* one per connection that http_receive accepts
    Ids,        \* names clients ask for
    Requests,   \* the URIs of their messages
    MaxFiles,   \* header.max_files
    Fails,      \* may http_init, http_receive and stdio fail?
    MaxSignals  \* bound of the model: how often SIGINT and SIGTERM come

NoThread == "nobody"
Destroyed == "destroyed"
Main == "main"

ASSUME ThreadsAssumption == Threads \cap {NoThread, Destroyed, Main} = {}
ASSUME RequestsAssumption ==
    /\ Requests \subseteq {"index", "list", "read", "delete", "insert", "unknown"}
    /\ Fails \in BOOLEAN /\ MaxSignals \in Nat /\ MaxFiles \in Nat
    /\ IsFiniteSet(Ids)

VARIABLES
    pc,         \* where each thread is
    request,    \* its message: a URI and a name, "" when it has none
    reply,      \* what it sends
    mutex,      \* the mutex: nobody, one thread, or destroyed
    images,     \* the names of the valid slots
    nb_files,   \* header.nb_files
    file,       \* fs_file: "closed", "open", "freed"
    main,       \* where the main thread is
    listening,  \* is passive_socket a socket?
    signals,    \* the signals that came
    shutdown    \* where main and each thread are in signal_handler

locals == <<pc, request, reply>>
store == <<images, nb_files, file>>
process == <<main, listening, signals, shutdown>>
vars == <<locals, mutex, store, process>>

Processes == Threads \cup {Main}
Message == [uri : Requests, name : {""}]
           \cup [uri : Requests \cap {"read", "delete"}, name : Ids]
NoMessage == [uri |-> "none", name |-> ""]

\* Within the library, where fs_file is used.
Searching == {"lookup", "clear", "count", "fetch", "print"}
InLibrary == {t \in Threads : pc[t] \in Searching}
Running == main # "ended"

-----------------------------------------------------------------------------
(* The main thread.                                                        *)

\* do_open takes a file whose count is not above max_files.  It may be above the
\* number of valid slots, which a deletion killed between its two writes leaves;
\* it is never below (CountCoversValid of ImgStore).
Init ==
    /\ pc = [t \in Threads |-> "none"]
    /\ request = [t \in Threads |-> NoMessage]
    /\ reply = [t \in Threads |-> "none"]
    /\ mutex = NoThread
    /\ images \in SUBSET Ids
    /\ nb_files \in Cardinality(images) .. MaxFiles
    /\ file = "closed"
    /\ main = "startup"
    /\ listening = FALSE
    /\ signals = 0
    /\ shutdown = [p \in Processes |-> "none"]

InMain(here) == main = here /\ shutdown[Main] = "none"
\* The process is gone, and all it had with it.
End ==
    /\ main' = "ended"
    /\ pc' = [t \in Threads |-> "none"]
    /\ request' = [t \in Threads |-> NoMessage]
    /\ reply' = [t \in Threads |-> "none"]
    /\ mutex' = NoThread
    /\ file' = "closed" /\ UNCHANGED <<images, nb_files>>
    /\ listening' = FALSE /\ signals' = MaxSignals
    /\ shutdown' = [p \in Processes |-> "none"]

Handler(p, step) == shutdown' = [shutdown EXCEPT ![p] = step]

\* server_startup; the result of http_init is not looked at.
Startup ==
    /\ InMain("startup")
    /\ \/ /\ main' = "loop" /\ file' = "open" /\ listening' \in {TRUE, ~ Fails}
          /\ UNCHANGED <<locals, mutex, images, nb_files, signals, shutdown>>
       \/ End                                             \* do_open failed

\* main calls signal_handler itself when http_receive has failed.
ReceiveFails == Handler(Main, "http_close") /\ UNCHANGED main

\* http_receive calls tcp_accept, which refuses what is no socket.
EnterAccept ==
    /\ InMain("loop")
    /\ IF listening THEN main' = "accepting" /\ UNCHANGED shutdown ELSE ReceiveFails
    /\ UNCHANGED <<locals, mutex, store, listening, signals>>

\* A connection comes, also to a socket that was closed since; in the model as
\* long as there is a thread left for it.
Accept ==
    /\ InMain("accepting")
    /\ \/ /\ \E t \in Threads : pc[t] = "none"
          /\ main' = "starting" /\ UNCHANGED shutdown
       \/ Fails /\ ReceiveFails
    /\ UNCHANGED <<locals, mutex, store, listening, signals>>

\* malloc and pthread_create; when they fail the connection is closed.
Receive(t) ==
    /\ InMain("starting")
    /\ pc[t] = "none"
    /\ \/ /\ pc' = [pc EXCEPT ![t] = "unmasked"]
          /\ main' = "loop" /\ UNCHANGED shutdown
       \/ Fails /\ ReceiveFails /\ UNCHANGED pc
    /\ UNCHANGED <<request, reply, mutex, store, listening, signals>>

\* Where p allocates or frees memory, which the handler does too.
Allocating(p) ==
    \/ p = Main /\ main \in {"startup", "starting"}
    \/ shutdown[p] \in {"fclose", "destroy"}

\* A signal goes to a thread that has not blocked it: main, or one that has not
\* reached pthread_sigmask yet.  The handler starts again for a second signal,
\* inside the first.  It may hang when it has interrupted malloc or free.
Signal(p) ==
    /\ signals < MaxSignals
    /\ Running
    /\ p \in {Main} \cup {t \in Threads : pc[t] = "unmasked"}
    /\ shutdown[p] # "hung"
    /\ signals' = signals + 1
    /\ Handler(p, "http_close") \/ (Allocating(p) /\ Handler(p, "hung"))
    /\ UNCHANGED <<locals, mutex, store, main, listening>>

-----------------------------------------------------------------------------
(* signal_handler and server_shutdown, in p.                               *)

In(p, step) == Running /\ shutdown[p] = step
Shutdown(p, from, to) == In(p, from) /\ Handler(p, to)

HttpClose(p) ==
    /\ Shutdown(p, "http_close", "do_close")
    /\ listening' = FALSE
    /\ UNCHANGED <<locals, mutex, store, main, signals>>

\* do_close: what is already NULL is left alone.
TestWhenFree(p) ==                                                \* mutant
    /\ mutex = NoThread
    /\ Shutdown(p, "do_close", IF file = "open" THEN "fclose" ELSE "destroy")
    /\ UNCHANGED <<locals, mutex, store, main, listening, signals>>
TestFile(p) ==
    /\ Shutdown(p, "do_close", IF file = "open" THEN "fclose" ELSE "destroy")
    /\ UNCHANGED <<locals, mutex, store, main, listening, signals>>

\* Two that found it open close it twice: the process may die of that.
CloseFile(p) ==
    /\ In(p, "fclose")
    /\ \/ /\ Handler(p, "destroy")
          /\ file' = "freed"
          /\ UNCHANGED <<locals, mutex, images, nb_files, main, listening, signals>>
       \/ file = "freed" /\ End

\* vips_shutdown, which leaves the table and the mutex alone (a call of vips that
\* is under way is disturbed already, since do_close), then
\* pthread_mutex_destroy, which fails on a locked mutex.
DestroyMutex(p) ==
    /\ Shutdown(p, "destroy", "exit")
    /\ mutex' = IF mutex = NoThread THEN Destroyed ELSE mutex
    /\ UNCHANGED <<locals, store, main, listening, signals>>

Exit(p) == In(p, "exit") /\ End

ShuttingDown(p) ==
    HttpClose(p) \/ TestFile(p) \/ CloseFile(p) \/ DestroyMutex(p) \/ Exit(p)

-----------------------------------------------------------------------------
(* handle_http_message, in thread t.                                       *)

At(t, here) == Running /\ shutdown[t] = "none" /\ pc[t] = here
Goto(t, there) == pc' = [pc EXCEPT ![t] = there]
Reply(t, what, there) == reply' = [reply EXCEPT ![t] = what] /\ Goto(t, there)

\* handle_connection blocks the signals, and hands over the message it reads.
MaskSignals(t) ==
    /\ At(t, "unmasked")
    /\ Goto(t, "dispatch")
    /\ \E m \in Message : request' = [request EXCEPT ![t] = m]
    /\ UNCHANGED <<reply, mutex, store, process>>

\* Which of the URIs, and verbs, a message matches is its kind.
Matches(t, uri) == request[t].uri = uri

\* What http_get_var finds for "img_id", for a read also for "res".
HasName(t) == request[t].name # ""

Refuse(t, there) == Reply(t, "500", there)
ServeFile(t) == \E r \in {"200", "404", "none"} : Reply(t, r, "closing")

Dispatch(t) ==
    /\ At(t, "dispatch")
    /\ \/ Matches(t, "index") /\ ServeFile(t)
       \/ Matches(t, "unknown") /\ Refuse(t, "closing")
       \/ /\ \E uri \in {"list", "read", "delete", "insert"} : Matches(t, uri)
          /\ Goto(t, "lock")
          /\ UNCHANGED reply
    /\ UNCHANGED <<request, mutex, store, process>>

\* pthread_mutex_lock: it fails on a destroyed mutex, and nobody looks.
Acquire(t) ==
    \/ mutex = NoThread /\ mutex' = t
    \/ mutex = Destroyed /\ mutex' = mutex

LockForgotten(t) ==                                               \* mutant
    /\ At(t, "lock")
    /\ Goto(t, request[t].uri)
    /\ UNCHANGED <<request, reply, mutex, store, process>>
Lock(t) ==
    /\ At(t, "lock")
    /\ Acquire(t)
    /\ Goto(t, request[t].uri)
    /\ UNCHANGED <<request, reply, store, process>>

\* handle_list_call locks the mutex that its caller holds.
ListRelock(t) ==
    /\ At(t, "list")
    /\ Acquire(t)
    /\ Goto(t, "print")
    /\ UNCHANGED <<request, reply, store, process>>
ListPrint(t) ==
    /\ At(t, "print")
    /\ \/ /\ Reply(t, "200", "sending")
          /\ mutex' = IF mutex = t THEN NoThread ELSE mutex
          /\ UNCHANGED <<request, store, process>>
       \/ file # "open" /\ End

\* http_get_var finds no name; for insert, its length is taken for an error.
BadRequest(t) ==
    /\ \/ At(t, "insert")
       \/ At(t, "read") \/ At(t, "delete")
    /\ ~ Matches(t, "insert") => ~ HasName(t)
    /\ Refuse(t, "sending")
    /\ UNCHANGED <<request, mutex, store, process>>

\* handle_delete_call has http_get_var write the name through a pointer it never
\* set: that may work, be refused, or kill the process.
DeleteName(t) ==
    /\ At(t, "delete")
    /\ HasName(t)
    /\ \/ Goto(t, "lookup") /\ UNCHANGED <<request, reply, mutex, store, process>>
       \/ Refuse(t, "sending") /\ UNCHANGED <<request, mutex, store, process>>
       \/ End
ReadName(t) ==
    /\ At(t, "read")
    /\ HasName(t)
    /\ Goto(t, "lookup")
    /\ UNCHANGED <<request, reply, mutex, store, process>>

\* On a table and a file that do_close has freed a call may fail, kill the
\* process, or go on as if nothing had happened.
Disturbed(t) ==
    /\ file # "open"
    /\ \/ Refuse(t, "sending") /\ UNCHANGED <<request, mutex, store, process>>
       \/ End

\* The library: the search for the name, then what is done to its slot.
Lookup(t) ==
    /\ At(t, "lookup")
    /\ \/ /\ file = "open"
          /\ IF nb_files > 0 /\ request[t].name \in images
             THEN Goto(t, IF Matches(t, "read") THEN "fetch" ELSE "clear") /\ UNCHANGED reply
             ELSE Refuse(t, "sending")
          /\ UNCHANGED <<request, mutex, store, process>>
       \/ Disturbed(t)

\* The call returns an error and leaves the file open, as what it did before.
Error(t) == Fails /\ Refuse(t, "sending")

\* The rest of do_read: memory, the file and vips may fail.
Fetch(t) ==
    /\ At(t, "fetch")
    /\ \/ /\ Reply(t, "200", "sending") \/ Error(t)
          /\ UNCHANGED <<request, mutex, store, process>>
       \/ Disturbed(t)

\* do_delete: the first fseek fails and nothing has changed, or is_valid is
\* cleared in memory and the slot is written, or not.
ClearSlotNot(t) ==                                                \* mutant
    /\ At(t, "clear")
    /\ Goto(t, "count")
    /\ UNCHANGED <<request, reply, mutex, store, process>>
ClearSlot(t) ==
    /\ At(t, "clear")
    /\ \/ Error(t) /\ UNCHANGED <<request, mutex, store, process>>
       \/ /\ images' = images \ {request[t].name}
          /\ (Goto(t, "count") /\ UNCHANGED reply) \/ Error(t)
          /\ UNCHANGED <<request, mutex, nb_files, file, process>>
       \/ Disturbed(t)

\* The second fseek fails and the count is kept, or nb_files is decremented and
\* the header is written, or not.
CountDown(t) ==
    /\ At(t, "count")
    /\ \/ Error(t) /\ UNCHANGED <<request, mutex, store, process>>
       \/ /\ nb_files' = nb_files - 1
          /\ Reply(t, "302", "sending") \/ Error(t)
          /\ UNCHANGED <<request, mutex, images, file, process>>
       \/ Disturbed(t)

\* The handler sends its reply, which waits for the client, and then
\* handle_http_message unlocks.  If the client is gone send fails, and nobody
\* looks, or raises SIGPIPE, which set_signal_handler leaves to its default.
Send(t) ==
    /\ At(t, "sending")
    /\ \/ Goto(t, "unlock") /\ UNCHANGED <<request, reply, mutex, store, process>>
       \/ End
Released(t) == IF mutex = t THEN NoThread ELSE mutex
UnlockOnSuccess(t) ==                                             \* mutant
    /\ At(t, "unlock")
    /\ mutex' = IF reply[t] = "500" THEN mutex ELSE Released(t)
    /\ Goto(t, "closing")
    /\ UNCHANGED <<request, reply, store, process>>
Unlock(t) ==
    /\ At(t, "unlock")
    /\ mutex' = Released(t)
    /\ Goto(t, "closing")
    /\ UNCHANGED <<request, reply, store, process>>

Handle(t) ==
    \/ Dispatch(t) \/ Lock(t)
    \/ ListRelock(t) \/ ListPrint(t) \/ BadRequest(t) \/ DeleteName(t) \/ ReadName(t)
    \/ Lookup(t) \/ Fetch(t) \/ ClearSlot(t) \/ CountDown(t)
    \/ Send(t) \/ Unlock(t)

Next ==
    \/ Startup \/ EnterAccept \/ Accept
    \/ \E t \in Threads : Receive(t)
    \/ \E p \in Processes : Signal(p) \/ ShuttingDown(p)
    \/ \E t \in Threads : MaskSignals(t) \/ Handle(t)

Spec == Init /\ [][Next]_vars

\* Every thread runs, main's too, and every client reads its answer; connections
\* and their messages need not come.
Run(t) == Handle(t) \/ ShuttingDown(t)
RunMain == EnterAccept \/ ShuttingDown(Main)
FairSpec == Spec /\ WF_vars(RunMain) /\ \A t \in Threads : WF_vars(Run(t))

-----------------------------------------------------------------------------
(* Properties.                                                             *)

\* The type invariant.
TypeOK ==
    /\ pc \in [Threads -> Searching \cup {"none", "unmasked", "dispatch", "lock", "list",
                 "read", "delete", "insert", "sending", "unlock", "closing"}]
    /\ request \in [Threads -> Message \cup {NoMessage}]
    /\ reply \in [Threads -> {"none", "200", "302", "404", "500"}]
    /\ mutex \in Threads \cup {NoThread, Destroyed}
    /\ images \subseteq Ids
    /\ nb_files \in 0 .. MaxFiles
    /\ file \in {"closed", "open", "freed"}
    /\ main \in {"startup", "loop", "accepting", "starting", "ended"}
    /\ listening \in BOOLEAN
    /\ signals \in 0 .. MaxSignals
    /\ shutdown \in [Processes -> {"none", "http_close", "do_close", "fclose", "destroy",
                                   "exit", "hung"}]

\* Until server_shutdown destroys the mutex, at most one thread is inside the
\* library (provided/handouts/07.webservice.md:261-262).
OneInLibrary == mutex # Destroyed => \A t, u \in InLibrary : t = u

\* However many deletions meet, fail half way, or were killed before the start,
\* while the file is open nb_files covers the valid slots and has one more for each
\* deletion that is about to count: do_read and do_delete, which look at no slot
\* when it is 0, never miss an image that is stored, and it never wraps below 0
\* (imgfs_read.c:21, imgfs_delete.c:17-45).
CountCovers ==
    file = "open" =>
        nb_files >= Cardinality(images) + Cardinality({t \in Threads : pc[t] = "count"})

\* Of the clients that delete one name, one at most is told that it did.
DeletedOnce ==
    mutex # Destroyed =>
        \A t, u \in Threads :
            /\ t # u
            /\ request[t].uri = "delete" /\ request[u] = request[t]
            => ~ (reply[t] = "302" /\ reply[u] = "302")

Hung == \E p \in Processes : shutdown[p] = "hung"

\* Once a signal is taken, http_receive has failed, or there is no socket to
\* accept from, which http_init's caller does not look at, the server ends,
\* whatever the threads wait for and whoever else is shutting it down, unless the
\* signal came while memory was allocated or freed
\* (imgfs_server.c:20-24,70-75, imgfs_server_service.c:64).
ServerEnds ==
    \/ \E p \in Processes : shutdown[p] = "http_close"
    \/ main = "loop" /\ ~ listening
    ~> ~ Running \/ Hung

\* Every message that reaches handle_http_message is answered, unless the
\* server ends (provided/handouts/07.webservice.md:142).
Answered(t) == reply[t] # "none" /\ pc[t] = "closing"
AllAnswered == \A t \in Threads : (pc[t] = "dispatch") ~> (Answered(t) \/ ~ Running)

\* And so is every message but those for the index page, which http_serve_file may
\* leave without an answer, as long as nobody lists the images, whatever is refused
\* or fails and whoever waits for the mutex (imgfs_server_service.c:236-251).
Listing == \E t \in Threads : request[t].uri = "list"
AnsweredUnlessListed ==
    \A t \in Threads :
        (pc[t] = "dispatch" /\ request[t].uri # "index")
            ~> (Answered(t) \/ ~ Running \/ Listing \/ Hung)

\* do_close is made under the mutex like any other do_X: never while another
\* thread is in a library call (provided/handouts/07.webservice.md:294).
CloseAlone == [][file = "open" /\ file' = "freed" => InLibrary = {}]_vars
-----------------------------------------------------------------------------
\* The inductive invariant: while there is a mutex, a thread between Lock and
\* Unlock holds it, and none gets past the second lock of handle_list_call.
Locked == Searching \cup {"list", "read", "delete", "insert", "sending", "unlock"}
MutexInv ==
    /\ pc = [t \in Threads |-> pc[t]]
    /\ request \in [Threads -> Message \cup {NoMessage}]
    /\ mutex # Destroyed =>
          \A t \in Threads : /\ pc[t] \in Locked => mutex = t
                             /\ pc[t] # "print"

\* The inductive invariant of the store: until the mutex is destroyed, which is
\* after the file is freed, a slot that is about to be cleared is valid, one that
\* a client has cleared is not and only that client was told so, and nb_files
\* covers the valid slots and the deletion under way: it is late by every deletion
\* that failed or was killed before it counted, too.
Deleted(t) == pc[t] = "count" \/ reply[t] = "302"
DeleteInv ==
    \A t \in Threads :
        /\ pc[t] = "clear" => request[t].name \in images
        /\ Deleted(t) => request[t].name \notin images
        /\ \A u \in Threads :
              Deleted(t) /\ Deleted(u) /\ request[t].name = request[u].name => t = u
CountInv ==
    nb_files >= Cardinality(images) + (IF \E t \in Threads : pc[t] = "count" THEN 1 ELSE 0)
OrderInv ==
    /\ main = "startup" =>
          /\ file # "open"
          /\ \A t \in Threads : pc[t] = "none" /\ shutdown[t] = "none"
          /\ shutdown[Main] = "none" => mutex = NoThread /\ nb_files >= Cardinality(images)
    /\ \A p \in Processes : shutdown[p] \in {"destroy", "exit"} => file # "open"
    /\ mutex = Destroyed => file # "open"
    /\ \A t \in Threads :
          reply[t] = "302" => pc[t] \in {"sending", "unlock", "closing"}
StoreInv ==
    /\ pc = [t \in Threads |-> pc[t]] /\ reply = [t \in Threads |-> reply[t]]
    /\ shutdown = [p \in Processes |-> shutdown[p]]
    /\ IsFiniteSet(images) /\ nb_files \in Int
    /\ OrderInv
    /\ mutex # Destroyed => DeleteInv
    /\ file = "open" => CountInv

\* What the types rest on: only messages for the library wait for the mutex, and
\* nb_files never falls below the valid slots as long as the server runs, behind a
\* file that was freed as well, where a deletion may end without counting: it
\* still holds the mutex then.
RunningInv ==
    /\ \A t \in Threads :
          pc[t] = "lock" => request[t].uri \in {"list", "read", "delete", "insert"}
    /\ Running => CountInv
    /\ mutex = Destroyed => \A t \in Threads : pc[t] \notin {"clear", "count"}
=============================================================================
