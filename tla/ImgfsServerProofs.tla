------------------------- MODULE ImgfsServerProofs --------------------------
(***************************************************************************)
(* Mutual exclusion in the web service, its store and its types, for any   *)
(* number of connections.                                                  *)
(***************************************************************************)
EXTENDS ImgfsServer, FiniteSetTheorems, TLAPS

\* Nothing is claimed of a process that has ended.
LEMMA EndInv ==
    ASSUME End
    PROVE  MutexInv'
BY DEF End, MutexInv, Locked, Searching

\* The steps of main and of server_shutdown touch no thread that handles a
\* message, and destroy the mutex only when nobody holds it.
LEMMA MainStepsInv ==
    ASSUME MutexInv,
           \/ Startup \/ EnterAccept \/ Accept
           \/ \E t \in Threads : Receive(t)
           \/ \E p \in Processes : Signal(p) \/ ShuttingDown(p)
    PROVE  MutexInv'
<1>1. CASE Startup
  BY <1>1, EndInv DEF MutexInv, Startup, locals
<1>2. CASE EnterAccept \/ Accept \/ \E p \in Processes : Signal(p)
  BY <1>2 DEF MutexInv, EnterAccept, Accept, Signal, locals
<1>3. CASE \E t \in Threads : Receive(t)
  BY <1>3 DEF MutexInv, Receive, Locked, Searching
<1>4. ASSUME NEW p \in Processes, ShuttingDown(p) PROVE MutexInv'
  BY <1>4, EndInv
  DEF MutexInv, ShuttingDown, HttpClose, TestFile, CloseFile, DestroyMutex, Exit, locals
<1> QED
  BY <1>1, <1>2, <1>3, <1>4

\* Nor do the steps that move one thread about and leave the mutex alone: it
\* stays between Lock and Unlock, or outside.
LEMMA StayInv ==
    ASSUME MutexInv, NEW t \in Threads, NEW there, Goto(t, there),
           UNCHANGED <<mutex, request>>,
           there # "print", there \in Locked => pc[t] \in Locked
    PROVE  MutexInv'
BY DEF MutexInv, Goto

\* Nor does a new thread that gets its message.
LEMMA MaskInv ==
    ASSUME MutexInv, NEW t \in Threads, MaskSignals(t)
    PROVE  MutexInv'
BY DEF MutexInv, MaskSignals, Goto, Locked, Searching

\* A step of a thread: only Lock takes the mutex, only Unlock gives it back, and
\* the second lock of handle_list_call is passed only when there is no mutex.
LEMMA HandleInv ==
    ASSUME MutexInv, NEW t \in Threads, Handle(t)
    PROVE  MutexInv'
<1>1. CASE Dispatch(t)
  BY <1>1, StayInv DEF Dispatch, Refuse, ServeFile, Reply, Locked, Searching
<1>2. CASE Lock(t)
  <2>1. CASE mutex = NoThread /\ mutex' = t
    <3>1. request[t].uri # "print" /\ request' = request
      <4>1. request[t] \in Message \cup {NoMessage} /\ request' = request
        BY <1>2 DEF Lock, MutexInv
      <4>2. "print" \notin Requests
        BY RequestsAssumption
      <4>3. ASSUME NEW m \in Message PROVE m.uri # "print"
        BY <4>2 DEF Message
      <4>4. NoMessage.uri # "print"
        BY DEF NoMessage
      <4> QED
        BY <4>1, <4>3, <4>4
    <3>2. \A u \in Threads : pc[u] \notin Locked /\ pc[u] # "print"
      BY <2>1, ThreadsAssumption DEF MutexInv, NoThread, Destroyed
    <3>3. pc' = [pc EXCEPT ![t] = request[t].uri] /\ pc = [u \in Threads |-> pc[u]]
          /\ request \in [Threads -> Message \cup {NoMessage}]
      BY <1>2 DEF Lock, Goto, MutexInv
    <3>4. ASSUME NEW u \in Threads
          PROVE  (pc'[u] \in Locked => mutex' = u) /\ pc'[u] # "print"
      BY <2>1, <3>1, <3>2, <3>3
    <3>5. pc' = [u \in Threads |-> pc'[u]]
      BY <3>3
    <3> QED
      BY <3>1, <3>3, <3>4, <3>5 DEF MutexInv, Message
  <2>2. CASE mutex = Destroyed /\ mutex' = mutex
    BY <1>2, <2>2, Zenon DEF Lock, MutexInv, Goto
  <2> QED
    BY <1>2, <2>1, <2>2 DEF Lock, Acquire
<1>3. CASE ListRelock(t)
  <2>1. mutex = Destroyed /\ mutex' = mutex
    BY <1>3, ThreadsAssumption DEF ListRelock, At, Acquire, MutexInv, Locked, NoThread, Destroyed
  <2> QED
    BY <1>3, <2>1 DEF ListRelock, MutexInv, Goto
<1>4. CASE ListPrint(t)
  <2>1. mutex = Destroyed
    BY <1>4 DEF ListPrint, At, MutexInv
  <2>2. CASE /\ Reply(t, "200", "sending") /\ UNCHANGED request
             /\ mutex' = IF mutex = t THEN NoThread ELSE mutex
    BY <2>1, <2>2, ThreadsAssumption DEF Reply, MutexInv, Goto
  <2> QED
    BY <1>4, <2>2, EndInv DEF ListPrint
<1>5. CASE BadRequest(t) \/ DeleteName(t) \/ ReadName(t)
  BY <1>5, StayInv, EndInv DEF BadRequest, DeleteName, ReadName, At, Refuse, Reply, Locked, Searching
<1>6. CASE Lookup(t) \/ Fetch(t)
  BY <1>6, StayInv, EndInv DEF Lookup, Fetch, Error, Disturbed, At, Refuse, Reply, Locked, Searching
<1>7. CASE ClearSlot(t) \/ CountDown(t) \/ Send(t)
  BY <1>7, StayInv, EndInv DEF ClearSlot, CountDown, Send, Error, Disturbed, Refuse, At, Reply, Locked, Searching
<1>8. CASE Unlock(t)
  BY <1>8, ThreadsAssumption DEF Unlock, At, Released, Goto, MutexInv, Locked, Searching
<1> QED
  BY <1>1, <1>2, <1>3, <1>4, <1>5, <1>6, <1>7, <1>8 DEF Handle

\* Every thread between Lock and Unlock holds the mutex, as long as there is one.
THEOREM MutexHeld == Spec => []MutexInv
<1>1. Init => MutexInv
  BY DEF Init, MutexInv, Locked, Searching
<1>2. MutexInv /\ [Next]_vars => MutexInv'
  <2> SUFFICES ASSUME MutexInv, [Next]_vars PROVE MutexInv'
    OBVIOUS
  <2>1. CASE UNCHANGED vars
    BY <2>1 DEF vars, locals, MutexInv
  <2> QED
    BY <2>1, MainStepsInv, MaskInv, HandleInv DEF Next
<1> QED
  BY <1>1, <1>2, PTL DEF Spec

\* Until server_shutdown destroys the mutex no two connections are inside the
\* library at once, with any number of them and whatever signals come.
THEOREM MutualExclusion == Spec => []OneInLibrary
<1>1. MutexInv => OneInLibrary
  BY DEF MutexInv, OneInLibrary, InLibrary, Locked
<1> QED
  BY <1>1, MutexHeld, PTL

-----------------------------------------------------------------------------
(* The store: what deletions do to the table and to nb_files.              *)

\* A process that has ended is told nothing of.
LEMMA EndStore ==
    ASSUME StoreInv, End
    PROVE  StoreInv'
<1>1. /\ \A t \in Threads : pc'[t] = "none" /\ reply'[t] = "none" /\ shutdown'[t] = "none"
      /\ \A p \in Processes : shutdown'[p] = "none"
      /\ main' = "ended" /\ file' = "closed" /\ mutex' = NoThread
  BY DEF End, Processes
<1>2. OrderInv'
  BY <1>1, ThreadsAssumption DEF OrderInv, NoThread, Destroyed
<1>3. DeleteInv'
  BY <1>1 DEF DeleteInv, Deleted
<1> QED
  BY <1>1, <1>2, <1>3 DEF StoreInv, End

LEMMA StoreNumbers ==
    ASSUME StoreInv
    PROVE  Cardinality(images) \in Nat /\ nb_files \in Int
BY FS_CardinalityType DEF StoreInv

\* A step of a thread that leaves the table alone and does not go on with a
\* deletion, one that fails in a deletion too.
LEMMA StoreStay ==
    ASSUME StoreInv, NEW t \in Threads, NEW there,
           Goto(t, there), pc[t] # "none",
           there \notin {"clear", "count"},
           \/ reply' = reply /\ (reply[t] = "302" => there \in {"sending", "unlock", "closing"})
           \/ \E what \in {"none", "200", "404", "500"} : reply' = [reply EXCEPT ![t] = what],
           UNCHANGED <<request, store, main, shutdown>>,
           mutex' = Destroyed <=> mutex = Destroyed
    PROVE  StoreInv'
<1>1. /\ pc' = [u \in Threads |-> pc'[u]] /\ reply' = [u \in Threads |-> reply'[u]]
      /\ shutdown' = [p \in Processes |-> shutdown'[p]]
      /\ pc'[t] = there /\ \A u \in Threads : u # t => pc'[u] = pc[u]
      /\ \A u \in Threads : u # t => reply'[u] = reply[u]
      /\ reply'[t] = "302" => reply[t] = "302" /\ there \in {"sending", "unlock", "closing"}
  BY DEF StoreInv, Goto
<1>2. \A u \in Threads : Deleted(u)' => Deleted(u)
  BY <1>1 DEF Deleted
<1>3. OrderInv'
  BY <1>1 DEF StoreInv, OrderInv, store
<1>4. mutex' # Destroyed => DeleteInv'
  BY <1>1, <1>2 DEF StoreInv, DeleteInv, store
<1>5. (\E u \in Threads : pc[u] = "count")' => \E u \in Threads : pc[u] = "count"
  BY <1>1
<1>6. file' = "open" => CountInv'
  BY <1>5, StoreNumbers DEF StoreInv, CountInv, store
<1> QED
  BY <1>1, <1>3, <1>4, <1>6 DEF StoreInv, store

\* Startup opens a file of which nb_files covers the slots, while there is no
\* thread.
LEMMA StartupStore ==
    ASSUME StoreInv, Startup
    PROVE  StoreInv'
<1>1. CASE main' = "loop" /\ file' = "open"
           /\ UNCHANGED <<locals, mutex, images, nb_files, signals, shutdown>>
  <2>1. /\ \A t \in Threads : pc[t] = "none" /\ shutdown[t] = "none"
        /\ shutdown[Main] = "none" /\ mutex = NoThread /\ nb_files >= Cardinality(images)
    BY DEF StoreInv, OrderInv, Startup, InMain
  <2>2. OrderInv'
    BY <1>1, <2>1, ThreadsAssumption
    DEF StoreInv, OrderInv, locals, Processes, NoThread, Destroyed
  <2>3. mutex' # Destroyed => DeleteInv'
    BY <1>1, <2>1, ThreadsAssumption
    DEF StoreInv, DeleteInv, Deleted, locals, NoThread, Destroyed
  <2>4. CountInv'
    <3>1. Cardinality(images) \in Nat
      BY FS_CardinalityType DEF StoreInv
    <3> QED
      BY <1>1, <2>1, <3>1 DEF CountInv, locals
  <2> QED
    BY <1>1, <2>2, <2>3, <2>4 DEF StoreInv, locals
<1> QED
  BY <1>1, EndStore DEF Startup

\* The other steps of main, the signals and server_shutdown: the file is freed
\* before the mutex is destroyed.
LEMMA MainStepsStore ==
    ASSUME StoreInv,
           \/ EnterAccept \/ Accept
           \/ \E t \in Threads : Receive(t)
           \/ \E p \in Processes : Signal(p) \/ ShuttingDown(p)
    PROVE  StoreInv'
<1>1. CASE EnterAccept \/ Accept
  <2>1. /\ UNCHANGED <<locals, mutex, store>> /\ main # "startup"
        /\ main' \in {"accepting", "starting", main}
        /\ shutdown' \in {shutdown, [shutdown EXCEPT ![Main] = "http_close"]}
    BY <1>1 DEF EnterAccept, Accept, InMain, ReceiveFails, Handler
  <2>2. OrderInv'
    BY <2>1 DEF StoreInv, OrderInv, locals, store
  <2> QED
    BY <2>1, <2>2 DEF StoreInv, DeleteInv, Deleted, CountInv, locals, store
<1>2. ASSUME NEW t \in Threads, Receive(t) PROVE StoreInv'
  <2>1. CASE UNCHANGED pc /\ ReceiveFails
    <3>1. OrderInv'
      BY <1>2, <2>1 DEF Receive, InMain, ReceiveFails, Handler, StoreInv, OrderInv, store
    <3> QED
      BY <1>2, <2>1, <3>1
      DEF Receive, ReceiveFails, Handler, StoreInv, DeleteInv, Deleted, CountInv, store
  <2>2. CASE /\ pc' = [pc EXCEPT ![t] = "unmasked"]
             /\ main' = "loop" /\ UNCHANGED shutdown
    <3>1. /\ UNCHANGED <<request, reply, mutex, store>> /\ main # "startup"
          /\ pc[t] = "none" /\ pc'[t] = "unmasked" /\ reply[t] # "302"
          /\ \A u \in Threads : u # t => pc'[u] = pc[u]
      BY <1>2, <2>2 DEF Receive, InMain, StoreInv, OrderInv
    <3>2. \A u \in Threads : Deleted(u)' <=> Deleted(u)
      BY <3>1 DEF Deleted
    <3>3. ~ Deleted(t)
      BY <3>1 DEF Deleted
    <3>4. OrderInv'
      BY <2>2, <3>1 DEF StoreInv, OrderInv, store
    <3>5. mutex' # Destroyed => DeleteInv'
      BY <3>1, <3>2, <3>3 DEF StoreInv, DeleteInv, store
    <3>6. (\E u \in Threads : pc[u] = "count")' <=> (\E u \in Threads : pc[u] = "count")
      BY <3>1
    <3>7. file' = "open" => CountInv'
      BY <3>1, <3>6 DEF StoreInv, CountInv, store
    <3> QED
      BY <2>2, <3>1, <3>4, <3>5, <3>7 DEF StoreInv, store
  <2> QED
    BY <1>2, <2>1, <2>2 DEF Receive
<1>3. ASSUME NEW p \in Processes, Signal(p) PROVE StoreInv'
  <2>1. /\ UNCHANGED <<locals, mutex, store, main>>
        /\ shutdown' \in {[shutdown EXCEPT ![p] = "http_close"], [shutdown EXCEPT ![p] = "hung"]}
        /\ p = Main \/ (p \in Threads /\ pc[p] = "unmasked")
    BY <1>3 DEF Signal, Handler
  <2>2. shutdown'[p] \in {"http_close", "hung"}
        /\ \A q \in Processes : q # p => shutdown'[q] = shutdown[q]
    BY <2>1 DEF StoreInv
  <2>3. main = "startup" => p = Main
    BY <2>1 DEF StoreInv, OrderInv
  <2>4. OrderInv'
    BY <2>1, <2>2, <2>3, ThreadsAssumption DEF StoreInv, OrderInv, locals, store, Processes
  <2> QED
    BY <2>1, <2>4 DEF StoreInv, DeleteInv, Deleted, CountInv, locals, store
<1>4. ASSUME NEW p \in Processes, ShuttingDown(p) PROVE StoreInv'
  <2>1. CASE HttpClose(p) \/ TestFile(p)
    <3>1. /\ UNCHANGED <<locals, mutex, store, main>>
          /\ shutdown[p] # "none"
          /\ \E step \in {"do_close", "fclose", "destroy"} :
                /\ shutdown' = [shutdown EXCEPT ![p] = step]
                /\ step = "destroy" => file # "open"
      BY <2>1 DEF HttpClose, TestFile, Shutdown, In, Handler
    <3>2. main = "startup" => p = Main
      BY <3>1, ThreadsAssumption DEF StoreInv, OrderInv, Processes
    <3>3. /\ shutdown'[p] \in {"do_close", "fclose", "destroy"}
          /\ shutdown'[p] = "destroy" => file # "open"
          /\ \A q \in Processes : q # p => shutdown'[q] = shutdown[q]
      BY <3>1 DEF StoreInv
    <3>4. OrderInv'
      BY <3>1, <3>2, <3>3, ThreadsAssumption DEF StoreInv, OrderInv, locals, store, Processes
    <3> QED
      BY <3>1, <3>4 DEF StoreInv, DeleteInv, Deleted, CountInv, locals, store
  <2>2. CASE CloseFile(p)
    <3>1. CASE /\ shutdown[p] = "fclose" /\ shutdown' = [shutdown EXCEPT ![p] = "destroy"]
               /\ file' = "freed" /\ UNCHANGED <<locals, mutex, images, nb_files, main>>
      <4>1. OrderInv'
        BY <3>1 DEF StoreInv, OrderInv, locals
      <4> QED
        BY <3>1, <4>1 DEF StoreInv, DeleteInv, Deleted, locals
    <3> QED
      BY <2>2, <3>1, EndStore DEF CloseFile, In, Handler
  <2>3. CASE DestroyMutex(p)
    <3>1. /\ UNCHANGED <<locals, store, main>> /\ mutex' \in {mutex, Destroyed}
          /\ shutdown[p] = "destroy" /\ shutdown' = [shutdown EXCEPT ![p] = "exit"]
      BY <2>3 DEF DestroyMutex, Shutdown, In, Handler
    <3>2. file # "open"
      BY <3>1 DEF StoreInv, OrderInv
    <3>3. main = "startup" => p = Main
      BY <3>1, ThreadsAssumption DEF StoreInv, OrderInv, Processes
    <3>4. shutdown'[p] = "exit" /\ \A q \in Processes : q # p => shutdown'[q] = shutdown[q]
      BY <3>1 DEF StoreInv
    <3>5. OrderInv'
      BY <3>1, <3>2, <3>3, <3>4, ThreadsAssumption
      DEF StoreInv, OrderInv, locals, store, Processes
    <3> QED
      BY <3>1, <3>2, <3>5 DEF StoreInv, DeleteInv, Deleted, locals, store
  <2> QED
    BY <1>4, <2>1, <2>2, <2>3, EndStore DEF ShuttingDown, Exit
<1> QED
  BY <1>1, <1>2, <1>3, <1>4

\* A thread that deletes: the mutex keeps the others out from the search to the
\* count.
LEMMA LookupStore ==
    ASSUME MutexInv, StoreInv, NEW t \in Threads, At(t, "lookup"),
           request[t].name \in images,
           Goto(t, "clear"), UNCHANGED <<request, reply, mutex, store, process>>
    PROVE  StoreInv'
<1>1. /\ pc'[t] = "clear" /\ pc[t] = "lookup"
      /\ \A u \in Threads : u # t => pc'[u] = pc[u]
      /\ pc' = [u \in Threads |-> pc'[u]]
  BY DEF Goto, At, StoreInv
<1>2. (\E u \in Threads : pc[u] = "count")' <=> (\E u \in Threads : pc[u] = "count")
  BY <1>1
<1>3. OrderInv'
  BY <1>1 DEF StoreInv, OrderInv, store, process
<1>4. \A u \in Threads : Deleted(u)' <=> Deleted(u)
  BY <1>1 DEF Deleted
<1>5. mutex' # Destroyed => DeleteInv'
  BY <1>1, <1>4 DEF StoreInv, DeleteInv, store
<1> QED
  BY <1>1, <1>2, <1>3, <1>5 DEF StoreInv, CountInv, store, process

LEMMA ClearStore ==
    ASSUME MutexInv, StoreInv, NEW t \in Threads, At(t, "clear"),
           images' = images \ {request[t].name},
           Goto(t, "count"), UNCHANGED <<request, reply, mutex, nb_files, file, process>>
    PROVE  StoreInv'
<1>1. /\ pc'[t] = "count" /\ pc[t] = "clear"
      /\ \A u \in Threads : u # t => pc'[u] = pc[u]
      /\ pc' = [u \in Threads |-> pc'[u]]
  BY DEF Goto, At, StoreInv
<1>2. mutex # Destroyed => \A u \in Threads : u # t => pc[u] \notin {"clear", "count"}
  BY <1>1 DEF MutexInv, Locked, Searching
<1>3. IsFiniteSet(images')
  BY FS_Subset DEF StoreInv
<1>4. OrderInv'
  <2>1. main # "startup" /\ reply[t] # "302"
    BY <1>1 DEF StoreInv, OrderInv
  <2> QED
    BY <1>1, <2>1 DEF StoreInv, OrderInv, process
<1>5. \A u \in Threads : u # t => (Deleted(u)' <=> Deleted(u))
  BY <1>1 DEF Deleted
<1>6. ASSUME mutex' # Destroyed PROVE DeleteInv'
  <2>1. DeleteInv /\ mutex # Destroyed
    BY <1>6 DEF StoreInv
  <2>2. \A u \in Threads : Deleted(u) => request[u].name # request[t].name
    BY <1>1, <2>1 DEF DeleteInv
  <2> QED
    BY <1>1, <1>2, <1>5, <2>1, <2>2 DEF DeleteInv
<1>7. ASSUME file' = "open" PROVE CountInv'
  <2>1. mutex # Destroyed /\ CountInv /\ request[t].name \in images
    BY <1>1, <1>7 DEF StoreInv, OrderInv, DeleteInv
  <2>2. ~ \E u \in Threads : pc[u] = "count"
    BY <1>1, <1>2, <2>1
  <2>3. \E u \in Threads : pc'[u] = "count"
    BY <1>1
  <2>4. Cardinality(images') = Cardinality(images) - 1 /\ Cardinality(images) \in Nat
    BY <2>1, FS_RemoveElement, FS_CardinalityType DEF StoreInv
  <2> QED
    BY <2>1, <2>2, <2>3, <2>4, StoreNumbers DEF CountInv
<1> QED
  BY <1>1, <1>3, <1>4, <1>6, <1>7 DEF StoreInv, process

\* A deletion that fails with the slot cleared: the count stays as it is, above
\* the valid slots.
LEMMA ClearFailStore ==
    ASSUME MutexInv, StoreInv, NEW t \in Threads, At(t, "clear"),
           images' = images \ {request[t].name},
           Refuse(t, "sending"), UNCHANGED <<request, mutex, nb_files, file, process>>
    PROVE  StoreInv'
<1>1. /\ pc'[t] = "sending" /\ pc[t] = "clear" /\ reply'[t] = "500"
      /\ \A u \in Threads : u # t => pc'[u] = pc[u] /\ reply'[u] = reply[u]
      /\ pc' = [u \in Threads |-> pc'[u]] /\ reply' = [u \in Threads |-> reply'[u]]
  BY DEF Refuse, Reply, Goto, At, StoreInv
<1>2. mutex # Destroyed => \A u \in Threads : u # t => pc[u] # "clear"
  BY <1>1 DEF MutexInv, Locked, Searching
<1>3. IsFiniteSet(images') /\ Cardinality(images') <= Cardinality(images)
  BY FS_Subset DEF StoreInv
<1>4. OrderInv'
  <2>1. main # "startup"
    BY <1>1 DEF StoreInv, OrderInv
  <2> QED
    BY <1>1, <2>1 DEF StoreInv, OrderInv, process
<1>5. \A u \in Threads : Deleted(u)' => Deleted(u)
  BY <1>1 DEF Deleted
<1>6. mutex' # Destroyed => DeleteInv'
  BY <1>1, <1>2, <1>5 DEF StoreInv, DeleteInv
<1>7. ASSUME file' = "open" PROVE CountInv'
  <2>1. CountInv
    BY <1>7 DEF StoreInv
  <2>2. (\E u \in Threads : pc[u] = "count")' => \E u \in Threads : pc[u] = "count"
    BY <1>1
  <2>3. Cardinality(images') \in Nat
    BY <1>3, FS_CardinalityType
  <2> QED
    BY <1>3, <2>1, <2>2, <2>3, StoreNumbers DEF CountInv
<1> QED
  BY <1>1, <1>3, <1>4, <1>6, <1>7 DEF StoreInv, process

\* The count goes down for the deletion under way, whether the header is written
\* or not.
LEMMA CountStore ==
    ASSUME MutexInv, StoreInv, NEW t \in Threads, At(t, "count"),
           nb_files' = nb_files - 1, NEW what \in {"302", "500"}, Reply(t, what, "sending"),
           UNCHANGED <<request, mutex, images, file, process>>
    PROVE  StoreInv'
<1>1. /\ pc'[t] = "sending" /\ pc[t] = "count" /\ reply'[t] = what
      /\ \A u \in Threads : u # t => pc'[u] = pc[u] /\ reply'[u] = reply[u]
      /\ pc' = [u \in Threads |-> pc'[u]] /\ reply' = [u \in Threads |-> reply'[u]]
  BY DEF Goto, At, Reply, StoreInv
<1>2. mutex # Destroyed => \A u \in Threads : u # t => pc[u] # "count"
  BY <1>1 DEF MutexInv, Locked, Searching
<1>3. OrderInv'
  <2>1. main # "startup"
    BY <1>1 DEF StoreInv, OrderInv
  <2> QED
    BY <1>1, <2>1 DEF StoreInv, OrderInv, process
<1>4. \A u \in Threads : Deleted(u)' => Deleted(u)
  BY <1>1 DEF Deleted
<1>5. mutex' # Destroyed => DeleteInv'
  BY <1>1, <1>4 DEF StoreInv, DeleteInv
<1>6. ASSUME file' = "open" PROVE CountInv'
  <2>1. mutex # Destroyed /\ CountInv
    BY <1>6 DEF StoreInv, OrderInv
  <2>2. (\E u \in Threads : pc[u] = "count") /\ ~ \E u \in Threads : pc'[u] = "count"
    BY <1>1, <1>2, <2>1
  <2> QED
    BY <2>1, <2>2, StoreNumbers DEF CountInv
<1> QED
  BY <1>1, <1>3, <1>5, <1>6, StoreNumbers DEF StoreInv, process

\* A new message is nothing that was deleted.
LEMMA MaskStore ==
    ASSUME StoreInv, NEW t \in Threads, MaskSignals(t)
    PROVE  StoreInv'
<1>1. /\ UNCHANGED <<reply, mutex, store, process>>
      /\ pc[t] = "unmasked" /\ pc'[t] = "dispatch" /\ reply[t] # "302"
      /\ pc' = [u \in Threads |-> pc'[u]]
      /\ \A u \in Threads : u # t => pc'[u] = pc[u] /\ request'[u] = request[u]
  BY DEF MaskSignals, At, Goto, StoreInv, OrderInv
<1>2. (\A u \in Threads : Deleted(u)' <=> Deleted(u)) /\ ~ Deleted(t)
  BY <1>1 DEF Deleted
<1>3. OrderInv'
  BY <1>1 DEF StoreInv, OrderInv, store, process
<1>4. mutex' # Destroyed => DeleteInv'
  BY <1>1, <1>2 DEF StoreInv, DeleteInv, store
<1>5. (\E u \in Threads : pc[u] = "count")' <=> (\E u \in Threads : pc[u] = "count")
  BY <1>1
<1>6. file' = "open" => CountInv'
  BY <1>1, <1>5 DEF StoreInv, CountInv, store
<1> QED
  BY <1>1, <1>3, <1>4, <1>6 DEF StoreInv, store, process

\* The steps of a thread: the three of a deletion, and those that leave the table
\* alone.
LEMMA HandleStore ==
    ASSUME MutexInv, StoreInv, NEW t \in Threads, Handle(t)
    PROVE  StoreInv'
<1>1. ASSUME At(t, pc[t]), pc[t] # "none", NEW what \in {"none", "200", "404", "500"},
             NEW there \in {"sending", "closing"}, Reply(t, what, there),
             UNCHANGED <<request, store, process>>, mutex' = Destroyed <=> mutex = Destroyed
      PROVE  StoreInv'
  BY <1>1, StoreStay DEF Reply, process
<1>2. ASSUME pc[t] \notin {"none", "count", "sending", "unlock", "closing"},
             NEW there, there \notin {"clear", "count"}, Goto(t, there),
             UNCHANGED <<request, reply, store, process>>,
             mutex' = Destroyed <=> mutex = Destroyed
      PROVE  StoreInv'
  <2>1. reply[t] # "302"
    BY <1>2 DEF StoreInv, OrderInv
  <2> QED
    BY <1>2, <2>1, StoreStay DEF process
<1>3. CASE Dispatch(t)
  BY <1>1, <1>2, <1>3 DEF Dispatch, ServeFile, Refuse, At
<1>4. CASE Lock(t) \/ ListRelock(t)
  <2>1. request[t].uri \notin {"clear", "count"}
    <3>1. request[t] \in Message \cup {NoMessage}
      BY DEF MutexInv
    <3>2. ASSUME NEW m \in Message PROVE m.uri \notin {"clear", "count"}
      BY RequestsAssumption DEF Message
    <3>3. NoMessage.uri \notin {"clear", "count"}
      BY DEF NoMessage
    <3> QED
      BY <3>1, <3>2, <3>3
  <2>2. mutex' = Destroyed <=> mutex = Destroyed
    BY <1>4, ThreadsAssumption DEF Lock, ListRelock, Acquire, NoThread, Destroyed
  <2> QED
    BY <1>2, <1>4, <2>1, <2>2 DEF Lock, ListRelock, At
<1>5. CASE ListPrint(t)
  <2>1. CASE /\ Reply(t, "200", "sending")
             /\ mutex' = IF mutex = t THEN NoThread ELSE mutex
             /\ UNCHANGED <<request, store, process>>
    <3>1. mutex' = Destroyed <=> mutex = Destroyed
      BY <2>1, ThreadsAssumption DEF NoThread, Destroyed
    <3> QED
      BY <1>1, <1>5, <2>1, <3>1 DEF ListPrint, At
  <2> QED
    BY <1>5, <2>1, EndStore DEF ListPrint
<1>6. CASE BadRequest(t) \/ DeleteName(t) \/ ReadName(t)
  BY <1>1, <1>2, <1>6, EndStore DEF BadRequest, DeleteName, ReadName, At, Refuse
<1>7. CASE Lookup(t) \/ Fetch(t)
  BY <1>1, <1>2, <1>7, LookupStore, EndStore DEF Lookup, Fetch, Error, Disturbed, At, Refuse
<1>8. CASE ClearSlot(t)
  <2>1. CASE Refuse(t, "sending") /\ UNCHANGED <<request, mutex, store, process>>
    BY <1>1, <1>8, <2>1 DEF ClearSlot, At, Refuse
  <2> QED
    BY <1>8, <2>1, ClearStore, ClearFailStore, EndStore DEF ClearSlot, Error, Disturbed
<1>9. CASE CountDown(t)
  <2>1. CASE Refuse(t, "sending") /\ UNCHANGED <<request, mutex, store, process>>
    BY <1>1, <1>9, <2>1 DEF CountDown, At, Refuse
  <2> QED
    BY <1>9, <2>1, CountStore, EndStore DEF CountDown, Error, Disturbed, Refuse
<1>10. CASE Send(t)
  BY <1>10, StoreStay, EndStore DEF Send, At, process
<1>11. CASE Unlock(t)
  <2>1. mutex' = Destroyed <=> mutex = Destroyed
    BY <1>11, ThreadsAssumption DEF Unlock, Released, NoThread, Destroyed
  <2> QED
    BY <1>11, <2>1, StoreStay DEF Unlock, At, process
<1> QED
  BY <1>3, <1>4, <1>5, <1>6, <1>7, <1>8, <1>9, <1>10, <1>11 DEF Handle

\* With any number of connections the store's invariant holds.
THEOREM StoreKept == Spec => []StoreInv
<1>1. Init => StoreInv
  <2> SUFFICES ASSUME Init PROVE StoreInv
    OBVIOUS
  <2>1. IsFiniteSet(images) /\ nb_files \in Int /\ nb_files >= Cardinality(images)
    <3>1. IsFiniteSet(images)
      BY FS_Subset, RequestsAssumption DEF Init
    <3>2. Cardinality(images) \in Nat /\ MaxFiles \in Nat
      BY <3>1, FS_CardinalityType, RequestsAssumption
    <3> QED
      BY <3>1, <3>2 DEF Init
  <2>2. OrderInv
    BY <2>1, ThreadsAssumption DEF Init, OrderInv, Processes, NoThread, Destroyed
  <2>3. DeleteInv
    BY DEF Init, DeleteInv, Deleted
  <2> QED
    BY <2>1, <2>2, <2>3 DEF Init, StoreInv
<1>2. StoreInv /\ MutexInv /\ [Next]_vars => StoreInv'
  <2> SUFFICES ASSUME StoreInv, MutexInv, [Next]_vars PROVE StoreInv'
    OBVIOUS
  <2>1. CASE UNCHANGED vars
    BY <2>1
    DEF vars, locals, store, process, StoreInv, OrderInv, DeleteInv, Deleted, CountInv
  <2> QED
    BY <2>1, StartupStore, MainStepsStore, MaskStore, HandleStore DEF Next
<1> QED
  BY <1>1, <1>2, MutexHeld, PTL DEF Spec

\* However many connections delete, and whatever fails in them, nb_files covers the
\* valid slots and the deletions that are about to count, while the file is open.
THEOREM CountKept == Spec => []CountCovers
<1>1. StoreInv /\ MutexInv => CountCovers
  <2> SUFFICES ASSUME StoreInv, MutexInv, file = "open"
               PROVE  nb_files >= Cardinality(images)
                                  + Cardinality({t \in Threads : pc[t] = "count"})
    BY DEF CountCovers
  <2>1. CountInv /\ mutex # Destroyed
    BY DEF StoreInv, OrderInv
  <2>2. CASE \E t \in Threads : pc[t] = "count"
    <3>1. PICK t \in Threads : pc[t] = "count"
      BY <2>2
    <3>2. {u \in Threads : pc[u] = "count"} = {t}
      BY <2>1, <3>1 DEF MutexInv, Locked, Searching
    <3>3. Cardinality({t}) = 1
      BY FS_Singleton
    <3> QED
      BY <2>1, <2>2, <3>2, <3>3, StoreNumbers DEF CountInv
  <2>3. CASE ~ \E t \in Threads : pc[t] = "count"
    <3>1. {u \in Threads : pc[u] = "count"} = {}
      BY <2>3
    <3>2. Cardinality({}) = 0
      BY FS_EmptySet
    <3> QED
      BY <2>1, <2>3, <3>1, <3>2, StoreNumbers DEF CountInv
  <2> QED
    BY <2>2, <2>3
<1> QED
  BY <1>1, StoreKept, MutexHeld, PTL

\* With any number of connections, one client at most is told that it deleted an
\* image.
THEOREM OneDeletes == Spec => []DeletedOnce
<1>1. StoreInv => DeletedOnce
  BY DEF StoreInv, DeleteInv, Deleted, DeletedOnce
<1> QED
  BY <1>1, StoreKept, PTL

-----------------------------------------------------------------------------
(* The types, and RunningInv, which they rest on.                          *)

LEMMA EndTyped ==
    ASSUME TypeOK, End
    PROVE  TypeOK' /\ RunningInv'
<1>1. TypeOK'
  <2>1. signals' \in 0 .. MaxSignals
    BY RequestsAssumption DEF End
  <2>2. /\ pc' \in [Threads -> Searching \cup {"none", "unmasked", "dispatch", "lock", "list",
                     "read", "delete", "insert", "sending", "unlock", "closing"}]
        /\ request' \in [Threads -> Message \cup {NoMessage}]
        /\ reply' \in [Threads -> {"none", "200", "302", "404", "500"}]
        /\ shutdown' \in [Processes -> {"none", "http_close", "do_close", "fclose",
                                        "destroy", "exit", "hung"}]
    BY DEF End
  <2> QED
    BY <2>1, <2>2 DEF TypeOK, End
<1>2. RunningInv'
  BY ThreadsAssumption DEF RunningInv, End, Running, NoThread, Destroyed
<1> QED
  BY <1>1, <1>2

\* A step of p within signal_handler, or into it.
LEMMA HandlerTyped ==
    ASSUME TypeOK, RunningInv, NEW p \in Processes,
           NEW step \in {"http_close", "do_close", "fclose", "destroy", "exit", "hung"},
           Handler(p, step), UNCHANGED <<pc, request, reply, images, nb_files, main>>,
           mutex' \in {mutex, Destroyed}, file' \in {file, "freed"},
           listening' \in {listening, FALSE}, signals' \in 0 .. MaxSignals,
           mutex' # mutex => \A t \in Threads : pc[t] \notin {"clear", "count"}
    PROVE  TypeOK' /\ RunningInv'
<1>1. TypeOK'
  <2>1. shutdown' \in [Processes -> {"none", "http_close", "do_close", "fclose",
                                     "destroy", "exit", "hung"}]
    BY DEF TypeOK, Handler
  <2> QED
    BY <2>1 DEF TypeOK
<1>2. RunningInv'
  BY DEF RunningInv, CountInv, Running
<1> QED
  BY <1>1, <1>2

\* The steps of main, the signals and server_shutdown.
LEMMA MainStepsTyped ==
    ASSUME TypeOK, RunningInv, StoreInv, MutexInv,
           \/ Startup \/ EnterAccept \/ Accept
           \/ \E t \in Threads : Receive(t)
           \/ \E p \in Processes : Signal(p) \/ ShuttingDown(p)
    PROVE  TypeOK' /\ RunningInv'
<1>0. Main \in Processes /\ signals \in 0 .. MaxSignals /\ listening \in BOOLEAN
  BY DEF Processes, TypeOK
<1>1. CASE Startup
  <2>1. CASE /\ main' = "loop" /\ file' = "open" /\ listening' \in {TRUE, ~ Fails}
             /\ UNCHANGED <<locals, mutex, images, nb_files, signals, shutdown>>
    <3>1. TypeOK'
      BY <2>1, RequestsAssumption DEF TypeOK, locals
    <3>2. main = "startup" /\ Running
      BY <1>1 DEF Startup, InMain, Running
    <3>3. RunningInv'
      BY <2>1, <3>2 DEF RunningInv, CountInv, locals
    <3> QED
      BY <3>1, <3>3
  <2> QED
    BY <1>1, <2>1, EndTyped DEF Startup
<1>2. CASE EnterAccept \/ Accept
  <2>1. /\ UNCHANGED <<locals, mutex, store, listening, signals>> /\ main \in {"loop", "accepting"}
        /\ \/ main' \in {"accepting", "starting"} /\ UNCHANGED shutdown
           \/ Handler(Main, "http_close") /\ UNCHANGED main
    BY <1>2 DEF EnterAccept, Accept, InMain, ReceiveFails
  <2>2. CASE main' \in {"accepting", "starting"} /\ UNCHANGED shutdown
    <3>1. TypeOK'
      BY <2>1, <2>2 DEF TypeOK, locals, store
    <3>2. RunningInv'
      BY <2>1, <2>2 DEF RunningInv, CountInv, Running, locals, store
    <3> QED
      BY <3>1, <3>2
  <2>3. CASE Handler(Main, "http_close") /\ UNCHANGED main
    BY <1>0, <2>1, <2>3, HandlerTyped DEF locals, store
  <2> QED
    BY <2>1, <2>2, <2>3
<1>3. ASSUME NEW t \in Threads, Receive(t) PROVE TypeOK' /\ RunningInv'
  <2>1. CASE ReceiveFails /\ UNCHANGED pc
    BY <1>0, <1>3, <2>1, HandlerTyped DEF Receive, ReceiveFails, store
  <2>2. CASE /\ pc' = [pc EXCEPT ![t] = "unmasked"]
             /\ main' = "loop" /\ UNCHANGED shutdown
    <3>1. /\ UNCHANGED <<request, reply, mutex, store, listening, signals>>
          /\ pc[t] = "none" /\ Running
      BY <1>3 DEF Receive, InMain, Running
    <3>2. TypeOK'
      BY <2>2, <3>1 DEF TypeOK, store
    <3>3. /\ pc'[t] = "unmasked"
          /\ \A u \in Threads : u # t => pc'[u] = pc[u]
      BY <2>2 DEF TypeOK
    <3>4. (\E u \in Threads : pc[u] = "count")' <=> (\E u \in Threads : pc[u] = "count")
      BY <3>1, <3>3
    <3>5. RunningInv'
      BY <2>2, <3>1, <3>3, <3>4 DEF RunningInv, CountInv, store
    <3> QED
      BY <3>2, <3>5
  <2> QED
    BY <1>3, <2>1, <2>2 DEF Receive
<1>4. ASSUME NEW p \in Processes, Signal(p) PROVE TypeOK' /\ RunningInv'
  <2>1. signals' \in 0 .. MaxSignals
    BY <1>0, <1>4, RequestsAssumption DEF Signal
  <2> QED
    BY <1>4, <2>1, HandlerTyped DEF Signal, locals, store
<1>5. ASSUME NEW p \in Processes, ShuttingDown(p) PROVE TypeOK' /\ RunningInv'
  <2>1. CASE HttpClose(p) \/ TestFile(p)
    BY <1>0, <2>1, HandlerTyped DEF HttpClose, TestFile, Shutdown, locals, store
  <2>2. CASE CloseFile(p)
    BY <1>0, <2>2, HandlerTyped, EndTyped DEF CloseFile, locals
  <2>3. CASE DestroyMutex(p)
    <3>1. mutex' # mutex => mutex = NoThread
      BY <2>3 DEF DestroyMutex
    <3>2. mutex' # mutex => \A t \in Threads : pc[t] \notin {"clear", "count"}
      BY <3>1, ThreadsAssumption DEF MutexInv, Locked, Searching, NoThread, Destroyed
    <3> QED
      BY <1>0, <2>3, <3>2, HandlerTyped DEF DestroyMutex, Shutdown, locals, store
  <2>4. CASE Exit(p)
    BY <2>4, EndTyped DEF Exit
  <2> QED
    BY <1>5, <2>1, <2>2, <2>3, <2>4 DEF ShuttingDown
<1> QED
  BY <1>1, <1>2, <1>3, <1>4, <1>5

\* A step of thread t that leaves the table alone.
LEMMA StayTyped ==
    ASSUME TypeOK, RunningInv, NEW t \in Threads, Running,
           NEW there \in {"dispatch", "lock", "list", "read", "delete", "insert", "lookup",
                          "clear", "fetch", "print", "sending", "unlock", "closing"},
           Goto(t, there), UNCHANGED <<request, store, process>>,
           \/ reply' = reply
           \/ \E what \in {"none", "200", "302", "404", "500"} : reply' = [reply EXCEPT ![t] = what],
           mutex' \in Threads \cup {NoThread, Destroyed}, mutex' = Destroyed => mutex = Destroyed,
           there = "clear" => mutex # Destroyed,
           there = "lock" => request[t].uri \in {"list", "read", "delete", "insert"}
    PROVE  TypeOK' /\ RunningInv'
<1>1. TypeOK'
  BY DEF TypeOK, Goto, Searching, store, process
<1>2. pc'[t] = there /\ \A u \in Threads : u # t => pc'[u] = pc[u]
  BY DEF TypeOK, Goto
<1>3. nb_files \in Nat
  BY RequestsAssumption DEF TypeOK
<1>4. RunningInv'
  <2>1. Cardinality(images) \in Nat
    BY FS_Subset, FS_CardinalityType, RequestsAssumption DEF TypeOK
  <2> QED
    BY <1>2, <1>3, <2>1 DEF RunningInv, CountInv, Running, store, process
<1> QED
  BY <1>1, <1>4

\* A new thread gets its message.
LEMMA MaskTyped ==
    ASSUME TypeOK, RunningInv, NEW t \in Threads, MaskSignals(t)
    PROVE  TypeOK' /\ RunningInv'
<1>1. TypeOK'
  BY DEF TypeOK, MaskSignals, Goto, store, process
<1>2. /\ UNCHANGED <<mutex, store, process>> /\ pc'[t] = "dispatch" /\ pc[t] = "unmasked"
      /\ \A u \in Threads : u # t => pc'[u] = pc[u] /\ request'[u] = request[u]
  BY DEF TypeOK, MaskSignals, At, Goto
<1>3. (\E u \in Threads : pc[u] = "count")' <=> (\E u \in Threads : pc[u] = "count")
  BY <1>2
<1>4. RunningInv'
  BY <1>2, <1>3 DEF RunningInv, CountInv, Running, store, process
<1> QED
  BY <1>1, <1>4

\* A step of a thread: a deletion counts only what it has cleared.
LEMMA HandleTyped ==
    ASSUME TypeOK, RunningInv, StoreInv, MutexInv, NEW t \in Threads, Handle(t)
    PROVE  TypeOK' /\ RunningInv'
<1>0. /\ Running /\ shutdown[t] = "none"
      /\ mutex \in Threads \cup {NoThread, Destroyed} /\ Destroyed # NoThread /\ t # Destroyed
  BY ThreadsAssumption
  DEF Handle, Dispatch, Lock, ListRelock, ListPrint, BadRequest, DeleteName,
      ReadName, Lookup, Fetch, ClearSlot, CountDown, Send, Unlock, At, TypeOK, NoThread, Destroyed
<1>2. CASE Dispatch(t)
  BY <1>0, <1>2, StayTyped DEF Dispatch, Matches, ServeFile, Refuse, Reply
<1>3. CASE Lock(t)
  <2>1. request[t].uri \in {"list", "read", "delete", "insert"}
    BY <1>3 DEF Lock, At, RunningInv
  <2> QED
    BY <1>0, <1>3, <2>1, StayTyped DEF Lock, Acquire
<1>4. CASE ListRelock(t)
  BY <1>0, <1>4, StayTyped DEF ListRelock, Acquire
<1>5. CASE ListPrint(t)
  BY <1>0, <1>5, StayTyped, EndTyped DEF ListPrint, Reply
<1>6. CASE BadRequest(t) \/ DeleteName(t) \/ ReadName(t)
  BY <1>0, <1>6, StayTyped, EndTyped DEF BadRequest, DeleteName, ReadName, Refuse, Reply
<1>7. CASE Lookup(t)
  <2>1. file = "open" => mutex # Destroyed
    BY DEF StoreInv, OrderInv
  <2> QED
    BY <1>0, <1>7, <2>1, StayTyped, EndTyped DEF Lookup, Disturbed, Refuse, Reply
<1>8. CASE Fetch(t)
  BY <1>0, <1>8, StayTyped, EndTyped DEF Fetch, Error, Disturbed, Refuse, Reply
<1>9. CASE ClearSlot(t)
  <2>1. CASE /\ images' = images \ {request[t].name}
             /\ Goto(t, "count")
             /\ UNCHANGED <<request, reply, mutex, nb_files, file, process>>
    <3>1. TypeOK'
      BY <2>1 DEF TypeOK, Goto, Searching, process
    <3>2. /\ pc'[t] = "count" /\ \A u \in Threads : u # t => pc'[u] = pc[u]
          /\ pc[t] = "clear" /\ mutex # Destroyed
      BY <1>9, <2>1 DEF ClearSlot, At, TypeOK, Goto, RunningInv
    <3>3. ~ \E u \in Threads : pc[u] = "count"
      BY <3>2 DEF MutexInv, Locked, Searching
    <3>4. IsFiniteSet(images) /\ request[t].name \in images
      BY <3>2 DEF StoreInv, DeleteInv
    <3>5. Cardinality(images') = Cardinality(images) - 1 /\ Cardinality(images) \in Nat
      BY <2>1, <3>4, FS_RemoveElement, FS_CardinalityType
    <3>6. nb_files \in Int /\ nb_files >= Cardinality(images)
      BY <1>0, <3>3, <3>5 DEF TypeOK, RunningInv, CountInv
    <3>7. nb_files' >= Cardinality(images') + 1
      BY <2>1, <3>5, <3>6
    <3> QED
      BY <2>1, <3>1, <3>2, <3>7 DEF RunningInv, CountInv
  <2>2. CASE /\ images' = images \ {request[t].name}
             /\ Refuse(t, "sending")
             /\ UNCHANGED <<request, mutex, nb_files, file, process>>
    <3>1. TypeOK'
      BY <2>2 DEF TypeOK, Refuse, Reply, Goto, Searching, process
    <3>2. pc'[t] = "sending" /\ \A u \in Threads : u # t => pc'[u] = pc[u]
      BY <2>2 DEF TypeOK, Refuse, Reply, Goto
    <3>3. Cardinality(images') <= Cardinality(images) /\ Cardinality(images') \in Nat
      BY <2>2, FS_Subset, FS_CardinalityType DEF StoreInv
    <3>4. CountInv'
      <4>1. (\E u \in Threads : pc[u] = "count")' => \E u \in Threads : pc[u] = "count"
        BY <3>2
      <4> QED
        BY <1>0, <2>2, <3>3, <4>1, StoreNumbers DEF RunningInv, CountInv
    <3>5. RunningInv'
      BY <2>2, <3>2, <3>4 DEF RunningInv
    <3> QED
      BY <3>1, <3>5
  <2> QED
    BY <1>0, <1>9, <2>1, <2>2, StayTyped, EndTyped DEF ClearSlot, Error, Disturbed, Refuse, Reply
<1>10. CASE CountDown(t)
  <2>1. CASE /\ nb_files' = nb_files - 1
             /\ \E what \in {"302", "500"} : Reply(t, what, "sending")
             /\ UNCHANGED <<request, mutex, images, file, process>>
    <3>1. /\ pc'[t] = "sending" /\ \A u \in Threads : u # t => pc'[u] = pc[u]
          /\ pc[t] = "count" /\ mutex # Destroyed
      BY <1>10, <2>1 DEF CountDown, At, TypeOK, Reply, Goto, RunningInv
    <3>2. ~ \E u \in Threads : pc'[u] = "count"
      BY <3>1 DEF MutexInv, Locked, Searching
    <3>3. Cardinality(images) \in Nat /\ MaxFiles \in Nat
      BY FS_CardinalityType, RequestsAssumption DEF StoreInv
    <3>4. nb_files \in 0 .. MaxFiles /\ nb_files >= Cardinality(images) + 1
      BY <1>0, <3>1 DEF TypeOK, RunningInv, CountInv
    <3>5. nb_files' \in 0 .. MaxFiles /\ nb_files' >= Cardinality(images)
      BY <2>1, <3>3, <3>4
    <3>6. TypeOK'
      BY <2>1, <3>5 DEF TypeOK, Reply, Goto, Searching, process
    <3>7. RunningInv'
      BY <2>1, <3>1, <3>2, <3>3, <3>5 DEF RunningInv, CountInv
    <3> QED
      BY <3>6, <3>7
  <2> QED
    BY <1>0, <1>10, <2>1, StayTyped, EndTyped DEF CountDown, Error, Disturbed, Refuse, Reply
<1>11. CASE Send(t)
  BY <1>0, <1>11, StayTyped, EndTyped DEF Send
<1>12. CASE Unlock(t)
  BY <1>0, <1>12, StayTyped DEF Unlock, Released
<1> QED
  BY <1>2, <1>3, <1>4, <1>5, <1>6, <1>7, <1>8, <1>9, <1>10, <1>11, <1>12 DEF Handle

\* The variables of the server keep their types, with any number of connections,
\* names and signals: nb_files, an unsigned number that a deletion decrements
\* (imgfs_delete.c:39), stays between zero and max_files, in a process that goes on
\* with a file freed under its calls, too.
THEOREM ServerTyped == Spec => []TypeOK
<1>1. Init => TypeOK /\ RunningInv
  <2> SUFFICES ASSUME Init PROVE TypeOK /\ RunningInv
    OBVIOUS
  <2>1. /\ Cardinality(images) \in Nat /\ MaxFiles \in Nat
        /\ nb_files \in Cardinality(images) .. MaxFiles
    BY FS_Subset, FS_CardinalityType, RequestsAssumption DEF Init
  <2>2. TypeOK
    <3>1. signals \in 0 .. MaxSignals /\ nb_files \in 0 .. MaxFiles
      BY <2>1, RequestsAssumption DEF Init
    <3>2. /\ pc \in [Threads -> Searching \cup {"none", "unmasked", "dispatch", "lock", "list",
                      "read", "delete", "insert", "sending", "unlock", "closing"}]
          /\ request \in [Threads -> Message \cup {NoMessage}]
          /\ reply \in [Threads -> {"none", "200", "302", "404", "500"}]
          /\ shutdown \in [Processes -> {"none", "http_close", "do_close", "fclose",
                                         "destroy", "exit", "hung"}]
      BY DEF Init
    <3> QED
      BY <3>1, <3>2 DEF TypeOK, Init
  <2>3. RunningInv
    BY <2>1, ThreadsAssumption DEF Init, RunningInv, CountInv, NoThread, Destroyed
  <2> QED
    BY <2>2, <2>3
<1>2. TypeOK /\ RunningInv /\ StoreInv /\ MutexInv /\ [Next]_vars => TypeOK' /\ RunningInv'
  <2> SUFFICES ASSUME TypeOK, RunningInv, StoreInv, MutexInv, [Next]_vars
               PROVE  TypeOK' /\ RunningInv'
    OBVIOUS
  <2>1. CASE UNCHANGED vars
    BY <2>1 DEF vars, locals, store, process, TypeOK, RunningInv, CountInv, Running
  <2> QED
    BY <2>1, MainStepsTyped, MaskTyped, HandleTyped DEF Next
<1> QED
  BY <1>1, <1>2, MutexHeld, StoreKept, PTL DEF Spec
=============================================================================
