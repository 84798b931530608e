# ImgFS: a verification development

TLA+ models of the ImgFS image store (`src/done`): the storage library, the
command line `imgfscmd` over it, the HTTP connection loop, the multithreaded web
server that puts the library behind HTTP, and the two programs that try out the
socket layer. TLC checks the models on small
instances; TLAPS proves the invariants, the action properties and the refinements
for every instance. What needs fairness is only checked.

Contents: the system · the modules · what each run shows · bounds and
abstractions · fairness · what is proved · disagreements found · not modelled ·
plan.

## 1. The system

### Components, their state and operations

| component | code | state | operations |
|---|---|---|---|
| storage library | `imgfs_*.c`, `image_dedup.c`, `image_content.c` | the image file: header (`nb_files`, `version`, `max_files`), metadata table, blobs; `struct imgfs_file`: a copy of header and table, and a `FILE*` with its buffer | `do_create`, `do_open`, `do_close`, `do_insert`, `do_delete`, `do_read` (with `lazily_resize`), `do_list`; `do_gbcollect` is declared and has no code |
| commands | `imgfscmd.c`, `imgfscmd_functions.c` | the command line and what is left of it, the header being filled, the file extracted | `main`, `do_{list,create,delete,insert,read}_cmd`: arguments, `do_open`, one call, `do_close` |
| HTTP connection | `http_net.c: handle_connection` | a buffer of `MAX_HEADER_SIZE`, `total_read`, `read`, `content_len`, the parsed message | two read loops, parse, callback |
| HTTP parser | `http_prot.c` | none | `http_parse_message`, `http_get_var`, `http_match_uri`, `http_match_verb` |
| accept loop | `http_net.c: http_init, http_receive, http_close` | `passive_socket`, the callback `cb` | one detached thread per connection |
| web service | `imgfs_server_service.c` | `fs_file`, `mutex`, `server_port` | start, shut down, dispatch by URI, `handle_{list,read,delete,insert}_call` |
| server program | `imgfs_server.c` | signal dispositions | `main`, `signal_handler` |
| socket layer | `socket_layer.c` | none | `tcp_server_init`, `tcp_accept`, `tcp_read`, `tcp_send` |
| TCP test programs | `tcp-test-client.c`, `tcp-test-server.c` | sockets, `size_str`, `file_content` | size, acknowledgment, file, acknowledgment |
| HTTP test server | `http-test-server.c` | `passive_socket` | `http_init` and the accept loop, with no callback |
| utilities | `util.c`, `error.c` | none | number conversions, error names |

Interaction: a command calls the library directly, with the numbers of
`util.c`. In the server,
`http_receive` makes a thread per connection, which reads the socket, parses,
and calls `handle_http_message` through `cb`; that dispatches to a handler which
calls the library on the one `fs_file`, under one mutex, and replies through
`http_reply` and `tcp_send`. A signal handler, in whichever thread takes the
signal, runs `server_shutdown` in the middle of all this and exits.

### What is hard

* **One operation is several writes.** An insertion writes blob, header, slot;
  a deletion slot, header; a resize blob, slot. The process may die, or a call
  fail, between any two. The last write of each call stays in the stdio buffer
  until the next `fseek` or `fclose`, so the order in which bytes reach the file
  is not the order of the `fwrite`s' returns.
* **Memory is changed before the outcome is known**: `do_insert` marks its slot
  valid before looking for duplicates, `lazily_resize` sets the offset before
  the write.
* **Shared blobs**: images with the same content share extents.
* **Connections cut anywhere**, peers that close or fall silent.
* **Threads, a mutex, signals**: relocking, replying under the lock, shutdown
  against running handlers, and against another shutdown.
* **A stream is not messages**: size and file of the TCP exchange share one,
  `recv` cuts it anywhere, and a variable on the stack keeps the last client's
  digits.

The full list, each at its line and with the properties that cover it, is in
`PROJECT.json` under `hazards`.

### What makes each component correct

* Library: the count covers the valid slots and stays within the table; the scan
  for a free slot ends; every extent of a valid slot holds its image; no extent
  moves; names are unique; a read serves what is stored; an acknowledged call is
  in the closed file; all told, the file is a catalogue of named images.
* Connection: a request received whole reaches the callback, whole and only
  then; the first loop ends with the header, the thread with its peer.
* Commands: the options mean what is written, in any order; a success has done
  to the closed file what was asked, a failure nothing; the file extracted is
  the image its name says.
* Service: one thread at a time in the library; each message answered; the file
  not closed under a running call; a signal ends the server, and so does a socket
  it cannot listen on.
* TCP test programs: a size is told from the file behind it; the ends never wait
  for each other; every client has its turn.

## 2. The modules

| module | models | composed with |
|---|---|---|
| `ImageCatalog` | abstract promise of the library: names to images, `Put`, `Remove`, `Serve`, `Wipe` | instantiated by `ImgStore` |
| `ImgStore` | the library, file, table in memory, stdio buffer and process | refines `ImageCatalog` |
| `ImgStoreProofs` | type correctness and the inductive invariant of `ImgStore` | extends `ImgStore` |
| `ImgStoreImagesProofs` | names, contents and blobs: every other property of the library with one call per opened file | extends `ImgStoreProofs` |
| `ImgStoreCatalogProofs` | the refinement of `ImageCatalog` | extends `ImgStoreImagesProofs` |
| `ImgStoreCleanProofs` | when nothing fails: the exact count, and files that stay open for many calls | extends `ImgStoreImagesProofs` |
| `ImgfsCmd` | `main` of `imgfscmd`, the `do_*_cmd` functions, `atouint16/32`, `resolution_atoi` | extends `ImgStore`: its actions call the library's |
| `ImgfsCmdProofs` | the commands use the library as `ImgStore` has it; options; what successes and failures have done | extends `ImgfsCmd`, `ImgStoreCatalogProofs`, `ImgStoreCleanProofs` |
| `HttpConnection` | `handle_connection`, `http_parse_message`, `tcp_read`, and the peer | |
| `HttpConnectionProofs` | the first loop gathers the header unbroken | extends `HttpConnection` |
| `ImgfsServer` | main, accept loop, handlers, mutex, signals, shutdown | its messages are those a connection hands to its callback |
| `ImgfsServerProofs` | mutual exclusion, the store the handlers share, types | extends `ImgfsServer` |
| `TcpTransfer` | the TCP test client and server | |
| `TcpTransferProofs` | what `sprintf`, `strtok` and `atol` do to a size, and all safety of the exchange | extends `TcpTransfer` |
| `MCImgStore`, `MCImgfsCmd`, `MCHttpConnection`, `MCImgfsServer`, `MCTcpTransfer` | instances for TLC | |

A definition whose comment says `mutant` is a plausible bug in the definition
below it; it is used by no specification and shows, put in that definition's
place, that a property can fail.

### ImgStore

`dHeader`, `dMeta`, `blobs`, `formatted` are the file; `header` and `metadata`
are `imgfs_file->header` and `->metadata`; `pend` is the one `fwrite` that may
still be in the stdio buffer, since each of the library's `fwrite`s is preceded
by an `fseek`, which flushes. `pc` and `op` are where the process is within a
call and its arguments; `ret` and `served` its last results.

One action is the code from one stdio call to the next, so that `Crash`, which
is enabled everywhere, falls between any two of them and leaves of the pending
write all, nothing, or a torn blob. `DoInsert`, `InsertBlob`, `InsertHeader`,
`InsertMeta` are `do_insert`; `DoDelete`, `DeleteMeta`, `DeleteHeader` are
`do_delete`; `DoRead`, `ResizeBlob`, `ResizeMeta`, `ReadData` are `do_read` with
`lazily_resize`. `do_create`, `do_open`, `do_close` and `do_list` are an action
each. Every error return is a disjunct: `DoCreate`, for one, fails before the
`fopen` that truncates, at it, or after it.

`LongLived = FALSE` is `imgfscmd`: the process makes one call and closes.
`LongLived = TRUE` is the library as the server holds it: any number of calls on
one open file, with whatever refused calls leave in memory.

### ImgfsCmd

`line` is the command line, `stage` where its command is: `"options"` in the
loop of `do_create_cmd`, `"open"` before `do_open`, `"call"` within the library
call and before `do_close`, `"extract"` before a read writes its image, `"exit"`
when `main` returns `code`. `Main` looks the command up and makes the checks
that come before the file is opened; `MaxFilesOption`, `ThumbOption`,
`SmallOption` and `UnknownOption` are one turn each of the option loop, `at` the
argument it has come to. From there on the actions are conjunctions of
`ImgStore`'s with what the command adds: `Call` chooses the call and its
arguments, `InCall` is the rest of it, `Close` and `ReadImageFails` close the
file, the second for an image file that is missing, empty, or (with `Faults`)
cannot be read. `MainReturns` ends the process; the next command finds the file as it is.

Texts are strings; `Numeral` says which of them `strtoumax` reads as numbers.
`Atouint` has its three ways of giving 0 and the wrap of a negative number that
`uintmax_t` can hold, so that `"-9"` may be accepted as a small resolution, as
it is in the code for a number just below 2^64.

### HttpConnection

The bytes of the stream are tokens of one place each: a request line, a header,
a `Content-Length` header, a CRLF, a byte of a body, a zero byte. `PeerSend` and
`PeerClose` are the peer, `Receivable(n)` what `recv` may return, any split of
what has arrived. `Start`, `ReadHeader` (first loop), `TestEnd` (the condition
of the second), `ReadMessage` (its first `tcp_read` and the parse), `ReadRest`
(its second and the callback) are the thread. `pc = "undefined"` stands for
everything that may follow an access outside the buffer; nothing is claimed
after it. The branch at lines 121-143 needs `read == 0` behind a return on
`read <= 0`, so it cannot be reached, nor can 162-167, nor 86-92 since the loop before leaves
only after a positive read.

### ImgfsServer

`pc[t]` is where the thread of connection `t` is between `pthread_create` and
the return of `handle_http_message`; `mutex` is free, held or destroyed;
`images`, `nb_files` and `file` are what the handlers of `fs_file` use: the table
in memory, its count and whether it is there. The file may come with a count
above its images, which `do_open` takes and a deletion killed half way leaves.
`do_delete` takes its look-up, its slot and its count in separate steps, so that
two handlers without a lock would meet in between; each of its error returns is
there, with `is_valid` cleared and the count kept where the code leaves it so, and
a read may fail as well. `ListRelock` is the second
`pthread_mutex_lock` of `handle_list_call`: on a default mutex that its own
thread holds it waits for ever.

`main` is where the main thread is; `listening` whether `http_init` left a
socket, which nobody looks at until `tcp_accept` refuses it. `shutdown[p]` is
where `p`, main or a thread, is in `signal_handler`: main because `http_receive`
failed or for a signal, a new connection thread because a signal reached it
before its `pthread_sigmask`. It does nothing else meanwhile; all others go on,
main's accepting too, and may come to a shutdown of their own. A second signal
starts the handler again inside the first (`sa_mask` is empty). `"hung"` is a
handler that interrupted `malloc` or `free` and waits for their lock.
`HttpClose`, `TestFile`, `CloseFile`, `DestroyMutex`, `Exit` are the steps of
`server_shutdown` and `exit`; `End` is the end of the process and of all it had.

Undefined behaviour is left open: `handle_delete_call` writes the name through
an unset pointer (it works, fails, or kills the process), a call on a file that
was freed under it fails, goes on, or kills the process, a second close of one
file may kill it, and a send to a client that has left may raise SIGPIPE.

### TcpTransfer

`cpc[c]` and `spc` are where each client and the server are; `up[c]` and
`down[c]` what is under way on the connection. `Received` is what `recv` may
return, any first part of what is there; `clink[c]` and `slink[c]` how each end
finds the other: there, gone with everything read, gone with something unread
(so that the next call fails), or gone for good (SIGPIPE). `Stat`, `Connect`,
`SendSize`, `ReadAck`, `Open`, `SendFile`, `ReadFinal` are the client, `Accept`,
`ReadSize`, `SendAck`, `ReadFile`, `SendAccepted` the server. `size_str` keeps
what the client before left in it, and what is received goes over its start,
before `Strtok` and `Atol` make a number of it. `Killed` and `Empty` are what
may happen to a client and to its file meanwhile. `SendSize` may crash a client
whose file is so small that its size, written out, does not fit `size_msg`.

## 3. The runs and what they show

Library (`MCImgStore`):

| run | result | shows |
|---|---|---|
| `cli_faults` | pass | Commands with any stdio call failing and the process killed at any point: `CountCoversValid`, `ScanInBounds`, `FirstNamedIsValid`, `SharedOriginals`, `ExtentsSound`, `ServedIsStored`, `ListShowsAll`, `ExtentsStable`, `VersionCounts`, and the inductive invariant of the proofs, `LibraryInv`. File and answers implement `ImageCatalog` (`ImplementsCatalog`): a command killed anywhere leaves the images before it or after it. |
| `library` | pass | Many calls on one open file, refused ones included: what reaches the file keeps sound, stable extents and counted versions, and `OpenInv`: file with buffer and table in memory agree on every image of the file, but for what refused insertions leave in memory. That originals are shared is not among them, see section 7. |
| `library_scan` | violation | `ScanInBounds`, see section 7. |
| `library_served` | violation | `ServedIsStored` on one open file, without faults, see section 7. |

Commands (`MCImgfsCmd`):

| run | result | shows |
|---|---|---|
| `cli_clean` | pass | Command lines of every kind, well and ill formed, without faults. `CreatesAsAsked`: whatever their order and repetition, `do_create` is given the last value of each option, else the default. `CommandDone`: a command that returns `ERR_NONE` has done to the closed file what its line says, the library's unflushed last write included. `FailureChangesNothing`: one that fails has not. `ExtractsStored`: the file a read leaves holds the image and resolution of its name, or a part of it. `CountExact`: between commands the count is the number of images. `UsesLibrary`: the commands implement `ImgStore`'s specification. |

Connection (`MCHttpConnection`):

| run | result | shows |
|---|---|---|
| `http_safe` | pass | The first loop gathers the header unbroken however it is cut (`HeaderContiguous`), and is left with it even if the peer then keeps silent (`HeaderSeen`, which does not say what becomes of the thread). `GoneEnds`: a peer that resets the connection ends the thread wherever it is, one that closes ends it once the first loop is left. |
| `http_dispatch`, `http_eof` | violation | `RequestDispatched`, `PeerCloseEnds`, see section 7. |

Server (`MCImgfsServer`):

| run | result | shows |
|---|---|---|
| `server` | pass | Two connections of every kind on a file whose count may be late, a start, an accept loop, library calls and allocations that may fail, and a signal in whichever thread takes it. `OneInLibrary`, `CountCovers`, `DeletedOnce`: the mutex keeps the handlers apart, the count no less than the images and the deletions about to count, and one deletion of a name successful. `ServerEnds`: a signal, a failure of `http_receive`, or a port that could not be bound ends the server even when handlers are deadlocked or another shutdown runs, because the shutdown waits for nothing but the allocator. `AnsweredUnlessListed`: as long as nobody lists, every request but those for the index page (`http_serve_file` may leave them unanswered) is answered, and each refusal or failure, too, gives the mutex back. `MutexInv`, `StoreInv` are the invariants of the proofs. |
| `server_list`, `server_close` | violation | `AllAnswered`, `CloseAlone`, see section 7. |

Socket layer (`MCTcpTransfer`):

| run | result | shows |
|---|---|---|
| `tcp_exchange` | pass | Two clients and the server. `SizeDelimited`: a size that arrives whole is the one the server works with, whatever the last client left in `size_str`, and what it takes for the file is a start of the file. `NeverStuck`: the ends wait for each other only over a file with nothing to send. `ServerSurvives`: the server dies only of a client that did not run to its end. `ClientsServed`: with that exception every connected client ends. |

`CountCovers` and `DeletedOnce` are not consequences of the shape of the model:
the look-up and the two updates of a deletion are separate steps, and without
the lock two deletions of one name both count down, below the images and below
zero. That the count is exactly the images is not claimed: a deletion whose write
fails, and one killed before the server was started, leave it late.

## 4. Bounds and abstractions

* Library: two slots, two names, two contents and one that libvips refuses; three
  names for `cli_clean`. Two slots are enough for a free slot
  below or above a valid one, a full table, a duplicate name, a shared content
  and a reused slot. `UINT32_MAX = 3`, so the version wraps within a run;
  `UINT32_MAX >= MaxFiles` is assumed because the count is a `uint32_t` at most
  `max_files`. `MaxBlobs = 3` bounds the blobs appended (guard `Room`, on
  insertions and resizes): three let an original, its thumbnail, and a blob behind a
  torn one exist. Resolutions asked for are thumbnail and original; `library`
  adds one that is neither. The small image is handled by the same code as the
  thumbnail.
* A blob's size is that of what the blob's offset holds, so offsets are counted
  in blobs. All blobs count as equal extents: a failed write leaves no part, or a part that
  takes a place of its own. A SHA is the content itself: collisions are not
  modelled. `orig_res`, the configured resolutions and the characters of names
  tell no property apart and are left out.
* A crash is the death of the process: what `write` took is in the file. Loss of
  power, where the file system may reorder, is not modelled; the code calls
  neither `fsync` nor anything it could rely on.
* `library_scan` ends in a read outside the table (`pc = "overrun"`), after which
  the model allows the process only to end, as the sanitizer of the default
  build makes it.
* Connection: a buffer of six places and five streams: a request that fits, one
  with a body, one with a header longer than the buffer, one whose header starts
  in the part the second loop reads, and binary data with zero bytes in front of
  a request. What the parser makes of text that is not a regular request is left
  open. At most `MAX_HEADERS` headers occur.
* Commands: `UINT16_MAX`, `UINT32_MAX`, `UINTMAX`, the defaults and the limits
  are scaled to 4, 3, 9 and 1 to 3, which keeps their order: there are numbers
  below, at and above every limit, negative ones that wrap to something
  acceptable, and one out of `uintmax_t`. Create lines have every pair of
  thirteen options, good, bad and cut. They are given, as the ill-formed lines
  are, while there is no file (`FirstLines`), since what they do to a file is
  `OtherCreates`. An imgFS of another size than `MaxFiles` is taken for another
  file, written and left. Names are neither empty nor longer than `MAX_IMG_ID`,
  except that delete is given both.
* Server: two connections of one message each, one name. Two
  threads on one name give every interleaving of the handlers. One signal with a
  failing `http_receive` makes two shutdowns meet, one signal in the other's
  handler included; `MaxSignals` bounds the signals. `MaxFiles` is 1 in
  `server`: a file with its one image counted, one whose count is late by one, and
  an empty one; it is 2 in the runs that expect a violation. A connection comes
  (`Accept`) only while the model has a thread left for it. Where `Fails` lets stdio
  fail, a library call returns an error at each of its error exits; what the file is
  then left with is `ImgStore`'s subject. An allocation that fails while a reply is
  made is left out.
* TCP exchange: two clients, files of 0, 7, 9 and 16 bytes against limits of 8
  and 16, sizes written in base two: one digit and several, a file with nothing
  to send, one that fits, one the server refuses, one the client does. `Garbage`,
  what is on the stack before the first client, has digits, a stray delimiter and
  a zero byte. What lies behind the last byte of `size_str` is not modelled.

Deadlock is checked in the library's runs: a command can always be run again. It
is not in the others (it is in `cli_clean`): there a connection ends, the server exits, and in the runs
that list the threads do deadlock, which `AllAnswered` is about.

## 5. Fairness

The library's models state none; all their properties are safety. In
`HttpConnection` the thread runs (`WF_vars(Thread)`), which the operating system's scheduler
gives; `recv` waits while nothing is there, so the thread is then disabled. The
peer owes nothing: it may fall silent or never close. In `ImgfsServer` each
thread and the shutdown run. `Send` is one of a thread's steps: clients are
assumed to read their answer at last, which `AnsweredUnlessListed` needs. `Lock` is
taken under weak fairness per thread, and main's shutdown and its loop up to
`accept` under one of their own: each connection has one message, so a
thread waiting for the mutex is not overtaken without end. New connections,
their messages, signals and failures are never forced. A process whose allocator hangs is
exempt. In `TcpTransfer` the server and each client run; connections, kills and
changes of files are not forced, but a client that has connected is accepted,
which is one of the server's steps.

## 6. What is proved

Every invariant and action property of the passing runs is a theorem, for every
value of the constants that the named ASSUMEs of the modules allow and under no
other hypothesis than the mode named (`~ LongLived`: one call per opened file;
`~ Faults`: no error of stdio and no crash).

### The library

`ImgStoreProofs`, for every number of slots, names and contents, every bound,
in both modes where not said otherwise:

* `TypeCorrect`: `Spec => []TypeOK`. One lemma per action; it includes that
  the `uint32_t` arithmetic stays within its width.
* `CommandsKeepInv`: `[]CommandInv` when each process makes one call, with and without
  faults. `CountCoversValid` is not inductive: nothing in it says why the header that
  `InsertHeader` is about to write counts a slot that is not on disk yet.
  `CommandInv` adds what each control point knows: a file with the pending write
  applied still covers its slots (`SafeWrite`, which makes every crash safe);
  while an insertion runs the memory's count is the file's, then one more
  (`Inserting`); a deletion's pending slot is invalid before the count goes down
  (`Deleting`); a resize keeps `is_valid` (`Resizing`). Lemmas on cardinality
  say what marking one slot does to the count.
* `CountsCover`, `ScanStaysInBounds`: `CountCoversValid` and `ScanInBounds` from it. The
  scan is in bounds because a count below `max_files` that covers the valid
  slots leaves one slot free.

In the mode with many calls these fail, as `library_scan` shows; the theorems'
hypothesis is where the difference is made.

`ImgStoreImagesProofs`, one call per opened file, with and without faults:

* `CommandsKeepImages`: `[]LibraryInv`, which is `CommandInv` and `ImagesInv`.
  None of the properties below is inductive. A slot gets its name, content and
  offsets in memory, its blob, header and slot reach the file one by one, and the
  last one waits in the buffer: so `ImagesInv` says of the table of the file that
  it is sound (`Sound`: found first under its name, every offset on its blob,
  originals shared), of what is on its way there that it is one image inserted
  in the first free slot, deleted, or extended by a resolution (`Due`), and of
  each control point which of these it is making (`Filling`, `Reading`,
  `Formatting`). A crash then leaves a sound table with the pending write or
  without. Its first lemmas say what each of the three forms does to a sound table.
* `ImagesCanBeFound`, `OriginalsShared`, `ExtentsWhole`, `ReadsStored`,
  `ListsAll`: `FirstNamedIsValid`, `SharedOriginals`, `ExtentsSound`,
  `ServedIsStored`, `ListShowsAll` from it. `ListsAll` counts: a list stops after
  `nb_files` images, and those before the last valid slot are fewer.
* `VersionsCount`, `ExtentsStay`: the action properties `VersionCounts` and
  `ExtentsStable`, each from what `Due` lets a flush write.

`ImgStoreCatalogProofs`, under the same hypothesis: `CommandsImplementCatalog`,
`Spec => ImplementsCatalog`. The catalogue stored is a function of the table of
the file, so that every step is one of three: a flush of a slot, which is a
`Put`, a `Remove` or, for a resolution, nothing; a creation, which is `Wipe`; the
end of a read, which is `Serve` of what is stored.

`ImgStoreCleanProofs`, without faults:

* `CountsExactly` (one call): `CountExact` from `CountsInv`, which says where the
  count is ahead of or behind the slots.
* `OpenFilesAgree`: `[]OpenInv`, for any number of calls on a file that stays
  open. `LibraryInv` is false there, since refused insertions stay in memory;
  `OpenInv` keeps what is true of each slot of both tables.
* `OpenExtentsWhole`, `OpenVersionsCount`, `OpenExtentsStay`: `ExtentsSound`,
  `VersionCounts` and `ExtentsStable` from it: the run `library` shows them in two
  slots, the theorems in any number, where `SharedOriginals` no longer holds
  (section 7).

### The commands

`ImgfsCmdProofs`, for all command lines and numerals that `ImgfsCmd`'s ASSUMEs
allow:

* `NamesFit`: `[]NameInv`, which names what the library's own arguments need:
  insert and read are given names it can hold by assumption, delete by its own
  check.
* `CommandsUseLibrary`: `CmdSpec => Spec`: every step of a command is a step of
  `ImgStore` or leaves its variables alone. It needs `NameInv`, for a call's name
  must be one of the library's.
* `CommandsSafe`, `CommandsCount`, `CommandsKeepCatalog`: hence what is proved
  of the library holds of `imgfscmd` as a whole: `CountCoversValid`,
  `ScanInBounds`, `CountExact` without faults, and `ImplementsCatalog`.
* `CommandsWellTyped`, `CreatesWhatIsAsked`: `CmdTypeOK` and `CreatesAsAsked`, from
  the invariant of the option loop: `at` is on the line, and the header being filled has for
  each option the last value before `at`, else the default.
* `FilesExtracted`: `ExtractsStored`, whatever fails (in the run nothing does),
  from `FetchInv`, which follows a read: a failure ends its call with an error and
  extracts nothing; up to it no image has changed, whatever the resize has written.
* `CommandsDo`, `FailuresKeep` (without faults): `CommandDone` and
  `FailureChangesNothing`, from `FetchInv` and `CallInv`: the library is given
  the line's arguments; `ret` fits what the call has done to the file with its
  buffer; `code` is `ret`. TLC found no violation of the two invariants on the
  instance of `cli_clean`, of `FetchInv` with faults too.

With faults `CommandDone` and `FailureChangesNothing` are false of the code, as
TLC shows on the instance of `cli_clean` with `Faults = TRUE`: a failed `fclose`
is not reported, and a call that fails may leave its change.

### The server

`ImgfsServerProofs`, for any number of connections, names and signals:

* `MutexHeld`: `Spec => []MutexInv`. `OneInLibrary` is not inductive: a thread
  that has locked is not yet in the library. `MutexInv` says that every thread
  between `Lock` and `Unlock` holds the mutex while it is not destroyed, and that none
  is past the second lock of `handle_list_call`.
* `MutualExclusion`: `Spec => []OneInLibrary`, from it.
* `StoreKept`: `Spec => []StoreInv`, with `MutexInv` for the steps of a deletion:
  `CountCovers` is not inductive: nothing in it says that a slot about to be cleared
  is valid, so that what the images lose the deletion about to count gains, nor that
  there is only one such deletion. `OrderInv` says that the mutex is destroyed only after the file is
  freed, also when several shutdowns run at once.
* `CountKept`, `OneDeletes`: `CountCovers` and `DeletedOnce` from it. They hold from
  any count that `do_open` may find above the images, and through every failure of a
  deletion: one cut short keeps a count that is too high, never one too low.
* `ServerTyped`: `Spec => []TypeOK`. That `nb_files` stays between 0 and `MaxFiles` also
  after the file is freed under its handlers, when nothing keeps them apart any
  more, needs `RunningInv`, checked on the instance of `server`.

### Connection and exchange

`HttpConnectionProofs`, for any streams, any size of the buffer and of a body:

* `ConnectionTyped`: `Spec => []TypeOK`. That `read` stays a count of places
  needs the bound at the second `tcp_read`: what the first one left is at
  most what the buffer holds.
* `HeaderGathered`: `Spec => []HeaderContiguous`, inductive with `TypeOK`: a read
  of the first loop stores behind what it counted, and never more than the room.

`TcpTransferProofs`, for any number of clients, any sizes, limits and base, any
`Garbage` that ends in a zero byte:

* What the string functions compute. `Written` and `Atol` are recursive
  functions, so this is induction, and over sets: `Induction` is proved of
  subsets of the naturals from the well-foundedness of `<`, `Recursion` that a
  function defined by recursion exists. `ValueOfWritten`: read digit by digit,
  `Written[n]` is `n`; `SizeRead`: received over the start of any buffer, a whole
  size comes out of `Strtok` and `Atol` as itself, because its delimiter ends it.
* `TransferInvariant`: `[]TransferInv` with the types. The safety properties relate
  variables of both programs and say nothing of the messages between them.
  `Meets` says for each stage the server may be at with a client where the client may be
  and what is on the connection; `Sends`, what of a file is under way, and that
  something is unless there is nothing to send; `Queue`, that a client waits
  once. One lemma per action of a client shows that it keeps these at whatever
  stage the server is and leaves the others alone; one per action of the server,
  that it moves its client to the next. TLC checked it on the instance of
  `tcp_exchange`.
* `TransferTyped`, `SizesDelimited`, `ExchangeNeverStuck`, `ServerSurvivesAll`:
  `TypeOK`, `SizeDelimited`, `NeverStuck` and `ServerSurvives` from it. For the
  last: a client that leaves before it has read the whole acknowledgment leaves a
  part unread, so the server meets it aborted, and `tcp_send` fails instead of
  raising SIGPIPE; only one that fell is met gone.

### Only model-checked

The liveness properties `HeaderSeen`, `GoneEnds`, `ServerEnds`,
`AnsweredUnlessListed` and `ClientsServed`: they need fairness, and TLAPS has no
rule for ENABLED here. The properties of the runs that expect a violation are
false.

## 7. Disagreements found

Each is a run that TLC finds violated, and an entry of `findings` with the quoted line.

* `library_scan`: a refused duplicate stays in memory as a valid slot that is
  not counted; enough of them fill the table, and the scan for a free slot
  leaves it.
* `library_served`: no fault is needed. On one open file insert `i1`, insert `i2`
  with the same content, delete `i1`, and insert `i2` again: the last is refused as a
  duplicate name, but its slot, the lower one that `i1` left, is by then valid, has
  the name `i2` and no offset. A read of `i2` finds it first and returns the bytes at
  offset 0 of the file, its header, as the image. Failing writes lead there as well,
  by an insertion that fails behind its slot, or by a resize that fails behind the
  offset it has set (`image_content.c:84`); the run does not show these.
* `http_dispatch`: a request received whole is closed without the callback: the
  loop that parses is entered only without an end of header. A complete header of
  which the body is only partly there meets the same condition: the thread closes
  the connection, where `06.http.md:276-281` has it extend the buffer, read on, call the
  callback and start a new round of reads. `RequestDispatched` is about requests
  received whole; the partial body has the same cause and no run of its own.
* `http_eof`: a peer that closes early leaves its thread spinning.
* `server_list`: a list request deadlocks itself and every later request.
* `server_close`: the file is closed while a handler is using it.

The models also contain, without a run of their own:

* an image stored above the slot of a refused insertion is not found by
  `do_read`;
* deduplication is lost on a file that stays open: with three slots, an
  insertion of some content under a name, refused a second time as a duplicate
  name, leaves the slot marked valid in memory with no offset, and the next
  insertion of the content takes the offsets of the last twin it meets, that slot
  (`image_dedup.c:33-42`); `do_insert` then stores the original once more, where
  `01.main.md:28` promises "the ability to not duplicate identical images". So
  `SharedOriginals` is a theorem for one call per opened file only. It needs a
  slot above the refused one: in two slots it does not occur;
* the callback is given messages the parser did not find complete, parsed from
  what earlier reads left in the buffer;
* answers are sent under the mutex, where `07.webservice.md:262` wants it given
  back first; a client that has left may end the server by SIGPIPE, without
  `do_close`;
* a signal that interrupts the allocator may leave the server hanging in its
  handler, and two shutdowns may close one file twice;
* the TCP server takes what one `recv` brings for the whole file, where
  `05.socket.md:111` has it wait for "a file (of that size)"; a size that `recv`
  cuts is completed by the last client's digits; with an empty file both ends
  wait for ever (`05.socket.md:120-122`), and a client that leaves early may end
  the server (`05.socket.md:116`). `SizeDelimited`, `NeverStuck` and
  `ServerSurvives` say when this does not happen.

## 8. Not modelled, and why

* Text and pictures: `print_header`, JSON, libvips. They keep no state; libvips
  is a choice of success or failure.
* The text of `http_get_var`, `http_match_uri`, `http_match_verb`, and more than
  `MAX_HEADERS` headers: `ImgfsServer` has their outcomes, `HttpConnection` the
  regular requests. Past `MAX_HEADERS` the parser writes outside its array, after
  which a model has nothing to say.
* Names longer than `MAX_IMG_ID` given to insert, for the same reason.
* `http-test-server.c`: the accept loop of `ImgfsServer`, without a library and
  with no callback to call.
* `http_serve_file`, beyond its three outcomes; the socket options and the
  backlog of `tcp_server_init`.
* Two processes on one file: the code has no lock and no document promises that
  it works. Planned, to say which invariants survive.
* `strnstr` (vendored), the error table, tests and data.

## 9. Plan

Done: the library with its refinement, the commands, the connection, the server
and the TCP exchange, and proofs of every safety and action property the passing
runs check. Left, in order of importance:

1. `ImgfsServer` over `ImgStore`: the handlers' calls with failures, to carry
   `library_*` into the server, with `OpenInv` as what they start from.
2. `OpenInv` with failures: what of it survives an insertion whose write failed
   on a file that stays open.
3. `HttpProt`: `http_get_var`, URI and verb matching and header parsing as
   functions on short strings, against reference definitions.
4. `SharedFile`: two `ImgStore` processes over one file.
