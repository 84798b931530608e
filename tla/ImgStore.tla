------------------------------ MODULE ImgStore ------------------------------
(***************************************************************************)
(* The ImgFS storage library (imgfs_create.c, imgfs_tools.c,               *)
(* imgfs_insert.c, imgfs_delete.c, imgfs_read.c, imgfs_list.c,             *)
(* image_dedup.c, image_content.c) as one process uses it: an image file   *)
(* on disk, the header and the metadata table that do_open copies to       *)
(* memory, and the stdio buffer between the two.                           *)
(*                                                                         *)
(* One action is the code between two stdio calls.  The buffer holds at    *)
(* most the last fwrite: fseek and fclose write it out.  Blobs are only    *)
(* ever appended, so the offset of a blob is its index in blobs, and 0 is  *)
(* "no offset", as in the code.  A SHA is the content it is computed from. *)
(* size, orig_res, the name and the configured resolutions are abstracted: *)
(* a size is that of the blob at the offset, both are set together.        *)
(***************************************************************************)
EXTENDS Integers, Sequences, FiniteSets, FiniteSetsExt

CONSTANTS
    Ids,          \* image identifiers
    Contents,     \* image contents libvips decodes
    BadContents,  \* contents libvips refuses
    MaxFiles,     \* header.max_files, fixed when the file is created
    UINT32_MAX,   \* the largest value of version and nb_files
    Requested,    \* the resolutions callers ask do_read for
    Calls,        \* the library calls made: "create", "insert", ...
    LongLived,    \* FALSE: imgfscmd, one call per do_open; TRUE: any number
    Faults,       \* may stdio, malloc or the process fail?
    MaxBlobs      \* bound of the model: no blob is started beyond it

EMPTY == 0
NON_EMPTY == 1
THUMB_RES == 0
SMALL_RES == 1
ORIG_RES == 2
Res == {THUMB_RES, SMALL_RES, ORIG_RES}
Slots == 0 .. MaxFiles - 1

NoId == ""            \* the img_id of a slot no insertion has touched
NoContent == "none"   \* its SHA

ASSUME SizesAssumption ==
    /\ MaxFiles \in Nat \ {0}
    /\ UINT32_MAX \in Nat \ {0}
    /\ MaxFiles <= UINT32_MAX
ASSUME NamesAssumption ==
    /\ NoId \notin Ids
    /\ NoContent \notin Contents \cup BadContents
    /\ Contents \cap BadContents = {}
ASSUME ModeAssumption ==
    /\ LongLived \in BOOLEAN
    /\ Faults \in BOOLEAN

VARIABLES
    formatted,  \* the file exists and holds a whole header and table
    dHeader,    \* on disk: struct imgfs_header
    dMeta,      \* on disk: the metadata table
    blobs,      \* on disk: what was appended after the table
    header,     \* in memory: imgfs_file->header
    metadata,   \* in memory: imgfs_file->metadata
    pend,       \* the fwrite still in the stdio buffer
    pc,         \* where the process is
    op,         \* the call in progress: its arguments and its slot
    ret,        \* the last call that returned, and its code
    served      \* the last answer of do_read: an identifier and an image

disk == <<formatted, dHeader, dMeta, blobs>>
memory == <<header, metadata>>
vars == <<disk, memory, pend, pc, op, ret, served>>

-----------------------------------------------------------------------------
(* Records.                                                                *)

Header == [nb_files : 0 .. UINT32_MAX, version : 0 .. UINT32_MAX]
Metadata == [img_id : Ids \cup {NoId},
             SHA : Contents \cup BadContents \cup {NoContent},
             offset : [Res -> Nat],
             is_valid : {EMPTY, NON_EMPTY}]
Blob == [content : Contents \cup BadContents \cup {NoContent}, res : Res]

NoOffset == [r \in Res |-> 0]
EmptyHeader == [nb_files |-> 0, version |-> 0]
EmptyMetadata == [img_id |-> NoId, SHA |-> NoContent,
                  offset |-> NoOffset, is_valid |-> EMPTY]
EmptyTable == [i \in Slots |-> EmptyMetadata]

\* Bytes that are not an image: part of a blob whose write failed, or a hole.
Torn == [content |-> NoContent, res |-> ORIG_RES]

\* uint32_t arithmetic of header.nb_files and header.version.
IncUnbounded(n) == n + 1                                          \* mutant
Inc(n) == IF n = UINT32_MAX THEN 0 ELSE n + 1
Dec(n) == IF n = 0 THEN UINT32_MAX ELSE n - 1

NoWrite == [kind |-> "none"]
FormatWrite == [kind |-> "format"]
HeaderWrite(h) == [kind |-> "header", header |-> h]
MetaWrite(i, m) == [kind |-> "meta", slot |-> i, meta |-> m]
BlobWrite(o, b) == [kind |-> "blob", at |-> o, blob |-> b]
Write == {NoWrite, FormatWrite}
         \cup [kind : {"header"}, header : Header]
         \cup [kind : {"meta"}, slot : Slots, meta : Metadata]
         \cup [kind : {"blob"}, at : Nat \ {0}, blob : Blob]

NoOp == [call |-> "none", id |-> NoId, content |-> NoContent,
         slot |-> 0, res |-> ORIG_RES]
Op == [call : {"none", "create", "open", "list", "insert", "delete", "read"},
       id : Ids \cup {NoId}, content : Contents \cup BadContents \cup {NoContent},
       slot : Slots, res : Res]
NoRet == [call |-> NoOp, code |-> "ERR_NONE"]

ValidSlots(m) == {i \in Slots : m[i].is_valid = NON_EMPTY}
Count(m) == Cardinality(ValidSlots(m))

Control == {"closed", "ready", "done", "overrun", "ins_blob", "ins_header",
            "ins_meta", "del_meta", "del_header", "rs_load", "rs_meta", "rd_data"}

-----------------------------------------------------------------------------
(* stdio.                                                                  *)

\* The blobs after b is written at offset o, which need not be their end any
\* more when another process has appended or truncated.
WriteAt(s, o, b) ==
    [k \in 1 .. (IF o > Len(s) THEN o ELSE Len(s)) |->
        IF k = o THEN b ELSE IF k <= Len(s) THEN s[k] ELSE Torn]

\* Where fseek to SEEK_END, then ftell, are.
EndBeforeLast(s) == IF s = <<>> THEN 1 ELSE Len(s)                \* mutant
End(s) == Len(s) + 1

\* The buffered write w reaches the file.
Flush(w) ==
    /\ formatted' = (formatted \/ w.kind = "format")
    /\ dHeader' = IF w.kind = "header" THEN w.header ELSE dHeader
    /\ dMeta' = IF w.kind = "meta" THEN [dMeta EXCEPT ![w.slot] = w.meta] ELSE dMeta
    /\ blobs' = IF w.kind = "blob" THEN WriteAt(blobs, w.at, w.blob) ELSE blobs

\* What may be left of a buffered write that fails or is cut short: all of it,
\* nothing, or the first part of a blob.
Remains(w) ==
    {w, NoWrite} \cup (IF w.kind = "blob" THEN {BlobWrite(w.at, Torn)} ELSE {})

\* fseek succeeds when it can write the buffer out.
Seek == Flush(pend)
SeekFails ==
    /\ Faults
    /\ pend' \in Remains(pend)
    /\ UNCHANGED disk

\* A command makes one call between do_open and do_close.
AfterCall == IF LongLived THEN "ready" ELSE "done"
Return(o, code) ==
    /\ ret' = [call |-> o, code |-> code]
    /\ op' = NoOp
    /\ pc' = AfterCall

\* fwrite of w, and the code that follows it when it succeeds.
FwriteOk(w, next) ==
    /\ pend' = w
    /\ pc' = next
    /\ UNCHANGED <<op, ret>>
FwriteLast(w) == pend' = w /\ Return(op, "ERR_NONE")
FwriteFails(w) ==
    /\ Faults
    /\ pend' \in Remains(w) \ {w}
    /\ Return(op, "ERR_IO")

-----------------------------------------------------------------------------
(* do_create, do_open, do_close and the end of the process.                *)

Init ==
    /\ formatted = FALSE
    /\ dHeader = EmptyHeader
    /\ dMeta = EmptyTable
    /\ blobs = <<>>
    /\ header = EmptyHeader
    /\ metadata = EmptyTable
    /\ pend = NoWrite
    /\ pc = "closed"
    /\ op = NoOp
    /\ ret = NoRet
    /\ served = [id |-> NoId, image |-> Torn]

\* After an error do_create leaves no open file behind: all that its caller can
\* do is do_close.
CreateFails(code) ==
    /\ Faults
    /\ pend' = NoWrite
    /\ ret' = [call |-> [NoOp EXCEPT !.call = "create"], code |-> code]
    /\ op' = NoOp
    /\ pc' = "done"

\* fopen "wb".
Truncate ==
    /\ formatted' = FALSE
    /\ dHeader' = EmptyHeader
    /\ dMeta' = EmptyTable
    /\ blobs' = <<>>

\* do_create: the two fwrites only fill the buffer; calloc, or fopen itself, may
\* fail before, and the old file is as it was.
DoCreate ==
    /\ pc = "closed"
    /\ "create" \in Calls
    /\ header' = EmptyHeader
    /\ metadata' = EmptyTable
    /\ \/ /\ Truncate
          /\ \/ pend' = FormatWrite /\ Return([NoOp EXCEPT !.call = "create"], "ERR_NONE")
             \/ CreateFails("ERR_IO")
       \/ /\ \E code \in {"ERR_OUT_OF_MEMORY", "ERR_IO"} : CreateFails(code)
          /\ UNCHANGED disk
    /\ UNCHANGED served

\* do_open and its error returns; the program that cannot open ends.
DoOpen ==
    /\ pc = "closed"
    /\ UNCHANGED <<disk, pend, op, served>>
    /\ \/ /\ formatted
          /\ dHeader.nb_files <= MaxFiles
          /\ header' = dHeader
          /\ metadata' = dMeta
          /\ pc' = "ready"
          /\ ret' = NoRet
       \/ \E code \in {"ERR_IO", "ERR_MAX_FILES", "ERR_OUT_OF_MEMORY"} :
             /\ code = "ERR_IO" => ~ formatted \/ Faults
             /\ code = "ERR_MAX_FILES" => formatted /\ dHeader.nb_files > MaxFiles
             /\ code = "ERR_OUT_OF_MEMORY" => formatted /\ Faults
             /\ ret' = [call |-> [NoOp EXCEPT !.call = "open"], code |-> code]
             /\ UNCHANGED <<memory, pc>>

\* What is left in memory after do_close or the end of the process is unused.
Forget ==
    /\ pend' = NoWrite
    /\ header' = EmptyHeader
    /\ metadata' = EmptyTable
    /\ op' = NoOp
    /\ pc' = "closed"

\* mutant: the memory is freed and the file is not closed
DoCloseUnflushed ==
    /\ pc \in {"ready", "done"}
    /\ Forget
    /\ UNCHANGED <<disk, ret, served>>
\* do_close: fclose writes the buffer out, and nobody looks at its result.
DoClose ==
    /\ pc \in {"ready", "done"}
    /\ \/ Flush(pend)
       \/ Faults /\ \E w \in Remains(pend) : Flush(w)
    /\ Forget
    /\ UNCHANGED <<ret, served>>

\* The process is killed, or ends after reading outside the table.
Crash ==
    /\ pc # "closed"
    /\ Faults \/ pc = "overrun"
    /\ \E w \in Remains(pend) : Flush(w)
    /\ Forget
    /\ ret' = NoRet
    /\ UNCHANGED served

-----------------------------------------------------------------------------
(* do_insert.                                                              *)

FullOffByOne(h) == h.nb_files > MaxFiles                          \* mutant
Full(h) == h.nb_files >= MaxFiles

\* The slot do_insert takes.
AnyEmpty(m, i) == m[i].is_valid # NON_EMPTY                       \* mutant
FirstEmpty(m, i) ==
    /\ m[i].is_valid # NON_EMPTY
    /\ \A j \in Slots : j < i => m[j].is_valid = NON_EMPTY

\* The table once do_insert has filled slot i, the offsets zeroed.
FilledKeepingOffsets(m, i, id, c, valid) ==                       \* mutant
    [m EXCEPT ![i] = [@ EXCEPT !.img_id = id, !.SHA = c, !.is_valid = valid]]
Filled(m, i, id, c, valid) ==
    [m EXCEPT ![i] = [img_id |-> id, SHA |-> c,
                      offset |-> NoOffset, is_valid |-> valid]]

\* do_name_and_content_dedup: the other valid slots, in ascending order, up to
\* the first with the same img_id.  Each with the same SHA gives its offsets.
Others(m, i) == ValidSlots(m) \ {i}
NoNamesakes(m, i) == {}                                           \* mutant
Namesakes(m, i) == {j \in Others(m, i) : m[j].img_id = m[i].img_id}
OtherContents(m, i) == {j \in Others(m, i) : m[j].SHA # m[i].SHA} \* mutant
Twins(m, i) ==
    {j \in Others(m, i) : /\ m[j].SHA = m[i].SHA
                          /\ \A k \in Namesakes(m, i) : j < k}
DedupByNameOnly(m, i) == m                                        \* mutant
Dedup(m, i) ==
    IF Twins(m, i) = {} THEN m
    ELSE [m EXCEPT ![i].offset = m[Max(Twins(m, i))].offset]

\* Bound of the model on the blobs appended.
Room == Len(blobs) + (IF pend.kind = "blob" THEN 1 ELSE 0) < MaxBlobs

\* From the call to the first stdio call.  The table in memory is changed
\* before the image is decoded and before the duplicates are looked for.
DoInsert(id, c) ==
    LET o == [NoOp EXCEPT !.call = "insert", !.id = id, !.content = c]
    IN
    /\ pc = "ready"
    /\ "insert" \in Calls
    /\ Room
    /\ UNCHANGED <<disk, header, pend, served>>
    /\ \/ /\ Full(header)
          /\ Return(o, "ERR_IMGFS_FULL")
          /\ UNCHANGED metadata
       \/ /\ ~ Full(header)
          /\ ValidSlots(metadata) = Slots     \* the scan leaves the table
          /\ pc' = "overrun"
          /\ UNCHANGED <<metadata, op, ret>>
       \/ \E i \in Slots :
             /\ ~ Full(header)
             /\ FirstEmpty(metadata, i)
             /\ c \in BadContents
             /\ metadata' = Filled(metadata, i, id, c, EMPTY)
             /\ Return(o, "ERR_IMGLIB")
       \/ \E i \in Slots :
             LET filled == Filled(metadata, i, id, c, NON_EMPTY)
             IN /\ ~ Full(header)
                /\ FirstEmpty(metadata, i)
                /\ c \in Contents
                /\ metadata' = Dedup(filled, i)
                /\ \/ /\ Namesakes(filled, i) # {}
                      /\ Return(o, "ERR_DUPLICATE_ID")
                   \/ /\ Namesakes(filled, i) = {}
                      /\ op' = [o EXCEPT !.slot = i]
                      /\ pc' = IF metadata'[i].offset[ORIG_RES] = 0
                               THEN "ins_blob" ELSE "ins_header"
                      /\ UNCHANGED ret

\* fseek to the end, remember the offset, fwrite the image.
InsertBlob ==
    LET w == BlobWrite(End(blobs'), [content |-> op.content, res |-> ORIG_RES])
    IN
    /\ pc = "ins_blob"
    /\ \/ SeekFails /\ Return(op, "ERR_IO") /\ UNCHANGED metadata
       \/ /\ Seek
          /\ metadata' = [metadata EXCEPT ![op.slot].offset[ORIG_RES] = w.at]
          /\ FwriteOk(w, "ins_header") \/ FwriteFails(w)
    /\ UNCHANGED <<header, served>>

\* nb_files and version are counted up before the fseek and the fwrite.
WriteHeader(h, next) ==
    /\ pc = "ins_header"
    /\ header' = h
    /\ \/ SeekFails /\ Return(op, "ERR_IO")
       \/ /\ Seek
          /\ FwriteOk(next, "ins_meta") \/ FwriteFails(HeaderWrite(h))
    /\ UNCHANGED <<metadata, served>>
Counted(h) == [nb_files |-> Inc(h.nb_files), version |-> Inc(h.version)]
InsertHeaderUnwritten == WriteHeader(Counted(header), NoWrite)      \* mutant
InsertHeaderSameVersion ==                                        \* mutant
    LET h == [Counted(header) EXCEPT !.version = header.version]
    IN WriteHeader(h, HeaderWrite(h))
InsertHeader == WriteHeader(Counted(header), HeaderWrite(Counted(header)))

InsertMeta ==
    LET w == MetaWrite(op.slot, metadata[op.slot])
    IN
    /\ pc = "ins_meta"
    /\ \/ SeekFails /\ Return(op, "ERR_IO")
       \/ Seek /\ (FwriteLast(w) \/ FwriteFails(w))
    /\ UNCHANGED <<memory, served>>

-----------------------------------------------------------------------------
(* do_delete.                                                              *)

Holds(i, id) == metadata[i].is_valid # EMPTY /\ metadata[i].img_id = id

DoDelete(id) ==
    LET o == [NoOp EXCEPT !.call = "delete", !.id = id]
    IN
    /\ pc = "ready"
    /\ "delete" \in Calls
    /\ UNCHANGED <<disk, memory, pend, served>>
    /\ \/ /\ header.nb_files = 0 \/ \A i \in Slots : ~ Holds(i, id)
          /\ Return(o, "ERR_IMAGE_NOT_FOUND")
       \/ /\ header.nb_files > 0
          /\ \E i \in Slots :
                /\ Holds(i, id)
                /\ \A j \in Slots : j < i => ~ Holds(j, id)
                /\ op' = [o EXCEPT !.slot = i]
          /\ pc' = "del_meta"
          /\ UNCHANGED ret

DeleteMeta ==
    LET w == MetaWrite(op.slot, [metadata[op.slot] EXCEPT !.is_valid = EMPTY])
    IN
    /\ pc = "del_meta"
    /\ \/ SeekFails /\ Return(op, "ERR_IO") /\ UNCHANGED metadata
       \/ /\ Seek
          /\ metadata' = [metadata EXCEPT ![op.slot].is_valid = EMPTY]
          /\ FwriteOk(w, "del_header") \/ FwriteFails(w)
    /\ UNCHANGED <<header, served>>

\* Here nb_files and version change after the fseek.
WriteLastHeader(h) ==
    /\ pc = "del_header"
    /\ \/ SeekFails /\ Return(op, "ERR_IO") /\ UNCHANGED header
       \/ /\ Seek
          /\ header' = h
          /\ FwriteLast(HeaderWrite(h)) \/ FwriteFails(HeaderWrite(h))
    /\ UNCHANGED <<metadata, served>>
DeleteHeaderKeepsCount == WriteLastHeader([header EXCEPT !.version = Inc(@)]) \* mutant
DeleteHeader ==
    WriteLastHeader([nb_files |-> Dec(header.nb_files), version |-> Inc(header.version)])

-----------------------------------------------------------------------------
(* do_read, with lazily_resize.                                            *)

\* do_read stops at the first slot with the identifier, valid or not.
FirstNamed(i, id) ==
    /\ metadata[i].img_id = id
    /\ \A j \in Slots : j < i => metadata[j].img_id # id

\* What size bytes at offset o are: {} when the file ends before, else what
\* lies there (offset 0 is the header of the file).
BytesAt(s, o) ==
    IF o = 0 THEN {Torn}
    ELSE IF o > Len(s) \/ (o = Len(s) /\ s[o] = Torn) THEN {}
    ELSE {s[o]}

DoRead(id, res) ==
    LET o == [NoOp EXCEPT !.call = "read", !.id = id]
        Found(i) == FirstNamed(i, id) /\ metadata[i].is_valid # EMPTY
    IN
    /\ pc = "ready"
    /\ "read" \in Calls
    /\ UNCHANGED <<disk, memory, pend>>
    /\ \/ /\ header.nb_files = 0 \/ \A i \in Slots : ~ Found(i)
          /\ Return(o, "ERR_IMAGE_NOT_FOUND")
          /\ served' = [id |-> id, image |-> Torn]
       \/ /\ header.nb_files > 0
          /\ \E i \in Slots :
                /\ Found(i)
                /\ \/ /\ res \notin Res
                      /\ Return(o, "ERR_RESOLUTIONS")
                   \/ /\ res \in Res
                      /\ op' = [o EXCEPT !.slot = i, !.res = res]
                      /\ \/ /\ res # ORIG_RES /\ metadata[i].offset[res] = 0
                            /\ Room
                            /\ pc' = "rs_load"
                         \/ /\ res = ORIG_RES \/ metadata[i].offset[res] # 0
                            /\ pc' = "rd_data"
                      /\ UNCHANGED ret
          /\ UNCHANGED served

\* lazily_resize loads the original, lets libvips decode and shrink it, and
\* goes to the end of the file (the same buffer is flushed by either fseek).
\* The offset is in memory before the fwrite it announces.
ResizeBlob ==
    /\ pc = "rs_load"
    /\ UNCHANGED <<header, served>>
    /\ \/ SeekFails /\ Return(op, "ERR_IO") /\ UNCHANGED metadata
       \/ /\ Seek
          /\ LET loaded == BytesAt(blobs', metadata[op.slot].offset[ORIG_RES])
             IN \/ /\ pend' = NoWrite
                   /\ \E code \in {"ERR_IO", "ERR_IMGLIB", "ERR_OUT_OF_MEMORY"} :
                         /\ code = "ERR_IO" => loaded = {} \/ Faults
                         /\ code = "ERR_IMGLIB" => loaded = {Torn} \/ Faults
                         /\ code = "ERR_OUT_OF_MEMORY" => Faults
                         /\ Return(op, code)
                   /\ UNCHANGED metadata
                \/ \E b \in loaded \ {Torn} :
                      LET w == BlobWrite(End(blobs'), [b EXCEPT !.res = op.res])
                      IN /\ metadata' = [metadata EXCEPT ![op.slot].offset[op.res] = w.at]
                         /\ FwriteOk(w, "rs_meta") \/ FwriteFails(w)

ResizeMeta ==
    LET w == MetaWrite(op.slot, metadata[op.slot])
    IN
    /\ pc = "rs_meta"
    /\ \/ SeekFails /\ Return(op, "ERR_IO")
       \/ Seek /\ (FwriteOk(w, "rd_data") \/ FwriteFails(w))
    /\ UNCHANGED <<memory, served>>

\* fseek, calloc and fread of the image.
ReadData ==
    /\ pc = "rd_data"
    /\ UNCHANGED memory
    /\ \/ SeekFails /\ Return(op, "ERR_IO") /\ UNCHANGED served
       \/ /\ Seek
          /\ pend' = NoWrite
          /\ LET loaded == BytesAt(blobs', metadata[op.slot].offset[op.res])
             IN \/ \E code \in {"ERR_IO", "ERR_OUT_OF_MEMORY"} :
                      /\ code = "ERR_IO" => loaded = {} \/ Faults
                      /\ code = "ERR_OUT_OF_MEMORY" => Faults
                      /\ Return(op, code)
                      /\ UNCHANGED served
                \/ \E b \in loaded :
                      /\ served' = [id |-> op.id, image |-> b]
                      /\ Return(op, "ERR_NONE")

-----------------------------------------------------------------------------
(* do_list shows the first nb_files valid slots.                           *)

ListedFirstSlots(h, m) == {i \in ValidSlots(m) : i < h.nb_files}   \* mutant
Listed(h, m) ==
    {i \in ValidSlots(m) : Cardinality({j \in ValidSlots(m) : j < i}) < h.nb_files}

DoList ==
    /\ pc = "ready"
    /\ "list" \in Calls
    /\ Return([NoOp EXCEPT !.call = "list"], "ERR_NONE")
    /\ UNCHANGED <<disk, memory, pend, served>>

-----------------------------------------------------------------------------
Next ==
    \/ DoCreate \/ DoOpen \/ DoClose \/ Crash
    \/ \E id \in Ids, c \in Contents \cup BadContents : DoInsert(id, c)
    \/ InsertBlob \/ InsertHeader \/ InsertMeta
    \/ \E id \in Ids : DoDelete(id)
    \/ DeleteMeta \/ DeleteHeader
    \/ \E id \in Ids, res \in Requested : DoRead(id, res)
    \/ ResizeBlob \/ ResizeMeta \/ ReadData
    \/ DoList

Spec == Init /\ [][Next]_vars

-----------------------------------------------------------------------------
(* Properties.                                                             *)

\* The type invariant: what the variables of the library and of the file hold.
TypeOK ==
    /\ formatted \in BOOLEAN
    /\ dHeader \in Header /\ header \in Header
    /\ dMeta \in [Slots -> Metadata] /\ metadata \in [Slots -> Metadata]
    /\ blobs \in Seq(Blob)
    /\ pend \in Write
    /\ pc \in Control
    /\ op \in Op
    /\ ret.call \in Op
    /\ served \in [id : Ids \cup {NoId}, image : Blob]

\* The count in the file never falls below the valid slots it holds, nor grows
\* beyond max_files, wherever do_insert and do_delete are cut short: do_insert
\* writes the header before the slot, do_delete after it (imgfs_insert.c:62-78,
\* imgfs_delete.c:28-43).
CountCoversValid ==
    formatted => /\ Count(dMeta) <= dHeader.nb_files
                 /\ dHeader.nb_files <= MaxFiles

\* do_insert's unbounded scan for a free slot (imgfs_insert.c:18) ends inside
\* the table.
ScanInBounds == pc # "overrun"

\* do_read looks at is_valid only of the first slot whose name matches
\* (imgfs_read.c:17-23), and so do_list, do_delete and do_insert: for each valid
\* slot of the file that first slot is the slot itself.
FirstNamedIsValid ==
    formatted => \A i \in ValidSlots(dMeta), j \in Slots :
                    j < i => dMeta[j].img_id # dMeta[i].img_id

\* Deduplication by content is complete: two valid slots of the file with the
\* same SHA share one copy of the original (image_dedup.c:28-36).
SharedOriginals ==
    formatted => \A i, j \in ValidSlots(dMeta) :
                    dMeta[i].SHA = dMeta[j].SHA =>
                        dMeta[i].offset[ORIG_RES] = dMeta[j].offset[ORIG_RES]

\* Every offset in a valid slot of the file is that of a whole blob, which holds
\* the image of that slot in that resolution: no slot is written before its
\* blobs, none survives a blob that was not written.
ExtentsSound ==
    formatted => \A i \in ValidSlots(dMeta), r \in Res :
        /\ dMeta[i].offset[ORIG_RES] # 0
        /\ dMeta[i].offset[r] # 0 =>
              /\ dMeta[i].offset[r] <= Len(blobs)
              /\ blobs[dMeta[i].offset[r]] = [content |-> dMeta[i].SHA, res |-> r]

\* What do_read hands out as a success is the image of the slot it found, whole
\* and in the resolution asked for (imgfs.h:165, "Reads the content of an image").
ServedIsStored ==
    pc \in {"ready", "done"} /\ ret.call.call = "read" /\ ret.code = "ERR_NONE" =>
        served.image = [content |-> metadata[ret.call.slot].SHA, res |-> ret.call.res]

\* do_list stops after nb_files images (imgfs_list.c:22-29): right after do_open
\* that hides none.
ListShowsAll == pc = "ready" => Listed(header, metadata) = ValidSlots(metadata)

\* When nothing fails, the count in a closed file is exact.
CountExact ==
    formatted /\ pc = "closed" => dHeader.nb_files = Count(dMeta)

\* An image keeps its bytes: while a slot of the file stays valid under one name
\* no offset of it moves once set, and no blob is overwritten
\* (imgfs.h:142-147, "always appended to the end").
ExtentsStable ==
    [][formatted /\ formatted' =>
          /\ \A k \in 1 .. Len(blobs) : k <= Len(blobs') /\ blobs'[k] = blobs[k]
          /\ \A i \in ValidSlots(dMeta) \cap ValidSlots(dMeta)' :
                dMeta[i].img_id = dMeta'[i].img_id =>
                    \A r \in Res : dMeta[i].offset[r] \in {0, dMeta'[i].offset[r]}
      ]_vars

\* Every header written is one generation later than the one it replaces, and
\* counts one image more or less.
VersionCounts ==
    [][formatted /\ formatted' /\ dHeader' # dHeader =>
          /\ dHeader'.version = Inc(dHeader.version)
          /\ dHeader'.nb_files \in {dHeader.nb_files - 1, dHeader.nb_files + 1}
      ]_vars
-----------------------------------------------------------------------------
(* The promise of the library, on the file.                                *)

\* The image stored under a name: what its original's extent holds.
StoredImage(id) ==
    IF formatted /\ \E i \in ValidSlots(dMeta) : dMeta[i].img_id = id
    THEN LET i == CHOOSE s \in ValidSlots(dMeta) : dMeta[s].img_id = id
         IN blobs[dMeta[i].offset[ORIG_RES]].content
    ELSE NoContent

Catalog == INSTANCE ImageCatalog WITH
    Names <- Ids,
    Images <- Contents,
    Capacity <- MaxFiles,
    Nothing <- NoContent,
    stored <- [id \in Ids |-> StoredImage(id)],
    answer <- IF served.id = NoId THEN <<NoContent, NoContent>>
              ELSE <<served.id, served.image.content>>

\* The file, with the answers of do_read, is an image catalogue: an insertion
\* takes effect when its slot reaches the file, a deletion likewise, and a
\* command killed at any point leaves the images before it or after it.
ImplementsCatalog == Catalog!Spec
-----------------------------------------------------------------------------
(* The inductive invariant of the one-call-per-file mode: what each control *)
(* point knows of the file, the table and the buffer.                       *)

Covers(h, m) == Count(m) <= h.nb_files /\ h.nb_files <= MaxFiles

\* A file with header h and table m still covers its slots once w is written.
SafeWrite(w, h, m) ==
    /\ w.kind = "header" => Covers(w.header, m)
    /\ w.kind = "meta" => Covers(h, [m EXCEPT ![w.slot] = w.meta])

NothingPending ==
    /\ pc \in {"closed", "ready", "ins_blob", "del_meta", "rs_load"} => pend = NoWrite
    /\ pc \in {"ins_header", "rs_meta"} => pend.kind \in {"none", "blob"}
Loaded == pc \in {"ready", "del_meta"} => header = dHeader /\ metadata = dMeta
Inserting ==
    /\ pc \in {"ins_blob", "ins_header"} =>
          header = dHeader /\ dHeader.nb_files < MaxFiles
    /\ pc = "ins_meta" => /\ pend = HeaderWrite(header)
                          /\ header.nb_files = dHeader.nb_files + 1
                          /\ dHeader.nb_files < MaxFiles
Deleting ==
    /\ pc \in {"del_meta", "del_header"} =>
          header = dHeader /\ dMeta[op.slot].is_valid = NON_EMPTY
    /\ pc = "del_header" => /\ pend.kind = "meta"
                            /\ pend.slot = op.slot
                            /\ pend.meta.is_valid = EMPTY
Resizing ==
    pc \in {"rs_load", "rs_meta"} =>
        metadata[op.slot].is_valid = dMeta[op.slot].is_valid

CommandInv ==
    /\ Covers(dHeader, dMeta)
    /\ SafeWrite(pend, dHeader, dMeta)
    /\ ScanInBounds
    /\ NothingPending
    /\ Loaded
    /\ Inserting
    /\ Deleting
    /\ Resizing

-----------------------------------------------------------------------------
(* The part of the inductive invariant about names, contents and blobs.    *)

\* The offsets set in v are those of the images of its content among blobs s.
Backed(v, s) ==
    \A r \in Res : v.offset[r] # 0 =>
        v.offset[r] <= Len(s) /\ s[v.offset[r]] = [content |-> v.SHA, res |-> r]

\* A table m whose slots can be found, read and shared, over the blobs s.
Sound(m, s) ==
    \A i \in ValidSlots(m) :
        /\ m[i].img_id \in Ids /\ m[i].SHA \in Contents
        /\ m[i].offset[ORIG_RES] # 0
        /\ Backed(m[i], s)
        /\ \A j \in Slots : j < i => m[j].img_id # m[i].img_id
        /\ \A j \in ValidSlots(m) :
              m[j].SHA = m[i].SHA => m[j].offset[ORIG_RES] = m[i].offset[ORIG_RES]

\* What a slot i of the table m may become: v is a new image in the first free
\* slot, under a name of its own ...
Names(i, v, m) ==
    /\ FirstEmpty(m, i)
    /\ v.is_valid = NON_EMPTY /\ v.img_id \in Ids /\ v.SHA \in Contents
    /\ \A j \in ValidSlots(m) : m[j].img_id # v.img_id
Inserts(i, v, m, s) ==
    /\ Names(i, v, m)
    /\ v.offset[ORIG_RES] # 0 /\ Backed(v, s)
    /\ \A j \in ValidSlots(m) :
          m[j].SHA = v.SHA => m[j].offset[ORIG_RES] = v.offset[ORIG_RES]
\* ... or the image there with its validity gone ...
Deletes(i, v, m) ==
    i \in ValidSlots(m) /\ v = [m[i] EXCEPT !.is_valid = EMPTY]
\* ... or with one more resolution.
Extends(i, v, m, s) ==
    /\ i \in ValidSlots(m) /\ Backed(v, s)
    /\ \E r \in Res \ {ORIG_RES} :
          m[i].offset[r] = 0 /\ v = [m[i] EXCEPT !.offset = [@ EXCEPT ![r] = v.offset[r]]]

\* The blobs once the buffer is written out.
Appended(w, s) == IF w.kind = "blob" THEN Append(s, w.blob) ELSE s

\* What may be on its way to a file with header h, table m and blobs s.
Follows(w, h) ==
    /\ w.version = Inc(h.version)
    /\ w.nb_files \in {h.nb_files - 1, h.nb_files + 1}
Due(w, h, m, s) ==
    /\ w.kind = "header" => Follows(w.header, h)
    /\ w.kind = "blob" => w.at = End(s)
    /\ w.kind = "meta" => \/ Inserts(w.slot, w.meta, m, s)
                          \/ Deletes(w.slot, w.meta, m)
                          \/ Extends(w.slot, w.meta, m, s)

\* A file that holds no whole header and table holds no image, and only what
\* do_create writes can be on its way there.
Formatting ==
    /\ ~ formatted => ValidSlots(dMeta) = {} /\ pend.kind \in {"none", "format"}
    /\ pc \notin {"closed", "done"} => formatted

Filling ==
    LET v == metadata[op.slot]
    IN /\ pc = "ins_blob" =>
             /\ Names(op.slot, v, dMeta)
             /\ v.offset = NoOffset /\ v.SHA = op.content
             /\ \A j \in ValidSlots(dMeta) : dMeta[j].SHA # v.SHA
       /\ pc \in {"ins_header", "ins_meta"} =>
             Inserts(op.slot, v, dMeta, Appended(pend, blobs))

Reading ==
    LET v == metadata[op.slot]
    IN /\ pc \in {"rs_load", "rs_meta", "rd_data"} =>
             op.slot \in ValidSlots(dMeta) /\ dMeta[op.slot].img_id = op.id
       /\ pc = "rs_load" => v = dMeta[op.slot] /\ op.res # ORIG_RES /\ v.offset[op.res] = 0
       /\ pc = "rs_meta" =>
             Extends(op.slot, v, dMeta, Appended(pend, blobs)) /\ v.offset[op.res] # 0
       /\ pc = "rd_data" =>
             /\ v.offset[op.res] # 0 /\ Backed(v, blobs) /\ v.SHA = dMeta[op.slot].SHA
             /\ pend.kind \in {"none", "meta"}
             /\ pend.kind = "meta" => Extends(pend.slot, pend.meta, dMeta, blobs)

Calling ==
    /\ pc = "ready" => ret = NoRet
    /\ pc \in {"ins_blob", "ins_header", "ins_meta"} => op.call = "insert"
    /\ pc \in {"del_meta", "del_header"} => op.call = "delete"

ImagesInv ==
    /\ Sound(dMeta, blobs)
    /\ Due(pend, dHeader, dMeta, blobs)
    /\ Formatting
    /\ Filling
    /\ Reading
    /\ Calling
    /\ ServedIsStored

LibraryInv == CommandInv /\ ImagesInv

-----------------------------------------------------------------------------
(* When nothing fails.                                                      *)

\* The header and the table once the buffer is written out.
HeaderAfter(w, h) == IF w.kind = "header" THEN w.header ELSE h
TableAfter(w, m) == IF w.kind = "meta" THEN [m EXCEPT ![w.slot] = w.meta] ELSE m

\* One call at a time: the count is exact but where a call has written one of
\* header and slot, and exact again with the buffer.
Settled(w, h, m) == HeaderAfter(w, h).nb_files = Count(TableAfter(w, m))
CountsInv ==
    /\ pc \notin {"ins_meta", "del_header"} => Settled(pend, dHeader, dMeta)
    /\ pc # "done" => dHeader.nb_files = Count(dMeta)

\* Any number of calls on a file that stays open: an image of the file is whole;
\* a valid slot of the table in memory is one of the file, with one resolution
\* more at most, or was left there by a refused insertion, with the offsets of
\* its twin or none.
Whole(v, s) == v.SHA \in Contents /\ v.offset[ORIG_RES] # 0 /\ Backed(v, s)
WholeOrNone(v, s) ==
    /\ v.SHA \in Contents /\ Backed(v, s)
    /\ v.offset[ORIG_RES] = 0 => v.offset = NoOffset
Keeps(v, u) ==
    /\ u.img_id = v.img_id /\ u.SHA = v.SHA
    /\ \A r \in Res : v.offset[r] \in {0, u.offset[r]}

Written(w, h, m, s) ==
    /\ w.kind = "header" => Follows(w.header, h)
    /\ w.kind = "blob" => w.at = End(s)
    /\ w.kind = "meta" /\ w.meta.is_valid = NON_EMPTY =>
          /\ Whole(w.meta, s)
          /\ m[w.slot].is_valid = NON_EMPTY => Keeps(m[w.slot], w.meta)
Agree(hm, m, h, d, s) ==
    /\ hm = h
    /\ \A i \in ValidSlots(m) : WholeOrNone(m[i], s)
    /\ \A i \in ValidSlots(d) : i \in ValidSlots(m) /\ Keeps(d[i], m[i])
Midway ==
    LET v == metadata[op.slot]
    IN /\ pc \in {"ins_blob", "ins_header", "ins_meta", "rs_load", "rs_meta"} =>
             op.slot \in ValidSlots(metadata)
       /\ pc = "ins_blob" => v.SHA = op.content /\ v.offset = NoOffset
       /\ pc \in {"ins_header", "ins_meta", "rs_meta"} => v.offset[ORIG_RES] # 0
       /\ pc = "rs_load" => op.res # ORIG_RES /\ v.offset[op.res] = 0
       /\ pc \in {"ins_blob", "ins_header"} => header.nb_files < MaxFiles
       /\ pc \in {"del_meta", "del_header"} => header.nb_files > 0
OpenInv ==
    /\ \A i \in ValidSlots(dMeta) : Whole(dMeta[i], blobs)
    /\ Written(pend, dHeader, dMeta, blobs)
    /\ pc = "closed" => pend = NoWrite
    /\ pc # "closed" => Agree(header, metadata, HeaderAfter(pend, dHeader),
                               TableAfter(pend, dMeta), Appended(pend, blobs))
    /\ Midway
=============================================================================
