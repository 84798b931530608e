------------------------- MODULE ImgStoreCleanProofs -------------------------
(***************************************************************************)
(* Theorems about what the library does when nothing fails: no error of    *)
(* stdio, malloc or the process.  header.nb_files is exact with one call   *)
(* per opened file; the images of the file stay whole, and the table in    *)
(* memory keeps them, with any number of calls on a file that stays open.  *)
(***************************************************************************)
EXTENDS ImgStoreImagesProofs

-----------------------------------------------------------------------------
(* header.nb_files with one call per opened file.                          *)

\* What the three forms of a slot do to the number of valid slots.
LEMMA InsertCount ==
    ASSUME NEW m \in [Slots -> Metadata], NEW s, Sound(m, s),
           NEW i \in Slots, NEW v \in Metadata, Inserts(i, v, m, s)
    PROVE  Count([m EXCEPT ![i] = v]) = Count(m) + 1
<1>1. i \notin ValidSlots(m) /\ ValidSlots([m EXCEPT ![i] = v]) = ValidSlots(m) \cup {i}
  BY InsertSound
<1>2. IsFiniteSet(ValidSlots(m))
  BY ValidSlotsFinite
<1> QED
  BY <1>1, <1>2, FS_AddElement DEF Count

LEMMA ExtendStaysValid ==
    ASSUME NEW m \in [Slots -> Metadata], NEW s, NEW i \in Slots, NEW v, Extends(i, v, m, s)
    PROVE  v.is_valid = m[i].is_valid
BY ExtendKeeps DEF Extends, ValidSlots

\* Once a settled buffer is in the file the count is exact.
LEMMA FlushSettles ==
    ASSUME NEW w, Settled(w, dHeader, dMeta), Flush(w)
    PROVE  dHeader'.nb_files = Count(dMeta')
BY DEF Settled, HeaderAfter, TableAfter, Flush

\* A buffer that holds neither header nor slot settles nothing.
LEMMA SettledWithout ==
    ASSUME NEW w, NEW h, NEW m, w.kind \notin {"header", "meta"}
    PROVE  Settled(w, h, m) <=> h.nb_files = Count(m)
BY DEF Settled, HeaderAfter, TableAfter

\* The steps that leave the file and the buffer as they are, or start afresh.
LEMMA SessionStepsCounts ==
    ASSUME TypeOK, LibraryInv, CountsInv, ~ LongLived, ~ Faults,
           \/ DoCreate \/ DoOpen \/ DoClose \/ Crash \/ DoList
           \/ \E id \in Ids : DoDelete(id)
           \/ \E id \in Ids, c \in Contents \cup BadContents : DoInsert(id, c)
           \/ \E id \in Ids, res \in Requested : DoRead(id, res)
    PROVE  CountsInv'
<1>1. CASE DoCreate
  <2>1. dHeader' = EmptyHeader /\ dMeta' = EmptyTable /\ pend'.kind \in {"none", "format"}
        /\ pc' = "done"
    BY <1>1 DEF DoCreate, CreateFails, Truncate, Return, AfterCall, FormatWrite, NoWrite
  <2>2. dHeader'.nb_files = Count(dMeta')
    <3>1. ValidSlots(EmptyTable) = {}
      BY DEF ValidSlots, EmptyTable, EmptyMetadata, EMPTY, NON_EMPTY
    <3> QED
      BY <2>1, <3>1, FS_EmptySet DEF Count, EmptyHeader
  <2> QED
    BY <2>1, <2>2, SettledWithout DEF CountsInv
<1>2. CASE DoClose
  <2>1. /\ Flush(pend) /\ pc \in {"ready", "done"}
        /\ pc' = "closed" /\ pend'.kind = "none"
    BY <1>2 DEF DoClose, Forget, NoWrite
  <2>2. dHeader'.nb_files = Count(dMeta')
    BY <2>1, FlushSettles DEF CountsInv
  <2> QED
    BY <2>1, <2>2, SettledWithout DEF CountsInv
<1>3. CASE Crash
  BY <1>3 DEF Crash, LibraryInv, CommandInv, ScanInBounds
<1>4. CASE \/ DoOpen \/ DoList \/ (\E id \in Ids : DoDelete(id))
           \/ (\E id \in Ids, c \in Contents \cup BadContents : DoInsert(id, c))
           \/ (\E id \in Ids, res \in Requested : DoRead(id, res))
  <2> DEFINE Steady == /\ UNCHANGED <<dHeader, dMeta, pend>> /\ pc \in {"closed", "ready"}
                       /\ pc' \notin {"ins_meta", "del_header"}
  <2>1. Steady
    <3>1. CASE DoOpen \/ DoList
      BY <3>1 DEF DoOpen, DoList, disk, Return, AfterCall
    <3>2. ASSUME NEW id \in Ids, DoDelete(id)
          PROVE  Steady
      BY <3>2 DEF DoDelete, disk, Return, AfterCall
    <3>3. ASSUME NEW id \in Ids, NEW c \in Contents \cup BadContents, DoInsert(id, c)
          PROVE  Steady
      BY <3>3 DEF DoInsert, disk, Return, AfterCall
    <3>4. ASSUME NEW id \in Ids, NEW res \in Requested, DoRead(id, res)
          PROVE  Steady
      BY <3>4 DEF DoRead, disk, Return, AfterCall
    <3> QED
      BY <1>4, <3>1, <3>2, <3>3, <3>4
  <2> QED
    BY <2>1 DEF CountsInv
<1> QED
  BY <1>1, <1>2, <1>3, <1>4

\* do_insert: the count goes up before the slot is filled.
LEMMA InsertStepsCounts ==
    ASSUME TypeOK, LibraryInv, CountsInv, ~ LongLived, ~ Faults,
           InsertBlob \/ InsertHeader \/ InsertMeta
    PROVE  CountsInv'
<1>0. CommandInv /\ ImagesInv
  BY DEF LibraryInv
<1>1. CASE InsertBlob
  <2>1. pc = "ins_blob" /\ pend = NoWrite /\ Seek /\ pc' = "ins_header" /\ pend'.kind = "blob"
    BY <1>0, <1>1 DEF InsertBlob, CommandInv, NothingPending, SeekFails, FwriteFails,
       FwriteOk, BlobWrite
  <2>2. UNCHANGED <<dHeader, dMeta>>
    BY <2>1 DEF Seek, Flush, NoWrite
  <2> QED
    BY <2>1, <2>2, SettledWithout DEF CountsInv
<1>2. CASE InsertHeader
  <2>1. pc = "ins_header" /\ pend.kind \in {"none", "blob"} /\ Seek /\ pc' = "ins_meta"
    BY <1>0, <1>2 DEF InsertHeader, WriteHeader, CommandInv, NothingPending, SeekFails,
       FwriteFails, FwriteOk
  <2>2. UNCHANGED <<dHeader, dMeta>>
    BY <2>1 DEF Seek, Flush
  <2> QED
    BY <2>1, <2>2 DEF CountsInv
<1>3. CASE InsertMeta
  <2> DEFINE v == metadata[op.slot]
             w == MetaWrite(op.slot, v)
  <2>1. /\ pc = "ins_meta" /\ pend = HeaderWrite(header) /\ Seek
        /\ header.nb_files = dHeader.nb_files + 1
        /\ pc' = "done" /\ pend' = w
    BY <1>0, <1>3 DEF InsertMeta, CommandInv, Inserting, SeekFails, FwriteFails, FwriteLast,
       Return, AfterCall
  <2>2. dHeader' = header /\ dMeta' = dMeta
    BY <2>1 DEF Seek, Flush, HeaderWrite
  <2>3. /\ dMeta \in [Slots -> Metadata] /\ op.slot \in Slots /\ v \in Metadata
        /\ Sound(dMeta, blobs)
    BY <1>0 DEF TypeOK, Op, ImagesInv
  <2>4. Inserts(op.slot, v, dMeta, blobs)
    BY <1>0, <2>1 DEF ImagesInv, Filling, Appended, HeaderWrite
  <2>5. Count([dMeta EXCEPT ![op.slot] = v]) = Count(dMeta) + 1
    BY <2>3, <2>4, InsertCount
  <2>6. w.kind = "meta" /\ w.slot = op.slot /\ w.meta = v
    BY DEF MetaWrite
  <2> HIDE DEF v, w
  <2>7. Settled(pend', dHeader', dMeta')
    BY <2>1, <2>2, <2>5, <2>6 DEF Settled, HeaderAfter, TableAfter, CountsInv
  <2> QED
    BY <2>1, <2>7 DEF CountsInv
<1> QED
  BY <1>1, <1>2, <1>3

\* do_delete: the slot is cleared before the count goes down.
LEMMA DeleteStepsCounts ==
    ASSUME TypeOK, LibraryInv, CountsInv, ~ LongLived, ~ Faults,
           DeleteMeta \/ DeleteHeader
    PROVE  CountsInv'
<1>0. CommandInv /\ ImagesInv
  BY DEF LibraryInv
<1>1. CASE DeleteMeta
  <2>1. pc = "del_meta" /\ pend = NoWrite /\ Seek /\ pc' = "del_header"
    BY <1>0, <1>1 DEF DeleteMeta, CommandInv, NothingPending, SeekFails, FwriteFails, FwriteOk
  <2>2. UNCHANGED <<dHeader, dMeta>>
    BY <2>1 DEF Seek, Flush, NoWrite
  <2> QED
    BY <2>1, <2>2 DEF CountsInv
<1>2. CASE DeleteHeader
  <2> DEFINE h == [nb_files |-> Dec(header.nb_files), version |-> Inc(header.version)]
             w == HeaderWrite(h)
  <2>1. /\ pc = "del_header" /\ header = dHeader /\ Seek
        /\ dMeta[op.slot].is_valid = NON_EMPTY
        /\ pend.kind = "meta" /\ pend.slot = op.slot /\ pend.meta.is_valid = EMPTY
        /\ pc' = "done" /\ pend' = w
    BY <1>0, <1>2 DEF DeleteHeader, WriteLastHeader, CommandInv, Deleting, SeekFails,
       FwriteFails, FwriteLast, Return, AfterCall
  <2>2. dHeader' = dHeader /\ dMeta' = [dMeta EXCEPT ![op.slot] = pend.meta]
    BY <2>1 DEF Seek, Flush
  <2>3. /\ dMeta \in [Slots -> Metadata] /\ op.slot \in Slots /\ pend.meta \in Metadata
        /\ dHeader.nb_files \in Nat
    BY <2>1 DEF TypeOK, Op, Write, NoWrite, FormatWrite, Header
  <2>4. Count([dMeta EXCEPT ![op.slot] = pend.meta]) = Count(dMeta) - 1
    BY <2>1, <2>3, OneSlotCount
  <2>5. Count(dMeta) >= 1 /\ Count(dMeta) \in Nat
    <3>1. op.slot \in ValidSlots(dMeta)
      BY <2>1, <2>3 DEF ValidSlots
    <3> QED
      BY <3>1, ValidCounted, ValidSlotsFinite
  <2>6. dHeader.nb_files = Count(dMeta)
    BY <2>1 DEF CountsInv
  <2>7. h.nb_files = Count(dMeta')
    BY <2>1, <2>2, <2>3, <2>4, <2>5, <2>6 DEF Dec
  <2>8. w.kind = "header" /\ w.header = h
    BY DEF HeaderWrite
  <2> HIDE DEF w, h
  <2>9. Settled(pend', dHeader', dMeta')
    BY <2>1, <2>7, <2>8 DEF Settled, HeaderAfter, TableAfter
  <2> QED
    BY <2>1, <2>9 DEF CountsInv
<1> QED
  BY <1>1, <1>2

\* do_read: a resolution more is no image more.
LEMMA ReadStepsCounts ==
    ASSUME TypeOK, LibraryInv, CountsInv, ~ LongLived, ~ Faults,
           ResizeBlob \/ ResizeMeta \/ ReadData
    PROVE  CountsInv'
<1>0. CommandInv /\ ImagesInv
  BY DEF LibraryInv
<1>1. CASE ResizeBlob
  <2>1. pc = "rs_load" /\ pend = NoWrite /\ Seek
    BY <1>0, <1>1 DEF ResizeBlob, CommandInv, NothingPending, SeekFails
  <2>2. \/ pc' = "done" /\ pend' = NoWrite
        \/ \E at, b : pend' = BlobWrite(at, b) /\ pc' = "rs_meta"
    BY <1>1 DEF ResizeBlob, SeekFails, FwriteFails, FwriteOk, Return, AfterCall
  <2>3. pc' \in {"done", "rs_meta"} /\ pend'.kind \in {"none", "blob"}
    BY <2>2 DEF BlobWrite, NoWrite
  <2>4. UNCHANGED <<dHeader, dMeta>>
    BY <2>1 DEF Seek, Flush, NoWrite
  <2> QED
    BY <2>1, <2>3, <2>4, SettledWithout DEF CountsInv
<1>2. CASE ResizeMeta
  <2> DEFINE v == metadata[op.slot]
             w == MetaWrite(op.slot, v)
  <2>1. /\ pc = "rs_meta" /\ pend.kind \in {"none", "blob"} /\ Seek
        /\ pc' = "rd_data" /\ pend' = w
    BY <1>0, <1>2 DEF ResizeMeta, CommandInv, NothingPending, SeekFails, FwriteFails, FwriteOk
  <2>2. UNCHANGED <<dHeader, dMeta>>
    BY <2>1 DEF Seek, Flush
  <2>3. dMeta \in [Slots -> Metadata] /\ op.slot \in Slots /\ v \in Metadata
    BY DEF TypeOK, Op
  <2>4. Extends(op.slot, v, dMeta, Appended(pend, blobs))
    BY <1>0, <2>1 DEF ImagesInv, Reading
  <2>5. Count([dMeta EXCEPT ![op.slot] = v]) = Count(dMeta)
    <3>1. PICK i, all : i \in Slots /\ i = op.slot /\ Extends(i, v, dMeta, all)
      BY <2>3, <2>4
    <3> HIDE DEF v
    <3>2. v.is_valid = dMeta[i].is_valid
      BY <2>3, <3>1, ExtendStaysValid
    <3>3. Count([dMeta EXCEPT ![i] = v]) = Count(dMeta)
      BY <2>3, <3>2, OneSlotCount
    <3> QED
      BY <3>1, <3>3
  <2>6. w.kind = "meta" /\ w.slot = op.slot /\ w.meta = v
    BY DEF MetaWrite
  <2> HIDE DEF v, w
  <2>7. Settled(pend', dHeader', dMeta')
    BY <2>1, <2>2, <2>5, <2>6 DEF Settled, HeaderAfter, TableAfter, CountsInv
  <2> QED
    BY <2>1, <2>2, <2>7 DEF CountsInv
<1>3. CASE ReadData
  <2>1. pc = "rd_data" /\ Seek /\ pc' = "done" /\ pend'.kind = "none"
    BY <1>3 DEF ReadData, SeekFails, NoWrite, Return, AfterCall
  <2>2. dHeader'.nb_files = Count(dMeta')
    BY <2>1, FlushSettles DEF CountsInv, Seek
  <2> QED
    BY <2>1, <2>2, SettledWithout DEF CountsInv
<1> QED
  BY <1>1, <1>2, <1>3

\* When nothing fails the count is exact, at every point between two calls and,
\* with what is in the buffer, after each.
THEOREM CountsKept ==
    ASSUME ~ LongLived, ~ Faults
    PROVE  Spec => []CountsInv
<1>1. Init => CountsInv
  <2>1. ValidSlots(EmptyTable) = {}
    BY DEF ValidSlots, EmptyTable, EmptyMetadata, EMPTY, NON_EMPTY
  <2>2. EmptyHeader.nb_files = Count(EmptyTable) /\ NoWrite.kind = "none"
    BY <2>1, FS_EmptySet DEF Count, EmptyHeader, NoWrite
  <2> QED
    BY <2>2, SettledWithout DEF Init, CountsInv
<1>2. TypeOK /\ LibraryInv /\ CountsInv /\ [Next]_vars => CountsInv'
  <2> SUFFICES ASSUME TypeOK, LibraryInv, CountsInv, [Next]_vars
               PROVE  CountsInv'
    OBVIOUS
  <2>1. CASE Next
    BY <2>1, SessionStepsCounts, InsertStepsCounts, DeleteStepsCounts, ReadStepsCounts
       DEF Next
  <2>2. CASE UNCHANGED vars
    BY <2>2 DEF vars, disk, CountsInv
  <2> QED
    BY <2>1, <2>2
<1> QED
  BY <1>1, <1>2, TypeCorrect, CommandsKeepImages, PTL DEF Spec

\* The count in a closed file is the number of its images (imgfs_insert.c:62-78,
\* imgfs_delete.c:28-43).
THEOREM CountsExactly ==
    ASSUME ~ LongLived, ~ Faults
    PROVE  Spec => []CountExact
<1>1. CountsInv => CountExact
  BY DEF CountsInv, CountExact
<1> QED
  BY <1>1, CountsKept, PTL

-----------------------------------------------------------------------------
(* What the forms of a write do to a file that stays open.                 *)

\* A whole image stays whole when blobs are appended.
LEMMA WholeGrows ==
    ASSUME NEW s \in Seq(Blob), NEW w \in Write, NEW v \in Metadata
    PROVE  /\ Whole(v, s) => Whole(v, Appended(w, s))
           /\ WholeOrNone(v, s) => WholeOrNone(v, Appended(w, s))
BY BackedGrows DEF Whole, WholeOrNone

\* What of a buffer may be left is as well on its way as all of it.
LEMMA RemainsWritten ==
    ASSUME NEW w, NEW h, NEW m, NEW s, Written(w, h, m, s), NEW x \in Remains(w)
    PROVE  Written(x, h, m, s)
<1>1. x = w \/ x = NoWrite \/ (w.kind = "blob" /\ x = BlobWrite(w.at, Torn))
  BY Zenon DEF Remains
<1>2. CASE x = w
  BY <1>2
<1>3. CASE x = NoWrite
  BY <1>3 DEF Written, NoWrite
<1>4. CASE w.kind = "blob" /\ x = BlobWrite(w.at, Torn)
  BY <1>4 DEF Written, BlobWrite
<1> QED
  BY <1>1, <1>2, <1>3, <1>4

\* A flush makes of the file what the buffer and the file were.
LEMMA FlushWritten ==
    ASSUME TypeOK, \A i \in ValidSlots(dMeta) : Whole(dMeta[i], blobs),
           NEW w \in Write, Written(w, dHeader, dMeta, blobs), Flush(w)
    PROVE  /\ \A i \in ValidSlots(dMeta') : Whole(dMeta'[i], blobs')
           /\ dHeader' = HeaderAfter(w, dHeader)
           /\ dMeta' = TableAfter(w, dMeta)
           /\ blobs' = Appended(w, blobs)
<1>0. /\ blobs \in Seq(Blob) /\ dMeta \in [Slots -> Metadata]
      /\ w.kind = "blob" => w.blob \in Blob
      /\ w.kind = "meta" => w.slot \in Slots /\ w.meta \in Metadata
  BY DEF TypeOK, Write, NoWrite, FormatWrite
<1>1. blobs' = Appended(w, blobs)
  BY <1>0, WriteAtEnd DEF Flush, Written, Appended
<1>2. dHeader' = HeaderAfter(w, dHeader) /\ dMeta' = TableAfter(w, dMeta)
  BY Zenon DEF Flush, HeaderAfter, TableAfter
<1>3. ASSUME NEW i \in ValidSlots(dMeta) PROVE Whole(dMeta[i], blobs')
  <2>1. dMeta[i] \in Metadata /\ Whole(dMeta[i], blobs)
    BY <1>0 DEF ValidSlots
  <2> QED
    BY <1>0, <1>1, <2>1, WholeGrows
<1>4. CASE w.kind = "meta"
  <2>1. blobs' = blobs /\ dMeta' = [dMeta EXCEPT ![w.slot] = w.meta]
    BY <1>4 DEF Flush
  <2>2. \A i \in Slots : dMeta'[i] = IF i = w.slot THEN w.meta ELSE dMeta[i]
    BY <1>0, <1>4, <2>1
  <2> QED
    BY <1>0, <1>1, <1>2, <1>3, <1>4, <2>1, <2>2 DEF ValidSlots, Written
<1>5. CASE w.kind # "meta"
  <2>1. dMeta' = dMeta
    BY <1>5 DEF Flush
  <2> QED
    BY <1>1, <1>2, <1>3, <2>1
<1> QED
  BY <1>4, <1>5

\* fseek within a call, when nothing fails: file and memory agree.
LEMMA SeekAgrees ==
    ASSUME TypeOK, OpenInv, pc # "closed", Seek
    PROVE  /\ \A i \in ValidSlots(dMeta') : Whole(dMeta'[i], blobs')
           /\ Agree(header, metadata, dHeader', dMeta', blobs')
           /\ dMeta' \in [Slots -> Metadata] /\ blobs' \in Seq(Blob)
<1>1. pend \in Write /\ Written(pend, dHeader, dMeta, blobs)
      /\ (\A i \in ValidSlots(dMeta) : Whole(dMeta[i], blobs))
      /\ Agree(header, metadata, HeaderAfter(pend, dHeader), TableAfter(pend, dMeta),
               Appended(pend, blobs))
  BY DEF TypeOK, OpenInv
<1>2. Flush(pend)
  BY DEF Seek
<1> QED
  BY <1>1, <1>2, FlushWritten, FlushType

\* A slot of the table in memory that becomes v.
LEMMA SlotAgrees ==
    ASSUME NEW m \in [Slots -> Metadata], NEW d, NEW s, NEW h, Agree(h, m, h, d, s),
           NEW i \in Slots, NEW v \in Metadata,
           v.is_valid = NON_EMPTY => WholeOrNone(v, s),
           i \in ValidSlots(d) => v.is_valid = NON_EMPTY /\ Keeps(d[i], v)
    PROVE  Agree(h, [m EXCEPT ![i] = v], h, d, s)
<1> DEFINE n == [m EXCEPT ![i] = v]
<1>1. n[i] = v /\ \A j \in Slots : j # i => n[j] = m[j]
  OBVIOUS
<1> HIDE DEF n
<1>2. \A j \in ValidSlots(n) : WholeOrNone(n[j], s)
  BY <1>1 DEF ValidSlots, Agree
<1>3. \A j \in ValidSlots(d) : j \in ValidSlots(n) /\ Keeps(d[j], n[j])
  BY <1>1 DEF ValidSlots, Agree
<1>4. Agree(h, n, h, d, s)
  BY <1>2, <1>3 DEF Agree
<1> QED
  BY <1>4 DEF n

\* A slot that becomes v in memory and, from there, in the file.
LEMMA SlotWritten ==
    ASSUME NEW m, NEW d \in [Slots -> Metadata], NEW s, NEW h, Agree(h, m, h, d, s),
           NEW i \in Slots, NEW v, v.is_valid = NON_EMPTY => WholeOrNone(v, s),
           NEW n, n[i] = v, \A j \in Slots : j # i => n[j] = m[j]
    PROVE  Agree(h, n, h, [d EXCEPT ![i] = v], s)
<1> DEFINE e == [d EXCEPT ![i] = v]
<1>1. e[i] = v /\ \A j \in Slots : j # i => e[j] = d[j]
  OBVIOUS
<1> HIDE DEF e
<1>2. \A j \in ValidSlots(n) : WholeOrNone(n[j], s)
  BY DEF ValidSlots, Agree
<1>3. \A j \in ValidSlots(e) : j \in ValidSlots(n) /\ Keeps(e[j], n[j])
  BY <1>1 DEF ValidSlots, Agree, Keeps
<1>4. Agree(h, n, h, e, s)
  BY <1>2, <1>3 DEF Agree
<1> QED
  BY <1>4 DEF e

\* The blobs grow: what agrees agrees.
LEMMA AgreeGrows ==
    ASSUME NEW m \in [Slots -> Metadata], NEW d, NEW s \in Seq(Blob), NEW h,
           NEW w \in Write, Agree(h, m, h, d, s)
    PROVE  Agree(h, m, h, d, Appended(w, s))
<1>1. \A i \in ValidSlots(m) : m[i] \in Metadata /\ WholeOrNone(m[i], s)
  BY DEF ValidSlots, Agree
<1> QED
  BY <1>1, WholeGrows DEF Agree

-----------------------------------------------------------------------------
(* The inductive invariant.                                                *)

\* A call that returns, the file and the buffer in agreement with the memory.
LEMMA ReturnOpen ==
    ASSUME \A i \in ValidSlots(dMeta') : Whole(dMeta'[i], blobs'),
           Written(pend', dHeader', dMeta', blobs'),
           Agree(header', metadata', HeaderAfter(pend', dHeader'),
                 TableAfter(pend', dMeta'), Appended(pend', blobs')),
           pc' \in {"ready", "done", "overrun", "rd_data"}
    PROVE  OpenInv'
BY DEF OpenInv, Midway

\* The steps that leave the file and the buffer alone.
LEMMA StayOpen ==
    ASSUME OpenInv, UNCHANGED <<disk, header, pend>>, pc # "closed", pc' # "closed",
           Midway',
           Agree(header', metadata', HeaderAfter(pend, dHeader), TableAfter(pend, dMeta),
                 Appended(pend, blobs))
    PROVE  OpenInv'
BY DEF OpenInv, disk

\* do_create, do_open, do_close and the end of the process.
LEMMA SessionStepsOpen ==
    ASSUME TypeOK, OpenInv, ~ Faults, DoCreate \/ DoOpen \/ DoClose \/ Crash \/ DoList
    PROVE  OpenInv'
<1>0. ValidSlots(EmptyTable) = {}
  BY DEF ValidSlots, EmptyTable, EmptyMetadata, EMPTY, NON_EMPTY
<1>1. CASE DoCreate
  <2>1. /\ dHeader' = EmptyHeader /\ dMeta' = EmptyTable /\ blobs' = <<>>
        /\ header' = EmptyHeader /\ metadata' = EmptyTable
        /\ pend' = FormatWrite /\ pc' \in {"ready", "done"}
    BY <1>1 DEF DoCreate, CreateFails, Truncate, Return, AfterCall
  <2>2. /\ HeaderAfter(pend', dHeader') = EmptyHeader
        /\ TableAfter(pend', dMeta') = EmptyTable
        /\ Written(pend', dHeader', dMeta', blobs')
    BY <2>1 DEF HeaderAfter, TableAfter, Written, FormatWrite
  <2> QED
    BY <1>0, <2>1, <2>2, ReturnOpen DEF Agree
<1>2. CASE DoOpen
  <2>1. UNCHANGED <<dHeader, dMeta, blobs, pend>> /\ pc = "closed" /\ pend = NoWrite
    BY <1>2 DEF DoOpen, disk, OpenInv
  <2>2. CASE UNCHANGED <<memory, pc, op>>
    BY <2>1, <2>2 DEF OpenInv, Midway, memory
  <2>3. CASE header' = dHeader /\ metadata' = dMeta /\ pc' = "ready"
    <3>1. /\ HeaderAfter(pend', dHeader') = dHeader /\ TableAfter(pend', dMeta') = dMeta
          /\ Appended(pend', blobs') = blobs
      BY <2>1 DEF HeaderAfter, TableAfter, Appended, NoWrite
    <3>2. Agree(dHeader, dMeta, dHeader, dMeta, blobs)
      BY DEF OpenInv, Agree, Whole, WholeOrNone, Keeps
    <3> QED
      BY <2>1, <2>3, <3>1, <3>2, ReturnOpen DEF OpenInv
  <2> QED
    BY <1>2, <2>2, <2>3 DEF DoOpen
<1>3. CASE DoClose \/ Crash
  <2>1. PICK w \in Remains(pend) : Flush(w) /\ Forget
    BY <1>3 DEF DoClose, Crash, Remains
  <2>2. w \in Write /\ Written(w, dHeader, dMeta, blobs)
    BY RemainsType, RemainsWritten DEF TypeOK, OpenInv
  <2>3. \A i \in ValidSlots(dMeta') : Whole(dMeta'[i], blobs')
    BY <2>1, <2>2, FlushWritten DEF OpenInv
  <2>4. pc' = "closed" /\ pend' = NoWrite
    BY <2>1 DEF Forget
  <2> QED
    BY <2>3, <2>4 DEF OpenInv, Midway, Written, NoWrite
<1>4. CASE DoList
  <2>1. /\ UNCHANGED <<disk, header, metadata, pend>>
        /\ pc # "closed" /\ pc' \in {"ready", "done"}
    BY <1>4 DEF DoList, memory, Return, AfterCall
  <2> QED
    BY <2>1, StayOpen DEF OpenInv, Midway
<1> QED
  BY <1>1, <1>2, <1>3, <1>4

\* do_name_and_content_dedup, whatever the table holds: the slot becomes a valid
\* one with the offsets of an image of its content, or none.
LEMMA DedupWhole ==
    ASSUME NEW m \in [Slots -> Metadata], NEW s, \A j \in ValidSlots(m) : WholeOrNone(m[j], s),
           NEW i \in Slots, FirstEmpty(m, i), NEW id \in Ids, NEW c \in Contents,
           NEW n, n = Dedup(Filled(m, i, id, c, NON_EMPTY), i)
    PROVE  /\ i \notin ValidSlots(m)
           /\ n[i] \in Metadata /\ n = [m EXCEPT ![i] = n[i]]
           /\ n[i].is_valid = NON_EMPTY /\ n[i].SHA = c /\ WholeOrNone(n[i], s)
<1> DEFINE f == Filled(m, i, id, c, NON_EMPTY)
           new == [img_id |-> id, SHA |-> c, offset |-> NoOffset, is_valid |-> NON_EMPTY]
<1>1. /\ f = [m EXCEPT ![i] = new] /\ f[i] = new /\ new \in Metadata
      /\ (\A j \in Slots : j # i => f[j] = m[j]) /\ f \in [Slots -> Metadata]
  BY DEF Filled, Metadata, NoOffset
<1>2. i \notin ValidSlots(m)
  BY DEF FirstEmpty, ValidSlots
<1>3. WholeOrNone(new, s)
  BY DEF WholeOrNone, Backed, NoOffset
<1> HIDE DEF f
<1>4. CASE Twins(f, i) = {}
  <2>1. n = [m EXCEPT ![i] = new] /\ n[i] = new
    BY <1>1, <1>4 DEF Dedup, f
  <2> QED
    BY <1>1, <1>2, <1>3, <2>1
<1>5. CASE Twins(f, i) # {}
  <2> DEFINE k == Max(Twins(f, i))
             v == [new EXCEPT !.offset = m[k].offset]
  <2>1. k \in Twins(f, i)
    <3>1. Twins(f, i) \in SUBSET Slots
      BY DEF Twins, Others, ValidSlots
    <3> QED
      BY <1>5, <3>1, MaxOfSlots
  <2>2. k \in Slots /\ k # i /\ f[k].is_valid = NON_EMPTY /\ f[k].SHA = c
    BY <1>1, <2>1 DEF Twins, Others, ValidSlots
  <2>3. k \in ValidSlots(m) /\ m[k].SHA = c /\ f[k] = m[k] /\ m[k] \in Metadata
    BY <1>1, <2>2 DEF ValidSlots
  <2>4. n = [f EXCEPT ![i].offset = m[k].offset]
    BY <1>5, <2>3 DEF Dedup, f
  <2> HIDE DEF k
  <2>5. n[i] = v /\ n = [m EXCEPT ![i] = v] /\ v \in Metadata
    BY <1>1, <2>3, <2>4 DEF Metadata
  <2>6. v.is_valid = NON_EMPTY /\ v.SHA = c /\ v.offset = m[k].offset
    OBVIOUS
  <2> HIDE DEF v
  <2>7. WholeOrNone(v, s)
    BY <2>3, <2>6 DEF WholeOrNone, Backed
  <2> QED
    BY <1>2, <2>5, <2>6, <2>7
<1> QED
  BY <1>4, <1>5

\* An image with one resolution more, the blob of it appended.
LEMMA BackedAppend ==
    ASSUME NEW s \in Seq(Blob), NEW v \in Metadata, Backed(v, s), NEW r \in Res,
           NEW b \in Blob, b = [content |-> v.SHA, res |-> r],
           NEW u, u.SHA = v.SHA, u.offset[r] = Len(s) + 1,
           \A q \in Res : q # r => u.offset[q] = v.offset[q]
    PROVE  Backed(u, Append(s, b))
<1>1. /\ Len(Append(s, b)) = Len(s) + 1
      /\ Append(s, b)[Len(s) + 1] = b
      /\ \A k \in 1 .. Len(s) : Append(s, b)[k] = s[k]
      /\ Len(s) \in Nat
  BY AppendProperties
<1> SUFFICES ASSUME NEW q \in Res, u.offset[q] # 0
             PROVE  /\ u.offset[q] <= Len(Append(s, b))
                    /\ Append(s, b)[u.offset[q]] = [content |-> u.SHA, res |-> q]
  BY DEF Backed
<1>2. CASE q = r
  BY <1>1, <1>2
<1>3. CASE q # r
  <2>1. u.offset[q] = v.offset[q] /\ v.offset[q] \in Nat
    BY <1>3 DEF Metadata
  <2>2. v.offset[q] <= Len(s) /\ s[v.offset[q]] = [content |-> v.SHA, res |-> q]
    BY <2>1 DEF Backed
  <2>3. v.offset[q] \in 1 .. Len(s)
    BY <1>1, <2>1, <2>2
  <2> QED
    BY <1>1, <2>1, <2>2, <2>3
<1> QED
  BY <1>2, <1>3

\* do_insert up to its first stdio call.
LEMMA DoInsertOpen ==
    ASSUME TypeOK, OpenInv, NEW id \in Ids, NEW c \in Contents \cup BadContents, DoInsert(id, c)
    PROVE  OpenInv'
<1> DEFINE o == [NoOp EXCEPT !.call = "insert", !.id = id, !.content = c]
           h == HeaderAfter(pend, dHeader)
           d == TableAfter(pend, dMeta)
           s == Appended(pend, blobs)
<1>0. UNCHANGED <<disk, header, pend>> /\ pc = "ready"
  BY DEF DoInsert
<1>01. metadata \in [Slots -> Metadata] /\ header.nb_files \in Nat /\ MaxFiles \in Nat
  BY SizesAssumption DEF TypeOK, Header
<1>1. /\ UNCHANGED <<disk, header, pend>> /\ pc = "ready"
      /\ metadata \in [Slots -> Metadata] /\ header.nb_files \in Nat /\ MaxFiles \in Nat
  BY <1>0, <1>01
<1>2. Agree(header, metadata, h, d, s)
  BY <1>1 DEF OpenInv
<1> HIDE DEF h, d, s
<1>3. ASSUME pc' \in {"ready", "done", "overrun"}, Agree(header, metadata', h, d, s)
      PROVE  OpenInv'
  <2>1. Midway'
    BY <1>3 DEF Midway
  <2> QED
    BY <1>1, <1>3, <2>1, StayOpen DEF h, d, s
<1>4. ASSUME NEW code, Return(o, code)
      PROVE  pc' \in {"ready", "done"}
  BY <1>4 DEF Return, AfterCall
<1>5. CASE UNCHANGED metadata /\ (pc' = "overrun" \/ \E code : Return(o, code))
  BY <1>2, <1>3, <1>4, <1>5
<1>6. ASSUME NEW i \in Slots, FirstEmpty(metadata, i), c \in BadContents,
             metadata' = Filled(metadata, i, id, c, EMPTY), Return(o, "ERR_IMGLIB")
      PROVE  OpenInv'
  <2> DEFINE v == [img_id |-> id, SHA |-> c, offset |-> NoOffset, is_valid |-> EMPTY]
  <2>1. metadata' = [metadata EXCEPT ![i] = v] /\ v \in Metadata /\ v.is_valid = EMPTY
    BY <1>6 DEF Filled, Metadata, NoOffset
  <2>2. i \notin ValidSlots(d) /\ EMPTY # NON_EMPTY /\ h = header
    BY <1>2, <1>6 DEF FirstEmpty, Agree, ValidSlots, EMPTY, NON_EMPTY
  <2> HIDE DEF v
  <2>3. Agree(header, [metadata EXCEPT ![i] = v], header, d, s)
    BY <1>1, <1>2, <2>1, <2>2, SlotAgrees
  <2> QED
    BY <1>3, <1>4, <1>6, <2>1, <2>2, <2>3
<1>7. ASSUME NEW i \in Slots, FirstEmpty(metadata, i), c \in Contents, ~ Full(header),
             metadata' = Dedup(Filled(metadata, i, id, c, NON_EMPTY), i),
             \/ Return(o, "ERR_DUPLICATE_ID")
             \/ /\ op' = [o EXCEPT !.slot = i]
                /\ pc' = IF metadata'[i].offset[ORIG_RES] = 0 THEN "ins_blob" ELSE "ins_header"
      PROVE  OpenInv'
  <2>0. \A j \in ValidSlots(metadata) : WholeOrNone(metadata[j], s)
    BY <1>2 DEF Agree
  <2> DEFINE v == metadata'[i]
  <2>1. /\ i \notin ValidSlots(metadata)
        /\ v \in Metadata /\ metadata' = [metadata EXCEPT ![i] = v]
        /\ v.is_valid = NON_EMPTY /\ v.SHA = c /\ WholeOrNone(v, s)
    BY <1>1, <1>7, <2>0, DedupWhole
  <2> HIDE DEF v
  <2>2. i \notin ValidSlots(d) /\ h = header
    BY <1>2, <2>1 DEF Agree
  <2>3. Agree(header, [metadata EXCEPT ![i] = v], header, d, s)
    BY <1>1, <1>2, <2>1, <2>2, SlotAgrees
  <2>4. Agree(header, metadata', h, d, s)
    BY <2>1, <2>2, <2>3
  <2>5. CASE Return(o, "ERR_DUPLICATE_ID")
    BY <1>3, <1>4, <2>4, <2>5
  <2>6. CASE /\ op' = [o EXCEPT !.slot = i]
             /\ pc' = IF v.offset[ORIG_RES] = 0 THEN "ins_blob" ELSE "ins_header"
    <3>1. op'.slot = i /\ op'.content = c
      BY <2>6 DEF NoOp
    <3>2. i \in ValidSlots(metadata')
      BY <2>1 DEF ValidSlots, v
    <3>3. v.offset[ORIG_RES] = 0 => v.offset = NoOffset
      BY <2>1 DEF WholeOrNone
    <3>4. header'.nb_files < MaxFiles
      BY <1>1, <1>7 DEF Full
    <3>5. Midway'
      BY <2>1, <2>6, <3>1, <3>2, <3>3, <3>4 DEF Midway, v
    <3>6. pc' # "closed"
      BY <2>6
    <3> QED
      BY <1>1, <2>4, <3>5, <3>6, StayOpen DEF h, d, s
  <2> QED
    BY <1>7, <2>5, <2>6 DEF v
<1> HIDE DEF o
<1> QED
  BY <1>5, <1>6, <1>7 DEF DoInsert, o

\* An fseek, then the fwrite of an image that a slot in memory already has.
LEMMA BlobWriteOpen ==
    ASSUME TypeOK, OpenInv, pc # "closed", Seek, op.slot \in ValidSlots(metadata), NEW r \in Res,
           metadata[op.slot].offset[r] = 0,
           metadata[op.slot].offset[ORIG_RES] = 0 => r = ORIG_RES,
           pend' = BlobWrite(End(blobs'), [content |-> metadata[op.slot].SHA, res |-> r]),
           metadata' = [metadata EXCEPT ![op.slot].offset[r] = End(blobs')],
           header' = header, op' = op,
           \/ pc' = "ins_header" /\ header.nb_files < MaxFiles
           \/ pc' = "rs_meta"
    PROVE  OpenInv'
<1>0. PICK i \in ValidSlots(metadata) : i = op.slot
  OBVIOUS
<1> DEFINE v == metadata[i]
           w == pend'
           b == [content |-> v.SHA, res |-> r]
           u == metadata'[i]
           s == Append(blobs', b)
<1>1. /\ \A j \in ValidSlots(dMeta') : Whole(dMeta'[j], blobs')
      /\ Agree(header, metadata, dHeader', dMeta', blobs')
      /\ dMeta' \in [Slots -> Metadata] /\ blobs' \in Seq(Blob)
  BY SeekAgrees
<1>2. /\ metadata \in [Slots -> Metadata] /\ i \in Slots /\ v \in Metadata
      /\ v.is_valid = NON_EMPTY /\ v.offset[r] = 0 /\ (v.offset[ORIG_RES] = 0 => r = ORIG_RES)
  BY <1>0 DEF TypeOK, ValidSlots
<1>3. WholeOrNone(v, blobs') /\ v.SHA \in Contents /\ Backed(v, blobs')
  BY <1>1 DEF Agree, WholeOrNone
<1>4. b \in Blob /\ b = [content |-> v.SHA, res |-> r]
  BY <1>3 DEF Blob
<1>40. w = BlobWrite(End(blobs'), b) /\ metadata' = [metadata EXCEPT ![i].offset[r] = End(blobs')]
  BY <1>0
<1> HIDE DEF w
<1>5. w.kind = "blob" /\ w.at = End(blobs') /\ w.at = Len(blobs') + 1 /\ w.blob = b /\ w \in Write
  <2>1. End(blobs') \in Nat \ {0} /\ End(blobs') = Len(blobs') + 1
    BY <1>1 DEF End
  <2>2. w = BlobWrite(End(blobs'), b)
    BY <1>40
  <2> HIDE DEF b
  <2>3. w \in Write
    BY <1>4, <2>1, <2>2, WriteTypes
  <2> QED
    BY <2>1, <2>2, <2>3 DEF BlobWrite
<1>6. /\ u.img_id = v.img_id /\ u.SHA = v.SHA /\ u.is_valid = v.is_valid
      /\ u.offset = [v.offset EXCEPT ![r] = w.at] /\ u \in Metadata
      /\ metadata' = [metadata EXCEPT ![i] = u]
      /\ v.offset \in [Res -> Nat]
  <2>1. w.at \in Nat
    BY <1>1, <1>5
  <2>2. metadata' = [metadata EXCEPT ![i].offset[r] = w.at]
    BY <1>5, <1>40
  <2>3. u = [v EXCEPT !.offset[r] = w.at] /\ metadata' = [metadata EXCEPT ![i] = u]
    BY <1>2, <2>2
  <2> HIDE DEF u, v, b
  <2> QED
    BY <1>2, <2>1, <2>3 DEF Metadata
<1> HIDE DEF u, v, b
<1>7. u.offset[r] = Len(blobs') + 1 /\ \A q \in Res : q # r => u.offset[q] = v.offset[q]
  BY <1>5, <1>6
<1>8. Backed(u, s)
  <2>1. blobs' \in Seq(Blob) /\ u.SHA = v.SHA
    BY <1>1, <1>6
  <2> QED
    BY <1>2, <1>3, <1>4, <1>7, <2>1, BackedAppend, ZenonT(60)
<1>9. u.offset[ORIG_RES] # 0
  <2>1. Len(blobs') + 1 # 0
    BY <1>1
  <2> QED
    BY <1>2, <1>7, <2>1 DEF Res
<1>10. WholeOrNone(u, s)
  BY <1>3, <1>6, <1>8, <1>9 DEF WholeOrNone
<1>11. i \in ValidSlots(dMeta') => Keeps(dMeta'[i], u)
  <2>1. i \in ValidSlots(dMeta') => Keeps(dMeta'[i], v)
    BY <1>1 DEF Agree, v
  <2> QED
    BY <1>2, <1>6, <1>7, <2>1 DEF Keeps
<1>12. Appended(w, blobs') = s
  BY <1>5 DEF Appended
<1>13. Agree(header, metadata, dHeader', dMeta', s) /\ header = dHeader'
  <2>1. Agree(header, metadata, dHeader', dMeta', Appended(w, blobs'))
    <3>1. header = dHeader'
      BY <1>1 DEF Agree
    <3> QED
      BY <1>1, <1>2, <1>5, <3>1, AgreeGrows
  <2> QED
    BY <1>1, <1>12, <2>1 DEF Agree
<1>14. Agree(header, [metadata EXCEPT ![i] = u], header, dMeta', s)
  BY <1>2, <1>6, <1>10, <1>11, <1>13, SlotAgrees
<1>15. Agree(header', metadata', HeaderAfter(pend', dHeader'), TableAfter(pend', dMeta'),
             Appended(pend', blobs'))
  BY <1>5, <1>6, <1>12, <1>13, <1>14 DEF HeaderAfter, TableAfter, w
<1>16. Written(pend', dHeader', dMeta', blobs')
  BY <1>5 DEF Written, w
<1>17. Midway'
  <2>1. i \in ValidSlots(metadata')
    BY <1>2, <1>6 DEF ValidSlots, u
  <2> QED
    BY <1>0, <1>9, <2>1 DEF Midway, u
<1> QED
  BY <1>1, <1>15, <1>16, <1>17 DEF OpenInv

\* An fseek, then the fwrite of the slot as it is in memory.
LEMMA SlotWriteOpen ==
    ASSUME TypeOK, OpenInv, pc \in {"ins_meta", "rs_meta"}, Seek, UNCHANGED memory,
           pend' = MetaWrite(op.slot, metadata[op.slot]),
           pc' \in {"ready", "done", "rd_data"}
    PROVE  OpenInv'
<1>1. /\ \A j \in ValidSlots(dMeta') : Whole(dMeta'[j], blobs')
      /\ Agree(header, metadata, dHeader', dMeta', blobs')
      /\ dMeta' \in [Slots -> Metadata]
  BY SeekAgrees
<1>20. PICK i \in Slots : i = op.slot
  BY DEF TypeOK, Op
<1> DEFINE v == metadata[i]
<1>2. i = op.slot /\ v = metadata[i] /\ pend' = MetaWrite(i, v)
  BY <1>20
<1> HIDE DEF v
<1>3. v.offset[ORIG_RES] # 0 /\ i \in ValidSlots(metadata)
  BY <1>2 DEF OpenInv, Midway
<1>4. WholeOrNone(v, blobs') /\ Whole(v, blobs')
  BY <1>1, <1>2, <1>3 DEF Agree, WholeOrNone, Whole
<1>5. i \in ValidSlots(dMeta') => Keeps(dMeta'[i], v)
  BY <1>1, <1>2 DEF Agree
<1>6. header = dHeader' /\ header' = header /\ metadata' = metadata
  BY <1>1 DEF Agree, memory
<1>7. pend'.kind = "meta" /\ pend'.slot = i /\ pend'.meta = v
  BY <1>2 DEF MetaWrite
<1>8. Written(pend', dHeader', dMeta', blobs')
  BY <1>4, <1>5, <1>7 DEF Written, ValidSlots
<1>9. Agree(header, metadata, header, [dMeta' EXCEPT ![i] = v], blobs')
  BY <1>1, <1>2, <1>4, <1>6, SlotWritten
<1>10. Agree(header', metadata', HeaderAfter(pend', dHeader'), TableAfter(pend', dMeta'),
             Appended(pend', blobs'))
  BY <1>6, <1>7, <1>9 DEF HeaderAfter, TableAfter, Appended
<1> QED
  BY <1>1, <1>8, <1>10, ReturnOpen

\* An fseek, then the fwrite of a header that counts one image more or less.
LEMMA HeaderWriteOpen ==
    ASSUME TypeOK, OpenInv, pc # "closed", Seek, pend' = HeaderWrite(header'),
           Follows(header', header), metadata' = metadata, Midway', pc' # "closed"
    PROVE  OpenInv'
<1>1. /\ \A j \in ValidSlots(dMeta') : Whole(dMeta'[j], blobs')
      /\ Agree(header, metadata, dHeader', dMeta', blobs')
  BY SeekAgrees
<1>2. header = dHeader'
  BY <1>1 DEF Agree
<1>3. pend'.kind = "header" /\ pend'.header = header'
  BY DEF HeaderWrite
<1>4. Written(pend', dHeader', dMeta', blobs')
  BY <1>2, <1>3 DEF Written
<1>5. Agree(header', metadata', HeaderAfter(pend', dHeader'), TableAfter(pend', dMeta'),
            Appended(pend', blobs'))
  BY <1>1, <1>3 DEF Agree, HeaderAfter, TableAfter, Appended
<1> QED
  BY <1>1, <1>4, <1>5 DEF OpenInv

\* do_insert: blob, header and slot.
LEMMA InsertStepsOpen ==
    ASSUME TypeOK, OpenInv, ~ Faults, InsertBlob \/ InsertHeader \/ InsertMeta
    PROVE  OpenInv'
<1>1. CASE InsertBlob
  <2> DEFINE v == metadata[op.slot]
  <2>1. /\ pc = "ins_blob" /\ pc' = "ins_header" /\ Seek /\ header' = header
        /\ metadata' = [metadata EXCEPT ![op.slot].offset[ORIG_RES] = End(blobs')]
        /\ pend' = BlobWrite(End(blobs'), [content |-> op.content, res |-> ORIG_RES])
        /\ op' = op
    BY <1>1 DEF InsertBlob, SeekFails, FwriteFails, FwriteOk, BlobWrite
  <2>2. /\ op.slot \in ValidSlots(metadata) /\ v.SHA = op.content /\ v.offset = NoOffset
        /\ header.nb_files < MaxFiles
    BY <2>1 DEF OpenInv, Midway
  <2>3. v.offset[ORIG_RES] = 0 /\ ORIG_RES \in Res
    BY <2>2 DEF NoOffset, Res
  <2> QED
    BY <2>1, <2>2, <2>3, BlobWriteOpen
<1>2. CASE InsertHeader
  <2>1. /\ pc = "ins_header" /\ pc' = "ins_meta" /\ Seek /\ header' = Counted(header)
        /\ metadata' = metadata /\ pend' = HeaderWrite(header') /\ op' = op
    BY <1>2 DEF InsertHeader, WriteHeader, SeekFails, FwriteFails, FwriteOk
  <2>2. Follows(header', header)
    <3>1. header.nb_files < MaxFiles /\ header \in Header
      BY <2>1 DEF OpenInv, Midway, TypeOK
    <3> QED
      BY <2>1, <3>1, SizesAssumption DEF Counted, Inc, Follows, Header
  <2>3. Midway'
    BY <2>1 DEF OpenInv, Midway
  <2> QED
    BY <2>1, <2>2, <2>3, HeaderWriteOpen
<1>3. CASE InsertMeta
  <2>1. /\ pc = "ins_meta" /\ pc' \in {"ready", "done"} /\ Seek /\ UNCHANGED memory
        /\ pend' = MetaWrite(op.slot, metadata[op.slot])
    BY <1>3 DEF InsertMeta, SeekFails, FwriteFails, FwriteLast, Return, AfterCall
  <2> QED
    BY <2>1, SlotWriteOpen
<1> QED
  BY <1>1, <1>2, <1>3

\* do_delete: slot, then header.
LEMMA DeleteStepsOpen ==
    ASSUME TypeOK, OpenInv, ~ Faults,
           (\E id \in Ids : DoDelete(id)) \/ DeleteMeta \/ DeleteHeader
    PROVE  OpenInv'
<1>1. CASE \E id \in Ids : DoDelete(id)
  <2>1. /\ UNCHANGED <<disk, header, pend>> /\ metadata' = metadata /\ pc = "ready"
        /\ pc' \in {"ready", "done", "del_meta"} /\ (pc' = "del_meta" => header.nb_files > 0)
    BY <1>1 DEF DoDelete, memory, Return, AfterCall
  <2>2. Midway'
    BY <2>1 DEF Midway
  <2> QED
    BY <2>1, <2>2, StayOpen DEF OpenInv
<1>2. CASE DeleteMeta
  <2>1. /\ pc = "del_meta" /\ pc' = "del_header" /\ Seek /\ header' = header
        /\ metadata' = [metadata EXCEPT ![op.slot].is_valid = EMPTY]
        /\ pend' = MetaWrite(op.slot, [metadata[op.slot] EXCEPT !.is_valid = EMPTY])
    BY <1>2 DEF DeleteMeta, SeekFails, FwriteFails, FwriteOk
  <2>2. /\ \A j \in ValidSlots(dMeta') : Whole(dMeta'[j], blobs')
        /\ Agree(header, metadata, dHeader', dMeta', blobs')
        /\ dMeta' \in [Slots -> Metadata]
    BY <2>1, SeekAgrees
  <2>30. PICK i \in Slots : i = op.slot
    BY DEF TypeOK, Op
  <2> DEFINE v == [metadata[i] EXCEPT !.is_valid = EMPTY]
  <2>3. i = op.slot /\ v = [metadata[i] EXCEPT !.is_valid = EMPTY]
    BY <2>30
  <2> HIDE DEF v
  <2>4. /\ v.is_valid = EMPTY /\ EMPTY # NON_EMPTY
        /\ metadata'[i] = v /\ \A j \in Slots : j # i => metadata'[j] = metadata[j]
    <3>1. metadata \in [Slots -> Metadata] /\ metadata[i] \in Metadata
      BY DEF TypeOK
    <3>2. v.is_valid = EMPTY /\ EMPTY # NON_EMPTY
      BY <2>3, <3>1 DEF Metadata, EMPTY, NON_EMPTY
    <3>3. metadata' = [metadata EXCEPT ![i] = v]
      BY <2>1, <2>3
    <3> QED
      BY <3>1, <3>2, <3>3
  <2>5. pend'.kind = "meta" /\ pend'.slot = i /\ pend'.meta = v
    BY <2>1, <2>3 DEF MetaWrite
  <2>6. header = dHeader'
    BY <2>2 DEF Agree
  <2>7. Agree(header, metadata', header, [dMeta' EXCEPT ![i] = v], blobs')
    BY <2>2, <2>4, <2>6, SlotWritten
  <2>8. Agree(header', metadata', HeaderAfter(pend', dHeader'), TableAfter(pend', dMeta'),
              Appended(pend', blobs'))
    BY <2>1, <2>5, <2>6, <2>7 DEF HeaderAfter, TableAfter, Appended
  <2>9. Written(pend', dHeader', dMeta', blobs')
    BY <2>4, <2>5 DEF Written
  <2>10. Midway'
    BY <2>1 DEF OpenInv, Midway
  <2> QED
    BY <2>1, <2>2, <2>8, <2>9, <2>10 DEF OpenInv
<1>3. CASE DeleteHeader
  <2>1. /\ pc = "del_header" /\ pc' \in {"ready", "done"} /\ Seek /\ metadata' = metadata
        /\ header' = [nb_files |-> Dec(header.nb_files), version |-> Inc(header.version)]
        /\ pend' = HeaderWrite(header')
    BY <1>3 DEF DeleteHeader, WriteLastHeader, SeekFails, FwriteFails, FwriteLast, Return, AfterCall
  <2>2. Follows(header', header)
    <3>1. header.nb_files > 0 /\ header \in Header
      BY <2>1 DEF OpenInv, Midway, TypeOK
    <3> QED
      BY <2>1, <3>1 DEF Dec, Follows, Header
  <2>3. Midway'
    BY <2>1 DEF Midway
  <2> QED
    BY <2>1, <2>2, <2>3, HeaderWriteOpen
<1> QED
  BY <1>1, <1>2, <1>3

\* do_read and lazily_resize, which makes a smaller image only of an original.
LEMMA ReadStepsOpen ==
    ASSUME TypeOK, OpenInv, ~ Faults,
           \/ \E id \in Ids, res \in Requested : DoRead(id, res)
           \/ ResizeBlob \/ ResizeMeta \/ ReadData
    PROVE  OpenInv'
<1>1. CASE \E id \in Ids, res \in Requested : DoRead(id, res)
  <2>1. /\ UNCHANGED <<disk, header, pend>> /\ metadata' = metadata /\ pc = "ready"
        /\ pc' \in {"ready", "done", "rs_load", "rd_data"}
    BY <1>1 DEF DoRead, memory, Return, AfterCall
  <2>2. pc' = "rs_load" =>
           /\ op'.slot \in Slots /\ metadata[op'.slot].is_valid # EMPTY
           /\ op'.res # ORIG_RES /\ metadata[op'.slot].offset[op'.res] = 0
    <3> SUFFICES ASSUME pc' = "rs_load"
                 PROVE  /\ op'.slot \in Slots /\ metadata[op'.slot].is_valid # EMPTY
                        /\ op'.res # ORIG_RES /\ metadata[op'.slot].offset[op'.res] = 0
      OBVIOUS
    <3>1. PICK id \in Ids, res \in Requested : DoRead(id, res)
      BY <1>1
    <3> DEFINE o == [NoOp EXCEPT !.call = "read", !.id = id]
    <3>2. ~ \E code : Return(o, code)
      BY DEF Return, AfterCall
    <3>3. PICK i \in Slots : /\ metadata[i].is_valid # EMPTY
                            /\ op' = [o EXCEPT !.slot = i, !.res = res]
                            /\ res # ORIG_RES /\ metadata[i].offset[res] = 0
      BY <3>1, <3>2 DEF DoRead
    <3>4. op'.slot = i /\ op'.res = res
      BY <3>3 DEF NoOp
    <3> QED
      BY <3>3, <3>4
  <2>3. Midway'
    BY <2>1, <2>2 DEF Midway, ValidSlots, TypeOK, Metadata
  <2> QED
    BY <2>1, <2>3, StayOpen DEF OpenInv
<1>2. CASE ResizeBlob
  <2>1. pc = "rs_load" /\ Seek /\ header' = header
    BY <1>2 DEF ResizeBlob, SeekFails
  <2>2. /\ \A j \in ValidSlots(dMeta') : Whole(dMeta'[j], blobs')
        /\ Agree(header, metadata, dHeader', dMeta', blobs')
    BY <2>1, SeekAgrees
  <2> DEFINE v == metadata[op.slot]
             r == op.res
  <2>3. /\ op.slot \in ValidSlots(metadata) /\ r \in Res
        /\ r # ORIG_RES /\ v.offset[r] = 0
    BY <2>1 DEF OpenInv, Midway, TypeOK, Op
  <2>5. CASE pend' = NoWrite /\ metadata' = metadata /\ pc' \in {"ready", "done"}
    <3>1. /\ Written(pend', dHeader', dMeta', blobs')
          /\ HeaderAfter(pend', dHeader') = dHeader' /\ TableAfter(pend', dMeta') = dMeta'
          /\ Appended(pend', blobs') = blobs'
      BY <2>5 DEF Written, NoWrite, HeaderAfter, TableAfter, Appended
    <3> QED
      BY <2>1, <2>2, <2>5, <3>1, ReturnOpen
  <2>6. ASSUME NEW b \in BytesAt(blobs', v.offset[ORIG_RES]) \ {Torn},
               metadata' = [metadata EXCEPT ![op.slot].offset[r] = End(blobs')],
               pend' = BlobWrite(End(blobs'), [b EXCEPT !.res = r]), pc' = "rs_meta", op' = op
        PROVE  OpenInv'
    <3>1. v.offset[ORIG_RES] # 0 /\ b = blobs'[v.offset[ORIG_RES]]
      BY <2>6 DEF BytesAt
    <3>2. b = [content |-> v.SHA, res |-> ORIG_RES]
      BY <2>2, <2>3, <3>1 DEF Agree, WholeOrNone, Backed, Res
    <3>3. pend' = BlobWrite(End(blobs'), [content |-> v.SHA, res |-> r])
      BY <2>6, <3>2
    <3> QED
      BY <2>1, <2>3, <2>6, <3>1, <3>3, BlobWriteOpen
  <2>7. \/ pend' = NoWrite /\ metadata' = metadata /\ pc' \in {"ready", "done"}
        \/ \E b \in BytesAt(blobs', v.offset[ORIG_RES]) \ {Torn} :
              /\ metadata' = [metadata EXCEPT ![op.slot].offset[r] = End(blobs')]
              /\ pend' = BlobWrite(End(blobs'), [b EXCEPT !.res = r])
              /\ pc' = "rs_meta" /\ op' = op
    BY <1>2 DEF ResizeBlob, SeekFails, FwriteFails, FwriteOk, Return, AfterCall, BlobWrite
  <2> QED
    BY <2>5, <2>6, <2>7
<1>3. CASE ResizeMeta
  <2>1. /\ pc = "rs_meta" /\ pc' = "rd_data" /\ Seek /\ UNCHANGED memory
        /\ pend' = MetaWrite(op.slot, metadata[op.slot])
    BY <1>3 DEF ResizeMeta, SeekFails, FwriteFails, FwriteOk
  <2> QED
    BY <2>1, SlotWriteOpen
<1>4. CASE ReadData
  <2>1. /\ pc = "rd_data" /\ pc' \in {"ready", "done"} /\ Seek /\ pend' = NoWrite
        /\ header' = header /\ metadata' = metadata
    BY <1>4 DEF ReadData, SeekFails, memory, Return, AfterCall
  <2>2. /\ \A j \in ValidSlots(dMeta') : Whole(dMeta'[j], blobs')
        /\ Agree(header, metadata, dHeader', dMeta', blobs')
    BY <2>1, SeekAgrees
  <2>3. /\ Written(pend', dHeader', dMeta', blobs')
        /\ HeaderAfter(pend', dHeader') = dHeader' /\ TableAfter(pend', dMeta') = dMeta'
        /\ Appended(pend', blobs') = blobs'
    BY <2>1 DEF Written, NoWrite, HeaderAfter, TableAfter, Appended
  <2> QED
    BY <2>1, <2>2, <2>3, ReturnOpen
<1> QED
  BY <1>1, <1>2, <1>3, <1>4

\* Every step keeps the invariant, with one call per opened file or many.
LEMMA NextOpen ==
    ASSUME TypeOK, OpenInv, ~ Faults, [Next]_vars
    PROVE  OpenInv'
<1>1. CASE Next
  BY <1>1, SessionStepsOpen, DoInsertOpen, InsertStepsOpen, DeleteStepsOpen, ReadStepsOpen
     DEF Next
<1>2. CASE UNCHANGED vars
  <2>1. UNCHANGED <<dHeader, dMeta, blobs, header, metadata, pend, pc, op>>
    BY <1>2 DEF vars, disk, memory
  <2> QED
    BY <2>1 DEF OpenInv, Midway
<1> QED
  BY <1>1, <1>2

-----------------------------------------------------------------------------
(* Any number of calls on a file that stays open.                          *)

\* When nothing fails, the file and the table in memory agree on every image of
\* the file after any sequence of calls, refused ones included.
THEOREM OpenFilesAgree ==
    ASSUME ~ Faults
    PROVE  Spec => []OpenInv
<1>1. Init => OpenInv
  <2>1. ValidSlots(EmptyTable) = {}
    BY DEF ValidSlots, EmptyTable, EmptyMetadata, EMPTY, NON_EMPTY
  <2> QED
    BY <2>1 DEF Init, OpenInv, Written, NoWrite, Midway
<1>2. TypeOK /\ OpenInv /\ [Next]_vars => OpenInv'
  BY NextOpen
<1> QED
  BY <1>1, <1>2, TypeCorrect, PTL DEF Spec

\* Every offset in a valid slot of the file is that of a whole blob with the
\* right image, however long the file stays open.
THEOREM OpenExtentsWhole ==
    ASSUME ~ Faults
    PROVE  Spec => []ExtentsSound
<1>1. OpenInv => ExtentsSound
  BY DEF OpenInv, Whole, Backed, ExtentsSound
<1> QED
  BY <1>1, OpenFilesAgree, PTL

\* A step that leaves a whole file changes nothing of it or writes out
\* something that is rightly on its way.
LEMMA WrittenStep ==
    ASSUME TypeOK, OpenInv, [Next]_vars, formatted'
    PROVE  \/ UNCHANGED disk
           \/ \E w \in Write : Flush(w) /\ Written(w, dHeader, dMeta, blobs)
<1>1. ~ Truncate
  BY DEF Truncate
<1>2. \A w \in Remains(pend) : w \in Write /\ Written(w, dHeader, dMeta, blobs)
  BY RemainsType, RemainsWritten DEF TypeOK, OpenInv
<1> QED
  BY <1>1, <1>2, DiskStep

\* Every header that reaches the file is one version later and counts one image
\* more or less (imgfs_insert.c:62-63, imgfs_delete.c:36-37).
THEOREM OpenVersionsCount ==
    ASSUME ~ Faults
    PROVE  Spec => VersionCounts
<1>1. ASSUME TypeOK, OpenInv, [Next]_vars, formatted, formatted', dHeader' # dHeader
      PROVE  /\ dHeader'.version = Inc(dHeader.version)
             /\ dHeader'.nb_files \in {dHeader.nb_files - 1, dHeader.nb_files + 1}
  <2>1. PICK w \in Write : Flush(w) /\ Written(w, dHeader, dMeta, blobs)
    BY <1>1, WrittenStep DEF disk
  <2> QED
    BY <1>1, <2>1 DEF Flush, Written, Follows
<1>2. TypeOK /\ OpenInv /\ [Next]_vars =>
        [formatted /\ formatted' /\ dHeader' # dHeader =>
            /\ dHeader'.version = Inc(dHeader.version)
            /\ dHeader'.nb_files \in {dHeader.nb_files - 1, dHeader.nb_files + 1}
        ]_vars
  BY <1>1
<1> QED
  BY <1>2, TypeCorrect, OpenFilesAgree, PTL DEF Spec, VersionCounts

\* No blob is overwritten, and no offset of an image moves once it is set.
LEMMA OpenStableStep ==
    ASSUME TypeOK, OpenInv, [Next]_vars, formatted, formatted'
    PROVE  /\ \A k \in 1 .. Len(blobs) : k <= Len(blobs') /\ blobs'[k] = blobs[k]
           /\ \A i \in ValidSlots(dMeta) \cap ValidSlots(dMeta') :
                 \A r \in Res : dMeta[i].offset[r] \in {0, dMeta'[i].offset[r]}
<1>0. /\ blobs \in Seq(Blob) /\ dMeta \in [Slots -> Metadata] /\ Len(blobs) \in Nat
      /\ \A i \in ValidSlots(dMeta) : Whole(dMeta[i], blobs)
  BY DEF TypeOK, OpenInv
<1>1. CASE UNCHANGED disk
  BY <1>0, <1>1 DEF disk
<1>2. ASSUME NEW w \in Write, Flush(w), Written(w, dHeader, dMeta, blobs)
      PROVE  /\ \A k \in 1 .. Len(blobs) : k <= Len(blobs') /\ blobs'[k] = blobs[k]
             /\ \A i \in ValidSlots(dMeta) \cap ValidSlots(dMeta') :
                   \A r \in Res : dMeta[i].offset[r] \in {0, dMeta'[i].offset[r]}
  <2>1. blobs' = Appended(w, blobs) /\ dMeta' = TableAfter(w, dMeta)
    BY <1>0, <1>2, FlushWritten
  <2>2. \A k \in 1 .. Len(blobs) : k <= Len(blobs') /\ blobs'[k] = blobs[k]
    <3>1. Len(blobs') \in Nat
      BY <1>0, <2>1, AppendedKeeps
    <3> QED
      BY <1>0, <2>1, <3>1, AppendedKeeps
  <2>3. ASSUME w.kind = "meta",
               NEW i \in ValidSlots(dMeta) \cap ValidSlots(dMeta'), NEW r \in Res
        PROVE  dMeta[i].offset[r] \in {0, dMeta'[i].offset[r]}
    <3>1. w.slot \in Slots /\ i \in Slots /\ dMeta' = [dMeta EXCEPT ![w.slot] = w.meta]
      BY <2>1, <2>3 DEF Write, NoWrite, FormatWrite, ValidSlots, TableAfter
    <3>2. CASE i = w.slot
      <4>1. w.meta = dMeta'[i] /\ w.meta.is_valid = NON_EMPTY /\ dMeta[i].is_valid = NON_EMPTY
        BY <1>0, <2>3, <3>1, <3>2 DEF ValidSlots
      <4> QED
        BY <1>2, <2>3, <3>2, <4>1 DEF Written, Keeps
    <3>3. CASE i # w.slot
      BY <1>0, <3>1, <3>3
    <3> QED
      BY <3>2, <3>3
  <2>4. ASSUME w.kind # "meta"
        PROVE  dMeta' = dMeta
    BY <2>1, <2>4 DEF TableAfter
  <2> QED
    BY <2>2, <2>3, <2>4
<1> QED
  BY <1>1, <1>2, WrittenStep

\* An image keeps its bytes while its file stays open (imgfs.h:142-147).
THEOREM OpenExtentsStay ==
    ASSUME ~ Faults
    PROVE  Spec => ExtentsStable
<1>1. TypeOK /\ OpenInv /\ [Next]_vars =>
        [formatted /\ formatted' =>
            /\ \A k \in 1 .. Len(blobs) : k <= Len(blobs') /\ blobs'[k] = blobs[k]
            /\ \A i \in ValidSlots(dMeta) \cap ValidSlots(dMeta)' :
                  dMeta[i].img_id = dMeta'[i].img_id =>
                      \A r \in Res : dMeta[i].offset[r] \in {0, dMeta'[i].offset[r]}
        ]_vars
  BY OpenStableStep DEF ValidSlots
<1> QED
  BY <1>1, TypeCorrect, OpenFilesAgree, PTL DEF Spec, ExtentsStable
=============================================================================
