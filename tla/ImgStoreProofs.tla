--------------------------- MODULE ImgStoreProofs ---------------------------
(***************************************************************************)
(* Theorems about ImgStore, for every number of slots, names and contents. *)
(***************************************************************************)
EXTENDS ImgStore, FiniteSetTheorems, WellFoundedInduction, TLAPS

-----------------------------------------------------------------------------
(* Lemmas about the operators of the model.                                *)

\* A non-empty set of slots has a greatest element, which Max returns: the last
\* slot with the same SHA that image_dedup.c:28-36 copies from exists.
LEMMA MaxOfSlots ==
    ASSUME NEW S \in SUBSET Slots, S # {}
    PROVE  /\ Max(S) \in S
           /\ \A s \in S : s <= Max(S)
<1> DEFINE Above == {MaxFiles - s : s \in S}
<1>0. \A s \in S : MaxFiles - s \in Nat
  BY SizesAssumption DEF Slots
<1>1. Above \subseteq Nat /\ Above # {}
  BY <1>0
<1> HIDE DEF Above
<1>2. PICK x \in Above : \A y \in Above : ~ (<<y, x>> \in OpToRel(<, Nat))
  BY <1>1, NatLessThanWellFounded, WFMin, Zenon
<1>3a. \A y \in Above : ~ (y < x)
  BY <1>1, <1>2, Zenon DEF OpToRel
<1>3. \A y \in Above : x <= y
  BY <1>1, <1>3a
<1>4. PICK m \in S : x = MaxFiles - m
  BY DEF Above
<1>4a. \A s \in S : MaxFiles - s \in Above
  BY DEF Above
<1>5. \A s \in S : m >= s
  BY <1>3, <1>4, <1>4a, SizesAssumption DEF Slots
<1>6. Max(S) \in S /\ \A s \in S : Max(S) >= s
  BY <1>5 DEF Max
<1> QED
  BY <1>6, SizesAssumption DEF Slots

\* The marker of damaged bytes is a blob.
LEMMA TornIsBlob == Torn \in Blob
BY DEF Torn, Blob, Res

\* fwrite at any position after the table leaves a sequence of blobs.
LEMMA WriteAtType ==
    ASSUME NEW s \in Seq(Blob), NEW o \in Nat \ {0}, NEW b \in Blob
    PROVE  WriteAt(s, o, b) \in Seq(Blob)
<1> DEFINE n == IF o > Len(s) THEN o ELSE Len(s)
<1>1. n \in Nat
  OBVIOUS
<1>2. ASSUME NEW k \in 1 .. n
      PROVE  (IF k = o THEN b ELSE IF k <= Len(s) THEN s[k] ELSE Torn) \in Blob
  <2>1. k <= Len(s) => s[k] \in Blob
    OBVIOUS
  <2> QED
    BY <2>1, TornIsBlob
<1>3. WriteAt(s, o, b) \in [1 .. n -> Blob]
  BY <1>2 DEF WriteAt
<1> QED
  BY <1>1, <1>3

\* What is left of a failed write is a write.
LEMMA RemainsType ==
    ASSUME NEW w \in Write
    PROVE  Remains(w) \subseteq Write
<1>1. NoWrite \in Write
  BY DEF Write
<1>2. ASSUME w.kind = "blob"
      PROVE  BlobWrite(w.at, Torn) \in Write
  <2>1. w.at \in Nat \ {0}
    BY <1>2 DEF Write, NoWrite, FormatWrite
  <2> QED
    BY <2>1, TornIsBlob DEF BlobWrite, Write
<1> QED
  BY <1>1, <1>2 DEF Remains

\* Writing the buffer out keeps the types of the file.
LEMMA FlushType ==
    ASSUME TypeOK, NEW w \in Write, Flush(w)
    PROVE  /\ formatted' \in BOOLEAN
           /\ dHeader' \in Header
           /\ dMeta' \in [Slots -> Metadata]
           /\ blobs' \in Seq(Blob)
<1>1. formatted' \in BOOLEAN
  BY Zenon DEF Flush, TypeOK
<1>2. dHeader' \in Header
  BY DEF Flush, TypeOK, Write, NoWrite, FormatWrite
<1>3. dMeta' \in [Slots -> Metadata]
  BY DEF Flush, TypeOK, Write, NoWrite, FormatWrite
<1>4. blobs' \in Seq(Blob)
  <2>1. w.kind = "blob" => w.at \in Nat \ {0} /\ w.blob \in Blob
    BY DEF Write, NoWrite, FormatWrite
  <2> QED
    BY <2>1, WriteAtType DEF Flush, TypeOK
<1> QED
  BY <1>1, <1>2, <1>3, <1>4

\* do_name_and_content_dedup only copies offsets from slot to slot.
LEMMA DedupType ==
    ASSUME NEW m \in [Slots -> Metadata], NEW i \in Slots
    PROVE  Dedup(m, i) \in [Slots -> Metadata]
<1>1. CASE Twins(m, i) = {}
  BY <1>1 DEF Dedup
<1>2. CASE Twins(m, i) # {}
  <2>1. Max(Twins(m, i)) \in Slots
    BY <1>2, MaxOfSlots DEF Twins, Others, ValidSlots
  <2> QED
    BY <1>2, <2>1 DEF Dedup, Metadata
<1> QED
  BY <1>1, <1>2

\* The values do_create writes have their types.
LEMMA EmptyTypes ==
    /\ EmptyHeader \in Header
    /\ EmptyTable \in [Slots -> Metadata]
    /\ NoOp \in Op
    /\ NoWrite \in Write
BY SizesAssumption DEF EmptyHeader, Header, EmptyTable, EmptyMetadata, Metadata, NoOffset,
    EMPTY, NON_EMPTY, NoOp, Op, Slots, Res, ORIG_RES, NoWrite, Write

\* uint32_t arithmetic stays in its width.
LEMMA IncDecType ==
    ASSUME NEW n \in 0 .. UINT32_MAX
    PROVE  Inc(n) \in 0 .. UINT32_MAX /\ Dec(n) \in 0 .. UINT32_MAX
BY SizesAssumption DEF Inc, Dec

\* Named writes of well-typed data are writes.
LEMMA WriteTypes ==
    /\ FormatWrite \in Write
    /\ \A h \in Header : HeaderWrite(h) \in Write
    /\ \A i \in Slots, m \in Metadata : MetaWrite(i, m) \in Write
    /\ \A o \in Nat \ {0}, b \in Blob : BlobWrite(o, b) \in Write
BY DEF Write, FormatWrite, HeaderWrite, MetaWrite, BlobWrite

\* What every way back to the caller leaves well typed.
LEMMA ReturnType ==
    ASSUME NEW o \in Op, NEW code, Return(o, code)
    PROVE  ret'.call \in Op /\ op' \in Op /\ pc' \in Control
BY EmptyTypes DEF Return, AfterCall, Control

\* do_close leaves well-typed variables.
LEMMA ForgetType ==
    ASSUME Forget
    PROVE  /\ pend' \in Write /\ header' \in Header /\ metadata' \in [Slots -> Metadata]
           /\ op' \in Op /\ pc' \in Control
BY EmptyTypes DEF Forget, Control

\* fwrite and the code that follows, for any write of the right type.
LEMMA FwriteType ==
    ASSUME TypeOK, NEW w \in Write, NEW next \in Control,
           FwriteOk(w, next) \/ FwriteLast(w) \/ FwriteFails(w)
    PROVE  pend' \in Write /\ ret'.call \in Op /\ op' \in Op /\ pc' \in Control
<1>1. CASE FwriteOk(w, next)
  BY <1>1 DEF FwriteOk, TypeOK
<1>2. CASE FwriteLast(w)
  BY <1>2, ReturnType DEF FwriteLast, TypeOK
<1>3. CASE FwriteFails(w)
  BY <1>3, ReturnType, RemainsType DEF FwriteFails, TypeOK
<1> QED
  BY <1>1, <1>2, <1>3

\* A failed fseek, after which the call returns.
LEMMA SeekFailsType ==
    ASSUME TypeOK, SeekFails, Return(op, "ERR_IO")
    PROVE  /\ pend' \in Write /\ ret'.call \in Op /\ op' \in Op /\ pc' \in Control
           /\ formatted' \in BOOLEAN /\ dHeader' \in Header
           /\ dMeta' \in [Slots -> Metadata] /\ blobs' \in Seq(Blob)
BY ReturnType, RemainsType DEF SeekFails, TypeOK, disk

\* fread at an offset yields a blob or nothing.
LEMMA BytesAtType ==
    ASSUME NEW s \in Seq(Blob), NEW o \in Nat
    PROVE  BytesAt(s, o) \subseteq Blob
BY TornIsBlob DEF BytesAt

\* Setting one offset of one slot keeps the table well typed.
LEMMA OffsetType ==
    ASSUME NEW m \in [Slots -> Metadata], NEW i \in Slots, NEW r \in Res, NEW n \in Nat
    PROVE  [m EXCEPT ![i].offset[r] = n] \in [Slots -> Metadata]
BY DEF Metadata

-----------------------------------------------------------------------------
(* Type correctness.                                                       *)

\* Before the first command the types hold.
LEMMA InitType == Init => TypeOK
<1> SUFFICES ASSUME Init PROVE TypeOK
  OBVIOUS
<1>0. formatted \in BOOLEAN
  BY Zenon DEF Init
<1>1. blobs \in Seq(Blob)
  BY DEF Init
<1>2. served \in [id : Ids \cup {NoId}, image : Blob]
  BY TornIsBlob DEF Init
<1>3. ret.call \in Op
  BY EmptyTypes DEF Init, NoRet
<1> QED
  BY <1>0, <1>1, <1>2, <1>3, EmptyTypes DEF Init, TypeOK, Control

\* The part of do_insert before its first stdio call keeps the types.
LEMMA DoInsertType ==
    ASSUME TypeOK, NEW id \in Ids, NEW c \in Contents \cup BadContents, DoInsert(id, c)
    PROVE  TypeOK'
<1> DEFINE o == [NoOp EXCEPT !.call = "insert", !.id = id, !.content = c]
<1>1. o \in Op /\ \A i \in Slots : [o EXCEPT !.slot = i] \in Op
  BY EmptyTypes DEF Op, NoOp
<1>2. \A i \in Slots, v \in {EMPTY, NON_EMPTY} :
         Filled(metadata, i, id, c, v) \in [Slots -> Metadata]
  BY DEF TypeOK, Filled, Metadata, NoOffset
<1>3. CASE Full(header) /\ Return(o, "ERR_IMGFS_FULL") /\ UNCHANGED metadata
  BY <1>1, <1>3, ReturnType DEF DoInsert, TypeOK, disk
<1>4. CASE pc' = "overrun" /\ UNCHANGED <<metadata, op, ret>>
  BY <1>4 DEF DoInsert, TypeOK, disk, Control
<1>5. ASSUME NEW i \in Slots, metadata' = Filled(metadata, i, id, c, EMPTY),
             Return(o, "ERR_IMGLIB")
      PROVE  TypeOK'
  BY <1>1, <1>2, <1>5, ReturnType DEF DoInsert, TypeOK, disk
<1>6. ASSUME NEW i \in Slots,
             metadata' = Dedup(Filled(metadata, i, id, c, NON_EMPTY), i),
             \/ Return(o, "ERR_DUPLICATE_ID")
             \/ /\ op' = [o EXCEPT !.slot = i]
                /\ pc' \in {"ins_blob", "ins_header"}
                /\ UNCHANGED ret
      PROVE  TypeOK'
  <2>1. metadata' \in [Slots -> Metadata]
    BY <1>2, <1>6, DedupType
  <2>2. ret'.call \in Op /\ op' \in Op /\ pc' \in Control
    BY <1>1, <1>6, ReturnType DEF TypeOK, Control
  <2> QED
    BY <2>1, <2>2 DEF DoInsert, TypeOK, disk
<1> HIDE DEF o
<1> QED
  BY <1>3, <1>4, <1>5, <1>6 DEF DoInsert, o

\* Every step keeps the types.
LEMMA NextType ==
    ASSUME TypeOK, [Next]_vars
    PROVE  TypeOK'
<1>1. CASE DoCreate
  <2>1. [NoOp EXCEPT !.call = "create"] \in Op
    BY EmptyTypes DEF Op, NoOp
  <2>2. /\ formatted' \in BOOLEAN /\ dHeader' \in Header
        /\ dMeta' \in [Slots -> Metadata] /\ blobs' \in Seq(Blob)
    <3>1. Truncate \/ UNCHANGED disk
      BY <1>1 DEF DoCreate
    <3>2. CASE Truncate
      <4>1. formatted' \in BOOLEAN
        BY <3>2, Zenon DEF Truncate
      <4>2. blobs' \in Seq(Blob)
        BY <3>2 DEF Truncate
      <4> QED
        BY <3>2, <4>1, <4>2, EmptyTypes DEF Truncate
    <3>3. CASE UNCHANGED disk
      BY <3>3 DEF disk, TypeOK
    <3> QED
      BY <3>1, <3>2, <3>3
  <2>3. pc' \in Control /\ op' \in Op /\ ret'.call \in Op /\ pend' \in Write
    <3>1. CASE pend' = FormatWrite /\ Return([NoOp EXCEPT !.call = "create"], "ERR_NONE")
      BY <2>1, <3>1, WriteTypes, ReturnType
    <3>2. CASE \E err \in {"ERR_OUT_OF_MEMORY", "ERR_IO"} : CreateFails(err)
      BY <2>1, <3>2, EmptyTypes, WriteTypes DEF CreateFails, Control
    <3> QED
      BY <1>1, <3>1, <3>2 DEF DoCreate
  <2> QED
    BY <1>1, <2>2, <2>3, EmptyTypes DEF DoCreate, TypeOK
<1>2. CASE DoOpen
  <2>1. [NoOp EXCEPT !.call = "open"] \in Op
    BY EmptyTypes DEF Op, NoOp
  <2>2. ret'.call \in Op /\ pc' \in Control
    BY <1>2, <2>1, EmptyTypes DEF DoOpen, NoRet, Control, TypeOK
  <2> QED
    BY <1>2, <2>2 DEF DoOpen, TypeOK, disk, memory
<1>3. CASE DoClose
  <2>1. PICK w \in Write : Flush(w)
    BY <1>3, RemainsType DEF DoClose, TypeOK
  <2> QED
    BY <1>3, <2>1, FlushType, ForgetType DEF DoClose, TypeOK
<1>4. CASE Crash
  <2>1. PICK w \in Write : Flush(w)
    BY <1>4, RemainsType DEF Crash, TypeOK
  <2>2. ret'.call \in Op
    BY <1>4, EmptyTypes DEF Crash, NoRet
  <2> QED
    BY <1>4, <2>1, <2>2, FlushType, ForgetType DEF Crash, TypeOK
<1>5. CASE \E id \in Ids, c \in Contents \cup BadContents : DoInsert(id, c)
  BY <1>5, DoInsertType
<1>6. CASE InsertBlob
  <2> DEFINE w == BlobWrite(End(blobs'), [content |-> op.content, res |-> ORIG_RES])
  <2>1. CASE SeekFails /\ Return(op, "ERR_IO") /\ UNCHANGED metadata
    BY <1>6, <2>1, SeekFailsType DEF InsertBlob, TypeOK
  <2>2. CASE /\ Seek
             /\ metadata' = [metadata EXCEPT ![op.slot].offset[ORIG_RES] = w.at]
             /\ FwriteOk(w, "ins_header") \/ FwriteFails(w)
    <3>1. blobs' \in Seq(Blob)
      BY <2>2, FlushType DEF Seek, TypeOK
    <3>2. w \in Write /\ w.at \in Nat
      <4>1. End(blobs') \in Nat \ {0}
        BY <3>1 DEF End
      <4>2. [content |-> op.content, res |-> ORIG_RES] \in Blob
        BY DEF TypeOK, Op, Blob, Res
      <4> QED
        BY <4>1, <4>2, WriteTypes DEF BlobWrite
    <3>3. metadata' \in [Slots -> Metadata]
      BY <2>2, <3>2, OffsetType DEF TypeOK, Op, Res
    <3>4. pend' \in Write /\ ret'.call \in Op /\ op' \in Op /\ pc' \in Control
      BY <2>2, <3>2, FwriteType DEF Control
    <3> HIDE DEF w
    <3> QED
      BY <1>6, <2>2, <3>1, <3>3, <3>4, FlushType DEF InsertBlob, Seek, TypeOK
  <2> QED
    BY <1>6, <2>1, <2>2 DEF InsertBlob
<1>7. CASE InsertHeader
  <2> DEFINE h == Counted(header)
  <2>1. h \in Header /\ HeaderWrite(h) \in Write
    BY IncDecType, WriteTypes DEF TypeOK, Header, Counted
  <2>2. CASE SeekFails /\ Return(op, "ERR_IO")
    BY <1>7, <2>1, <2>2, SeekFailsType DEF InsertHeader, WriteHeader, TypeOK
  <2>3. CASE Seek /\ (FwriteOk(HeaderWrite(h), "ins_meta") \/ FwriteFails(HeaderWrite(h)))
    <3>1. pend' \in Write /\ ret'.call \in Op /\ op' \in Op /\ pc' \in Control
      BY <2>1, <2>3, FwriteType DEF Control
    <3> QED
      BY <1>7, <2>1, <2>3, <3>1, FlushType DEF InsertHeader, WriteHeader, Seek, TypeOK
  <2> QED
    BY <1>7, <2>2, <2>3 DEF InsertHeader, WriteHeader
<1>8. CASE InsertMeta
  <2> DEFINE w == MetaWrite(op.slot, metadata[op.slot])
  <2>1. w \in Write
    BY WriteTypes DEF TypeOK, Op
  <2>2. CASE SeekFails /\ Return(op, "ERR_IO")
    BY <1>8, <2>2, SeekFailsType DEF InsertMeta, TypeOK, memory
  <2>3. CASE Seek /\ (FwriteLast(w) \/ FwriteFails(w))
    <3>1. pend' \in Write /\ ret'.call \in Op /\ op' \in Op /\ pc' \in Control
      BY <2>1, <2>3, FwriteType DEF Control
    <3> QED
      BY <1>8, <2>3, <3>1, FlushType DEF InsertMeta, Seek, TypeOK, memory
  <2> QED
    BY <1>8, <2>2, <2>3 DEF InsertMeta
<1>9. CASE \E id \in Ids : DoDelete(id)
  <2>1. PICK id \in Ids : DoDelete(id)
    BY <1>9
  <2> DEFINE o == [NoOp EXCEPT !.call = "delete", !.id = id]
  <2>2. o \in Op /\ \A i \in Slots : [o EXCEPT !.slot = i] \in Op
    BY EmptyTypes DEF Op, NoOp
  <2>3. ret'.call \in Op /\ op' \in Op /\ pc' \in Control
    BY <2>1, <2>2, ReturnType DEF DoDelete, TypeOK, Control
  <2> QED
    BY <2>1, <2>3 DEF DoDelete, TypeOK, disk, memory
<1>10. CASE DeleteMeta
  <2> DEFINE w == MetaWrite(op.slot, [metadata[op.slot] EXCEPT !.is_valid = EMPTY])
  <2>0. op.slot \in Slots /\ metadata[op.slot] \in Metadata
    BY DEF TypeOK, Op
  <2>0a. [metadata[op.slot] EXCEPT !.is_valid = EMPTY] \in Metadata
    BY <2>0 DEF Metadata
  <2>1. w \in Write
    BY <2>0, <2>0a, WriteTypes
  <2>2. [metadata EXCEPT ![op.slot].is_valid = EMPTY] \in [Slots -> Metadata]
    <3>1. [metadata EXCEPT ![op.slot].is_valid = EMPTY]
          = [metadata EXCEPT ![op.slot] = [metadata[op.slot] EXCEPT !.is_valid = EMPTY]]
      BY <2>0, Zenon DEF TypeOK
    <3> QED
      BY <2>0, <2>0a, <3>1 DEF TypeOK
  <2>3. CASE SeekFails /\ Return(op, "ERR_IO") /\ UNCHANGED metadata
    BY <1>10, <2>3, SeekFailsType DEF DeleteMeta, TypeOK
  <2>4. CASE Seek /\ (FwriteOk(w, "del_header") \/ FwriteFails(w))
    <3>1. pend' \in Write /\ ret'.call \in Op /\ op' \in Op /\ pc' \in Control
      BY <2>1, <2>4, FwriteType DEF Control
    <3>2. metadata' \in [Slots -> Metadata]
      BY <1>10, <2>2 DEF DeleteMeta, TypeOK
    <3> QED
      BY <1>10, <2>4, <3>1, <3>2, FlushType DEF DeleteMeta, Seek, TypeOK
  <2> QED
    BY <1>10, <2>3, <2>4 DEF DeleteMeta
<1>11. CASE DeleteHeader
  <2> DEFINE h == [nb_files |-> Dec(header.nb_files), version |-> Inc(header.version)]
  <2>1. h \in Header /\ HeaderWrite(h) \in Write
    BY IncDecType, WriteTypes DEF TypeOK, Header
  <2>2. CASE SeekFails /\ Return(op, "ERR_IO") /\ UNCHANGED header
    BY <1>11, <2>2, SeekFailsType DEF DeleteHeader, WriteLastHeader, TypeOK
  <2>3. CASE Seek /\ header' = h /\ (FwriteLast(HeaderWrite(h)) \/ FwriteFails(HeaderWrite(h)))
    <3>1. pend' \in Write /\ ret'.call \in Op /\ op' \in Op /\ pc' \in Control
      BY <2>1, <2>3, FwriteType DEF Control
    <3> QED
      BY <1>11, <2>1, <2>3, <3>1, FlushType DEF DeleteHeader, WriteLastHeader, Seek, TypeOK
  <2> QED
    BY <1>11, <2>2, <2>3 DEF DeleteHeader, WriteLastHeader
<1>12. CASE \E id \in Ids, res \in Requested : DoRead(id, res)
  <2>1. PICK id \in Ids, res \in Requested : DoRead(id, res)
    BY <1>12
  <2> DEFINE o == [NoOp EXCEPT !.call = "read", !.id = id]
  <2>2. o \in Op /\ \A i \in Slots, r \in Res : [o EXCEPT !.slot = i, !.res = r] \in Op
    BY EmptyTypes DEF Op, NoOp
  <2>3. ASSUME NEW code, Return(o, code),
               UNCHANGED served \/ served' = [id |-> id, image |-> Torn]
        PROVE  TypeOK'
    <3>1. ret'.call \in Op /\ op' \in Op /\ pc' \in Control
      BY <2>2, <2>3, ReturnType
    <3>2. served' \in [id : Ids \cup {NoId}, image : Blob]
      BY <2>3, TornIsBlob DEF TypeOK
    <3>3. UNCHANGED <<disk, memory, pend>>
      BY <2>1 DEF DoRead
    <3> QED
      BY <3>1, <3>2, <3>3 DEF TypeOK, disk, memory
  <2>4. ASSUME NEW i \in Slots, res \in Res, op' = [o EXCEPT !.slot = i, !.res = res],
               pc' \in {"rs_load", "rd_data"}, UNCHANGED <<ret, served>>
        PROVE  TypeOK'
    <3>1. ret'.call \in Op /\ op' \in Op /\ pc' \in Control
      BY <2>2, <2>4 DEF TypeOK, Control
    <3>2. UNCHANGED <<disk, memory, pend>>
      BY <2>1 DEF DoRead
    <3> QED
      BY <2>4, <3>1, <3>2 DEF TypeOK, disk, memory
  <2> HIDE DEF o
  <2> QED
    BY <2>1, <2>3, <2>4 DEF DoRead, o
<1>13. CASE ResizeBlob
  <2>1. CASE SeekFails /\ Return(op, "ERR_IO") /\ UNCHANGED metadata
    BY <1>13, <2>1, SeekFailsType DEF ResizeBlob, TypeOK
  <2>2. CASE Seek /\ pend' = NoWrite /\ UNCHANGED metadata
             /\ \E code \in {"ERR_IO", "ERR_IMGLIB", "ERR_OUT_OF_MEMORY"} : Return(op, code)
    BY <1>13, <2>2, FlushType, ReturnType, EmptyTypes DEF ResizeBlob, Seek, TypeOK
  <2>3. ASSUME Seek,
               NEW b \in BytesAt(blobs', metadata[op.slot].offset[ORIG_RES]),
               metadata' = [metadata EXCEPT ![op.slot].offset[op.res]
                              = BlobWrite(End(blobs'), [b EXCEPT !.res = op.res]).at],
               \/ FwriteOk(BlobWrite(End(blobs'), [b EXCEPT !.res = op.res]), "rs_meta")
               \/ FwriteFails(BlobWrite(End(blobs'), [b EXCEPT !.res = op.res]))
        PROVE  TypeOK'
    <3> DEFINE w == BlobWrite(End(blobs'), [b EXCEPT !.res = op.res])
    <3>1. blobs' \in Seq(Blob)
      BY <2>3, FlushType DEF Seek, TypeOK
    <3>2. w \in Write /\ w.at \in Nat
      <4>1. End(blobs') \in Nat \ {0}
        BY <3>1 DEF End
      <4>2. metadata[op.slot].offset[ORIG_RES] \in Nat
        BY DEF TypeOK, Op, Metadata, Res
      <4>3. [b EXCEPT !.res = op.res] \in Blob
        <5>1. b \in Blob
          BY <2>3, <3>1, <4>2, BytesAtType
        <5> QED
          BY <5>1 DEF TypeOK, Op, Blob
      <4> QED
        BY <4>1, <4>3, WriteTypes DEF BlobWrite
    <3>3. metadata' \in [Slots -> Metadata]
      BY <2>3, <3>2, OffsetType DEF TypeOK, Op
    <3>4. pend' \in Write /\ ret'.call \in Op /\ op' \in Op /\ pc' \in Control
      BY <2>3, <3>2, FwriteType DEF Control
    <3> QED
      BY <1>13, <2>3, <3>1, <3>3, <3>4, FlushType DEF ResizeBlob, Seek, TypeOK
  <2> QED
    BY <1>13, <2>1, <2>2, <2>3 DEF ResizeBlob
<1>14. CASE ResizeMeta
  <2> DEFINE w == MetaWrite(op.slot, metadata[op.slot])
  <2>1. w \in Write
    BY WriteTypes DEF TypeOK, Op
  <2>2. CASE SeekFails /\ Return(op, "ERR_IO")
    BY <1>14, <2>2, SeekFailsType DEF ResizeMeta, TypeOK, memory
  <2>3. CASE Seek /\ (FwriteOk(w, "rd_data") \/ FwriteFails(w))
    <3>1. pend' \in Write /\ ret'.call \in Op /\ op' \in Op /\ pc' \in Control
      BY <2>1, <2>3, FwriteType DEF Control
    <3> QED
      BY <1>14, <2>3, <3>1, FlushType DEF ResizeMeta, Seek, TypeOK, memory
  <2> QED
    BY <1>14, <2>2, <2>3 DEF ResizeMeta
<1>15. CASE ReadData
  <2>1. CASE SeekFails /\ Return(op, "ERR_IO") /\ UNCHANGED served
    BY <1>15, <2>1, SeekFailsType DEF ReadData, TypeOK, memory
  <2>2. ASSUME Seek, pend' = NoWrite, NEW code, Return(op, code),
               \/ UNCHANGED served
               \/ \E b \in BytesAt(blobs', metadata[op.slot].offset[op.res]) :
                     served' = [id |-> op.id, image |-> b]
        PROVE  TypeOK'
    <3>1. blobs' \in Seq(Blob)
      BY <2>2, FlushType DEF Seek, TypeOK
    <3>2. metadata[op.slot].offset[op.res] \in Nat
      BY DEF TypeOK, Op, Metadata
    <3>3. served' \in [id : Ids \cup {NoId}, image : Blob]
      BY <2>2, <3>1, <3>2, BytesAtType DEF TypeOK, Op
    <3> QED
      BY <1>15, <2>2, <3>1, <3>3, FlushType, ReturnType, EmptyTypes DEF ReadData, Seek, TypeOK, memory
  <2> QED
    BY <1>15, <2>1, <2>2 DEF ReadData
<1>16. CASE DoList
  <2>1. [NoOp EXCEPT !.call = "list"] \in Op
    BY EmptyTypes DEF Op, NoOp
  <2> QED
    BY <1>16, <2>1, ReturnType DEF DoList, TypeOK, disk, memory
<1>17. CASE UNCHANGED vars
  BY <1>17 DEF TypeOK, vars, disk, memory
<1> QED
  BY <1>1, <1>2, <1>3, <1>4, <1>5, <1>6, <1>7, <1>8, <1>9, <1>10, <1>11, <1>12,
     <1>13, <1>14, <1>15, <1>16, <1>17 DEF Next

\* The variables keep their types in every execution, crashes and failures
\* included, for any number of slots.
THEOREM TypeCorrect == Spec => []TypeOK
BY InitType, NextType, PTL DEF Spec

-----------------------------------------------------------------------------
(* Counting the valid slots.                                               *)

\* There are at most max_files valid slots, and all only if all slots are valid
\* (what do_insert's scan relies on, imgfs_insert.c:15-18).
LEMMA ValidSlotsFinite ==
    ASSUME NEW m
    PROVE  /\ IsFiniteSet(ValidSlots(m))
           /\ Count(m) \in Nat
           /\ Count(m) <= MaxFiles
           /\ Count(m) = MaxFiles <=> ValidSlots(m) = Slots
<1>1. IsFiniteSet(Slots) /\ Cardinality(Slots) = MaxFiles
  BY SizesAssumption, FS_Interval DEF Slots
<1>2. ValidSlots(m) \in SUBSET Slots
  BY DEF ValidSlots
<1> QED
  BY <1>1, <1>2, FS_Subset, FS_CardinalityType DEF Count

\* What writing one slot does to the number of valid slots.
LEMMA OneSlotCount ==
    ASSUME NEW m \in [Slots -> Metadata], NEW i \in Slots, NEW v \in Metadata
    PROVE  /\ Count([m EXCEPT ![i] = v]) <= Count(m) + 1
           /\ v.is_valid = m[i].is_valid => Count([m EXCEPT ![i] = v]) = Count(m)
           /\ v.is_valid = EMPTY /\ m[i].is_valid = NON_EMPTY =>
                 Count([m EXCEPT ![i] = v]) = Count(m) - 1
<1> DEFINE w == [m EXCEPT ![i] = v]
<1> SUFFICES /\ Count(w) <= Count(m) + 1
             /\ v.is_valid = m[i].is_valid => Count(w) = Count(m)
             /\ v.is_valid = EMPTY /\ m[i].is_valid = NON_EMPTY => Count(w) = Count(m) - 1
  OBVIOUS
<1>1. IsFiniteSet(ValidSlots(m)) /\ Count(m) \in Nat
  BY ValidSlotsFinite
<1>2. CASE v.is_valid = NON_EMPTY
  <2>1. ValidSlots(w) = ValidSlots(m) \cup {i}
    BY <1>2 DEF ValidSlots
  <2>2. m[i].is_valid = NON_EMPTY <=> i \in ValidSlots(m)
    BY DEF ValidSlots
  <2>3. Count(w) = IF i \in ValidSlots(m) THEN Count(m) ELSE Count(m) + 1
    BY <1>1, <2>1, FS_AddElement DEF Count
  <2> HIDE DEF w
  <2>4. v.is_valid # EMPTY
    BY <1>2 DEF EMPTY, NON_EMPTY
  <2> QED
    BY <1>1, <1>2, <2>2, <2>3, <2>4
<1>3. CASE v.is_valid # NON_EMPTY
  <2>1. ValidSlots(w) = ValidSlots(m) \ {i}
    BY <1>3 DEF ValidSlots
  <2>2. m[i].is_valid = NON_EMPTY <=> i \in ValidSlots(m)
    BY DEF ValidSlots
  <2>3. Count(w) = IF i \in ValidSlots(m) THEN Count(m) - 1 ELSE Count(m)
    BY <1>1, <2>1, FS_RemoveElement DEF Count
  <2> HIDE DEF w
  <2> QED
    BY <1>1, <1>3, <2>2, <2>3
<1> QED
  BY <1>2, <1>3

\* The header of a new file covers its empty table.
LEMMA EmptyCovers == Covers(EmptyHeader, EmptyTable)
<1>1. ValidSlots(EmptyTable) = {}
  BY DEF ValidSlots, EmptyTable, EmptyMetadata, EMPTY, NON_EMPTY
<1> QED
  BY <1>1, FS_EmptySet, SizesAssumption DEF Covers, Count, EmptyHeader

\* Writing out a safe write keeps the file covered.
LEMMA FlushCovers ==
    ASSUME NEW w, SafeWrite(w, dHeader, dMeta), Covers(dHeader, dMeta), Flush(w)
    PROVE  Covers(dHeader', dMeta')
BY DEF SafeWrite, Flush

\* A write that is lost, or cut off inside a blob, cannot uncover the file.
LEMMA LostIsSafe ==
    ASSUME NEW w, NEW h, NEW m, NEW x \in Remains(w) \ {w}
    PROVE  SafeWrite(x, h, m)
<1>1. x = NoWrite \/ x = BlobWrite(w.at, Torn)
  BY Zenon DEF Remains
<1>2. CASE x = NoWrite
  BY <1>2 DEF SafeWrite, NoWrite
<1>3. CASE x = BlobWrite(w.at, Torn)
  BY <1>3 DEF SafeWrite, BlobWrite
<1> QED
  BY <1>1, <1>2, <1>3

\* Nor can whatever is left of a safe write that was cut short.
LEMMA RemainsSafe ==
    ASSUME NEW w, NEW h, NEW m, SafeWrite(w, h, m), NEW x \in Remains(w)
    PROVE  SafeWrite(x, h, m)
<1>1. CASE x = w
  BY <1>1
<1>2. CASE x # w
  BY <1>2, LostIsSafe
<1> QED
  BY <1>1, <1>2

-----------------------------------------------------------------------------
(* The inductive invariant of the one-call-per-file mode.                  *)

\* Once a call is over nothing is known but that the file is covered, now and
\* once the buffer is written out.
LEMMA DoneInv ==
    ASSUME pc' = "done", Covers(dHeader', dMeta'), SafeWrite(pend', dHeader', dMeta')
    PROVE  CommandInv'
BY DEF CommandInv, ScanInBounds, NothingPending, Loaded, Inserting, Deleting, Resizing

\* A call that returns having written nothing more to the file.
LEMMA ReturnInv ==
    ASSUME CommandInv, ~ LongLived, NEW o, NEW code, Return(o, code),
           UNCHANGED <<dHeader, dMeta>>, pend' \in Remains(pend)
    PROVE  CommandInv'
<1>1. pc' = "done"
  BY DEF Return, AfterCall
<1>2. SafeWrite(pend', dHeader', dMeta')
  BY RemainsSafe DEF CommandInv
<1> QED
  BY <1>1, <1>2, DoneInv DEF CommandInv

\* A failed fseek, after which the call returns ERR_IO.
LEMMA SeekFailsInv ==
    ASSUME CommandInv, ~ LongLived, SeekFails, Return(op, "ERR_IO")
    PROVE  CommandInv'
BY ReturnInv DEF SeekFails, disk

\* The last fwrite of a call, or one that fails.
LEMMA LastWriteInv ==
    ASSUME ~ LongLived, NEW w, Covers(dHeader', dMeta'),
           \/ FwriteLast(w) /\ SafeWrite(w, dHeader', dMeta')
           \/ FwriteFails(w)
    PROVE  CommandInv'
<1>1. pc' = "done"
  BY DEF FwriteLast, FwriteFails, Return, AfterCall
<1>2. SafeWrite(pend', dHeader', dMeta')
  BY LostIsSafe DEF FwriteLast, FwriteFails
<1> QED
  BY <1>1, <1>2, DoneInv

\* Before the first command there is no file and nothing is pending.
LEMMA InitInv == Init => CommandInv
BY EmptyCovers DEF Init, CommandInv, SafeWrite, NoWrite, ScanInBounds, NothingPending,
    Loaded, Inserting, Deleting, Resizing

\* do_insert up to its first stdio call: a count below max_files means a free
\* slot, because the table in memory is still the file's.
LEMMA DoInsertInv ==
    ASSUME TypeOK, CommandInv, ~ LongLived,
           NEW id \in Ids, NEW c \in Contents \cup BadContents, DoInsert(id, c)
    PROVE  CommandInv'
<1> DEFINE o == [NoOp EXCEPT !.call = "insert", !.id = id, !.content = c]
<1>1. pend = NoWrite /\ header = dHeader /\ metadata = dMeta
  BY DEF DoInsert, CommandInv, NothingPending, Loaded
<1>2. UNCHANGED <<dHeader, dMeta, header, pend>>
  BY DEF DoInsert, disk
<1>3. ASSUME NEW code, Return(o, code)
      PROVE  CommandInv'
  BY <1>2, <1>3, ReturnInv DEF Remains
<1>4. ASSUME ~ Full(header) PROVE ValidSlots(metadata) # Slots
  BY <1>1, <1>4, ValidSlotsFinite DEF Full, CommandInv, Covers, TypeOK, Header
<1>5. ASSUME ~ Full(header), pc' \in {"ins_blob", "ins_header"}
      PROVE  CommandInv'
  <2>1. header' = dHeader' /\ dHeader'.nb_files < MaxFiles
    BY <1>1, <1>2, <1>5, SizesAssumption DEF Full, TypeOK, Header
  <2> QED
    BY <1>1, <1>2, <1>5, <2>1 DEF CommandInv, NothingPending, NoWrite, Loaded, Inserting,
       Deleting, Resizing, ScanInBounds
<1> HIDE DEF o
<1> QED
  BY <1>3, <1>4, <1>5 DEF DoInsert, o

\* do_insert from there on: the count goes to the buffer before the slot.
LEMMA InsertStepsInv ==
    ASSUME TypeOK, CommandInv, ~ LongLived, InsertBlob \/ InsertHeader \/ InsertMeta
    PROVE  CommandInv'
<1>1. CASE InsertBlob
  <2> DEFINE w == BlobWrite(End(blobs'), [content |-> op.content, res |-> ORIG_RES])
  <2>1. header = dHeader /\ dHeader.nb_files < MaxFiles /\ pend = NoWrite
    BY <1>1 DEF InsertBlob, CommandInv, Inserting, NothingPending
  <2>2. CASE SeekFails /\ Return(op, "ERR_IO")
    BY <2>2, SeekFailsInv
  <2>3. CASE Seek /\ FwriteOk(w, "ins_header")
    <3>1. UNCHANGED <<dHeader, dMeta, header>>
      BY <1>1, <2>1, <2>3 DEF InsertBlob, Seek, Flush, NoWrite
    <3>2. pend'.kind = "blob" /\ pc' = "ins_header"
      BY <2>3 DEF FwriteOk, BlobWrite
    <3> QED
      BY <2>1, <3>1, <3>2 DEF CommandInv, SafeWrite, NothingPending, Loaded, Inserting,
         Deleting, Resizing, ScanInBounds
  <2>4. CASE Seek /\ FwriteFails(w)
    <3>1. UNCHANGED <<dHeader, dMeta>>
      BY <2>1, <2>4 DEF Seek, Flush, NoWrite
    <3> HIDE DEF w
    <3> QED
      BY <2>4, <3>1, LastWriteInv DEF CommandInv
  <2> QED
    BY <1>1, <2>2, <2>3, <2>4 DEF InsertBlob
<1>2. CASE InsertHeader
  <2> DEFINE h == Counted(header)
  <2>1. header = dHeader /\ dHeader.nb_files < MaxFiles /\ pend.kind \in {"none", "blob"}
    BY <1>2 DEF InsertHeader, WriteHeader, CommandInv, Inserting, NothingPending
  <2>2. CASE SeekFails /\ Return(op, "ERR_IO")
    BY <2>2, SeekFailsInv
  <2>3. CASE Seek
    <3>1. UNCHANGED <<dHeader, dMeta>> /\ header' = h
      BY <1>2, <2>1, <2>3 DEF InsertHeader, WriteHeader, Seek, Flush
    <3>2. h.nb_files = dHeader.nb_files + 1
      BY <2>1, SizesAssumption DEF Counted, Inc, TypeOK, Header
    <3>3. SafeWrite(HeaderWrite(h), dHeader', dMeta')
      <4>1. Covers(h, dMeta)
        BY <2>1, <3>2, ValidSlotsFinite, SizesAssumption DEF CommandInv, Covers, TypeOK, Header
      <4> QED
        BY <3>1, <4>1 DEF SafeWrite, HeaderWrite
    <3>4. CASE FwriteOk(HeaderWrite(h), "ins_meta")
      BY <2>1, <3>1, <3>2, <3>3, <3>4 DEF FwriteOk, CommandInv, NothingPending, Loaded,
         Inserting, Deleting, Resizing, ScanInBounds
    <3>5. CASE FwriteFails(HeaderWrite(h))
      BY <3>1, <3>5, LastWriteInv DEF CommandInv
    <3> QED
      BY <1>2, <2>3, <3>4, <3>5, SeekFailsInv DEF InsertHeader, WriteHeader
  <2> QED
    BY <1>2, <2>2, <2>3 DEF InsertHeader, WriteHeader
<1>3. CASE InsertMeta
  <2> DEFINE w == MetaWrite(op.slot, metadata[op.slot])
  <2>1. pend = HeaderWrite(header) /\ header.nb_files = dHeader.nb_files + 1
        /\ dHeader.nb_files < MaxFiles
    BY <1>3 DEF InsertMeta, CommandInv, Inserting
  <2>2. CASE SeekFails /\ Return(op, "ERR_IO")
    BY <2>2, SeekFailsInv
  <2>3. CASE Seek /\ (FwriteLast(w) \/ FwriteFails(w))
    <3>1. dHeader' = header /\ dMeta' = dMeta
      BY <2>1, <2>3 DEF Seek, Flush, HeaderWrite
    <3>2. Covers(dHeader', dMeta')
      <4>1. Count(dMeta) \in Nat /\ Count(dMeta) <= dHeader.nb_files
        BY ValidSlotsFinite DEF CommandInv, Covers
      <4>2. Covers(header, dMeta)
        BY <2>1, <4>1, SizesAssumption DEF Covers, TypeOK, Header
      <4> QED
        BY <3>1, <4>2
    <3>3. SafeWrite(w, dHeader', dMeta')
      <4>1. Count([dMeta EXCEPT ![op.slot] = metadata[op.slot]]) <= Count(dMeta) + 1
        BY OneSlotCount DEF TypeOK, Op
      <4>2. Covers(header, [dMeta EXCEPT ![op.slot] = metadata[op.slot]])
        BY <2>1, <4>1, ValidSlotsFinite, SizesAssumption DEF CommandInv, Covers, TypeOK, Header
      <4> QED
        BY <3>1, <4>2 DEF SafeWrite, MetaWrite
    <3> HIDE DEF w
    <3> QED
      BY <2>3, <3>2, <3>3, LastWriteInv
  <2> QED
    BY <1>3, <2>2, <2>3 DEF InsertMeta
<1> QED
  BY <1>1, <1>2, <1>3

\* do_delete: the slot goes to the buffer before the count, and the slot it
\* empties was valid, so the count it lowers was not zero.
LEMMA DeleteStepsInv ==
    ASSUME TypeOK, CommandInv, ~ LongLived,
           (\E id \in Ids : DoDelete(id)) \/ DeleteMeta \/ DeleteHeader
    PROVE  CommandInv'
<1>1. CASE \E id \in Ids : DoDelete(id)
  <2>1. PICK id \in Ids : DoDelete(id)
    BY <1>1
  <2> DEFINE o == [NoOp EXCEPT !.call = "delete", !.id = id]
  <2>2. UNCHANGED <<dHeader, dMeta, header, metadata, pend>>
    BY <2>1 DEF DoDelete, disk, memory
  <2>3. pend = NoWrite /\ header = dHeader /\ metadata = dMeta
    BY <2>1 DEF DoDelete, CommandInv, NothingPending, Loaded
  <2>4. CASE Return(o, "ERR_IMAGE_NOT_FOUND")
    BY <2>2, <2>4, ReturnInv DEF Remains
  <2>5. ASSUME pc' = "del_meta", NEW i \in Slots, Holds(i, id), op' = [o EXCEPT !.slot = i]
        PROVE  CommandInv'
    <3>1. op'.slot = i
      BY <2>5 DEF NoOp
    <3>2. dMeta'[op'.slot].is_valid = NON_EMPTY
      BY <2>2, <2>3, <2>5, <3>1 DEF Holds, TypeOK, Metadata
    <3> QED
      BY <2>2, <2>3, <2>5, <3>2 DEF CommandInv, NothingPending, Loaded, Inserting, Deleting,
         Resizing, ScanInBounds
  <2> HIDE DEF o
  <2> QED
    BY <2>1, <2>4, <2>5 DEF DoDelete, o
<1>2. CASE DeleteMeta
  <2> DEFINE w == MetaWrite(op.slot, [metadata[op.slot] EXCEPT !.is_valid = EMPTY])
  <2>1. /\ pend = NoWrite /\ header = dHeader /\ metadata = dMeta
        /\ dMeta[op.slot].is_valid = NON_EMPTY
    BY <1>2 DEF DeleteMeta, CommandInv, NothingPending, Loaded, Deleting
  <2>2. CASE SeekFails /\ Return(op, "ERR_IO")
    BY <2>2, SeekFailsInv
  <2>3. CASE Seek /\ (FwriteOk(w, "del_header") \/ FwriteFails(w))
    <3>1. UNCHANGED <<dHeader, dMeta, header>>
      BY <1>2, <2>1, <2>3 DEF DeleteMeta, Seek, Flush, NoWrite
    <3>2. SafeWrite(w, dHeader', dMeta')
      <4> DEFINE v == [metadata[op.slot] EXCEPT !.is_valid = EMPTY]
      <4>1. v \in Metadata /\ v.is_valid = EMPTY
        <5>1. metadata[op.slot] \in Metadata
          BY DEF TypeOK, Op
        <5> QED
          BY <5>1 DEF Metadata
      <4>2. Count([dMeta EXCEPT ![op.slot] = v]) = Count(dMeta) - 1
        <5>1. op.slot \in Slots /\ dMeta \in [Slots -> Metadata]
          BY DEF TypeOK, Op
        <5> HIDE DEF v
        <5> QED
          BY <2>1, <4>1, <5>1, OneSlotCount
      <4> HIDE DEF v
      <4>3. Count(dMeta) \in Nat
        BY ValidSlotsFinite
      <4>4. Covers(dHeader, [dMeta EXCEPT ![op.slot] = v])
        BY <4>2, <4>3 DEF CommandInv, Covers, TypeOK, Header
      <4> QED
        BY <3>1, <4>4 DEF SafeWrite, MetaWrite, v
    <3>3. CASE FwriteOk(w, "del_header")
      <4>1. /\ pc' = "del_header" /\ op' = op /\ pend'.kind = "meta" /\ pend'.slot = op.slot
            /\ pend'.meta.is_valid = EMPTY
        <5>1. metadata[op.slot] \in Metadata
          BY DEF TypeOK, Op
        <5>2. [metadata[op.slot] EXCEPT !.is_valid = EMPTY].is_valid = EMPTY
          BY <5>1 DEF Metadata
        <5> QED
          BY <3>3, <5>2 DEF FwriteOk, MetaWrite
      <4>2. SafeWrite(pend', dHeader', dMeta')
        BY <3>2, <3>3 DEF FwriteOk
      <4> HIDE DEF w
      <4> QED
        BY <2>1, <3>1, <4>1, <4>2 DEF CommandInv, NothingPending, Loaded, Inserting, Deleting,
           Resizing, ScanInBounds
    <3>4. CASE FwriteFails(w)
      <4> HIDE DEF w
      <4> QED
        BY <3>1, <3>4, LastWriteInv DEF CommandInv
    <3> QED
      BY <2>3, <3>3, <3>4
  <2> QED
    BY <1>2, <2>2, <2>3 DEF DeleteMeta
<1>3. CASE DeleteHeader
  <2> DEFINE h == [nb_files |-> Dec(header.nb_files), version |-> Inc(header.version)]
  <2>1. /\ header = dHeader /\ dMeta[op.slot].is_valid = NON_EMPTY
        /\ pend.kind = "meta" /\ pend.slot = op.slot /\ pend.meta.is_valid = EMPTY
    BY <1>3 DEF DeleteHeader, WriteLastHeader, CommandInv, Deleting
  <2>2. CASE SeekFails /\ Return(op, "ERR_IO")
    BY <2>2, SeekFailsInv
  <2>3. CASE Seek /\ header' = h
             /\ (FwriteLast(HeaderWrite(h)) \/ FwriteFails(HeaderWrite(h)))
    <3>1. dHeader' = dHeader /\ dMeta' = [dMeta EXCEPT ![op.slot] = pend.meta]
      BY <2>1, <2>3 DEF Seek, Flush
    <3>2. pend.meta \in Metadata
      BY <2>1 DEF TypeOK, Write, NoWrite, FormatWrite
    <3>3. Count(dMeta') = Count(dMeta) - 1
      BY <2>1, <3>1, <3>2, OneSlotCount DEF TypeOK, Op
    <3>4. Count(dMeta) \in Nat /\ Count(dMeta') \in Nat
      BY ValidSlotsFinite
    <3>5. Covers(dHeader', dMeta')
      BY <3>1, <3>3, <3>4 DEF CommandInv, Covers, TypeOK, Header
    <3>6. h.nb_files = dHeader.nb_files - 1
      BY <2>1, <3>3, <3>4 DEF CommandInv, Covers, TypeOK, Header, Dec
    <3> HIDE DEF h
    <3>7. Covers(h, dMeta')
      BY <3>3, <3>4, <3>6, SizesAssumption DEF CommandInv, Covers, TypeOK, Header
    <3>8. SafeWrite(HeaderWrite(h), dHeader', dMeta')
      BY <3>7 DEF SafeWrite, HeaderWrite
    <3> QED
      BY <2>3, <3>5, <3>8, LastWriteInv
  <2> QED
    BY <1>3, <2>2, <2>3 DEF DeleteHeader, WriteLastHeader
<1> QED
  BY <1>1, <1>2, <1>3

\* do_read and lazily_resize write slots, but never their validity.
LEMMA ReadStepsInv ==
    ASSUME TypeOK, CommandInv, ~ LongLived,
           \/ \E id \in Ids, res \in Requested : DoRead(id, res)
           \/ ResizeBlob \/ ResizeMeta \/ ReadData
    PROVE  CommandInv'
<1>1. CASE \E id \in Ids, res \in Requested : DoRead(id, res)
  <2>1. PICK id \in Ids, res \in Requested : DoRead(id, res)
    BY <1>1
  <2>2. UNCHANGED <<dHeader, dMeta, header, metadata, pend>>
    BY <2>1 DEF DoRead, disk, memory
  <2>3. pend = NoWrite /\ metadata = dMeta
    BY <2>1 DEF DoRead, CommandInv, NothingPending, Loaded
  <2>4. ASSUME NEW o, NEW code, Return(o, code)
        PROVE  CommandInv'
    BY <2>2, <2>4, ReturnInv DEF Remains
  <2>5. CASE pc' \in {"rs_load", "rd_data"}
    BY <2>2, <2>3, <2>5 DEF CommandInv, NothingPending, Loaded, Inserting, Deleting,
       Resizing, ScanInBounds
  <2> QED
    BY <2>1, <2>4, <2>5 DEF DoRead
<1>2. CASE ResizeBlob
  <2>1. pend = NoWrite /\ metadata[op.slot].is_valid = dMeta[op.slot].is_valid
    BY <1>2 DEF ResizeBlob, CommandInv, NothingPending, Resizing
  <2>2. CASE SeekFails /\ Return(op, "ERR_IO")
    BY <2>2, SeekFailsInv
  <2>3. ASSUME Seek PROVE UNCHANGED <<dHeader, dMeta>>
    BY <2>1, <2>3 DEF Seek, Flush, NoWrite
  <2>4. ASSUME Seek, pend' = NoWrite, NEW code, Return(op, code)
        PROVE  CommandInv'
    BY <2>3, <2>4, ReturnInv DEF Remains
  <2>5. ASSUME Seek, NEW b,
               metadata' = [metadata EXCEPT ![op.slot].offset[op.res]
                              = BlobWrite(End(blobs'), [b EXCEPT !.res = op.res]).at],
               \/ FwriteOk(BlobWrite(End(blobs'), [b EXCEPT !.res = op.res]), "rs_meta")
               \/ FwriteFails(BlobWrite(End(blobs'), [b EXCEPT !.res = op.res]))
        PROVE  CommandInv'
    <3> DEFINE w == BlobWrite(End(blobs'), [b EXCEPT !.res = op.res])
    <3>1. metadata'[op.slot].is_valid = metadata[op.slot].is_valid
      <4>1. metadata[op.slot] \in Metadata
        BY DEF TypeOK, Op
      <4> HIDE DEF w
      <4> QED
        BY <2>5, <4>1 DEF TypeOK, Op, Metadata, w
    <3>2. CASE FwriteOk(w, "rs_meta")
      <4>1. pc' = "rs_meta" /\ op' = op /\ pend'.kind = "blob"
        BY <3>2 DEF FwriteOk, BlobWrite
      <4> HIDE DEF w
      <4> QED
        BY <2>1, <2>3, <2>5, <3>1, <4>1 DEF CommandInv, SafeWrite, NothingPending, Loaded,
           Inserting, Deleting, Resizing, ScanInBounds
    <3>3. CASE FwriteFails(w)
      <4> HIDE DEF w
      <4> QED
        BY <2>3, <2>5, <3>3, LastWriteInv DEF CommandInv
    <3> QED
      BY <2>5, <3>2, <3>3
  <2> QED
    BY <1>2, <2>2, <2>4, <2>5 DEF ResizeBlob
<1>3. CASE ResizeMeta
  <2> DEFINE w == MetaWrite(op.slot, metadata[op.slot])
  <2>1. pend.kind \in {"none", "blob"} /\ metadata[op.slot].is_valid = dMeta[op.slot].is_valid
    BY <1>3 DEF ResizeMeta, CommandInv, NothingPending, Resizing
  <2>2. CASE SeekFails /\ Return(op, "ERR_IO")
    BY <2>2, SeekFailsInv
  <2>3. CASE Seek /\ (FwriteOk(w, "rd_data") \/ FwriteFails(w))
    <3>1. UNCHANGED <<dHeader, dMeta>>
      BY <2>1, <2>3 DEF Seek, Flush
    <3>2. SafeWrite(w, dHeader', dMeta')
      <4>1. Count([dMeta EXCEPT ![op.slot] = metadata[op.slot]]) = Count(dMeta)
        BY <2>1, OneSlotCount DEF TypeOK, Op
      <4> QED
        BY <3>1, <4>1 DEF CommandInv, Covers, SafeWrite, MetaWrite
    <3>3. CASE FwriteOk(w, "rd_data")
      <4>1. pc' = "rd_data" /\ pend' = w
        BY <3>3 DEF FwriteOk
      <4> HIDE DEF w
      <4> QED
        BY <3>1, <3>2, <4>1 DEF CommandInv, NothingPending, Loaded, Inserting, Deleting,
           Resizing, ScanInBounds
    <3>4. CASE FwriteFails(w)
      <4> HIDE DEF w
      <4> QED
        BY <3>1, <3>4, LastWriteInv DEF CommandInv
    <3> QED
      BY <2>3, <3>3, <3>4
  <2> QED
    BY <1>3, <2>2, <2>3 DEF ResizeMeta
<1>4. CASE ReadData
  <2>1. CASE SeekFails /\ Return(op, "ERR_IO")
    BY <2>1, SeekFailsInv
  <2>2. ASSUME Seek, pend' = NoWrite, NEW code, Return(op, code)
        PROVE  CommandInv'
    <3>1. Covers(dHeader', dMeta')
      BY <2>2, FlushCovers DEF Seek, CommandInv
    <3>2. SafeWrite(pend', dHeader', dMeta') /\ pc' = "done"
      BY <2>2 DEF SafeWrite, NoWrite, Return, AfterCall
    <3> QED
      BY <3>1, <3>2, DoneInv
  <2> QED
    BY <1>4, <2>1, <2>2 DEF ReadData
<1> QED
  BY <1>1, <1>2, <1>3, <1>4

\* A closed file: covered, with nothing in the buffer.
LEMMA ClosedInv ==
    ASSUME pc' = "closed", pend' = NoWrite, Covers(dHeader', dMeta')
    PROVE  CommandInv'
BY DEF CommandInv, SafeWrite, NoWrite, ScanInBounds, NothingPending, Loaded, Inserting,
   Deleting, Resizing

\* do_create, do_open, do_close, do_list and the death of the process.
LEMMA SessionStepsInv ==
    ASSUME TypeOK, CommandInv, ~ LongLived,
           DoCreate \/ DoOpen \/ DoClose \/ Crash \/ DoList
    PROVE  CommandInv'
<1>1. CASE DoCreate
  <2>1. pc' = "done" /\ pend' \in {FormatWrite, NoWrite}
    BY <1>1 DEF DoCreate, CreateFails, Return, AfterCall
  <2>2. Covers(dHeader', dMeta')
    BY <1>1, EmptyCovers DEF DoCreate, Truncate, disk, CommandInv
  <2>3. SafeWrite(pend', dHeader', dMeta')
    BY <2>1 DEF SafeWrite, FormatWrite, NoWrite
  <2> QED
    BY <2>1, <2>2, <2>3, DoneInv
<1>2. CASE DoOpen
  <2>1. UNCHANGED <<dHeader, dMeta, pend>> /\ pend = NoWrite
    BY <1>2 DEF DoOpen, disk, CommandInv, NothingPending
  <2>2. CASE header' = dHeader /\ metadata' = dMeta /\ pc' = "ready"
    BY <2>1, <2>2 DEF CommandInv, NothingPending, Loaded, Inserting, Deleting, Resizing,
       ScanInBounds
  <2>3. CASE pc' = pc
    BY <1>2, <2>1, <2>3, ClosedInv DEF DoOpen, CommandInv
  <2> QED
    BY <1>2, <2>2, <2>3 DEF DoOpen
<1>3. CASE DoClose \/ Crash
  <2>1. PICK w \in Remains(pend) : Flush(w)
    BY <1>3 DEF DoClose, Crash, Remains
  <2>2. Covers(dHeader', dMeta')
    BY <2>1, RemainsSafe, FlushCovers DEF CommandInv
  <2> QED
    BY <1>3, <2>2, ClosedInv DEF DoClose, Crash, Forget
<1>4. CASE DoList
  <2>1. UNCHANGED <<dHeader, dMeta, pend>>
    BY <1>4 DEF DoList, disk
  <2> QED
    BY <1>4, <2>1, ReturnInv DEF DoList, Remains
<1> QED
  BY <1>1, <1>2, <1>3, <1>4

\* Every step keeps CommandInv.
LEMMA NextInv ==
    ASSUME TypeOK, CommandInv, ~ LongLived, [Next]_vars
    PROVE  CommandInv'
<1>1. CASE Next
  BY <1>1, DoInsertInv, InsertStepsInv, DeleteStepsInv, ReadStepsInv, SessionStepsInv DEF Next
<1>2. CASE UNCHANGED vars
  BY <1>2 DEF vars, disk, memory, CommandInv, ScanInBounds, NothingPending, Loaded,
     Inserting, Deleting, Resizing
<1> QED
  BY <1>1, <1>2

\* With one call per opened file, CommandInv holds throughout, whatever fails.
THEOREM CommandsKeepInv ==
    ASSUME ~ LongLived
    PROVE  Spec => []CommandInv
<1>1. TypeOK /\ CommandInv /\ [Next]_vars => CommandInv'
  BY NextInv
<1> QED
  BY <1>1, InitInv, TypeCorrect, PTL DEF Spec

\* The header of the file counts at least the valid slots of the file, and at
\* most max_files, wherever one of imgfscmd's commands is cut short.
THEOREM CountsCover ==
    ASSUME ~ LongLived
    PROVE  Spec => []CountCoversValid
<1>1. CommandInv => CountCoversValid
  BY DEF CommandInv, Covers, CountCoversValid
<1> QED
  BY <1>1, CommandsKeepInv, PTL

\* do_insert's unbounded scan finds a free slot inside the table, in every
\* process that makes one call per file.
THEOREM ScanStaysInBounds ==
    ASSUME ~ LongLived
    PROVE  Spec => []ScanInBounds
<1>1. CommandInv => ScanInBounds
  BY DEF CommandInv
<1> QED
  BY <1>1, CommandsKeepInv, PTL
=============================================================================
