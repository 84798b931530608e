------------------------ MODULE ImgStoreImagesProofs ------------------------
(***************************************************************************)
(* Theorems about the names, contents and blobs of an image file, for      *)
(* processes that make one call per opened file: what the file holds stays *)
(* findable, readable and shared, whatever fails and wherever a process    *)
(* dies.                                                                   *)
(***************************************************************************)
EXTENDS ImgStoreProofs, SequenceTheorems

-----------------------------------------------------------------------------
(* What the forms of a write do to a sound file.                           *)

\* fseek to the end and fwrite append (imgfs.h:142-147).
LEMMA WriteAtEnd ==
    ASSUME NEW s \in Seq(Blob), NEW b \in Blob
    PROVE  WriteAt(s, End(s), b) = Append(s, b)
<1> DEFINE t == WriteAt(s, End(s), b)
<1>1. t = [k \in 1 .. Len(s) + 1 |->
             IF k = Len(s) + 1 THEN b ELSE IF k <= Len(s) THEN s[k] ELSE Torn]
  BY DEF WriteAt, End
<1>2. t \in Seq(Blob)
  BY WriteAtType DEF End
<1>3. Len(t) = Len(s) + 1
  BY <1>1
<1>4. /\ Append(s, b) \in Seq(Blob)
      /\ Len(Append(s, b)) = Len(s) + 1
      /\ \A k \in 1 .. Len(s) : Append(s, b)[k] = s[k]
      /\ Append(s, b)[Len(s) + 1] = b
  BY AppendProperties
<1>5. \A k \in 1 .. Len(s) + 1 : k # Len(s) + 1 => k \in 1 .. Len(s)
  OBVIOUS
<1>6. \A k \in 1 .. Len(t) : t[k] = Append(s, b)[k]
  BY <1>1, <1>3, <1>4, <1>5
<1> QED
  BY <1>2, <1>3, <1>4, <1>6, SeqEqual

\* Whatever is appended, what is there stays where it is.
LEMMA AppendedKeeps ==
    ASSUME NEW s \in Seq(Blob), NEW w \in Write
    PROVE  /\ Appended(w, s) \in Seq(Blob)
           /\ Len(s) <= Len(Appended(w, s))
           /\ \A k \in 1 .. Len(s) : Appended(w, s)[k] = s[k]
<1>1. w.kind = "blob" => w.blob \in Blob
  BY DEF Write, NoWrite, FormatWrite
<1>2. \A b \in Blob : /\ Append(s, b) \in Seq(Blob)
                      /\ Len(Append(s, b)) = Len(s) + 1
                      /\ \A k \in 1 .. Len(s) : Append(s, b)[k] = s[k]
  OBVIOUS
<1>3. Len(s) \in Nat
  OBVIOUS
<1> QED
  BY <1>1, <1>2, <1>3 DEF Appended

\* So the offsets of an image stay those of its blobs.
LEMMA BackedGrows ==
    ASSUME NEW s \in Seq(Blob), NEW w \in Write, NEW v \in Metadata, Backed(v, s)
    PROVE  Backed(v, Appended(w, s))
<1> SUFFICES ASSUME NEW r \in Res, v.offset[r] # 0
             PROVE  /\ v.offset[r] <= Len(Appended(w, s))
                    /\ Appended(w, s)[v.offset[r]] = [content |-> v.SHA, res |-> r]
  BY DEF Backed
<1>1. v.offset[r] \in Nat
  BY DEF Metadata
<1>2. v.offset[r] <= Len(s) /\ s[v.offset[r]] = [content |-> v.SHA, res |-> r]
  BY DEF Backed
<1>3. v.offset[r] \in 1 .. Len(s)
  BY <1>1, <1>2
<1>4. Len(s) \in Nat /\ Len(Appended(w, s)) \in Nat
  BY AppendedKeeps
<1> QED
  BY <1>1, <1>2, <1>3, <1>4, AppendedKeeps

LEMMA SoundGrows ==
    ASSUME NEW m \in [Slots -> Metadata], NEW s \in Seq(Blob), NEW w \in Write, Sound(m, s)
    PROVE  Sound(m, Appended(w, s))
<1>1. \A i \in ValidSlots(m) : m[i] \in Metadata /\ Backed(m[i], s)
  BY DEF ValidSlots, Sound
<1>2. \A i \in ValidSlots(m) : Backed(m[i], Appended(w, s))
  BY <1>1, BackedGrows
<1> QED
  BY <1>2 DEF Sound

LEMMA InsertsGrows ==
    ASSUME NEW m \in [Slots -> Metadata], NEW s \in Seq(Blob), NEW w \in Write,
           NEW i, NEW v \in Metadata, Inserts(i, v, m, s)
    PROVE  Inserts(i, v, m, Appended(w, s))
BY BackedGrows DEF Inserts

LEMMA ExtendsGrows ==
    ASSUME NEW m \in [Slots -> Metadata], NEW s \in Seq(Blob), NEW w \in Write,
           NEW i, NEW v \in Metadata, Extends(i, v, m, s)
    PROVE  Extends(i, v, m, Appended(w, s))
BY BackedGrows DEF Extends

\* A slot filled by do_insert: its name is new, so every valid slot is still the
\* first of its name (imgfs_read.c:17-23).
LEMMA InsertSound ==
    ASSUME NEW m \in [Slots -> Metadata], NEW s, Sound(m, s),
           NEW i \in Slots, NEW v \in Metadata, Inserts(i, v, m, s)
    PROVE  /\ Sound([m EXCEPT ![i] = v], s)
           /\ i \notin ValidSlots(m)
           /\ ValidSlots([m EXCEPT ![i] = v]) = ValidSlots(m) \cup {i}
<1> DEFINE n == [m EXCEPT ![i] = v]
<1>1. n[i] = v /\ \A j \in Slots : j # i => n[j] = m[j]
  OBVIOUS
<1>2. /\ i \notin ValidSlots(m)
      /\ ValidSlots(n) = ValidSlots(m) \cup {i}
      /\ \A j \in Slots : j < i => j \in ValidSlots(m)
  BY <1>1 DEF Inserts, Names, FirstEmpty, ValidSlots
<1> HIDE DEF n
<1>3. ASSUME NEW k \in ValidSlots(n)
      PROVE  /\ n[k].img_id \in Ids /\ n[k].SHA \in Contents
             /\ n[k].offset[ORIG_RES] # 0
             /\ Backed(n[k], s)
             /\ \A j \in ValidSlots(n) :
                   n[j].SHA = n[k].SHA => n[j].offset[ORIG_RES] = n[k].offset[ORIG_RES]
  <2>1. \A j \in ValidSlots(m) : j \in Slots /\ n[j] = m[j]
    BY <1>1, <1>2 DEF ValidSlots
  <2> QED
    BY <1>1, <1>2, <2>1 DEF Sound, Inserts, Names
<1>4. ASSUME NEW k \in ValidSlots(n), NEW j \in Slots, j < k
      PROVE  n[j].img_id # n[k].img_id
  <2>1. CASE k = i
    <3>1. j # i /\ j \in ValidSlots(m)
      BY <1>2, <1>4, <2>1 DEF Slots
    <3> QED
      BY <1>1, <2>1, <3>1 DEF Inserts, Names
  <2>2. CASE k # i /\ j = i
    BY <1>1, <1>2, <2>2 DEF Inserts, Names, ValidSlots
  <2>3. CASE k # i /\ j # i
    BY <1>1, <1>2, <1>4, <2>3 DEF Sound, ValidSlots
  <2> QED
    BY <2>1, <2>2, <2>3
<1>5. Sound(n, s)
  BY <1>3, <1>4 DEF Sound
<1> QED
  BY <1>2, <1>5 DEF n

\* A slot do_delete has cleared.
LEMMA DeleteSound ==
    ASSUME NEW m \in [Slots -> Metadata], NEW s, Sound(m, s),
           NEW i \in Slots, NEW v, Deletes(i, v, m)
    PROVE  /\ Sound([m EXCEPT ![i] = v], s)
           /\ ValidSlots([m EXCEPT ![i] = v]) = ValidSlots(m) \ {i}
<1> DEFINE n == [m EXCEPT ![i] = v]
<1>0. m[i] \in Metadata
  OBVIOUS
<1>1. n[i] = v /\ \A j \in Slots : j # i => n[j] = m[j]
  OBVIOUS
<1>2. v.img_id = m[i].img_id /\ v.is_valid = EMPTY
  BY <1>0 DEF Deletes, Metadata
<1>3. ValidSlots(n) = ValidSlots(m) \ {i}
  BY <1>1, <1>2 DEF ValidSlots, EMPTY, NON_EMPTY
<1>4. \A j \in Slots : n[j].img_id = m[j].img_id
  BY <1>1, <1>2
<1> HIDE DEF n
<1>5. Sound(n, s)
  BY <1>1, <1>3, <1>4 DEF Sound, ValidSlots
<1> QED
  BY <1>3, <1>5 DEF n

\* An image that has one more resolution keeps all else.
LEMMA ExtendKeeps ==
    ASSUME NEW m \in [Slots -> Metadata], NEW s, NEW i \in Slots, NEW v, Extends(i, v, m, s)
    PROVE  /\ v.img_id = m[i].img_id /\ v.SHA = m[i].SHA /\ v.is_valid = NON_EMPTY
           /\ \A r \in Res : m[i].offset[r] \in {0, v.offset[r]}
           /\ v.offset[ORIG_RES] = m[i].offset[ORIG_RES]
<1>0. m[i] \in Metadata /\ m[i].is_valid = NON_EMPTY
  BY DEF Extends, ValidSlots
<1>1. PICK r \in Res \ {ORIG_RES} :
         m[i].offset[r] = 0
         /\ v = [m[i] EXCEPT !.offset = [m[i].offset EXCEPT ![r] = v.offset[r]]]
  BY DEF Extends
<1>2. /\ v.img_id = m[i].img_id /\ v.SHA = m[i].SHA /\ v.is_valid = m[i].is_valid
      /\ v.offset = [m[i].offset EXCEPT ![r] = v.offset[r]]
  BY <1>0, <1>1 DEF Metadata
<1>3. m[i].offset \in [Res -> Nat]
  BY <1>0 DEF Metadata
<1> QED
  BY <1>0, <1>1, <1>2, <1>3 DEF Res, ORIG_RES

LEMMA ExtendSound ==
    ASSUME NEW m \in [Slots -> Metadata], NEW s, Sound(m, s),
           NEW i \in Slots, NEW v, Extends(i, v, m, s)
    PROVE  /\ Sound([m EXCEPT ![i] = v], s)
           /\ ValidSlots([m EXCEPT ![i] = v]) = ValidSlots(m)
<1> DEFINE n == [m EXCEPT ![i] = v]
<1>1. n[i] = v /\ \A j \in Slots : j # i => n[j] = m[j]
  OBVIOUS
<1>2. /\ v.img_id = m[i].img_id /\ v.SHA = m[i].SHA /\ v.is_valid = NON_EMPTY
      /\ v.offset[ORIG_RES] = m[i].offset[ORIG_RES]
  BY ExtendKeeps
<1>3. i \in ValidSlots(m) /\ Backed(v, s)
  BY DEF Extends
<1>4. ValidSlots(n) = ValidSlots(m)
  BY <1>1, <1>2, <1>3 DEF ValidSlots
<1>5. \A j \in Slots : /\ n[j].img_id = m[j].img_id /\ n[j].SHA = m[j].SHA
                       /\ n[j].offset[ORIG_RES] = m[j].offset[ORIG_RES]
  BY <1>1, <1>2
<1>6. \A j \in ValidSlots(n) : Backed(n[j], s)
  BY <1>1, <1>3, <1>4 DEF Sound, ValidSlots
<1> HIDE DEF n
<1>7. Sound(n, s)
  BY <1>4, <1>5, <1>6 DEF Sound, ValidSlots
<1> QED
  BY <1>4, <1>7 DEF n

-----------------------------------------------------------------------------
(* What one stdio call does to the invariant.                              *)

\* A buffer cut short leaves nothing the file could not take.
LEMMA LostDue ==
    ASSUME NEW w, NEW h, NEW m, NEW s, w.kind = "blob" => w.at = End(s),
           NEW x \in Remains(w) \ {w}
    PROVE  Due(x, h, m, s)
<1>1. x = NoWrite \/ (w.kind = "blob" /\ x = BlobWrite(w.at, Torn))
  BY Zenon DEF Remains
<1>2. CASE x = NoWrite
  BY <1>2 DEF Due, NoWrite
<1>3. CASE w.kind = "blob" /\ x = BlobWrite(w.at, Torn)
  BY <1>3 DEF Due, BlobWrite
<1> QED
  BY <1>1, <1>2, <1>3

LEMMA RemainsDue ==
    ASSUME NEW w, NEW h, NEW m, NEW s, Due(w, h, m, s), NEW x \in Remains(w)
    PROVE  Due(x, h, m, s)
<1>1. CASE x = w
  BY <1>1
<1>2. CASE x # w
  BY <1>2, LostDue DEF Due
<1> QED
  BY <1>1, <1>2

\* Writing out what is due keeps the file sound, and only appends to the blobs.
LEMMA FlushSound ==
    ASSUME TypeOK, Sound(dMeta, blobs), NEW w \in Write,
           Due(w, dHeader, dMeta, blobs), Flush(w)
    PROVE  /\ Sound(dMeta', blobs')
           /\ blobs' = Appended(w, blobs)
           /\ w.kind # "meta" => dMeta' = dMeta
           /\ w.kind # "header" => dHeader' = dHeader
           /\ formatted => formatted'
<1>0. /\ blobs \in Seq(Blob) /\ dMeta \in [Slots -> Metadata]
      /\ w.kind = "blob" => w.blob \in Blob
      /\ w.kind = "meta" => w.slot \in Slots /\ w.meta \in Metadata
  BY DEF TypeOK, Write, NoWrite, FormatWrite
<1>1. blobs' = Appended(w, blobs)
  BY <1>0, WriteAtEnd DEF Flush, Due, Appended
<1>2. formatted => formatted'
  BY Zenon DEF Flush
<1>3. CASE w.kind = "meta"
  <2>1. blobs' = blobs /\ dMeta' = [dMeta EXCEPT ![w.slot] = w.meta] /\ dHeader' = dHeader
    BY <1>3 DEF Flush
  <2>2. Sound([dMeta EXCEPT ![w.slot] = w.meta], blobs)
    BY <1>0, <1>3, InsertSound, DeleteSound, ExtendSound DEF Due
  <2> QED
    BY <1>1, <1>2, <1>3, <2>1, <2>2
<1>4. CASE w.kind # "meta"
  <2>1. dMeta' = dMeta
    BY <1>4 DEF Flush
  <2>2. w.kind # "header" => dHeader' = dHeader
    BY DEF Flush
  <2>3. Sound(dMeta, Appended(w, blobs))
    BY <1>0, SoundGrows
  <2> QED
    BY <1>1, <1>2, <1>4, <2>1, <2>2, <2>3
<1> QED
  BY <1>3, <1>4

\* A call that is over: nothing is known but the file and the buffer.
LEMMA DoneImages ==
    ASSUME pc' = "done", formatted',
           Sound(dMeta', blobs'), Due(pend', dHeader', dMeta', blobs'),
           ret'.call.call = "read" /\ ret'.code = "ERR_NONE" =>
              served'.image = [content |-> metadata'[ret'.call.slot].SHA, res |-> ret'.call.res]
    PROVE  ImagesInv'
BY DEF ImagesInv, Formatting, Filling, Reading, Calling, ServedIsStored

\* A call that returns having written nothing more to the file.
LEMMA ReturnImages ==
    ASSUME ImagesInv, ~ LongLived, formatted, NEW o, NEW code, Return(o, code),
           o.call # "read" \/ code # "ERR_NONE",
           UNCHANGED disk, pend' \in Remains(pend)
    PROVE  ImagesInv'
<1>1. pc' = "done" /\ ret'.call = o /\ ret'.code = code
  BY DEF Return, AfterCall
<1>2. UNCHANGED <<formatted, dHeader, dMeta, blobs>>
  BY DEF disk
<1>3. Due(pend', dHeader', dMeta', blobs') /\ Sound(dMeta', blobs')
  BY <1>2, RemainsDue DEF ImagesInv
<1> QED
  BY <1>1, <1>2, <1>3, DoneImages

LEMMA SeekFailsImages ==
    ASSUME ImagesInv, ~ LongLived, formatted, SeekFails, Return(op, "ERR_IO")
    PROVE  ImagesInv'
BY ReturnImages DEF SeekFails

\* The last fwrite of a call, or one that fails.
LEMMA LastWriteImages ==
    ASSUME ~ LongLived, NEW w, formatted', Sound(dMeta', blobs'),
           \/ FwriteLast(w) /\ op.call # "read" /\ Due(w, dHeader', dMeta', blobs')
           \/ FwriteFails(w) /\ (w.kind = "blob" => w.at = End(blobs'))
    PROVE  ImagesInv'
<1>1. pc' = "done" /\ (ret'.call.call # "read" \/ ret'.code # "ERR_NONE")
  BY DEF FwriteLast, FwriteFails, Return, AfterCall
<1>2. Due(pend', dHeader', dMeta', blobs')
  BY LostDue DEF FwriteLast, FwriteFails
<1> QED
  BY <1>1, <1>2, DoneImages

\* fseek within a call writes out a due buffer.
LEMMA SeekSound ==
    ASSUME TypeOK, ImagesInv, pc \notin {"closed", "done"}, Seek
    PROVE  /\ Sound(dMeta', blobs') /\ formatted'
           /\ blobs' = Appended(pend, blobs) /\ blobs' \in Seq(Blob)
           /\ pend.kind # "meta" => dMeta' = dMeta
           /\ pend.kind # "header" => dHeader' = dHeader
<1>1. pend \in Write /\ Due(pend, dHeader, dMeta, blobs) /\ Sound(dMeta, blobs) /\ formatted
  BY DEF TypeOK, ImagesInv, Formatting
<1> QED
  BY <1>1, FlushSound, FlushType DEF Seek

-----------------------------------------------------------------------------
(* The inductive invariant.                                                *)

\* Before the first command there is no image.
LEMMA InitImages == Init => ImagesInv
<1>1. Init => ValidSlots(dMeta) = {}
  BY DEF Init, ValidSlots, EmptyTable, EmptyMetadata, EMPTY, NON_EMPTY
<1> QED
  BY <1>1 DEF Init, ImagesInv, Sound, Due, NoWrite, Formatting, Filling, Reading, Calling,
     ServedIsStored

\* do_name_and_content_dedup, for a name that is new: the slot gets the original
\* of every image with its content, or none when there is no such image.
LEMMA DedupShares ==
    ASSUME NEW m \in [Slots -> Metadata], NEW s, Sound(m, s), NEW i \in Slots,
           FirstEmpty(m, i), NEW id \in Ids, NEW c \in Contents,
           Namesakes(Filled(m, i, id, c, NON_EMPTY), i) = {},
           NEW v, v = Dedup(Filled(m, i, id, c, NON_EMPTY), i)[i]
    PROVE  /\ Names(i, v, m)
           /\ v.SHA = c
           /\ IF \E j \in ValidSlots(m) : m[j].SHA = c
              THEN Inserts(i, v, m, s)
              ELSE v.offset = NoOffset
<1> DEFINE n == Filled(m, i, id, c, NON_EMPTY)
           new == [img_id |-> id, SHA |-> c, offset |-> NoOffset, is_valid |-> NON_EMPTY]
<1>1. n[i] = new /\ (\A j \in Slots : j # i => n[j] = m[j]) /\ n \in [Slots -> Metadata]
  BY DEF Filled, Metadata, NoOffset
<1>2. i \notin ValidSlots(m) /\ Others(n, i) = ValidSlots(m)
  BY <1>1 DEF FirstEmpty, Others, ValidSlots
<1>3. \A j \in ValidSlots(m) : j \in Slots /\ j # i /\ n[j] = m[j]
  BY <1>1, <1>2 DEF ValidSlots
<1> HIDE DEF n
<1>4. \A j \in ValidSlots(m) : m[j].img_id # id
  BY <1>1, <1>2, <1>3 DEF Namesakes, n
<1>5. Twins(n, i) = {j \in ValidSlots(m) : m[j].SHA = c}
  BY <1>1, <1>2, <1>3 DEF Twins, n
<1>6. CASE Twins(n, i) = {}
  <2>1. v = new
    BY <1>1, <1>6 DEF Dedup, n
  <2> QED
    BY <1>4, <1>5, <1>6, <2>1 DEF Names
<1>7. CASE Twins(n, i) # {}
  <2> DEFINE k == Max(Twins(n, i))
  <2>1. k \in Twins(n, i) /\ k \in ValidSlots(m) /\ m[k].SHA = c
    BY <1>5, <1>7, MaxOfSlots DEF ValidSlots
  <2>2. v = [new EXCEPT !.offset = m[k].offset]
    BY <1>1, <1>3, <1>7, <2>1 DEF Dedup, n
  <2> HIDE DEF k
  <2>3. /\ v.img_id = id /\ v.SHA = c /\ v.is_valid = NON_EMPTY
        /\ v.offset = m[k].offset
    BY <2>2
  <2>4. Names(i, v, m)
    BY <1>4, <2>3 DEF Names
  <2>5. Backed(v, s) /\ v.offset[ORIG_RES] # 0
    BY <2>1, <2>3 DEF Sound, Backed
  <2>6. \A j \in ValidSlots(m) :
           m[j].SHA = v.SHA => m[j].offset[ORIG_RES] = v.offset[ORIG_RES]
    BY <2>1, <2>3 DEF Sound
  <2> QED
    BY <1>5, <1>7, <2>3, <2>4, <2>5, <2>6 DEF Inserts
<1> QED
  BY <1>6, <1>7

\* do_insert up to its first stdio call.
LEMMA DoInsertImages ==
    ASSUME TypeOK, CommandInv, ImagesInv, ~ LongLived,
           NEW id \in Ids, NEW c \in Contents \cup BadContents, DoInsert(id, c)
    PROVE  ImagesInv'
<1> DEFINE o == [NoOp EXCEPT !.call = "insert", !.id = id, !.content = c]
<1>1. pend = NoWrite /\ metadata = dMeta /\ formatted /\ pc = "ready" /\ ret = NoRet
  BY DEF DoInsert, CommandInv, NothingPending, Loaded, ImagesInv, Formatting, Calling
<1>2. UNCHANGED <<formatted, dHeader, dMeta, blobs, pend>> /\ UNCHANGED disk
  BY DEF DoInsert, disk
<1>3. o.call = "insert" /\ \A i : [o EXCEPT !.slot = i].call = "insert"
  BY DEF NoOp
<1>4. ASSUME NEW code, Return(o, code)
      PROVE  ImagesInv'
  BY <1>1, <1>2, <1>3, <1>4, ReturnImages DEF Remains
<1>5. ASSUME pc' = "overrun"
      PROVE  ImagesInv'
  BY <1>1, <1>2, <1>5 DEF ImagesInv, Formatting, Filling, Reading, Calling, ServedIsStored
<1>6. ASSUME NEW i \in Slots, FirstEmpty(metadata, i), c \in Contents,
             Namesakes(Filled(metadata, i, id, c, NON_EMPTY), i) = {},
             metadata' = Dedup(Filled(metadata, i, id, c, NON_EMPTY), i),
             op' = [o EXCEPT !.slot = i],
             pc' = IF metadata'[i].offset[ORIG_RES] = 0 THEN "ins_blob" ELSE "ins_header"
      PROVE  ImagesInv'
  <2> DEFINE v == metadata'[i]
  <2>1. op'.slot = i /\ op'.content = c /\ op'.call = "insert"
    BY <1>6 DEF NoOp
  <2>2. dMeta \in [Slots -> Metadata] /\ Sound(dMeta, blobs)
    BY DEF TypeOK, ImagesInv
  <2>3. /\ Names(i, v, dMeta)
        /\ v.SHA = c
        /\ IF \E j \in ValidSlots(dMeta) : dMeta[j].SHA = c
           THEN Inserts(i, v, dMeta, blobs)
           ELSE v.offset = NoOffset
    BY <1>1, <1>6, <2>2, DedupShares
  <2> HIDE DEF v
  <2>4. CASE \E j \in ValidSlots(dMeta) : dMeta[j].SHA = c
    <3>1. pc' = "ins_header" /\ Inserts(i, v, dMeta, blobs)
      BY <1>6, <2>3, <2>4 DEF Inserts, v
    <3>2. Appended(pend, blobs) = blobs
      BY <1>1 DEF Appended, NoWrite
    <3>3. Filling'
      BY <1>2, <2>1, <3>1, <3>2 DEF Filling, v
    <3> QED
      BY <1>1, <1>2, <2>1, <3>1, <3>3 DEF ImagesInv, Formatting, Reading, Calling,
         ServedIsStored
  <2>5. CASE ~ \E j \in ValidSlots(dMeta) : dMeta[j].SHA = c
    <3>1. v.offset = NoOffset
      BY <2>3, <2>5
    <3>2. pc' = "ins_blob"
      BY <1>6, <3>1 DEF v, NoOffset, Res, ORIG_RES
    <3>3. Filling'
      BY <1>2, <2>1, <2>3, <2>5, <3>1, <3>2 DEF Filling, v
    <3> QED
      BY <1>1, <1>2, <2>1, <3>2, <3>3 DEF ImagesInv, Formatting, Reading, Calling,
         ServedIsStored
  <2> QED
    BY <2>4, <2>5
<1> HIDE DEF o
<1> QED
  BY <1>4, <1>5, <1>6 DEF DoInsert, o

\* do_insert writes the original, then the header, then the slot that names it.
LEMMA InsertStepsImages ==
    ASSUME TypeOK, CommandInv, ImagesInv, ~ LongLived,
           InsertBlob \/ InsertHeader \/ InsertMeta
    PROVE  ImagesInv'
<1> DEFINE v == metadata[op.slot]
<1>0. /\ formatted /\ op.call = "insert" /\ pc \notin {"closed", "done"}
      /\ dMeta \in [Slots -> Metadata] /\ metadata \in [Slots -> Metadata]
      /\ blobs \in Seq(Blob) /\ pend \in Write /\ op.slot \in Slots /\ v \in Metadata
  BY DEF InsertBlob, InsertHeader, WriteHeader, InsertMeta, ImagesInv, Formatting, Calling,
     TypeOK, Op
<1>00. CASE SeekFails /\ Return(op, "ERR_IO")
  BY <1>0, <1>00, SeekFailsImages
<1>1. CASE InsertBlob /\ Seek
  <2> DEFINE b == [content |-> op.content, res |-> ORIG_RES]
             w == BlobWrite(End(blobs'), b)
  <2>1. pend = NoWrite /\ pc = "ins_blob"
    BY <1>1 DEF InsertBlob, CommandInv, NothingPending
  <2>2. /\ Names(op.slot, v, dMeta) /\ v.offset = NoOffset /\ v.SHA = op.content
        /\ \A j \in ValidSlots(dMeta) : dMeta[j].SHA # v.SHA
    BY <2>1 DEF ImagesInv, Filling
  <2>3. /\ UNCHANGED <<dHeader, dMeta, blobs>> /\ formatted' /\ Sound(dMeta', blobs')
    BY <1>0, <1>1, <2>1, SeekSound DEF Seek, Flush, NoWrite
  <2>4. w.kind = "blob" /\ w.at = End(blobs') /\ w.at = Len(blobs) + 1 /\ w.blob = b
    BY <2>3 DEF BlobWrite, End
  <2>5. b \in Blob
    BY DEF TypeOK, Op, Blob, Res
  <2>6. CASE FwriteOk(w, "ins_header") /\ metadata' = [metadata EXCEPT ![op.slot].offset[ORIG_RES] = w.at]
    <3> DEFINE u == metadata'[op.slot]
    <3>1. /\ u.img_id = v.img_id /\ u.SHA = v.SHA /\ u.is_valid = v.is_valid
          /\ u.offset = [v.offset EXCEPT ![ORIG_RES] = w.at]
      BY <1>0, <2>6 DEF Metadata
    <3> HIDE DEF u, v, w
    <3>2. u.offset[ORIG_RES] = Len(blobs) + 1 /\ \A r \in Res : r # ORIG_RES => u.offset[r] = 0
      BY <2>2, <2>4, <3>1 DEF NoOffset, Res, ORIG_RES
    <3>3. Backed(u, Append(blobs, b))
      <4>1. /\ Len(Append(blobs, b)) = Len(blobs) + 1
            /\ Append(blobs, b)[Len(blobs) + 1] = b
        BY <1>0, <2>5, AppendProperties
      <4>2. u.SHA = op.content /\ Len(blobs) \in Nat
        BY <1>0, <2>2, <3>1
      <4> QED
        BY <3>2, <4>1, <4>2 DEF Backed
    <3>4. Inserts(op.slot, u, dMeta, Append(blobs, b))
      <4>1. Names(op.slot, u, dMeta)
        BY <2>2, <3>1 DEF Names
      <4>2. u.offset[ORIG_RES] # 0
        BY <1>0, <3>2
      <4> QED
        BY <2>2, <3>1, <3>3, <4>1, <4>2 DEF Inserts
    <3>5. pend' = w /\ pc' = "ins_header" /\ op' = op /\ Appended(pend', blobs') = Append(blobs, b)
      BY <2>3, <2>4, <2>6 DEF FwriteOk, Appended
    <3>6. Filling'
      BY <2>3, <3>4, <3>5 DEF Filling, u
    <3>7. Due(pend', dHeader', dMeta', blobs')
      BY <2>4, <3>5 DEF Due
    <3> QED
      BY <1>0, <2>3, <2>4, <3>5, <3>6, <3>7 DEF ImagesInv, Formatting, Reading, Calling, ServedIsStored
  <2>7. CASE FwriteFails(w)
    <3> HIDE DEF w
    <3> QED
      BY <2>3, <2>4, <2>7, LastWriteImages
  <2> QED
    BY <1>1, <1>00, <2>6, <2>7 DEF InsertBlob
<1>2. CASE InsertHeader /\ Seek
  <2> DEFINE h == Counted(header)
             w == HeaderWrite(h)
  <2>1. /\ header = dHeader /\ pend.kind \in {"none", "blob"} /\ pc = "ins_header"
        /\ dHeader.nb_files < MaxFiles
    BY <1>2 DEF InsertHeader, WriteHeader, CommandInv, Inserting, NothingPending
  <2>2. /\ UNCHANGED <<dHeader, dMeta, metadata>> /\ formatted' /\ Sound(dMeta', blobs')
        /\ blobs' = Appended(pend, blobs)
    BY <1>0, <1>2, <2>1, SeekSound DEF InsertHeader, WriteHeader
  <2>3. Inserts(op.slot, v, dMeta, blobs')
    BY <2>1, <2>2 DEF ImagesInv, Filling
  <2>4. Follows(h, dHeader)
    BY <2>1, SizesAssumption DEF Counted, Inc, Follows, TypeOK, Header
  <2>5. w.kind = "header" /\ w.header = h
    BY DEF HeaderWrite
  <2> HIDE DEF w, h
  <2>6. CASE FwriteOk(w, "ins_meta")
    <3>1. pend' = w /\ pc' = "ins_meta" /\ op' = op /\ Appended(pend', blobs') = blobs'
      BY <2>5, <2>6 DEF FwriteOk, Appended
    <3>2. Filling'
      BY <2>2, <2>3, <3>1 DEF Filling
    <3>3. Due(pend', dHeader', dMeta', blobs')
      BY <2>2, <2>4, <2>5, <3>1 DEF Due
    <3> QED
      BY <1>0, <2>2, <2>5, <3>1, <3>2, <3>3 DEF ImagesInv, Formatting, Reading, Calling, ServedIsStored
  <2>7. CASE FwriteFails(w)
    BY <2>2, <2>5, <2>7, LastWriteImages
  <2> QED
    BY <1>00, <1>2, <2>6, <2>7 DEF InsertHeader, WriteHeader, w, h
<1>3. CASE InsertMeta /\ Seek
  <2> DEFINE w == MetaWrite(op.slot, v)
  <2>1. pend.kind = "header" /\ pc = "ins_meta"
    BY <1>3 DEF InsertMeta, CommandInv, Inserting, HeaderWrite
  <2>2. /\ dMeta' = dMeta /\ formatted' /\ Sound(dMeta', blobs')
        /\ blobs' = Appended(pend, blobs)
    BY <1>0, <1>3, <2>1, SeekSound
  <2>3. Inserts(op.slot, v, dMeta', blobs')
    BY <2>1, <2>2 DEF ImagesInv, Filling
  <2>4. w.kind = "meta" /\ w.slot = op.slot /\ w.meta = v
    BY DEF MetaWrite
  <2> HIDE DEF w, v
  <2>5. Due(w, dHeader', dMeta', blobs')
    BY <2>3, <2>4 DEF Due
  <2>6. CASE FwriteLast(w) \/ FwriteFails(w)
    BY <1>0, <2>2, <2>4, <2>5, <2>6, LastWriteImages
  <2> QED
    BY <1>00, <1>3, <2>6 DEF InsertMeta, w, v
<1> HIDE DEF v
<1> QED
  BY <1>00, <1>1, <1>2, <1>3 DEF InsertBlob, InsertHeader, WriteHeader, InsertMeta

\* A valid slot is counted.
LEMMA ValidCounted ==
    ASSUME NEW m, NEW i \in ValidSlots(m)
    PROVE  Count(m) >= 1
<1>1. IsFiniteSet(ValidSlots(m)) /\ Count(m) \in Nat
  BY ValidSlotsFinite
<1>2. Count(m) # 0
  BY <1>1, FS_EmptySet DEF Count
<1> QED
  BY <1>1, <1>2

\* do_delete clears the slot, then counts one less.
LEMMA DeleteStepsImages ==
    ASSUME TypeOK, CommandInv, ImagesInv, ~ LongLived,
           (\E id \in Ids : DoDelete(id)) \/ DeleteMeta \/ DeleteHeader
    PROVE  ImagesInv'
<1>0. /\ formatted /\ pc \notin {"closed", "done"} /\ pend \in Write
      /\ dMeta \in [Slots -> Metadata] /\ op.slot \in Slots
  BY DEF DoDelete, DeleteMeta, DeleteHeader, WriteLastHeader, ImagesInv, Formatting, TypeOK, Op
<1>00. CASE SeekFails /\ Return(op, "ERR_IO")
  BY <1>0, <1>00, SeekFailsImages
<1>1. CASE \E id \in Ids : DoDelete(id)
  <2>1. PICK id \in Ids : DoDelete(id)
    BY <1>1
  <2> DEFINE o == [NoOp EXCEPT !.call = "delete", !.id = id]
  <2>2. UNCHANGED <<formatted, dHeader, dMeta, blobs, pend>> /\ UNCHANGED disk
    BY <2>1 DEF DoDelete, disk
  <2>3. o.call = "delete" /\ \A i : [o EXCEPT !.slot = i].call = "delete"
    BY DEF NoOp
  <2>4. CASE Return(o, "ERR_IMAGE_NOT_FOUND")
    BY <1>0, <2>2, <2>3, <2>4, ReturnImages DEF Remains
  <2>5. ASSUME pc' = "del_meta", NEW i \in Slots, op' = [o EXCEPT !.slot = i]
        PROVE  ImagesInv'
    BY <1>0, <2>2, <2>3, <2>5 DEF ImagesInv, Formatting, Filling, Reading, Calling, ServedIsStored
  <2> HIDE DEF o
  <2> QED
    BY <2>1, <2>4, <2>5 DEF DoDelete, o
<1>2. CASE DeleteMeta /\ Seek
  <2> DEFINE v == [metadata[op.slot] EXCEPT !.is_valid = EMPTY]
             w == MetaWrite(op.slot, v)
  <2>1. /\ pc = "del_meta" /\ pend = NoWrite /\ metadata = dMeta
        /\ dMeta[op.slot].is_valid = NON_EMPTY
    BY <1>2 DEF DeleteMeta, CommandInv, NothingPending, Loaded, Deleting
  <2>2. dMeta' = dMeta /\ formatted' /\ Sound(dMeta', blobs')
    BY <1>0, <1>2, <2>1, SeekSound DEF NoWrite
  <2>3. Deletes(op.slot, v, dMeta)
    BY <1>0, <2>1 DEF Deletes, ValidSlots
  <2>4. w.kind = "meta" /\ w.slot = op.slot /\ w.meta = v
    BY DEF MetaWrite
  <2> HIDE DEF w, v
  <2>5. Due(w, dHeader', dMeta', blobs')
    BY <2>2, <2>3, <2>4 DEF Due
  <2>6. op.call = "delete"
    BY <2>1 DEF ImagesInv, Calling
  <2>7. CASE FwriteOk(w, "del_header")
    BY <2>2, <2>5, <2>6, <2>7 DEF FwriteOk, ImagesInv, Formatting, Filling, Reading, Calling,
       ServedIsStored
  <2>8. CASE FwriteFails(w)
    BY <2>2, <2>4, <2>8, LastWriteImages
  <2> QED
    BY <1>00, <1>2, <2>7, <2>8 DEF DeleteMeta, w, v
<1>3. CASE DeleteHeader /\ Seek
  <2> DEFINE h == [nb_files |-> Dec(header.nb_files), version |-> Inc(header.version)]
             w == HeaderWrite(h)
  <2>1. /\ pc = "del_header" /\ pend.kind = "meta" /\ header = dHeader
        /\ dMeta[op.slot].is_valid = NON_EMPTY
    BY <1>3 DEF DeleteHeader, WriteLastHeader, CommandInv, Deleting
  <2>2. dHeader' = dHeader /\ formatted' /\ Sound(dMeta', blobs')
    BY <1>0, <1>3, <2>1, SeekSound
  <2>3. dHeader.nb_files \in Nat /\ dHeader.nb_files >= 1
    <3>1. op.slot \in ValidSlots(dMeta) /\ Count(dMeta) <= dHeader.nb_files
      BY <1>0, <2>1 DEF ValidSlots, CommandInv, Covers
    <3>2. Count(dMeta) >= 1 /\ Count(dMeta) \in Nat
      BY <3>1, ValidCounted, ValidSlotsFinite
    <3>3. dHeader.nb_files \in Nat
      BY DEF TypeOK, Header
    <3> QED
      BY <3>1, <3>2, <3>3
  <2>4. Follows(h, dHeader')
    BY <2>1, <2>2, <2>3 DEF Follows, Dec
  <2>5. w.kind = "header" /\ w.header = h
    BY DEF HeaderWrite
  <2>6. op.call = "delete"
    BY <2>1 DEF ImagesInv, Calling
  <2> HIDE DEF w, h
  <2>7. Due(w, dHeader', dMeta', blobs')
    BY <2>4, <2>5 DEF Due
  <2>8. CASE FwriteLast(w) \/ FwriteFails(w)
    BY <2>2, <2>5, <2>6, <2>7, <2>8, LastWriteImages
  <2> QED
    BY <1>00, <1>3, <2>8 DEF DeleteHeader, WriteLastHeader, w, h
<1> QED
  BY <1>00, <1>1, <1>2, <1>3 DEF DeleteMeta, DeleteHeader, WriteLastHeader

\* do_read up to its first stdio call: the slot it found is the image's own, and
\* a resolution it does not make has been made before.
LEMMA DoReadImages ==
    ASSUME TypeOK, CommandInv, ImagesInv, ~ LongLived,
           NEW id \in Ids, NEW res \in Requested, DoRead(id, res)
    PROVE  ImagesInv'
<1> DEFINE o == [NoOp EXCEPT !.call = "read", !.id = id]
<1>1. pend = NoWrite /\ metadata = dMeta /\ formatted /\ pc = "ready"
      /\ dMeta \in [Slots -> Metadata]
  BY DEF DoRead, CommandInv, NothingPending, Loaded, ImagesInv, Formatting, TypeOK
<1>2. UNCHANGED <<formatted, dHeader, dMeta, blobs, pend, metadata>> /\ UNCHANGED disk
  BY DEF DoRead, disk, memory
<1>3. ASSUME NEW code, Return(o, code), code # "ERR_NONE"
      PROVE  ImagesInv'
  BY <1>1, <1>2, <1>3, ReturnImages DEF Remains
<1>4. ASSUME NEW i \in Slots, FirstNamed(i, id), metadata[i].is_valid # EMPTY, res \in Res,
             op' = [o EXCEPT !.slot = i, !.res = res],
             \/ pc' = "rs_load" /\ res # ORIG_RES /\ metadata[i].offset[res] = 0
             \/ pc' = "rd_data" /\ (res = ORIG_RES \/ metadata[i].offset[res] # 0)
      PROVE  ImagesInv'
  <2>1. op'.slot = i /\ op'.id = id /\ op'.res = res
    BY <1>4 DEF NoOp
  <2>2. i \in ValidSlots(dMeta) /\ dMeta[i].img_id = id
    BY <1>1, <1>4 DEF ValidSlots, FirstNamed, Metadata
  <2>3. Backed(dMeta[i], blobs) /\ dMeta[i].offset[ORIG_RES] # 0
    BY <2>2 DEF ImagesInv, Sound
  <2>4. Reading'
    BY <1>1, <1>2, <1>4, <2>1, <2>2, <2>3 DEF Reading, NoWrite
  <2> QED
    BY <1>1, <1>2, <1>4, <2>4 DEF ImagesInv, Formatting, Filling, Calling, ServedIsStored
<1> HIDE DEF o
<1> QED
  BY <1>3, <1>4 DEF DoRead, o

\* lazily_resize appends the smaller image it made of the original of its slot.
LEMMA ResizeBlobImages ==
    ASSUME TypeOK, CommandInv, ImagesInv, ~ LongLived, ResizeBlob
    PROVE  ImagesInv'
<1> DEFINE v == metadata[op.slot]
           o == v.offset[ORIG_RES]
<1>0. /\ formatted /\ pc = "rs_load" /\ pend = NoWrite
      /\ blobs \in Seq(Blob) /\ op.slot \in Slots /\ op.res \in Res
      /\ metadata \in [Slots -> Metadata] /\ v \in Metadata
  BY DEF ResizeBlob, CommandInv, NothingPending, ImagesInv, Formatting, TypeOK, Op
<1>1. /\ op.slot \in ValidSlots(dMeta) /\ dMeta[op.slot].img_id = op.id
      /\ v = dMeta[op.slot] /\ op.res # ORIG_RES /\ v.offset[op.res] = 0
  BY <1>0 DEF ImagesInv, Reading
<1>2. /\ o # 0 /\ o \in Nat /\ Backed(v, blobs) /\ o <= Len(blobs)
      /\ blobs[o] = [content |-> v.SHA, res |-> ORIG_RES]
  <2>1. o \in Nat
    BY <1>0 DEF Metadata, Res
  <2> QED
    BY <1>1, <2>1 DEF ImagesInv, Sound, Backed, Res
<1>3. CASE SeekFails /\ Return(op, "ERR_IO")
  BY <1>0, <1>3, SeekFailsImages
<1>4. ASSUME Seek
      PROVE  /\ UNCHANGED <<dMeta, blobs>> /\ formatted' /\ Sound(dMeta', blobs')
             /\ Appended(pend, blobs) = blobs
  BY <1>0, <1>4, SeekSound DEF Seek, Flush, NoWrite, Appended
<1>5. ASSUME Seek, pend' = NoWrite, NEW code, Return(op, code), code # "ERR_NONE"
      PROVE  ImagesInv'
  BY <1>4, <1>5, DoneImages DEF Return, AfterCall, Due, NoWrite
<1>6. ASSUME Seek, NEW b \in BytesAt(blobs', o) \ {Torn},
             metadata' = [metadata EXCEPT ![op.slot].offset[op.res]
                            = BlobWrite(End(blobs'), [b EXCEPT !.res = op.res]).at],
             \/ FwriteOk(BlobWrite(End(blobs'), [b EXCEPT !.res = op.res]), "rs_meta")
             \/ FwriteFails(BlobWrite(End(blobs'), [b EXCEPT !.res = op.res]))
      PROVE  ImagesInv'
  <2> DEFINE s == [b EXCEPT !.res = op.res]
             w == BlobWrite(End(blobs'), s)
             u == metadata'[op.slot]
  <2>1. b = blobs[o]
    BY <1>2, <1>4, <1>6 DEF BytesAt
  <2>2. s = [content |-> v.SHA, res |-> op.res] /\ s \in Blob
    <3>1. v.SHA \in Contents
      BY <1>1 DEF ImagesInv, Sound
    <3> QED
      BY <1>0, <1>2, <2>1, <3>1 DEF Blob
  <2>3. w.kind = "blob" /\ w.at = End(blobs') /\ w.at = Len(blobs) + 1 /\ w.blob = s
    BY <1>4, <1>6 DEF BlobWrite, End
  <2>4. /\ u.img_id = v.img_id /\ u.SHA = v.SHA /\ u.is_valid = v.is_valid
        /\ u.offset = [v.offset EXCEPT ![op.res] = w.at]
        /\ u = [v EXCEPT !.offset = [v.offset EXCEPT ![op.res] = w.at]]
        /\ v.offset \in [Res -> Nat]
    BY <1>0, <1>6 DEF Metadata
  <2> HIDE DEF s, w, u, v
  <2>5. u.offset[op.res] = Len(blobs) + 1
        /\ \A r \in Res : r # op.res => u.offset[r] = v.offset[r]
    BY <1>0, <2>3, <2>4
  <2>6. Backed(u, Append(blobs, s))
    <3>1. /\ Append(blobs, s) \in Seq(Blob)
          /\ Len(Append(blobs, s)) = Len(blobs) + 1
          /\ Append(blobs, s)[Len(blobs) + 1] = s
          /\ \A k \in 1 .. Len(blobs) : Append(blobs, s)[k] = blobs[k]
          /\ Len(blobs) \in Nat
      BY <1>0, <2>2, AppendProperties
    <3> SUFFICES ASSUME NEW r \in Res, u.offset[r] # 0
                 PROVE  /\ u.offset[r] <= Len(Append(blobs, s))
                        /\ Append(blobs, s)[u.offset[r]] = [content |-> u.SHA, res |-> r]
      BY DEF Backed
    <3>2. CASE r = op.res
      BY <2>2, <2>4, <2>5, <3>1, <3>2
    <3>3. CASE r # op.res
      <4>1. u.offset[r] = v.offset[r] /\ v.offset[r] \in Nat
        BY <2>4, <2>5, <3>3
      <4>2. v.offset[r] <= Len(blobs) /\ blobs[v.offset[r]] = [content |-> v.SHA, res |-> r]
        BY <1>2, <4>1 DEF Backed
      <4>3. v.offset[r] \in 1 .. Len(blobs)
        BY <3>1, <4>1, <4>2
      <4> QED
        BY <2>4, <3>1, <4>1, <4>2, <4>3
    <3> QED
      BY <3>2, <3>3
  <2>7. Extends(op.slot, u, dMeta, Append(blobs, s)) /\ u.offset[op.res] # 0
    <3>1. u = [dMeta[op.slot] EXCEPT !.offset = [dMeta[op.slot].offset EXCEPT ![op.res] = u.offset[op.res]]]
      BY <1>1, <2>3, <2>4, <2>5
    <3>2. u.offset[op.res] # 0
      BY <1>0, <2>5
    <3> QED
      BY <1>0, <1>1, <2>6, <3>1, <3>2 DEF Extends
  <2>8. CASE FwriteOk(w, "rs_meta")
    <3>1. pend' = w /\ pc' = "rs_meta" /\ op' = op /\ Appended(pend', blobs') = Append(blobs, s)
      BY <1>4, <1>6, <2>3, <2>8 DEF FwriteOk, Appended
    <3>2. Reading'
      BY <1>1, <1>4, <1>6, <2>7, <3>1 DEF Reading, u
    <3>3. Due(pend', dHeader', dMeta', blobs')
      BY <2>3, <3>1 DEF Due
    <3> QED
      BY <1>4, <1>6, <2>3, <3>1, <3>2, <3>3 DEF ImagesInv, Formatting, Filling, Calling, ServedIsStored
  <2>9. CASE FwriteFails(w)
    BY <1>4, <1>6, <2>3, <2>9, LastWriteImages
  <2> QED
    BY <1>6, <2>8, <2>9 DEF w, s
<1> QED
  BY <1>3, <1>5, <1>6 DEF ResizeBlob

\* lazily_resize writes the slot, do_read fetches the image it names.
LEMMA ReadStepsImages ==
    ASSUME TypeOK, CommandInv, ImagesInv, ~ LongLived, ResizeMeta \/ ReadData
    PROVE  ImagesInv'
<1> DEFINE v == metadata[op.slot]
<1>0. /\ formatted /\ pc \notin {"closed", "done"} /\ pend \in Write
      /\ dMeta \in [Slots -> Metadata] /\ op.slot \in Slots /\ op.res \in Res /\ v \in Metadata
  BY DEF ResizeMeta, ReadData, ImagesInv, Formatting, TypeOK, Op
<1>00. CASE SeekFails /\ Return(op, "ERR_IO")
  BY <1>0, <1>00, SeekFailsImages
<1>1. CASE ResizeMeta /\ Seek
  <2> DEFINE w == MetaWrite(op.slot, v)
  <2>1. pc = "rs_meta" /\ pend.kind \in {"none", "blob"} /\ UNCHANGED metadata
    BY <1>1 DEF ResizeMeta, CommandInv, NothingPending, memory
  <2>2. /\ dMeta' = dMeta /\ formatted' /\ Sound(dMeta', blobs')
        /\ blobs' = Appended(pend, blobs)
    BY <1>0, <1>1, <2>1, SeekSound
  <2>3. /\ op.slot \in ValidSlots(dMeta) /\ dMeta[op.slot].img_id = op.id
        /\ Extends(op.slot, v, dMeta, blobs') /\ v.offset[op.res] # 0
    BY <2>1, <2>2 DEF ImagesInv, Reading
  <2>4. v.SHA = dMeta[op.slot].SHA /\ Backed(v, blobs')
    BY <1>0, <2>3, ExtendKeeps DEF Extends
  <2>5. w.kind = "meta" /\ w.slot = op.slot /\ w.meta = v
    BY DEF MetaWrite
  <2> HIDE DEF w
  <2>6. Due(w, dHeader', dMeta', blobs')
    BY <2>2, <2>3, <2>5 DEF Due
  <2>7. CASE FwriteOk(w, "rd_data")
    <3>1. pend' = w /\ pc' = "rd_data" /\ op' = op
      BY <2>7 DEF FwriteOk
    <3>2. Reading'
      BY <2>1, <2>2, <2>3, <2>4, <2>5, <3>1 DEF Reading
    <3> QED
      BY <2>2, <2>6, <3>1, <3>2 DEF ImagesInv, Formatting, Filling, Calling, ServedIsStored
  <2>8. CASE FwriteFails(w)
    BY <2>2, <2>5, <2>8, LastWriteImages
  <2> QED
    BY <1>00, <1>1, <2>7, <2>8 DEF ResizeMeta, w
<1>2. CASE ReadData /\ Seek
  <2> DEFINE o == v.offset[op.res]
  <2>1. pc = "rd_data" /\ UNCHANGED metadata
    BY <1>2 DEF ReadData, memory
  <2>2. /\ o # 0 /\ Backed(v, blobs) /\ pend.kind \in {"none", "meta"}
    BY <2>1 DEF ImagesInv, Reading
  <2>3. formatted' /\ Sound(dMeta', blobs') /\ blobs' = blobs
    BY <1>0, <1>2, <2>2, SeekSound DEF Appended
  <2>4. blobs[o] = [content |-> v.SHA, res |-> op.res]
    BY <1>0, <2>2 DEF Backed
  <2>5. ASSUME pend' = NoWrite, NEW code, Return(op, code),
               \/ code # "ERR_NONE"
               \/ \E b \in BytesAt(blobs', o) : served' = [id |-> op.id, image |-> b]
        PROVE  ImagesInv'
    <3>1. pc' = "done" /\ ret'.call = op /\ ret'.code = code
      BY <2>5 DEF Return, AfterCall
    <3>2. BytesAt(blobs', o) \subseteq {blobs[o]}
      BY <2>2, <2>3 DEF BytesAt
    <3>3. code = "ERR_NONE" => served'.image = [content |-> v.SHA, res |-> op.res]
      BY <2>4, <2>5, <3>2
    <3>4. Due(pend', dHeader', dMeta', blobs')
      BY <2>5 DEF Due, NoWrite
    <3> QED
      BY <2>1, <2>3, <3>1, <3>3, <3>4, DoneImages
  <2> QED
    BY <1>00, <1>2, <2>5 DEF ReadData
<1> QED
  BY <1>00, <1>1, <1>2 DEF ResizeMeta, ReadData

\* do_create, do_open, do_close, do_list and the death of the process.
LEMMA SessionStepsImages ==
    ASSUME TypeOK, CommandInv, ImagesInv, ~ LongLived,
           DoCreate \/ DoOpen \/ DoClose \/ Crash \/ DoList
    PROVE  ImagesInv'
<1>1. CASE DoCreate
  <2>1. pc' = "done" /\ ret'.call.call = "create"
    BY <1>1 DEF DoCreate, CreateFails, Return, AfterCall, NoOp
  <2>2. CASE Truncate /\ pend' \in {FormatWrite, NoWrite}
    <3>1. ValidSlots(dMeta') = {}
      BY <2>2 DEF Truncate, ValidSlots, EmptyTable, EmptyMetadata, EMPTY, NON_EMPTY
    <3> QED
      BY <2>1, <2>2, <3>1 DEF Truncate, ImagesInv, Sound, Due, FormatWrite, NoWrite,
         Formatting, Filling, Reading, Calling, ServedIsStored
  <2>3. CASE UNCHANGED disk /\ pend' = NoWrite
    BY <1>1, <2>1, <2>3 DEF DoCreate, disk, ImagesInv, Sound, Due, NoWrite,
       Formatting, Filling, Reading, Calling, ServedIsStored
  <2> QED
    BY <1>1, <2>2, <2>3 DEF DoCreate, CreateFails
<1>2. CASE DoOpen
  <2>1. UNCHANGED <<formatted, dHeader, dMeta, blobs, pend>>
    BY <1>2 DEF DoOpen, disk
  <2>2. CASE pc' = "ready" /\ formatted /\ ret' = NoRet
    BY <2>1, <2>2 DEF ImagesInv, Formatting, Filling, Reading, Calling, ServedIsStored,
       NoRet, NoOp
  <2>3. CASE pc' = "closed"
    BY <2>1, <2>3 DEF ImagesInv, Formatting, Filling, Reading, Calling, ServedIsStored
  <2> QED
    BY <1>2, <2>2, <2>3 DEF DoOpen
<1>3. CASE DoClose \/ Crash
  <2>1. PICK w \in Remains(pend) : Flush(w)
    BY <1>3 DEF DoClose, Crash, Remains
  <2>2. w \in Write /\ Due(w, dHeader, dMeta, blobs) /\ Sound(dMeta, blobs)
    BY RemainsType, RemainsDue DEF TypeOK, ImagesInv
  <2>3. Sound(dMeta', blobs') /\ (formatted => formatted') /\ (w.kind # "meta" => dMeta' = dMeta)
    BY <2>1, <2>2, FlushSound
  <2>4. ~ formatted => w.kind # "meta" /\ ValidSlots(dMeta) = {}
    BY DEF Remains, BlobWrite, NoWrite, ImagesInv, Formatting
  <2>5. pc' = "closed" /\ pend' = NoWrite
    BY <1>3 DEF DoClose, Crash, Forget
  <2> QED
    BY <2>3, <2>4, <2>5 DEF ImagesInv, Due, NoWrite, Formatting, Filling, Reading, Calling,
       ServedIsStored
<1>4. CASE DoList
  <2>1. [NoOp EXCEPT !.call = "list"].call = "list"
    BY DEF NoOp
  <2> QED
    BY <1>4, <2>1, ReturnImages DEF DoList, Remains, ImagesInv, Formatting
<1> QED
  BY <1>1, <1>2, <1>3, <1>4

\* Every step keeps the invariant.
LEMMA NextImages ==
    ASSUME TypeOK, LibraryInv, ~ LongLived, [Next]_vars
    PROVE  ImagesInv'
<1>0. CommandInv /\ ImagesInv
  BY DEF LibraryInv
<1>1. CASE Next
  BY <1>0, <1>1, DoInsertImages, InsertStepsImages, DeleteStepsImages, DoReadImages,
     ResizeBlobImages, ReadStepsImages, SessionStepsImages DEF Next
<1>2. CASE UNCHANGED vars
  BY <1>0, <1>2 DEF vars, disk, memory, ImagesInv, Formatting, Filling, Reading, Calling,
     ServedIsStored
<1> QED
  BY <1>1, <1>2

\* With one call per opened file LibraryInv holds throughout, whatever fails: what
\* CommandInv says of the counts, and what each control point knows of the slot
\* it fills, clears or extends.
THEOREM CommandsKeepImages ==
    ASSUME ~ LongLived
    PROVE  Spec => []LibraryInv
<1>1. Init => LibraryInv
  BY InitInv, InitImages DEF LibraryInv
<1>2. TypeOK /\ LibraryInv /\ [Next]_vars => LibraryInv'
  BY NextInv, NextImages DEF LibraryInv
<1> QED
  BY <1>1, <1>2, TypeCorrect, PTL DEF Spec

-----------------------------------------------------------------------------
(* What follows for one command after another.                             *)

\* do_read, do_delete and do_insert look only at the first slot with a name
\* (imgfs_read.c:17-23): for a valid slot that is the slot itself.
THEOREM ImagesCanBeFound ==
    ASSUME ~ LongLived
    PROVE  Spec => []FirstNamedIsValid
<1>1. LibraryInv => FirstNamedIsValid
  BY DEF LibraryInv, ImagesInv, Sound, FirstNamedIsValid
<1> QED
  BY <1>1, CommandsKeepImages, PTL

\* Two images with the same content share one copy of it (image_dedup.c:28-36).
THEOREM OriginalsShared ==
    ASSUME ~ LongLived
    PROVE  Spec => []SharedOriginals
<1>1. LibraryInv => SharedOriginals
  BY DEF LibraryInv, ImagesInv, Sound, SharedOriginals
<1> QED
  BY <1>1, CommandsKeepImages, PTL

\* Every offset in a valid slot is that of a whole blob with the right image.
THEOREM ExtentsWhole ==
    ASSUME ~ LongLived
    PROVE  Spec => []ExtentsSound
<1>1. LibraryInv => ExtentsSound
  BY DEF LibraryInv, ImagesInv, Sound, Backed, ExtentsSound
<1> QED
  BY <1>1, CommandsKeepImages, PTL

\* What do_read hands out as a success is the image it was asked for.
THEOREM ReadsStored ==
    ASSUME ~ LongLived
    PROVE  Spec => []ServedIsStored
<1>1. LibraryInv => ServedIsStored
  BY DEF LibraryInv, ImagesInv
<1> QED
  BY <1>1, CommandsKeepImages, PTL

\* do_list, which stops after nb_files images, leaves none out.
THEOREM ListsAll ==
    ASSUME ~ LongLived
    PROVE  Spec => []ListShowsAll
<1>1. ASSUME TypeOK, CommandInv, pc = "ready"
      PROVE  Listed(header, metadata) = ValidSlots(metadata)
  <2> DEFINE V == ValidSlots(metadata)
  <2>1. Count(metadata) <= header.nb_files /\ header.nb_files \in Nat
    BY <1>1 DEF CommandInv, Loaded, Covers, TypeOK, Header
  <2>2. IsFiniteSet(V) /\ Count(metadata) = Cardinality(V) /\ Count(metadata) \in Nat
    BY ValidSlotsFinite DEF Count
  <2>3. ASSUME NEW i \in V
        PROVE  Cardinality({j \in V : j < i}) < header.nb_files
    <3> DEFINE before == {j \in V : j < i}
    <3>1. before \subseteq V \ {i}
      BY DEF ValidSlots, Slots
    <3>2. IsFiniteSet(V \ {i}) /\ Cardinality(V \ {i}) = Cardinality(V) - 1
      BY <2>2, FS_RemoveElement
    <3>3. Cardinality(before) \in Nat /\ Cardinality(before) <= Cardinality(V \ {i})
      BY <3>1, <3>2, FS_Subset, FS_CardinalityType
    <3> QED
      BY <2>1, <2>2, <3>2, <3>3
  <2> QED
    BY <2>3 DEF Listed
<1>2. TypeOK /\ LibraryInv => ListShowsAll
  BY <1>1 DEF LibraryInv, ListShowsAll
<1> QED
  BY <1>2, TypeCorrect, CommandsKeepImages, PTL

-----------------------------------------------------------------------------
(* Properties of steps.                                                    *)

\* The file changes only when fopen truncates it or the buffer reaches it.
LEMMA DiskStep ==
    ASSUME [Next]_vars
    PROVE  UNCHANGED disk \/ Truncate \/ \E w \in Remains(pend) : Flush(w)
<1>0. pend \in Remains(pend)
  BY DEF Remains
<1>1. CASE DoOpen \/ DoList \/ (\E id \in Ids : DoDelete(id))
           \/ (\E id \in Ids, c \in Contents \cup BadContents : DoInsert(id, c))
           \/ (\E id \in Ids, res \in Requested : DoRead(id, res))
  BY <1>1 DEF DoOpen, DoList, DoDelete, DoInsert, DoRead
<1>2. CASE DoClose \/ Crash
  BY <1>0, <1>2 DEF DoClose, Crash
<1>3. CASE InsertBlob \/ InsertHeader \/ InsertMeta \/ DeleteMeta \/ DeleteHeader
           \/ ResizeBlob \/ ResizeMeta \/ ReadData
  <2>1. Seek \/ SeekFails
    BY <1>3 DEF InsertBlob, InsertHeader, WriteHeader, InsertMeta, DeleteMeta, DeleteHeader,
       WriteLastHeader, ResizeBlob, ResizeMeta, ReadData
  <2> QED
    BY <1>0, <2>1 DEF Seek, SeekFails
<1>4. CASE DoCreate \/ UNCHANGED vars
  BY <1>4 DEF DoCreate, vars, disk
<1> QED
  BY <1>1, <1>2, <1>3, <1>4 DEF Next

\* A step that leaves a whole file either changes nothing of it or writes
\* out something due.
LEMMA DueStep ==
    ASSUME TypeOK, LibraryInv, [Next]_vars, formatted'
    PROVE  \/ UNCHANGED disk
           \/ \E w \in Write : Flush(w) /\ Due(w, dHeader, dMeta, blobs)
<1>1. ~ Truncate
  BY DEF Truncate
<1>2. \A w \in Remains(pend) : w \in Write /\ Due(w, dHeader, dMeta, blobs)
  BY RemainsType, RemainsDue DEF TypeOK, LibraryInv, ImagesInv
<1> QED
  BY <1>1, <1>2, DiskStep

\* Every header that reaches the file is one version later than the one there,
\* and counts one image more or less (imgfs_insert.c:62-63, imgfs_delete.c:36-37).
THEOREM VersionsCount ==
    ASSUME ~ LongLived
    PROVE  Spec => VersionCounts
<1>1. ASSUME TypeOK, LibraryInv, [Next]_vars, formatted, formatted', dHeader' # dHeader
      PROVE  /\ dHeader'.version = Inc(dHeader.version)
             /\ dHeader'.nb_files \in {dHeader.nb_files - 1, dHeader.nb_files + 1}
  <2>1. PICK w \in Write : Flush(w) /\ Due(w, dHeader, dMeta, blobs)
    BY <1>1, DueStep DEF disk
  <2> QED
    BY <1>1, <2>1 DEF Flush, Due, Follows
<1>2. TypeOK /\ LibraryInv /\ [Next]_vars =>
        [formatted /\ formatted' /\ dHeader' # dHeader =>
            /\ dHeader'.version = Inc(dHeader.version)
            /\ dHeader'.nb_files \in {dHeader.nb_files - 1, dHeader.nb_files + 1}
        ]_vars
  BY <1>1
<1> QED
  BY <1>2, TypeCorrect, CommandsKeepImages, PTL DEF Spec, VersionCounts

\* No blob of the file is overwritten, and no offset of an image moves once set.
LEMMA StableStep ==
    ASSUME TypeOK, LibraryInv, [Next]_vars, formatted, formatted'
    PROVE  /\ \A k \in 1 .. Len(blobs) : k <= Len(blobs') /\ blobs'[k] = blobs[k]
           /\ \A i \in ValidSlots(dMeta) \cap ValidSlots(dMeta') :
                 dMeta[i].img_id = dMeta'[i].img_id =>
                     \A r \in Res : dMeta[i].offset[r] \in {0, dMeta'[i].offset[r]}
<1>0. /\ blobs \in Seq(Blob) /\ dMeta \in [Slots -> Metadata] /\ Len(blobs) \in Nat
      /\ Sound(dMeta, blobs)
  BY DEF TypeOK, LibraryInv, ImagesInv
<1>1. CASE UNCHANGED disk
  BY <1>0, <1>1 DEF disk
<1>2. ASSUME NEW w \in Write, Flush(w), Due(w, dHeader, dMeta, blobs)
      PROVE  /\ \A k \in 1 .. Len(blobs) : k <= Len(blobs') /\ blobs'[k] = blobs[k]
             /\ \A i \in ValidSlots(dMeta) \cap ValidSlots(dMeta') :
                   dMeta[i].img_id = dMeta'[i].img_id =>
                       \A r \in Res : dMeta[i].offset[r] \in {0, dMeta'[i].offset[r]}
  <2>1. blobs' = Appended(w, blobs) /\ (w.kind # "meta" => dMeta' = dMeta)
    BY <1>0, <1>2, FlushSound
  <2>2. \A k \in 1 .. Len(blobs) : k <= Len(blobs') /\ blobs'[k] = blobs[k]
    <3>1. Len(blobs') \in Nat
      BY <1>0, <2>1, AppendedKeeps
    <3> QED
      BY <1>0, <2>1, <3>1, AppendedKeeps
  <2>3. ASSUME w.kind = "meta",
               NEW i \in ValidSlots(dMeta) \cap ValidSlots(dMeta'), NEW r \in Res
        PROVE  dMeta[i].offset[r] \in {0, dMeta'[i].offset[r]}
    <3>1. w.slot \in Slots /\ w.meta \in Metadata /\ i \in Slots
      BY <2>3 DEF Write, NoWrite, FormatWrite, ValidSlots
    <3>2. dMeta' = [dMeta EXCEPT ![w.slot] = w.meta]
      BY <1>2, <2>3 DEF Flush
    <3>3. CASE Inserts(w.slot, w.meta, dMeta, blobs)
      <4>1. w.slot # i
        BY <1>0, <2>3, <3>1, <3>3, InsertSound
      <4> QED
        BY <1>0, <3>1, <3>2, <4>1
    <3>4. CASE Deletes(w.slot, w.meta, dMeta)
      <4>0. ValidSlots([dMeta EXCEPT ![w.slot] = w.meta]) = ValidSlots(dMeta) \ {w.slot}
        BY <1>0, <3>1, <3>4, DeleteSound
      <4>1. w.slot # i
        BY <2>3, <3>2, <4>0
      <4> QED
        BY <1>0, <3>1, <3>2, <4>1
    <3>5. CASE Extends(w.slot, w.meta, dMeta, blobs)
      <4>1. \A q \in Res : dMeta[w.slot].offset[q] \in {0, w.meta.offset[q]}
        BY <1>0, <3>1, <3>5, ExtendKeeps
      <4> QED
        BY <1>0, <3>1, <3>2, <4>1
    <3> QED
      BY <1>2, <2>3, <3>3, <3>4, <3>5 DEF Due
  <2>4. ASSUME w.kind # "meta",
               NEW i \in ValidSlots(dMeta) \cap ValidSlots(dMeta'), NEW r \in Res
        PROVE  dMeta[i].offset[r] \in {0, dMeta'[i].offset[r]}
    BY <2>1, <2>4
  <2> QED
    BY <2>2, <2>3, <2>4
<1> QED
  BY <1>1, <1>2, DueStep

\* An image keeps its bytes: blobs are only appended (imgfs.h:142-147).
THEOREM ExtentsStay ==
    ASSUME ~ LongLived
    PROVE  Spec => ExtentsStable
<1>1. TypeOK /\ LibraryInv /\ [Next]_vars =>
        [formatted /\ formatted' =>
            /\ \A k \in 1 .. Len(blobs) : k <= Len(blobs') /\ blobs'[k] = blobs[k]
            /\ \A i \in ValidSlots(dMeta) \cap ValidSlots(dMeta)' :
                  dMeta[i].img_id = dMeta'[i].img_id =>
                      \A r \in Res : dMeta[i].offset[r] \in {0, dMeta'[i].offset[r]}
        ]_vars
  BY StableStep DEF ValidSlots
<1> QED
  BY <1>1, TypeCorrect, CommandsKeepImages, PTL DEF Spec, ExtentsStable
=============================================================================
