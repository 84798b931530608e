------------------------ MODULE ImgStoreCatalogProofs ------------------------
(***************************************************************************)
(* The library, with one call per opened file, implements ImageCatalog:    *)
(* every write that reaches the file puts or removes one image or changes  *)
(* none, and what do_read answers is what the catalogue holds.             *)
(***************************************************************************)
EXTENDS ImgStoreImagesProofs

-----------------------------------------------------------------------------
(* The image under a name, of a file with table m and blobs s.             *)

ImageIn(id, m, s) ==
    IF \E i \in ValidSlots(m) : m[i].img_id = id
    THEN LET i == CHOOSE slot \in ValidSlots(m) : m[slot].img_id = id
         IN s[m[i].offset[ORIG_RES]].content
    ELSE NoContent
ImagesIn(m, s) == [id \in Ids |-> ImageIn(id, m, s)]

\* The slot with a name is the only one, and its original is its content.
LEMMA FoundImage ==
    ASSUME NEW m, NEW s, Sound(m, s), NEW i \in ValidSlots(m)
    PROVE  /\ ImageIn(m[i].img_id, m, s) = m[i].SHA
           /\ m[i].SHA \in Contents /\ m[i].SHA # NoContent /\ m[i].img_id \in Ids
<1> DEFINE k == CHOOSE slot \in ValidSlots(m) : m[slot].img_id = m[i].img_id
<1>1. k \in ValidSlots(m) /\ m[k].img_id = m[i].img_id
  OBVIOUS
<1> HIDE DEF k
<1>2. k = i
  <2>1. k \in Slots /\ i \in Slots /\ k \in Int /\ i \in Int
    BY <1>1 DEF ValidSlots, Slots
  <2>2. ~ (k < i) /\ ~ (i < k)
    BY <1>1, <2>1 DEF Sound
  <2> QED
    BY <2>1, <2>2
<1>3. s[m[i].offset[ORIG_RES]].content = m[i].SHA
  <2>1. ORIG_RES \in Res /\ m[i].offset[ORIG_RES] # 0 /\ Backed(m[i], s)
    BY DEF Sound, Res
  <2>2. s[m[i].offset[ORIG_RES]] = [content |-> m[i].SHA, res |-> ORIG_RES]
    BY <2>1 DEF Backed
  <2> QED
    BY <2>2
<1>4. m[i].SHA \in Contents /\ m[i].SHA # NoContent /\ m[i].img_id \in Ids
  BY NamesAssumption DEF Sound
<1>5. ImageIn(m[i].img_id, m, s) = s[m[k].offset[ORIG_RES]].content
  BY <1>1 DEF ImageIn, k
<1> QED
  BY <1>2, <1>3, <1>4, <1>5

LEMMA NoImage ==
    ASSUME NEW id, NEW m, NEW s, \A i \in ValidSlots(m) : m[i].img_id # id
    PROVE  ImageIn(id, m, s) = NoContent
BY DEF ImageIn

\* Names and contents of the valid slots are all that matters.
LEMMA SameImages ==
    ASSUME NEW m, NEW s, Sound(m, s), NEW n, NEW t, Sound(n, t),
           ValidSlots(n) = ValidSlots(m),
           \A i \in ValidSlots(m) : n[i].img_id = m[i].img_id /\ n[i].SHA = m[i].SHA
    PROVE  ImagesIn(n, t) = ImagesIn(m, s)
<1>1. ASSUME NEW id \in Ids
      PROVE  ImageIn(id, n, t) = ImageIn(id, m, s)
  <2>1. CASE \E i \in ValidSlots(m) : m[i].img_id = id
    <3>1. PICK i \in ValidSlots(m) : m[i].img_id = id
      BY <2>1
    <3>2. ImageIn(id, m, s) = m[i].SHA
      BY <3>1, FoundImage
    <3>3. i \in ValidSlots(n) /\ n[i].img_id = id /\ n[i].SHA = m[i].SHA
      BY <3>1
    <3>4. ImageIn(id, n, t) = n[i].SHA
      BY <3>3, FoundImage
    <3> QED
      BY <3>2, <3>3, <3>4
  <2>2. CASE \A i \in ValidSlots(m) : m[i].img_id # id
    <3>1. ImageIn(id, m, s) = NoContent
      BY <2>2, NoImage
    <3>2. ImageIn(id, n, t) = NoContent
      BY <2>2, NoImage
    <3> QED
      BY <3>1, <3>2
  <2> QED
    BY <2>1, <2>2
<1> QED
  BY <1>1 DEF ImagesIn

\* No more names than valid slots.
LEMMA StoredCount ==
    ASSUME NEW m, NEW s, Sound(m, s)
    PROVE  LET stored == {id \in Ids : ImagesIn(m, s)[id] # NoContent}
           IN  Cardinality(stored) \in Nat /\ Cardinality(stored) <= Count(m)
<1> DEFINE stored == {id \in Ids : ImagesIn(m, s)[id] # NoContent}
           f == [id \in stored |-> CHOOSE i \in ValidSlots(m) : m[i].img_id = id]
<1>1. \A id \in stored : \E i \in ValidSlots(m) : m[i].img_id = id
  BY NoImage DEF ImagesIn
<1>2. \A id \in stored : f[id] \in ValidSlots(m) /\ m[f[id]].img_id = id
  BY <1>1
<1>3. f \in [stored -> ValidSlots(m)]
  BY <1>2
<1> HIDE DEF f, stored
<1>4. f \in Injection(stored, ValidSlots(m))
  BY <1>2, <1>3 DEF Injection, IsInjective
<1>5. IsFiniteSet(ValidSlots(m))
  BY ValidSlotsFinite
<1>6. IsFiniteSet(stored) /\ Cardinality(stored) <= Cardinality(ValidSlots(m))
  BY <1>4, <1>5, FS_Injection
<1> QED
  BY <1>6, FS_CardinalityType DEF Count, stored

-----------------------------------------------------------------------------
(* What a write does to the catalogue.                                     *)

\* One image more, or one image less.
Puts(old, new) ==
    \E id \in Ids, c \in Contents :
        /\ old[id] = NoContent
        /\ Cardinality({n \in Ids : old[n] # NoContent}) < MaxFiles
        /\ new = [old EXCEPT ![id] = c]
Removes(old, new) ==
    \E id \in Ids : old[id] # NoContent /\ new = [old EXCEPT ![id] = NoContent]

\* The slot do_insert fills puts one image under a new name, and there was room.
LEMMA InsertPuts ==
    ASSUME NEW m \in [Slots -> Metadata], NEW s, Sound(m, s),
           NEW i \in Slots, NEW v \in Metadata, Inserts(i, v, m, s)
    PROVE  Puts(ImagesIn(m, s), ImagesIn([m EXCEPT ![i] = v], s))
<1> DEFINE n == [m EXCEPT ![i] = v]
           old == ImagesIn(m, s)
<1>1. v.img_id \in Ids /\ v.SHA \in Contents
  BY DEF Inserts, Names
<1>2. old[v.img_id] = NoContent
  BY <1>1, NoImage DEF ImagesIn, Inserts, Names
<1>3. Cardinality({id \in Ids : old[id] # NoContent}) < MaxFiles
  <2>1. Count(m) \in Nat /\ Count(m) <= MaxFiles /\ Count(m) # MaxFiles
    BY ValidSlotsFinite, InsertSound
  <2>2. Count(m) < MaxFiles
    BY <2>1, SizesAssumption
  <2>3. /\ Cardinality({id \in Ids : old[id] # NoContent}) \in Nat
        /\ Cardinality({id \in Ids : old[id] # NoContent}) <= Count(m)
    BY StoredCount
  <2> QED
    BY <2>1, <2>2, <2>3, SizesAssumption
<1>4. /\ Sound(n, s) /\ i \notin ValidSlots(m) /\ ValidSlots(n) = ValidSlots(m) \cup {i}
      /\ n[i] = v /\ \A j \in ValidSlots(m) : n[j] = m[j]
  <2>1. \A j \in ValidSlots(m) : j \in Slots
    BY DEF ValidSlots
  <2> QED
    BY <2>1, InsertSound
<1> HIDE DEF n
<1>5. ASSUME NEW id \in Ids
      PROVE  ImageIn(id, n, s) = IF id = v.img_id THEN v.SHA ELSE old[id]
  <2>0. old[id] = ImageIn(id, m, s)
    BY DEF ImagesIn
  <2>1. CASE id = v.img_id
    <3>1. i \in ValidSlots(n) /\ n[i].img_id = id /\ n[i].SHA = v.SHA
      BY <1>4, <2>1
    <3>2. ImageIn(id, n, s) = n[i].SHA
      BY <1>4, <3>1, FoundImage
    <3> QED
      BY <2>1, <3>1, <3>2
  <2>2. CASE id # v.img_id /\ \E j \in ValidSlots(m) : m[j].img_id = id
    <3>1. PICK j \in ValidSlots(m) : m[j].img_id = id
      BY <2>2
    <3>2. ImageIn(id, m, s) = m[j].SHA
      BY <3>1, FoundImage
    <3>3. j \in ValidSlots(n) /\ n[j].img_id = id /\ n[j].SHA = m[j].SHA
      BY <1>4, <3>1
    <3>4. ImageIn(id, n, s) = n[j].SHA
      BY <1>4, <3>3, FoundImage
    <3> QED
      BY <2>0, <2>2, <3>2, <3>3, <3>4
  <2>3. CASE id # v.img_id /\ \A j \in ValidSlots(m) : m[j].img_id # id
    <3>1. ImageIn(id, m, s) = NoContent
      BY <2>3, NoImage
    <3>2. \A j \in ValidSlots(n) : n[j].img_id # id
      BY <1>4, <2>3
    <3>3. ImageIn(id, n, s) = NoContent
      BY <3>2, NoImage
    <3> QED
      BY <2>0, <2>3, <3>1, <3>3
  <2> QED
    BY <2>1, <2>2, <2>3
<1>6. ImagesIn(n, s) = [old EXCEPT ![v.img_id] = v.SHA]
  BY <1>5 DEF ImagesIn
<1> QED
  BY <1>1, <1>2, <1>3, <1>6 DEF Puts, n

\* The slot do_delete clears removes the image it held.
LEMMA DeleteRemoves ==
    ASSUME NEW m \in [Slots -> Metadata], NEW s, Sound(m, s),
           NEW i \in Slots, NEW v, Deletes(i, v, m)
    PROVE  Removes(ImagesIn(m, s), ImagesIn([m EXCEPT ![i] = v], s))
<1> DEFINE n == [m EXCEPT ![i] = v]
           old == ImagesIn(m, s)
           name == m[i].img_id
<1>1. /\ Sound(n, s) /\ ValidSlots(n) = ValidSlots(m) \ {i} /\ i \in ValidSlots(m)
      /\ \A j \in ValidSlots(m) : j # i => n[j] = m[j]
  <2>1. \A j \in ValidSlots(m) : j \in Slots
    BY DEF ValidSlots
  <2> QED
    BY <2>1, DeleteSound DEF Deletes
<1>2. name \in Ids /\ old[name] # NoContent
  <2>1. /\ ImageIn(m[i].img_id, m, s) = m[i].SHA
        /\ m[i].SHA # NoContent /\ m[i].img_id \in Ids
    BY <1>1, FoundImage
  <2> QED
    BY <2>1 DEF ImagesIn
<1>3. ASSUME NEW j \in ValidSlots(m), j # i
      PROVE  m[j].img_id # name
  <2>1. j \in Slots /\ j \in Int /\ i \in Int
    BY DEF ValidSlots, Slots
  <2> QED
    BY <1>1, <1>3, <2>1 DEF Sound
<1> HIDE DEF n, name
<1>4. ASSUME NEW id \in Ids
      PROVE  ImageIn(id, n, s) = IF id = name THEN NoContent ELSE old[id]
  <2>0. old[id] = ImageIn(id, m, s)
    BY DEF ImagesIn
  <2>1. CASE id = name
    <3>1. \A j \in ValidSlots(n) : n[j].img_id # id
      BY <1>1, <1>3, <2>1
    <3>2. ImageIn(id, n, s) = NoContent
      BY <3>1, NoImage
    <3> QED
      BY <2>1, <3>2
  <2>2. CASE id # name /\ \E j \in ValidSlots(n) : n[j].img_id = id
    <3>1. PICK j \in ValidSlots(n) : n[j].img_id = id
      BY <2>2
    <3>2. ImageIn(id, n, s) = n[j].SHA
      BY <1>1, <3>1, FoundImage
    <3>3. j \in ValidSlots(m) /\ m[j].img_id = id /\ m[j].SHA = n[j].SHA
      BY <1>1, <3>1
    <3>4. ImageIn(id, m, s) = m[j].SHA
      BY <3>3, FoundImage
    <3> QED
      BY <2>0, <2>2, <3>2, <3>3, <3>4
  <2>3. CASE id # name /\ \A j \in ValidSlots(n) : n[j].img_id # id
    <3>1. \A j \in ValidSlots(m) : m[j].img_id # id
      BY <1>1, <2>3 DEF name
    <3>2. ImageIn(id, m, s) = NoContent
      BY <3>1, NoImage
    <3>3. ImageIn(id, n, s) = NoContent
      BY <2>3, NoImage
    <3> QED
      BY <2>0, <2>3, <3>2, <3>3
  <2> QED
    BY <2>1, <2>2, <2>3
<1>5. ImagesIn(n, s) = [old EXCEPT ![name] = NoContent]
  BY <1>4 DEF ImagesIn
<1> QED
  BY <1>2, <1>5 DEF Removes, n, name

\* An image in one more resolution is the same image.
LEMMA ExtendedShows ==
    ASSUME NEW m \in [Slots -> Metadata], NEW s, Sound(m, s),
           NEW i \in Slots, NEW v, Extends(i, v, m, s)
    PROVE  ImagesIn([m EXCEPT ![i] = v], s) = ImagesIn(m, s)
<1> DEFINE n == [m EXCEPT ![i] = v]
<1>1. Sound(n, s)
  BY ExtendSound
<1>2. v.img_id = m[i].img_id /\ v.SHA = m[i].SHA /\ v.is_valid = NON_EMPTY
  BY ExtendKeeps
<1>3. ValidSlots(n) = ValidSlots(m)
  BY <1>2 DEF Extends, ValidSlots
<1>4. \A j \in ValidSlots(m) : n[j].img_id = m[j].img_id /\ n[j].SHA = m[j].SHA
  BY <1>2 DEF ValidSlots
<1> HIDE DEF n
<1>5. ImagesIn(n, s) = ImagesIn(m, s)
  BY <1>1, <1>3, <1>4, SameImages
<1> QED
  BY <1>5 DEF n

-----------------------------------------------------------------------------
(* Every step of the library is a step of the catalogue, or none.          *)

NoImages == [id \in Ids |-> NoContent]
Pictures == IF formatted THEN ImagesIn(dMeta, blobs) ELSE NoImages
Answer == IF served.id = NoId THEN <<NoContent, NoContent>>
          ELSE <<served.id, served.image.content>>

\* The buffer, or what is left of it, reaches the file: nothing shows but a slot
\* filled or cleared, and formatting an empty file shows nothing.
LEMMA FlushChanges ==
    ASSUME TypeOK, ImagesInv, NEW w \in Remains(pend), Flush(w)
    PROVE  \/ Pictures' = Pictures
           \/ Puts(Pictures, Pictures')
           \/ Removes(Pictures, Pictures')
<1>0. /\ w \in Write /\ Due(w, dHeader, dMeta, blobs) /\ Sound(dMeta, blobs)
      /\ dMeta \in [Slots -> Metadata]
  BY RemainsType, RemainsDue DEF TypeOK, ImagesInv
<1>1. CASE ~ formatted
  <2>1. w.kind # "meta" /\ ValidSlots(dMeta) = {}
    BY <1>1 DEF Remains, BlobWrite, NoWrite, ImagesInv, Formatting
  <2>2. dMeta' = dMeta
    BY <1>0, <2>1, FlushSound
  <2>3. Pictures = NoImages
    BY <1>1 DEF Pictures
  <2>4. Pictures' = NoImages
    <3>1. ImagesIn(dMeta', blobs') = NoImages
      BY <2>1, <2>2, NoImage DEF ImagesIn, NoImages
    <3> QED
      BY <3>1 DEF Pictures
  <2> QED
    BY <2>3, <2>4
<1>2. CASE formatted /\ w.kind # "meta"
  <2>1. dMeta' = dMeta /\ Sound(dMeta', blobs') /\ formatted'
    BY <1>0, <1>2, FlushSound
  <2>2. ImagesIn(dMeta', blobs') = ImagesIn(dMeta, blobs)
    BY <1>0, <2>1, SameImages
  <2> QED
    BY <1>2, <2>1, <2>2 DEF Pictures
<1>3. CASE formatted /\ w.kind = "meta"
  <2>1. w.slot \in Slots /\ w.meta \in Metadata
    BY <1>0, <1>3 DEF Write, NoWrite, FormatWrite
  <2>2. dMeta' = [dMeta EXCEPT ![w.slot] = w.meta] /\ blobs' = blobs
    BY <1>3 DEF Flush
  <2>3. formatted'
    BY <1>3, Zenon DEF Flush
  <2>4. Pictures = ImagesIn(dMeta, blobs) /\ Pictures' = ImagesIn(dMeta', blobs)
    BY <1>3, <2>2, <2>3 DEF Pictures
  <2>5. CASE Inserts(w.slot, w.meta, dMeta, blobs)
    <3>1. Puts(ImagesIn(dMeta, blobs), ImagesIn([dMeta EXCEPT ![w.slot] = w.meta], blobs))
      BY <1>0, <2>1, <2>5, InsertPuts
    <3> QED
      BY <2>2, <2>4, <3>1
  <2>6. CASE Deletes(w.slot, w.meta, dMeta)
    <3>1. Removes(ImagesIn(dMeta, blobs), ImagesIn([dMeta EXCEPT ![w.slot] = w.meta], blobs))
      BY <1>0, <2>1, <2>6, DeleteRemoves
    <3> QED
      BY <2>2, <2>4, <3>1
  <2>7. CASE Extends(w.slot, w.meta, dMeta, blobs)
    <3>1. ImagesIn([dMeta EXCEPT ![w.slot] = w.meta], blobs) = ImagesIn(dMeta, blobs)
      BY <1>0, <2>1, <2>7, ExtendedShows
    <3> QED
      BY <2>2, <2>4, <3>1
  <2> QED
    BY <1>0, <1>3, <2>5, <2>6, <2>7 DEF Due
<1> QED
  BY <1>1, <1>2, <1>3

\* An answer of do_read that says there is no such image is right.
LEMMA NotFoundStep ==
    ASSUME TypeOK, CommandInv, ImagesInv, NEW id \in Ids, NEW res, DoRead(id, res),
           served' # served
    PROVE  Pictures' = Pictures /\ Answer' = <<id, Pictures[id]>>
<1>1. /\ header = dHeader /\ metadata = dMeta /\ Sound(dMeta, blobs)
      /\ UNCHANGED <<formatted, dMeta, blobs>>
  BY DEF DoRead, CommandInv, Loaded, ImagesInv, disk
<1>2. /\ served' = [id |-> id, image |-> Torn]
      /\ \/ header.nb_files = 0
         \/ \A i \in Slots : ~ (FirstNamed(i, id) /\ metadata[i].is_valid # EMPTY)
  BY DEF DoRead
<1>3. ASSUME NEW i \in ValidSlots(dMeta)
      PROVE  dMeta[i].img_id # id
  <2>1. header.nb_files # 0
    <3>1. Count(dMeta) >= 1 /\ Count(dMeta) \in Nat
      BY ValidCounted, ValidSlotsFinite
    <3>2. Count(dMeta) <= dHeader.nb_files
      BY DEF CommandInv, Covers
    <3> QED
      BY <1>1, <3>1, <3>2
  <2>2. i \in Slots /\ dMeta[i].is_valid # EMPTY
    BY DEF ValidSlots, EMPTY, NON_EMPTY
  <2>3. ~ FirstNamed(i, id)
    BY <1>1, <1>2, <2>1, <2>2
  <2> QED
    BY <1>1, <2>2, <2>3 DEF FirstNamed, Sound
<1>4. Pictures[id] = NoContent
  BY <1>3, NoImage DEF Pictures, ImagesIn, NoImages
<1>5. Answer' = <<id, NoContent>>
  BY <1>2, NamesAssumption DEF Answer, Torn
<1> QED
  BY <1>1, <1>4, <1>5 DEF Pictures

\* An image do_read hands out is the one stored under the name, though the
\* resolution may be one that reaches the file with this very step.
LEMMA ServeStep ==
    ASSUME TypeOK, CommandInv, ImagesInv, ReadData, served' # served
    PROVE  Pictures' = Pictures /\ \E id \in Ids : Answer' = <<id, Pictures[id]>>
<1> DEFINE v == metadata[op.slot]
           o == v.offset[op.res]
           k == op.slot
<1>1. /\ pc = "rd_data" /\ Seek /\ formatted
      /\ k \in Slots /\ op.res \in Res /\ v \in Metadata /\ pend \in Write
      /\ dMeta \in [Slots -> Metadata]
      /\ Sound(dMeta, blobs) /\ Due(pend, dHeader, dMeta, blobs)
  BY DEF ReadData, TypeOK, Op, ImagesInv, Formatting
<1>2. /\ k \in ValidSlots(dMeta) /\ dMeta[k].img_id = op.id
      /\ o # 0 /\ Backed(v, blobs) /\ v.SHA = dMeta[k].SHA
      /\ pend.kind \in {"none", "meta"}
      /\ pend.kind = "meta" => Extends(pend.slot, pend.meta, dMeta, blobs)
  BY <1>1 DEF ImagesInv, Reading
<1>3. blobs' = blobs /\ Sound(dMeta', blobs') /\ formatted'
  BY <1>1, <1>2, SeekSound DEF Seek, Flush
<1>4. ImagesIn(dMeta', blobs') = ImagesIn(dMeta, blobs)
  <2>1. CASE pend.kind = "none"
    BY <1>1, <1>3, <2>1 DEF Seek, Flush
  <2>2. CASE pend.kind = "meta"
    <3>1. pend.slot \in Slots
      BY <1>1, <2>2 DEF Write, NoWrite, FormatWrite
    <3>2. dMeta' = [dMeta EXCEPT ![pend.slot] = pend.meta]
      BY <1>1, <2>2 DEF Seek, Flush
    <3> QED
      BY <1>1, <1>2, <1>3, <2>2, <3>1, <3>2, ExtendedShows
  <2> QED
    BY <1>2, <2>1, <2>2
<1>5. Pictures' = Pictures /\ Pictures = ImagesIn(dMeta, blobs)
  BY <1>1, <1>3, <1>4 DEF Pictures
<1>6. served' = [id |-> op.id, image |-> blobs[o]]
  <2>1. BytesAt(blobs', o) \subseteq {blobs[o]}
    BY <1>2, <1>3 DEF BytesAt
  <2>2. \E b \in BytesAt(blobs', o) : served' = [id |-> op.id, image |-> b]
    BY DEF ReadData
  <2> QED
    BY <2>1, <2>2
<1>7. blobs[o].content = dMeta[k].SHA
  <2>1. blobs[o] = [content |-> v.SHA, res |-> op.res]
    BY <1>1, <1>2 DEF Backed
  <2> QED
    BY <1>2, <2>1
<1>8. op.id \in Ids /\ Pictures[op.id] = dMeta[k].SHA
  <2>1. ImageIn(op.id, dMeta, blobs) = dMeta[k].SHA /\ op.id \in Ids
    BY <1>1, <1>2, FoundImage
  <2> QED
    BY <1>5, <2>1 DEF ImagesIn
<1>9. op.id # NoId
  BY <1>8, NamesAssumption
<1>10. Answer' = <<op.id, Pictures[op.id]>>
  BY <1>6, <1>7, <1>8, <1>9 DEF Answer
<1> QED
  BY <1>5, <1>8, <1>10

\* The steps in which do_read answers, and the others.
LEMMA ServedStep ==
    ASSUME [Next]_vars, served' # served
    PROVE  ReadData \/ \E id \in Ids, res \in Requested : DoRead(id, res)
BY DEF Next, vars, DoCreate, DoOpen, DoClose, Crash, DoInsert, InsertBlob, InsertHeader,
   WriteHeader, InsertMeta, DoDelete, DeleteMeta, DeleteHeader, WriteLastHeader, ResizeBlob,
   ResizeMeta, DoList

\* What a step shows of the images and of the answers.
LEMMA CatalogStep ==
    ASSUME TypeOK, LibraryInv, [Next]_vars
    PROVE  \/ /\ Answer' = Answer
              /\ \/ Pictures' = Pictures
                 \/ Pictures' = NoImages
                 \/ Puts(Pictures, Pictures')
                 \/ Removes(Pictures, Pictures')
           \/ Pictures' = Pictures /\ \E id \in Ids : Answer' = <<id, Pictures[id]>>
<1>0. CommandInv /\ ImagesInv
  BY DEF LibraryInv
<1>1. CASE served' = served
  <2>1. Answer' = Answer
    BY <1>1 DEF Answer
  <2>2. CASE UNCHANGED disk
    BY <2>1, <2>2 DEF disk, Pictures
  <2>3. CASE Truncate
    <3>1. ~ formatted'
      BY <2>3 DEF Truncate
    <3>2. Pictures' = NoImages
      BY <3>1 DEF Pictures
    <3> QED
      BY <2>1, <3>2
  <2>4. CASE \E w \in Remains(pend) : Flush(w)
    BY <1>0, <2>1, <2>4, FlushChanges
  <2> QED
    BY <2>2, <2>3, <2>4, DiskStep
<1>2. CASE served' # served
  BY <1>0, <1>2, ServedStep, NotFoundStep, ServeStep
<1> QED
  BY <1>1, <1>2

\* ImageCatalog counts as ImgStore does.
LEMMA SameCardinality == \A S : Catalog!Cardinality(S) = Cardinality(S)
BY DEF Catalog!Cardinality, Cardinality

\* One command after another, each of which may fail or be killed anywhere, leave
\* an image catalogue: every insertion or deletion takes effect at once or not at
\* all, and every answer is what the catalogue holds when it is given.
THEOREM CommandsImplementCatalog ==
    ASSUME ~ LongLived
    PROVE  Spec => ImplementsCatalog
<1> DEFINE stored == [id \in Ids |-> StoredImage(id)]
<1>0. /\ stored = Pictures
      /\ stored' = Pictures'
      /\ Pictures = [id \in Ids |-> Pictures[id]]
  BY DEF StoredImage, Pictures, ImagesIn, ImageIn, NoImages
<1>1. Init => Catalog!Init
  BY NoImage DEF Init, Catalog!Init, StoredImage
<1>2. TypeOK /\ LibraryInv /\ [Next]_vars
        => [Catalog!Next]_<<stored, Answer>>
  <2> SUFFICES ASSUME TypeOK, LibraryInv, [Next]_vars
               PROVE  [Catalog!Next]_<<stored, Answer>>
    OBVIOUS
  <2>1. CASE Answer' = Answer /\ Pictures' = Pictures
    BY <1>0, <2>1
  <2>2. CASE Answer' = Answer /\ Pictures' = NoImages
    BY <1>0, <2>2 DEF Catalog!Next, Catalog!Wipe, NoImages, Answer
  <2>3. CASE Answer' = Answer /\ Puts(Pictures, Pictures')
    <3>1. PICK id \in Ids, c \in Contents :
             /\ Pictures[id] = NoContent
             /\ Cardinality({n \in Ids : Pictures[n] # NoContent}) < MaxFiles
             /\ Pictures' = [Pictures EXCEPT ![id] = c]
      BY <2>3 DEF Puts
    <3>2. Catalog!Put(id, c)
      BY <1>0, <2>3, <3>1, SameCardinality DEF Catalog!Put, Catalog!Stored, Answer
    <3> QED
      BY <3>2 DEF Catalog!Next
  <2>4. CASE Answer' = Answer /\ Removes(Pictures, Pictures')
    BY <1>0, <2>4 DEF Catalog!Next, Catalog!Remove, Removes, Answer
  <2>5. CASE Pictures' = Pictures /\ \E id \in Ids : Answer' = <<id, Pictures[id]>>
    BY <1>0, <2>5 DEF Catalog!Next, Catalog!Serve, Answer
  <2>6. \/ /\ Answer' = Answer
           /\ \/ Pictures' = Pictures
              \/ Pictures' = NoImages
              \/ Puts(Pictures, Pictures')
              \/ Removes(Pictures, Pictures')
        \/ Pictures' = Pictures /\ \E id \in Ids : Answer' = <<id, Pictures[id]>>
    BY CatalogStep
  <2> QED
    BY <2>1, <2>2, <2>3, <2>4, <2>5, <2>6
<1> QED
  BY <1>1, <1>2, TypeCorrect, CommandsKeepImages, PTL
     DEF Spec, ImplementsCatalog, Catalog!Spec, Answer
=============================================================================
