------------------------ MODULE MediaProcessingProofs ------------------------
(* MediaProcessing, for every set of media and any number of jobs: its types,      *)
(* NoneForgotten, GalleryServable and ReadyStays, from one inductive invariant;    *)
(* and that it implements MediaGallery.                                            *)
EXTENDS MediaProcessing, FiniteSetTheorems, TLAPS

Names   == {"preview", "processed", "poster"}
CopySet == (Media \cup {Shared}) \X Names

\* The worker has one row in hand, which was confirmed and says so; the copies it has stored
\* are there, unless its deletion was asked for.
WorkerInv ==
  /\ worker \in [phase : {"down", "requeued", "idle"} \cup Working, media : SUBSET Media, done : SUBSET Names]
  /\ worker.phase \notin Working => worker.media = {}
  /\ worker.phase \in Working =>
       \E m \in Media :
         /\ worker.media = {m} /\ processing[m] = "processing" /\ status[m] # "pending"
         /\ m \in asked \/ \A c \in worker.done : <<m, c>> \in copies

\* A deletion has the rows that were asked for, and their keys; it goes on to the rows when
\* their originals are gone, but those that came later.
DeletionInv ==
  /\ deletion \in [phase : {"none", "read", "erased"}, rows : SUBSET Media, keys : SUBSET CopySet]
  /\ deletion.rows \subseteq asked
  /\ \A k \in deletion.keys : k[1] \in asked \/ Unshared(k)
  /\ deletion.phase = "erased" => deletion.rows \cap originals \subseteq missed

\* Before the confirmation nothing is processed; a row names its own copies or the shared
\* preview, and a ready one names some.
RowInv ==
  \A m \in Media :
    /\ status[m] = "pending" => processing[m] = "pending"
    /\ keys[m] = {} \/ keys[m] = Own(m) \/ (m \in Legacy /\ keys[m] = {<<Shared, "preview">>})
    /\ processing[m] = "ready" => keys[m] # {}

\* What nobody asked to delete is in storage, or on its way there.
StorageInv ==
  \A m \in Media \ asked :
    m \in coming \cup originals /\ \A k \in keys[m] : k \in copies \/ Unshared(k)

\* A PUT that runs is that of a pending row, or of one given up meanwhile; a page that confirms
\* has seen the original.
ComingInv ==
  \A m \in Media :
    /\ m \in coming =>
         /\ m \notin originals /\ m \notin asked \ missed
         /\ status[m] = "pending" \/ (status[m] = "removed" /\ m \in missed)
    /\ confirming[m] > 0 => m \notin coming /\ m \in originals \cup asked

\* The cleanup and a job exclude each other, so what it looks at is not processed; what it found
\* is there or was asked for, what it did not find was not there yet, or is there no more.
PassInv ==
  /\ pass \in [open : BOOLEAN, todo : SUBSET Media, found : SUBSET Media, missing : SUBSET Media]
  /\ ~pass.open => pass = NoPass
  /\ pass.open => worker.phase \in {"down", "idle"}
  /\ \A m \in pass.todo \cup pass.found \cup pass.missing : processing[m] = "pending"
  /\ \A m \in pass.found : m \notin coming /\ m \in originals \cup asked
  /\ \A m \in pass.missing : m \in missed \/ (m \in asked /\ m \notin originals \cup coming)

IInv == TypeOK /\ WorkerInv /\ DeletionInv /\ RowInv /\ StorageInv /\ ComingInv /\ PassInv
  /\ NoneForgotten

\* What a ready row may do in a step.
Stays == \A m \in Media : processing[m] = "ready" /\ ~UsesLegacy(m) => processing'[m] = "ready"

\* The copies of a row are its own.
LEMMA OwnCopies ==
  ASSUME NEW m \in Media
  PROVE  /\ Own(m) \subseteq CopySet /\ Own(m) # {}
         /\ \A k \in Own(m) : k[1] = m /\ k[2] \in Kinds(m) /\ k = <<m, k[2]>>
         /\ \A c \in Kinds(m) : <<m, c>> \in Own(m)
<1>1. Kinds(m) \subseteq Names /\ Kinds(m) # {}
  BY DEF Kinds, Names
<1>2. \A k \in Own(m) : k[1] = m /\ k[2] \in Kinds(m) /\ k = <<m, k[2]>>
  BY DEF Own
<1>3. \A c \in Kinds(m) : <<m, c>> \in Own(m)
  BY DEF Own
<1>4. Own(m) \subseteq CopySet
  BY <1>1 DEF Own, CopySet
<1>5. Own(m) # {}
  BY <1>1, <1>3
<1> QED
  BY <1>2, <1>3, <1>4, <1>5

\* The sizes of the worker's hand.
LEMMA Sizes == Cardinality({}) = 0 /\ \A m : Cardinality({m}) = 1
BY FS_EmptySet, FS_Singleton

\* A worker with nothing in hand has the type of a worker.
LEMMA EmptyHand ==
  ASSUME NEW phase \in {"down", "requeued", "idle"}
  PROVE  /\ At(phase) \in [phase : {"down", "requeued", "idle"} \cup Working, media : SUBSET Media, done : SUBSET Names]
         /\ At(phase).phase = phase /\ At(phase).media = {} /\ phase \notin Working
         /\ Cardinality(At(phase).media) = 0
BY Sizes DEF At, Working

\* The rows start without copies of their own, the worker down.
LEMMA InitInv == Init => IInv
<1> SUFFICES ASSUME Init PROVE IInv
  OBVIOUS
<1> USE ProcessingAssumption DEF Init, NoDeletion
<1>1. worker = At("down") /\ worker.phase = "down" /\ worker.media = {} /\ Cardinality(worker.media) = 0
  BY Sizes DEF At
<1>2. <<Shared, "preview">> \in CopySet
  BY DEF CopySet, Names
<1>3. TypeOK
  BY <1>1, <1>2 DEF TypeOK, CopySet, Names, Working, NoPass
<1>4. WorkerInv
  BY <1>1, EmptyHand DEF WorkerInv, Working
<1>5. DeletionInv /\ RowInv
  BY DEF DeletionInv, RowInv
<1>6. StorageInv /\ NoneForgotten /\ ComingInv
  BY DEF StorageInv, NoneForgotten, ComingInv
<1>7. PassInv
  BY <1>1 DEF PassInv, NoPass
<1> QED
  BY <1>3, <1>4, <1>5, <1>6, <1>7 DEF IInv

\* The end of a PUT is seen by nobody yet.
LEMMA PutKeeps ==
  ASSUME IInv, NEW m \in Media, Put(m)
  PROVE  IInv' /\ Stays
<1> USE ProcessingAssumption DEF IInv
<1>1. /\ m \in coming /\ coming' = coming \ {m} /\ originals' = originals \cup {m}
      /\ UNCHANGED <<row, copies, queue, web, worker, pass, stranded>>
  BY DEF Put
<1>2. TypeOK' /\ WorkerInv'
  BY <1>1 DEF TypeOK, WorkerInv, row, web
<1>3. DeletionInv' /\ StorageInv' /\ Stays
  BY <1>1 DEF DeletionInv, StorageInv, ComingInv, Stays, Unshared, row, web
<1>4. RowInv' /\ NoneForgotten'
  BY <1>1 DEF RowInv, NoneForgotten, Present, Own, Kinds, row
<1>5. ComingInv' /\ PassInv'
  BY <1>1 DEF ComingInv, PassInv, row, web
<1> QED
  BY <1>2, <1>3, <1>4, <1>5

\* A confirmation changes a status from pending, and the queue.
LEMMA ConfirmKeeps ==
  ASSUME IInv, NEW m \in Media, ReadPending(m) \/ confirm_upload(m)
  PROVE  IInv' /\ Stays
<1> USE ProcessingAssumption DEF IInv
<1>1. /\ UNCHANGED <<processing, keys, storage, deletion, asked, missed, worker, pass, stranded>>
      /\ status' = status \/ ( /\ status[m] = "pending" /\ confirming[m] > 0
                               /\ status' = [status EXCEPT ![m] = "uploaded"] )
      /\ queue' \in [Media -> 0..MaxJobs] /\ confirming' \in [Media -> 0..MaxJobs]
  BY DEF TypeOK, ReadPending, confirm_upload, row, web
<1>2. TypeOK'
  BY <1>1 DEF TypeOK, storage
<1>3. WorkerInv' /\ PassInv'
  BY <1>1 DEF TypeOK, WorkerInv, PassInv, storage
<1>4. DeletionInv' /\ StorageInv' /\ Stays
  BY <1>1 DEF DeletionInv, StorageInv, Stays, Unshared, storage
<1>5. RowInv' /\ NoneForgotten'
  BY <1>1 DEF TypeOK, RowInv, NoneForgotten, Present, Own, Kinds
<1>6. \A n \in Media : confirming'[n] > 0 => n \notin coming /\ n \in originals \cup asked
  BY DEF TypeOK, ReadPending, confirm_upload, ComingInv
<1>7. ComingInv'
  BY <1>1, <1>6 DEF TypeOK, ComingInv, storage
<1> QED
  BY <1>2, <1>3, <1>4, <1>5, <1>7

\* A deletion takes the keys of its rows.
LEMMA AskKeeps ==
  ASSUME IInv, NEW S \in SUBSET Media, delete_media(S)
  PROVE  IInv' /\ Stays
<1> USE ProcessingAssumption DEF IInv
<1> DEFINE K == UNION {keys[m] : m \in S}
<1>1. /\ deletion' = [phase |-> "read", rows |-> S, keys |-> K]
      /\ asked' = asked \cup S /\ missed' = missed \cup (S \cap coming)
      /\ UNCHANGED <<row, storage, queue, confirming, worker, pass, stranded>>
  BY DEF delete_media
<1>2. \A k \in K : \E m \in S : k \in keys[m]
  OBVIOUS
<1> HIDE DEF K
<1>3. K \subseteq CopySet /\ \A k \in K : k[1] \in S \/ (k[1] = Shared /\ S \cap Legacy # {})
  <2> SUFFICES ASSUME NEW k \in K PROVE k \in CopySet /\ (k[1] \in S \/ (k[1] = Shared /\ S \cap Legacy # {}))
    OBVIOUS
  <2>1. PICK m \in S : k \in keys[m]
    BY <1>2
  <2>2. CASE keys[m] = Own(m)
    BY <2>1, <2>2, OwnCopies
  <2>3. CASE m \in Legacy /\ keys[m] = {<<Shared, "preview">>}
    BY <2>1, <2>3 DEF CopySet, Names
  <2> QED
    BY <2>1, <2>2, <2>3 DEF RowInv
<1>4. TypeOK'
  BY <1>1 DEF TypeOK, row, storage
<1>5. WorkerInv'
  BY <1>1 DEF WorkerInv, row, storage
<1>6. \A k : Unshared(k) => Unshared(k)'
  BY <1>1 DEF Unshared
<1>7. DeletionInv'
  BY <1>1, <1>3 DEF DeletionInv, Unshared
<1>8. StorageInv'
  BY <1>1, <1>6 DEF StorageInv, row, storage
<1>9. RowInv' /\ NoneForgotten' /\ Stays
  BY <1>1 DEF RowInv, NoneForgotten, Present, Stays, row, Own, Kinds
<1>10. ComingInv' /\ PassInv'
  BY <1>1 DEF ComingInv, PassInv, row, storage
<1> QED
  BY <1>4, <1>5, <1>7, <1>8, <1>9, <1>10

\* A row that was not asked for, and keys it has, are not among what a deletion erases.
LEMMA EraseKeeps ==
  ASSUME IInv, delete_objects
  PROVE  IInv' /\ Stays
<1> USE ProcessingAssumption DEF IInv
<1>1. PICK D \in SUBSET deletion.rows, K \in SUBSET deletion.keys :
        originals' = originals \ D /\ copies' = copies \ K
  BY DEF delete_objects
<1>2. /\ UNCHANGED <<row, coming, queue, confirming, asked, missed, worker, pass, stranded>>
      /\ deletion' = NoDeletion \/ deletion' = [deletion EXCEPT !.phase = "erased"]
  BY DEF delete_objects
<1>3. TypeOK'
  BY <1>1, <1>2 DEF TypeOK, NoDeletion, DeletionInv, row
<1>4. WorkerInv'
  <2>1. CASE worker.phase \notin Working
    BY <1>2, <2>1 DEF WorkerInv
  <2>2. CASE worker.phase \in Working
    <3>1. PICK m \in Media :
            /\ worker.media = {m} /\ processing[m] = "processing" /\ status[m] # "pending"
            /\ m \in asked \/ \A c \in worker.done : <<m, c>> \in copies
      BY <2>2 DEF WorkerInv
    <3>2. m \in asked \/ \A c \in worker.done : <<m, c>> \in copies'
      BY <1>1, <3>1 DEF DeletionInv, Unshared
    <3> QED
      BY <1>2, <3>1, <3>2 DEF WorkerInv, row
  <2> QED
    BY <2>1, <2>2
<1>5. DeletionInv'
  <2>1. CASE deletion' = NoDeletion
    BY <1>2, <2>1 DEF DeletionInv, NoDeletion, Unshared
  <2>2. CASE deletion' # NoDeletion
    <3>1. originals' = originals \ deletion.rows /\ deletion' = [deletion EXCEPT !.phase = "erased"]
      BY <2>2 DEF delete_objects
    <3> QED
      BY <1>2, <3>1 DEF DeletionInv, Unshared
  <2> QED
    BY <2>1, <2>2
<1>6. StorageInv'
  <2> SUFFICES ASSUME NEW m \in Media \ asked
               PROVE  /\ m \in coming \cup originals'
                      /\ \A k \in keys[m] : k \in copies' \/ Unshared(k)
    BY <1>2 DEF StorageInv, Unshared, row
  <2>1. m \in coming \cup originals'
    BY <1>1 DEF StorageInv, DeletionInv
  <2>2. ASSUME NEW k \in keys[m], ~Unshared(k) PROVE k \in copies'
    <3>1. k \in copies
      BY <2>2 DEF StorageInv
    <3>2. k[1] = m \/ k[1] = Shared
      BY OwnCopies DEF RowInv
    <3>3. k[1] \notin asked
      BY <2>2, <3>2 DEF Unshared
    <3> QED
      BY <1>1, <2>2, <3>1, <3>3 DEF DeletionInv
  <2> QED
    BY <2>1, <2>2
<1>7. RowInv' /\ NoneForgotten' /\ Stays
  BY <1>2 DEF RowInv, NoneForgotten, Present, Stays, row, Own, Kinds
<1>8. ComingInv' /\ PassInv'
  BY <1>1, <1>2 DEF ComingInv, PassInv, DeletionInv, row
<1> QED
  BY <1>3, <1>4, <1>5, <1>6, <1>7, <1>8

\* A row of before v0.10.1 is deleted elsewhere.
LEMMA SiblingKeeps ==
  ASSUME IInv, DeleteSibling
  PROVE  IInv' /\ Stays
<1> USE ProcessingAssumption DEF IInv
<1>1. /\ copies' = copies \ {<<Shared, "preview">>} /\ asked' = asked \cup {Shared}
      /\ UNCHANGED <<row, coming, originals, queue, confirming, deletion, missed, worker, pass, stranded>>
  BY DEF DeleteSibling
<1>2. \A k : (k[1] = Shared => Unshared(k)') /\ (Unshared(k) => Unshared(k)')
  BY <1>1 DEF Unshared
<1>3. TypeOK'
  BY <1>1 DEF TypeOK, row
<1>4. WorkerInv'
  BY <1>1 DEF WorkerInv, row
<1>5. DeletionInv'
  BY <1>1, <1>2 DEF DeletionInv
<1>6. StorageInv'
  BY <1>1, <1>2 DEF StorageInv, row
<1>7. RowInv' /\ NoneForgotten' /\ Stays
  BY <1>1 DEF RowInv, NoneForgotten, Present, Stays, row, Own, Kinds
<1>8. ComingInv' /\ PassInv'
  BY <1>1 DEF ComingInv, PassInv, row
<1> QED
  BY <1>3, <1>4, <1>5, <1>6, <1>7, <1>8

\* The rows of a deletion go, or the deletion ends.
LEMMA DeleteKeeps ==
  ASSUME IInv, DeleteRows \/ DeleteAborts
  PROVE  IInv' /\ Stays
<1> USE ProcessingAssumption DEF IInv
<1>1. /\ deletion' = NoDeletion
      /\ status' = status \/ status' = Set(status, deletion.rows, "removed")
      /\ UNCHANGED <<processing, keys, storage, queue, confirming, asked, missed, worker, pass, stranded>>
  BY DEF DeleteRows, DeleteAborts, row
<1>2. /\ status' \in [Media -> {"pending", "uploaded", "removed"}]
      /\ \A m \in Media : status'[m] = status[m] \/ (status'[m] = "removed" /\ m \in asked)
  BY <1>1 DEF TypeOK, DeletionInv, Set
<1>3. TypeOK'
  BY <1>1, <1>2 DEF TypeOK, NoDeletion, storage
<1>4. WorkerInv'
  BY <1>1, <1>2 DEF WorkerInv, storage
<1>5. DeletionInv' /\ StorageInv' /\ Stays
  BY <1>1 DEF DeletionInv, StorageInv, Stays, NoDeletion, Unshared, storage
<1>6. RowInv' /\ NoneForgotten'
  BY <1>1, <1>2 DEF RowInv, NoneForgotten, Present, Own, Kinds
<1>7. ComingInv' /\ PassInv'
  BY <1>1, <1>2 DEF ComingInv, PassInv, storage
<1> QED
  BY <1>3, <1>4, <1>5, <1>6, <1>7

\* The start of the worker: whatever was processing is pending again.
LEMMA RequeueKeeps ==
  ASSUME IInv, requeue_interrupted_processing \/ requeue_legacy_derivatives
  PROVE  IInv' /\ Stays
<1> USE ProcessingAssumption DEF IInv
<1>1. PICK S \in SUBSET Media :
        /\ processing' = Set(processing, S, "pending")
        /\ \A m \in S : Present(m) /\ (processing[m] = "ready" => UsesLegacy(m))
        /\ UNCHANGED <<status, keys, storage, queue, web, pass>>
  BY DEF requeue_interrupted_processing, requeue_legacy_derivatives
<1>2. /\ processing' \in [Media -> {"pending", "processing", "ready", "failed"}]
      /\ \A m \in Media : processing'[m] = IF m \in S THEN "pending" ELSE processing[m]
  BY <1>1 DEF TypeOK, Set
<1>3. /\ worker' \in [phase : {"down", "requeued", "idle"} \cup Working, media : SUBSET Media, done : SUBSET Names]
      /\ worker'.phase \in {"requeued", "idle"} /\ worker'.media = {}
  BY EmptyHand DEF requeue_interrupted_processing, requeue_legacy_derivatives
<1>4. TypeOK'
  BY <1>1, <1>2, <1>3, Sizes DEF TypeOK, Working, storage, web
<1>5. WorkerInv'
  BY <1>3 DEF WorkerInv, Working
<1>6. DeletionInv' /\ StorageInv'
  BY <1>1 DEF DeletionInv, StorageInv, Unshared, storage, web
<1>7. RowInv' /\ Stays
  BY <1>1, <1>2 DEF RowInv, Stays, Own, Kinds
<1>8. NoneForgotten'
  <2>1. CASE requeue_interrupted_processing
    BY <1>1, <2>1 DEF TypeOK, requeue_interrupted_processing, NoneForgotten, Present, Set
  <2>2. CASE requeue_legacy_derivatives
    BY <1>1, <1>2, <2>2 DEF requeue_legacy_derivatives, NoneForgotten, WorkerInv, Present, Working
  <2> QED
    BY <2>1, <2>2
<1>9. ComingInv' /\ PassInv'
  <2>1. ~pass.open
    BY DEF requeue_interrupted_processing, requeue_legacy_derivatives, PassInv
  <2> QED
    BY <1>1, <1>2, <2>1 DEF ComingInv, PassInv, storage, web
<1> QED
  BY <1>4, <1>5, <1>6, <1>7, <1>8, <1>9

\* A job begins, unless its row is ready or not there.
LEMMA BeginKeeps ==
  ASSUME IInv, NEW m \in Media, handle_job(m) \/ process_next_pending(m)
  PROVE  IInv' /\ Stays
<1> USE ProcessingAssumption DEF IInv
<1>1. /\ worker.phase = "idle" /\ ~pass.open /\ Begin(m)
      /\ UNCHANGED <<status, keys, storage, web, pass>>
      /\ queue' \in [Media -> 0..MaxJobs]
  BY DEF TypeOK, handle_job, process_next_pending
<1>2. CASE ~(Present(m) /\ processing[m] # "ready")
  <2>1. UNCHANGED <<processing, worker, stranded>>
    BY <1>1, <1>2 DEF Begin
  <2> QED
    BY <1>1, <2>1 DEF TypeOK, WorkerInv, DeletionInv, RowInv, StorageInv, ComingInv, PassInv,
      NoneForgotten, Present, Unshared, Stays, Own, Kinds, storage, web
<1>3. CASE Present(m) /\ processing[m] # "ready"
  <2>1. /\ processing' = [processing EXCEPT ![m] = "processing"]
        /\ worker' = [phase |-> "download", media |-> {m}, done |-> {}]
        /\ stranded' = stranded \ {m}
    BY <1>1, <1>3 DEF Begin
  <2>2. TypeOK'
    BY <1>1, <2>1, Sizes DEF TypeOK, Working, storage, web
  <2>3. WorkerInv'
    BY <1>1, <1>3, <2>1 DEF TypeOK, WorkerInv, Present, Working
  <2>4. DeletionInv' /\ StorageInv'
    BY <1>1 DEF DeletionInv, StorageInv, Unshared, storage, web
  <2>5. RowInv' /\ Stays
    BY <1>1, <1>3, <2>1 DEF TypeOK, RowInv, Stays, Present, Own, Kinds
  <2>6. NoneForgotten'
    BY <1>1, <2>1 DEF TypeOK, WorkerInv, NoneForgotten, Present, Working
  <2>7. ComingInv' /\ PassInv'
    BY <1>1, <2>1 DEF TypeOK, ComingInv, PassInv, NoPass, storage, web
  <2> QED
    BY <2>2, <2>3, <2>4, <2>5, <2>6, <2>7
<1> QED
  BY <1>2, <1>3

\* The original is there, the copies are still to come.
LEMMA DownloadKeeps ==
  ASSUME IInv, NEW m \in Media, download_object(m)
  PROVE  IInv' /\ Stays
<1> USE ProcessingAssumption DEF IInv
<1>1. /\ worker.phase = "download" /\ worker'.phase = "copy" /\ worker'.media = worker.media
      /\ worker'.done = worker.done /\ worker' = [worker EXCEPT !.phase = "copy"]
      /\ UNCHANGED <<row, storage, queue, web, pass, stranded>>
  BY DEF download_object, WorkerInv
<1>2. TypeOK'
  BY <1>1 DEF TypeOK, Working, row, storage, web
<1>3. WorkerInv'
  BY <1>1 DEF WorkerInv, Working, row, storage, web
<1>4. DeletionInv' /\ StorageInv' /\ RowInv' /\ Stays /\ NoneForgotten'
  BY <1>1 DEF DeletionInv, StorageInv, RowInv, Stays, NoneForgotten, Present, Unshared, Own, Kinds,
    row, storage, web
<1>5. ComingInv' /\ PassInv'
  BY <1>1 DEF ComingInv, PassInv, Working, row, storage, web
<1> QED
  BY <1>2, <1>3, <1>4, <1>5

\* A copy is stored.
LEMMA UploadKeeps ==
  ASSUME IInv, NEW m \in Media, NEW c \in Kinds(m), upload_object(m, c)
  PROVE  IInv' /\ Stays
<1> USE ProcessingAssumption DEF IInv
<1>1. /\ worker.phase = "copy" /\ worker'.phase = "copy" /\ worker'.media = worker.media
      /\ worker'.done = worker.done \cup {c} /\ worker' = [worker EXCEPT !.done = @ \cup {c}]
      /\ copies' = copies \cup {<<m, c>>} /\ m \in worker.media
      /\ UNCHANGED <<row, coming, originals, queue, web, pass, stranded>>
  BY DEF upload_object, WorkerInv
<1>2. c \in Names /\ <<m, c>> \in CopySet
  BY DEF Kinds, Names, CopySet
<1>3. TypeOK'
  BY <1>1, <1>2 DEF TypeOK, CopySet, Names, Working, row, web
<1>4. WorkerInv'
  BY <1>1, <1>2 DEF WorkerInv, Working, row, web
<1>5. DeletionInv' /\ StorageInv' /\ RowInv' /\ Stays /\ NoneForgotten'
  BY <1>1 DEF DeletionInv, StorageInv, RowInv, Stays, NoneForgotten, Present, Unshared, Own, Kinds,
    row, web
<1>6. ComingInv' /\ PassInv'
  BY <1>1 DEF ComingInv, PassInv, row, web
<1> QED
  BY <1>3, <1>4, <1>5, <1>6

\* The row names its copies, all of them stored.
LEMMA FinishKeeps ==
  ASSUME IInv, NEW m \in Media, Finish(m)
  PROVE  IInv' /\ Stays
<1> USE ProcessingAssumption DEF IInv
<1>1. /\ worker.media = {m} /\ processing[m] = "processing" /\ status[m] # "pending"
      /\ m \in asked \/ \A c \in worker.done : <<m, c>> \in copies
      /\ worker.done = Kinds(m)
  BY DEF Finish, Stored, WorkerInv, Working
<1>2. /\ worker' = At("idle") /\ worker'.phase = "idle" /\ worker'.media = {}
      /\ UNCHANGED <<status, storage, queue, web, pass, stranded>>
  BY DEF Finish, At
<1>3. WorkerInv' /\ Cardinality(worker'.media) = 0
  BY <1>2, EmptyHand DEF WorkerInv
<1>6. ComingInv' /\ PassInv'
  <2>1. ~pass.open
    BY DEF Finish, PassInv
  <2> QED
    BY <1>2, <2>1 DEF ComingInv, PassInv, NoPass, storage, web
<1>4. CASE ~Present(m)
  <2>1. UNCHANGED <<processing, keys>>
    BY <1>4 DEF Finish
  <2>2. TypeOK'
    BY <1>2, <1>3, <2>1 DEF TypeOK, Working, storage, web
  <2>3. DeletionInv' /\ StorageInv' /\ RowInv' /\ Stays
    BY <1>2, <2>1 DEF DeletionInv, StorageInv, RowInv, Stays, Unshared, Own, Kinds, storage, web
  <2>4. NoneForgotten'
    BY <1>1, <1>2, <1>4, <2>1 DEF NoneForgotten, Present, Finish
  <2> QED
    BY <1>3, <1>6, <2>2, <2>3, <2>4
<1>5. CASE Present(m)
  <2>1. processing' = [processing EXCEPT ![m] = "ready"] /\ keys' = [keys EXCEPT ![m] = Own(m)]
    BY <1>5 DEF Finish
  <2>2. TypeOK'
    BY <1>2, <1>3, <2>1, OwnCopies DEF TypeOK, Working, CopySet, Names, storage, web
  <2>3. DeletionInv'
    BY <1>2 DEF DeletionInv, Unshared, storage, web
  <2>4. StorageInv'
    BY <1>1, <1>2, <2>1, OwnCopies DEF TypeOK, StorageInv, Unshared, storage, web
  <2>5. RowInv' /\ Stays
    BY <1>1, <1>2, <1>5, <2>1, OwnCopies, SMTT(30) DEF TypeOK, RowInv, Stays, Present, Own, Kinds
  <2>6. NoneForgotten'
    BY <1>1, <1>2, <2>1 DEF TypeOK, NoneForgotten, Present, Finish
  <2> QED
    BY <1>3, <1>6, <2>2, <2>3, <2>4, <2>5, <2>6
<1> QED
  BY <1>4, <1>5

\* A job that fails, or whose failure is not committed.
LEMMA FailKeeps ==
  ASSUME IInv, NEW m \in Media, Fail(m) \/ Strand(m)
  PROVE  IInv' /\ Stays
<1> USE ProcessingAssumption DEF IInv
<1>1. worker.media = {m} /\ processing[m] = "processing" /\ status[m] # "pending"
  BY DEF Fail, Strand, WorkerInv
<1>2. /\ worker' = At("idle") /\ worker'.phase = "idle" /\ worker'.media = {}
      /\ UNCHANGED <<status, keys, storage, queue, web, pass>>
      /\ processing' = processing \/ processing' = [processing EXCEPT ![m] = "failed"]
  BY DEF Fail, Strand, At, row
<1>3. WorkerInv' /\ Cardinality(worker'.media) = 0
  BY <1>2, EmptyHand DEF WorkerInv
<1>4. TypeOK'
  BY <1>2, <1>3 DEF TypeOK, Working, storage, web
<1>5. DeletionInv' /\ StorageInv' /\ RowInv' /\ Stays
  BY <1>1, <1>2 DEF TypeOK, DeletionInv, StorageInv, RowInv, Stays, Unshared, Own, Kinds, storage, web
<1>6. NoneForgotten'
  <2>1. CASE Fail(m)
    BY <1>1, <1>2, <2>1 DEF TypeOK, NoneForgotten, Present, Fail, Working
  <2>2. CASE Strand(m)
    BY <1>1, <1>2, <2>2 DEF NoneForgotten, Present, Strand, Working, row
  <2> QED
    BY <2>1, <2>2
<1>7. ComingInv' /\ PassInv'
  <2>1. ~pass.open
    BY DEF Fail, Strand, PassInv, Working
  <2> QED
    BY <1>2, <2>1 DEF ComingInv, PassInv, NoPass, storage, web
<1> QED
  BY <1>3, <1>4, <1>5, <1>6, <1>7

\* The worker dies; nothing says so but its absence.
LEMMA CrashKeeps ==
  ASSUME IInv, Crash
  PROVE  IInv' /\ Stays
<1> USE ProcessingAssumption DEF IInv
<1>1. /\ worker' = At("down") /\ worker'.phase = "down" /\ worker'.media = {} /\ pass' = NoPass
      /\ UNCHANGED <<row, storage, queue, web, stranded>>
  BY DEF Crash, At
<1>2. WorkerInv' /\ Cardinality(worker'.media) = 0
  BY <1>1, EmptyHand DEF WorkerInv
<1>3. TypeOK'
  BY <1>1, <1>2 DEF TypeOK, Working, NoPass, row, storage, web
<1>4. DeletionInv' /\ StorageInv' /\ RowInv' /\ Stays /\ NoneForgotten'
  BY <1>1 DEF DeletionInv, StorageInv, RowInv, Stays, NoneForgotten, Unshared, Own, Kinds,
    row, storage, web
<1>5. ComingInv' /\ PassInv'
  BY <1>1 DEF ComingInv, PassInv, NoPass, row, storage, web
<1> QED
  BY <1>2, <1>3, <1>4, <1>5

\* The cleanup takes up pending rows, inspects them, or gives up on one.
LEMMA InspectKeeps ==
  ASSUME IInv,
         \/ \E S \in SUBSET Media : cleanup_stale_uploads(S)
         \/ \E m \in Media : head_object(m) \/ HeadError(m)
  PROVE  IInv' /\ Stays
<1> USE ProcessingAssumption DEF IInv
<1>1. /\ UNCHANGED <<row, storage, queue, confirming, deletion, asked, worker, stranded>>
      /\ missed' \in SUBSET Media /\ missed \subseteq missed'
  BY DEF TypeOK, cleanup_stale_uploads, head_object, HeadError, web
<1>2. PassInv'
  <2>1. CASE \E S \in SUBSET Media : cleanup_stale_uploads(S)
    BY <1>1, <2>1 DEF cleanup_stale_uploads, PassInv, RowInv, NoPass, row
  <2>2. ASSUME NEW m \in Media, head_object(m) PROVE PassInv'
    <3>1. m \in pass.todo /\ pass.open
      <4>1. m \in pass.todo
        BY <2>2 DEF head_object
      <4>2. NoPass.todo = {}
        BY DEF NoPass
      <4>3. pass # NoPass
        BY <4>1, <4>2
      <4> QED
        BY <4>1, <4>3 DEF PassInv
    <3>2. pass' = IF m \in originals
                  THEN [pass EXCEPT !.todo = @ \ {m}, !.found = @ \cup {m}]
                  ELSE [pass EXCEPT !.todo = @ \ {m}, !.missing = @ \cup {m}]
      BY <2>2 DEF head_object
    <3>3. /\ pass.open /\ pass'.open = pass.open /\ pass'.todo = pass.todo \ {m} /\ m \in pass.todo
          /\ pass' \in [open : BOOLEAN, todo : SUBSET Media, found : SUBSET Media, missing : SUBSET Media]
          /\ pass'.found = IF m \in originals THEN pass.found \cup {m} ELSE pass.found
          /\ pass'.missing = IF m \in originals THEN pass.missing ELSE pass.missing \cup {m}
      <4>1. CASE m \in originals
        BY <3>1, <3>2, <4>1 DEF PassInv
      <4>2. CASE m \notin originals
        BY <3>1, <3>2, <4>2 DEF PassInv
      <4> QED
        BY <4>1, <4>2
    <3>4. m \in originals => m \notin coming
      BY DEF ComingInv
    <3>5. m \notin originals => m \in missed' \/ (m \in asked /\ m \notin originals \cup coming)
      BY <2>2 DEF head_object, StorageInv
    <3>6. UNCHANGED <<processing, worker, coming, originals, asked>> /\ missed \subseteq missed'
      BY <1>1 DEF row, storage
    <3> QED
      BY <3>3, <3>4, <3>5, <3>6 DEF PassInv
  <2>3. ASSUME NEW m \in Media, HeadError(m) PROVE PassInv'
    BY <1>1, <2>3 DEF HeadError, PassInv, NoPass, row, storage, web
  <2> QED
    BY <2>1, <2>2, <2>3
<1>3. TypeOK'
  BY <1>1, <1>2 DEF TypeOK, PassInv, row, storage
<1>4. WorkerInv' /\ RowInv' /\ NoneForgotten' /\ Stays
  BY <1>1 DEF WorkerInv, RowInv, NoneForgotten, Present, Stays, Own, Kinds, row, storage
<1>5. DeletionInv' /\ StorageInv' /\ ComingInv'
  BY <1>1 DEF DeletionInv, StorageInv, ComingInv, Unshared, row, storage
<1> QED
  BY <1>2, <1>3, <1>4, <1>5

\* Its commit lets in what it found and takes out what it missed, and neither was processed.
LEMMA CleanupKeeps ==
  ASSUME IInv, CleanupCommit
  PROVE  IInv' /\ Stays
<1> USE ProcessingAssumption DEF IInv
<1>1. /\ pass.open /\ pass' = NoPass /\ worker.phase \notin Working
      /\ UNCHANGED <<processing, keys, storage, queue, web, worker, stranded>>
  BY DEF CleanupCommit, PassInv, Working
<1>2. /\ status' \in [Media -> {"pending", "uploaded", "removed"}]
      /\ \A m \in Media : \/ status'[m] = status[m]
                          \/ status'[m] = "uploaded" /\ m \in pass.found
                          \/ status'[m] = "removed" /\ m \in pass.missing
  BY DEF TypeOK, CleanupCommit, Set
<1>3. TypeOK'
  BY <1>1, <1>2 DEF TypeOK, NoPass, storage, web
<1>4. WorkerInv' /\ DeletionInv' /\ StorageInv' /\ Stays
  BY <1>1 DEF WorkerInv, DeletionInv, StorageInv, Stays, Unshared, storage, web
<1>5. RowInv' /\ NoneForgotten'
  BY <1>1, <1>2 DEF PassInv, RowInv, NoneForgotten, Present, Own, Kinds
<1>6. ComingInv' /\ PassInv'
  BY <1>1, <1>2 DEF ComingInv, PassInv, NoPass, storage, web
<1> QED
  BY <1>3, <1>4, <1>5, <1>6

\* Nothing happens.
LEMMA StutterKeeps ==
  ASSUME IInv, UNCHANGED vars
  PROVE  IInv' /\ Stays
BY DEF IInv, vars, row, storage, web, TypeOK, WorkerInv, DeletionInv, StorageInv, RowInv, Stays,
  ComingInv, PassInv, NoneForgotten, Present, Unshared, Own, Kinds

\* Every step keeps the invariant, and the ready rows.
LEMMA StepKeeps ==
  ASSUME IInv, [Next]_vars
  PROVE  IInv' /\ Stays
<1>1. CASE WebStep
  BY <1>1, PutKeeps, ConfirmKeeps, AskKeeps, EraseKeeps, SiblingKeeps, DeleteKeeps DEF WebStep
<1>2. CASE WorkerStep
  BY <1>2, InspectKeeps, CleanupKeeps, RequeueKeeps, BeginKeeps, DownloadKeeps, UploadKeeps,
    FinishKeeps, FailKeeps, CrashKeeps DEF WorkerStep
<1>3. CASE UNCHANGED vars
  BY <1>3, StutterKeeps
<1> QED
  BY <1>1, <1>2, <1>3 DEF Next

\* The pages link to copies that the row names, or to its original.
LEMMA PagesServable == IInv => GalleryServable
<1> SUFFICES ASSUME IInv, NEW m \in Media \ asked
             PROVE  /\ Present(m) => \A k \in HostKeys(m) : InStorage(k) \/ Unshared(k)
                    /\ m \in guest_event =>
                         /\ guest_media_preview(m) # {} /\ (m \in Videos => guest_media_play(m) # {})
                         /\ \A k \in GuestKeys(m) : InStorage(k) \/ Unshared(k)
  BY DEF GalleryServable
<1> USE ProcessingAssumption DEF IInv
<1>1. Present(m) => \A k \in keys[m] \cup Original(m) : InStorage(k) \/ Unshared(k)
  BY DEF StorageInv, ComingInv, InStorage, Original, Present
<1>2. HostKeys(m) \cup GuestKeys(m) \subseteq keys[m] \cup Original(m)
  BY DEF HostKeys, GuestKeys, host_media_preview, host_media_play, host_media_download,
    guest_media_preview, guest_media_play, Preview, Or, Copy
<1>3. ASSUME m \in guest_event
      PROVE  guest_media_preview(m) # {} /\ (m \in Videos => guest_media_play(m) # {})
  <2>1. keys[m] = Own(m) \/ (m \notin Videos /\ keys[m] = {<<Shared, "preview">>})
    BY <1>3 DEF guest_event, RowInv
  <2>2. CASE m \in Videos
    <3>1. <<m, "poster">> \in keys[m] /\ <<m, "processed">> \in keys[m]
      BY <2>1, <2>2, OwnCopies DEF Kinds
    <3>2. <<m, "poster">> \in Copy(m, "poster") /\ <<m, "processed">> \in Copy(m, "processed")
      BY <3>1 DEF Copy
    <3> QED
      BY <2>2, <3>2 DEF guest_media_preview, guest_media_play, Preview, Or
  <2>3. CASE m \notin Videos
    BY <2>3 DEF guest_media_preview, Original, Or
  <2> QED
    BY <2>2, <2>3
<1> QED
  BY <1>1, <1>2, <1>3 DEF guest_event, Present

\* The inductive invariant of MediaProcessing: confirmations, deletions and the worker.
THEOREM Invariance == Spec => []IInv
BY InitInv, StepKeeps, PTL DEF Spec

\* Rows, storage, queue and worker keep their types, for any set of media.
THEOREM TypeCorrect == Spec => []TypeOK
<1>1. IInv => TypeOK
  BY DEF IInv
<1> QED
  BY <1>1, Invariance, PTL

\* What the host's and the guests' pages link to is in storage (app/main.py:450-487).
THEOREM GalleryIsServable == Spec => []GalleryServable
BY Invariance, PagesServable, PTL

\* A row is processing only while somebody knows of it (process_media, the requeue).
THEOREM NoneIsForgotten == Spec => []NoneForgotten
<1>1. IInv => NoneForgotten
  BY DEF IInv
<1> QED
  BY <1>1, Invariance, PTL

\* No step takes a ready row back (process_media, requeue_interrupted_processing).
THEOREM ReadyRowsStay == Spec => ReadyStays
<1>1. IInv /\ [Next]_vars => Stays
  BY StepKeeps
<1>2. Stays => [\A m \in Media :
                  processing[m] = "ready" /\ ~UsesLegacy(m) => processing'[m] = "ready"]_vars
  BY DEF Stays
<1> QED
  BY <1>1, <1>2, Invariance, PTL DEF Spec, ReadyStays
-----------------------------------------------------------------------------
(* MediaProcessing implements MediaGallery. *)

\* The stages that the rows are at.
LEMMA Stages ==
  ASSUME IInv, NEW m \in Media
  PROVE  /\ Stage[m] = "pending" <=> status[m] = "pending"
         /\ Stage[m] = "removed" <=> status[m] = "removed"
         /\ Stage[m] = "ready" <=> Present(m) /\ processing[m] = "ready"
         /\ Stage[m] = "failed" <=> Present(m) /\ processing[m] = "failed"
         /\ Stage[m] = "waiting" <=> Present(m) /\ processing[m] \in {"pending", "processing"}
BY DEF IInv, TypeOK, Stage, Present

\* A gallery names the copies of a media as its row does.
LEMMA Copies == ASSUME NEW m \in Media PROVE Gallery!All(m) = Own(m)
BY DEF Gallery!All, Own, Kinds

LEMMA GalleryInit == Init => Gallery!Init
<1> SUFFICES ASSUME Init PROVE Gallery!Init
  OBVIOUS
<1>1. Stage = [m \in Media |-> IF m \in Legacy THEN "ready" ELSE "pending"]
  BY DEF Init, Stage, Present
<1> QED
  BY <1>1 DEF Init, Gallery!Init

\* A step that leaves the rows at their stages, and all that can be seen of them.
LEMMA GalleryStutter ==
  ASSUME UNCHANGED <<keys, originals, copies, asked, missed>>,
         \A m \in Media : Stage'[m] = Stage[m]
  PROVE  [Gallery!Next]_(Gallery!vars)
<1>1. Stage' = Stage
  BY DEF Stage
<1> QED
  BY <1>1 DEF Gallery!vars

LEMMA GalleryMove ==
  ASSUME NEW S \in SUBSET Media, NEW s,
         \A m \in Media : Stage'[m] = IF m \in S THEN s ELSE Stage[m]
  PROVE  Gallery!Move(S, s)
BY DEF Stage, Gallery!Move

\* The end of a PUT.
LEMMA GalleryArrive ==
  ASSUME IInv, NEW m \in Media, Put(m)
  PROVE  Gallery!Next
<1>1. originals' = originals \cup {m} /\ Stage' = Stage /\ UNCHANGED <<keys, copies, asked, missed>>
  BY DEF Put, Stage, Present, row, web
<1>2. /\ m \notin originals /\ m \notin asked \ missed
      /\ Stage[m] = "pending" \/ (Stage[m] = "removed" /\ m \in missed)
  BY Stages DEF IInv, ComingInv, Put
<1>3. Gallery!Arrive(m)
  BY <1>1, <1>2 DEF Gallery!Arrive
<1> QED
  BY <1>3 DEF Gallery!Next

\* A confirmation by the page.
LEMMA GalleryConfirm ==
  ASSUME IInv, NEW m \in Media, ReadPending(m) \/ confirm_upload(m)
  PROVE  [Gallery!Next]_(Gallery!vars)
<1>1. /\ UNCHANGED <<processing, keys, originals, copies, asked, missed>>
      /\ status' = status \/ ( /\ status[m] = "pending" /\ confirming[m] > 0
                               /\ status' = [status EXCEPT ![m] = "uploaded"] )
  BY DEF ReadPending, confirm_upload, row, web, storage
<1>2. CASE status' = status
  BY <1>1, <1>2, GalleryStutter DEF Stage, Present
<1>3. CASE status[m] = "pending" /\ confirming[m] > 0 /\ status' = [status EXCEPT ![m] = "uploaded"]
  <2>1. processing[m] = "pending" /\ Stage[m] = "pending" /\ m \in originals \cup asked
    BY <1>3, Stages DEF IInv, RowInv, ComingInv
  <2>2. \A k \in Media : Stage'[k] = IF k = m THEN "waiting" ELSE Stage[k]
    BY <1>1, <1>3, <2>1 DEF IInv, TypeOK, Stage, Present
  <2>3. DOMAIN Stage' = Media
    BY DEF Stage
  <2>4. Gallery!Settle
    BY <1>1, <2>1, <2>2, <2>3 DEF Gallery!Settle
  <2> QED
    BY <2>4 DEF Gallery!Next
<1> QED
  BY <1>1, <1>2, <1>3

\* A deletion takes up rows at any stage, and gives up those whose PUT runs.
LEMMA GalleryAsk ==
  ASSUME IInv, NEW S \in SUBSET Media, delete_media(S)
  PROVE  Gallery!Next
<1>1. /\ \A m \in S : status[m] # "removed"
      /\ asked' = asked \cup S /\ missed' = missed \cup (S \cap coming)
      /\ Stage' = Stage /\ UNCHANGED <<keys, originals, copies>>
  BY DEF delete_media, Stage, Present, row, storage
<1>2. \A m \in S : Stage[m] # "removed"
  BY <1>1, Stages
<1>3. S \cap coming \in SUBSET {m \in S : Stage[m] = "pending" /\ m \notin originals}
  BY <1>1, Stages DEF IInv, ComingInv
<1>4. Gallery!Ask(S)
  BY <1>1, <1>2, <1>3 DEF Gallery!Ask
<1> QED
  BY <1>4 DEF Gallery!Next

\* What a deletion erases was asked for, by its host or by one who shares it.
LEMMA GalleryErase ==
  ASSUME IInv, delete_objects
  PROVE  Gallery!Next
<1>1. PICK D \in SUBSET deletion.rows, K \in SUBSET deletion.keys :
        originals' = originals \ D /\ copies' = copies \ K
  BY DEF delete_objects
<1>2. Stage' = Stage /\ UNCHANGED <<keys, asked, missed>>
  BY DEF delete_objects, Stage, Present, row
<1>3. D \subseteq asked /\ \A k \in K : Gallery!Free(k)
  BY <1>1 DEF IInv, DeletionInv, Unshared, Gallery!Free
<1>4. Gallery!Erase
  BY <1>1, <1>2, <1>3 DEF Gallery!Erase
<1> QED
  BY <1>4 DEF Gallery!Next

LEMMA GallerySibling ==
  ASSUME DeleteSibling
  PROVE  Gallery!Next
<1>1. Stage' = Stage /\ UNCHANGED <<keys, originals, missed>>
  BY DEF DeleteSibling, Stage, Present, row
<1>2. Gallery!EraseShared
  BY <1>1 DEF DeleteSibling, Gallery!EraseShared
<1> QED
  BY <1>2 DEF Gallery!Next

\* The rows go after their originals, but those that came later.
LEMMA GalleryRemove ==
  ASSUME IInv, DeleteRows \/ DeleteAborts
  PROVE  [Gallery!Next]_(Gallery!vars)
<1>1. CASE DeleteAborts
  BY <1>1, GalleryStutter DEF DeleteAborts, Stage, Present, row, storage
<1>2. CASE DeleteRows
  <2> DEFINE S == deletion.rows
  <2>1. \A m \in S : m \in asked /\ (m \notin originals \/ m \in missed)
    BY <1>2 DEF IInv, DeletionInv, DeleteRows
  <2>2. /\ UNCHANGED <<processing, keys, originals, copies, asked, missed>>
        /\ \A m \in Media : status'[m] = IF m \in S THEN "removed" ELSE status[m]
    BY <1>2 DEF IInv, TypeOK, DeleteRows, Set, storage
  <2>3. /\ DOMAIN Stage' = Media
        /\ \A m \in Media : Stage'[m] = IF m \in S THEN "removed" ELSE Stage[m]
    BY <2>2 DEF Stage, Present
  <2> HIDE DEF S
  <2>4. Gallery!Settle
    BY <2>1, <2>2, <2>3 DEF Gallery!Settle, Gallery!MayGo
  <2> QED
    BY <2>4 DEF Gallery!Next
<1> QED
  BY <1>1, <1>2

\* The cleanup gives up what it does not find, if its PUT still runs.
LEMMA GalleryInspect ==
  ASSUME IInv,
         \/ \E S \in SUBSET Media : cleanup_stale_uploads(S)
         \/ \E m \in Media : head_object(m) \/ HeadError(m)
  PROVE  [Gallery!Next]_(Gallery!vars)
<1>1. Stage' = Stage /\ UNCHANGED <<keys, originals, copies, asked>>
  BY DEF cleanup_stale_uploads, head_object, HeadError, Stage, Present, row, storage, web
<1>2. CASE missed' = missed
  BY <1>1, <1>2, GalleryStutter
<1>3. CASE missed' # missed
  <2>1. PICK m \in coming : missed' = missed \cup {m} /\ m \notin missed
    BY <1>3 DEF cleanup_stale_uploads, head_object, HeadError, web
  <2>2. m \in Media /\ Stage[m] = "pending" /\ m \notin originals
    BY <2>1, Stages DEF IInv, TypeOK, ComingInv
  <2>3. Gallery!Miss(m)
    BY <1>1, <2>1, <2>2 DEF Gallery!Miss
  <2> QED
    BY <2>2, <2>3 DEF Gallery!Next
<1> QED
  BY <1>2, <1>3

\* Its commit lets in what it found and takes out what it gave up, confirmed meanwhile or not.
LEMMA GalleryCleanup ==
  ASSUME IInv, CleanupCommit
  PROVE  Gallery!Next
<1>1. /\ UNCHANGED <<processing, keys, originals, copies, asked, missed>>
      /\ \A m \in Media : \/ status'[m] = status[m]
                          \/ status'[m] = "uploaded" /\ m \in pass.found /\ status[m] # "removed"
                          \/ status'[m] = "removed" /\ m \in pass.missing
  BY DEF IInv, TypeOK, CleanupCommit, Set, storage, web
<1>2. /\ \A m \in pass.found : processing[m] = "pending" /\ m \in originals \cup asked
      /\ \A m \in pass.missing :
           processing[m] = "pending" /\ (m \in missed \/ (m \in asked /\ m \notin originals))
  BY DEF IInv, PassInv
<1>3. DOMAIN Stage' = Media
  BY DEF Stage
<1>4. ASSUME NEW m \in Media
      PROVE  \/ Stage'[m] = Stage[m]
             \/ Stage'[m] = "waiting" /\ Stage[m] = "pending" /\ m \in originals \cup asked
             \/ Stage'[m] = "removed" /\ Gallery!MayGo(m)
  <2>1. CASE status'[m] = status[m]
    BY <1>1, <2>1 DEF Stage, Present
  <2>2. CASE status'[m] = "uploaded" /\ m \in pass.found /\ status[m] # "removed"
    BY <1>1, <1>2, <2>2 DEF IInv, TypeOK, Stage, Present
  <2>3. CASE status'[m] = "removed" /\ m \in pass.missing
    <3>1. Stage'[m] = "removed" /\ Stage[m] \in {"pending", "waiting", "removed"}
      BY <1>2, <2>3 DEF IInv, TypeOK, Stage, Present
    <3> QED
      BY <1>2, <2>3, <3>1 DEF Gallery!MayGo
  <2> QED
    BY <1>1, <2>1, <2>2, <2>3
<1>5. Gallery!Settle
  BY <1>1, <1>3, <1>4 DEF Gallery!Settle
<1> QED
  BY <1>5 DEF Gallery!Next

\* The requeues take back what was interrupted, which was not shown, and what shares a preview.
LEMMA GalleryRequeue ==
  ASSUME IInv, requeue_interrupted_processing \/ requeue_legacy_derivatives
  PROVE  [Gallery!Next]_(Gallery!vars)
<1>1. CASE requeue_interrupted_processing
  <2>1. /\ UNCHANGED <<status, keys, originals, copies, asked, missed>>
        /\ \A m \in Media : processing'[m] = IF Present(m) /\ processing[m] = "processing"
                                             THEN "pending" ELSE processing[m]
    BY <1>1 DEF IInv, TypeOK, requeue_interrupted_processing, Set, storage, web
  <2>2. \A m \in Media : Stage'[m] = Stage[m]
    BY <2>1 DEF Stage, Present
  <2> QED
    BY <2>1, <2>2, GalleryStutter
<1>2. CASE requeue_legacy_derivatives
  <2> DEFINE S == {m \in Media : Present(m) /\ processing[m] = "ready" /\ UsesLegacy(m)}
  <2>1. /\ UNCHANGED <<status, keys, originals, copies, asked, missed>>
        /\ \A m \in Media : processing'[m] = IF m \in S THEN "pending" ELSE processing[m]
    BY <1>2 DEF IInv, TypeOK, requeue_legacy_derivatives, Set, storage, web
  <2>2. \A m \in Media : Stage'[m] = IF m \in S THEN "waiting" ELSE Stage[m]
    BY <2>1 DEF Stage, Present
  <2>3. S \subseteq Media /\ \A m \in S : Stage[m] = "ready" /\ \E k \in keys[m] : k[1] = Shared
    BY Stages DEF UsesLegacy
  <2> HIDE DEF S
  <2>4. Gallery!Again(S)
    BY <2>1, <2>2, <2>3, GalleryMove DEF Gallery!Again
  <2> QED
    BY <2>3, <2>4 DEF Gallery!Next
<1> QED
  BY <1>1, <1>2

\* A job begun is a failed one tried again, or shows nowhere.
LEMMA GalleryBegin ==
  ASSUME IInv, NEW m \in Media, handle_job(m) \/ process_next_pending(m)
  PROVE  [Gallery!Next]_(Gallery!vars)
<1>1. Begin(m) /\ UNCHANGED <<status, keys, originals, copies, asked, missed>>
  BY DEF handle_job, process_next_pending, storage, web
<1>2. CASE Present(m) /\ processing[m] = "failed"
  <2>1. \A k \in Media : Stage'[k] = IF k \in {m} THEN "waiting" ELSE Stage[k]
    BY <1>1, <1>2 DEF IInv, TypeOK, Begin, Stage, Present
  <2>2. Gallery!Again({m})
    BY <1>1, <1>2, <2>1, Stages, GalleryMove DEF Gallery!Again
  <2> QED
    BY <2>2 DEF Gallery!Next
<1>3. CASE ~(Present(m) /\ processing[m] = "failed")
  <2>1. \A k \in Media : Stage'[k] = Stage[k]
    BY <1>1, <1>3 DEF IInv, TypeOK, Begin, Stage, Present
  <2> QED
    BY <1>1, <2>1, GalleryStutter
<1> QED
  BY <1>2, <1>3

LEMMA GalleryStore ==
  ASSUME IInv, NEW m \in Media, NEW c \in Kinds(m), upload_object(m, c)
  PROVE  Gallery!Next
<1>1. copies' = copies \cup {<<m, c>>} /\ Stage' = Stage /\ UNCHANGED <<keys, originals, asked, missed>>
  BY DEF upload_object, Stage, Present, row, web
<1>2. Stage[m] # "pending"
  BY Stages DEF IInv, WorkerInv, upload_object, Working
<1>3. <<m, c>> \in Gallery!All(m)
  BY Copies, OwnCopies
<1>4. Gallery!Store(m, <<m, c>>)
  BY <1>1, <1>2, <1>3 DEF Gallery!Store
<1> QED
  BY <1>3, <1>4 DEF Gallery!Next

\* The commit that makes a row ready finds its copies stored.
LEMMA GalleryFinish ==
  ASSUME IInv, NEW m \in Media, Finish(m)
  PROVE  [Gallery!Next]_(Gallery!vars)
<1>1. /\ processing[m] = "processing"
      /\ m \in asked \/ \A c \in Kinds(m) : <<m, c>> \in copies
  BY DEF IInv, Finish, Stored, WorkerInv, Working
<1>2. UNCHANGED <<status, originals, copies, asked, missed>>
  BY DEF Finish, storage, web
<1>3. CASE ~Present(m)
  BY <1>2, <1>3, GalleryStutter DEF Finish, Stage, Present
<1>4. CASE Present(m)
  <2>1. processing' = [processing EXCEPT ![m] = "ready"] /\ keys' = [keys EXCEPT ![m] = Own(m)]
    BY <1>4 DEF Finish
  <2>2. \A k \in Media : Stage'[k] = IF k \in {m} THEN "ready" ELSE Stage[k]
    BY <1>2, <1>4, <2>1 DEF IInv, TypeOK, Stage, Present
  <2>3. Stage[m] = "waiting"
    BY <1>1, <1>4, Stages
  <2>4. m \in asked \/ Gallery!All(m) \subseteq copies
    BY <1>1, Copies, OwnCopies
  <2>5. Gallery!Show(m)
    BY <1>2, <2>1, <2>2, <2>3, <2>4, Copies, GalleryMove DEF Gallery!Show
  <2> QED
    BY <2>5 DEF Gallery!Next
<1> QED
  BY <1>3, <1>4

LEMMA GalleryFail ==
  ASSUME IInv, NEW m \in Media, Fail(m) \/ Strand(m)
  PROVE  [Gallery!Next]_(Gallery!vars)
<1>1. /\ processing[m] = "processing" /\ UNCHANGED <<status, keys, originals, copies, asked, missed>>
      /\ processing' = processing \/ (Present(m) /\ processing' = [processing EXCEPT ![m] = "failed"])
  BY DEF IInv, WorkerInv, Fail, Strand, row, storage, web
<1>2. CASE processing' = processing
  BY <1>1, <1>2, GalleryStutter DEF Stage, Present
<1>3. CASE Present(m) /\ processing' = [processing EXCEPT ![m] = "failed"]
  <2>1. \A k \in Media : Stage'[k] = IF k \in {m} THEN "failed" ELSE Stage[k]
    BY <1>1, <1>3 DEF IInv, TypeOK, Stage, Present
  <2>2. Gallery!GiveUp(m)
    BY <1>1, <1>3, <2>1, Stages, GalleryMove DEF Gallery!GiveUp
  <2> QED
    BY <2>2 DEF Gallery!Next
<1> QED
  BY <1>1, <1>2, <1>3

\* What happens to the worker alone is seen by nobody.
LEMMA GalleryUnseen ==
  ASSUME (\E m \in Media : download_object(m)) \/ Crash \/ UNCHANGED vars
  PROVE  [Gallery!Next]_(Gallery!vars)
<1>1. UNCHANGED <<status, processing, keys, originals, copies, asked, missed>>
  BY DEF download_object, Crash, vars, row, storage, web
<1> QED
  BY <1>1, GalleryStutter DEF Stage, Present

\* Every step of the handlers and the worker is a step of the gallery, or none.
LEMMA GalleryStep ==
  ASSUME IInv, [Next]_vars
  PROVE  [Gallery!Next]_(Gallery!vars)
<1>1. CASE WebStep
  BY <1>1, GalleryArrive, GalleryConfirm, GalleryAsk, GalleryErase, GallerySibling, GalleryRemove DEF WebStep
<1>2. CASE WorkerStep
  BY <1>2, GalleryInspect, GalleryCleanup, GalleryRequeue, GalleryBegin, GalleryStore,
    GalleryFinish, GalleryFail, GalleryUnseen DEF WorkerStep
<1>3. CASE UNCHANGED vars
  BY <1>3, GalleryUnseen
<1> QED
  BY <1>1, <1>2, <1>3 DEF Next

\* Confirmations, deletions and the worker (app/main.py, media_processing.py) do only what
\* MediaGallery allows.
THEOREM Implements == Spec => ImplementsGallery
BY GalleryInit, GalleryStep, Invariance, PTL DEF Spec, ImplementsGallery, Gallery!Spec

\* The gallery is worth implementing: its steps alone keep what it promises.
LEMMA PromiseKept ==
  ASSUME Gallery!Promise, DOMAIN keys = Media, [Gallery!Next]_(Gallery!vars)
  PROVE  Gallery!Promise' /\ DOMAIN keys' = Media
<1> USE DEF Gallery!Promise
<1>1. \A k : Gallery!Free(k) /\ asked \subseteq asked' => Gallery!Free(k)'
  BY DEF Gallery!Free
<1>2. CASE Gallery!Settle
  BY <1>2 DEF Gallery!Settle, Gallery!MayGo, Gallery!Free
<1>3. ASSUME NEW m \in Media, NEW k \in Gallery!All(m), Gallery!Store(m, k) PROVE Gallery!Promise'
  BY <1>3 DEF Gallery!Store, Gallery!Free
<1>4. ASSUME NEW m \in Media, Gallery!Show(m) PROVE Gallery!Promise'
  <2>1. Gallery!All(m) # {}
    BY Copies, OwnCopies
  <2> QED
    BY <1>4, <2>1 DEF Gallery!Show, Gallery!Move, Gallery!Free, Stage
<1>5. ASSUME NEW S \in SUBSET Media, Gallery!Again(S) PROVE Gallery!Promise'
  BY <1>5 DEF Gallery!Again, Gallery!Move, Gallery!Free, Stage
<1>6. ASSUME NEW S \in SUBSET Media, Gallery!Ask(S) PROVE Gallery!Promise'
  BY <1>1, <1>6 DEF Gallery!Ask
<1>7. ASSUME NEW m \in Media, Gallery!Arrive(m) \/ Gallery!Miss(m) PROVE Gallery!Promise'
  BY <1>7 DEF Gallery!Arrive, Gallery!Miss, Gallery!Free
<1>8. ASSUME Gallery!Erase PROVE Gallery!Promise'
  BY <1>1, <1>8 DEF Gallery!Erase
<1>9. ASSUME Gallery!EraseShared PROVE Gallery!Promise'
  <2>1. \A k : k = <<Shared, "preview">> => Gallery!Free(k)'
    BY <1>9 DEF Gallery!EraseShared, Gallery!Free
  <2> QED
    BY <1>1, <1>9, <2>1 DEF Gallery!EraseShared
<1>10. CASE UNCHANGED Gallery!vars
  BY <1>10 DEF Gallery!vars, Gallery!Free
<1>11. DOMAIN keys' = Media
  BY DEF Gallery!Next, Gallery!vars, Gallery!Settle, Gallery!Arrive, Gallery!Miss, Gallery!GiveUp,
    Gallery!Store, Gallery!Show, Gallery!Again, Gallery!Ask, Gallery!Erase, Gallery!EraseShared
<1>12. ASSUME NEW m \in Media, Gallery!GiveUp(m) PROVE Gallery!Promise'
  BY <1>12 DEF Gallery!GiveUp, Gallery!Move, Gallery!Free, Stage
<1> QED
  BY <1>2, <1>3, <1>4, <1>5, <1>6, <1>7, <1>8, <1>9, <1>10, <1>11, <1>12 DEF Gallery!Next

\* Any gallery keeps its promise.
THEOREM GalleryPromises == Gallery!Spec => []Gallery!Promise
<1> DEFINE P == Gallery!Promise /\ DOMAIN keys = Media
<1>1. Gallery!Init => P
  BY ProcessingAssumption DEF Gallery!Init, Gallery!Promise, Gallery!Free, Stage
<1>2. P /\ [Gallery!Next]_(Gallery!vars) => P'
  BY PromiseKept
<1>3. P => Gallery!Promise
  OBVIOUS
<1> HIDE DEF P
<1> QED
  BY <1>1, <1>2, <1>3, PTL DEF Gallery!Spec

\* So do the handlers and the worker: what a row names is in storage, and of a row that is gone no
\* original is left, but one that came after the cleanup or the host had taken the row up
\* (process_media, delete_media, cleanup_stale_uploads).
THEOREM GalleryKeepsPromise == Spec => []Gallery!Promise
BY Implements, GalleryPromises DEF ImplementsGallery
=============================================================================
