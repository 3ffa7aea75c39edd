-------------------------- MODULE MediaProcessing --------------------------
(***************************************************************************)
(* Derivatives of uploaded media: confirmed uploads are queued in Redis    *)
(* (a job may be lost, or come twice), the one worker takes jobs and polls *)
(* the database, builds each copy, stores it and commits; it may die at    *)
(* any point and requeues what it left behind when it starts.  The same    *)
(* worker cleans up uploads that were never confirmed, and meanwhile the   *)
(* host deletes media.  Originals that do not match their row are in       *)
(* GuestUploads only.                                                      *)
(***************************************************************************)
EXTENDS Naturals, FiniteSets

CONSTANTS
  Media,     \* media rows, each with an event of its own or a common one
  Videos,    \* those of them that are videos
  Legacy,    \* those processed before v0.10.1, whose keys name an object shared by all
  Shared,    \* stands for the owner of the shared objects
  MaxJobs    \* bound on the queued jobs of one media

ASSUME ProcessingAssumption ==
  /\ Videos \subseteq Media /\ Legacy \subseteq Media \ Videos
  /\ Shared \notin Media /\ MaxJobs \in Nat \ {0}

VARIABLES
  status,      \* media.status, "removed" after the row is deleted
  processing,  \* media.processing_status
  keys,        \* the derivative keys of the row, as <<owner, copy>>
  coming,      \* the media whose PUT has not ended
  originals,   \* originals in storage, by media
  copies,      \* derivatives in storage, as <<owner, copy>>
  queue,       \* jobs in the Redis list, by media
  confirming,  \* open confirm_upload sessions that read the row as "pending"
  deletion,    \* the open delete_media session: its phase, rows and keys
  worker,      \* the worker: its phase, the media it processes, what it has stored
  pass,        \* its cleanup of uploads: is one open, rows to inspect, found and missing ones
  asked,       \* history: rows a host asked to delete
  missed,      \* history: rows that a deletion or a cleanup took up before their original came
  stranded     \* history: rows left "processing" by a failed commit, with no start or job since

row     == <<status, processing, keys>>
storage == <<coming, originals, copies>>
web     == <<confirming, deletion, asked, missed>>
vars    == <<row, storage, queue, web, worker, pass, stranded>>

Working  == {"download", "copy"}
Kinds(m) == IF m \in Videos THEN {"processed", "poster"} ELSE {"preview"}
Own(m)   == {m} \X Kinds(m)
At(phase)   == [phase |-> phase, media |-> {}, done |-> {}]
NoPass      == [open |-> FALSE, todo |-> {}, found |-> {}, missing |-> {}]
NoDeletion  == [phase |-> "none", rows |-> {}, keys |-> {}]
Set(f, S, v) == [m \in DOMAIN f |-> IF m \in S THEN v ELSE f[m]]
----------------------------------------------------------------------------
(* The web application (app/main.py).                                      *)

\* The guest's PUT ends, whatever became of the row.
Put(m) ==
  /\ m \in coming
  /\ coming' = coming \ {m}
  /\ originals' = originals \cup {m}
  /\ UNCHANGED <<row, copies, queue, web, worker, pass, stranded>>

\* confirm_upload verified the object; several calls may have read the row as pending.
ReadPending(m) ==
  /\ status[m] = "pending" /\ m \in originals /\ confirming[m] < MaxJobs
  /\ confirming' = [confirming EXCEPT ![m] = @ + 1]
  /\ UNCHANGED <<row, storage, queue, deletion, asked, missed, worker, pass, stranded>>

\* Its commit and enqueue; a Redis error is swallowed and the job lost.
confirm_upload(m) ==
  /\ confirming[m] > 0
  /\ confirming' = [confirming EXCEPT ![m] = @ - 1]
  /\ status' = IF status[m] = "pending" THEN [status EXCEPT ![m] = "uploaded"] ELSE status
  /\ \/ queue' = queue
     \/ status[m] # "removed" /\ queue[m] < MaxJobs /\ queue' = [queue EXCEPT ![m] = @ + 1]
  /\ UNCHANGED <<processing, keys, storage, deletion, asked, missed, worker, pass, stranded>>

\* The rows, of any status, and their keys are read, then objects are erased, then the rows.
delete_media(S) ==
  /\ deletion = NoDeletion
  /\ S # {} /\ \A m \in S : status[m] # "removed"
  /\ deletion' = [phase |-> "read", rows |-> S, keys |-> UNION {keys[m] : m \in S}]
  /\ asked' = asked \cup S
  /\ missed' = missed \cup (S \cap coming)
  /\ UNCHANGED <<row, storage, queue, confirming, worker, pass, stranded>>

\* On an error (502) any part of the objects may be gone, and the session ends.
delete_objects ==
  /\ deletion.phase = "read"
  /\ \/ /\ originals' = originals \ deletion.rows
        /\ copies' = copies \ deletion.keys
        /\ deletion' = [deletion EXCEPT !.phase = "erased"]
     \/ \E D \in SUBSET deletion.rows, K \in SUBSET deletion.keys :
          /\ originals' = originals \ D
          /\ copies' = copies \ K
          /\ deletion' = NoDeletion
  /\ UNCHANGED <<row, coming, queue, confirming, asked, missed, worker, pass, stranded>>

\* Variant: the rows deleted before the storage has answered.
DeleteRowsEarly ==
  /\ deletion.phase \in {"read", "erased"}
  /\ status' = Set(status, deletion.rows, "removed")
  /\ deletion' = NoDeletion
  /\ UNCHANGED <<processing, keys, storage, queue, confirming, asked, missed, worker, pass, stranded>>

DeleteRows ==
  /\ deletion.phase = "erased"
  /\ status' = Set(status, deletion.rows, "removed")
  /\ deletion' = NoDeletion
  /\ UNCHANGED <<processing, keys, storage, queue, confirming, asked, missed, worker, pass, stranded>>

DeleteAborts ==
  /\ deletion # NoDeletion
  /\ deletion' = NoDeletion
  /\ UNCHANGED <<row, storage, queue, confirming, asked, missed, worker, pass, stranded>>

\* The other rows of before v0.10.1, all in the host's hands: the deletion of one erases the
\* preview that they share with those of Media.
DeleteSibling ==
  /\ <<Shared, "preview">> \in copies
  /\ copies' = copies \ {<<Shared, "preview">>}
  /\ asked' = asked \cup {Shared}
  /\ UNCHANGED <<row, coming, originals, queue, confirming, deletion, missed, worker, pass, stranded>>

----------------------------------------------------------------------------
(* What the pages show: the copies a row names, or else its original.      *)

Copy(m, c)   == {k \in keys[m] : k[2] = c}
Original(m)  == {<<m, "original">>}
Or(K, L)     == IF K # {} THEN K ELSE L
Preview(m)   == Or(Copy(m, "preview"), Copy(m, "poster"))

host_media_preview(m)  == Or(Preview(m), Original(m))
host_media_play(m)     == Or(Copy(m, "processed"), Original(m))
host_media_download(m) == Original(m)

\* The guests see what is ready, and no original of a video.
guest_event            == {m \in Media : status[m] = "uploaded" /\ processing[m] = "ready"}
guest_media_preview(m) == Or(Preview(m), IF m \in Videos THEN {} ELSE Original(m))
guest_media_play(m)    == IF m \in Videos THEN Copy(m, "processed") ELSE {}
----------------------------------------------------------------------------
(* The worker (worker/main.py, app/services/media_processing.py).          *)

Present(m)       == status[m] = "uploaded"
UsesLegacy(m)    == \E k \in keys[m] : k[1] = Shared

\* The cleanup runs at the start and between jobs, for what is pending and past the cutoff.
cleanup_stale_uploads(S) ==
  /\ worker.phase \in {"down", "idle"} /\ ~pass.open
  /\ S # {} /\ \A m \in S : status[m] = "pending"
  /\ pass' = [NoPass EXCEPT !.open = TRUE, !.todo = S]
  /\ UNCHANGED <<row, storage, queue, web, worker, stranded>>

head_object(m) ==
  /\ m \in pass.todo
  /\ IF m \in originals
     THEN pass' = [pass EXCEPT !.todo = @ \ {m}, !.found = @ \cup {m}] /\ missed' = missed
     ELSE /\ pass' = [pass EXCEPT !.todo = @ \ {m}, !.missing = @ \cup {m}]
          /\ missed' = missed \cup ({m} \cap coming)
  /\ UNCHANGED <<row, storage, queue, confirming, deletion, asked, worker, stranded>>

HeadError(m) ==
  /\ m \in pass.todo
  /\ pass' = [pass EXCEPT !.todo = @ \ {m}]
  /\ UNCHANGED <<row, storage, queue, web, worker, stranded>>

\* One commit, that queues no job: rolled back if a row found was deleted meanwhile; the DELETE of
\* a missing one does not look at what became of it.
CleanupCommit ==
  /\ pass.open /\ pass.todo = {}
  /\ status' = IF \E m \in pass.found : status[m] = "removed" THEN status
               ELSE Set(Set(status, pass.found, "uploaded"), pass.missing, "removed")
  /\ pass' = NoPass
  /\ UNCHANGED <<processing, keys, storage, queue, web, worker, stranded>>

\* Variant: nothing requeued at the start.
requeue_nothing ==
  /\ worker.phase = "down" /\ ~pass.open
  /\ worker' = At("requeued")
  /\ UNCHANGED <<row, storage, queue, web, pass, stranded>>

requeue_interrupted_processing ==
  /\ worker.phase = "down" /\ ~pass.open
  /\ worker' = At("requeued")
  /\ processing' = Set(processing, {m \in Media : Present(m) /\ processing[m] = "processing"}, "pending")
  /\ stranded' = {}
  /\ UNCHANGED <<status, keys, storage, queue, web, pass>>

requeue_legacy_derivatives ==
  /\ worker.phase = "requeued"
  /\ worker' = At("idle")
  /\ processing' = Set(processing,
       {m \in Media : Present(m) /\ processing[m] = "ready" /\ UsesLegacy(m)}, "pending")
  /\ UNCHANGED <<status, keys, storage, queue, web, pass, stranded>>

\* process_media up to its first commit; variant: a ready row processed again.
BeginAgain(m) ==
  IF Present(m)
  THEN /\ processing' = [processing EXCEPT ![m] = "processing"]
       /\ worker' = [phase |-> "download", media |-> {m}, done |-> {}]
       /\ stranded' = stranded \ {m}
  ELSE UNCHANGED <<processing, worker, stranded>>

Begin(m) ==
  IF Present(m) /\ processing[m] # "ready"
  THEN /\ processing' = [processing EXCEPT ![m] = "processing"]
       /\ worker' = [phase |-> "download", media |-> {m}, done |-> {}]
       /\ stranded' = stranded \ {m}
  ELSE UNCHANGED <<processing, worker, stranded>>

handle_job(m) ==
  /\ worker.phase = "idle" /\ ~pass.open /\ queue[m] > 0
  /\ queue' = [queue EXCEPT ![m] = @ - 1]
  /\ Begin(m)
  /\ UNCHANGED <<status, keys, storage, web, pass>>

process_next_pending(m) ==
  /\ worker.phase = "idle" /\ ~pass.open /\ Present(m) /\ processing[m] = "pending"
  /\ Begin(m)
  /\ UNCHANGED <<status, keys, storage, queue, web, pass>>

download_object(m) ==
  /\ worker.phase = "download" /\ m \in worker.media /\ m \in originals
  /\ worker' = [worker EXCEPT !.phase = "copy"]
  /\ UNCHANGED <<row, storage, queue, web, pass, stranded>>

\* The poster follows the processed video.
upload_object(m, c) ==
  /\ worker.phase = "copy" /\ m \in worker.media
  /\ c \in Kinds(m) \ worker.done
  /\ c = "poster" => "processed" \in worker.done
  /\ copies' = copies \cup {<<m, c>>}
  /\ worker' = [worker EXCEPT !.done = @ \cup {c}]
  /\ UNCHANGED <<row, coming, originals, queue, web, pass, stranded>>

\* Variant: committed before the poster is stored.
StoredOne(m) == worker.done # {}
Stored(m)    == worker.done = Kinds(m)

\* The second commit; for a row deleted meanwhile it raises, and the except path finds no row.
Finish(m) ==
  /\ worker.phase = "copy" /\ m \in worker.media /\ Stored(m)
  /\ IF Present(m)
     THEN /\ processing' = [processing EXCEPT ![m] = "ready"]
          /\ keys' = [keys EXCEPT ![m] = Own(m)]
     ELSE UNCHANGED <<processing, keys>>
  /\ worker' = At("idle")
  /\ UNCHANGED <<status, storage, queue, web, pass, stranded>>

\* Variant: the failed job not let go of.
FailHolding(m) ==
  /\ worker.phase \in Working /\ m \in worker.media
  /\ processing' = IF Present(m) THEN [processing EXCEPT ![m] = "failed"] ELSE processing
  /\ worker' = [worker EXCEPT !.phase = "idle"]
  /\ UNCHANGED <<status, keys, storage, queue, web, pass, stranded>>

\* Any exception on the way: a missing original, ffmpeg, the storage.
Fail(m) ==
  /\ worker.phase \in Working /\ m \in worker.media
  /\ processing' = IF Present(m) THEN [processing EXCEPT ![m] = "failed"] ELSE processing
  /\ worker' = At("idle")
  /\ UNCHANGED <<status, keys, storage, queue, web, pass, stranded>>

\* The except path cannot commit either: the exception ends the job in the main loop.
Strand(m) ==
  /\ worker.phase \in Working /\ m \in worker.media
  /\ worker' = At("idle")
  /\ stranded' = stranded \cup {m}
  /\ UNCHANGED <<row, storage, queue, web, pass>>

Crash ==
  /\ worker.phase # "down" \/ pass.open
  /\ worker' = At("down")
  /\ pass' = NoPass
  /\ UNCHANGED <<row, storage, queue, web, stranded>>
----------------------------------------------------------------------------
\* Rows of the old version are uploaded and ready; the others wait for their confirmation.
Init ==
  /\ status = [m \in Media |-> IF m \in Legacy THEN "uploaded" ELSE "pending"]
  /\ processing = [m \in Media |-> IF m \in Legacy THEN "ready" ELSE "pending"]
  /\ keys = [m \in Media |-> IF m \in Legacy THEN {<<Shared, "preview">>} ELSE {}]
  /\ coming = Media \ Legacy /\ originals = Legacy
  /\ copies = IF Legacy = {} THEN {} ELSE {<<Shared, "preview">>}
  /\ queue = [m \in Media |-> 0] /\ confirming = [m \in Media |-> 0]
  /\ deletion = NoDeletion /\ worker = At("down") /\ pass = NoPass
  /\ asked = {} /\ missed = {} /\ stranded = {}

WebStep ==
  \/ \E m \in Media : Put(m) \/ ReadPending(m) \/ confirm_upload(m)
  \/ \E S \in SUBSET Media : delete_media(S)
  \/ delete_objects \/ DeleteRows \/ DeleteAborts \/ DeleteSibling

WorkerStep ==
  \/ \E S \in SUBSET Media : cleanup_stale_uploads(S)
  \/ \E m \in Media : head_object(m) \/ HeadError(m)
  \/ CleanupCommit
  \/ requeue_interrupted_processing \/ requeue_legacy_derivatives
  \/ \E m \in Media :
       \/ handle_job(m) \/ process_next_pending(m)
       \/ download_object(m) \/ Finish(m) \/ Fail(m) \/ Strand(m)
       \/ \E c \in Kinds(m) : upload_object(m, c)
  \/ Crash

Next == WebStep \/ WorkerStep

Spec == Init /\ [][Next]_vars

Start == requeue_interrupted_processing \/ requeue_legacy_derivatives

Proceed ==
  \E m \in Media : \/ download_object(m) \/ Finish(m) \/ Fail(m) \/ Strand(m)
                  \/ \E c \in Kinds(m) : upload_object(m, c)

Cleanup == CleanupCommit \/ \E m \in Media : head_object(m) \/ HeadError(m)

\* Assumed: the worker is restarted, its cleanup and its job end (ffmpeg has a timeout), it polls
\* every ten seconds whatever the queue holds, and at last it no longer dies.
Fairness ==
  /\ SF_vars(Start) /\ WF_vars(Proceed \/ Cleanup)
  /\ SF_vars(\E m \in Media : process_next_pending(m))
  /\ <>[][~Crash]_vars

FairSpec == Spec /\ Fairness
----------------------------------------------------------------------------
(* Properties                                                              *)

\* Types of rows, keys, the queue, the deletion and the worker.
TypeOK ==
  /\ status \in [Media -> {"pending", "uploaded", "removed"}]
  /\ processing \in [Media -> {"pending", "processing", "ready", "failed"}]
  /\ keys \in [Media -> SUBSET ((Media \cup {Shared}) \X {"preview", "processed", "poster"})]
  /\ copies \subseteq (Media \cup {Shared}) \X {"preview", "processed", "poster"}
  /\ coming \subseteq Media /\ originals \subseteq Media /\ missed \subseteq Media
  /\ queue \in [Media -> 0..MaxJobs] /\ confirming \in [Media -> 0..MaxJobs]
  /\ deletion.phase \in {"none", "read", "erased"} /\ deletion.rows \subseteq Media
  /\ pass.open \in BOOLEAN /\ pass.todo \cup pass.found \cup pass.missing \subseteq Media
  /\ worker.phase \in {"down", "requeued", "idle"} \cup Working
  /\ Cardinality(worker.media) = IF worker.phase \in Working THEN 1 ELSE 0

InStorage(k) == k \in copies \/ (k[2] = "original" /\ k[1] \in originals)

\* The shared preview, once a host has asked for the deletion of one of the rows that share it.
Unshared(k) == k[1] = Shared /\ asked \cap (Legacy \cup {Shared}) # {}

HostKeys(m)  == host_media_preview(m) \cup host_media_play(m) \cup host_media_download(m)
GuestKeys(m) == guest_media_preview(m) \cup guest_media_play(m)

\* No page shows a dead picture, through crashes, retries and duplicate jobs, until its host asks
\* for its deletion, or, of a preview of before v0.10.1, for that of another media that shares
\* it. Of what guests see the original of a video is never needed.
GalleryServable ==
  \A m \in Media \ asked :
    /\ Present(m) => \A k \in HostKeys(m) : InStorage(k) \/ Unshared(k)
    /\ m \in guest_event =>
         /\ guest_media_preview(m) # {} /\ (m \in Videos => guest_media_play(m) # {})
         /\ \A k \in GuestKeys(m) : InStorage(k) \/ Unshared(k)

\* A ready media never drops out of the guests' gallery: no duplicate job, late confirmation,
\* poll or restart takes the state back.
ReadyStays ==
  [][\A m \in Media :
       processing[m] = "ready" /\ ~UsesLegacy(m) => processing'[m] = "ready"]_vars

\* The database says what the worker does: a row is "processing" only while the worker is at it,
\* is down or starting, or could not commit; the poll would never look at it again.
NoneForgotten ==
  \A m \in Media :
    Present(m) /\ processing[m] = "processing" =>
      m \in worker.media \/ m \in stranded \/ worker.phase = "down"

\* Each uploaded media ends ready with copies of its own, failed or deleted, though Redis loses
\* its job, the worker dies on it, or its keys are of the old version.
MediaResolves ==
  \A m \in Media :
    status[m] = "uploaded" ~>
      \/ processing[m] = "ready" /\ keys[m] = Own(m)
      \/ processing[m] = "failed" \/ status[m] = "removed" \/ m \in stranded
----------------------------------------------------------------------------
(* What an event's gallery promises.                                       *)

Stage == [m \in Media |->
  IF ~Present(m) THEN status[m]
  ELSE IF processing[m] \in {"ready", "failed"} THEN processing[m] ELSE "waiting"]

Gallery == INSTANCE MediaGallery WITH stage <- Stage

\* The confirmations, the deletions and the worker, with its jobs, polls and crashes, do only what
\* MediaGallery allows: a media is shown in the very step that finds all its copies stored, nothing
\* leaves storage unasked, and a row goes only after its original, or while it waits to be shown, if
\* its original was not there when the cleanup or the host took it up (process_media, delete_media).
ImplementsGallery == Gallery!Spec
----------------------------------------------------------------------------
(* What the gallery says and a deletion during processing refutes.         *)

\* "This removes the original and all generated copies" (static/gallery.js:16): once the row
\* is gone and the worker has let go of it, no copy of it is left.
CopiesRemoved ==
  \A m \in Media :
    status[m] = "removed" /\ m \notin worker.media => \A k \in copies : k[1] # m
=============================================================================
