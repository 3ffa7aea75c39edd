------------------------------ MODULE Archives ------------------------------
(***************************************************************************)
(* ZIP downloads: the host requests an archive of an event, the one worker *)
(* builds it from the originals, stores it and marks the job ready, and    *)
(* cleanup_expired_archives deletes what is past its retention and fails   *)
(* what a dead worker left behind.  The host deletes media meanwhile.      *)
(***************************************************************************)
EXTENDS Naturals, FiniteSets

CONSTANTS
  Jobs,       \* archive_jobs rows
  Media,      \* uploaded media of the event
  Selections  \* what hosts select for an archive, {} for everything

ASSUME ArchiveAssumption == Media # {} /\ Selections \subseteq SUBSET Media

Statuses == {"absent", "queued", "processing", "ready", "failed", "expired"}

VARIABLES
  entitled,   \* does the package include archive_downloads?
  status,     \* archive_jobs.status
  requested,  \* requested_media_ids, {} for all
  key,        \* jobs with an object_key
  created,    \* "new", or "stale" after archive_stale_job_hours
  completed,  \* "none", "recent", or "old" after archive_retention_hours
  queue,      \* build_archive jobs in Redis
  zips,       \* ZIP objects in storage
  content,    \* the media in each ZIP
  uploaded,   \* rows of uploaded media
  originals,  \* their objects
  deletion,   \* media of the open delete_media session whose objects are gone
  worker      \* phase, its job, media still to add, media added, or jobs to expire

job     == <<status, requested, key, created, completed>>
library == <<uploaded, originals, deletion>>
storage == <<zips, content>>
vars    == <<entitled, job, queue, storage, library, worker>>

Building == {"build", "stored"}
At(phase) == [phase |-> phase, job |-> {}, todo |-> {}, got |-> {}]
----------------------------------------------------------------------------
(* The web application (app/main.py).                                      *)

create_archive_job(j, S) ==
  /\ entitled /\ status[j] = "absent"
  /\ S \subseteq uploaded
  /\ status' = [status EXCEPT ![j] = "queued"]
  /\ requested' = [requested EXCEPT ![j] = S]
  /\ queue' \in {queue, queue \cup {j}}
  /\ UNCHANGED <<entitled, key, created, completed, storage, library, worker>>

\* What archive_status offers; archive_download serves it while the package includes it.
Offered(j) == status[j] = "ready" /\ j \in key /\ completed[j] # "old"

\* delete_media: objects first, then the rows; an error may stop it between.
EraseOriginals(S) ==
  /\ deletion = {} /\ S # {} /\ S \subseteq uploaded
  /\ originals' = originals \ S
  /\ deletion' = S
  /\ UNCHANGED <<entitled, job, queue, storage, uploaded, worker>>

DeleteRows ==
  /\ deletion # {}
  /\ uploaded' \in {uploaded, uploaded \ deletion}
  /\ deletion' = {}
  /\ UNCHANGED <<entitled, job, queue, storage, originals, worker>>

SetPackage ==
  /\ entitled' = ~entitled
  /\ UNCHANGED <<job, queue, storage, library, worker>>

Retire(j) ==
  /\ completed[j] = "recent"
  /\ completed' = [completed EXCEPT ![j] = "old"]
  /\ UNCHANGED <<entitled, status, requested, key, created, queue, storage, library, worker>>

Stale(j) ==
  /\ status[j] # "absent" /\ created[j] = "new"
  /\ created' = [created EXCEPT ![j] = "stale"]
  /\ UNCHANGED <<entitled, status, requested, key, completed, queue, storage, library, worker>>
----------------------------------------------------------------------------
(* build_archive (app/services/archive.py), from Redis or from the poll.   *)

Wanted(j) == IF requested[j] = {} THEN uploaded ELSE uploaded \cap requested[j]

\* Variant: a ready archive built again.
BeginAgain(j) ==
  IF status[j] # "absent"
  THEN /\ status' = [status EXCEPT ![j] = "processing"]
       /\ worker' = [phase |-> "build", job |-> {j}, todo |-> Wanted(j), got |-> {}]
  ELSE UNCHANGED <<status, worker>>

\* The first commit and the query.
Begin(j) ==
  IF status[j] \notin {"absent", "ready"}
  THEN /\ status' = [status EXCEPT ![j] = "processing"]
       /\ worker' = [phase |-> "build", job |-> {j}, todo |-> Wanted(j), got |-> {}]
  ELSE UNCHANGED <<status, worker>>

handle_job(j) ==
  /\ worker.phase = "idle" /\ j \in queue
  /\ queue' = queue \ {j}
  /\ Begin(j)
  /\ UNCHANGED <<entitled, requested, key, created, completed, storage, library>>

process_next_archive(j) ==
  /\ worker.phase = "idle" /\ status[j] = "queued"
  /\ Begin(j)
  /\ UNCHANGED <<entitled, requested, key, created, completed, queue, storage, library>>

Add(m) ==
  /\ worker.phase = "build" /\ m \in worker.todo /\ m \in originals
  /\ worker' = [worker EXCEPT !.todo = @ \ {m}, !.got = @ \cup {m}]
  /\ UNCHANGED <<entitled, job, queue, storage, library>>

upload_object(j) ==
  /\ worker.phase = "build" /\ j \in worker.job
  /\ worker.todo = {} /\ worker.got # {}
  /\ zips' = zips \cup {j}
  /\ content' = [content EXCEPT ![j] = worker.got]
  /\ worker' = [worker EXCEPT !.phase = "stored"]
  /\ UNCHANGED <<entitled, job, queue, library>>

Finish(j) ==
  /\ worker.phase = "stored" /\ j \in worker.job
  /\ status' = [status EXCEPT ![j] = "ready"]
  /\ key' = key \cup {j}
  /\ completed' = [completed EXCEPT ![j] = "recent"]
  /\ worker' = At("idle")
  /\ UNCHANGED <<entitled, requested, created, queue, storage, library>>

\* Variant: a status of its own for a failed build.
FailRaw(j) ==
  /\ worker.phase \in Building /\ j \in worker.job
  /\ status' = [status EXCEPT ![j] = "error"]
  /\ worker' = At("idle")
  /\ UNCHANGED <<entitled, requested, key, created, completed, queue, storage, library>>

\* An exception: no media, a missing original, the storage or the commit.
Fail(j) ==
  /\ worker.phase \in Building /\ j \in worker.job
  /\ status' \in {status, [status EXCEPT ![j] = "failed"]}   \* unless that cannot commit either
  /\ worker' = At("idle")
  /\ UNCHANGED <<entitled, requested, key, created, completed, queue, storage, library>>
----------------------------------------------------------------------------
(* cleanup_expired_archives, at the start and every 15 minutes.            *)

\* Variant: the cutoff on completed_at forgotten.
AnyReady(j) == status[j] = "ready" /\ j \in key
Expired(j)  == status[j] = "ready" /\ j \in key /\ completed[j] = "old"

\* Variant: interrupted jobs forgotten.
NeverStranded(j) == FALSE
Stranded(j) == status[j] = "processing" /\ created[j] = "stale"

cleanup_expired_archives ==
  /\ worker.phase = "idle"
  /\ \E j \in Jobs : Expired(j) \/ Stranded(j)
  /\ worker' = [At("expire") EXCEPT !.job = {j \in Jobs : Expired(j)},
                                    !.todo = {j \in Jobs : Expired(j)}]
  /\ UNCHANGED <<entitled, job, queue, storage, library>>

\* Variant: an error of the storage ignored.
delete_objects_quietly(j) ==
  /\ worker.phase = "expire" /\ j \in worker.todo
  /\ zips' \in {zips, zips \ {j}}
  /\ worker' = [worker EXCEPT !.todo = @ \ {j}]
  /\ UNCHANGED <<entitled, job, queue, content, library>>

delete_objects(j) ==
  /\ worker.phase = "expire" /\ j \in worker.todo
  /\ zips' = zips \ {j}
  /\ worker' = [worker EXCEPT !.todo = @ \ {j}]
  /\ UNCHANGED <<entitled, job, queue, content, library>>

CleanupCommit ==
  /\ worker.phase = "expire" /\ worker.todo = {}
  /\ status' = [j \in Jobs |-> IF j \in worker.job THEN "expired"
                               ELSE IF Stranded(j) THEN "failed" ELSE status[j]]
  /\ key' = key \ worker.job
  /\ worker' = At("idle")
  /\ UNCHANGED <<entitled, requested, created, completed, queue, storage, library>>

\* A storage error ends the pass without a commit; the rows stay for a later one.
CleanupError ==
  /\ worker.phase = "expire"
  /\ worker' = At("idle")
  /\ UNCHANGED <<entitled, job, queue, storage, library>>

Crash ==
  /\ worker.phase # "idle"
  /\ worker' = At("idle")
  /\ UNCHANGED <<entitled, job, queue, storage, library>>
----------------------------------------------------------------------------
Init ==
  /\ entitled = TRUE
  /\ status = [j \in Jobs |-> "absent"] /\ requested = [j \in Jobs |-> {}]
  /\ key = {} /\ queue = {} /\ zips = {}
  /\ created = [j \in Jobs |-> "new"] /\ completed = [j \in Jobs |-> "none"]
  /\ content = [j \in Jobs |-> {}]
  /\ uploaded = Media /\ originals = Media /\ deletion = {}
  /\ worker = At("idle")

WebStep ==
  \/ \E j \in Jobs, S \in Selections : create_archive_job(j, S)
  \/ \E S \in SUBSET Media : EraseOriginals(S)
  \/ DeleteRows
  \/ SetPackage
  \/ \E j \in Jobs : Retire(j) \/ Stale(j)

WorkerStep ==
  \/ \E j \in Jobs : \/ handle_job(j) \/ process_next_archive(j)
                     \/ upload_object(j) \/ Finish(j) \/ Fail(j)
                     \/ delete_objects(j)
  \/ \E m \in Media : Add(m)
  \/ cleanup_expired_archives \/ CleanupCommit \/ CleanupError
  \/ Crash

Next == WebStep \/ WorkerStep

Spec == Init /\ [][Next]_vars

\* Assumed: builds end, the worker polls and cleans up on its timers, time passes, and at last
\* no cleanup pass fails: the worker survives it and the storage deletes what it is asked to.
Fairness ==
  /\ WF_vars((\E m \in Media : Add(m)) \/ \E j \in Jobs : upload_object(j) \/ Finish(j) \/ Fail(j))
  /\ WF_vars((\E j \in Jobs : delete_objects(j)) \/ CleanupCommit)
  /\ SF_vars(cleanup_expired_archives)
  /\ \A j \in Jobs : WF_vars(Stale(j)) /\ SF_vars(process_next_archive(j))
  /\ <>[][~CleanupError]_vars

FairSpec == Spec /\ Fairness
----------------------------------------------------------------------------
(* Properties                                                              *)

\* Types of job rows, ZIPs, media and the worker.
TypeOK ==
  /\ entitled \in BOOLEAN
  /\ status \in [Jobs -> Statuses] /\ requested \in [Jobs -> {{}} \cup Selections]
  /\ key \cup queue \cup zips \subseteq Jobs
  /\ created \in [Jobs -> {"new", "stale"}] /\ completed \in [Jobs -> {"none", "recent", "old"}]
  /\ content \in [Jobs -> SUBSET Media]
  /\ uploaded \cup originals \cup deletion \subseteq Media
  /\ worker.phase \in {"idle", "expire"} \cup Building
  /\ Cardinality(worker.job) = 1 \/ worker.phase \notin Building

\* An archive on offer can be downloaded, and holds media the host selected, and something:
\* whatever crashed, was built twice or was cleaned up.
OfferedServable ==
  \A j \in Jobs : Offered(j) =>
    /\ j \in zips /\ content[j] # {}
    /\ requested[j] # {} => content[j] \subseteq requested[j]

\* A job is marked expired only after its ZIP is gone from storage.
ExpiredGone == \A j \in Jobs : status[j] = "expired" => j \notin zips

\* An archive on offer stays so until its retention ends: no poll, late job or cleanup takes
\* it back or rebuilds it.
OfferLasts ==
  [][\A j \in Jobs : Offered(j) => Offered(j)' \/ completed'[j] = "old"]_vars

\* Every request comes to an end, though its job is lost in Redis or the worker dies on it:
\* the gallery's wait is answered.
ArchiveResolves ==
  \A j \in Jobs :
    status[j] \in {"queued", "processing"} ~> status[j] \notin {"queued", "processing"}
----------------------------------------------------------------------------
(* What the plan says and a crash between two steps refutes.               *)

\* "avoid unbounded object-storage growth" (docs/v0.5.0-plan.md): a job that failed or expired
\* leaves no ZIP behind, for no later pass would look for it.
NoZipLeft ==
  \A j \in Jobs :
    status[j] \in {"failed", "expired"} => j \notin zips
=============================================================================
