--------------------------- MODULE ArchivesProofs ---------------------------
(* Archives, for every set of jobs, media and selections: its types, OfferedServable, *)
(* ExpiredGone and OfferLasts, from one inductive invariant.                          *)
EXTENDS Archives, FiniteSetTheorems, TLAPS

\* What the ZIP of a job may hold.
May(j) == IF requested[j] = {} THEN Media ELSE requested[j]

WorkerInv ==
  worker \in [phase : {"idle", "expire"} \cup Building, job : SUBSET Jobs,
              todo : SUBSET (Jobs \cup Media), got : SUBSET Media]

\* The worker builds one job, whose row says so, out of what the job may hold; what it has
\* stored is what the row will offer.
BuildInv ==
  worker.phase \in Building =>
    \E j \in Jobs :
      /\ worker.job = {j} /\ status[j] = "processing"
      /\ worker.phase = "build" => worker.todo \cup worker.got \subseteq May(j)
      /\ worker.phase = "stored" => j \in zips /\ content[j] # {} /\ content[j] \subseteq May(j)

\* A cleanup pass goes on with jobs that stay expired, and has erased those it is done with.
ExpireInv ==
  worker.phase = "expire" =>
    /\ worker.todo \subseteq worker.job
    /\ \A j \in worker.job : Expired(j) /\ (j \notin worker.todo => j \notin zips)

\* The key and the status change together.
KeyInv == \A j \in Jobs : status[j] = "ready" <=> j \in key

IInv == TypeOK /\ WorkerInv /\ BuildInv /\ ExpireInv /\ KeyInv /\ OfferedServable /\ ExpiredGone

\* An offer that a step leaves alone, or that has ended.
Lasts == \A j \in Jobs : Offered(j) => Offered(j)' \/ completed'[j] = "old"

\* The worker has nothing in hand, nothing is offered.
LEMMA InitInv == Init => IInv
BY DEF Init, IInv, TypeOK, WorkerInv, BuildInv, ExpireInv, KeyInv, OfferedServable, ExpiredGone,
   Offered, At, Building, Statuses

\* An idle worker has the type of a worker.
LEMMA Idle == At("idle") \in [phase : {"idle", "expire"} \cup Building, job : SUBSET Jobs,
                              todo : SUBSET (Jobs \cup Media), got : SUBSET Media]
BY DEF At

\* One job is one.
LEMMA OneJob == ASSUME NEW j PROVE Cardinality({j}) = 1
BY FS_Singleton

\* A new job: its row is of nobody's concern yet.
LEMMA CreateKeeps ==
  ASSUME IInv, NEW j \in Jobs, NEW S \in Selections, create_archive_job(j, S)
  PROVE  IInv' /\ Lasts
<1> USE ArchiveAssumption DEF IInv, create_archive_job, storage, library
<1>1. TypeOK'
  BY DEF TypeOK, Statuses
<1>2. WorkerInv' /\ KeyInv' /\ ExpiredGone'
  BY DEF TypeOK, WorkerInv, KeyInv, ExpiredGone, Statuses
<1>3. BuildInv'
  BY DEF TypeOK, BuildInv, May
<1>4. ExpireInv'
  BY DEF TypeOK, WorkerInv, ExpireInv, Expired
<1>5. OfferedServable' /\ Lasts
  BY DEF TypeOK, OfferedServable, Lasts, Offered
<1> QED
  BY <1>1, <1>2, <1>3, <1>4, <1>5

\* Media and packages: the job rows, the ZIPs and the worker are left alone.
LEMMA LibraryKeeps ==
  ASSUME IInv, DeleteRows \/ SetPackage \/ \E S \in SUBSET Media : EraseOriginals(S)
  PROVE  IInv' /\ Lasts
<1> USE DEF IInv
<1>1. /\ UNCHANGED <<job, queue, storage, worker>>
      /\ entitled' \in BOOLEAN /\ uploaded' \cup originals' \cup deletion' \subseteq Media
  BY DEF TypeOK, DeleteRows, SetPackage, EraseOriginals, library
<1>2. TypeOK'
  BY <1>1 DEF TypeOK, job, storage
<1>3. WorkerInv' /\ KeyInv' /\ ExpiredGone'
  BY <1>1 DEF WorkerInv, KeyInv, ExpiredGone, job, storage
<1>4. BuildInv' /\ ExpireInv'
  BY <1>1 DEF BuildInv, ExpireInv, Expired, May, job, storage
<1>5. OfferedServable' /\ Lasts
  BY <1>1 DEF OfferedServable, Lasts, Offered, job, storage
<1> QED
  BY <1>2, <1>3, <1>4, <1>5

\* Time: an offer may end, and nothing else changes.
LEMMA TimeKeeps ==
  ASSUME IInv, NEW j \in Jobs, Retire(j) \/ Stale(j)
  PROVE  IInv' /\ Lasts
<1> USE DEF IInv
<1>1. /\ UNCHANGED <<entitled, status, requested, key, queue, storage, library, worker>>
      /\ completed' \in [Jobs -> {"none", "recent", "old"}] /\ created' \in [Jobs -> {"new", "stale"}]
      /\ \A i \in Jobs : completed'[i] = completed[i] \/ completed'[i] = "old"
  BY DEF TypeOK, Retire, Stale
<1>2. TypeOK'
  BY <1>1 DEF TypeOK, library, storage
<1>3. WorkerInv' /\ KeyInv' /\ ExpiredGone'
  BY <1>1 DEF WorkerInv, KeyInv, ExpiredGone, library, storage
<1>4. BuildInv'
  BY <1>1 DEF BuildInv, May, library, storage
<1>5. ExpireInv'
  BY <1>1 DEF WorkerInv, ExpireInv, Expired, library, storage
<1>6. OfferedServable' /\ Lasts
  BY <1>1 DEF OfferedServable, Lasts, Offered, library, storage
<1> QED
  BY <1>2, <1>3, <1>4, <1>5, <1>6

\* A job taken up: a ready one is left alone.
LEMMA BeginKeeps ==
  ASSUME IInv, NEW j \in Jobs, handle_job(j) \/ process_next_archive(j)
  PROVE  IInv' /\ Lasts
<1> USE ArchiveAssumption DEF IInv
<1>1. /\ worker.phase = "idle" /\ Begin(j)
      /\ UNCHANGED <<entitled, requested, key, created, completed, storage, library>>
      /\ queue' \subseteq Jobs
  BY DEF TypeOK, handle_job, process_next_archive
<1>2. CASE status[j] \in {"absent", "ready"}
  <2>1. UNCHANGED <<status, worker>>
    BY <1>1, <1>2 DEF Begin
  <2> QED
    BY <1>1, <2>1 DEF TypeOK, WorkerInv, KeyInv, ExpiredGone, BuildInv, ExpireInv, Expired, May,
      OfferedServable, Lasts, Offered, storage, library
<1>3. CASE status[j] \notin {"absent", "ready"}
  <2>1. /\ status' = [status EXCEPT ![j] = "processing"]
        /\ worker' = [phase |-> "build", job |-> {j}, todo |-> Wanted(j), got |-> {}]
    BY <1>1, <1>3 DEF Begin
  <2>2. Wanted(j) \subseteq May(j) /\ Wanted(j) \subseteq Media
    BY DEF TypeOK, Wanted, May
  <2>3. TypeOK'
    BY <1>1, <2>1, OneJob DEF TypeOK, Statuses, Building, storage, library
  <2>4. WorkerInv'
    BY <2>1, <2>2 DEF Building, WorkerInv
  <2>5. KeyInv' /\ ExpiredGone'
    BY <1>1, <1>3, <2>1 DEF TypeOK, KeyInv, ExpiredGone, storage
  <2>6. BuildInv'
    BY <1>1, <2>1, <2>2 DEF TypeOK, BuildInv, May
  <2>7. ExpireInv'
    BY <2>1 DEF ExpireInv
  <2>8. OfferedServable' /\ Lasts
    BY <1>1, <1>3, <2>1 DEF TypeOK, OfferedServable, Lasts, Offered, storage
  <2> QED
    BY <2>3, <2>4, <2>5, <2>6, <2>7, <2>8
<1> QED
  BY <1>2, <1>3

\* An original is added to the ZIP in hand.
LEMMA AddKeeps ==
  ASSUME IInv, NEW m \in Media, Add(m)
  PROVE  IInv' /\ Lasts
<1> USE DEF IInv, Add, job, storage, library
<1>1. worker' \in [phase : {"build"}, job : {worker.job}, todo : SUBSET worker.todo, got : {worker.got \cup {m}}]
  BY DEF WorkerInv
<1>2. TypeOK'
  BY <1>1 DEF TypeOK, Building
<1>3. WorkerInv' /\ KeyInv' /\ ExpiredGone'
  BY DEF WorkerInv, KeyInv, ExpiredGone, Building
<1>4. BuildInv'
  BY <1>1 DEF BuildInv, May, Building
<1>5. ExpireInv'
  BY <1>1 DEF ExpireInv
<1>6. OfferedServable' /\ Lasts
  BY DEF OfferedServable, Lasts, Offered
<1> QED
  BY <1>2, <1>3, <1>4, <1>5, <1>6

\* The ZIP of a job that is being built is stored: it is offered to nobody yet.
LEMMA UploadKeeps ==
  ASSUME IInv, NEW j \in Jobs, upload_object(j)
  PROVE  IInv' /\ Lasts
<1> USE DEF IInv, upload_object, job, library
<1>1. worker' = [worker EXCEPT !.phase = "stored"] /\ worker'.phase = "stored" /\ worker'.job = worker.job
  BY DEF WorkerInv
<1>2. worker.job = {j} /\ status[j] = "processing" /\ worker.got \subseteq May(j)
  BY DEF BuildInv, Building
<1>3. content' = [content EXCEPT ![j] = worker.got] /\ worker.got \subseteq Media /\ worker.got # {}
  BY DEF WorkerInv
<1>4. TypeOK'
  BY <1>1, <1>3 DEF TypeOK, Building
<1>5. WorkerInv'
  BY <1>1 DEF WorkerInv, Building
<1>6. KeyInv' /\ ExpiredGone'
  BY <1>2 DEF KeyInv, ExpiredGone
<1>7. BuildInv'
  BY <1>1, <1>2, <1>3 DEF TypeOK, BuildInv, May
<1>8. ExpireInv'
  BY <1>1 DEF ExpireInv
<1>9. OfferedServable' /\ Lasts
  BY <1>2, <1>3 DEF TypeOK, OfferedServable, Lasts, Offered
<1> QED
  BY <1>4, <1>5, <1>6, <1>7, <1>8, <1>9

\* The job whose ZIP is stored becomes the offer.
LEMMA FinishKeeps ==
  ASSUME IInv, NEW j \in Jobs, Finish(j)
  PROVE  IInv' /\ Lasts
<1> USE DEF IInv, Finish, storage, library
<1>1. /\ worker.job = {j} /\ status[j] = "processing"
      /\ j \in zips /\ content[j] # {} /\ content[j] \subseteq May(j)
  BY DEF BuildInv, Building
<1>2. worker' = At("idle") /\ worker'.phase = "idle"
  BY DEF At
<1>3. TypeOK'
  BY <1>2 DEF TypeOK, Statuses, Building
<1>4. WorkerInv' /\ BuildInv' /\ ExpireInv'
  BY <1>2, Idle DEF WorkerInv, BuildInv, ExpireInv, Building
<1>5. KeyInv' /\ ExpiredGone'
  BY <1>1 DEF TypeOK, KeyInv, ExpiredGone
<1>6. OfferedServable' /\ Lasts
  BY <1>1 DEF TypeOK, OfferedServable, Lasts, Offered, May
<1> QED
  BY <1>3, <1>4, <1>5, <1>6

\* A build that fails: its row was processing, and is offered to nobody.
LEMMA FailKeeps ==
  ASSUME IInv, NEW j \in Jobs, Fail(j)
  PROVE  IInv' /\ Lasts
<1> USE DEF IInv, Fail, storage, library
<1>1. worker.job = {j} /\ status[j] = "processing"
  BY DEF BuildInv
<1>2. worker' = At("idle") /\ worker'.phase = "idle"
  BY DEF At
<1>3. TypeOK'
  BY <1>2 DEF TypeOK, Statuses, Building
<1>4. WorkerInv' /\ BuildInv' /\ ExpireInv'
  BY <1>2, Idle DEF WorkerInv, BuildInv, ExpireInv, Building
<1>5. KeyInv' /\ ExpiredGone'
  BY <1>1 DEF TypeOK, KeyInv, ExpiredGone
<1>6. OfferedServable' /\ Lasts
  BY <1>1 DEF TypeOK, OfferedServable, Lasts, Offered
<1> QED
  BY <1>3, <1>4, <1>5, <1>6

\* The pass begins with the expired jobs.
LEMMA CleanupKeeps ==
  ASSUME IInv, cleanup_expired_archives
  PROVE  IInv' /\ Lasts
<1> DEFINE E == {j \in Jobs : Expired(j)}
<1>1. /\ worker' = [phase |-> "expire", job |-> E, todo |-> E, got |-> {}]
      /\ UNCHANGED <<entitled, job, queue, storage, library>>
  BY DEF cleanup_expired_archives, At
<1>2. E \subseteq Jobs /\ \A j \in E : Expired(j)
  OBVIOUS
<1> HIDE DEF E
<1> USE DEF IInv, job, storage, library
<1>3. TypeOK'
  BY <1>1 DEF TypeOK, Building
<1>4. WorkerInv' /\ KeyInv' /\ ExpiredGone'
  BY <1>1, <1>2 DEF WorkerInv, KeyInv, ExpiredGone
<1>5. BuildInv' /\ ExpireInv'
  BY <1>1, <1>2 DEF BuildInv, ExpireInv, Expired, Building
<1>6. OfferedServable' /\ Lasts
  BY <1>1 DEF OfferedServable, Lasts, Offered
<1> QED
  BY <1>3, <1>4, <1>5, <1>6

\* A ZIP is deleted whose offer has ended.
LEMMA DeleteKeeps ==
  ASSUME IInv, NEW j \in Jobs, delete_objects(j)
  PROVE  IInv' /\ Lasts
<1> USE DEF IInv, delete_objects, job, library
<1>1. worker'.phase = "expire" /\ worker'.job = worker.job /\ worker'.todo = worker.todo \ {j}
  BY DEF WorkerInv
<1>2. Expired(j)
  BY DEF ExpireInv
<1>3. TypeOK'
  BY <1>1 DEF TypeOK, Building
<1>4. WorkerInv' /\ KeyInv' /\ ExpiredGone'
  BY <1>1 DEF WorkerInv, KeyInv, ExpiredGone
<1>5. BuildInv' /\ ExpireInv'
  BY <1>1 DEF BuildInv, ExpireInv, Expired, Building
<1>6. OfferedServable' /\ Lasts
  BY <1>2 DEF OfferedServable, Lasts, Offered, Expired
<1> QED
  BY <1>3, <1>4, <1>5, <1>6

\* The commit of a pass that has deleted all its ZIPs.
LEMMA CleanupCommitKeeps ==
  ASSUME IInv, CleanupCommit
  PROVE  IInv' /\ Lasts
<1> USE DEF IInv, CleanupCommit, storage, library
<1>1. \A j \in worker.job : Expired(j) /\ j \notin zips
  BY DEF ExpireInv
<1>2. worker' = At("idle") /\ worker'.phase = "idle"
  BY DEF At
<1>3. TypeOK'
  BY <1>2 DEF TypeOK, Statuses, Building
<1>4. WorkerInv' /\ BuildInv' /\ ExpireInv'
  BY <1>2, Idle DEF WorkerInv, BuildInv, ExpireInv, Building
<1>5. KeyInv' /\ ExpiredGone'
  BY <1>1 DEF TypeOK, KeyInv, ExpiredGone, Stranded
<1>6. OfferedServable' /\ Lasts
  BY <1>1 DEF TypeOK, OfferedServable, Lasts, Offered, Expired, Stranded
<1> QED
  BY <1>3, <1>4, <1>5, <1>6

\* A pass given up, or the death of the worker: the rows are as they were.
LEMMA LetGoKeeps ==
  ASSUME IInv, CleanupError \/ Crash
  PROVE  IInv' /\ Lasts
<1> USE DEF IInv, CleanupError, Crash, job, storage, library
<1>1. worker' = At("idle") /\ worker'.phase = "idle"
  BY DEF At
<1>2. TypeOK'
  BY <1>1 DEF TypeOK, Building
<1>3. WorkerInv' /\ BuildInv' /\ ExpireInv'
  BY <1>1, Idle DEF WorkerInv, BuildInv, ExpireInv, Building
<1>4. KeyInv' /\ ExpiredGone' /\ OfferedServable' /\ Lasts
  BY DEF KeyInv, ExpiredGone, OfferedServable, Lasts, Offered
<1> QED
  BY <1>2, <1>3, <1>4

\* Nothing happens.
LEMMA StutterKeeps ==
  ASSUME IInv, UNCHANGED vars
  PROVE  IInv' /\ Lasts
BY DEF IInv, vars, job, storage, library, TypeOK, WorkerInv, BuildInv, ExpireInv, KeyInv,
  OfferedServable, ExpiredGone, Expired, May, Lasts, Offered

\* Every step keeps the invariant, and the offers.
LEMMA StepKeeps ==
  ASSUME IInv, [Next]_vars
  PROVE  IInv' /\ Lasts
<1>1. CASE WebStep
  BY <1>1, CreateKeeps, LibraryKeeps, TimeKeeps DEF WebStep
<1>2. CASE WorkerStep
  BY <1>2, BeginKeeps, AddKeeps, UploadKeeps, FinishKeeps, FailKeeps, CleanupKeeps, DeleteKeeps,
    CleanupCommitKeeps, LetGoKeeps DEF WorkerStep
<1>3. CASE UNCHANGED vars
  BY <1>3, StutterKeeps
<1> QED
  BY <1>1, <1>2, <1>3 DEF Next

\* The inductive invariant of Archives: app/services/archive.py and its worker.
THEOREM Invariance == Spec => []IInv
BY InitInv, StepKeeps, PTL DEF Spec

\* Rows, ZIPs and worker keep their types, for any number of jobs and media.
THEOREM TypeCorrect == Spec => []TypeOK
<1>1. IInv => TypeOK
  BY DEF IInv
<1> QED
  BY <1>1, Invariance, PTL

\* An archive on offer is in storage and holds media of its selection (archive_download).
THEOREM OffersServable == Spec => []OfferedServable
<1>1. IInv => OfferedServable
  BY DEF IInv
<1> QED
  BY <1>1, Invariance, PTL

\* The ZIP of an expired job is gone (cleanup_expired_archives).
THEOREM ExpiredAreGone == Spec => []ExpiredGone
<1>1. IInv => ExpiredGone
  BY DEF IInv
<1> QED
  BY <1>1, Invariance, PTL

\* No step takes an offer back before its time (build_archive, cleanup_expired_archives).
THEOREM OffersLast == Spec => OfferLasts
<1>1. IInv /\ [Next]_vars => Lasts
  BY StepKeeps
<1>2. Lasts => [\A j \in Jobs : Offered(j) => Offered(j)' \/ completed'[j] = "old"]_vars
  BY DEF Lasts
<1> QED
  BY <1>1, <1>2, Invariance, PTL DEF Spec, OfferLasts
=============================================================================
