# Formal models of Memories Events (markmonica)

TLA+ models of the parts of this repository whose correctness depends on the order in which
things happen: paying for a package, guest uploads, media processing, archive downloads, accounts
and their sessions, covers and branding files, the worker's loop and the row locks under them.
The models are checked with TLC on small instances. Every safety property that a passing run
checks is also proved with TLAPS for every value of the constants, and so is that the orders, the
uploads and the media processing implement an abstract order book, upload ledger and gallery.

All paths below are relative to the root of the repository.

## 1. The system

Memories Events is one FastAPI process (`app/`, served by uvicorn), one worker process
(`worker/main.py`), a PostgreSQL database, a Redis list used as a job queue and an S3-compatible
object store. A host creates an event, orders a package for it and pays at PayFast; guests
open the event's page and upload photos and videos straight to the object store through
presigned URLs; the worker derives previews and builds ZIP archives; admins look after users,
events, packages and orders.

The components share state through the database and the object store, which have no common
transaction. Three conventions of the code shape every model:

- A request handler runs in one SQLAlchemy session, closed by `get_db` (`app/db.py:17-22`) with
  or without a commit. `autoflush=False` and `expire_on_commit=False`: writes reach the database
  at `commit()`, only changed columns are written, and objects read earlier stay as they were
  read, except where `populate_existing` is given. The isolation level is READ COMMITTED.
- `lock_commercial_event` (`app/services/package_orders.py:8-13`) is the row lock under which
  the commercial handlers of an event are meant to run one at a time. Not all of them take it.
- Redis is a hint. A job that cannot be queued is forgotten (`app/main.py:90-92`); the worker
  polls the database for what is pending.

### 1.1 Components

| Component | Code | State | Operations | Talks to | What is hard |
|---|---|---|---|---|---|
| Commercial orders and entitlements | `app/main.py:176-380`, `app/admin.py:248-492`, `app/services/package_orders.py`, `payments.py` | `package_orders`, `events.status`, `events.package_code`, `package_configs`, `payment_provider_configs`, `admin_activity` | create event, request package, checkout, cancel, PayFast notice, approve, cancel, fail, activate reviewed payment, assign package, edit package, edit provider settings, change event status | PayFast (forms out, notices in), row locks | notices repeated, late and reordered; two requests on one event; values read before a lock; two rows that change together |
| Guest uploads, quota, stale cleanup | `app/main.py:436-449, 488-501`, `app/services/package_enforcement.py`, `upload_cleanup.py`, `static/upload.js` | `media.status`, sizes, originals in the object store, the browser's progress | initiate, PUT, confirm, delete, cleanup pass | object store, advisory lock, worker | database against object store; PUTs that outlive their URL; a cleanup pass that looks first and commits last |
| Media processing | `app/services/media_processing.py`, `worker/main.py` | `media.processing_status`, derivative keys, derivative objects, Redis jobs | queued and polled processing, failure, requeue at the worker's start, deletion | object store, Redis, web | the same job twice, crashes anywhere, failing uploads, deletion meanwhile |
| Archive downloads | `app/services/archive.py`, `app/main.py:502-528` | `archive_jobs`, ZIP objects | create, build, offer, expire, fail stranded jobs | object store, Redis, web | crash between object and row, builds from two sources, media deleted during a build |
| Request execution and row locks | `app/db.py`, `app/main.py:285-360`, `Dockerfile` | threads, event loop, row lock, open sessions | dispatch, lock, commit, refuse, close, health call | every handler above | a coroutine that blocks the event loop which other sessions need in order to close |
| Worker main loop | `worker/main.py:21-120` | timers, signal flag | start, pop a job, poll media and archives, run cleanups, stop | all services | one thread for the list and four timers; signals, exceptions and restarts at any point |
| Package catalogue | `app/services/packages.py`, `app/admin.py:295-349` | `package_configs` | read with fallbacks, edit | orders, quota | concurrent edits |
| Object storage access | `app/services/storage.py` | none | presign, head, get, put, delete in batches | S3 | partial failure of a batch |
| Event covers, branding | `app/main.py:386-427`, `static/event-editor.js`, `app/branding.py`, `app/admin.py:85-108, 520-563` | `cover_object_key`, the branding row, their objects | presign, PUT, confirm, replace, remove, save the form | object store, event loop | two requests that read the same old key; failures between object and row |
| Guest gallery visibility | `app/main.py:428-487` | none of its own | list, preview, play, download | media, packages | features that depend on a package that changes |
| Accounts and sessions | `app/main.py:143-170`, `app/security.py`, `app/admin.py:33-42, 164-203` | `users`, `user_sessions` | register, log in and out, suspend, reset a password | every page | a slow hash between reading a row and writing it, with no lock |
| Upload rate limiter | `app/main.py:79-89` | Redis counters | count, expire | initiate | the two Redis calls are not atomic |
| Admin audit | `app/admin_audit_middleware.py`, `app/admin_activity.py` | `admin_activity` | one insert after a request | admin pages | judges by the answer's status and reads the rows again |
| Signatures, credential vault | `payments.py`, `credential_vault.py` | none | sign, verify, encrypt | PayFast | text encodings, cryptography |
| Admin pages, templates, scripts, migrations | the rest of `app/`, `templates/`, `static/`, `migrations/` | – | render, migrate | – | – |

### 1.2 What makes each correct

- Orders: an event has one payable order; a form at PayFast keeps matching its order; a payment
  that PayFast was told is received is approved or under review; an order is approved exactly
  when its event gets the package; each outcome has a reason on record; payments settle.
- Uploads: reservations stay within the package; what a guest was told is uploaded stays; rows
  never claim an original that is not there; no original loses its row; reservations resolve.
- Processing: a ready row has its copies; ready stays ready; no media is left forgotten.
- Pages: what the host's and the guests' pages link to is in storage.
- Accounts: whoever holds a session knows the account's present password; an administrator is
  left.
- Covers and branding: a key that a row names is in storage, and a replaced object is deleted.
- Worker: no flood of jobs starves a poll or a cleanup; a signal is obeyed soon.
- Archives: what is offered can be downloaded and lasts for its retention; what is expired is
  gone; every request ends.
- Locks: every request ends, and the process keeps answering.

## 2. Modules

| Module | Contents |
|---|---|
| `OrderBook` | Abstract specification: what the order handlers promise, with no sessions, locks or messages |
| `PackageOrders` | The commercial handlers, PayFast, the sessions; the properties |
| `PackageOrdersInv` | The inductive invariant |
| `PackageOrdersProofs` | Proof of the invariant, of the safety properties and that `PackageOrders` implements `OrderBook` |
| `UploadLedger` | Abstract specification: what the uploads of an event promise, with no sessions, pages, clocks or cleanup passes |
| `GuestUploads`, `GuestUploadsProofs` | Reservation, PUT, confirmation, deletion and cleanup over database and object store; its proofs |
| `MediaGallery` | Abstract specification: what the gallery promises of its media, with no jobs, crashes or sessions |
| `MediaProcessing`, `MediaProcessingProofs` | The worker's processing of media, with Redis, crashes, legacy rows, confirmations and deletions; its proofs |
| `Archives`, `ArchivesProofs` | Archive jobs from request to expiry, with crashes and deletions; its proofs |
| `Accounts`, `AccountsProofs` | Registration, login, sessions, suspension, password reset, audit; their proofs |
| `Assets`, `AssetsProofs` | Cover, logo and favicon against the object store; their proofs |
| `WorkerLoop`, `WorkerLoopProofs` | The worker's start, loop, timers, signals and restarts; their proofs |
| `RequestLocks`, `RequestLocksProofs` | Threads, event loop and row lock of the web process; their proofs |
| `MC*` | Instances for TLC: catalogues, files, packages, symmetry |

Definitions marked `Variant` are small deviations from the code (a lock forgotten, a cutoff
dropped). No specification uses them; putting one in the place of the definition it follows
shows that the properties notice.

### 2.1 PackageOrders

A handler is two steps. The first takes the row lock if the code takes it, reads, validates and
leaves its pending writes in `tx[r]`, a record of partial functions from row to new value.
`Commit(r)` flushes them and releases the lock. `Abort(r)` is a session that closes without a
commit: an exception, a lost connection, a killed process. A handler that answers under the lock
without a commit, be it an error or the redirect of `package_request` to the package the event
already has (`app/main.py:212`), is `Leave`: it writes nothing, but its session keeps the lock until
`Close`, the exit of `get_db`, which takes a turn of the event loop (`LoopFree`). An answer before
the lock is a stutter. Everything else runs between the two
steps, which is where READ COMMITTED and a missing lock show: `update_event`, `event_status` and
`update_package` take no lock and write on what they read earlier. `Merge` keeps the columns a
form did not change, as the ORM does.

`payfast_notify` is three steps: `NotifyReceive` covers the checks before the lock, including
the call to PayFast, which may take seconds; `NotifyLock` or `NotifyRefuse` runs under the lock;
then `Commit`, or `Close` after a refusal. It runs on the event loop and holds it, `LoopFree`, from
the server confirmation on. Several notices may be confirmed at once in the model, where the loop
takes them one after the other, a superset. A notice that waits for the lock of a session that has
left is `Standstill`, the hang of `RequestLocks`. `Fail` acts on FAILED and CANCELLED; any other
outcome is acknowledged and changes nothing. PayFast itself is `forms` (it settles a form it was sent, `Settle`) and `notices`,
a set that is never emptied: any notice may be delivered again, late, and in any order. A
signature that does not verify never gets past `NotifyReceive` and is not modelled. The payments
considered are those of forms this application issued.

`acked` and `launchedBy` are history. `Users` distinguishes the host from an admin on the host's
pages, because an order keeps the user that created it (`Payable`).

### 2.2 GuestUploads

One event, since the advisory lock and the quota are per event. Enforcement and the insert of the
row run under the lock; the event and its package are read before it (`initiate_upload`). A
session PUTs once and storage checks the URL when the PUT starts. `age` is `"fresh"`, or `"stale"`
past the cleanup's cutoff, which is later than the expiry of the URL, so that no PUT starts then. A
closed event refuses every call and changes nothing else, so it needs no variable: a reservation
refused is a stutter and a confirmation refused is one reason of `Leave`. The content of
an object either matches the row or not. A browser that leaves may do so at any time. `SlowPuts` names the
media whose PUT may still be running at the cleanup's cutoff, two hours after the reservation;
the properties about what a guest was told are claimed of the others. The
cleanup takes its list, inspects each object, and commits once; an UPDATE of a row deleted
meanwhile raises and rolls back the whole pass, a DELETE does not. `delete_media` erases objects
before rows, of whatever status (`app/main.py:494` selects by event and id only); a batch may be
erased in part before the storage reports an error. `hasty` is history: the rows whose PUT was not
over when the host asked. Their original may come after the erasure and then has no row, which is
why `NoOrphans` exempts them and `GuestUploadsHasty.cfg` shows one.

`UploadLedger` (`ImplementsLedger`) is what this amounts to when sessions, pages and passes are
left out: a row is reserved within the quota of a package the event has had, its file arrives at
most once, one commit settles rows by what is in storage for them, and what a host asks to delete,
at any status, is erased and then removed, in that order. It maps to the variables of the same
names. `Late` is `SlowPuts`: of such a media, and of a `hasty` one, the ledger lets the file arrive
for a row given up, and a row go whose file came during the pass or the deletion; for the others
neither is allowed.

### 2.3 MediaProcessing

A media's PUT ends some time (`Put`), whatever became of its row. The worker is a program counter:
`"down"`, two start-up steps (`requeue_interrupted_processing`,
`requeue_legacy_derivatives`), `"idle"`, and the phases of `process_media`. `queue` counts the
Redis jobs of each media, since a job may be there twice. Legacy rows share one derivative
object, as before version 0.10.1. `confirm_upload` writes `processing_status="pending"`, which
is no change, hence not written, if that is what was read. `stranded` holds rows whose failure
could not be committed, until a start or a job takes them up again. At its start and between jobs
the worker also runs `cleanup_stale_uploads`: `pass` holds the rows it took, any that are pending,
since ages are left to `GuestUploads`, then those it found and those it did not; `CleanupCommit`
lets in the former, without a job, and deletes the latter, though they were confirmed since.
`delete_media` takes rows of any status. `missed` is history: the rows that a deletion or a pass
took up before their original came. Objects that do not match their row are in `GuestUploads` only. There is one worker, as in `compose.yaml:20-25`. The routes of the pages
(`host_media_*`, `guest_media_*`) are operators that give the objects a row's page leads to;
`GalleryServable` is about them. `DeleteSibling` is the deletion of an old row outside `Media`,
which erases the preview that the rows of before version 0.10.1 share.

`MediaGallery` (`ImplementsGallery`) is what the host sees of it: `Stage` maps the two status
columns to one, in which pending and interrupted processing are the same `"waiting"`. A media is
shown in the very step that finds all its copies in storage, is taken back only to replace a shared
preview, loses no object unasked, and leaves after its original, or because it was given up before
its original came (`Miss`, `Ask`, `MayGo`): by the cleanup only while it is not shown yet, by the
host at any time. Copies may be left behind, as
`MediaProcessingCopies.cfg` shows, and the gallery does not promise otherwise.

### 2.4 Archives

Jobs are built from Redis or from the poll. Times are classes: a job is new or stale, a
completion recent or old. The storing of the ZIP and the commit of its key are two steps, with a
crash possible between. `cleanup_expired_archives` takes its rows, deletes their objects and
commits, together with the failing of stranded jobs. Its two queries are limited to 100 rows;
the model takes the whole. `Selections` are the choices of media a host makes.

### 2.5 Accounts

A request is at one point of its handler, `op`, with what it has read. `login` reads the account
and checks the password; `new_session` is its commit, a PBKDF2 computation later. `user_password`
checks the administrator, `ReadSessions` lists the sessions of the target, after the hash, and
`CommitPassword` writes the password and deletes those sessions. `user_status` and `CommitStatus`
are the suspension. `admin_audit` runs after any answer below 400, also after the redirect of a
refused form. `Close` is the end of a request anywhere, with what is uncommitted lost.
Passwords are model values and a hash is the password it was made from. Tokens are random and
are never drawn twice. `madeWith` is history: the password with which a session was made, or, for
the session an administrator keeps when he changes his own password, the new one. `raced` marks
the logins that overlap a reset, `overtaken` that a suspension was committed by an administrator
who had been suspended since his check.

### 2.6 Assets

`row` holds the keys of the three columns, `page` how far the browser has come with each key. A
handler reads the row, writes it and deletes the old object in separate steps. The cover's page
confirms a key after its PUT has ended (`static/event-editor.js:36-37`); the server takes any stored
cover, whenever and however often it is asked, so `confirm_cover` asks for no more. Of the key that
was read, `CommitCover` writes and deletes nothing (`app/main.py:403`). `again` marks the covers that
were confirmed once more while the column held another: such a cover may be the one that the
request which replaced it is about to delete, and `RowServable` does not cover it
(`AssetsReconfirmed.cfg`). The branding form
is a coroutine that can be overtaken only where it awaits a file, `LoopFree`. `Close` is a refusal,
an exception or the death of the process. `spoiled` marks the keys that were replaced by a request
that had not read them or whose deletion failed; `torn` marks covers whose removal failed after
the object was gone.

### 2.7 WorkerLoop

The process is a program counter over `Startup`, the loop's head, `blpop`, a job and `Checks`. A
job or a turn of a cleanup is one step; a turn of a poll takes items up to `Batch`, three media or
two archives. `Tick(d)` lets the time of a duty come. `Die` is a kill or an uncaught exception: at
startup, or an error of Redis other than a lost connection. `waits` and `last` count jobs taken
since a duty was due and since the signal. `MediaProcessing`, `Archives` and `GuestUploads`
model what the jobs do; their fairness assumptions on polls and cleanups are what `DutiesDone`
shows of the loop.

### 2.8 RequestLocks

A handler declared with `def` runs in a thread; `payfast_notify` is `async def`, so that its
blocking calls block the event loop. `Commit` releases the lock. A handler that answers under the
lock without a commit has `Leave`: after an `HTTPException`, and after the redirect of
`package_request` when the event has the package already (`app/main.py:212`), the session, and so
the lock, stays until `get_db` runs on, which needs a turn of the event loop. Every handler that
locks may do so. `Ping` is the container's health check (`Dockerfile:31-32`). `Standstill` is the
one bad meeting: a coroutine that waits on the event loop for the lock of a request that has left.
`StandstillStays` says that nothing ends it, `RequestsEnd` that nothing else keeps a request from
its end.

## 3. Checks

Run `tlc -config <run>.cfg <MC module>` and `tlapm <module>` in `tla/`.

### 3.1 Runs that pass

| Run | Instance | Shows |
|---|---|---|
| `PackageOrdersSafety` | 1 event, 2 orders, 2 requests, 3 tiers, COMPLETE and FAILED | types, one open order, forms match, acknowledged payments settled, outcomes explained, refinement of `OrderBook` |
| `PackageOrdersSettles` | 1 order, 2 requests, 2 tiers, launches, two edits among withdrawing the package, giving it away and the provider settings, host and admin; fairness | the go-live gate; the inductive invariant `IInv`; every completed payment settles, unless the process stands still or the notice is turned away for ever |
| `GuestUploadsSafety` | 2 media, 2 requests, 2 packages | the quota, verified originals, confirmed uploads kept, no orphans, refinement of `UploadLedger` |
| `GuestUploadsResolve` | 2 media, videos, one PUT that may outlive the cutoff, 1 request; fairness | reservations resolve |
| `MediaProcessing` | a new video and a legacy image, a queued job and an open confirmation each; fairness | what the pages link to is in storage, ready stays, none forgotten, refinement of `MediaGallery`, media ends ready, failed or deleted |
| `Archives` | 2 jobs, 2 media of which one is selected; fairness | offers servable and lasting, expired ones gone, every job ends |
| `Accounts` | 2 administrators, 1 host, 2 passwords, 2 tokens, 2 requests | sessions belong to the present password, an administrator is left |
| `Assets` | 2 covers, 2 logos, 1 favicon, 2 requests | what rows name is stored, what was replaced is deleted |
| `WorkerLoop` | the four duties with the batches of the code; fairness | a duty waits for one job, a signal for one job, every duty is done again and again |
| `RequestLocks` | a handler and 2 notices, any of which may leave without a commit; fairness | requests end but for the standstill, the standstill stays, the lock is exclusive |

`Accounts` and `Assets` turn the deadlock check off: tokens and keys are never used twice, so the
small instances run out of them, and an `Accounts` in which everybody is suspended stops. In the
other runs some step is always possible.

### 3.2 Runs that refute what the repository says

Each is a behaviour of the model against a sentence of the repository.

| Run | Sentence | What happens |
|---|---|---|
| `GuestUploadsLate` | "upload sessions that never reached /confirm" (`app/services/upload_cleanup.py:22`) | a row confirmed during the pass is deleted by it |
| `RequestLocksStuck` | `/health` answers 200 (`tests/test_app.py:12`, `README.md:47`) | the notice waits on the event loop for a lock whose holder needs the event loop |

More configurations show disagreements of the same kind, or what the code does not promise. They
are kept for whoever changes that code and are not part of the regular runs:

| Configuration | Sentence | What happens |
|---|---|---|
| `PackageOrdersLaunchRace` | "This event cannot go live until its package payment is resolved." (`app/main.py:376`) | an order is placed between the gate and the commit |
| `PackageOrdersAuthority` | "Verified successful notifications remain authoritative." (`docs/commercial-order-hardening.md:5-6`) | the package is withdrawn while the payment is awaited; every notice is answered 409 |
| `MediaProcessingCopies` | "removes the original and all generated copies" (`static/gallery.js:16`) | copies stored after the deletion read the row's keys |
| `AccountsReset` | no session made before a reset is left (`tests/test_admin_password.py:34`) | a login that was hashing during the reset commits its session after it |
| `AccountsAudit` | "Account password was changed by an administrator." (`app/admin_audit_middleware.py:38`) | a form refused with a redirect is logged as a change |
| `AccountsLockout` | "You cannot disable your own administrator account." (`app/admin.py:172`) | two administrators disable each other |
| `GuestUploadsHasty` | "Could not delete all selected files from storage." (`app/main.py:499`) is the only other answer | the host deletes a row whose PUT runs; the original comes later and no row names it |
| `AssetsReconfirmed` | – | a cover is confirmed again while the request that replaced it has not deleted it yet, and then is deleted |
| `AssetsRemoval` | – | a removal clears the cover that was confirmed since it read the row |
| `AssetsAbandoned` | – | objects of pages, requests and forms that ended early stay in storage |
| `PackageOrdersDowngrade` | "Hosts can only upgrade to a higher package." (`app/main.py:215`) | a host pays a pending order after an admin assigned a higher package |
| `PackageOrdersWithdrawn` | "A package with assigned events cannot be disabled." (`app/admin.py:347`) | the count and the grant cross |
| `PackageOrdersRanks` | "Package ranks must be unique." (`app/admin.py:323`) | two forms saved at once |
| `GuestUploadsSlow` | "the abandoned database row is removed" (`README.md:75`) | the upload is not abandoned, only slow |
| `ArchivesGrowth` | "avoid unbounded object-storage growth" (`docs/v0.5.0-plan.md:24`) | a crash between the ZIP and its row |

`RequestLocks` and `RequestLocksStuck` ask different things of the same behaviours: the one, what
holds of the requests outside the standstill and that there is no way out of it; the other, whether
the process always answers. `GuestUploadsSafety` and `GuestUploadsLate` divide at `SlowPuts`.

### 3.3 Bounds, and why they are enough

- Two requests: every interaction in the code is between a session that holds or skips a lock
  and one other; a third waits or repeats. In `RequestLocks` there are three.
- One event: locks, quotas and orders never relate two events. The proofs hold for any number.
- Two orders: one to be closed, approved or under review, and one more; three tiers where ranks
  matter, two otherwise.
- `MaxEdits` bounds the edits of catalogue and settings, 1 or 2: an edit between two steps of a
  handler is the case of interest, and for `PaymentSettles` one that is undone later.
- Two media, and packages where the quota bites by count in the one and by bytes, for two
  videos, in the other, so that the second reservation is the one to be refused. The safety run
  has both packages and photos and no slow PUT; the liveness run has videos and a slow PUT, and the
  configurations of slow and hasty media have one row.
- In `Archives` both jobs are for one selected medium of two, since jobs for everything as well
  are too many states; `ArchivesGrowth` takes both kinds.
- `MaxJobs` bounds the queued jobs and the open confirmations of a media, 1 of each: a duplicate is
  the job in the queue while the poll is at the media or done with it, or the job of a confirmation
  that comes after both. Everything but `MediaResolves` was checked with 2 as well, where Redis
  itself holds the media twice (too long with liveness), and the proofs hold for any number.
- `Accounts`: two administrators, who can suspend each other, and one user who registers; two
  tokens, so that an administrator has his own and another session; two passwords, old and new.
- `Assets`: two covers, each of which may be confirmed any number of times, so that two requests
  replace the same one and each other's.
- `Patience` is 2, one above what the properties allow.
- Symmetry is used only in runs without liveness.

### 3.4 Fairness, and why the code justifies it

- `PackageOrders`: a session that can commit does, or aborts (handlers have no unbounded waits of
  their own besides the lock); one that has left is closed if the event loop is free, and the loop is
  not assumed to become free: a notice that waits on it for the lock of a session that has left is
  stuck, and `PaymentSettles` says so. PostgreSQL grants a lock that keeps becoming free; PayFast
  repeats a notice until it is
  answered 200; from some point on a session carrying an unacknowledged payment is not killed.
  Hosts and admins are under no fairness. A passing withdrawal of the package or change of the
  account does not excuse the settlement: only one that recurs or lasts for ever does.
- `GuestUploads`: time passes, a PUT ends, the worker runs its timer (`worker/main.py:99-120`),
  and from some point on it survives its passes; an object is inspected if asked often enough.
- `WorkerLoop`: the container is restarted, every job and duty ends (ffmpeg has a time-out, the
  storage and the database answer), time passes, and from some point on nothing kills the process.
- `MediaProcessing`, `Archives`: the worker is restarted (`restart: unless-stopped`, `compose.yaml:24`), polls, and
  at last does not die during its work, or its cleanup. A ready handler may be passed over for
  others a while, hence strong fairness for polls.
- `RequestLocks`: threads run, PayFast's confirmation answers or times out (10 s), waiting
  sessions get the lock, and the event loop serves every ready task. Browsers and PayFast need
  not call. The fairness is the one under which the failing run is a real standstill.

## 4. Proofs

`PackageOrdersProofs` proves, for all values of the constants under `ConstantsAssumption`:

- `InvariantHolds`: `Spec => []IInv`
- `TypeCorrect`, `OneOpenOrderHolds`, `FormMatchesOrderHolds`, `AckedSettledHolds`,
  `OutcomeExplainedHolds`, `LaunchGateHolds`: the safety properties of `PackageOrders`.

- `Implements`: `Spec => ImplementsOrderBook`.

None of the properties is inductive. What `Commit` does was decided in an earlier step, so the
invariant must know what pending writes can be. `IInv` adds to the properties:

- `Isolated`: two sessions never hold the lock of one event nor write one order;
- `LegalSession(tx[r])`: the pending writes of each open session are legal moves on the rows *as
  they are now*, the one fact that carries the argument. It stays true because a session whose
  writes concern an event's orders holds that event's lock, so no other commit changes them;
- `RowsOK`: an order belongs to an existing event, is never `"paid"`, and is under review only
  after a payment.

The proof has one lemma for each handler, showing that the session it opens is legal, and one
for `Commit` with a step for each conjunct of the invariant. The refinement reads off the legal
writes which step of `OrderBook` a commit is. `ConstantsAssumption` asks that the
catalogue is typed, that `demo` is among the codes and that the host is a user; nothing is
assumed to be finite.

`GuestUploadsProofs`, `MediaProcessingProofs`, `ArchivesProofs`, `AccountsProofs`, `AssetsProofs`,
`WorkerLoopProofs` and `RequestLocksProofs` each prove `Invariance`, `Spec => []IInv`, and from it `TypeCorrect` and the safety properties of
their module. What is added to the properties:

- GuestUploads. `QuotaInv`: one request at most has the advisory lock, and what it was promised
  still fits, since nothing but its own commit adds a row. `RowInv`: what the page, the row and the
  object say of each other; in particular a row that `"failed"` has a mismatched object for ever,
  so that no confirmation brings it back past the quota. `SessionInv` and `CleaningInv`: what a
  request or a pass of the cleanup has read and is about to commit is still right, whatever
  happened since. `RowsKept` is the fact about every step that makes it so: a row that exists never
  goes back. The byte quota is a fold of the community modules; `FoldIsTotal` proves from the
  well-founded order of finite subsets that the recursion has one solution, the number of cells of
  a table with a cell for each byte, and with it what adding and removing a row does to the sum.
  Neither the media nor the packages are assumed to be finite.
- MediaProcessing. `WorkerInv`: the worker has one row in hand, which was confirmed and says
  `"processing"`, and the copies it has stored are there. `DeletionInv`: the keys a deletion is
  about to erase are those of rows that were asked for. `ComingInv`: a PUT that runs is that of a
  pending row, or of one given up meanwhile, and what a page is confirming has come. `PassInv`: the
  cleanup and a job exclude each other, so that what the pass took stays unprocessed, what it found
  is there or was asked for, and what it did not find was missed or is gone for good. `RowInv`: a row names its own copies or the
  shared preview, and a ready one names some. `StorageInv`: the original and the copies of a row
  nobody asked to delete are stored, or the original is on its way. `GalleryServable` follows from these without being one of
  them. The action property `ReadyStays` is proved from the same invariant.
- Archives. `BuildInv`: the worker builds one job, whose row says `"processing"`, out of media it
  may hold, and a ZIP it has stored is there. `ExpireInv`: a cleanup pass goes on with jobs that
  stay expired and has erased those it is done with. `KeyInv`: the key and the status `"ready"`
  change together. The action property `OfferLasts` is proved from the same invariant.

- Accounts. `LoginInv`: a login that no reset overlapped still holds the present password, which
  is what its session will owe its life to. `RevokeInv`: a reset that has listed the sessions has
  every one of its target's except its own and those of logins it overlaps, so that its commit
  leaves no older one. `AdminInv`: a request that disables an account is not that account's own,
  so that a commit takes the last administrator only if the request is overtaken. The
  assumption is that some administrator exists.
- Assets. `OldInv`: the keys a request is about to delete are in no column, unless confirmed again, and those of a removal
  that has erased are not in storage. `NewInv`: the keys a request has stored are its own and were
  never in a column, unless they were confirmed again. `NamedInv`: a key that was in a column has left its page's hands, so that no
  PUT brings it back. The assumption is that the three kinds of keys differ.
- WorkerLoop. `WaitInv`: a duty that waited for a job is looked at before the list is. `LastInv`: a
  job taken after the signal was waited for before it.
- RequestLocks. `LoopInv`: the event loop is taken by the notice whose handler is under way.
  `HolderInv`: the lock's holder works under it, or is over and not closed. With the exclusion of
  both it follows that no step is possible to the two requests of a standstill, nor to others on
  their behalf: `StandstillForever` proves `StandstillStays`.

The three refinements have one lemma for each action, showing which step of the abstract
specification it is, or that it is none, from the invariant of the detailed one:

- `PackageOrdersProofs!Implements`. Only a commit is seen; `LegalSession` says as which step.
- `GuestUploadsProofs!Implements`. A reservation is a step of the ledger since `QuotaInv` keeps the
  entitlement from the lock to the commit; the pass of the cleanup is one `Settle` since
  `CleaningInv` keeps what it found from the look to the commit, though rows in its hands were
  confirmed or deleted meanwhile. The two folds over the sizes are shown equal.
- `MediaProcessingProofs!Implements`. The worker's `Finish` is `Show` since `WorkerInv` keeps the copies
  it stored; what a deletion erases was asked for, and the originals of its rows are gone before
  the rows, but those that were still to come, by `DeletionInv`. The commit of the cleanup is one
  `Settle`, by `PassInv`, whatever was confirmed or deleted since it looked; the end of a PUT is
  `Arrive` by `ComingInv`.

What each abstract specification is worth is a theorem too: `BookPromises`, `LedgerPromises` and
`GalleryPromises` prove its `Promise` from its own steps alone (one open order; the quota, backed
uploads, and no orphans but of files that came late or after a host asked; named copies stored, and
no original of a row that is gone but one that came after the row was given up), and
`BookKeepsPromise`, `LedgerKeepsPromise` and `GalleryKeepsPromise` carry it over to the detailed one through
the refinement. It is a second way to these facts, which does not rest on the properties of the
detailed modules.

Only model-checked: the liveness properties (`PaymentSettles`, `PendingResolves`,
`MediaResolves`, `ArchiveResolves`, `RequestsEnd`, `DutiesDone`). They rest on fairness and are beyond the
proof system.

## 5. Not modelled

Text and layout, HTTP status codes beyond success and refusal, cryptography and signatures,
validation of forms, presigned-URL formats, image and video conversion, the contents of ZIP
files beyond which media they hold. The rate limiter (`app/main.py:79-89`) is two Redis calls on
a counter that nothing else reads. The names, colours and fonts of the branding form, the
analytics, system and listing pages and the audit entries other than those of the account forms
are single reads or writes. The switches of the guest gallery are read afresh by every request.
The limits of the thread pool and of the connection pool are left out of `RequestLocks`.
A database that loses a committed transaction, an object store that loses an object and a second
worker are outside the design of the application.

## 6. Plan

Done, in the order of importance: orders and payments, uploads and quota, media processing and the
pages that show it, archives, row locks and the event loop, accounts and sessions, covers and
branding, the worker's loop; the proofs of all their safety properties; the abstract order book,
upload ledger and gallery with their refinements.

Next, models:

1. `GalleryVisibility`: which guest sees which media under a package and switches that change
   between page and media request.
2. `RateLimit`: INCR and EXPIRE over window keys, with Redis failing between.
3. Several legacy rows of one event that are rebuilt one after the other.
4. Pure operators: unique archive names, `usage_percent`, the fallbacks of `get_package`, batches
   of `delete_objects`, amounts in cents, each against a reference definition.

Next, proofs: an abstract specification of an archive's offer that `Archives` implements, and one
of a picture column that `Assets` implements.
