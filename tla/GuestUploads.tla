---------------------------- MODULE GuestUploads ----------------------------
(***************************************************************************)
(* The uploads of one event: initiate_upload reserves a slot of the        *)
(* event's package under an advisory lock, the guest's browser PUTs the    *)
(* file to object storage with a presigned URL, confirm_upload verifies    *)
(* it, the worker's cleanup_stale_uploads resolves what was never          *)
(* confirmed, and the host deletes media.  Rows and objects live in two    *)
(* stores with no common transaction.                                      *)
(***************************************************************************)
EXTENDS Naturals, FiniteSets, FiniteSetsExt

CONSTANTS
  Media,      \* identifiers of media rows
  Files,      \* what guests upload: [size, video]
  Packages,   \* the limits an event may have: [media, bytes, video]
  Reqs,       \* concurrent web requests
  SlowPuts    \* the media whose PUT may be still running when the row is past the stale cutoff

RowStatuses == {"absent", "pending", "uploaded", "failed", "removed"}
Clients     == {"none", "ready", "sending", "sent", "confirming", "done", "gone"}

ASSUME UploadAssumption ==
  /\ Files \subseteq [size : Nat \ {0}, video : BOOLEAN]
  /\ Packages \subseteq [media : Nat, bytes : Nat, video : Nat]
  /\ Files # {} /\ SlowPuts \subseteq Media

VARIABLES
  package,   \* its package
  granted,   \* history: the packages it has had
  status,    \* media.status, "removed" after the row is deleted
  file,      \* the declared size and type of each row
  age,       \* "fresh", or "stale" past the cutoff, long after the URL expired
  object,    \* the original in storage: "none", or does it "match" the row?
  client,    \* upload.js on each row
  tx,        \* the open session of each request
  cleaning,  \* the worker: "idle", in a "pass" with rows to inspect and writes, or "down"
  told,      \* history: rows a guest saw as "Uploaded"
  asked,     \* history: rows a host asked to delete
  hasty      \* history: those of them whose PUT had not ended when the host asked

rows   == <<status, file, age>>
event  == <<package, granted>>
vars   == <<event, rows, object, client, tx, cleaning, told, asked, hasty>>

None     == [x \in {} |-> x]
Idle     == [op |-> "idle", rows |-> {}, file |-> {}, package |-> {}]
At(phase) == [phase |-> phase, todo |-> {}, writes |-> None]
Present(m) == status[m] \notin {"absent", "removed"}
----------------------------------------------------------------------------
(* Quota (app/services/package_enforcement.py).                            *)

\* Rows that count toward the package: a pending one reserves its slot and bytes.
event_package_usage == {m \in Media : status[m] \in {"pending", "uploaded"}}
Bytes(S) == MapThenSumSet(LAMBDA m : file[m].size, S)

\* Variant: the advisory lock forgotten.
Unlocked == TRUE
LockFree == \A r \in Reqs : tx[r].op # "reserved"

Entitled(p, f) ==
  /\ f.video => f.size <= p.video
  /\ Cardinality(event_package_usage) < p.media
  /\ Bytes(event_package_usage) + f.size <= p.bytes

\* The event and its package code are read before the lock.  A closed event refuses, with no effect.
initiate_upload(r, f) ==
  /\ tx[r] = Idle
  /\ tx' = [tx EXCEPT ![r] = [op |-> "initiate", rows |-> {}, file |-> {f}, package |-> {package}]]
  /\ UNCHANGED <<event, rows, object, client, cleaning, told, asked, hasty>>

enforce_upload_entitlement(r, m) ==
  /\ tx[r].op = "initiate" /\ LockFree
  /\ \A p \in tx[r].package, f \in tx[r].file : Entitled(p, f)
  /\ status[m] = "absent"
  /\ tx' = [tx EXCEPT ![r].op = "reserved", ![r].rows = {m}]
  /\ UNCHANGED <<event, rows, object, client, cleaning, told, asked, hasty>>

\* db.commit() and the answer with the presigned URL.
Reserve(r) ==
  /\ tx[r].op = "reserved"
  /\ \E m \in tx[r].rows, f \in tx[r].file :
       /\ status' = [status EXCEPT ![m] = "pending"]
       /\ file'   = [file EXCEPT ![m] = f]
       /\ client' = [client EXCEPT ![m] = "ready"]
  /\ tx' = [tx EXCEPT ![r] = Idle]
  /\ UNCHANGED <<event, age, object, cleaning, told, asked, hasty>>
----------------------------------------------------------------------------
(* The guest's browser (static/upload.js) and time.                        *)

\* Storage checks the URL when the PUT starts; a session PUTs once.
StartPut(m) ==
  /\ client[m] = "ready" /\ age[m] = "fresh"
  /\ client' = [client EXCEPT ![m] = "sending"]
  /\ UNCHANGED <<event, rows, object, tx, cleaning, told, asked, hasty>>

\* The stored bytes match the declared size, unless the file changed meanwhile.
FinishPut(m) ==
  /\ client[m] = "sending"
  /\ \E content \in {"match", "mismatch"} : object' = [object EXCEPT ![m] = content]
  /\ client' = [client EXCEPT ![m] = "sent"]
  /\ UNCHANGED <<event, rows, tx, cleaning, told, asked, hasty>>

\* The page is closed, the network fails, an answer is lost; or the confirmation is refused, 403,
\* 404 or 409, as it is at any time when a host closes the event.
Leave(m) ==
  /\ client[m] \in {"ready", "sending", "sent"}
  /\ client' = [client EXCEPT ![m] = "gone"]
  /\ UNCHANGED <<event, rows, object, tx, cleaning, told, asked, hasty>>

\* The cutoff (2 h) is later than the expiry of the URL (15 min), so that no PUT starts after it.
Age(m) ==
  /\ Present(m) /\ age[m] = "fresh"
  /\ m \in SlowPuts \/ client[m] # "sending"
  /\ age' = [age EXCEPT ![m] = "stale"]
  /\ UNCHANGED <<event, status, file, object, client, tx, cleaning, told, asked, hasty>>
----------------------------------------------------------------------------
(* confirm_upload (app/main.py).                                           *)

\* Variant: the size of the object not compared.
AnyObject(m) == object[m] # "none"
Verified(m)  == object[m] = "match"

confirm_upload(r, m) ==
  /\ client[m] = "sent" /\ tx[r] = Idle
  /\ Present(m) /\ status[m] # "uploaded" /\ Verified(m)
  /\ tx' = [tx EXCEPT ![r] = [Idle EXCEPT !.op = "confirm", !.rows = {m}]]
  /\ client' = [client EXCEPT ![m] = "confirming"]
  /\ UNCHANGED <<event, rows, object, cleaning, told, asked, hasty>>

\* The early return: someone else set the row to "uploaded".
ConfirmKnown(m) ==
  /\ client[m] = "sent" /\ status[m] = "uploaded"
  /\ client' = [client EXCEPT ![m] = "done"]
  /\ told' = told \cup {m}
  /\ UNCHANGED <<event, rows, object, tx, cleaning, asked, hasty>>

\* UPDATE of a row deleted meanwhile matches nothing and raises.
Confirm(r) ==
  /\ tx[r].op = "confirm"
  /\ \E m \in tx[r].rows :
       \/ /\ Present(m)
          /\ status' = [status EXCEPT ![m] = "uploaded"]
          /\ client' = [client EXCEPT ![m] = "done"]
          /\ told' = told \cup {m}
       \/ /\ ~Present(m)
          /\ client' = [client EXCEPT ![m] = "gone"]
          /\ UNCHANGED <<status, told>>
  /\ tx' = [tx EXCEPT ![r] = Idle]
  /\ UNCHANGED <<event, file, age, object, cleaning, asked, hasty>>
----------------------------------------------------------------------------
(* delete_media (app/main.py): objects first, then the rows.  The host's   *)
(* gallery offers the uploaded rows; the handler takes any of the event.   *)

delete_media(r, S) ==
  /\ tx[r] = Idle
  /\ S # {} /\ \A m \in S : Present(m)
  /\ tx' = [tx EXCEPT ![r] = [Idle EXCEPT !.op = "delete", !.rows = S]]
  /\ asked' = asked \cup S
  /\ hasty' = hasty \cup {m \in S : client[m] \in {"ready", "sending"}}
  /\ UNCHANGED <<event, rows, object, client, cleaning, told>>

Erase(D) == object' = [m \in Media |-> IF m \in D THEN "none" ELSE object[m]]

\* Variant: errors of the storage ignored.
delete_objects_quietly(r) ==
  /\ tx[r].op = "delete"
  /\ \E D \in SUBSET tx[r].rows : Erase(D)
  /\ tx' = [tx EXCEPT ![r].op = "deleted"]
  /\ UNCHANGED <<event, rows, client, cleaning, told, asked, hasty>>

\* Some objects may be gone when the storage reports an error, answered 502.
delete_objects(r) ==
  /\ tx[r].op = "delete"
  /\ \/ Erase(tx[r].rows) /\ tx' = [tx EXCEPT ![r].op = "deleted"]
     \/ \E D \in SUBSET tx[r].rows : Erase(D) /\ tx' = [tx EXCEPT ![r] = Idle]
  /\ UNCHANGED <<event, rows, client, cleaning, told, asked, hasty>>

Delete(r) ==
  /\ tx[r].op = "deleted"
  /\ status' = [m \in Media |-> IF m \in tx[r].rows THEN "removed" ELSE status[m]]
  /\ tx' = [tx EXCEPT ![r] = Idle]
  /\ UNCHANGED <<event, file, age, object, client, cleaning, told, asked, hasty>>

\* The session is closed without a commit: a refusal, an exception, a crash.
Abort(r) ==
  /\ tx[r] # Idle
  /\ client' = [m \in Media |-> IF client[m] = "confirming" /\ m \in tx[r].rows
                                THEN "gone" ELSE client[m]]
  /\ tx' = [tx EXCEPT ![r] = Idle]
  /\ UNCHANGED <<event, rows, object, cleaning, told, asked, hasty>>
----------------------------------------------------------------------------
(* cleanup_stale_uploads (app/services/upload_cleanup.py).                 *)

\* Variant: the cutoff on created_at forgotten.
AnyPending(m) == status[m] = "pending"
Stale(m) == status[m] = "pending" /\ age[m] = "stale"

cleanup_stale_uploads ==
  /\ cleaning.phase # "pass"
  /\ \E m \in Media : Stale(m)
  /\ cleaning' = [At("pass") EXCEPT !.todo = {m \in Media : Stale(m)}]
  /\ UNCHANGED <<event, rows, object, client, tx, told, asked, hasty>>

\* Variants: a mismatched object skipped; one given a status of its own.
VerdictOrSkip(m) ==
  CASE object[m] = "none"  -> "removed"
    [] object[m] = "match" -> "uploaded"
    [] OTHER               -> "pending"
VerdictRaw(m) ==
  CASE object[m] = "none"  -> "removed"
    [] object[m] = "match" -> "uploaded"
    [] OTHER               -> "mismatched"

\* What the pass decides about a row once it has the object's metadata.
Verdict(m) ==
  CASE object[m] = "none"  -> "removed"
    [] object[m] = "match" -> "uploaded"
    [] OTHER               -> "failed"

Inspect(m) ==
  /\ m \in cleaning.todo
  /\ cleaning' = [cleaning EXCEPT !.todo = @ \ {m},
       !.writes = [k \in DOMAIN @ \cup {m} |-> IF k = m THEN Verdict(m) ELSE @[k]]]
  /\ UNCHANGED <<event, rows, object, client, tx, told, asked, hasty>>

\* The object cannot be inspected: the row is left for the next pass.
InspectError(m) ==
  /\ m \in cleaning.todo
  /\ cleaning' = [cleaning EXCEPT !.todo = @ \ {m}]
  /\ UNCHANGED <<event, rows, object, client, tx, told, asked, hasty>>

\* One commit for the whole pass: an UPDATE that finds no row rolls all of it back, a DELETE
\* does not look at what became of the row.
CleanupCommit ==
  LET w == cleaning.writes
      lost == \E m \in DOMAIN w : w[m] # "removed" /\ ~Present(m)
  IN  /\ cleaning.phase = "pass" /\ cleaning.todo = {}
      /\ status' = IF lost THEN status
                   ELSE [m \in Media |-> IF m \in DOMAIN w THEN w[m] ELSE status[m]]
      /\ cleaning' = At("idle")
      /\ UNCHANGED <<event, file, age, object, client, tx, told, asked, hasty>>

\* The worker dies; started again, it begins with a pass.
WorkerCrash ==
  /\ cleaning.phase = "pass"
  /\ cleaning' = At("down")
  /\ UNCHANGED <<event, rows, object, client, tx, told, asked, hasty>>
----------------------------------------------------------------------------
(* The event: orders and admins change its package.                        *)

SetPackage(p) ==
  /\ package # p /\ package' = p /\ granted' = granted \cup {p}
  /\ UNCHANGED <<rows, object, client, tx, cleaning, told, asked, hasty>>

Init ==
  /\ package \in Packages /\ granted = {package}
  /\ status = [m \in Media |-> "absent"]
  /\ file = [m \in Media |-> CHOOSE f \in Files : TRUE]
  /\ age = [m \in Media |-> "fresh"]
  /\ object = [m \in Media |-> "none"]
  /\ client = [m \in Media |-> "none"]
  /\ tx = [r \in Reqs |-> Idle]
  /\ cleaning = At("idle")
  /\ told = {} /\ asked = {} /\ hasty = {}

GuestStep == \E m \in Media : StartPut(m) \/ FinishPut(m) \/ Leave(m) \/ ConfirmKnown(m)

RequestStep(r) ==
  \/ \E f \in Files : initiate_upload(r, f)
  \/ \E m \in Media : enforce_upload_entitlement(r, m)
  \/ Reserve(r)
  \/ \E m \in Media : confirm_upload(r, m)
  \/ Confirm(r)
  \/ \E S \in SUBSET Media : delete_media(r, S)
  \/ delete_objects(r)
  \/ Delete(r)
  \/ Abort(r)

WorkerStep ==
  \/ cleanup_stale_uploads
  \/ \E m \in Media : Inspect(m) \/ InspectError(m)
  \/ CleanupCommit
  \/ WorkerCrash

Next ==
  \/ GuestStep
  \/ \E m \in Media : Age(m)
  \/ \E r \in Reqs : RequestStep(r)
  \/ WorkerStep
  \/ \E p \in Packages : SetPackage(p)

Spec == Init /\ [][Next]_vars

\* Assumed: time passes, a PUT ends, the worker runs its passes and at last without dying, and
\* the storage answers an inspection sooner or later.
Fairness ==
  /\ \A m \in Media :
       /\ WF_vars(Age(m))
       /\ WF_vars(client[m] = "sending" /\ (FinishPut(m) \/ Leave(m)))
       /\ SF_vars(Inspect(m))
  /\ WF_vars(cleanup_stale_uploads) /\ WF_vars(CleanupCommit)
  /\ <>[][~WorkerCrash]_vars

FairSpec == Spec /\ Fairness
----------------------------------------------------------------------------
(* Properties                                                              *)

\* Types of rows, sessions and the cleanup pass.
TypeOK ==
  /\ package \in granted /\ granted \subseteq Packages
  /\ status \in [Media -> RowStatuses] /\ file \in [Media -> Files]
  /\ age \in [Media -> {"fresh", "stale"}]
  /\ object \in [Media -> {"none", "match", "mismatch"}]
  /\ client \in [Media -> Clients]
  /\ \A r \in Reqs :
       /\ tx[r].op \in {"idle", "initiate", "reserved", "confirm", "delete", "deleted"}
       /\ tx[r].rows \subseteq Media /\ tx[r].file \subseteq Files
       /\ tx[r].package \subseteq Packages
  /\ cleaning.phase \in {"idle", "pass", "down"} /\ cleaning.todo \subseteq Media
  /\ cleaning.writes \in [DOMAIN cleaning.writes -> RowStatuses]
  /\ told \cup asked \subseteq Media /\ hasty \subseteq asked

\* However many guests ask at once, the event never holds or promises more media or bytes than
\* some package it has had allows: pending rows reserve what they asked for.
WithinPackage ==
  \E p \in granted :
    /\ Cardinality(event_package_usage) <= p.media
    /\ Bytes(event_package_usage) <= p.bytes

\* A guest who saw "Uploaded" keeps the memory until a host deletes it: neither the cleanup nor
\* a late or repeated call removes or downgrades the row, if its PUT was over by the cutoff.
ToldKept == \A m \in told \ SlowPuts : status[m] = "uploaded" \/ m \in asked

\* An uploaded row has its verified original in storage, until a host asks for its deletion.
UploadedVerified ==
  \A m \in Media : status[m] = "uploaded" => object[m] = "match" \/ m \in asked

\* A row goes only after its object: no original stays in storage that no row names, if its PUT
\* was over by the cutoff, and before a host asked for the deletion of the row.
NoOrphans ==
  \A m \in Media \ (SlowPuts \cup hasty) : status[m] = "removed" => object[m] = "none"

\* Every reservation is resolved in the end, confirmed or not, whatever the guest, the host and
\* the storage do: a slot of the package is never held for ever.
PendingResolves == \A m \in Media : status[m] = "pending" ~> status[m] # "pending"

\* Handlers, pages and passes implement the ledger: a row is reserved within the quota, its file
\* arrives, what arrived settles it once, and a settled row goes because a host asked.
Ledger == INSTANCE UploadLedger WITH Late <- SlowPuts

ImplementsLedger == Ledger!Spec
----------------------------------------------------------------------------
(* What the repository says and slow uploads and hasty deletions refute.   *)

\* "If no object exists, the abandoned database row is removed." (README.md:75): what the
\* cleanup removes was abandoned by its guest.
RemovesAbandoned ==
  [][\A m \in Media :
       status[m] = "pending" /\ status'[m] = "removed" => client[m] \in {"ready", "gone"}]_vars

\* "Recover or remove upload sessions that never reached /confirm." (upload_cleanup.py:22): a
\* session that was confirmed is never removed.
RemovesUnconfirmed == \A m \in told : status[m] = "removed" => m \in asked

\* "Could not delete all selected files from storage." (main.py:499) is what a host is told
\* otherwise: when the rows are deleted, so are the files.
DeletesFiles == \A m \in asked : status[m] = "removed" => object[m] = "none"
=============================================================================
