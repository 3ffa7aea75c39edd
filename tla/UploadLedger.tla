---------------------------- MODULE UploadLedger ----------------------------
(***************************************************************************)
(* What the uploads of an event promise, with no sessions, locks, pages,   *)
(* clocks or cleanup passes: a row is reserved within the quota, its file  *)
(* arrives once, it is settled once by what arrived, and what a host asks  *)
(* to delete, settled or not, leaves storage and then the event.           *)
(***************************************************************************)
EXTENDS Naturals, FiniteSets, FiniteSetsExt

CONSTANTS
  Media, Files, Packages,
  Late   \* the media whose file may arrive when the row was given up

VARIABLES
  granted,   \* the packages the event has had
  status,    \* of each row, "absent" before it is reserved
  file,      \* what was declared for it
  object,    \* what is in storage: "none", what "match"es the declaration, or not
  asked,     \* the rows a host asked to delete
  hasty      \* those of them whose file may arrive all the same

vars == <<granted, status, file, object, asked, hasty>>

Held(m) == status[m] \in {"pending", "uploaded", "failed"}
Counted == {m \in Media : status[m] \in {"pending", "uploaded"}}
Bytes   == MapThenSumSet(LAMBDA m : file[m].size, Counted)

Fits(f, p) ==
  /\ f.video => f.size <= p.video
  /\ Cardinality(Counted) + 1 <= p.media
  /\ Bytes + f.size <= p.bytes

Grant(p) ==
  /\ granted' = granted \cup {p}
  /\ UNCHANGED <<status, file, object, asked, hasty>>

Reserve(m, f) ==
  /\ status[m] = "absent"
  /\ \E p \in granted : Fits(f, p)
  /\ status' = [status EXCEPT ![m] = "pending"]
  /\ file'   = [file EXCEPT ![m] = f]
  /\ UNCHANGED <<granted, object, asked, hasty>>

Arrive(m, content) ==
  /\ object[m] = "none" /\ m \notin asked \ hasty
  /\ status[m] = "pending" \/ (status[m] = "removed" /\ m \in Late \cup hasty)
  /\ object' = [object EXCEPT ![m] = content]
  /\ UNCHANGED <<granted, status, file, asked, hasty>>

\* What may become of a row, by what is in storage for it and who asked: a row whose file was
\* found may be settled after the host had it erased.
Erased(m)    == object[m] = "none" /\ m \in asked
Accepted(m)  == status[m] = "pending" /\ (object[m] = "match" \/ Erased(m))
Rejected(m)  == status[m] = "pending" /\ (object[m] = "mismatch" \/ Erased(m))
Abandoned(m) == status[m] = "pending" /\ (object[m] = "none" \/ m \in Late)
Deleted(m)   == Held(m) /\ (Erased(m) \/ m \in Late \cup hasty)

\* One commit, for one row or for many.
Settle ==
  /\ \A m \in Media :
       \/ status'[m] = status[m]
       \/ status'[m] = "uploaded" /\ Accepted(m)
       \/ status'[m] = "failed" /\ Rejected(m)
       \/ status'[m] = "removed" /\ (Abandoned(m) \/ Deleted(m))
  /\ DOMAIN status' = Media
  /\ UNCHANGED <<granted, file, object, asked, hasty>>

Ask(S) ==
  /\ \A m \in S : Held(m)
  /\ asked' = asked \cup S
  /\ \E H \in SUBSET {m \in S : status[m] = "pending" /\ object[m] = "none"} :
       hasty' = hasty \cup H
  /\ UNCHANGED <<granted, status, file, object>>

Erase(S) ==
  /\ S \subseteq asked
  /\ object' = [m \in Media |-> IF m \in S THEN "none" ELSE object[m]]
  /\ UNCHANGED <<granted, status, file, asked, hasty>>

Init ==
  /\ \E p \in Packages : granted = {p}
  /\ status = [m \in Media |-> "absent"]
  /\ file \in [Media -> Files]
  /\ object = [m \in Media |-> "none"]
  /\ asked = {} /\ hasty = {}

Next ==
  \/ \E p \in Packages : Grant(p)
  \/ \E m \in Media, f \in Files : Reserve(m, f)
  \/ \E m \in Media, content \in {"match", "mismatch"} : Arrive(m, content)
  \/ Settle
  \/ \E S \in SUBSET Media : Ask(S) \/ Erase(S)

Spec == Init /\ [][Next]_vars

\* The rows fit a package the event has had, in number and in bytes; what is uploaded is in storage
\* as declared until its deletion is asked for, and a row that is gone left nothing there, unless
\* its file came late or was still to come when the deletion was asked for.
Promise ==
  /\ \E p \in granted : Cardinality(Counted) <= p.media /\ Bytes <= p.bytes
  /\ \A m \in Media :
       /\ status[m] = "uploaded" => object[m] = "match" \/ m \in asked
       /\ status[m] = "removed" => object[m] = "none" \/ m \in Late \cup hasty
=============================================================================
