---------------------------- MODULE RequestLocks ----------------------------
(***************************************************************************)
(* How the one web process runs the handlers that lock an event's row.     *)
(* A plain handler runs in a thread of its own; payfast_notify is a        *)
(* coroutine, so its waits, for PayFast's answer and for the row lock, are *)
(* waits of the event loop.  A commit releases the lock at once; a handler *)
(* that answers without one, be it an error or package_request's redirect  *)
(* to the package the event already has, holds the lock until get_db       *)
(* closes the session, and that takes a turn of the event loop.            *)
(***************************************************************************)
EXTENDS Naturals, FiniteSets

CONSTANTS
  Handlers,  \* requests of plain handlers that call lock_commercial_event on one event
  Notices    \* requests of payfast_notify for orders of that event

Requests == Handlers \cup Notices

ASSUME LockAssumption == Handlers \cap Notices = {}

VARIABLES
  phase,   \* "idle", "sent", "running", "waiting" for the lock, "locked", or the handler "over"
  holder,  \* the request whose session holds the row lock
  loop,    \* the coroutine that occupies the event loop
  health   \* a call of /health: "idle" or "sent"

vars == <<phase, holder, loop, health>>

Free == loop = {}
To(r, p) == phase' = [phase EXCEPT ![r] = p]
----------------------------------------------------------------------------
Send(r) ==
  /\ phase[r] = "idle" /\ To(r, "sent")
  /\ UNCHANGED <<holder, loop, health>>

\* The event loop hands a plain handler to a thread, and runs a coroutine itself.
Dispatch(r) ==
  /\ Free /\ phase[r] = "sent" /\ To(r, "running")
  /\ loop' = {r} \cap Notices
  /\ UNCHANGED <<holder, health>>

\* What comes before the lock: who asks, whose event; PayFast's signature and confirmation.
Check(r) ==
  /\ phase[r] = "running"
  /\ \/ To(r, "waiting") /\ loop' = loop
     \/ To(r, "over") /\ loop' = loop \ {r}
  /\ UNCHANGED <<holder, health>>

\* Variant: SELECT without FOR UPDATE.
select_event(r) ==
  /\ phase[r] = "waiting"
  /\ holder' = holder \cup {r} /\ To(r, "locked")
  /\ UNCHANGED <<loop, health>>

lock_commercial_event(r) ==
  /\ phase[r] = "waiting" /\ holder = {}
  /\ holder' = {r} /\ To(r, "locked")
  /\ UNCHANGED <<loop, health>>

Commit(r) ==
  /\ phase[r] = "locked" /\ To(r, "over")
  /\ holder' = holder \ {r} /\ loop' = loop \ {r}
  /\ UNCHANGED health

\* An answer without a commit after the lock: an HTTPException (a payment is outstanding, the
\* order is not pending, the amount differs) or the redirect of package_request when the event
\* has the package.  The session stays open; every handler that locks has such a way out.
Leave(r) ==
  /\ phase[r] = "locked" /\ To(r, "over")
  /\ loop' = loop \ {r}
  /\ UNCHANGED <<holder, health>>

\* Variant: the session not closed.
LeaveOpen(r) ==
  /\ Free /\ phase[r] = "over" /\ To(r, "idle")
  /\ UNCHANGED <<holder, loop, health>>

\* The exit of get_db, started by the event loop, closes the session; then the answer is sent.
Close(r) ==
  /\ Free /\ phase[r] = "over" /\ To(r, "idle")
  /\ holder' = holder \ {r}
  /\ UNCHANGED <<loop, health>>

\* Called every 30 seconds, answered or not.
Ping ==
  /\ health' = "sent"
  /\ UNCHANGED <<phase, holder, loop>>

\* The health endpoint touches no row, but needs the event loop.
Pong ==
  /\ Free /\ health = "sent" /\ health' = "idle"
  /\ UNCHANGED <<phase, holder, loop>>
----------------------------------------------------------------------------
Init ==
  /\ phase = [r \in Requests |-> "idle"]
  /\ holder = {} /\ loop = {} /\ health = "idle"

Next ==
  \/ \E r \in Requests :
       \/ Send(r) \/ Dispatch(r) \/ Check(r)
       \/ lock_commercial_event(r) \/ Commit(r) \/ Leave(r) \/ Close(r)
  \/ Ping \/ Pong

Spec == Init /\ [][Next]_vars

\* Assumed: threads run, PayFast answers or times out, the database grants the lock to each
\* session that waits for it, and the event loop gets to every task that is ready.
Fairness ==
  /\ \A r \in Requests :
       /\ WF_vars(Check(r)) /\ WF_vars(Commit(r) \/ Leave(r))
       /\ SF_vars(lock_commercial_event(r))
       /\ SF_vars(Dispatch(r)) /\ SF_vars(Close(r))
  /\ SF_vars(Pong)

FairSpec == Spec /\ Fairness
----------------------------------------------------------------------------
(* Properties                                                              *)

\* Types; the row lock has one holder and the event loop runs one coroutine.
TypeOK ==
  /\ phase \in [Requests -> {"idle", "sent", "running", "waiting", "locked", "over"}]
  /\ holder \subseteq Requests /\ Cardinality(holder) <= 1
  /\ loop \subseteq Notices /\ Cardinality(loop) <= 1
  /\ health \in {"idle", "sent"}

\* A coroutine waits on the event loop for the lock of a request that is over and needs the loop
\* to let it go.
Standstill == \E n \in loop, r \in holder : phase[n] = "waiting" /\ phase[r] = "over"

\* There is no way out of it: no thread, no other request, no answer of PayFast or of the database
\* ends what one request's early return and another's wait have brought about.
StandstillStays == [][Standstill => Standstill']_vars

\* Nothing else keeps a request from its end: handlers that commit, refuse or return early, and
\* notices that wait on the event loop, may meet in any order, and every request ends unless the
\* process has come to that standstill.
RequestsEnd == \A r \in Requests : phase[r] = "sent" ~> phase[r] = "idle" \/ Standstill

\* "Liveness: curl .../health" (README.md:47) and test_health_endpoint (tests/test_app.py:9):
\* the process answers a health call.
HealthAnswered == health = "sent" ~> health = "idle"
============================================================================
