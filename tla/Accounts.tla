------------------------------ MODULE Accounts ------------------------------
(***************************************************************************)
(* Accounts and their sessions: registration, login, logout and expiry,    *)
(* the administrators' suspension of an account and reset of its password, *)
(* and the audit middleware that runs after an administrator's request.    *)
(* Hashing a password is slow, and no handler locks the rows it has read:  *)
(* a login may end after a reset that began later.                         *)
(***************************************************************************)
EXTENDS FiniteSets

CONSTANTS
  Users,      \* e-mail addresses, each with an account or none yet
  Admins,     \* those whose account has is_admin
  Passwords,
  Tokens,     \* session tokens, drawn at random and never twice
  Reqs        \* concurrent requests

ASSUME AccountsAssumption ==
  /\ Admins \subseteq Users /\ Admins # {}
  /\ Tokens \cap Reqs = {}

Standings == {"absent", "active", "suspended"}
Ops == {"idle", "session", "enable", "disable", "hash", "revoke", "status_changed", "password_answered", "logged"}

VARIABLES
  standing,   \* the account of each user: its row, and is_active
  hash,       \* the password whose hash the row holds, as a set of at most one
  session,    \* the row of each token: "unused", "valid", or "ended" by a deletion or the time
  owner,      \* its user, as a set of at most one
  req,        \* each request: what it does next and what it has read
  entry,      \* the admin_activity row that the middleware wrote for it, if any
  madeWith,   \* history: the password to which a session owes its life
  raced,      \* history: logins that a reset overlapped, and their tokens
  wrote,      \* history: requests whose change is committed
  overtaken   \* history: has an administrator's request outlived his own suspension?

rows    == <<standing, hash, session, owner>>
history == <<madeWith, raced, wrote, overtaken>>
vars    == <<rows, req, entry, history>>

Idle == [op |-> "idle", user |-> {}, cookie |-> {}, target |-> {}, word |-> {}, seen |-> {}]
Suspended(S) == \E u \in S : standing[u] # "active"

\* Variant: the rows of the sessions kept.
Keep(f, T)  == f
Clear(f, T) == [t \in Tokens |-> IF t \in T THEN {} ELSE f[t]]
End(T) ==
  /\ session' = [t \in Tokens |-> IF t \in T THEN "ended" ELSE session[t]]
  /\ owner' = Clear(owner, T)
----------------------------------------------------------------------------
(* Sessions (app/security.py and the public handlers of app/main.py).      *)

user_from_session_token(t) == {u \in owner[t] : standing[u] = "active"}

require_admin(t) == user_from_session_token(t) \cap Admins

Admit(r, u, w) == req' = [req EXCEPT ![r] = [Idle EXCEPT !.op = "session", !.user = {u}, !.word = {w}]]

\* Variant: the error of a taken address not handled.
register_anyway(r, u, w) ==
  /\ req[r] = Idle
  /\ IF standing[u] = "absent"
     THEN standing' = [standing EXCEPT ![u] = "active"] /\ hash' = [hash EXCEPT ![u] = {w}]
     ELSE UNCHANGED <<standing, hash>>
  /\ Admit(r, u, w)
  /\ UNCHANGED <<session, owner, entry, history>>

\* The account is committed, then its first session; the address is unique.
register(r, u, w) ==
  /\ req[r] = Idle /\ standing[u] = "absent"
  /\ standing' = [standing EXCEPT ![u] = "active"]
  /\ hash' = [hash EXCEPT ![u] = {w}]
  /\ Admit(r, u, w)
  /\ UNCHANGED <<session, owner, entry, history>>

\* The row is read, then its hash computed; the row is not looked at again.
login(r, u, w) ==
  /\ req[r] = Idle
  /\ standing[u] = "active" /\ hash[u] = {w}
  /\ Admit(r, u, w)
  /\ UNCHANGED <<rows, entry, history>>

Revoking(U) == \E r \in Reqs : req[r].op = "revoke" /\ req[r].target = U

new_session(r, t) ==
  /\ req[r].op = "session" /\ session[t] = "unused"
  /\ session' = [session EXCEPT ![t] = "valid"]
  /\ owner' = [owner EXCEPT ![t] = req[r].user]
  /\ madeWith' = [madeWith EXCEPT ![t] = req[r].word]
  /\ raced' = (raced \ {r}) \cup (IF r \in raced \/ Revoking(req[r].user) THEN {t} ELSE {})
  /\ req' = [req EXCEPT ![r] = Idle]
  /\ UNCHANGED <<standing, hash, entry, wrote, overtaken>>

\* logout deletes the row; an expired one stays, but no query takes it any more.
EndSession(t) ==
  /\ session[t] = "valid"
  /\ End({t})
  /\ madeWith' = Clear(madeWith, {t}) /\ raced' = raced \ {t}
  /\ UNCHANGED <<standing, hash, req, entry, wrote, overtaken>>
----------------------------------------------------------------------------
(* The administrators' handlers (app/admin.py).                            *)

\* Variant: the administrator's own account not spared.
MaySetAny(admin, target, active) == TRUE
MaySet(admin, target, active)    == target = admin => active

Answered(op, cookie, target) == [Idle EXCEPT !.op = op, !.cookie = cookie, !.target = target]

\* A flag that is already as asked is not written.
user_status(r, t, target, active) ==
  /\ req[r] = Idle
  /\ standing[target] # "absent"
  /\ \E admin \in require_admin(t) :
       /\ MaySet(admin, target, active)
       /\ req' = [req EXCEPT ![r] =
            IF (standing[target] = "active") = active THEN Answered("status_changed", {t}, {target})
            ELSE [Answered(IF active THEN "enable" ELSE "disable", {t}, {target}) EXCEPT !.user = {admin}]]
  /\ UNCHANGED <<rows, entry, history>>

CommitStatus(r) ==
  /\ req[r].op \in {"enable", "disable"}
  /\ standing' = [u \in Users |-> IF u \notin req[r].target THEN standing[u]
                                  ELSE IF req[r].op = "enable" THEN "active" ELSE "suspended"]
  /\ overtaken' = (overtaken \/ Suspended(req[r].user))
  /\ wrote' = wrote \cup {r}
  /\ req' = [req EXCEPT ![r] = Answered("status_changed", @.cookie, @.target)]
  /\ UNCHANGED <<hash, session, owner, entry, madeWith, raced>>

\* The form is refused with a redirect, or its password hashed.
user_password(r, t, target) ==
  /\ req[r] = Idle
  /\ standing[target] # "absent"
  /\ \E admin \in require_admin(t) :
       \/ req' = [req EXCEPT ![r] = Answered("password_answered", {t}, {target})]
       \/ req' = [req EXCEPT ![r] = [Answered("hash", {t}, {target}) EXCEPT !.user = {admin}]]
  /\ UNCHANGED <<rows, entry, history>>

\* The session that an administrator who changes his own password goes on with.
Own(r) == IF req[r].target = req[r].user THEN req[r].cookie ELSE {}

ReadSessions(r) ==
  /\ req[r].op = "hash"
  /\ req' = [req EXCEPT ![r].op = "revoke",
               ![r].seen = {t \in Tokens \ Own(r) : session[t] = "valid" /\ owner[t] = req[r].target}]
  /\ UNCHANGED <<rows, entry, history>>

\* Variant: the sessions left alone.
NoneRevoked(r) == {}
Revoked(r)     == req[r].seen

\* The hash of the form's password and the deletions, in one commit.
CommitPassword(r, w) ==
  /\ req[r].op = "revoke"
  /\ hash' = [u \in Users |-> IF u \in req[r].target THEN {w} ELSE hash[u]]
  /\ End(Revoked(r))
  /\ madeWith' = [t \in Tokens |-> IF t \in Own(r) THEN {w} ELSE Clear(madeWith, Revoked(r))[t]]
  /\ raced' = (raced \ Revoked(r)) \cup {s \in Reqs : req[s].op = "session" /\ req[s].user = req[r].target}
  /\ wrote' = wrote \cup {r}
  /\ req' = [req EXCEPT ![r] = Answered("password_answered", @.cookie, @.target)]
  /\ UNCHANGED <<standing, entry, overtaken>>

\* app/admin_audit_middleware.py, after any answer below 400: the administrator is looked up
\* again, and the entry says what the row holds by now.
admin_audit(r) ==
  /\ req[r].op \in {"status_changed", "password_answered"}
  /\ entry' = [entry EXCEPT ![r] =
       {IF req[r].op = "status_changed" THEN standing[target] ELSE "password_changed"
        : target \in {u \in req[r].target : \E t \in req[r].cookie : require_admin(t) # {}}}]
  /\ req' = [req EXCEPT ![r] = [Idle EXCEPT !.op = "logged"]]
  /\ UNCHANGED <<rows, history>>

\* The request ends: answered, or by an exception before its commit or in the middleware.
Close(r) ==
  /\ req[r] # Idle
  /\ req' = [req EXCEPT ![r] = Idle]
  /\ entry' = [entry EXCEPT ![r] = {}]
  /\ raced' = raced \ {r} /\ wrote' = wrote \ {r}
  /\ UNCHANGED <<rows, madeWith, overtaken>>
----------------------------------------------------------------------------
\* The administrators' accounts are made by other means before the site opens.
Init ==
  /\ standing = [u \in Users |-> IF u \in Admins THEN "active" ELSE "absent"]
  /\ hash \in [Users -> {{}} \cup {{w} : w \in Passwords}]
  /\ \A u \in Users : hash[u] = {} <=> u \notin Admins
  /\ session = [t \in Tokens |-> "unused"] /\ owner = [t \in Tokens |-> {}]
  /\ req = [r \in Reqs |-> Idle] /\ entry = [r \in Reqs |-> {}]
  /\ madeWith = [t \in Tokens |-> {}]
  /\ raced = {} /\ wrote = {} /\ overtaken = FALSE

PublicStep(r) ==
  \/ \E u \in Users, w \in Passwords : register(r, u, w) \/ login(r, u, w)
  \/ \E t \in Tokens : new_session(r, t)

AdminStep(r) ==
  \/ \E t \in Tokens, target \in Users, active \in BOOLEAN : user_status(r, t, target, active)
  \/ \E t \in Tokens, target \in Users : user_password(r, t, target)
  \/ \E w \in Passwords : CommitPassword(r, w)
  \/ CommitStatus(r) \/ ReadSessions(r) \/ admin_audit(r)

Next ==
  \/ \E r \in Reqs : PublicStep(r) \/ AdminStep(r) \/ Close(r)
  \/ \E t \in Tokens : EndSession(t)

Spec == Init /\ [][Next]_vars
----------------------------------------------------------------------------
(* Properties                                                              *)

Requests == [op : Ops, user : SUBSET Users, cookie : SUBSET Tokens,
             target : SUBSET Users, word : SUBSET Passwords, seen : SUBSET Tokens]
Entries  == Standings \cup {"password_changed"}

\* Types of the rows, the requests and the entries of the audit log; an account has a hash and
\* a session an owner exactly while it is there.
TypeOK ==
  /\ standing \in [Users -> Standings]
  /\ hash \in [Users -> SUBSET Passwords] /\ madeWith \in [Tokens -> SUBSET Passwords]
  /\ session \in [Tokens -> {"unused", "valid", "ended"}] /\ owner \in [Tokens -> SUBSET Users]
  /\ \A u \in Users : hash[u] = {} <=> standing[u] = "absent"
  /\ \A t \in Tokens : owner[t] = {} <=> session[t] # "valid"
  /\ req \in [Reqs -> Requests]
  /\ entry \in [Reqs -> SUBSET Entries]
  /\ raced \subseteq Tokens \cup Reqs /\ wrote \subseteq Reqs /\ overtaken \in BOOLEAN

\* Whoever holds a session knows the account's present password, through any number of resets
\* and concurrent logins: only a login that a reset overlapped leaves a session of an older
\* one, and a registration that lost the race for its address gets none.
SessionsEarned ==
  \A t \in Tokens \ raced : session[t] = "valid" => \A u \in owner[t] : madeWith[t] = hash[u]

\* The site never loses its last administrator, unless one was suspended while his own request,
\* checked before, was still to be committed.
AdminsRemain == (\E a \in Admins : standing[a] = "active") \/ overtaken
----------------------------------------------------------------------------
(* What the code and its tests say and the code refutes.                   *)

\* "Account password was changed by an administrator." (admin_audit_middleware.py:38): an entry
\* is about a change.
AuditTrue == \A r \in Reqs : "password_changed" \in entry[r] => r \in wrote

\* test_admin_can_change_host_password_and_revoke_sessions (tests/test_admin_password.py:34):
\* no session made with an older password is left.
OldSessionsRevoked ==
  \A t \in Tokens : session[t] = "valid" => \A u \in owner[t] : madeWith[t] = hash[u]

\* "You cannot disable your own administrator account." (admin.py:172): nor all of them.
AdministratorLeft == \E a \in Admins : standing[a] = "active"
=============================================================================
