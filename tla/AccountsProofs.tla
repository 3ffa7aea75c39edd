--------------------------- MODULE AccountsProofs ---------------------------
(* Accounts, for every set of users, tokens and requests: its types, SessionsEarned and *)
(* AdminsRemain, from one inductive invariant.                                          *)
EXTENDS Accounts, TLAPS

Changing == {"enable", "disable", "hash", "revoke"}

\* A session is somebody's, and he has an account.
SessionInv ==
  \A t \in Tokens : session[t] = "valid" => \E u \in Users : owner[t] = {u} /\ standing[u] # "absent"

\* A login that no reset overlapped still holds the account's present password.
LoginInv ==
  \A r \in Reqs : req[r].op = "session" =>
    \E u \in Users : /\ req[r].user = {u} /\ standing[u] # "absent"
                     /\ r \notin raced => req[r].word = hash[u]

\* An administrator's request: its target has an account, its session is still its user's if
\* it is still valid, and it does not disable its user.
AdminInv ==
  \A r \in Reqs : req[r].op \in Changing =>
    \E a \in Admins, v \in Users :
      /\ req[r].user = {a} /\ req[r].target = {v} /\ standing[v] # "absent"
      /\ req[r].op = "disable" => a # v
      /\ \A t \in req[r].cookie : session[t] # "unused" /\ (session[t] = "valid" => owner[t] = {a})

\* A reset has read every session of its target that is not its own and that no login made
\* meanwhile: those of the latter are marked.
RevokeInv ==
  \A r \in Reqs : req[r].op = "revoke" =>
    \A t \in Tokens \ raced :
      session[t] = "valid" /\ owner[t] = req[r].target => t \in req[r].seen \/ t \in Own(r)

IInv == TypeOK /\ SessionInv /\ LoginInv /\ AdminInv /\ RevokeInv /\ SessionsEarned /\ AdminsRemain

\* A reset that has read the sessions is a request.
LEMMA ReadRequest ==
  ASSUME NEW q \in Requests, NEW S \in SUBSET Tokens
  PROVE  [q EXCEPT !.op = "revoke", !.seen = S] \in Requests
BY DEF Requests, Ops

\* A new account has no session, and its request holds its password.
LEMMA RegisterKeeps ==
  ASSUME IInv, NEW r \in Reqs, NEW u \in Users, NEW w \in Passwords, register(r, u, w)
  PROVE  IInv'
<1> USE AccountsAssumption DEF IInv, register, Admit, Idle, rows, history
<1>1. TypeOK'
  BY ZenonT(30) DEF TypeOK, Standings, Ops, Requests, Entries
<1>2. SessionInv'
  BY DEF TypeOK, SessionInv, AdminInv, LoginInv, Changing
<1>3. LoginInv'
  BY DEF TypeOK, SessionInv, AdminInv, LoginInv, Changing
<1>4. AdminInv'
  BY DEF TypeOK, SessionInv, AdminInv, LoginInv, Changing
<1>5. RevokeInv'
  BY DEF TypeOK, SessionInv, AdminInv, LoginInv, RevokeInv, Own, Changing
<1>6. SessionsEarned'
  BY DEF TypeOK, SessionInv, AdminInv, LoginInv, RevokeInv, SessionsEarned, Own, Changing
<1>7. AdminsRemain'
  BY DEF TypeOK, SessionInv, AdminInv, AdminsRemain, Changing
<1> QED
  BY <1>1, <1>2, <1>3, <1>4, <1>5, <1>6, <1>7

\* A login holds the password it was checked with, the account's present one.
LEMMA LoginKeeps ==
  ASSUME IInv, NEW r \in Reqs, NEW u \in Users, NEW w \in Passwords, login(r, u, w)
  PROVE  IInv'
<1> USE AccountsAssumption DEF IInv, login, Admit, Idle, rows, history
<1>1. TypeOK'
  BY ZenonT(30) DEF TypeOK, Standings, Ops, Requests, Entries
<1>2. SessionInv'
  BY DEF TypeOK, SessionInv, AdminInv, LoginInv, Changing
<1>3. LoginInv'
  <2> SUFFICES ASSUME NEW s \in Reqs, req'[s].op = "session"
               PROVE  \E v \in Users :
                        /\ req'[s].user = {v} /\ standing'[v] # "absent"
                        /\ s \notin raced' => req'[s].word = hash'[v]
    BY DEF LoginInv
  <2>1. CASE s = r
    <3>1. req'[s].user = {u} /\ req'[s].word = {w}
      BY <2>1 DEF TypeOK
    <3>2. hash'[u] = {w} /\ standing'[u] = "active"
      BY DEF TypeOK
    <3> QED
      BY <3>1, <3>2
  <2>2. CASE s # r
    <3>1. req'[s] = req[s]
      BY <2>2 DEF TypeOK
    <3>2. PICK v \in Users :
            /\ req[s].user = {v} /\ standing[v] # "absent"
            /\ s \notin raced => req[s].word = hash[v]
      BY <3>1 DEF LoginInv
    <3> QED
      BY <2>2, <3>1, <3>2 DEF TypeOK, AdminInv, Changing
  <2> QED
    BY <2>1, <2>2
<1>4. AdminInv'
  BY DEF TypeOK, SessionInv, AdminInv, LoginInv, Changing
<1>5. RevokeInv'
  BY DEF TypeOK, SessionInv, AdminInv, LoginInv, RevokeInv, Own, Changing
<1>6. SessionsEarned'
  BY DEF TypeOK, SessionInv, AdminInv, LoginInv, RevokeInv, SessionsEarned, Own, Changing
<1>7. AdminsRemain'
  BY DEF TypeOK, SessionInv, AdminInv, AdminsRemain, Changing
<1> QED
  BY <1>1, <1>2, <1>3, <1>4, <1>5, <1>6, <1>7

\* A session made while a reset is on is marked; any other holds the present password.
LEMMA NewSessionKeeps ==
  ASSUME IInv, NEW r \in Reqs, NEW t \in Tokens, new_session(r, t)
  PROVE  IInv'
<1> USE AccountsAssumption DEF IInv, new_session, Revoking, Idle, rows, history
<1>1. TypeOK'
  <2>1. standing' \in [Users -> Standings] /\ session' \in [Tokens -> {"unused", "valid", "ended"}]
    BY DEF TypeOK, Standings
  <2>2. hash' \in [Users -> SUBSET Passwords] /\ madeWith' \in [Tokens -> SUBSET Passwords]
    BY DEF TypeOK, Requests
  <2>3. owner' \in [Tokens -> SUBSET Users]
    BY DEF TypeOK, Requests
  <2>4. \A v \in Users : hash'[v] = {} <=> standing'[v] = "absent"
    BY DEF TypeOK, AdminInv, Changing, Standings
  <2>5. \A s \in Tokens : owner'[s] = {} <=> session'[s] # "valid"
    BY ZenonT(30) DEF TypeOK, LoginInv
  <2>6. req' \in [Reqs -> Requests]
    BY DEF TypeOK, Requests, Ops
  <2>7. entry' \in [Reqs -> SUBSET Entries]
    BY DEF TypeOK, Entries
  <2>8. raced' \subseteq Tokens \cup Reqs /\ wrote' \subseteq Reqs /\ overtaken' \in BOOLEAN
    BY DEF TypeOK
  <2> QED
    BY <2>1, <2>2, <2>3, <2>4, <2>5, <2>6, <2>7, <2>8 DEF TypeOK
<1>2. SessionInv'
  <2> SUFFICES ASSUME NEW s \in Tokens, session'[s] = "valid"
               PROVE  \E v \in Users : owner'[s] = {v} /\ standing'[v] # "absent"
    BY DEF SessionInv
  <2>1. CASE s = t
    BY <2>1 DEF TypeOK, LoginInv
  <2>2. CASE s # t
    BY <2>2 DEF TypeOK, SessionInv
  <2> QED
    BY <2>1, <2>2
<1>3. LoginInv'
  BY DEF TypeOK, SessionInv, AdminInv, LoginInv, Changing
<1>4. AdminInv'
  BY DEF TypeOK, SessionInv, AdminInv, LoginInv, Changing
<1>5. RevokeInv'
  BY DEF TypeOK, SessionInv, AdminInv, LoginInv, RevokeInv, Own, Changing
<1>6. SessionsEarned'
  BY DEF TypeOK, SessionInv, AdminInv, LoginInv, RevokeInv, SessionsEarned, Own, Changing
<1>7. AdminsRemain'
  BY DEF TypeOK, SessionInv, AdminInv, AdminsRemain, Changing
<1> QED
  BY <1>1, <1>2, <1>3, <1>4, <1>5, <1>6, <1>7

\* The end of a session leaves the others alone.
LEMMA EndSessionKeeps ==
  ASSUME IInv, NEW t \in Tokens, EndSession(t)
  PROVE  IInv'
<1> USE AccountsAssumption DEF IInv, EndSession, End, Clear, rows, history
<1>1. TypeOK'
  BY DEF TypeOK, Standings, Ops, Requests, Entries
<1>2. SessionInv'
  BY DEF TypeOK, SessionInv, AdminInv, LoginInv, Changing
<1>3. LoginInv'
  BY DEF TypeOK, SessionInv, AdminInv, LoginInv, Changing
<1>4. AdminInv'
  <2>1. \A s \in Reqs : req[s].cookie \subseteq Tokens
    BY DEF TypeOK, Requests
  <2>2. \A c \in Tokens : session'[c] # "unused" <=> session[c] # "unused"
    BY DEF TypeOK
  <2>3. \A c \in Tokens : session'[c] = "valid" => session[c] = "valid" /\ owner'[c] = owner[c]
    BY DEF TypeOK
  <2> QED
    BY <2>1, <2>2, <2>3 DEF AdminInv
<1>5. RevokeInv'
  BY DEF TypeOK, SessionInv, AdminInv, LoginInv, RevokeInv, Own, Changing
<1>6. SessionsEarned'
  BY DEF TypeOK, SessionInv, AdminInv, LoginInv, RevokeInv, SessionsEarned, Own, Changing
<1>7. AdminsRemain'
  BY DEF TypeOK, SessionInv, AdminInv, AdminsRemain, Changing
<1> QED
  BY <1>1, <1>2, <1>3, <1>4, <1>5, <1>6, <1>7

\* The form for an account's status is another's unless it enables.
LEMMA UserStatusKeeps ==
  ASSUME IInv, NEW r \in Reqs, NEW t \in Tokens, NEW target \in Users,
         NEW active \in BOOLEAN, user_status(r, t, target, active)
  PROVE  IInv'
<1> USE AccountsAssumption DEF IInv, user_status, require_admin, user_from_session_token, MaySet,
    Answered, Idle, rows, history
<1>0. PICK a \in Admins :
        /\ a \in owner[t]
        /\ req'[r] \in Requests /\ req'[r].op \in {"status_changed", "enable", "disable"}
        /\ req'[r].cookie = {t} /\ req'[r].target = {target}
        /\ req'[r].op # "status_changed" => req'[r].user = {a}
        /\ req'[r].op = "disable" => a # target
        /\ req' = [req EXCEPT ![r] = req'[r]]
  <2>1. PICK a \in require_admin(t) :
          /\ MaySet(a, target, active)
          /\ req' = [req EXCEPT ![r] =
               IF (standing[target] = "active") = active THEN Answered("status_changed", {t}, {target})
               ELSE [Answered(IF active THEN "enable" ELSE "disable", {t}, {target}) EXCEPT !.user = {a}]]
    BY DEF user_status
  <2>2. a \in Admins /\ a \in owner[t]
    BY <2>1
  <2>3. CASE req' = [req EXCEPT ![r] = Answered("status_changed", {t}, {target})]
    <3>1. req'[r] = [op |-> "status_changed", user |-> {}, cookie |-> {t},
                     target |-> {target}, word |-> {}, seen |-> {}]
      BY <2>3 DEF TypeOK
    <3>2. req'[r] \in Requests
      BY <2>2, <3>1 DEF Requests, Ops
    <3>3. req' = [req EXCEPT ![r] = req'[r]]
      BY <2>3, <3>1
    <3> QED
      BY <2>2, <3>1, <3>2, <3>3
  <2>4. CASE active /\ req' = [req EXCEPT ![r] = [Answered("enable", {t}, {target}) EXCEPT !.user = {a}]]
    <3>1. req'[r] = [op |-> "enable", user |-> {a}, cookie |-> {t},
                     target |-> {target}, word |-> {}, seen |-> {}]
      BY <2>4 DEF TypeOK
    <3>2. req'[r] \in Requests
      BY <2>2, <3>1 DEF Requests, Ops
    <3>3. req' = [req EXCEPT ![r] = req'[r]]
      BY <2>4, <3>1
    <3> QED
      BY <2>2, <3>1, <3>2, <3>3
  <2>5. CASE ~active /\ req' = [req EXCEPT ![r] = [Answered("disable", {t}, {target}) EXCEPT !.user = {a}]]
    <3>1. req'[r] = [op |-> "disable", user |-> {a}, cookie |-> {t},
                     target |-> {target}, word |-> {}, seen |-> {}]
      BY <2>5 DEF TypeOK
    <3>2. a # target
      BY <2>1, <2>5
    <3>3. req'[r] \in Requests
      BY <2>2, <3>1 DEF Requests, Ops
    <3>4. req' = [req EXCEPT ![r] = req'[r]]
      BY <2>5, <3>1
    <3> QED
      BY <2>2, <3>1, <3>2, <3>3, <3>4
  <2> QED
    BY <2>1, <2>3, <2>4, <2>5
<1>1. TypeOK'
  <2>1. standing' \in [Users -> Standings] /\ session' \in [Tokens -> {"unused", "valid", "ended"}]
    BY DEF TypeOK, Standings
  <2>2. hash' \in [Users -> SUBSET Passwords] /\ madeWith' \in [Tokens -> SUBSET Passwords]
    BY DEF TypeOK, Own
  <2>3. owner' \in [Tokens -> SUBSET Users]
    BY DEF TypeOK
  <2>4. \A v \in Users : hash'[v] = {} <=> standing'[v] = "absent"
    BY DEF TypeOK, AdminInv, Changing, Standings
  <2>5. \A s \in Tokens : owner'[s] = {} <=> session'[s] # "valid"
    BY DEF TypeOK, LoginInv
  <2>6. req' \in [Reqs -> Requests]
    BY <1>0 DEF TypeOK
  <2>7. entry' \in [Reqs -> SUBSET Entries]
    BY DEF TypeOK, Entries
  <2>8. raced' \subseteq Tokens \cup Reqs /\ wrote' \subseteq Reqs /\ overtaken' \in BOOLEAN
    BY DEF TypeOK
  <2> QED
    BY <2>1, <2>2, <2>3, <2>4, <2>5, <2>6, <2>7, <2>8 DEF TypeOK
<1>2. SessionInv'
  BY DEF TypeOK, SessionInv, AdminInv, LoginInv, Changing
<1>3. LoginInv'
  BY DEF TypeOK, SessionInv, AdminInv, LoginInv, Changing
<1>4. AdminInv'
  <2> SUFFICES ASSUME NEW s \in Reqs, req'[s].op \in Changing
               PROVE  \E b \in Admins, v \in Users :
                        /\ req'[s].user = {b} /\ req'[s].target = {v} /\ standing'[v] # "absent"
                        /\ req'[s].op = "disable" => b # v
                        /\ \A c \in req'[s].cookie :
                             session'[c] # "unused" /\ (session'[c] = "valid" => owner'[c] = {b})
    BY DEF AdminInv
  <2>1. CASE s = r
    BY <1>0, <2>1 DEF TypeOK, SessionInv, Changing
  <2>2. CASE s # r
    <3>1. req'[s] = req[s]
      BY <1>0, <2>2 DEF TypeOK
    <3>2. PICK b \in Admins, v \in Users :
            /\ req[s].user = {b} /\ req[s].target = {v} /\ standing[v] # "absent"
            /\ req[s].op = "disable" => b # v
            /\ \A c \in req[s].cookie : session[c] # "unused" /\ (session[c] = "valid" => owner[c] = {b})
      BY <3>1 DEF AdminInv
    <3>3. standing'[v] # "absent"
      BY <3>2 DEF TypeOK
    <3>4. \A c \in req[s].cookie : session'[c] # "unused" /\ (session'[c] = "valid" => owner'[c] = {b})
      BY <3>2 DEF TypeOK
    <3> QED
      BY <3>1, <3>2, <3>3, <3>4
  <2> QED
    BY <2>1, <2>2
<1>5. RevokeInv'
  BY DEF TypeOK, SessionInv, AdminInv, LoginInv, RevokeInv, Own, Changing
<1>6. SessionsEarned'
  BY DEF TypeOK, SessionInv, AdminInv, LoginInv, RevokeInv, SessionsEarned, Own, Changing
<1>7. AdminsRemain'
  BY DEF TypeOK, SessionInv, AdminInv, AdminsRemain, Changing
<1> QED
  BY <1>1, <1>2, <1>3, <1>4, <1>5, <1>6, <1>7

\* A disabling leaves its own administrator active, unless he was overtaken.
LEMMA CommitStatusKeeps ==
  ASSUME IInv, NEW r \in Reqs, CommitStatus(r)
  PROVE  IInv'
<1> USE AccountsAssumption DEF IInv, CommitStatus, Answered, Idle, Suspended, rows, history
<1>1. TypeOK'
  <2>1. standing' \in [Users -> Standings] /\ session' \in [Tokens -> {"unused", "valid", "ended"}]
    BY DEF TypeOK, Standings
  <2>2. hash' \in [Users -> SUBSET Passwords] /\ madeWith' \in [Tokens -> SUBSET Passwords]
    BY DEF TypeOK, Own
  <2>3. owner' \in [Tokens -> SUBSET Users]
    BY DEF TypeOK
  <2>4. \A v \in Users : hash'[v] = {} <=> standing'[v] = "absent"
    BY DEF TypeOK, AdminInv, Changing, Standings
  <2>5. \A s \in Tokens : owner'[s] = {} <=> session'[s] # "valid"
    BY DEF TypeOK, LoginInv
  <2>6. req' \in [Reqs -> Requests]
    BY DEF TypeOK, Requests, Ops
  <2>7. entry' \in [Reqs -> SUBSET Entries]
    BY DEF TypeOK, Entries
  <2>8. raced' \subseteq Tokens \cup Reqs /\ wrote' \subseteq Reqs /\ overtaken' \in BOOLEAN
    BY DEF TypeOK
  <2> QED
    BY <2>1, <2>2, <2>3, <2>4, <2>5, <2>6, <2>7, <2>8 DEF TypeOK
<1>2. SessionInv'
  BY DEF TypeOK, SessionInv, AdminInv, LoginInv, Changing
<1>3. LoginInv'
  BY DEF TypeOK, SessionInv, AdminInv, LoginInv, Changing
<1>4. AdminInv'
  BY DEF TypeOK, SessionInv, AdminInv, LoginInv, Changing
<1>5. RevokeInv'
  BY DEF TypeOK, SessionInv, AdminInv, LoginInv, RevokeInv, Own, Changing
<1>6. SessionsEarned'
  BY DEF TypeOK, SessionInv, AdminInv, LoginInv, RevokeInv, SessionsEarned, Own, Changing
<1>7. AdminsRemain'
  BY DEF TypeOK, SessionInv, AdminInv, AdminsRemain, Changing
<1> QED
  BY <1>1, <1>2, <1>3, <1>4, <1>5, <1>6, <1>7

\* The form for a new password starts a reset, or is refused.
LEMMA UserPasswordKeeps ==
  ASSUME IInv, NEW r \in Reqs, NEW t \in Tokens, NEW target \in Users, user_password(r, t, target)
  PROVE  IInv'
<1> USE AccountsAssumption DEF IInv, user_password, require_admin, user_from_session_token,
    Answered, Idle, rows, history
<1>0. PICK a \in Admins :
        /\ a \in owner[t]
        /\ req'[r] \in Requests /\ req'[r].op \in {"password_answered", "hash"}
        /\ req'[r].cookie = {t} /\ req'[r].target = {target}
        /\ req'[r].op = "hash" => req'[r].user = {a}
        /\ req' = [req EXCEPT ![r] = req'[r]]
  <2>1. PICK a \in require_admin(t) :
          \/ req' = [req EXCEPT ![r] = Answered("password_answered", {t}, {target})]
          \/ req' = [req EXCEPT ![r] = [Answered("hash", {t}, {target}) EXCEPT !.user = {a}]]
    BY DEF user_password
  <2>2. a \in Admins /\ a \in owner[t]
    BY <2>1
  <2>3. CASE req' = [req EXCEPT ![r] = Answered("password_answered", {t}, {target})]
    <3>1. req'[r] = [op |-> "password_answered", user |-> {}, cookie |-> {t},
                     target |-> {target}, word |-> {}, seen |-> {}]
      BY <2>3 DEF TypeOK
    <3>2. req'[r] \in Requests
      BY <2>2, <3>1 DEF Requests, Ops
    <3>3. req' = [req EXCEPT ![r] = req'[r]]
      BY <2>3, <3>1
    <3> QED
      BY <2>2, <3>1, <3>2, <3>3
  <2>4. CASE req' = [req EXCEPT ![r] = [Answered("hash", {t}, {target}) EXCEPT !.user = {a}]]
    <3>1. req'[r] = [op |-> "hash", user |-> {a}, cookie |-> {t},
                     target |-> {target}, word |-> {}, seen |-> {}]
      BY <2>4 DEF TypeOK
    <3>2. req'[r] \in Requests
      BY <2>2, <3>1 DEF Requests, Ops
    <3>3. req' = [req EXCEPT ![r] = req'[r]]
      BY <2>4, <3>1
    <3> QED
      BY <2>2, <3>1, <3>2, <3>3
  <2> QED
    BY <2>1, <2>3, <2>4
<1>1. TypeOK'
  <2>1. standing' \in [Users -> Standings] /\ session' \in [Tokens -> {"unused", "valid", "ended"}]
    BY DEF TypeOK, Standings
  <2>2. hash' \in [Users -> SUBSET Passwords] /\ madeWith' \in [Tokens -> SUBSET Passwords]
    BY DEF TypeOK, Own
  <2>3. owner' \in [Tokens -> SUBSET Users]
    BY DEF TypeOK
  <2>4. \A v \in Users : hash'[v] = {} <=> standing'[v] = "absent"
    BY DEF TypeOK, AdminInv, Changing, Standings
  <2>5. \A s \in Tokens : owner'[s] = {} <=> session'[s] # "valid"
    BY DEF TypeOK, LoginInv
  <2>6. req' \in [Reqs -> Requests]
    BY <1>0 DEF TypeOK
  <2>7. entry' \in [Reqs -> SUBSET Entries]
    BY DEF TypeOK, Entries
  <2>8. raced' \subseteq Tokens \cup Reqs /\ wrote' \subseteq Reqs /\ overtaken' \in BOOLEAN
    BY DEF TypeOK
  <2> QED
    BY <2>1, <2>2, <2>3, <2>4, <2>5, <2>6, <2>7, <2>8 DEF TypeOK
<1>2. SessionInv'
  BY DEF TypeOK, SessionInv, AdminInv, LoginInv, Changing
<1>3. LoginInv'
  <2> SUFFICES ASSUME NEW s \in Reqs, req'[s].op = "session"
               PROVE  \E v \in Users :
                        /\ req'[s].user = {v} /\ standing'[v] # "absent"
                        /\ s \notin raced' => req'[s].word = hash'[v]
    BY DEF LoginInv
  <2>1. CASE s = r
    BY <1>0, <2>1 DEF TypeOK
  <2>2. CASE s # r
    <3>1. req'[s] = req[s]
      BY <1>0, <2>2 DEF TypeOK
    <3>2. PICK v \in Users :
            /\ req[s].user = {v} /\ standing[v] # "absent"
            /\ s \notin raced => req[s].word = hash[v]
      BY <3>1 DEF LoginInv
    <3> QED
      BY <2>2, <3>1, <3>2 DEF TypeOK, AdminInv, Changing
  <2> QED
    BY <2>1, <2>2
<1>4. AdminInv'
  <2> SUFFICES ASSUME NEW s \in Reqs, req'[s].op \in Changing
               PROVE  \E b \in Admins, v \in Users :
                        /\ req'[s].user = {b} /\ req'[s].target = {v} /\ standing'[v] # "absent"
                        /\ req'[s].op = "disable" => b # v
                        /\ \A c \in req'[s].cookie :
                             session'[c] # "unused" /\ (session'[c] = "valid" => owner'[c] = {b})
    BY DEF AdminInv
  <2>1. CASE s = r
    BY <1>0, <2>1 DEF TypeOK, SessionInv, Changing
  <2>2. CASE s # r
    <3>1. req'[s] = req[s]
      BY <1>0, <2>2 DEF TypeOK
    <3>2. PICK b \in Admins, v \in Users :
            /\ req[s].user = {b} /\ req[s].target = {v} /\ standing[v] # "absent"
            /\ req[s].op = "disable" => b # v
            /\ \A c \in req[s].cookie : session[c] # "unused" /\ (session[c] = "valid" => owner[c] = {b})
      BY <3>1 DEF AdminInv
    <3>3. standing'[v] # "absent"
      BY <3>2 DEF TypeOK
    <3>4. \A c \in req[s].cookie : session'[c] # "unused" /\ (session'[c] = "valid" => owner'[c] = {b})
      BY <3>2 DEF TypeOK
    <3> QED
      BY <3>1, <3>2, <3>3, <3>4
  <2> QED
    BY <2>1, <2>2
<1>5. RevokeInv'
  <2> SUFFICES ASSUME NEW s \in Reqs, req'[s].op = "revoke", NEW c \in Tokens \ raced',
                      session'[c] = "valid", owner'[c] = req'[s].target
               PROVE  c \in req'[s].seen \/ c \in Own(s)'
    BY DEF RevokeInv
  <2>1. s # r
    BY <1>0 DEF TypeOK
  <2>2. req'[s] = req[s]
    BY <1>0, <2>1 DEF TypeOK
  <2> QED
    BY <2>2 DEF RevokeInv, Own
<1>6. SessionsEarned'
  BY DEF TypeOK, SessionInv, AdminInv, LoginInv, RevokeInv, SessionsEarned, Own, Changing
<1>7. AdminsRemain'
  BY DEF TypeOK, SessionInv, AdminInv, AdminsRemain, Changing
<1> QED
  BY <1>1, <1>2, <1>3, <1>4, <1>5, <1>6, <1>7

\* The reset reads every session that is not its own.
LEMMA ReadSessionsKeeps ==
  ASSUME IInv, NEW r \in Reqs, ReadSessions(r)
  PROVE  IInv'
<1> USE AccountsAssumption DEF IInv, ReadSessions, rows, history
<1>1. TypeOK'
  <2>1. standing' \in [Users -> Standings] /\ session' \in [Tokens -> {"unused", "valid", "ended"}]
    BY DEF TypeOK, Standings
  <2>2. hash' \in [Users -> SUBSET Passwords] /\ madeWith' \in [Tokens -> SUBSET Passwords]
    BY DEF TypeOK, Own
  <2>3. owner' \in [Tokens -> SUBSET Users]
    BY DEF TypeOK
  <2>4. \A v \in Users : hash'[v] = {} <=> standing'[v] = "absent"
    BY DEF TypeOK, AdminInv, Changing, Standings
  <2>5. \A s \in Tokens : owner'[s] = {} <=> session'[s] # "valid"
    BY DEF TypeOK, LoginInv
  <2>6. req' \in [Reqs -> Requests]
    <3>1. PICK S \in SUBSET Tokens : req' = [req EXCEPT ![r].op = "revoke", ![r].seen = S]
      OBVIOUS
    <3>2. req'[r] = [req[r] EXCEPT !.op = "revoke", !.seen = S]
      BY <3>1 DEF TypeOK
    <3>3. req'[r] \in Requests
      BY <3>2, ReadRequest DEF TypeOK
    <3> QED
      BY <3>1, <3>3 DEF TypeOK
  <2>7. entry' \in [Reqs -> SUBSET Entries]
    BY DEF TypeOK, Entries
  <2>8. raced' \subseteq Tokens \cup Reqs /\ wrote' \subseteq Reqs /\ overtaken' \in BOOLEAN
    BY DEF TypeOK
  <2> QED
    BY <2>1, <2>2, <2>3, <2>4, <2>5, <2>6, <2>7, <2>8 DEF TypeOK
<1>2. SessionInv'
  BY DEF TypeOK, SessionInv, AdminInv, LoginInv, Changing
<1>3. LoginInv'
  BY DEF TypeOK, SessionInv, AdminInv, LoginInv, Changing
<1>4. AdminInv'
  BY DEF TypeOK, SessionInv, AdminInv, LoginInv, Changing
<1>5. RevokeInv'
  BY DEF TypeOK, SessionInv, AdminInv, LoginInv, RevokeInv, Own, Changing
<1>6. SessionsEarned'
  BY DEF TypeOK, SessionInv, AdminInv, LoginInv, RevokeInv, SessionsEarned, Own, Changing
<1>7. AdminsRemain'
  BY DEF TypeOK, SessionInv, AdminInv, AdminsRemain, Changing
<1> QED
  BY <1>1, <1>2, <1>3, <1>4, <1>5, <1>6, <1>7

\* The reset ends what it read and marks the logins that are under way.
LEMMA CommitPasswordKeeps ==
  ASSUME IInv, NEW r \in Reqs, NEW w \in Passwords, CommitPassword(r, w)
  PROVE  IInv'
<1> USE AccountsAssumption DEF IInv, CommitPassword, End, Clear, Revoked, Answered, Idle, rows, history
<1>1. TypeOK'
  <2>1. standing' \in [Users -> Standings] /\ session' \in [Tokens -> {"unused", "valid", "ended"}]
    BY DEF TypeOK, Standings
  <2>2. hash' \in [Users -> SUBSET Passwords] /\ madeWith' \in [Tokens -> SUBSET Passwords]
    BY DEF TypeOK, Own
  <2>3. owner' \in [Tokens -> SUBSET Users]
    BY DEF TypeOK
  <2>4. \A v \in Users : hash'[v] = {} <=> standing'[v] = "absent"
    <3>1. PICK v \in Users : req[r].target = {v} /\ standing[v] # "absent"
      BY DEF AdminInv, Changing
    <3> QED
      BY <3>1 DEF TypeOK
  <2>5. \A s \in Tokens : owner'[s] = {} <=> session'[s] # "valid"
    BY DEF TypeOK, LoginInv
  <2>6. req' \in [Reqs -> Requests]
    BY DEF TypeOK, Requests, Ops
  <2>7. entry' \in [Reqs -> SUBSET Entries]
    BY DEF TypeOK, Entries
  <2>8. raced' \subseteq Tokens \cup Reqs /\ wrote' \subseteq Reqs /\ overtaken' \in BOOLEAN
    BY DEF TypeOK
  <2> QED
    BY <2>1, <2>2, <2>3, <2>4, <2>5, <2>6, <2>7, <2>8 DEF TypeOK
<1>2. SessionInv'
  BY DEF TypeOK, SessionInv, AdminInv, LoginInv, Changing
<1>3. LoginInv'
  <2> SUFFICES ASSUME NEW s \in Reqs, req'[s].op = "session"
               PROVE  \E v \in Users :
                        /\ req'[s].user = {v} /\ standing'[v] # "absent"
                        /\ s \notin raced' => req'[s].word = hash'[v]
    BY DEF LoginInv
  <2>1. CASE s = r
    BY <2>1 DEF TypeOK, Standings
  <2>2. CASE s # r
    <3>1. req'[s] = req[s]
      BY <2>2 DEF TypeOK
    <3>2. PICK v \in Users :
            /\ req[s].user = {v} /\ standing[v] # "absent"
            /\ s \notin raced => req[s].word = hash[v]
      BY <3>1 DEF LoginInv
    <3>3. ASSUME s \notin raced' PROVE s \notin raced /\ req[s].user # req[r].target
      <4>1. s \notin Revoked(r)
        BY DEF TypeOK, Requests
      <4> QED
        BY <3>1, <3>3, <4>1 DEF TypeOK
    <3>4. PICK x \in Users : req[r].target = {x}
      BY DEF AdminInv, Changing
    <3>5. ASSUME s \notin raced' PROVE req'[s].word = hash'[v]
      BY <3>1, <3>2, <3>3, <3>4, <3>5 DEF TypeOK
    <3> QED
      BY <3>1, <3>2, <3>5
  <2> QED
    BY <2>1, <2>2
<1>4. AdminInv'
  <2> SUFFICES ASSUME NEW s \in Reqs, req'[s].op \in Changing
               PROVE  \E a \in Admins, v \in Users :
                        /\ req'[s].user = {a} /\ req'[s].target = {v} /\ standing'[v] # "absent"
                        /\ req'[s].op = "disable" => a # v
                        /\ \A c \in req'[s].cookie :
                             session'[c] # "unused" /\ (session'[c] = "valid" => owner'[c] = {a})
    BY DEF AdminInv
  <2>1. CASE s = r
    BY <2>1 DEF TypeOK, SessionInv, Changing
  <2>2. CASE s # r
    <3>1. req'[s] = req[s]
      BY <2>2 DEF TypeOK
    <3>2. PICK a \in Admins, v \in Users :
            /\ req[s].user = {a} /\ req[s].target = {v} /\ standing[v] # "absent"
            /\ req[s].op = "disable" => a # v
            /\ \A c \in req[s].cookie : session[c] # "unused" /\ (session[c] = "valid" => owner[c] = {a})
      BY <3>1 DEF AdminInv
    <3>3. standing'[v] # "absent"
      BY <3>2 DEF TypeOK
    <3>4. \A c \in req[s].cookie : session'[c] # "unused" /\ (session'[c] = "valid" => owner'[c] = {a})
      <4>1. req[s].cookie \subseteq Tokens
        BY DEF TypeOK, Requests
      <4> QED
        BY <3>2, <4>1 DEF TypeOK
    <3> HIDE DEF IInv, CommitPassword, End, Clear, Revoked, Answered
    <3> QED
      BY <3>1, <3>2, <3>3, <3>4
  <2> QED
    BY <2>1, <2>2
<1>5. RevokeInv'
  BY DEF TypeOK, SessionInv, AdminInv, LoginInv, RevokeInv, Own, Changing
<1>6. SessionsEarned'
  <2> SUFFICES ASSUME NEW c \in Tokens \ raced', session'[c] = "valid", NEW v \in owner'[c]
               PROVE  madeWith'[c] = hash'[v]
    BY DEF SessionsEarned
  <2>1. /\ c \notin Revoked(r) /\ c \notin raced
        /\ session[c] = "valid" /\ owner'[c] = owner[c] /\ v \in Users
    BY DEF TypeOK
  <2>2. PICK a \in Admins, x \in Users :
          /\ req[r].user = {a} /\ req[r].target = {x}
          /\ \A s \in req[r].cookie : session[s] = "valid" => owner[s] = {a}
    BY DEF AdminInv, Changing
  <2>3. PICK z \in Users : owner[c] = {z}
    BY <2>1 DEF SessionInv
  <2>4. CASE c \in Own(r)
    <3>1. owner[c] = {a} /\ a = x
      BY <2>1, <2>2, <2>4 DEF Own
    <3>2. madeWith'[c] = {w}
      BY <2>4
    <3> QED
      BY <2>1, <2>2, <3>1, <3>2 DEF TypeOK
  <2>5. CASE c \notin Own(r)
    <3>1. owner[c] # {x}
      BY <2>1, <2>2, <2>5 DEF RevokeInv
    <3>2. madeWith'[c] = madeWith[c]
      BY <2>1, <2>5 DEF TypeOK
    <3>3. hash'[v] = hash[v]
      BY <2>1, <2>2, <2>3, <3>1 DEF TypeOK
    <3> QED
      BY <2>1, <3>2, <3>3 DEF SessionsEarned
  <2> QED
    BY <2>4, <2>5
<1>7. AdminsRemain'
  BY DEF TypeOK, SessionInv, AdminInv, AdminsRemain, Changing
<1> QED
  BY <1>1, <1>2, <1>3, <1>4, <1>5, <1>6, <1>7

\* The audit entry changes no row.
LEMMA AdminAuditKeeps ==
  ASSUME IInv, NEW r \in Reqs, admin_audit(r)
  PROVE  IInv'
<1> USE AccountsAssumption DEF IInv, admin_audit, Idle, rows, history
<1>1. TypeOK'
  BY DEF TypeOK, Standings, Ops, Requests, Entries
<1>2. SessionInv'
  BY DEF TypeOK, SessionInv, AdminInv, LoginInv, Changing
<1>3. LoginInv'
  BY DEF TypeOK, SessionInv, AdminInv, LoginInv, Changing
<1>4. AdminInv'
  <2> SUFFICES ASSUME NEW s \in Reqs, req'[s].op \in Changing
               PROVE  \E a \in Admins, v \in Users :
                        /\ req'[s].user = {a} /\ req'[s].target = {v} /\ standing'[v] # "absent"
                        /\ req'[s].op = "disable" => a # v
                        /\ \A c \in req'[s].cookie :
                             session'[c] # "unused" /\ (session'[c] = "valid" => owner'[c] = {a})
    BY DEF AdminInv
  <2>1. CASE s = r
    BY <2>1 DEF TypeOK, SessionInv, Changing
  <2>2. CASE s # r
    <3>1. req'[s] = req[s]
      BY <2>2 DEF TypeOK
    <3>2. PICK a \in Admins, v \in Users :
            /\ req[s].user = {a} /\ req[s].target = {v} /\ standing[v] # "absent"
            /\ req[s].op = "disable" => a # v
            /\ \A c \in req[s].cookie : session[c] # "unused" /\ (session[c] = "valid" => owner[c] = {a})
      BY <3>1 DEF AdminInv
    <3>3. standing'[v] # "absent"
      BY <3>2 DEF TypeOK
    <3>4. \A c \in req[s].cookie : session'[c] # "unused" /\ (session'[c] = "valid" => owner'[c] = {a})
      BY <3>2 DEF TypeOK
    <3> QED
      BY <3>1, <3>2, <3>3, <3>4
  <2> QED
    BY <2>1, <2>2
<1>5. RevokeInv'
  BY DEF TypeOK, SessionInv, AdminInv, LoginInv, RevokeInv, Own, Changing
<1>6. SessionsEarned'
  BY DEF TypeOK, SessionInv, AdminInv, LoginInv, RevokeInv, SessionsEarned, Own, Changing
<1>7. AdminsRemain'
  BY DEF TypeOK, SessionInv, AdminInv, AdminsRemain, Changing
<1> QED
  BY <1>1, <1>2, <1>3, <1>4, <1>5, <1>6, <1>7

\* A request that ends leaves only what it committed.
LEMMA CloseKeeps ==
  ASSUME IInv, NEW r \in Reqs, Close(r)
  PROVE  IInv'
<1> USE AccountsAssumption DEF IInv, Close, Idle, rows, history
<1>1. TypeOK'
  BY DEF TypeOK, Standings, Ops, Requests, Entries
<1>2. SessionInv'
  BY DEF TypeOK, SessionInv, AdminInv, LoginInv, Changing
<1>3. LoginInv'
  BY DEF TypeOK, SessionInv, AdminInv, LoginInv, Changing
<1>4. AdminInv'
  BY DEF TypeOK, SessionInv, AdminInv, LoginInv, Changing
<1>5. RevokeInv'
  BY DEF TypeOK, SessionInv, AdminInv, LoginInv, RevokeInv, Own, Changing
<1>6. SessionsEarned'
  BY DEF TypeOK, SessionInv, AdminInv, LoginInv, RevokeInv, SessionsEarned, Own, Changing
<1>7. AdminsRemain'
  BY DEF TypeOK, SessionInv, AdminInv, AdminsRemain, Changing
<1> QED
  BY <1>1, <1>2, <1>3, <1>4, <1>5, <1>6, <1>7

\* Nobody has a session before the site opens.
LEMMA InitInv == Init => IInv
<1> SUFFICES ASSUME Init PROVE IInv
  OBVIOUS
<1> USE AccountsAssumption DEF Init, Idle
<1>1. TypeOK
  <2>1. req \in [Reqs -> Requests]
    BY DEF Requests, Ops
  <2>2. hash \in [Users -> SUBSET Passwords]
    BY DEF Standings
  <2> QED
    BY <2>1, <2>2 DEF TypeOK, Standings, Entries
<1>2. SessionInv /\ SessionsEarned
  BY DEF SessionInv, SessionsEarned
<1>3. LoginInv /\ AdminInv /\ RevokeInv
  BY DEF LoginInv, AdminInv, RevokeInv, Changing
<1>4. AdminsRemain
  BY DEF AdminsRemain
<1> QED
  BY <1>1, <1>2, <1>3, <1>4 DEF IInv

\* Every step, and a stutter, keeps the invariant.
LEMMA NextInv == IInv /\ [Next]_vars => IInv'
<1> SUFFICES ASSUME IInv, [Next]_vars PROVE IInv'
  OBVIOUS
<1>1. CASE UNCHANGED vars
  BY <1>1 DEF vars, rows, history, IInv, TypeOK, SessionInv, LoginInv, AdminInv, RevokeInv,
              SessionsEarned, AdminsRemain, Own
<1>2. ASSUME NEW r \in Reqs, PublicStep(r) PROVE IInv'
  BY <1>2, RegisterKeeps, LoginKeeps, NewSessionKeeps DEF PublicStep
<1>3. ASSUME NEW r \in Reqs, AdminStep(r) PROVE IInv'
  BY <1>3, UserStatusKeeps, UserPasswordKeeps, CommitPasswordKeeps, CommitStatusKeeps,
     ReadSessionsKeeps, AdminAuditKeeps DEF AdminStep
<1>4. ASSUME NEW r \in Reqs, Close(r) PROVE IInv'
  BY <1>4, CloseKeeps
<1>5. ASSUME NEW t \in Tokens, EndSession(t) PROVE IInv'
  BY <1>5, EndSessionKeeps
<1> QED
  BY <1>1, <1>2, <1>3, <1>4, <1>5 DEF Next

\* The inductive invariant holds in every reachable state.
THEOREM Invariance == Spec => []IInv
  BY InitInv, NextInv, PTL DEF Spec

\* The rows, the requests and the audit entries keep their types (app/models.py).
THEOREM TypeCorrect == Spec => []TypeOK
<1>1. IInv => TypeOK
  BY DEF IInv
<1> QED
  BY Invariance, <1>1, PTL

\* A session that no reset overlapped was made with the account's present password
\* (app/admin.py:186, app/main.py:160).
THEOREM SessionsAreEarned == Spec => []SessionsEarned
<1>1. IInv => SessionsEarned
  BY DEF IInv
<1> QED
  BY Invariance, <1>1, PTL

\* The site keeps an administrator, unless one was suspended during his own request
\* (app/admin.py:170).
THEOREM AnAdminRemains == Spec => []AdminsRemain
<1>1. IInv => AdminsRemain
  BY DEF IInv
<1> QED
  BY Invariance, <1>1, PTL
=============================================================================
