------------------------- MODULE RequestLocksProofs -------------------------
(* RequestLocks, for any number of plain handlers and notices: its types, with one holder *)
(* of the lock and one coroutine on the loop, and that a standstill stays.                *)
EXTENDS RequestLocks, FiniteSetTheorems, TLAPS

\* The event loop is taken by the notice whose handler is under way, and by nothing else.
LoopInv == loop = {n \in Notices : phase[n] \in {"running", "waiting", "locked"}}

\* The lock belongs to a request that works under it, or that left without a commit and is not closed.
HolderInv ==
  /\ \A r \in Requests : phase[r] = "locked" => r \in holder
  /\ \A r \in holder : phase[r] \in {"locked", "over"}

\* The same with no counting: the lock has one holder and the loop runs one coroutine.
Single(S) == \A x, y \in S : x = y

IInv == TypeOK /\ LoopInv /\ HolderInv /\ Single(holder) /\ Single(loop)

LEMMA SingleIsSmall ==
  ASSUME NEW S, Single(S)
  PROVE  Cardinality(S) <= 1
<1>1. S = {} \/ \E x \in S : S = {x}
  BY DEF Single
<1>2. Cardinality(S) = 0 \/ Cardinality(S) = 1
  BY <1>1, FS_EmptySet, FS_Singleton
<1> QED
  BY <1>2

\* The types that the counting leaves.
Typed ==
  /\ phase \in [Requests -> {"idle", "sent", "running", "waiting", "locked", "over"}]
  /\ holder \subseteq Requests /\ loop \subseteq Notices /\ health \in {"idle", "sent"}

LEMMA Parts ==
  ASSUME Typed', LoopInv', HolderInv', Single(holder)', Single(loop)'
  PROVE  IInv'
<1>1. Cardinality(holder') <= 1 /\ Cardinality(loop') <= 1
  BY SingleIsSmall DEF Single
<1> QED
  BY <1>1 DEF IInv, TypeOK, Typed

LEMMA InitInv == Init => IInv
<1> SUFFICES ASSUME Init PROVE IInv
  OBVIOUS
<1>1. Cardinality({}) <= 1
  BY FS_EmptySet
<1>2. TypeOK
  BY <1>1 DEF Init, TypeOK
<1> QED
  BY <1>2 DEF Init, IInv, LoopInv, HolderInv, Single, Requests
-----------------------------------------------------------------------------
(* The steps.  A coroutine takes the loop only when it is free, so that the loop runs one. *)

LEMMA SendKeeps ==
  ASSUME IInv, NEW r \in Requests, Send(r)
  PROVE  IInv'
<1> USE DEF Send, To
<1>1. Typed' /\ Single(holder)' /\ Single(loop)'
  BY DEF IInv, TypeOK, Typed, Single
<1>2. LoopInv' /\ HolderInv'
  BY DEF IInv, TypeOK, LoopInv, HolderInv, Requests
<1> QED
  BY <1>1, <1>2, Parts

LEMMA DispatchKeeps ==
  ASSUME IInv, NEW r \in Requests, Dispatch(r)
  PROVE  IInv'
<1> USE DEF Dispatch, To, Free
<1>1. Typed' /\ Single(holder)' /\ Single(loop)'
  BY DEF IInv, TypeOK, Typed, Single
<1>2. LoopInv' /\ HolderInv'
  BY DEF IInv, TypeOK, LoopInv, HolderInv, Requests
<1> QED
  BY <1>1, <1>2, Parts

LEMMA CheckKeeps ==
  ASSUME IInv, NEW r \in Requests, Check(r)
  PROVE  IInv'
<1> USE DEF Check, To
<1>1. Typed' /\ Single(holder)' /\ Single(loop)'
  BY DEF IInv, TypeOK, Typed, Single
<1>2. LoopInv' /\ HolderInv'
  BY DEF IInv, TypeOK, LoopInv, HolderInv, Requests
<1> QED
  BY <1>1, <1>2, Parts

LEMMA LockKeeps ==
  ASSUME IInv, NEW r \in Requests, lock_commercial_event(r)
  PROVE  IInv'
<1> USE DEF lock_commercial_event, To
<1>1. Typed' /\ Single(holder)' /\ Single(loop)'
  BY DEF IInv, TypeOK, Typed, Single
<1>2. LoopInv' /\ HolderInv'
  BY DEF IInv, TypeOK, LoopInv, HolderInv, Requests
<1> QED
  BY <1>1, <1>2, Parts

\* With the lock or without: the handler ends, and a coroutine leaves the loop.
LEMMA EndKeeps ==
  ASSUME IInv, NEW r \in Requests, Commit(r) \/ Leave(r)
  PROVE  IInv'
<1> USE DEF Commit, Leave, To
<1>1. Typed' /\ Single(holder)' /\ Single(loop)'
  BY DEF IInv, TypeOK, Typed, Single
<1>2. LoopInv'
  BY DEF IInv, TypeOK, LoopInv, Requests
<1>3. HolderInv'
  <2>1. \A s \in holder : s = r
    BY DEF IInv, HolderInv, Single
  <2> QED
    BY <2>1 DEF IInv, TypeOK, HolderInv, Requests
<1> QED
  BY <1>1, <1>2, <1>3, Parts

LEMMA CloseKeeps ==
  ASSUME IInv, NEW r \in Requests, Close(r)
  PROVE  IInv'
<1> USE DEF Close, To
<1>1. Typed' /\ Single(holder)' /\ Single(loop)'
  BY DEF IInv, TypeOK, Typed, Single
<1>2. LoopInv' /\ HolderInv'
  BY DEF IInv, TypeOK, LoopInv, HolderInv, Requests
<1> QED
  BY <1>1, <1>2, Parts

LEMMA HealthKeeps ==
  ASSUME IInv, Ping \/ Pong \/ UNCHANGED vars
  PROVE  IInv'
<1> USE DEF Ping, Pong, vars
<1>1. Typed' /\ Single(holder)' /\ Single(loop)'
  BY DEF IInv, TypeOK, Typed, Single
<1>2. LoopInv' /\ HolderInv'
  BY DEF IInv, LoopInv, HolderInv
<1> QED
  BY <1>1, <1>2, Parts

LEMMA StepKeeps == IInv /\ [Next]_vars => IInv'
<1> SUFFICES ASSUME IInv, [Next]_vars
             PROVE  IInv'
  OBVIOUS
<1>1. ASSUME NEW r \in Requests,
             \/ Send(r) \/ Dispatch(r) \/ Check(r)
             \/ lock_commercial_event(r) \/ Commit(r) \/ Leave(r) \/ Close(r)
      PROVE  IInv'
  BY <1>1, SendKeeps, DispatchKeeps, CheckKeeps, LockKeeps, EndKeeps, CloseKeeps
<1>2. CASE Ping \/ Pong \/ UNCHANGED vars
  BY <1>2, HealthKeeps
<1> QED
  BY <1>1, <1>2 DEF Next
-----------------------------------------------------------------------------
\* In every reachable state the inductive invariant holds.
THEOREM Invariance == Spec => []IInv
BY InitInv, StepKeeps, PTL DEF Spec

\* The row lock has one holder and the event loop runs one coroutine (lock_commercial_event).
THEOREM TypeCorrect == Spec => []TypeOK
<1>1. IInv => TypeOK
  BY DEF IInv
<1> QED
  BY <1>1, Invariance, PTL

\* Once a notice waits on the event loop for the lock of a request that answered without a commit,
\* it waits for ever: no step of any request ends it (payfast_notify, get_db).
THEOREM StandstillForever == Spec => StandstillStays
<1>1. ASSUME IInv, Standstill, [Next]_vars
      PROVE  Standstill'
  <2>1. PICK n \in loop, h \in holder : phase[n] = "waiting" /\ phase[h] = "over"
    BY <1>1 DEF Standstill
  <2>2. n \in loop' /\ h \in holder' /\ phase'[n] = "waiting" /\ phase'[h] = "over"
    <3> USE DEF IInv, TypeOK, To, Free
    <3>1. ASSUME NEW r \in Requests, Send(r) \/ Dispatch(r) \/ Check(r)
          PROVE  n \in loop' /\ h \in holder' /\ phase'[n] = "waiting" /\ phase'[h] = "over"
      BY <1>1, <2>1, <3>1 DEF Send, Dispatch, Check, Requests
    <3>2. ASSUME NEW r \in Requests, lock_commercial_event(r) \/ Close(r)
          PROVE  FALSE
      BY <2>1, <3>2 DEF lock_commercial_event, Close
    <3>3. ASSUME NEW r \in Requests, Commit(r) \/ Leave(r)
          PROVE  n \in loop' /\ h \in holder' /\ phase'[n] = "waiting" /\ phase'[h] = "over"
      BY <1>1, <2>1, <3>3 DEF Commit, Leave, Requests
    <3>4. CASE Ping \/ Pong \/ UNCHANGED vars
      BY <2>1, <3>4 DEF Ping, Pong, vars
    <3> QED
      BY <1>1, <3>1, <3>2, <3>3, <3>4 DEF Next
  <2> QED
    BY <2>2 DEF Standstill
<1>2. IInv /\ [Next]_vars => [Standstill => Standstill']_vars
  BY <1>1
<1> QED
  BY <1>2, Invariance, PTL DEF Spec, StandstillStays
=============================================================================
