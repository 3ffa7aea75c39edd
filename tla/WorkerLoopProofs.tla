-------------------------- MODULE WorkerLoopProofs --------------------------
(* WorkerLoop, for every size of the batches: its types, DutiesSoon and StopsSoon. *)
EXTENDS WorkerLoop, TLAPS

\* A duty that has waited for a job is looked at before the next one is taken.
WaitInv ==
  \A d \in due : waits[d] = 0 \/ (waits[d] = 1 /\
    (at \in {"down", "job"} \/ (at = "check" /\ \E n \in step..4 : Checks[n] = d)))

\* A job taken after the signal was asked for before it.
LastInv == running \/ last = 0 \/ (last = 1 /\ at \notin {"pop", "start"})

IInv == TypeOK /\ WaitInv /\ LastInv

\* Each place of Startup and Checks, and the duties.
LEMMA Places ==
  /\ Duties = {"media", "archives", "cleanup", "archive_cleanup"}
  /\ Checks[1] = "media" /\ Checks[2] = "archives"
  /\ Checks[3] = "cleanup" /\ Checks[4] = "archive_cleanup"
  /\ \A d \in Duties : \E n \in 1..4 : Checks[n] = d
<1>1. /\ Checks[1] = "media" /\ Checks[2] = "archives"
      /\ Checks[3] = "cleanup" /\ Checks[4] = "archive_cleanup"
  BY DEF Checks
<1> QED
  BY <1>1 DEF Duties

\* The process is down, everything is due and nothing was taken.
LEMMA InitInv == Init => IInv
  BY LoopAssumption DEF Init, IInv, TypeOK, WaitInv, LastInv

\* A process that starts has waited for nothing.
LEMMA StartKeeps == ASSUME IInv, Start PROVE IInv'
  BY LoopAssumption DEF Start, IInv, TypeOK, WaitInv, LastInv

\* A duty whose time comes has not waited.
LEMMA TickKeeps == ASSUME IInv, NEW d \in Duties, Tick(d) PROVE IInv'
  BY LoopAssumption DEF Tick, IInv, TypeOK, WaitInv, LastInv

\* The counters can be empty.
LEMMA Zero == 0 \in 0..Patience /\ 0 \in 0..Batch["media"]
  BY LoopAssumption

\* At the signal no job counts as taken after it.
LEMMA StopKeeps == ASSUME IInv, stop_worker PROVE IInv'
<1> USE DEF IInv, stop_worker
<1>1. TypeOK'
  BY Zero DEF TypeOK
<1>2. WaitInv'
  BY DEF WaitInv
<1>3. LastInv'
  BY DEF LastInv
<1> QED
  BY <1>1, <1>2, <1>3

\* A process that is down takes no job.
LEMMA DieKeeps == ASSUME IInv, Die PROVE IInv'
  BY LoopAssumption DEF Die, IInv, TypeOK, WaitInv, LastInv

\* In the startup no job is taken.
LEMMA StartupKeeps == ASSUME IInv, StartupStep PROVE IInv'
<1> USE LoopAssumption DEF IInv
<1>1. CASE TakeItem(Startup[step])
  BY <1>1 DEF TakeItem, StartupStep, TypeOK, WaitInv, LastInv
<1>2. CASE ~TakeItem(Startup[step])
  <2>1. /\ at = "start" /\ at' = (IF step = 6 THEN "head" ELSE "start")
        /\ step' = (IF step = 6 THEN 1 ELSE step + 1)
        /\ items' = 0 /\ due' = due \ {Startup[step]}
        /\ UNCHANGED <<running, task, waits, last>>
    BY <1>2 DEF StartupStep
  <2>2. TypeOK'
    BY <2>1 DEF TypeOK
  <2>3. WaitInv'
    BY <2>1 DEF WaitInv, TypeOK
  <2>4. LastInv'
    BY <2>1 DEF LastInv
  <2> QED
    BY <2>2, <2>3, <2>4
<1> QED
  BY <1>1, <1>2

\* The loop goes on only while the flag is set.
LEMMA HeadKeeps == ASSUME IInv, LoopHead PROVE IInv'
  BY LoopAssumption DEF LoopHead, IInv, TypeOK, WaitInv, LastInv

\* A job is taken only when every duty that was due has been looked at.
LEMMA PopKeeps == ASSUME IInv, blpop PROVE IInv'
<1> USE LoopAssumption DEF IInv
<1>1. WaitInv' /\ LastInv'
  BY Places DEF blpop, More, WaitInv, LastInv, TypeOK
<1>2. task' \in {"none", "cleanup", "process_media", "build_archive"} /\ at' \in {"job", "check"}
  BY DEF blpop, TaskOf, Jobs, TypeOK
<1>3. waits' \in [Duties -> 0..Patience] /\ last' \in 0..Patience
  BY DEF blpop, More, TypeOK
<1>4. step' \in 1..6 /\ step' <= 4
  BY DEF blpop, TypeOK
<1> QED
  BY <1>1, <1>2, <1>3, <1>4 DEF blpop, TypeOK

\* After a job all the duties are looked at.
LEMMA JobKeeps == ASSUME IInv, handle_job PROVE IInv'
  BY LoopAssumption, Places DEF handle_job, IInv, TypeOK, WaitInv, LastInv

\* A duty that is due is done at its place.
LEMMA CheckKeeps == ASSUME IInv, CheckStep PROVE IInv'
<1> USE Places DEF IInv
<1>1. CASE TakeItem(Checks[step])
  BY <1>1, LoopAssumption DEF TakeItem, CheckStep, TypeOK, WaitInv, LastInv
<1>2. CASE ~TakeItem(Checks[step])
  <2>1. /\ at = "check" /\ at' = (IF step = 4 THEN "head" ELSE "check")
        /\ step' = (IF step = 4 THEN 1 ELSE step + 1)
        /\ items' = 0 /\ due' = due \ {Checks[step]}
        /\ UNCHANGED <<running, task, waits, last>>
    BY <1>2 DEF CheckStep
  <2>2. step' \in 1..6 /\ step' <= 4
    BY <2>1 DEF TypeOK
  <2>3. TypeOK'
    BY <2>1, <2>2, Zero DEF TypeOK
  <2>4. WaitInv'
    BY <2>1 DEF WaitInv, TypeOK
  <2>5. LastInv'
    BY <2>1 DEF LastInv
  <2> QED
    BY <2>3, <2>4, <2>5
<1> QED
  BY <1>1, <1>2

\* Every step, and a stutter, keeps the invariant.
LEMMA NextInv == IInv /\ [Next]_vars => IInv'
<1> SUFFICES ASSUME IInv, [Next]_vars PROVE IInv'
  OBVIOUS
<1>1. CASE UNCHANGED vars
  BY <1>1 DEF vars, IInv, TypeOK, WaitInv, LastInv
<1>2. CASE Start \/ stop_worker \/ Die \/ \E d \in Duties : Tick(d)
  BY <1>2, StartKeeps, StopKeeps, DieKeeps, TickKeeps
<1>3. CASE Proceed
  BY <1>3, StartupKeeps, HeadKeeps, PopKeeps, JobKeeps, CheckKeeps DEF Proceed
<1> QED
  BY <1>1, <1>2, <1>3 DEF Next

\* The inductive invariant holds in every reachable state.
THEOREM Invariance == Spec => []IInv
  BY InitInv, NextInv, PTL DEF Spec

\* The process's place, timers and counters keep their types (worker/main.py:82).
THEOREM TypeCorrect == Spec => []TypeOK
<1>1. IInv => TypeOK
  BY DEF IInv
<1> QED
  BY Invariance, <1>1, PTL

\* A duty whose time has come waits for at most one job (worker/main.py:108).
THEOREM DutiesAreSoon == Spec => []DutiesSoon
<1>1. IInv => DutiesSoon
  BY DEF IInv, WaitInv, DutiesSoon
<1> QED
  BY Invariance, <1>1, PTL

\* After the signal at most one job is begun (worker/main.py:97).
THEOREM StopIsSoon == Spec => []StopsSoon
<1>1. IInv => StopsSoon
  BY DEF IInv, LastInv, StopsSoon
<1> QED
  BY Invariance, <1>1, PTL
=============================================================================
