----------------------------- MODULE WorkerLoop -----------------------------
(***************************************************************************)
(* The one worker process (worker/main.py): what it does when it starts,   *)
(* its loop over the Redis list and the four duties it looks at after each *)
(* turn, its end by a signal or an exception, and its restart by compose.  *)
(* What a job or a duty does is in the modules of the components; here it  *)
(* is one step.  Anybody may queue jobs at any rate.                       *)
(***************************************************************************)
EXTENDS Naturals, Sequences

CONSTANTS
  Batch,    \* how many items one turn of a polling duty takes: [media |-> 3, archives |-> 2]
  Patience  \* bound on the counters of jobs, above what the properties allow

ASSUME LoopAssumption == Patience \in Nat \ {0} /\ Batch \in [{"media", "archives"} -> Nat \ {0}]

Startup == <<"cleanup", "archive_cleanup", "requeue_interrupted", "requeue_legacy", "media", "archives">>
Checks  == <<"media", "archives", "cleanup", "archive_cleanup">>
Duties  == {Checks[n] : n \in 1..4}
Jobs    == {"ping", "cleanup_stale_uploads", "process_media", "build_archive", "unknown"}

VARIABLES
  at,       \* where the process is: "down", "start", "head", "pop", "job", "check"
  step,     \* the place in Startup or Checks
  items,    \* the items the present turn of a polling duty has taken
  running,  \* the flag that SIGTERM clears
  due,      \* duties whose time has come
  task,     \* what the job in hand calls
  waits,    \* history: jobs taken since a duty's time came
  last      \* history: jobs taken since the signal

vars == <<at, step, items, running, due, task, waits, last>>

More(n) == IF n < Patience THEN n + 1 ELSE n
----------------------------------------------------------------------------
\* A container that is started has everything to do: the first turn of each duty comes before
\* the loop, and sets its timer.
Start ==
  /\ at = "down"
  /\ at' = "start" /\ step' = 1 /\ items' = 0 /\ task' = "none"
  /\ running' = TRUE /\ due' = Duties
  /\ waits' = [d \in Duties |-> 0] /\ last' = 0

\* Time passes.
Tick(d) ==
  /\ at \notin {"down", "start"} /\ d \notin due
  /\ due' = due \cup {d}
  /\ waits' = [waits EXCEPT ![d] = 0]
  /\ UNCHANGED <<at, step, items, running, task, last>>

stop_worker ==
  /\ at # "down" /\ running
  /\ running' = FALSE /\ last' = 0
  /\ UNCHANGED <<at, step, items, due, task, waits>>

\* Killed, or an exception that nothing catches: in the startup, or of Redis in the loop other
\* than a lost connection.
Die ==
  /\ at # "down"
  /\ at' = "down"
  /\ UNCHANGED <<step, items, running, due, task, waits, last>>

\* run_pending_media and run_pending_archives go on until nothing is pending or one raises;
\* variant: one item too many.
TakeItemOver(d) ==
  /\ d \in DOMAIN Batch /\ items <= Batch[d]
  /\ items' = items + 1
  /\ UNCHANGED <<at, step, running, due, task, waits, last>>

TakeItem(d) ==
  /\ d \in DOMAIN Batch /\ items < Batch[d]
  /\ items' = items + 1
  /\ UNCHANGED <<at, step, running, due, task, waits, last>>

StartupStep ==
  /\ at = "start"
  /\ \/ TakeItem(Startup[step])
     \/ /\ at' = IF step = 6 THEN "head" ELSE "start"
        /\ step' = IF step = 6 THEN 1 ELSE step + 1
        /\ items' = 0 /\ due' = due \ {Startup[step]}
        /\ UNCHANGED <<running, task, waits, last>>

LoopHead ==
  /\ at = "head"
  /\ at' = IF running THEN "pop" ELSE "down"
  /\ UNCHANGED <<step, items, running, due, task, waits, last>>

\* The task of each type; the job's other fields are the components'.
TaskOf(job) ==
  CASE job = "cleanup_stale_uploads" -> "cleanup"
    [] job = "process_media"         -> "process_media"
    [] job = "build_archive"         -> "build_archive"
    [] OTHER                         -> "none"

\* A job, the time-out of five seconds, or a lost connection and a sleep of three.
blpop ==
  /\ at = "pop"
  /\ \/ \E job \in Jobs :
          /\ at' = "job" /\ task' = TaskOf(job)
          /\ waits' = [d \in Duties |-> IF d \in due THEN More(waits[d]) ELSE waits[d]]
          /\ last' = IF running THEN last ELSE More(last)
          /\ UNCHANGED step
     \/ at' = "check" /\ step' = 1 /\ UNCHANGED <<task, waits, last>>
  /\ UNCHANGED <<items, running, due>>

\* Variant: the list emptied before the timers are looked at.
handle_all_jobs ==
  /\ at = "job"
  /\ at' \in {"pop", "check"} /\ step' = 1 /\ task' = "none"
  /\ UNCHANGED <<items, running, due, waits, last>>

\* Its exceptions are logged.
handle_job ==
  /\ at = "job"
  /\ at' = "check" /\ step' = 1 /\ task' = "none"
  /\ UNCHANGED <<items, running, due, waits, last>>

\* Variant: the timers looked at in order of Checks until one has run.
CheckFirst ==
  /\ at = "check"
  /\ at' = IF step = 4 \/ Checks[step] \in due THEN "head" ELSE "check"
  /\ step' = IF step = 4 \/ Checks[step] \in due THEN 1 ELSE step + 1
  /\ items' = 0 /\ due' = due \ {Checks[step]}
  /\ UNCHANGED <<running, task, waits, last>>

CheckStep ==
  /\ at = "check"
  /\ \/ Checks[step] \in due /\ TakeItem(Checks[step])
     \/ /\ at' = IF step = 4 THEN "head" ELSE "check"
        /\ step' = IF step = 4 THEN 1 ELSE step + 1
        /\ items' = 0 /\ due' = due \ {Checks[step]}
        /\ UNCHANGED <<running, task, waits, last>>
----------------------------------------------------------------------------
Init ==
  /\ at = "down" /\ step = 1 /\ items = 0 /\ task = "none"
  /\ running = TRUE /\ due = Duties
  /\ waits = [d \in Duties |-> 0] /\ last = 0

Proceed == StartupStep \/ LoopHead \/ blpop \/ handle_job \/ CheckStep

Next == Start \/ Proceed \/ stop_worker \/ Die \/ \E d \in Duties : Tick(d)

Spec == Init /\ [][Next]_vars

\* Assumed: compose restarts the container, each job and duty ends (ffmpeg has a time-out, the
\* storage and the database answer), time passes, and at last nothing kills the process.
Fairness ==
  /\ WF_vars(Start) /\ WF_vars(Proceed)
  /\ \A d \in Duties : WF_vars(Tick(d))
  /\ <>[][~Die]_vars

FairSpec == Spec /\ Fairness
----------------------------------------------------------------------------
(* Properties                                                              *)

\* Types of the process's place, its timers and counters.
TypeOK ==
  /\ at \in {"down", "start", "head", "pop", "job", "check"}
  /\ step \in 1..6 /\ (at \notin {"down", "start"} => step <= 4)
  /\ items \in 0..Batch["media"] \cup 0..Batch["archives"]
  /\ running \in BOOLEAN /\ due \subseteq Duties
  /\ task \in {"none", "cleanup", "process_media", "build_archive"}
  /\ waits \in [Duties -> 0..Patience] /\ last \in 0..Patience

\* However full the list is, a duty whose time has come waits for at most one job.
DutiesSoon == \A d \in due : waits[d] <= 1

\* After the signal at most one job is still begun.
StopsSoon == ~running => last <= 1

\* Every duty is done again and again: the polls find what Redis lost and the cleanups run,
\* through floods of jobs, lost connections, signals and restarts.
DutiesDone == \A d \in Duties : d \in due ~> d \notin due
=============================================================================
