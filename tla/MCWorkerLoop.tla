---------------------------- MODULE MCWorkerLoop ----------------------------
(* WorkerLoop for TLC, with the batches of worker/main.py. *)
EXTENDS WorkerLoop

Turns == [media |-> 3, archives |-> 2]
=============================================================================
