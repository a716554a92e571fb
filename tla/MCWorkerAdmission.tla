-------------------------- MODULE MCWorkerAdmission --------------------------
(* A small instance of WorkerAdmission: two workers with one slot each.  With *)
(* three requests and a line of one, a worker is idle, saturated, queued on   *)
(* and refusing in turn, and a request can be refused by one worker and wait  *)
(* for the other.                                                             *)
EXTENDS WorkerAdmission

CONSTANTS w1, w2

OneSlotEach == [w \in Workers |-> 1]
=============================================================================
