--------------------------- MODULE MCStackLifecycle ---------------------------
(* One worker on the host, or two that share it.  PIDs are interchangeable. *)
EXTENDS StackLifecycle, TLC

CONSTANTS p1, p2, p3, p4, p5, w1, w2

OneWorker == <<w1>>
TwoWorkers == <<w1, w2>>
Symmetric == Permutations(Pids)
=============================================================================
