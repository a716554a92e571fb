------------------------- MODULE MCReloadedAdmission -------------------------
(* Two small instances of ReloadedAdmission in one, as their product would   *)
(* be too large.  In the first a worker may be dropped and come back while    *)
(* two requests hold its slot or wait for it.  In the second two reloads,     *)
(* which may overlap, make a worker larger and smaller under three requests.  *)
EXTENDS ReloadedAdmission, TLC

CONSTANTS w1, w2

OneSlotEach == [w \in Workers |-> 1]
OneOrTwo == {OneSlotEach, [OneSlotEach EXCEPT ![w1] = 2]}

\* At most two requests, one reload at a time, and no other capacity.
TwoRequests ==
  /\ Cardinality({r \in Requests : pc[r] # "idle"}) <= 2
  /\ offered = Capacity /\ \A t \in Reloaders : reload[t].capacity = Capacity
  /\ Cardinality({t \in Reloaders : reload[t].at # "idle"}) <= 1

\* All requests go to one worker, and no reload drops any.
OneWorker ==
  /\ \A r \in Requests : pc[r] # "idle" => worker[r] = w1 /\ fallbacks[r] = {}
  /\ installed = Workers
  /\ \A t \in Reloaders : reload[t].at # "idle" => reload[t].workers = Workers

Instance == TwoRequests \/ OneWorker

\* Not the workers: AnyWorker is one of them.
Interchangeable == Permutations(Requests) \union Permutations(Reloaders)
=============================================================================
