----------------------------- MODULE WorkerSlots -----------------------------
(***************************************************************************)
(* What the router promises of a worker's slots, without saying how it     *)
(* keeps count: a worker is a set of requests it is serving and a set of   *)
(* requests in line for it.  The router (module WorkerAdmission) keeps two *)
(* integers per worker instead, updated by threads that may be parked in a *)
(* condition variable; it has to behave as if it kept these sets.          *)
(***************************************************************************)
EXTENDS Naturals, FiniteSets

CONSTANTS
  Requests,      \* request threads of the router
  Workers,       \* configured llama-server workers
  Capacity,      \* Capacity[w]: requests worker w may serve at once
  QueueLimit     \* longest line of a worker; 0: no line and no capacity check

VARIABLES
  holders,       \* holders[w]: the requests that own a slot of w
  line           \* line[w]: the requests in line for w

vars == <<holders, line>>

Engaged(r) == \E w \in Workers : r \in holders[w] \/ r \in line[w]

Full(w) == Cardinality(holders[w]) >= Capacity[w]

Init ==
  /\ holders = [w \in Workers |-> {}]
  /\ line = [w \in Workers |-> {}]

\* A request takes a slot.  With queueing on there has to be a free one.
Take(r, w) ==
  /\ ~Engaged(r)
  /\ QueueLimit > 0 => ~Full(w)
  /\ holders' = [holders EXCEPT ![w] = @ \union {r}]
  /\ UNCHANGED line

\* Every slot is taken and the line has room.
JoinLine(r, w) ==
  /\ ~Engaged(r)
  /\ Full(w)
  /\ Cardinality(line[w]) < QueueLimit
  /\ line' = [line EXCEPT ![w] = @ \union {r}]
  /\ UNCHANGED holders

\* A slot is free for someone in line (the line is not first-come-first-served).
Promote(r, w) ==
  /\ r \in line[w]
  /\ ~Full(w)
  /\ line' = [line EXCEPT ![w] = @ \ {r}]
  /\ holders' = [holders EXCEPT ![w] = @ \union {r}]

\* Someone gives up waiting.
GiveUp(r, w) ==
  /\ r \in line[w]
  /\ line' = [line EXCEPT ![w] = @ \ {r}]
  /\ UNCHANGED holders

Return(r, w) ==
  /\ r \in holders[w]
  /\ holders' = [holders EXCEPT ![w] = @ \ {r}]
  /\ UNCHANGED line

Next ==
  \E r \in Requests, w \in Workers :
    Take(r, w) \/ JoinLine(r, w) \/ Promote(r, w) \/ GiveUp(r, w) \/ Return(r, w)

Spec == Init /\ [][Next]_vars
=============================================================================
