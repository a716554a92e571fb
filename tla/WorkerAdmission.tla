--------------------------- MODULE WorkerAdmission ---------------------------
(***************************************************************************)
(* The normal proxy path of the router daemon and the per-worker admission *)
(* queue it runs through: RouterHandler.proxy, acquire_worker_slot,        *)
(* finish_worker_attempt, begin_request and finish_request.                *)
(*                                                                         *)
(* Every HTTP request runs in a thread of its own.  A thread walks its     *)
(* candidate workers; for each it asks for a slot, waits for one in the    *)
(* single condition variable all workers share, forwards the request, and  *)
(* gives the slot back.  One action is one critical section of the         *)
(* scheduler lock, or one step of a thread between two of them.            *)
(*                                                                         *)
(* The candidate list is ranked from live probes, which are not modelled: *)
(* here any set of candidates may be tried in any order.  Where a thread   *)
(* looks at a worker's capacity, the one it looks at is a parameter: it is *)
(* that of the worker objects the thread has ranked, which here is always  *)
(* Capacity, and under reloads (module ReloadedAdmission) need not be.     *)
(*                                                                         *)
(* An operator named Faulty... is wrong on purpose: a plausible mistake in *)
(* the operator after it, under which one of the properties has to fail.   *)
(***************************************************************************)
EXTENDS Naturals, FiniteSets

CONSTANTS
  Requests,      \* request threads
  Workers,       \* worker ids of the inventory
  Capacity,      \* worker_capacity of the workers
  QueueLimit     \* --queue-limit-per-worker; 0 disables queueing

ASSUME AdmissionAssumption ==
  /\ IsFiniteSet(Requests)
  /\ Workers # {}
  /\ Capacity \in [Workers -> Nat \ {0}]
  /\ QueueLimit \in Nat

VARIABLES
  active,        \* worker_active_requests
  depth,         \* worker_queue_depths
  inflight,      \* metrics["active_requests"]
  pc,            \* where each request's thread is
  worker,        \* the candidate a thread is at
  fallbacks,     \* the candidates it may still fall back to
  expired        \* queue_wait_timeout has elapsed for a thread in the queue

threadVars == <<pc, worker, fallbacks, expired>>
vars == <<active, depth, inflight, threadVars>>

(***************************************************************************)
(*  idle      no request                                                   *)
(*  acquire   about to call acquire_worker_slot for worker[r]              *)
(*  parked    in worker_queue_condition.wait                               *)
(*  woken     notified or timed out, about to re-check under the lock      *)
(*  backend   slot taken, the request is with the backend                  *)
(*  headers   streaming response opened, the response head not yet sent    *)
(*  streaming copying chunks to the client                                 *)
(*  closing   finish_request still to run                                  *)
(*  aborted   the thread has ended without giving its slot back            *)
(***************************************************************************)
Queued == {"parked", "woken"}
Serving == {"backend", "headers", "streaming"}
Owning == Serving \union {"aborted"}
Stages == {"idle", "acquire", "closing"} \union Queued \union Owning

AnyWorker == CHOOSE w \in Workers : TRUE

Decrement(n) == IF n > 0 THEN n - 1 ELSE 0     \* max(0, n - 1)

Init ==
  /\ active = [w \in Workers |-> 0]
  /\ depth = [w \in Workers |-> 0]
  /\ inflight = 0
  /\ pc = [r \in Requests |-> "idle"]
  /\ worker = [r \in Requests |-> AnyWorker]
  /\ fallbacks = [r \in Requests |-> {}]
  /\ expired = [r \in Requests |-> FALSE]

Goto(r, stage) == pc' = [pc EXCEPT ![r] = stage]

\* notify_all: every waiter, of whichever worker, runs again.
NotifyAllBut(r, stage) ==
  pc' = [q \in Requests |-> IF q = r THEN stage
                            ELSE IF pc[q] = "parked" THEN "woken" ELSE pc[q]]

TakeSlot(w) == active' = [active EXCEPT ![w] = @ + 1]
ReturnSlot(w) == active' = [active EXCEPT ![w] = Decrement(@)]
\* The thread's wait clock ends with the call.
LeaveQueue(r) ==
  /\ depth' = [depth EXCEPT ![worker[r]] = Decrement(@)]
  /\ expired' = [expired EXCEPT ![r] = FALSE]

\* Off by one.
FaultySlotFree(w, capacity) == active[w] <= capacity[w]

SlotFree(w, capacity) == active[w] < capacity[w]

-----------------------------------------------------------------------------
(* A request arrives and its candidates are ranked. *)

\* candidate_workers raises when no worker is ready: a 503 at once.
ArriveUnserved(r) ==
  /\ pc[r] = "idle"
  /\ inflight' = inflight + 1
  /\ Goto(r, "closing")
  /\ UNCHANGED <<active, depth, worker, fallbacks, expired>>

\* rest is empty when allow_fallback is off: the other candidates are not tried.
Arrive(r) ==
  /\ pc[r] = "idle"
  /\ inflight' = inflight + 1
  /\ \E w \in Workers : \E rest \in SUBSET (Workers \ {w}) :
       /\ worker' = [worker EXCEPT ![r] = w]
       /\ fallbacks' = [fallbacks EXCEPT ![r] = rest]
  /\ Goto(r, "acquire")
  /\ UNCHANGED <<active, depth, expired>>

\* `continue` to the next candidate while one is left.
MoveOn(r) ==
  IF fallbacks[r] # {}
  THEN \E w \in fallbacks[r] :
         /\ worker' = [worker EXCEPT ![r] = w]
         /\ fallbacks' = [fallbacks EXCEPT ![r] = @ \ {w}]
  ELSE UNCHANGED <<worker, fallbacks>>

StageAfter(r) == IF fallbacks[r] # {} THEN "acquire" ELSE "closing"

-----------------------------------------------------------------------------
(* acquire_worker_slot *)

\* Queueing off, the slot is only counted; otherwise a free one is taken at once,
\* whoever is in the queue.
Admit(r, capacity) ==
  /\ pc[r] = "acquire"
  /\ QueueLimit > 0 => SlotFree(worker[r], capacity)
  /\ TakeSlot(worker[r])
  /\ Goto(r, "backend")
  /\ UNCHANGED <<depth, inflight, worker, fallbacks, expired>>

RejectFull(r, capacity) ==
  /\ pc[r] = "acquire"
  /\ QueueLimit > 0
  /\ ~SlotFree(worker[r], capacity)
  /\ depth[worker[r]] >= QueueLimit
  /\ MoveOn(r)
  /\ Goto(r, StageAfter(r))
  /\ UNCHANGED <<active, depth, inflight, expired>>

\* Join the queue; the first check under the same lock finds no slot and waits.
Enqueue(r, capacity) ==
  /\ pc[r] = "acquire"
  /\ QueueLimit > 0
  /\ ~SlotFree(worker[r], capacity)
  /\ depth[worker[r]] < QueueLimit
  /\ depth' = [depth EXCEPT ![worker[r]] = @ + 1]
  /\ Goto(r, "parked")
  /\ UNCHANGED <<active, inflight, worker, fallbacks, expired>>

\* queue_wait_timeout elapses; a parked thread's wait returns.
TimeOut(r) ==
  /\ pc[r] \in Queued
  /\ ~expired[r]
  /\ expired' = [expired EXCEPT ![r] = TRUE]
  /\ Goto(r, "woken")
  /\ UNCHANGED <<active, depth, inflight, worker, fallbacks>>

\* `if` for `while`: a woken thread takes the slot without looking again.
FaultyAdmitAfterWait(r, capacity) ==
  /\ pc[r] = "woken"
  /\ LeaveQueue(r)
  /\ TakeSlot(worker[r])
  /\ Goto(r, "backend")
  /\ UNCHANGED <<inflight, worker, fallbacks>>

\* The loop looks for a slot before it looks at the clock.
AdmitAfterWait(r, capacity) ==
  /\ pc[r] = "woken"
  /\ SlotFree(worker[r], capacity)
  /\ LeaveQueue(r)
  /\ TakeSlot(worker[r])
  /\ Goto(r, "backend")
  /\ UNCHANGED <<inflight, worker, fallbacks>>

\* Waits on without looking at the clock.
FaultyWaitAgain(r, capacity) ==
  /\ pc[r] = "woken"
  /\ ~SlotFree(worker[r], capacity)
  /\ Goto(r, "parked")
  /\ UNCHANGED <<active, depth, inflight, worker, fallbacks, expired>>

WaitAgain(r, capacity) ==
  /\ pc[r] = "woken"
  /\ ~SlotFree(worker[r], capacity)
  /\ ~expired[r]
  /\ Goto(r, "parked")
  /\ UNCHANGED <<active, depth, inflight, worker, fallbacks, expired>>

QueueTimeout(r, capacity) ==
  /\ pc[r] = "woken"
  /\ ~SlotFree(worker[r], capacity)
  /\ expired[r]
  /\ LeaveQueue(r)
  /\ MoveOn(r)
  /\ NotifyAllBut(r, StageAfter(r))
  /\ UNCHANGED <<active, inflight>>

-----------------------------------------------------------------------------
(* The backend attempt, and finish_worker_attempt in its finally clause. *)

\* A response (an HTTP error too): the slot goes back, the response is relayed.
BackendAnswers(r) ==
  /\ pc[r] = "backend"
  /\ ReturnSlot(worker[r])
  /\ NotifyAllBut(r, "closing")
  /\ UNCHANGED <<depth, inflight, worker, fallbacks, expired>>

\* Retries on the next worker and keeps the slot of the failed one.
FaultyBackendFails(r) ==
  /\ pc[r] = "backend"
  /\ MoveOn(r)
  /\ NotifyAllBut(r, StageAfter(r))
  /\ UNCHANGED <<active, depth, inflight, expired>>

\* A connection error, a timeout, or a loading 503 that fallback may retry.
BackendFails(r) ==
  /\ pc[r] = "backend"
  /\ ReturnSlot(worker[r])
  /\ MoveOn(r)
  /\ NotifyAllBut(r, StageAfter(r))
  /\ UNCHANGED <<depth, inflight, expired>>

\* A streaming request (body["stream"] is True): urlopen has returned, and from
\* here on the finally clause leaves the slot alone.
StreamOpens(r) ==
  /\ pc[r] = "backend"
  /\ Goto(r, "headers")
  /\ UNCHANGED <<active, depth, inflight, worker, fallbacks, expired>>

HeadersSent(r) ==
  /\ pc[r] = "headers"
  /\ Goto(r, "streaming")
  /\ UNCHANGED <<active, depth, inflight, worker, fallbacks, expired>>

\* The client has gone: end_headers raises OSError outside the try block whose
\* finally gives the slot back.  Only finish_request runs.
ClientGone(r) ==
  /\ pc[r] = "headers"
  /\ inflight' = Decrement(inflight)
  /\ Goto(r, "aborted")
  /\ UNCHANGED <<active, depth, worker, fallbacks, expired>>

\* End of stream, backend error or client gone while copying: one finally clause.
StreamEnds(r) ==
  /\ pc[r] = "streaming"
  /\ ReturnSlot(worker[r])
  /\ NotifyAllBut(r, "closing")
  /\ UNCHANGED <<depth, inflight, worker, fallbacks, expired>>

\* The thread ends and its locals with it.
FinishRequest(r) ==
  /\ pc[r] = "closing"
  /\ inflight' = Decrement(inflight)
  /\ Goto(r, "idle")
  /\ worker' = [worker EXCEPT ![r] = AnyWorker]
  /\ fallbacks' = [fallbacks EXCEPT ![r] = {}]
  /\ UNCHANGED <<active, depth, expired>>

-----------------------------------------------------------------------------
Recheck(r, capacity) == AdmitAfterWait(r, capacity) \/ WaitAgain(r, capacity) \/ QueueTimeout(r, capacity)
Acquire(r, capacity) == Admit(r, capacity) \/ RejectFull(r, capacity) \/ Enqueue(r, capacity)
Reply(r) == BackendAnswers(r) \/ BackendFails(r) \/ StreamOpens(r)
Relay(r) == HeadersSent(r) \/ ClientGone(r) \/ StreamEnds(r)

Step(r, capacity) ==
  \/ ArriveUnserved(r)
  \/ Arrive(r)
  \/ Acquire(r, capacity)
  \/ TimeOut(r)
  \/ Recheck(r, capacity)
  \/ Reply(r)
  \/ Relay(r)
  \/ FinishRequest(r)

NextWith(capacity) == \E r \in Requests : Step(r, capacity)

Next == NextWith(Capacity)

Spec == Init /\ [][Next]_vars

(***************************************************************************)
(* A thread that can run does run; wait(timeout) returns when the time is  *)
(* up; a backend answers or urlopen's socket timeout fires; a completion   *)
(* has finitely many tokens.  Nothing is assumed of arrivals, and nothing  *)
(* makes a waiter win the lock against newcomers.                          *)
(***************************************************************************)
Fairness ==
  \A r \in Requests :
    /\ WF_vars(Acquire(r, Capacity))
    /\ WF_vars(TimeOut(r))
    /\ WF_vars(Recheck(r, Capacity))
    /\ WF_vars(Reply(r))
    /\ WF_vars(Relay(r))
    /\ WF_vars(FinishRequest(r))

FairSpec == Spec /\ Fairness

-----------------------------------------------------------------------------
(* Properties *)

TypeOK ==
  /\ active \in [Workers -> Nat]
  /\ depth \in [Workers -> Nat]
  /\ inflight \in Nat
  /\ pc \in [Requests -> Stages]
  /\ worker \in [Requests -> Workers]
  /\ fallbacks \in [Requests -> SUBSET Workers]
  /\ expired \in [Requests -> BOOLEAN]

Holders(w) == {r \in Requests : worker[r] = w /\ pc[r] \in Owning}
Waiters(w) == {r \in Requests : worker[r] = w /\ pc[r] \in Queued}

\* The counter of a worker is the number of requests that own one of its slots,
\* those whose thread died with it included: no path counts twice or forgets.
SlotsCounted == \A w \in Workers : active[w] = Cardinality(Holders(w))

\* The queue depth is the number of threads in the queue, on every way out of it.
QueueCounted == \A w \in Workers : depth[w] = Cardinality(Waiters(w))

\* The active-requests gauge counts the threads between begin_request and
\* finish_request, on every path through proxy.
InflightCounted == inflight = Cardinality({r \in Requests : pc[r] \notin {"idle", "aborted"}})

\* With queueing on, a worker is never sent more than it can decode at once.
CapacityRespected == QueueLimit > 0 => \A w \in Workers : active[w] <= Capacity[w]

\* No more threads than --queue-limit-per-worker are held back for one worker.
QueueBounded == \A w \in Workers : depth[w] <= QueueLimit

\* No lost wakeup: a thread sleeps in the condition only while every slot of its
\* worker is taken, so a freed slot is never left unnoticed until a timeout.
NoLostWakeup == \A r \in Requests : pc[r] = "parked" => ~SlotFree(worker[r], Capacity)

\* The counters agree with what the threads are doing, on every path of a request.
CountersExact == SlotsCounted /\ QueueCounted /\ InflightCounted

\* Nobody is let in above the capacity or queued above the limit, and nobody is left
\* asleep below the capacity.
NobodyOverOrUnder == CapacityRespected /\ QueueBounded /\ NoLostWakeup

\* The router behaves as the set-based specification of a worker's slots.
Slots == INSTANCE WorkerSlots WITH
           holders <- [w \in Workers |-> Holders(w)],
           line <- [w \in Workers |-> Waiters(w)]
ImplementsSlots == Slots!Spec

\* A request that asks for a slot is answered: full queues, timeouts, failing
\* backends and fallback never make it loop or wait forever.
RequestsAnswered == \A r \in Requests : pc[r] = "acquire" ~> pc[r] \in {"closing", "aborted"}

\* A worker that serves nobody any more shows no request in progress.
SlotsReleased ==
  \A w \in Workers :
    active[w] = Cardinality({r \in Requests : worker[r] = w /\ pc[r] \in Serving})
=============================================================================
