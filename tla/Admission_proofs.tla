--------------------------- MODULE Admission_proofs ---------------------------
(***************************************************************************)
(* The admission queue for every number of requests and workers, every     *)
(* capacity and every queue limit; then with inventory reloads, and with   *)
(* the ranking of candidates in front of it.                               *)
(*                                                                         *)
(* The bounds on the counters follow from the guards alone.  That the      *)
(* counters mean something, i.e. count the owners of slots and the threads *)
(* in line, needs an argument on how each step changes those two sets:     *)
(* the lemmas of the first section, one for each way a step can move a     *)
(* thread, do it once.                                                     *)
(*                                                                         *)
(* Of a ranking the invariant says where each row stands in the order in   *)
(* which the candidates were asked.  That two ranks are never the same, so *)
(* that sorting gives a list without repetitions, and that of workers that *)
(* look alike the one asked first is tried first, both rest on it.         *)
(***************************************************************************)
EXTENDS ReloadedAdmission, RankedAdmission, FiniteSetTheorems, SequenceTheorems, TLAPS

USE AdmissionAssumption

-----------------------------------------------------------------------------
(* Typing *)

LEMMA AnyWorkerIsWorker == AnyWorker \in Workers
  BY DEF AnyWorker

LEMMA DecrementIsNat == \A n \in Nat : Decrement(n) \in Nat
  BY DEF Decrement

\* Where a thread goes next, and with which candidates, when a worker did not serve it.
LEMMA MoveOnTyped ==
  ASSUME TypeOK, NEW r \in Requests, MoveOn(r)
  PROVE  /\ worker' \in [Requests -> Workers]
         /\ fallbacks' \in [Requests -> SUBSET Workers]
         /\ \A q \in Requests \ {r} : worker'[q] = worker[q]
         /\ StageAfter(r) \in {"acquire", "closing"}
<1>1. CASE fallbacks[r] = {}
  BY <1>1 DEF TypeOK, MoveOn, StageAfter
<1>2. CASE fallbacks[r] # {}
  BY <1>2 DEF TypeOK, MoveOn, StageAfter
<1>3. QED
  BY <1>1, <1>2

LEMMA NotifyTyped ==
  ASSUME TypeOK, NEW r \in Requests, NEW stage \in Stages, NotifyAllBut(r, stage)
  PROVE  /\ pc' \in [Requests -> Stages]
         /\ pc'[r] = stage
         /\ \A q \in Requests \ {r} : /\ pc'[q] # "parked"
                                      /\ pc'[q] \in Owning <=> pc[q] \in Owning
                                      /\ pc'[q] \in Queued <=> pc[q] \in Queued
  BY DEF TypeOK, NotifyAllBut, Stages, Owning, Serving, Queued

LEMMA TypeStep ==
  ASSUME NEW capacity, TypeOK, [NextWith(capacity)]_vars
  PROVE  TypeOK'
<1> USE DecrementIsNat
<1>1. ASSUME NEW r \in Requests, ArriveUnserved(r) \/ Arrive(r)
      PROVE  TypeOK'
  BY <1>1 DEF TypeOK, ArriveUnserved, Arrive, Goto, Stages
<1>2. ASSUME NEW r \in Requests, Admit(r, capacity)
      PROVE  TypeOK'
  BY <1>2 DEF TypeOK, Admit, TakeSlot, Goto, Stages, Owning, Serving
<1>3. ASSUME NEW r \in Requests, RejectFull(r, capacity)
      PROVE  TypeOK'
  BY <1>3, MoveOnTyped DEF TypeOK, RejectFull, Goto, Stages
<1>4. ASSUME NEW r \in Requests, Enqueue(r, capacity) \/ WaitAgain(r, capacity)
      PROVE  TypeOK'
  BY <1>4 DEF TypeOK, Enqueue, WaitAgain, Goto, Stages, Queued
<1>12. ASSUME NEW r \in Requests, TimeOut(r)
       PROVE  TypeOK'
  BY <1>12 DEF TypeOK, TimeOut, Goto, Stages, Queued
<1>5. ASSUME NEW r \in Requests, AdmitAfterWait(r, capacity)
      PROVE  TypeOK'
  BY <1>5 DEF TypeOK, AdmitAfterWait, LeaveQueue, TakeSlot, Goto, Stages, Owning, Serving
<1>6. ASSUME NEW r \in Requests, QueueTimeout(r, capacity)
      PROVE  TypeOK'
  <2>1. StageAfter(r) \in Stages
    BY <1>6, MoveOnTyped DEF QueueTimeout, Stages
  <2>2. pc' \in [Requests -> Stages]
    BY <1>6, <2>1, NotifyTyped DEF QueueTimeout
  <2>3. QED
    BY <1>6, <2>2, MoveOnTyped DEF TypeOK, QueueTimeout, LeaveQueue
<1>7. ASSUME NEW r \in Requests, BackendAnswers(r) \/ StreamEnds(r)
      PROVE  TypeOK'
  <2>1. pc' \in [Requests -> Stages]
    BY <1>7, NotifyTyped DEF BackendAnswers, StreamEnds, Stages
  <2>2. QED
    BY <1>7, <2>1 DEF TypeOK, BackendAnswers, StreamEnds, ReturnSlot
<1>8. ASSUME NEW r \in Requests, BackendFails(r)
      PROVE  TypeOK'
  <2>1. StageAfter(r) \in Stages
    BY <1>8, MoveOnTyped DEF BackendFails, Stages
  <2>2. pc' \in [Requests -> Stages]
    BY <1>8, <2>1, NotifyTyped DEF BackendFails
  <2>3. QED
    BY <1>8, <2>2, MoveOnTyped DEF TypeOK, BackendFails, ReturnSlot
<1>9. ASSUME NEW r \in Requests, StreamOpens(r) \/ HeadersSent(r) \/ ClientGone(r)
      PROVE  TypeOK'
  BY <1>9 DEF TypeOK, StreamOpens, HeadersSent, ClientGone, Goto, Stages, Owning, Serving
<1>10. ASSUME NEW r \in Requests, FinishRequest(r)
       PROVE  TypeOK'
  BY <1>10, AnyWorkerIsWorker DEF TypeOK, FinishRequest, Goto, Stages
<1>11. CASE UNCHANGED vars
  BY <1>11 DEF TypeOK, vars, threadVars
<1>13. QED
  BY <1>1, <1>2, <1>3, <1>4, <1>12, <1>5, <1>6, <1>7, <1>8, <1>9, <1>10, <1>11
  DEF NextWith, Step, Acquire, Recheck, Reply, Relay

\* Every counter stays a natural number and every thread in a known stage.
THEOREM TypeCorrect == Spec => []TypeOK
<1>1. Init => TypeOK
  BY AnyWorkerIsWorker DEF Init, TypeOK, Stages
<1>2. TypeOK /\ [Next]_vars => TypeOK'
  BY TypeStep DEF Next
<1>3. QED
  BY <1>1, <1>2, PTL DEF Spec

-----------------------------------------------------------------------------
(* How a step may change the owners and the waiters of a worker. *)

LEMMA OwnersFinite == \A w \in Workers : IsFiniteSet(Holders(w)) /\ IsFiniteSet(Waiters(w))
  BY FS_Subset DEF Holders, Waiters

SlotCount(w) == active[w] = Cardinality(Holders(w))
LineCount(w) == depth[w] = Cardinality(Waiters(w))

\* Nobody becomes or ceases to be an owner.
LEMMA SameOwners ==
  ASSUME NEW w \in Workers, SlotCount(w), UNCHANGED active,
         \A q \in Requests : /\ pc'[q] \in Owning <=> pc[q] \in Owning
                             /\ pc[q] \in Owning => worker'[q] = worker[q]
  PROVE  SlotCount(w)'
<1>1. Holders(w)' = Holders(w)
  BY DEF Holders
<1>2. QED
  BY <1>1 DEF SlotCount

\* r becomes an owner of a slot of its worker, and the counter goes up.
LEMMA OwnerAdded ==
  ASSUME TypeOK, NEW w \in Workers, SlotCount(w), NEW r \in Requests,
         TakeSlot(worker[r]), worker' = worker,
         pc[r] \notin Owning, pc'[r] \in Owning,
         \A q \in Requests \ {r} : pc'[q] \in Owning <=> pc[q] \in Owning
  PROVE  SlotCount(w)'
<1>1. CASE w # worker[r]
  <2>1. Holders(w)' = Holders(w)
    BY <1>1 DEF Holders
  <2>2. QED
    BY <1>1, <2>1 DEF SlotCount, TakeSlot, TypeOK
<1>2. CASE w = worker[r]
  <2>1. Holders(w)' = Holders(w) \union {r} /\ r \notin Holders(w)
    BY <1>2 DEF Holders
  <2>2. Cardinality(Holders(w)') = Cardinality(Holders(w)) + 1
    BY <2>1, OwnersFinite, FS_AddElement
  <2>3. QED
    BY <1>2, <2>2 DEF SlotCount, TakeSlot, TypeOK
<1>3. QED
  BY <1>1, <1>2

\* r ceases to be an owner, and the counter goes down: it was not zero.
LEMMA OwnerRemoved ==
  ASSUME TypeOK, NEW w \in Workers, SlotCount(w), NEW r \in Requests,
         ReturnSlot(worker[r]),
         pc[r] \in Owning, pc'[r] \notin Owning,
         \A q \in Requests \ {r} : /\ pc'[q] \in Owning <=> pc[q] \in Owning
                                   /\ worker'[q] = worker[q]
  PROVE  SlotCount(w)'
<1>1. CASE w # worker[r]
  <2>1. Holders(w)' = Holders(w)
    BY <1>1 DEF Holders
  <2>2. QED
    BY <1>1, <2>1 DEF SlotCount, ReturnSlot, TypeOK
<1>2. CASE w = worker[r]
  <2>1. Holders(w)' = Holders(w) \ {r} /\ r \in Holders(w)
    BY <1>2 DEF Holders
  <2>2. Cardinality(Holders(w)') = Cardinality(Holders(w)) - 1
    BY <2>1, OwnersFinite, FS_RemoveElement
  <2>3. Cardinality(Holders(w)) \in Nat \ {0}
    BY <2>1, OwnersFinite, FS_CardinalityType, FS_EmptySet
  <2>4. QED
    BY <1>2, <2>2, <2>3 DEF SlotCount, ReturnSlot, Decrement, TypeOK
<1>3. QED
  BY <1>1, <1>2

\* Nobody joins or leaves a line.
LEMMA SameWaiters ==
  ASSUME NEW w \in Workers, LineCount(w), UNCHANGED depth,
         \A q \in Requests : /\ pc'[q] \in Queued <=> pc[q] \in Queued
                             /\ pc[q] \in Queued => worker'[q] = worker[q]
  PROVE  LineCount(w)'
<1>1. Waiters(w)' = Waiters(w)
  BY DEF Waiters
<1>2. QED
  BY <1>1 DEF LineCount

\* r joins the line of its worker.
LEMMA WaiterAdded ==
  ASSUME TypeOK, NEW w \in Workers, LineCount(w), NEW r \in Requests,
         depth' = [depth EXCEPT ![worker[r]] = @ + 1], worker' = worker,
         pc[r] \notin Queued, pc'[r] \in Queued,
         \A q \in Requests \ {r} : pc'[q] \in Queued <=> pc[q] \in Queued
  PROVE  LineCount(w)'
<1>1. CASE w # worker[r]
  <2>1. Waiters(w)' = Waiters(w)
    BY <1>1 DEF Waiters
  <2>2. QED
    BY <1>1, <2>1 DEF LineCount, TypeOK
<1>2. CASE w = worker[r]
  <2>1. Waiters(w)' = Waiters(w) \union {r} /\ r \notin Waiters(w)
    BY <1>2 DEF Waiters
  <2>2. Cardinality(Waiters(w)') = Cardinality(Waiters(w)) + 1
    BY <2>1, OwnersFinite, FS_AddElement
  <2>3. QED
    BY <1>2, <2>2 DEF LineCount, TypeOK
<1>3. QED
  BY <1>1, <1>2

\* r leaves the line it was in.
LEMMA WaiterRemoved ==
  ASSUME TypeOK, NEW w \in Workers, LineCount(w), NEW r \in Requests,
         LeaveQueue(r),
         pc[r] \in Queued, pc'[r] \notin Queued,
         \A q \in Requests \ {r} : /\ pc'[q] \in Queued <=> pc[q] \in Queued
                                   /\ worker'[q] = worker[q]
  PROVE  LineCount(w)'
<1>1. CASE w # worker[r]
  <2>1. Waiters(w)' = Waiters(w)
    BY <1>1 DEF Waiters
  <2>2. QED
    BY <1>1, <2>1 DEF LineCount, LeaveQueue, TypeOK
<1>2. CASE w = worker[r]
  <2>1. Waiters(w)' = Waiters(w) \ {r} /\ r \in Waiters(w)
    BY <1>2 DEF Waiters
  <2>2. Cardinality(Waiters(w)') = Cardinality(Waiters(w)) - 1
    BY <2>1, OwnersFinite, FS_RemoveElement
  <2>3. Cardinality(Waiters(w)) \in Nat \ {0}
    BY <2>1, OwnersFinite, FS_CardinalityType, FS_EmptySet
  <2>4. QED
    BY <1>2, <2>2, <2>3 DEF LineCount, LeaveQueue, Decrement, TypeOK
<1>3. QED
  BY <1>1, <1>2

-----------------------------------------------------------------------------
(* The counters count. *)

\* No step of a request makes the counter of a worker wrong that was right.
LEMMA SlotCountStep ==
  ASSUME NEW capacity, TypeOK, [NextWith(capacity)]_vars, NEW w \in Workers, SlotCount(w)
  PROVE  SlotCount(w)'
<1>1. ASSUME NEW r \in Requests, ArriveUnserved(r) \/ Arrive(r) \/ FinishRequest(r)
      PROVE  SlotCount(w)'
  BY <1>1, SameOwners
  DEF TypeOK, ArriveUnserved, Arrive, FinishRequest, Goto, Owning, Serving
<1>2. ASSUME NEW r \in Requests, Admit(r, capacity)
      PROVE  SlotCount(w)'
  BY <1>2, OwnerAdded DEF TypeOK, Admit, Goto, Owning, Serving
<1>3. ASSUME NEW r \in Requests, RejectFull(r, capacity)
      PROVE  SlotCount(w)'
  BY <1>3, SameOwners, MoveOnTyped DEF TypeOK, RejectFull, Goto, Owning, Serving
<1>4. ASSUME NEW r \in Requests, Enqueue(r, capacity) \/ TimeOut(r) \/ WaitAgain(r, capacity)
      PROVE  SlotCount(w)'
  BY <1>4, SameOwners DEF TypeOK, Enqueue, TimeOut, WaitAgain, Goto, Owning, Serving, Queued
<1>5. ASSUME NEW r \in Requests, AdmitAfterWait(r, capacity)
      PROVE  SlotCount(w)'
  BY <1>5, OwnerAdded DEF TypeOK, AdmitAfterWait, Goto, Owning, Serving
<1>6. ASSUME NEW r \in Requests, QueueTimeout(r, capacity)
      PROVE  SlotCount(w)'
  <2>1. StageAfter(r) \in {"acquire", "closing"}
    BY <1>6, MoveOnTyped DEF QueueTimeout
  <2>2. \A q \in Requests : pc'[q] \in Owning <=> pc[q] \in Owning
    BY <1>6, <2>1, NotifyTyped DEF QueueTimeout, Stages, Owning, Serving
  <2>3. \A q \in Requests : pc[q] \in Owning => worker'[q] = worker[q]
    BY <1>6, MoveOnTyped DEF QueueTimeout, Owning, Serving
  <2>4. QED
    BY <1>6, <2>2, <2>3, SameOwners DEF QueueTimeout
<1>7. ASSUME NEW r \in Requests, BackendAnswers(r) \/ StreamEnds(r)
      PROVE  SlotCount(w)'
  <2>1. NotifyAllBut(r, "closing") /\ ReturnSlot(worker[r]) /\ worker' = worker /\ pc[r] \in Owning
    BY <1>7 DEF BackendAnswers, StreamEnds, Owning, Serving
  <2>2. pc'[r] \notin Owning
    BY <2>1, NotifyTyped DEF Stages, Owning, Serving
  <2>3. \A q \in Requests \ {r} : pc'[q] \in Owning <=> pc[q] \in Owning
    BY <2>1, NotifyTyped DEF Stages
  <2>4. QED
    BY <2>1, <2>2, <2>3, OwnerRemoved
<1>8. ASSUME NEW r \in Requests, BackendFails(r)
      PROVE  SlotCount(w)'
  <2>1. StageAfter(r) \in {"acquire", "closing"}
    BY <1>8, MoveOnTyped DEF BackendFails
  <2>2. NotifyAllBut(r, StageAfter(r)) /\ ReturnSlot(worker[r]) /\ pc[r] \in Owning
    BY <1>8 DEF BackendFails, Owning, Serving
  <2>3. pc'[r] \notin Owning
    BY <2>1, <2>2, NotifyTyped DEF Stages, Owning, Serving
  <2>4. \A q \in Requests \ {r} : /\ pc'[q] \in Owning <=> pc[q] \in Owning
                                  /\ worker'[q] = worker[q]
    BY <1>8, <2>1, <2>2, NotifyTyped, MoveOnTyped DEF Stages, BackendFails
  <2>5. QED
    BY <2>2, <2>3, <2>4, OwnerRemoved
<1>9. ASSUME NEW r \in Requests, StreamOpens(r) \/ HeadersSent(r) \/ ClientGone(r)
      PROVE  SlotCount(w)'
  BY <1>9, SameOwners
  DEF TypeOK, StreamOpens, HeadersSent, ClientGone, Goto, Owning, Serving
<1>10. CASE UNCHANGED vars
  BY <1>10, SameOwners DEF vars, threadVars
<1>11. QED
  BY <1>1, <1>2, <1>3, <1>4, <1>5, <1>6, <1>7, <1>8, <1>9, <1>10
  DEF NextWith, Step, Acquire, Recheck, Reply, Relay

\* Every counter is the number of requests that own a slot of the worker.
THEOREM SlotsAreCounted == Spec => []SlotsCounted
<1>1. Init => SlotsCounted
  <2> SUFFICES ASSUME Init PROVE SlotsCounted
    OBVIOUS
  <2>1. \A w \in Workers : Holders(w) = {}
    BY DEF Init, Holders, Owning, Serving
  <2>2. QED
    BY <2>1, FS_EmptySet DEF Init, SlotsCounted
<1>2. TypeOK /\ SlotsCounted /\ [Next]_vars => SlotsCounted'
  BY SlotCountStep DEF Next, SlotsCounted, SlotCount
<1>3. QED
  BY <1>1, <1>2, TypeCorrect, PTL DEF Spec

\* The same of the queue depth.
LEMMA LineCountStep ==
  ASSUME NEW capacity, TypeOK, [NextWith(capacity)]_vars, NEW w \in Workers, LineCount(w)
  PROVE  LineCount(w)'
<1>1. ASSUME NEW r \in Requests, ArriveUnserved(r) \/ Arrive(r) \/ FinishRequest(r)
      PROVE  LineCount(w)'
  BY <1>1, SameWaiters DEF TypeOK, ArriveUnserved, Arrive, FinishRequest, Goto, Queued
<1>2. ASSUME NEW r \in Requests, Admit(r, capacity)
      PROVE  LineCount(w)'
  BY <1>2, SameWaiters DEF TypeOK, Admit, Goto, Queued
<1>3. ASSUME NEW r \in Requests, RejectFull(r, capacity)
      PROVE  LineCount(w)'
  BY <1>3, SameWaiters, MoveOnTyped DEF TypeOK, RejectFull, Goto, Queued
<1>4. ASSUME NEW r \in Requests, Enqueue(r, capacity)
      PROVE  LineCount(w)'
  BY <1>4, WaiterAdded DEF TypeOK, Enqueue, Goto, Queued
<1>5. ASSUME NEW r \in Requests, TimeOut(r) \/ WaitAgain(r, capacity)
      PROVE  LineCount(w)'
  BY <1>5, SameWaiters DEF TypeOK, TimeOut, WaitAgain, Goto, Queued
<1>6. ASSUME NEW r \in Requests, AdmitAfterWait(r, capacity)
      PROVE  LineCount(w)'
  BY <1>6, WaiterRemoved DEF TypeOK, AdmitAfterWait, Goto, Queued
<1>7. ASSUME NEW r \in Requests, QueueTimeout(r, capacity)
      PROVE  LineCount(w)'
  <2>1. StageAfter(r) \in {"acquire", "closing"}
    BY <1>7, MoveOnTyped DEF QueueTimeout
  <2>2. NotifyAllBut(r, StageAfter(r)) /\ LeaveQueue(r) /\ pc[r] \in Queued
    BY <1>7 DEF QueueTimeout, Queued
  <2>3. pc'[r] \notin Queued
    BY <2>1, <2>2, NotifyTyped DEF Stages, Queued
  <2>4. \A q \in Requests \ {r} : /\ pc'[q] \in Queued <=> pc[q] \in Queued
                                  /\ worker'[q] = worker[q]
    BY <1>7, <2>1, <2>2, NotifyTyped, MoveOnTyped DEF Stages, QueueTimeout
  <2>5. QED
    BY <2>2, <2>3, <2>4, WaiterRemoved
<1>8. ASSUME NEW r \in Requests, BackendAnswers(r) \/ StreamEnds(r)
      PROVE  LineCount(w)'
  <2>1. NotifyAllBut(r, "closing") /\ UNCHANGED <<depth, worker>> /\ pc[r] \notin Queued
    BY <1>8 DEF BackendAnswers, StreamEnds, Queued
  <2>2. \A q \in Requests : pc'[q] \in Queued <=> pc[q] \in Queued
    BY <2>1, NotifyTyped DEF Stages, Queued
  <2>3. QED
    BY <2>1, <2>2, SameWaiters
<1>9. ASSUME NEW r \in Requests, BackendFails(r)
      PROVE  LineCount(w)'
  <2>1. StageAfter(r) \in {"acquire", "closing"}
    BY <1>9, MoveOnTyped DEF BackendFails
  <2>2. NotifyAllBut(r, StageAfter(r)) /\ UNCHANGED depth /\ pc[r] \notin Queued
    BY <1>9 DEF BackendFails, Queued
  <2>3. \A q \in Requests : pc'[q] \in Queued <=> pc[q] \in Queued
    BY <2>1, <2>2, NotifyTyped DEF Stages, Queued
  <2>4. \A q \in Requests : pc[q] \in Queued => worker'[q] = worker[q]
    BY <1>9, <2>2, MoveOnTyped DEF BackendFails
  <2>5. QED
    BY <2>2, <2>3, <2>4, SameWaiters
<1>10. ASSUME NEW r \in Requests, StreamOpens(r) \/ HeadersSent(r) \/ ClientGone(r)
       PROVE  LineCount(w)'
  BY <1>10, SameWaiters DEF TypeOK, StreamOpens, HeadersSent, ClientGone, Goto, Queued
<1>11. CASE UNCHANGED vars
  BY <1>11, SameWaiters DEF vars, threadVars
<1>12. QED
  BY <1>1, <1>2, <1>3, <1>4, <1>5, <1>6, <1>7, <1>8, <1>9, <1>10, <1>11
  DEF NextWith, Step, Acquire, Recheck, Reply, Relay

\* Every queue depth is the number of threads in line for the worker.
THEOREM QueueIsCounted == Spec => []QueueCounted
<1>1. Init => QueueCounted
  <2> SUFFICES ASSUME Init PROVE QueueCounted
    OBVIOUS
  <2>1. \A w \in Workers : Waiters(w) = {}
    BY DEF Init, Waiters, Queued
  <2>2. QED
    BY <2>1, FS_EmptySet DEF Init, QueueCounted
<1>2. TypeOK /\ QueueCounted /\ [Next]_vars => QueueCounted'
  BY LineCountStep DEF Next, QueueCounted, LineCount
<1>3. QED
  BY <1>1, <1>2, TypeCorrect, PTL DEF Spec

\* The gauge is the number of threads between begin_request and finish_request.
Inflight == {r \in Requests : pc[r] \notin {"idle", "aborted"}}

LEMMA InflightStep ==
  ASSUME TypeOK, inflight = Cardinality(Inflight), [Next]_vars
  PROVE  inflight' = Cardinality(Inflight')
<1>0. IsFiniteSet(Inflight)
  BY FS_Subset DEF Inflight
<1>1. ASSUME NEW r \in Requests, ArriveUnserved(r) \/ Arrive(r)
      PROVE  inflight' = Cardinality(Inflight')
  <2>1. Inflight' = Inflight \union {r} /\ r \notin Inflight /\ inflight' = inflight + 1
    BY <1>1 DEF TypeOK, Inflight, ArriveUnserved, Arrive, Goto
  <2>2. QED
    BY <1>0, <2>1, FS_AddElement
<1>2. ASSUME NEW r \in Requests, ClientGone(r) \/ FinishRequest(r)
      PROVE  inflight' = Cardinality(Inflight')
  <2>1. Inflight' = Inflight \ {r} /\ r \in Inflight /\ inflight' = Decrement(inflight)
    BY <1>2 DEF TypeOK, Inflight, ClientGone, FinishRequest, Goto
  <2>2. Cardinality(Inflight') = Cardinality(Inflight) - 1
    BY <1>0, <2>1, FS_RemoveElement
  <2>3. Cardinality(Inflight) \in Nat \ {0}
    BY <1>0, <2>1, FS_CardinalityType, FS_EmptySet
  <2>4. QED
    BY <2>1, <2>2, <2>3 DEF Decrement
<1>3. ASSUME NEW r \in Requests,
             \/ Admit(r, Capacity) \/ Enqueue(r, Capacity) \/ TimeOut(r) \/ AdmitAfterWait(r, Capacity)
             \/ WaitAgain(r, Capacity) \/ StreamOpens(r) \/ HeadersSent(r)
      PROVE  inflight' = inflight /\ Inflight' = Inflight
  BY <1>3 DEF TypeOK, Inflight, Admit, Enqueue, TimeOut, AdmitAfterWait, WaitAgain,
              StreamOpens, HeadersSent, Goto, Queued
<1>4. ASSUME NEW r \in Requests,
             \/ RejectFull(r, Capacity) \/ QueueTimeout(r, Capacity) \/ BackendAnswers(r) \/ BackendFails(r) \/ StreamEnds(r)
      PROVE  inflight' = inflight /\ Inflight' = Inflight
  <2>1. PICK stage \in {"acquire", "closing"} : Goto(r, stage) \/ NotifyAllBut(r, stage)
    BY <1>4, MoveOnTyped DEF RejectFull, QueueTimeout, BackendAnswers, BackendFails, StreamEnds
  <2>2. pc[r] \notin {"idle", "aborted"} /\ inflight' = inflight
    BY <1>4 DEF RejectFull, QueueTimeout, BackendAnswers, BackendFails, StreamEnds
  <2>3. QED
    BY <2>1, <2>2 DEF TypeOK, Inflight, Goto, NotifyAllBut
<1>5. CASE UNCHANGED vars
  BY <1>5 DEF vars, threadVars, Inflight
<1>6. QED
  BY <1>1, <1>2, <1>3, <1>4, <1>5 DEF Next, NextWith, Step, Acquire, Recheck, Reply, Relay

\* The active-requests gauge is right on every path through proxy.
THEOREM InflightIsCounted == Spec => []InflightCounted
<1>1. Init => InflightCounted
  <2> SUFFICES ASSUME Init PROVE InflightCounted
    OBVIOUS
  <2>1. {r \in Requests : pc[r] \notin {"idle", "aborted"}} = {}
    BY DEF Init
  <2>2. QED
    BY <2>1, FS_EmptySet DEF Init, InflightCounted
<1>2. TypeOK /\ InflightCounted /\ [Next]_vars => InflightCounted'
  BY InflightStep DEF InflightCounted, Inflight
<1>3. QED
  BY <1>1, <1>2, TypeCorrect, PTL DEF Spec

-----------------------------------------------------------------------------
(* The limits. *)

\* What a step may do to a worker's counter: raise it by one where a slot is
\* free or queueing is off, or not raise it.
LEMMA ActiveStep ==
  ASSUME NEW capacity, TypeOK, [NextWith(capacity)]_vars, NEW w \in Workers
  PROVE  \/ active'[w] <= active[w]
         \/ active'[w] = active[w] + 1 /\ (QueueLimit = 0 \/ SlotFree(w, capacity))
<1>1. ASSUME NEW r \in Requests, Admit(r, capacity) \/ AdmitAfterWait(r, capacity)
      PROVE  \/ active'[w] <= active[w]
             \/ active'[w] = active[w] + 1 /\ (QueueLimit = 0 \/ SlotFree(w, capacity))
  BY <1>1 DEF TypeOK, Admit, AdmitAfterWait, TakeSlot
<1>2. ASSUME NEW r \in Requests, BackendAnswers(r) \/ BackendFails(r) \/ StreamEnds(r)
      PROVE  active'[w] <= active[w]
  BY <1>2 DEF TypeOK, BackendAnswers, BackendFails, StreamEnds, ReturnSlot, Decrement
<1>3. ASSUME NEW r \in Requests,
             \/ ArriveUnserved(r) \/ Arrive(r) \/ RejectFull(r, capacity) \/ Enqueue(r, capacity) \/ TimeOut(r)
             \/ WaitAgain(r, capacity) \/ QueueTimeout(r, capacity) \/ StreamOpens(r) \/ HeadersSent(r)
             \/ ClientGone(r) \/ FinishRequest(r)
      PROVE  active' = active
  BY <1>3 DEF ArriveUnserved, Arrive, RejectFull, Enqueue, TimeOut, WaitAgain, QueueTimeout,
              StreamOpens, HeadersSent, ClientGone, FinishRequest
<1>4. CASE UNCHANGED vars
  BY <1>4 DEF vars, TypeOK
<1>5. QED
  BY <1>1, <1>2, <1>3, <1>4 DEF TypeOK, NextWith, Step, Acquire, Recheck, Reply, Relay

LEMMA CapacityStep ==
  ASSUME TypeOK, CapacityRespected, [Next]_vars
  PROVE  CapacityRespected'
<1> SUFFICES ASSUME QueueLimit > 0, NEW w \in Workers PROVE active'[w] <= Capacity[w]
  BY DEF CapacityRespected
<1>1. active[w] \in Nat /\ Capacity[w] \in Nat /\ active[w] <= Capacity[w]
  BY DEF TypeOK, CapacityRespected
<1>2. \/ active'[w] <= active[w]
      \/ active'[w] = active[w] + 1 /\ active[w] < Capacity[w]
  BY ActiveStep DEF Next, SlotFree
<1>3. active'[w] \in Nat
  <2>1. TypeOK'
    BY TypeStep DEF Next
  <2>2. QED
    BY <2>1 DEF TypeOK
<1>4. QED
  BY <1>1, <1>2, <1>3

\* No worker is sent more than its capacity while queueing is on.
THEOREM CapacityIsRespected == Spec => []CapacityRespected
<1>1. Init => CapacityRespected
  BY DEF Init, CapacityRespected
<1>2. TypeOK /\ CapacityRespected /\ [Next]_vars => CapacityRespected'
  BY CapacityStep
<1>3. QED
  BY <1>1, <1>2, TypeCorrect, PTL DEF Spec

LEMMA QueueStep ==
  ASSUME NEW capacity, TypeOK, QueueBounded, [NextWith(capacity)]_vars
  PROVE  QueueBounded'
<1>1. ASSUME NEW r \in Requests, Enqueue(r, capacity)
      PROVE  QueueBounded'
  BY <1>1 DEF TypeOK, QueueBounded, Enqueue
<1>2. ASSUME NEW r \in Requests, AdmitAfterWait(r, capacity) \/ QueueTimeout(r, capacity)
      PROVE  QueueBounded'
  BY <1>2 DEF TypeOK, QueueBounded, AdmitAfterWait, QueueTimeout, LeaveQueue, Decrement
<1>3. ASSUME NEW r \in Requests,
             \/ ArriveUnserved(r) \/ Arrive(r) \/ Admit(r, capacity) \/ RejectFull(r, capacity)
             \/ TimeOut(r) \/ WaitAgain(r, capacity) \/ BackendAnswers(r) \/ BackendFails(r)
             \/ StreamOpens(r) \/ HeadersSent(r) \/ ClientGone(r) \/ StreamEnds(r)
             \/ FinishRequest(r)
      PROVE  depth' = depth
  BY <1>3 DEF ArriveUnserved, Arrive, Admit, RejectFull, TimeOut, WaitAgain,
              BackendAnswers, BackendFails, StreamOpens, HeadersSent, ClientGone, StreamEnds,
              FinishRequest
<1>4. CASE UNCHANGED vars
  BY <1>4 DEF vars, QueueBounded
<1>5. QED
  BY <1>1, <1>2, <1>3, <1>4 DEF QueueBounded, NextWith, Step, Acquire, Recheck, Reply, Relay

\* No line is longer than the queue limit.
THEOREM QueueIsBounded == Spec => []QueueBounded
<1>1. Init => QueueBounded
  BY DEF Init, QueueBounded
<1>2. TypeOK /\ QueueBounded /\ [Next]_vars => QueueBounded'
  BY QueueStep DEF Next
<1>3. QED
  BY <1>1, <1>2, TypeCorrect, PTL DEF Spec

\* Whoever is asleep after a step of r was asleep before, and no slot of its worker was
\* freed; or it is r, which has just found its worker full.
Asleep(q, r, capacity) ==
  /\ worker'[q] = worker[q]
  /\ active'[worker[q]] >= active[worker[q]]
  /\ \/ q # r /\ pc[q] = "parked"
     \/ q = r /\ pc[r] \in {"acquire", "woken"} /\ ~SlotFree(worker[r], capacity)

\* Whoever frees a slot notifies in the same critical section.
LEMMA SleepStep ==
  ASSUME NEW capacity, TypeOK, NEW r \in Requests, Step(r, capacity),
         NEW q \in Requests, pc'[q] = "parked"
  PROVE  Asleep(q, r, capacity)
<1> USE DEF Asleep
<1>1. CASE Admit(r, capacity) \/ AdmitAfterWait(r, capacity)
  <2>1. active' = [active EXCEPT ![worker[r]] = @ + 1] /\ UNCHANGED worker /\ Goto(r, "backend")
    BY <1>1 DEF Admit, AdmitAfterWait, TakeSlot
  <2>2. QED
    BY <2>1 DEF TypeOK, Goto
<1>2. CASE Enqueue(r, capacity) \/ WaitAgain(r, capacity)
  BY <1>2 DEF TypeOK, Enqueue, WaitAgain, Goto
<1>3. CASE RejectFull(r, capacity) \/ QueueTimeout(r, capacity)
  <2>1. /\ StageAfter(r) # "parked"
        /\ \A u \in Requests \ {r} : worker'[u] = worker[u]
        /\ UNCHANGED active
    BY <1>3, MoveOnTyped DEF RejectFull, QueueTimeout
  <2>2. q # r /\ pc[q] = "parked"
    BY <1>3, <2>1 DEF TypeOK, RejectFull, QueueTimeout, Goto, NotifyAllBut
  <2>3. QED
    BY <2>1, <2>2 DEF TypeOK
<1>4. CASE BackendAnswers(r) \/ BackendFails(r) \/ StreamEnds(r)
  <2>1. PICK stage \in {"acquire", "closing"} : NotifyAllBut(r, stage)
    BY <1>4, MoveOnTyped DEF BackendAnswers, BackendFails, StreamEnds
  <2>2. QED
    BY <2>1 DEF NotifyAllBut
<1>5. CASE \/ ArriveUnserved(r) \/ Arrive(r) \/ TimeOut(r) \/ StreamOpens(r)
           \/ HeadersSent(r) \/ ClientGone(r) \/ FinishRequest(r)
  <2>1. /\ q # r /\ pc[q] = "parked"
        /\ worker'[q] = worker[q]
        /\ UNCHANGED active
    BY <1>5 DEF TypeOK, ArriveUnserved, Arrive, TimeOut, StreamOpens, HeadersSent, ClientGone,
                FinishRequest, Goto
  <2>2. QED
    BY <2>1 DEF TypeOK
<1>6. QED
  BY <1>1, <1>2, <1>3, <1>4, <1>5 DEF Step, Acquire, Recheck, Reply, Relay

LEMMA WakeupStep ==
  ASSUME TypeOK, NoLostWakeup, [Next]_vars
  PROVE  NoLostWakeup'
<1>1. ASSUME NEW r \in Requests, Step(r, Capacity) PROVE NoLostWakeup'
  <2> SUFFICES ASSUME NEW q \in Requests, pc'[q] = "parked"
               PROVE  ~(active'[worker'[q]] < Capacity[worker'[q]])
    BY DEF NoLostWakeup, SlotFree
  <2>1. Asleep(q, r, Capacity)
    BY <1>1, SleepStep
  <2>2. TypeOK'
    BY <1>1, TypeStep DEF Next, NextWith
  <2>3. active[worker[q]] \in Nat /\ active'[worker[q]] \in Nat /\ Capacity[worker[q]] \in Nat
    BY <2>1, <2>2 DEF TypeOK
  <2>4. ~(active[worker[q]] < Capacity[worker[q]])
    BY <2>1 DEF Asleep, NoLostWakeup, SlotFree
  <2>5. QED
    BY <2>1, <2>3, <2>4 DEF Asleep
<1>2. CASE UNCHANGED vars
  BY <1>2 DEF vars, threadVars, NoLostWakeup, SlotFree
<1>3. QED
  BY <1>1, <1>2 DEF Next, NextWith

\* No thread sleeps while its worker has a free slot.
THEOREM NoWakeupIsLost == Spec => []NoLostWakeup
<1>1. Init => NoLostWakeup
  BY DEF Init, NoLostWakeup
<1>2. TypeOK /\ NoLostWakeup /\ [Next]_vars => NoLostWakeup'
  BY WakeupStep
<1>3. QED
  BY <1>1, <1>2, TypeCorrect, PTL DEF Spec

-----------------------------------------------------------------------------
(* Refinement: every step is a step of WorkerSlots or leaves its sets alone. *)

HoldersMap == [w \in Workers |-> Holders(w)]
LineMap == [w \in Workers |-> Waiters(w)]

LEMMA FullMeansNoSlot ==
  ASSUME TypeOK, SlotsCounted, NEW w \in Workers
  PROVE  Slots!Full(w) <=> ~SlotFree(w, Capacity)
<1>1. Slots!Full(w) <=> Cardinality(Holders(w)) >= Capacity[w]
  BY DEF Slots!Full, Slots!Cardinality, Cardinality
<1>2. Cardinality(Holders(w)) = active[w] /\ active[w] \in Nat /\ Capacity[w] \in Nat
  BY DEF TypeOK, SlotsCounted
<1>3. QED
  BY <1>1, <1>2 DEF SlotFree

LEMMA EngagedMeans ==
  ASSUME NEW r \in Requests, worker[r] \in Workers
  PROVE  Slots!Engaged(r) <=> pc[r] \in Owning \union Queued
  BY DEF Slots!Engaged, Holders, Waiters

\* The map does not see steps that move no thread into or out of a set.
LEMMA MapUnchanged ==
  ASSUME \A q \in Requests : /\ pc'[q] \in Owning <=> pc[q] \in Owning
                             /\ pc'[q] \in Queued <=> pc[q] \in Queued
                             /\ pc[q] \in Owning \union Queued => worker'[q] = worker[q]
  PROVE  UNCHANGED <<HoldersMap, LineMap>>
<1>1. \A w \in Workers : Holders(w)' = Holders(w) /\ Waiters(w)' = Waiters(w)
  BY DEF Holders, Waiters
<1>2. QED
  BY <1>1 DEF HoldersMap, LineMap

\* What the map does when only r enters or leaves a set of its worker.
LEMMA MapMoves ==
  ASSUME NEW r \in Requests, NEW v \in Workers, worker[r] = v,
         \A q \in Requests \ {r} : /\ pc'[q] \in Owning <=> pc[q] \in Owning
                                   /\ pc'[q] \in Queued <=> pc[q] \in Queued
                                   /\ worker'[q] = worker[q]
  PROVE  /\ (pc'[r] \in Owning /\ worker'[r] = v)
               => HoldersMap' = [HoldersMap EXCEPT ![v] = @ \union {r}]
         /\ (pc'[r] \in Queued /\ worker'[r] = v)
               => LineMap' = [LineMap EXCEPT ![v] = @ \union {r}]
         /\ pc'[r] \notin Owning => HoldersMap' = [HoldersMap EXCEPT ![v] = @ \ {r}]
         /\ pc'[r] \notin Queued => LineMap' = [LineMap EXCEPT ![v] = @ \ {r}]
<1>1. \A w \in Workers \ {v} : Holders(w) \ {r} = Holders(w) /\ Waiters(w) \ {r} = Waiters(w)
  BY DEF Holders, Waiters
<1>2. ASSUME pc'[r] \in Owning, worker'[r] = v
      PROVE  HoldersMap' = [HoldersMap EXCEPT ![v] = @ \union {r}]
  <2>1. \A w \in Workers : Holders(w)' = IF w = v THEN Holders(w) \union {r} ELSE Holders(w)
    BY <1>2 DEF Holders
  <2>2. QED
    BY <2>1 DEF HoldersMap
<1>3. ASSUME pc'[r] \in Queued, worker'[r] = v
      PROVE  LineMap' = [LineMap EXCEPT ![v] = @ \union {r}]
  <2>1. \A w \in Workers : Waiters(w)' = IF w = v THEN Waiters(w) \union {r} ELSE Waiters(w)
    BY <1>3 DEF Waiters
  <2>2. QED
    BY <2>1 DEF LineMap
<1>4. ASSUME pc'[r] \notin Owning
      PROVE  HoldersMap' = [HoldersMap EXCEPT ![v] = @ \ {r}]
  <2>1. \A w \in Workers : Holders(w)' = IF w = v THEN Holders(w) \ {r} ELSE Holders(w)
    BY <1>4 DEF Holders
  <2>2. QED
    BY <2>1 DEF HoldersMap
<1>5. ASSUME pc'[r] \notin Queued
      PROVE  LineMap' = [LineMap EXCEPT ![v] = @ \ {r}]
  <2>1. \A w \in Workers : Waiters(w)' = IF w = v THEN Waiters(w) \ {r} ELSE Waiters(w)
    BY <1>5 DEF Waiters
  <2>2. QED
    BY <2>1 DEF LineMap
<1>6. QED
  BY <1>2, <1>3, <1>4, <1>5

\* A set that r is not in does not notice its removal.
LEMMA RemovalUnseen ==
  ASSUME NEW r \in Requests, NEW v \in Workers
  PROVE  /\ pc[r] \notin Owning => [HoldersMap EXCEPT ![v] = @ \ {r}] = HoldersMap
         /\ pc[r] \notin Queued => [LineMap EXCEPT ![v] = @ \ {r}] = LineMap
<1>1. pc[r] \notin Owning => Holders(v) \ {r} = Holders(v)
  BY DEF Holders
<1>2. pc[r] \notin Queued => Waiters(v) \ {r} = Waiters(v)
  BY DEF Waiters
<1>3. QED
  BY <1>1, <1>2 DEF HoldersMap, LineMap

LEMMA SlotStep ==
  ASSUME TypeOK, SlotsCounted, QueueCounted, [Next]_vars
  PROVE  [Slots!Next]_<<HoldersMap, LineMap>>
<1> USE DEF Goto, Owning, Serving, Queued
<1>1. ASSUME NEW r \in Requests, Admit(r, Capacity)
      PROVE  Slots!Take(r, worker[r])
  <2>1. PICK v \in Workers : v = worker[r]
    BY DEF TypeOK
  <2>2. ~Slots!Engaged(r) /\ (QueueLimit > 0 => ~Slots!Full(v))
    BY <1>1, <2>1, EngagedMeans, FullMeansNoSlot DEF Admit
  <2>3. /\ pc[r] = "acquire" /\ pc'[r] = "backend" /\ worker' = worker
        /\ \A q \in Requests \ {r} : pc'[q] = pc[q]
    BY <1>1 DEF TypeOK, Admit
  <2>4. HoldersMap' = [HoldersMap EXCEPT ![v] = @ \union {r}]
    BY <2>1, <2>3, MapMoves
  <2>5. LineMap' = LineMap
    <3>1. LineMap' = [LineMap EXCEPT ![v] = @ \ {r}]
      BY <2>1, <2>3, MapMoves
    <3>2. pc[r] \notin Queued
      BY <2>3
    <3>3. QED
      BY <3>1, <3>2, RemovalUnseen
  <2>6. QED
    BY <2>1, <2>2, <2>4, <2>5 DEF Slots!Take, HoldersMap, LineMap
<1>2. ASSUME NEW r \in Requests, Enqueue(r, Capacity)
      PROVE  Slots!JoinLine(r, worker[r])
  <2>1. PICK v \in Workers : v = worker[r]
    BY DEF TypeOK
  <2>2. ~Slots!Engaged(r) /\ Slots!Full(v)
    BY <1>2, <2>1, EngagedMeans, FullMeansNoSlot DEF Enqueue
  <2>3. Cardinality(Waiters(v)) < QueueLimit
    BY <1>2, <2>1 DEF Enqueue, QueueCounted
  <2>4. /\ pc[r] = "acquire" /\ pc'[r] = "parked" /\ worker' = worker
        /\ \A q \in Requests \ {r} : pc'[q] = pc[q]
    BY <1>2 DEF TypeOK, Enqueue
  <2>5. LineMap' = [LineMap EXCEPT ![v] = @ \union {r}]
    BY <2>1, <2>4, MapMoves
  <2>6. HoldersMap' = HoldersMap
    <3>1. HoldersMap' = [HoldersMap EXCEPT ![v] = @ \ {r}]
      BY <2>1, <2>4, MapMoves
    <3>2. pc[r] \notin Owning
      BY <2>4
    <3>3. QED
      BY <3>1, <3>2, RemovalUnseen
  <2>7. LineMap[v] = Waiters(v)
    BY DEF LineMap
  <2>8. QED
    BY <2>1, <2>2, <2>3, <2>5, <2>6, <2>7
    DEF Slots!JoinLine, Slots!Cardinality, Cardinality, HoldersMap, LineMap
<1>3. ASSUME NEW r \in Requests, AdmitAfterWait(r, Capacity)
      PROVE  Slots!Promote(r, worker[r])
  <2>1. PICK v \in Workers : v = worker[r]
    BY DEF TypeOK
  <2>2. r \in Waiters(v) /\ ~Slots!Full(v)
    BY <1>3, <2>1, FullMeansNoSlot DEF AdmitAfterWait, Waiters
  <2>3. pc' = [pc EXCEPT ![r] = "backend"] /\ worker' = worker
    BY <1>3 DEF AdmitAfterWait
  <2>4. /\ LineMap' = [LineMap EXCEPT ![v] = @ \ {r}]
        /\ HoldersMap' = [HoldersMap EXCEPT ![v] = @ \union {r}]
    BY <2>1, <2>3, MapMoves DEF TypeOK
  <2>5. QED
    BY <2>1, <2>2, <2>4 DEF Slots!Promote, HoldersMap, LineMap
<1>4. ASSUME NEW r \in Requests, QueueTimeout(r, Capacity)
      PROVE  Slots!GiveUp(r, worker[r])
  <2>1. PICK v \in Workers : v = worker[r]
    BY DEF TypeOK
  <2>2. PICK stage \in {"acquire", "closing"} : NotifyAllBut(r, stage)
    BY <1>4, MoveOnTyped DEF QueueTimeout
  <2>3. r \in Waiters(v) /\ pc[r] \notin Owning
    BY <1>4, <2>1 DEF QueueTimeout, Waiters
  <2>4. \A q \in Requests \ {r} : worker'[q] = worker[q]
    BY <1>4, MoveOnTyped DEF QueueTimeout
  <2>5. /\ LineMap' = [LineMap EXCEPT ![v] = @ \ {r}]
        /\ HoldersMap' = [HoldersMap EXCEPT ![v] = @ \ {r}]
    BY <2>1, <2>2, <2>4, NotifyTyped, MapMoves DEF Stages
  <2>6. HoldersMap' = HoldersMap
    BY <2>3, <2>5, RemovalUnseen
  <2>7. QED
    BY <2>1, <2>3, <2>5, <2>6 DEF Slots!GiveUp, HoldersMap, LineMap
<1>5. ASSUME NEW r \in Requests, BackendAnswers(r) \/ BackendFails(r) \/ StreamEnds(r)
      PROVE  Slots!Return(r, worker[r])
  <2>1. PICK v \in Workers : v = worker[r]
    BY DEF TypeOK
  <2>2. PICK stage \in {"acquire", "closing"} : NotifyAllBut(r, stage)
    BY <1>5, MoveOnTyped DEF BackendAnswers, BackendFails, StreamEnds
  <2>3. r \in Holders(v) /\ pc[r] \notin Queued
    BY <1>5, <2>1 DEF BackendAnswers, BackendFails, StreamEnds, Holders
  <2>4. \A q \in Requests \ {r} : worker'[q] = worker[q]
    BY <1>5, MoveOnTyped DEF BackendAnswers, BackendFails, StreamEnds
  <2>5. /\ LineMap' = [LineMap EXCEPT ![v] = @ \ {r}]
        /\ HoldersMap' = [HoldersMap EXCEPT ![v] = @ \ {r}]
    BY <2>1, <2>2, <2>4, NotifyTyped, MapMoves DEF Stages
  <2>6. LineMap' = LineMap
    BY <2>3, <2>5, RemovalUnseen
  <2>7. QED
    BY <2>1, <2>3, <2>5, <2>6 DEF Slots!Return, HoldersMap, LineMap
<1>6. ASSUME NEW r \in Requests, RejectFull(r, Capacity)
      PROVE  UNCHANGED <<HoldersMap, LineMap>>
  BY <1>6, MoveOnTyped, MapUnchanged DEF TypeOK, RejectFull
<1>7. ASSUME NEW r \in Requests,
             \/ ArriveUnserved(r) \/ Arrive(r) \/ TimeOut(r) \/ WaitAgain(r, Capacity) \/ StreamOpens(r)
             \/ HeadersSent(r) \/ ClientGone(r) \/ FinishRequest(r)
      PROVE  UNCHANGED <<HoldersMap, LineMap>>
  BY <1>7, MapUnchanged DEF TypeOK, ArriveUnserved, Arrive, TimeOut, WaitAgain, StreamOpens,
                            HeadersSent, ClientGone, FinishRequest
<1>8. CASE UNCHANGED vars
  BY <1>8, MapUnchanged DEF vars, threadVars
<1>9. \A r \in Requests : worker[r] \in Workers
  BY DEF TypeOK
<1>10. QED
  BY <1>1, <1>2, <1>3, <1>4, <1>5, <1>6, <1>7, <1>8, <1>9
  DEF Slots!Next, Next, NextWith, Step, Acquire, Recheck, Reply, Relay

\* The router's counters and its condition variable implement WorkerSlots.
THEOREM SlotsImplemented == Spec => ImplementsSlots
<1>1. Init => Slots!Init
  BY DEF Init, Slots!Init, Holders, Waiters, Owning, Serving, Queued
<1>2. TypeOK /\ SlotsCounted /\ QueueCounted /\ [Next]_vars => [Slots!Next]_(Slots!vars)
  BY SlotStep DEF Slots!vars, HoldersMap, LineMap
<1>3. QED
  BY <1>1, <1>2, TypeCorrect, SlotsAreCounted, QueueIsCounted, PTL
  DEF Spec, ImplementsSlots, Slots!Spec
-----------------------------------------------------------------------------
(* The two invariants of the runs, from their parts. *)

\* All three counters agree with what the threads do, for any number of them.
THEOREM CountersAreExact == Spec => []CountersExact
<1>1. SlotsCounted /\ QueueCounted /\ InflightCounted => CountersExact
  BY DEF CountersExact
<1>2. QED
  BY <1>1, SlotsAreCounted, QueueIsCounted, InflightIsCounted, PTL

\* No worker is sent too much, no line is too long, and no thread sleeps beside a free
\* slot.
THEOREM NobodyIsOverOrUnder == Spec => []NobodyOverOrUnder
<1>1. CapacityRespected /\ QueueBounded /\ NoLostWakeup => NobodyOverOrUnder
  BY DEF NobodyOverOrUnder
<1>2. QED
  BY <1>1, CapacityIsRespected, QueueIsBounded, NoWakeupIsLost, PTL

-----------------------------------------------------------------------------
(***************************************************************************)
(* What survives a reload of the inventory, for any number of requests,    *)
(* workers, capacities and reloading threads: the bounds on the counters,  *)
(* no lost wakeup, and exact counts for every worker whose requests did    *)
(* not change while a reload had copies of the counters in its hands.      *)
(*                                                                         *)
(* Steps of requests are steps of WorkerAdmission, with the capacities the *)
(* request has ranked, so its lemmas apply; the invariants here say what   *)
(* the copies are good for.  Of the capacities, a request that gets a slot *)
(* makes the owners at most as many as the capacity it goes by, and it is  *)
(* one of those that know that capacity or less; so of these there are     *)
(* never more than that, whoever comes and goes afterwards.                *)
(***************************************************************************)

ReloadRows ==
  [at : {"idle", "copy", "swap", "rebuild"}, workers : SUBSET Workers,
   capacity : Capacities, active : [Workers -> Nat], depth : [Workers -> Nat]]

USE ReloadAssumption

Copied(t) == reload[t].at \in {"swap", "rebuild"}

\* What a reload may put in the new table is a count that is still right, of every
\* worker that nothing has happened to.
CopiesRight ==
  \A t \in Reloaders, w \in Workers \ disturbed : Copied(t) =>
    /\ reload[t].active[w] = Cardinality(Holders(w))
    /\ reload[t].depth[w] = Cardinality(Waiters(w))

\* A worker has had a capacity of n or more.
Bounded(w, n) == \E capacity \in Capacities : n <= capacity[w]

CopiesBounded ==
  QueueLimit > 0 => \A t \in Reloaders, w \in Workers : Bounded(w, reload[t].active[w])

DepthsBounded == \A t \in Reloaders, w \in Workers : reload[t].depth[w] <= QueueLimit

\* Of the owners that know a capacity of n or less there are n at most.
EachWithin == QueueLimit > 0 =>
  \A w \in Workers \ disturbed, n \in Nat : Cardinality(HoldersWithin(w, n)) <= n

ReloadInv ==
  /\ ReloadTypeOK /\ CountsKept /\ CopiesRight
  /\ CountersStayBounded /\ CopiesBounded /\ EachWithin
  /\ QueueBounded /\ DepthsBounded /\ AsleepOnlyWhenFull

\* A request steps with the capacities it has ranked.
LEMMA CapacityAtHand ==
  ASSUME ReloadTypeOK, NEW r \in Requests, Request(r)
  PROVE  \E capacity \in Capacities : capacity = ranked[r] /\ Step(r, capacity)
<1>1. PICK capacity \in Capacities : capacity = ranked[r]
  BY DEF ReloadTypeOK
<1>2. Step(r, capacity)
  BY <1>1 DEF Request, Step, Acquire, Recheck, Admit, RejectFull, Enqueue, AdmitAfterWait, WaitAgain,
              QueueTimeout, SlotFree
<1>3. QED
  BY <1>1, <1>2

LEMMA RequestsStep ==
  ASSUME ReloadTypeOK, NEW r \in Requests, Request(r)
  PROVE  \E capacity : NextWith(capacity)
<1>1. PICK capacity \in Capacities : Step(r, capacity)
  BY CapacityAtHand
<1>2. QED
  BY <1>1 DEF NextWith

\* NotifyAll wakes threads, and no owner or waiter changes hands.
LEMMA NotifyAllTyped ==
  ASSUME TypeOK, NotifyAll, UNCHANGED worker
  PROVE  /\ pc' \in [Requests -> Stages]
         /\ \A q \in Requests : pc'[q] # "parked"
         /\ \A w \in Workers : Holders(w)' = Holders(w) /\ Waiters(w)' = Waiters(w)
  BY DEF TypeOK, NotifyAll, Stages, Owning, Serving, Queued, Holders, Waiters

LEMMA KeptTyped ==
  ASSUME NEW t \in Reloaders, NEW counts \in [Workers -> Nat]
  PROVE  Kept(t, counts) \in [Workers -> Nat]
  BY DEF Kept

LEMMA NoReloadTyped == NoReload \in ReloadRows
  BY DEF NoReload, NoCounts, ReloadRows

\* What the steps of a reload do to its locals.
LEMMA ReloadShape ==
  ASSUME ReloadTypeOK, NEW t \in Reloaders, LoadWorkers(t) \/ CopyCounts(t) \/ SwapWorkers(t)
  PROVE  /\ UNCHANGED <<vars, ranked, disturbed>>
         /\ reload' \in [Reloaders -> ReloadRows]
         /\ \A u \in Reloaders \ {t} : reload'[u] = reload[u]
         /\ LoadWorkers(t) => /\ ~Copied(t)'
                             /\ reload'[t].active = NoCounts /\ reload'[t].depth = NoCounts
         /\ CopyCounts(t) => reload'[t].active = active /\ reload'[t].depth = depth
         /\ SwapWorkers(t) => /\ Copied(t)
                             /\ reload'[t].active = reload[t].active
                             /\ reload'[t].depth = reload[t].depth
<1>1. reload \in [Reloaders -> ReloadRows] /\ active \in [Workers -> Nat] /\ depth \in [Workers -> Nat]
  BY DEF ReloadTypeOK, TypeOK, ReloadRows
<1>2. CASE LoadWorkers(t)
  <2>1. PICK new \in SUBSET Workers, capacity \in Capacities :
          reload' = [reload EXCEPT ![t] = [at |-> "copy", workers |-> new, capacity |-> capacity,
                                           active |-> NoCounts, depth |-> NoCounts]]
    BY <1>2 DEF LoadWorkers
  <2>2. NoCounts \in [Workers -> Nat]
    BY DEF NoCounts
  <2>3. [at |-> "copy", workers |-> new, capacity |-> capacity,
         active |-> NoCounts, depth |-> NoCounts] \in ReloadRows
    BY <2>2 DEF ReloadRows
  <2>4. ~CopyCounts(t) /\ ~SwapWorkers(t)
    BY <1>2 DEF LoadWorkers, CopyCounts, SwapWorkers
  <2>5. QED
    BY <1>1, <1>2, <2>1, <2>3, <2>4 DEF LoadWorkers, Copied
<1>3. CASE CopyCounts(t)
  <2>1. ~LoadWorkers(t) /\ ~SwapWorkers(t)
    BY <1>3 DEF LoadWorkers, CopyCounts, SwapWorkers
  <2>2. [reload[t] EXCEPT !.at = "swap", !.active = active, !.depth = depth] \in ReloadRows
    BY <1>1 DEF ReloadRows
  <2>3. reload' = [reload EXCEPT ![t] = [@ EXCEPT !.at = "swap", !.active = active, !.depth = depth]]
    BY <1>3 DEF CopyCounts
  <2>4. UNCHANGED <<vars, ranked, disturbed>>
    BY <1>3 DEF CopyCounts
  <2>5. reload'[t].active = active /\ reload'[t].depth = depth
    BY <1>1, <2>3 DEF ReloadRows
  <2>6. QED
    BY <1>1, <1>3, <2>1, <2>2, <2>3, <2>4, <2>5
<1>4. CASE SwapWorkers(t)
  <2>1. ~LoadWorkers(t) /\ ~CopyCounts(t)
    BY <1>4 DEF LoadWorkers, CopyCounts, SwapWorkers
  <2>2. reload' = [reload EXCEPT ![t].at = "rebuild"] /\ reload[t].at = "swap"
    BY <1>4 DEF SwapWorkers
  <2>3. UNCHANGED <<vars, ranked, disturbed>>
    BY <1>4 DEF SwapWorkers
  <2>4. reload[t] \in ReloadRows
    BY <1>1
  <2>5. [reload[t] EXCEPT !.at = "rebuild"] \in ReloadRows
    BY <2>4 DEF ReloadRows
  <2>6. reload' \in [Reloaders -> ReloadRows] /\ \A u \in Reloaders \ {t} : reload'[u] = reload[u]
    BY <1>1, <2>2, <2>5
  <2>7. reload'[t].active = reload[t].active /\ reload'[t].depth = reload[t].depth
    BY <1>1, <2>2, <2>4 DEF ReloadRows
  <2>8. QED
    BY <2>1, <2>2, <2>3, <2>6, <2>7 DEF Copied
<1>5. QED
  BY <1>2, <1>3, <1>4

-----------------------------------------------------------------------------
(* One step *)

LEMMA ReloadTypeStep ==
  ASSUME ReloadTypeOK, [ReloadNext]_allVars
  PROVE  ReloadTypeOK'
<1>1. ASSUME NEW r \in Requests, Request(r) PROVE ReloadTypeOK'
  <2>1. TypeOK'
    BY <1>1, RequestsStep, TypeStep DEF ReloadTypeOK
  <2>2. ranked' \in [Requests -> Capacities]
    BY <1>1 DEF ReloadTypeOK, Request, Meanwhile, RankedFromInstalled
  <2>3. QED
    BY <1>1, <2>1, <2>2 DEF ReloadTypeOK, Request, Meanwhile, Overtaken
<1>2. ASSUME NEW t \in Reloaders, LoadWorkers(t) \/ CopyCounts(t) \/ SwapWorkers(t)
      PROVE  ReloadTypeOK'
  <2>1. UNCHANGED <<vars, ranked, disturbed>> /\ reload' \in [Reloaders -> ReloadRows]
    BY <1>2, ReloadShape
  <2>2. TypeOK'
    BY <2>1 DEF ReloadTypeOK, TypeOK, vars, threadVars
  <2>3. installed' \in SUBSET Workers /\ offered' \in Capacities /\ reloads' \in Nat
    BY <1>2 DEF ReloadTypeOK, LoadWorkers, CopyCounts, SwapWorkers
  <2>4. QED
    BY <2>1, <2>2, <2>3 DEF ReloadTypeOK, ReloadRows
<1>3. ASSUME NEW t \in Reloaders, RebuildCounts(t) PROVE ReloadTypeOK'
  <2>1. Kept(t, reload[t].active) \in [Workers -> Nat] /\ Kept(t, reload[t].depth) \in [Workers -> Nat]
    BY KeptTyped DEF ReloadTypeOK
  <2>2. pc' \in [Requests -> Stages]
    BY <1>3, NotifyAllTyped DEF ReloadTypeOK, RebuildCounts
  <2>3. disturbed' \subseteq Workers
    BY <1>3 DEF ReloadTypeOK, RebuildCounts, Dropped
  <2>4. QED
    BY <1>3, <2>1, <2>2, <2>3, NoReloadTyped DEF ReloadTypeOK, TypeOK, RebuildCounts, ReloadRows
<1>4. CASE UNCHANGED allVars
  BY <1>4 DEF ReloadTypeOK, TypeOK, allVars, vars, threadVars, reloadVars
<1>5. QED
  BY <1>1, <1>2, <1>3, <1>4 DEF ReloadNext, Reload

LEMMA KeptStep ==
  ASSUME ReloadInv, [ReloadNext]_allVars
  PROVE  CountsKept' /\ CopiesRight'
<1> USE DEF ReloadInv
<1>1. ASSUME NEW r \in Requests, Request(r) PROVE CountsKept' /\ CopiesRight'
  <2>1. disturbed \subseteq disturbed' /\ reload' = reload
    BY <1>1 DEF Request, Meanwhile
  <2>0. PICK capacity : NextWith(capacity)
    BY <1>1, RequestsStep
  <2>2. CountsKept'
    <3> SUFFICES ASSUME NEW w \in Workers \ disturbed'
                 PROVE  active'[w] = Cardinality(Holders(w)') /\ depth'[w] = Cardinality(Waiters(w)')
      BY DEF CountsKept
    <3>1. SlotCount(w) /\ LineCount(w)
      BY <2>1 DEF CountsKept, SlotCount, LineCount
    <3>2. SlotCount(w)' /\ LineCount(w)'
      BY <2>0, <3>1, SlotCountStep, LineCountStep DEF ReloadTypeOK
    <3>3. QED
      BY <3>2 DEF SlotCount, LineCount
  <2>3. CopiesRight'
    <3> SUFFICES ASSUME NEW t \in Reloaders, NEW w \in Workers \ disturbed', Copied(t)
                 PROVE  /\ reload[t].active[w] = Cardinality(Holders(w)')
                        /\ reload[t].depth[w] = Cardinality(Waiters(w)')
      BY <2>1 DEF CopiesRight, Copied
    <3>1. w \notin Overtaken /\ w \notin disturbed
      BY <1>1 DEF Request, Meanwhile
    <3>2. Holders(w)' = Holders(w) /\ Waiters(w)' = Waiters(w)
      BY <3>1 DEF Overtaken, Copied
    <3>3. QED
      BY <3>1, <3>2 DEF CopiesRight
  <2>4. QED
    BY <2>2, <2>3
<1>2. ASSUME NEW t \in Reloaders, LoadWorkers(t) \/ CopyCounts(t) \/ SwapWorkers(t)
      PROVE  CountsKept' /\ CopiesRight'
  <2>1. /\ UNCHANGED <<active, depth, pc, worker, disturbed>>
        /\ \A u \in Reloaders \ {t} : reload'[u] = reload[u]
    BY <1>2, ReloadShape DEF vars, threadVars
  <2>2. \A w \in Workers : Holders(w)' = Holders(w) /\ Waiters(w)' = Waiters(w)
    BY <2>1 DEF Holders, Waiters
  <2>3. CountsKept'
    BY <2>1, <2>2 DEF CountsKept
  <2>4. ASSUME NEW w \in Workers \ disturbed, Copied(t)'
        PROVE  /\ reload'[t].active[w] = Cardinality(Holders(w))
               /\ reload'[t].depth[w] = Cardinality(Waiters(w))
    <3>1. CASE LoadWorkers(t)
      BY <2>4, <3>1, ReloadShape
    <3>2. CASE CopyCounts(t)
      BY <2>4, <3>2, ReloadShape DEF CountsKept
    <3>3. CASE SwapWorkers(t)
      BY <2>4, <3>3, ReloadShape DEF CopiesRight
    <3>4. QED
      BY <1>2, <3>1, <3>2, <3>3
  <2>5. QED
    BY <2>1, <2>2, <2>3, <2>4 DEF CopiesRight, Copied
<1>3. ASSUME NEW t \in Reloaders, RebuildCounts(t) PROVE CountsKept' /\ CopiesRight'
  <2>1. \A w \in Workers : Holders(w)' = Holders(w) /\ Waiters(w)' = Waiters(w)
    BY <1>3, NotifyAllTyped DEF ReloadTypeOK, RebuildCounts
  <2>2. /\ disturbed \subseteq disturbed'
        /\ \A u \in Reloaders \ {t} : reload'[u] = reload[u]
        /\ reload'[t].at = "idle"
    BY <1>3 DEF ReloadTypeOK, RebuildCounts, NoReload
  <2>3. ASSUME NEW w \in Workers \ disturbed'
        PROVE  active'[w] = Cardinality(Holders(w)) /\ depth'[w] = Cardinality(Waiters(w))
    <3>1. CASE w \in reload[t].workers
      BY <1>3, <2>2, <2>3, <3>1 DEF RebuildCounts, Kept, CopiesRight, Copied
    <3>2. CASE w \notin reload[t].workers
      <4>1. Holders(w) = {} /\ Waiters(w) = {}
        BY <1>3, <2>3, <3>2 DEF RebuildCounts, Dropped
      <4>2. active'[w] = 0 /\ depth'[w] = 0
        BY <1>3, <2>3, <3>2 DEF RebuildCounts, Kept
      <4>3. QED
        BY <4>1, <4>2, FS_EmptySet
    <3>3. QED
      BY <3>1, <3>2
  <2>4. CountsKept'
    BY <2>1, <2>3 DEF CountsKept
  <2>5. CopiesRight'
    BY <2>1, <2>2 DEF CopiesRight, Copied
  <2>6. QED
    BY <2>4, <2>5
<1>4. CASE UNCHANGED allVars
  <2>1. UNCHANGED <<active, depth, pc, worker, reload, disturbed>>
    BY <1>4 DEF allVars, vars, threadVars, reloadVars
  <2>2. \A w \in Workers : Holders(w)' = Holders(w) /\ Waiters(w)' = Waiters(w)
    BY <2>1 DEF Holders, Waiters
  <2>3. QED
    BY <2>1, <2>2 DEF CountsKept, CopiesRight, Copied
<1>5. QED
  BY <1>1, <1>2, <1>3, <1>4 DEF ReloadNext, Reload

LEMMA BoundsStep ==
  ASSUME ReloadInv, [ReloadNext]_allVars
  PROVE  CountersStayBounded' /\ CopiesBounded'
<1> USE DEF ReloadInv, Bounded
<1>1. ASSUME NEW r \in Requests, Request(r) PROVE CountersStayBounded' /\ CopiesBounded'
  <2>1. PICK capacity \in Capacities : Step(r, capacity)
    BY <1>1, CapacityAtHand
  <2>2. TypeOK /\ TypeOK' /\ NextWith(capacity)
    BY <2>1, TypeStep DEF ReloadTypeOK, NextWith
  <2>3. ASSUME QueueLimit > 0, NEW w \in Workers
        PROVE  \E c \in Capacities : active'[w] <= c[w]
    <3>1. PICK c \in Capacities : active[w] <= c[w]
      BY <2>3 DEF CountersStayBounded
    <3>2. active[w] \in Nat /\ active'[w] \in Nat /\ c[w] \in Nat /\ capacity[w] \in Nat
      BY <2>2 DEF TypeOK
    <3>3. \/ active'[w] <= active[w]
          \/ active'[w] = active[w] + 1 /\ active[w] < capacity[w]
      BY <2>2, <2>3, ActiveStep DEF SlotFree
    <3>4. active'[w] <= c[w] \/ active'[w] <= capacity[w]
      BY <3>1, <3>2, <3>3
    <3>5. QED
      BY <3>4
  <2>4. CountersStayBounded'
    BY <2>3 DEF CountersStayBounded
  <2>5. QED
    BY <1>1, <2>4 DEF Request, Meanwhile, CopiesBounded
<1>2. ASSUME NEW t \in Reloaders, LoadWorkers(t) \/ CopyCounts(t) \/ SwapWorkers(t)
      PROVE  CountersStayBounded' /\ CopiesBounded'
  <2>1. active' = active /\ \A u \in Reloaders \ {t} : reload'[u] = reload[u]
    BY <1>2, ReloadShape DEF vars
  <2>2. reload'[t].active \in {NoCounts, active, reload[t].active}
    BY <1>2, ReloadShape
  <2>3. \A w \in Workers : Bounded(w, 0)
    OBVIOUS
  <2>4. CountersStayBounded'
    BY <2>1 DEF CountersStayBounded
  <2> HIDE DEF ReloadInv, Bounded
  <2>5. ASSUME QueueLimit > 0, NEW u \in Reloaders, NEW w \in Workers
        PROVE  Bounded(w, reload'[u].active[w])
    <3>1. Bounded(w, active[w]) /\ Bounded(w, reload[u].active[w]) /\ NoCounts[w] = 0
      BY <2>5 DEF ReloadInv, CountersStayBounded, CopiesBounded, Bounded, NoCounts
    <3>2. CASE u = t
      BY <2>2, <2>3, <3>1, <3>2
    <3>3. CASE u # t
      BY <2>1, <3>1, <3>3
    <3>4. QED
      BY <3>2, <3>3
  <2>6. QED
    BY <2>4, <2>5 DEF CopiesBounded, Bounded
<1>4. ASSUME NEW t \in Reloaders, RebuildCounts(t) PROVE CountersStayBounded' /\ CopiesBounded'
  <2>0. \A w \in Workers : Bounded(w, 0)
    OBVIOUS
  <2>1. CountersStayBounded'
    BY <1>4, <2>0 DEF RebuildCounts, Kept, CountersStayBounded, CopiesBounded
  <2>2. CopiesBounded'
    BY <1>4, <2>0 DEF ReloadTypeOK, RebuildCounts, NoReload, NoCounts, CopiesBounded
  <2>3. QED
    BY <2>1, <2>2
<1>5. CASE UNCHANGED allVars
  BY <1>5 DEF allVars, vars, reloadVars, CountersStayBounded, CopiesBounded
<1>6. QED
  BY <1>1, <1>2, <1>4, <1>5 DEF ReloadNext, Reload

LEMMA ReloadWakeupStep ==
  ASSUME ReloadInv, [ReloadNext]_allVars
  PROVE  AsleepOnlyWhenFull'
<1> USE DEF ReloadInv
<1>1. ASSUME NEW r \in Requests, Request(r) PROVE AsleepOnlyWhenFull'
  <2> SUFFICES ASSUME NEW q \in Requests, pc'[q] = "parked"
               PROVE  ~(active'[worker'[q]] < ranked'[q][worker'[q]])
    BY DEF AsleepOnlyWhenFull, SlotFree
  <2>1. PICK capacity \in Capacities : capacity = ranked[r] /\ Step(r, capacity)
    BY <1>1, CapacityAtHand
  <2>2. TypeOK /\ TypeOK'
    BY <2>1, TypeStep DEF ReloadTypeOK, NextWith
  <2>3. Asleep(q, r, capacity)
    BY <2>1, <2>2, SleepStep
  <2>4. ranked'[q] = ranked[q]
    BY <1>1, <2>3 DEF Asleep, Request, Meanwhile, RankedFromInstalled, ReloadTypeOK
  <2>5. PICK c \in Capacities : c = ranked[q]
    BY DEF ReloadTypeOK
  <2>6. /\ active[worker[q]] \in Nat /\ active'[worker[q]] \in Nat /\ c[worker[q]] \in Nat
        /\ active'[worker[q]] >= active[worker[q]]
    BY <2>2, <2>3 DEF TypeOK, Asleep
  <2>7. ~(active[worker[q]] < c[worker[q]])
    BY <2>1, <2>3, <2>5 DEF Asleep, AsleepOnlyWhenFull, SlotFree
  <2>8. QED
    BY <2>3, <2>4, <2>5, <2>6, <2>7 DEF Asleep
<1>2. ASSUME NEW t \in Reloaders, LoadWorkers(t) \/ CopyCounts(t) \/ SwapWorkers(t)
      PROVE  AsleepOnlyWhenFull'
  BY <1>2 DEF LoadWorkers, CopyCounts, SwapWorkers, vars, threadVars, AsleepOnlyWhenFull, SlotFree
<1>3. ASSUME NEW t \in Reloaders, RebuildCounts(t) PROVE AsleepOnlyWhenFull'
  BY <1>3, NotifyAllTyped DEF ReloadTypeOK, RebuildCounts, AsleepOnlyWhenFull
<1>4. CASE UNCHANGED allVars
  BY <1>4 DEF allVars, reloadVars, vars, threadVars, AsleepOnlyWhenFull, SlotFree
<1>5. QED
  BY <1>1, <1>2, <1>3, <1>4 DEF ReloadNext, Reload

\* Who owns a slot after a step has owned it before, or has just found it free.
LEMMA HoldersStep ==
  ASSUME NEW capacity, TypeOK, NEW r \in Requests, Step(r, capacity), NEW w \in Workers
  PROVE  \/ Holders(w)' \subseteq Holders(w)
         \/ /\ Holders(w)' \subseteq Holders(w) \union {r}
            /\ pc[r] \in {"acquire", "woken"}
            /\ QueueLimit > 0 => SlotFree(w, capacity)
<1>1. CASE Admit(r, capacity) \/ AdmitAfterWait(r, capacity)
  <2>1. /\ UNCHANGED worker /\ pc' = [pc EXCEPT ![r] = "backend"]
        /\ pc[r] \in {"acquire", "woken"}
        /\ QueueLimit > 0 => SlotFree(worker[r], capacity)
    BY <1>1 DEF Admit, AdmitAfterWait, Goto
  <2>2. CASE worker[r] = w
    BY <2>1, <2>2 DEF Holders, TypeOK
  <2>3. CASE worker[r] # w
    BY <2>1, <2>3 DEF Holders, TypeOK
  <2>4. QED
    BY <2>2, <2>3
<1>2. CASE RejectFull(r, capacity) \/ QueueTimeout(r, capacity)
  <2>1. PICK stage \in {"acquire", "closing"} : Goto(r, stage) \/ NotifyAllBut(r, stage)
    BY <1>2, MoveOnTyped DEF RejectFull, QueueTimeout
  <2>2. \A q \in Requests \ {r} : worker'[q] = worker[q]
    BY <1>2, MoveOnTyped DEF RejectFull, QueueTimeout
  <2>3. QED
    BY <2>1, <2>2 DEF TypeOK, Holders, Goto, NotifyAllBut, Owning, Serving
<1>3. CASE BackendAnswers(r) \/ BackendFails(r) \/ StreamEnds(r)
  <2>1. PICK stage \in {"acquire", "closing"} : NotifyAllBut(r, stage)
    BY <1>3, MoveOnTyped DEF BackendAnswers, BackendFails, StreamEnds
  <2>2. \A q \in Requests \ {r} : worker'[q] = worker[q]
    BY <1>3, MoveOnTyped DEF BackendAnswers, BackendFails, StreamEnds
  <2>3. QED
    BY <2>1, <2>2 DEF TypeOK, Holders, NotifyAllBut, Owning, Serving
<1>4. CASE \/ ArriveUnserved(r) \/ Arrive(r) \/ Enqueue(r, capacity) \/ WaitAgain(r, capacity)
           \/ TimeOut(r) \/ StreamOpens(r) \/ HeadersSent(r) \/ ClientGone(r) \/ FinishRequest(r)
  <2>1. \A q \in Requests : pc'[q] \in Owning => worker'[q] = worker[q] /\ pc[q] \in Owning
    BY <1>4 DEF TypeOK, ArriveUnserved, Arrive, Enqueue, WaitAgain, TimeOut, StreamOpens, HeadersSent,
                ClientGone, FinishRequest, Goto, Owning, Serving
  <2>2. QED
    BY <2>1 DEF Holders
<1>5. QED
  BY <1>1, <1>2, <1>3, <1>4 DEF Step, Acquire, Recheck, Reply, Relay

LEMMA EachWithinStep ==
  ASSUME ReloadInv, [ReloadNext]_allVars
  PROVE  EachWithin'
<1> USE DEF ReloadInv
<1>1. ASSUME NEW r \in Requests, Request(r) PROVE EachWithin'
  <2> SUFFICES ASSUME QueueLimit > 0, NEW w \in Workers \ disturbed', NEW n \in Nat
               PROVE  Cardinality(HoldersWithin(w, n)') <= n
    BY DEF EachWithin
  <2>1. PICK capacity \in Capacities : capacity = ranked[r] /\ Step(r, capacity)
    BY <1>1, CapacityAtHand
  <2>2. w \in Workers \ disturbed
    BY <1>1 DEF Request, Meanwhile
  <2>3. Cardinality(HoldersWithin(w, n)) <= n
    BY <2>2 DEF EachWithin
  <2>4. /\ IsFiniteSet(Holders(w)) /\ IsFiniteSet(HoldersWithin(w, n))
        /\ Cardinality(Holders(w)) \in Nat /\ Cardinality(HoldersWithin(w, n)) \in Nat
    BY OwnersFinite, FS_Subset, FS_CardinalityType DEF HoldersWithin
  <2>5. \A q \in Requests : pc'[q] # "idle" /\ pc[q] # "idle" => ranked'[q] = ranked[q]
    BY <1>1 DEF Request, Meanwhile, RankedFromInstalled, ReloadTypeOK
  <2>6. \A q \in Holders(w)' : q \in Requests /\ pc'[q] # "idle"
    BY DEF Holders, Owning, Serving
  <2>7. \A q \in Holders(w) : pc[q] # "idle"
    BY DEF Holders, Owning, Serving
  <2>8. CASE Holders(w)' \subseteq Holders(w)
    <3>1. HoldersWithin(w, n)' \subseteq HoldersWithin(w, n)
      BY <2>5, <2>6, <2>7, <2>8 DEF HoldersWithin
    <3>2. Cardinality(HoldersWithin(w, n)') <= Cardinality(HoldersWithin(w, n))
      BY <2>4, <3>1, FS_Subset
    <3>3. Cardinality(HoldersWithin(w, n)') \in Nat
      BY <2>4, <3>1, FS_Subset, FS_CardinalityType
    <3>4. QED
      BY <2>3, <2>4, <3>2, <3>3
  <2>9. CASE /\ Holders(w)' \subseteq Holders(w) \union {r}
             /\ pc[r] \in {"acquire", "woken"} /\ SlotFree(w, capacity)
    <3>1. \A q \in Holders(w)' : ranked'[q] = ranked[q]
      BY <2>5, <2>6, <2>7, <2>9
    <3>2. active[w] = Cardinality(Holders(w)) /\ active[w] \in Nat /\ capacity[w] \in Nat
      BY <2>2 DEF CountsKept, ReloadTypeOK, TypeOK
    <3>3. CASE capacity[w] <= n
      <4>1. HoldersWithin(w, n)' \subseteq Holders(w) \union {r}
        <5>1. HoldersWithin(w, n)' \subseteq Holders(w)'
          BY DEF HoldersWithin
        <5>2. QED
          BY <2>9, <5>1
      <4>2. /\ IsFiniteSet(Holders(w) \union {r})
            /\ Cardinality(Holders(w) \union {r}) <= Cardinality(Holders(w)) + 1
            /\ Cardinality(Holders(w) \union {r}) \in Nat
        <5>1. /\ IsFiniteSet(Holders(w) \union {r})
              /\ Cardinality(Holders(w) \union {r}) =
                   IF r \in Holders(w) THEN Cardinality(Holders(w)) ELSE Cardinality(Holders(w)) + 1
          BY <2>4, FS_AddElement
        <5>2. QED
          BY <2>4, <5>1
      <4>3. /\ Cardinality(HoldersWithin(w, n)') <= Cardinality(Holders(w) \union {r})
            /\ Cardinality(HoldersWithin(w, n)') \in Nat
        BY <4>1, <4>2, FS_Subset, FS_CardinalityType
      <4>4. active[w] < capacity[w]
        BY <2>9 DEF SlotFree
      <4>5. QED
        BY <2>4, <3>2, <3>3, <4>2, <4>3, <4>4
    <3>4. CASE ~(capacity[w] <= n)
      <4>1. HoldersWithin(w, n)' \subseteq HoldersWithin(w, n)
        BY <2>1, <2>9, <3>1, <3>4 DEF HoldersWithin
      <4>2. Cardinality(HoldersWithin(w, n)') <= Cardinality(HoldersWithin(w, n))
        BY <2>4, <4>1, FS_Subset
      <4>3. Cardinality(HoldersWithin(w, n)') \in Nat
        BY <2>4, <4>1, FS_Subset, FS_CardinalityType
      <4>4. QED
        BY <2>3, <2>4, <4>2, <4>3
    <3>5. QED
      BY <3>3, <3>4
  <2>10. QED
    BY <2>1, <2>2, <2>8, <2>9, HoldersStep DEF ReloadTypeOK
<1>2. ASSUME NEW t \in Reloaders, LoadWorkers(t) \/ CopyCounts(t) \/ SwapWorkers(t)
      PROVE  EachWithin'
  <2>1. UNCHANGED <<pc, worker, ranked, disturbed>>
    BY <1>2, ReloadShape DEF vars, threadVars
  <2>2. \A w \in Workers, n \in Nat : HoldersWithin(w, n)' = HoldersWithin(w, n)
    BY <2>1 DEF HoldersWithin, Holders
  <2>3. QED
    BY <2>1, <2>2 DEF EachWithin
<1>3. ASSUME NEW t \in Reloaders, RebuildCounts(t) PROVE EachWithin'
  <2>1. \A w \in Workers : Holders(w)' = Holders(w)
    BY <1>3, NotifyAllTyped DEF ReloadTypeOK, RebuildCounts
  <2>2. ranked' = ranked /\ disturbed \subseteq disturbed'
    BY <1>3 DEF RebuildCounts
  <2>3. \A w \in Workers, n \in Nat : HoldersWithin(w, n)' = HoldersWithin(w, n)
    BY <2>1, <2>2 DEF HoldersWithin
  <2>4. QED
    BY <2>2, <2>3 DEF EachWithin
<1>4. CASE UNCHANGED allVars
  <2>1. UNCHANGED <<pc, worker, ranked, disturbed>>
    BY <1>4 DEF allVars, reloadVars, vars, threadVars
  <2>2. \A w \in Workers, n \in Nat : HoldersWithin(w, n)' = HoldersWithin(w, n)
    BY <2>1 DEF HoldersWithin, Holders
  <2>3. QED
    BY <2>1, <2>2 DEF EachWithin
<1>5. QED
  BY <1>1, <1>2, <1>3, <1>4 DEF ReloadNext, Reload

LEMMA ReloadQueueStep ==
  ASSUME ReloadInv, [ReloadNext]_allVars
  PROVE  QueueBounded' /\ DepthsBounded'
<1> USE DEF ReloadInv
<1>1. ASSUME NEW r \in Requests, Request(r) PROVE QueueBounded' /\ DepthsBounded'
  <2>1. QueueBounded'
    BY <1>1, RequestsStep, QueueStep DEF ReloadTypeOK
  <2>2. QED
    BY <1>1, <2>1 DEF Request, Meanwhile, DepthsBounded
<1>2. ASSUME NEW t \in Reloaders, LoadWorkers(t) \/ CopyCounts(t) \/ SwapWorkers(t)
      PROVE  QueueBounded' /\ DepthsBounded'
  <2>1. depth' = depth /\ \A u \in Reloaders \ {t} : reload'[u] = reload[u]
    BY <1>2, ReloadShape DEF vars
  <2>2. reload'[t].depth \in {NoCounts, depth, reload[t].depth}
    BY <1>2, ReloadShape
  <2>3. QED
    BY <2>1, <2>2 DEF QueueBounded, DepthsBounded, NoCounts
<1>3. ASSUME NEW t \in Reloaders, RebuildCounts(t) PROVE QueueBounded' /\ DepthsBounded'
  <2>1. QueueBounded'
    BY <1>3 DEF RebuildCounts, Kept, QueueBounded, DepthsBounded
  <2>2. DepthsBounded'
    BY <1>3 DEF ReloadTypeOK, RebuildCounts, NoReload, NoCounts, DepthsBounded
  <2>3. QED
    BY <2>1, <2>2
<1>4. CASE UNCHANGED allVars
  BY <1>4 DEF allVars, vars, reloadVars, QueueBounded, DepthsBounded
<1>5. QED
  BY <1>1, <1>2, <1>3, <1>4 DEF ReloadNext, Reload

-----------------------------------------------------------------------------
LEMMA ReloadInitInv == ReloadInit => ReloadInv
<1> SUFFICES ASSUME ReloadInit PROVE ReloadInv
  OBVIOUS
<1>1. ReloadTypeOK
  BY AnyWorkerIsWorker, NoReloadTyped DEF ReloadInit, Init, ReloadTypeOK, TypeOK, Stages, ReloadRows
<1>2. \A w \in Workers : Holders(w) = {} /\ Waiters(w) = {}
  BY DEF ReloadInit, Init, Holders, Waiters, Owning, Serving, Queued
<1>3. CountsKept
  BY <1>2, FS_EmptySet DEF ReloadInit, Init, CountsKept
<1>4. CopiesRight
  BY DEF ReloadInit, NoReload, CopiesRight, Copied
<1>5. CountersStayBounded /\ CopiesBounded
  BY DEF ReloadInit, Init, NoReload, NoCounts, CountersStayBounded, CopiesBounded, Bounded
<1>6. AsleepOnlyWhenFull
  BY DEF ReloadInit, Init, AsleepOnlyWhenFull
<1>7. QueueBounded /\ DepthsBounded
  BY DEF ReloadInit, Init, NoReload, NoCounts, QueueBounded, DepthsBounded
<1>8. EachWithin
  <2>1. \A w \in Workers, n \in Nat : HoldersWithin(w, n) = {}
    BY <1>2 DEF HoldersWithin
  <2>2. Cardinality({}) = 0
    BY FS_EmptySet
  <2>3. \A w \in Workers, n \in Nat : Cardinality(HoldersWithin(w, n)) <= n
    BY <2>1, <2>2
  <2>4. QED
    BY <2>3 DEF EachWithin
<1>9. QED
  BY <1>1, <1>3, <1>4, <1>5, <1>6, <1>7, <1>8 DEF ReloadInv

\* The inductive invariant of requests and reloads together.
THEOREM ReloadInvariant == ReloadSpec => []ReloadInv
<1>1. ReloadInv /\ [ReloadNext]_allVars => ReloadInv'
  BY ReloadTypeStep, KeptStep, BoundsStep, EachWithinStep, ReloadQueueStep, ReloadWakeupStep DEF ReloadInv
<1>2. QED
  BY <1>1, ReloadInitInv, PTL DEF ReloadSpec

\* Type correctness.
THEOREM ReloadTyped == ReloadSpec => []ReloadTypeOK
<1>1. ReloadInv => ReloadTypeOK
  BY DEF ReloadInv
<1>2. QED
  BY <1>1, ReloadInvariant, PTL

\* A reload leaves the counters of a worker right that nothing happened to meanwhile.
THEOREM ReloadKeepsCounts == ReloadSpec => []CountsKept
<1>1. ReloadInv => CountsKept
  BY DEF ReloadInv
<1>2. QED
  BY <1>1, ReloadInvariant, PTL

\* Of the requests that go by a capacity of n or less, n at most own a slot of a worker,
\* whatever its capacity was before and after.
THEOREM ReloadHonoursCapacity == ReloadSpec => []CapacityHonoured
<1>1. ReloadInv => CapacityHonoured
  <2> SUFFICES ASSUME ReloadInv, QueueLimit > 0, NEW w \in Workers \ disturbed, NEW r \in Holders(w)
               PROVE  Cardinality(HoldersWithin(w, ranked[r][w])) <= ranked[r][w]
    BY DEF CapacityHonoured
  <2>1. r \in Requests
    BY DEF Holders
  <2>2. ranked[r][w] \in Nat
    BY <2>1 DEF ReloadInv, ReloadTypeOK
  <2>3. QED
    BY <2>2 DEF ReloadInv, EachWithin
<1>2. QED
  BY <1>1, ReloadInvariant, PTL

\* Reloads that change capacities let nobody in above the one it goes by, line nobody up
\* above the limit, and leave nobody asleep below it.
THEOREM ReloadLeavesNobodyOverOrUnder == ReloadSpec => []ReloadedOverOrUnder
<1>1. ReloadInv /\ CapacityHonoured => ReloadedOverOrUnder
  BY DEF ReloadInv, ReloadedOverOrUnder
<1>2. QED
  BY <1>1, ReloadInvariant, ReloadHonoursCapacity, PTL

-----------------------------------------------------------------------------
(* Lists and their orders *)

\* As many different values as the set has elements are all of them.
LEMMA AllListed ==
  ASSUME NEW n \in Nat, NEW S, IsFiniteSet(S), Cardinality(S) = n, NEW f \in [1..n -> S],
         \A i, j \in 1..n : i < j => f[i] # f[j]
  PROVE  \A x \in S : \E i \in 1..n : f[i] = x
<1>1. f \in Injection(1..n, S)
  <2>1. ASSUME NEW i \in 1..n, NEW j \in 1..n, f[i] = f[j], i # j
        PROVE  FALSE
    <3>1. i < j \/ j < i
      BY <2>1
    <3> QED
      BY <2>1, <3>1
  <2> QED
    BY <2>1 DEF Injection, IsInjective
<1>2. Cardinality(1..n) = n
  BY FS_Interval
<1>3. f \in Surjection(1..n, S)
  BY <1>1, <1>2, FS_Injection
<1> QED
  BY <1>3 DEF Surjection

\* A finite set can be listed in any strict total order.
LEMMA CanBeListed ==
  ASSUME NEW S, IsFiniteSet(S), NEW R,
         \A v \in S : <<v, v>> \notin R,
         \A v, w \in S : v # w => <<v, w>> \in R \/ <<w, v>> \in R,
         \A u, v, w \in S : <<u, v>> \in R /\ <<v, w>> \in R => <<u, w>> \in R
  PROVE  \E s \in [1..Cardinality(S) -> S] :
           \A i, j \in 1..Cardinality(S) : i < j => <<s[i], s[j]>> \in R
<1> DEFINE n == Cardinality(S)
           Lower(w) == {v \in S : <<v, w>> \in R}
           place == [w \in S |-> Cardinality(Lower(w)) + 1]
<1>1. n \in Nat
  BY FS_CardinalityType
<1>2. ASSUME NEW w \in S
      PROVE  IsFiniteSet(Lower(w)) /\ Cardinality(Lower(w)) \in Nat /\ Cardinality(Lower(w)) < n
  <2>1. Lower(w) \in SUBSET S /\ w \notin Lower(w)
    OBVIOUS
  <2>2. IsFiniteSet(Lower(w)) /\ Cardinality(Lower(w)) <= n /\ Cardinality(Lower(w)) # n
    BY <2>1, FS_Subset
  <2>3. Cardinality(Lower(w)) \in Nat
    BY <2>2, FS_CardinalityType
  <2> QED
    BY <1>1, <2>2, <2>3
<1>3. ASSUME NEW v \in S, NEW w \in S, <<v, w>> \in R
      PROVE  place[v] < place[w]
  <2>1. Lower(v) \in SUBSET Lower(w) /\ v \in Lower(w) /\ v \notin Lower(v)
    BY <1>3
  <2>2. Cardinality(Lower(v)) <= Cardinality(Lower(w)) /\ Cardinality(Lower(v)) # Cardinality(Lower(w))
    BY <1>2, <2>1, FS_Subset
  <2>3. Cardinality(Lower(v)) \in Nat /\ Cardinality(Lower(w)) \in Nat
    BY <1>2
  <2>4. place[v] = Cardinality(Lower(v)) + 1 /\ place[w] = Cardinality(Lower(w)) + 1
    OBVIOUS
  <2> HIDE DEF Lower, place
  <2> QED
    BY <2>2, <2>3, <2>4
<1>4. place \in [S -> 1..n]
  <2>1. ASSUME NEW w \in S
        PROVE  Cardinality(Lower(w)) + 1 \in 1..n
    <3>1. Cardinality(Lower(w)) \in Nat /\ Cardinality(Lower(w)) < n
      BY <1>2
    <3> HIDE DEF Lower, n
    <3> QED
      BY <1>1, <3>1
  <2> QED
    BY <2>1
<1> HIDE DEF n, place
<1>5. place \in Surjection(S, 1..n)
  <2>1. \A v, w \in S : place[v] = place[w] => v = w
    <3>1. ASSUME NEW v \in S, NEW w \in S, place[v] = place[w], v # w
          PROVE  FALSE
      <4>1. place[v] < place[w] \/ place[w] < place[v]
        BY <1>3, <3>1
      <4> QED
        BY <1>4, <3>1, <4>1
    <3> QED
      BY <3>1
  <2>2. place \in Injection(S, 1..n)
    BY <1>4, <2>1 DEF Injection, IsInjective
  <2>3. IsFiniteSet(1..n) /\ Cardinality(1..n) = n
    BY <1>1, FS_Interval
  <2> QED
    BY <2>2, <2>3, FS_Injection DEF n
<1> DEFINE s == [i \in 1..n |-> CHOOSE w \in S : place[w] = i]
<1>6. s \in [1..n -> S] /\ \A i \in 1..n : place[s[i]] = i
  BY <1>5 DEF Surjection
<1> HIDE DEF s
<1>7. ASSUME NEW i \in 1..n, NEW j \in 1..n, i < j
      PROVE  <<s[i], s[j]>> \in R
  <2>1. s[i] # s[j] /\ s[i] \in S /\ s[j] \in S
    BY <1>6, <1>7
  <2>2. <<s[j], s[i]>> \notin R
    <3>1. <<s[j], s[i]>> \in R => j < i
      BY <1>3, <1>6, <2>1
    <3> QED
      BY <1>7, <3>1
  <2> QED
    BY <2>1, <2>2
<1> QED
  BY <1>6, <1>7 DEF n

LEMMA PlaceIs ==
  /\ Len(Inventory) \in Nat
  /\ \A w \in Workers : Place(w) \in 1..Len(Inventory) /\ Inventory[Place(w)] = w
<1>1. Inventory \in Seq(Workers) /\ ToSet(Inventory) = Workers
  BY RankingAssumption
<1>2. Len(Inventory) \in Nat /\ DOMAIN Inventory = 1..Len(Inventory)
  BY <1>1
<1>3. ASSUME NEW w \in Workers
      PROVE  \E i \in DOMAIN Inventory : Inventory[i] = w
  BY <1>1 DEF ToSet
<1> QED
  BY <1>2, <1>3 DEF Place

LEMMA WorkersFinite == IsFiniteSet(Workers)
<1> DEFINE place == [w \in Workers |-> Place(w)]
<1>1. place \in Injection(Workers, 1..Len(Inventory))
  BY PlaceIs DEF Injection, IsInjective
<1>2. IsFiniteSet(1..Len(Inventory))
  BY PlaceIs, FS_Interval
<1> QED
  BY <1>1, <1>2, FS_Injection

\* The candidates, each of them once.
LEMMA ListedIs ==
  ASSUME NEW S \in SUBSET Workers, NEW front
  PROVE  /\ Cardinality(S) \in Nat
         /\ Listed(S, front) \in [1..Cardinality(S) -> S]
         /\ \A i, j \in 1..Cardinality(S) : i < j => Listed(S, front)[i] # Listed(S, front)[j]
<1> DEFINE n == Cardinality(S)
           R == {vw \in S \X S : Before(vw[1], vw[2], front)}
<1>1. IsFiniteSet(S) /\ n \in Nat
  BY WorkersFinite, FS_Subset, FS_CardinalityType
<1>2. \A v, w \in S : <<v, w>> \in R <=> Before(v, w, front)
  OBVIOUS
<1>3. \A v \in S : Place(v) \in Nat
  BY PlaceIs
<1>4. \A v, w \in S : v # w => Place(v) # Place(w)
  BY PlaceIs
<1> HIDE DEF R
<1>5. /\ \A v \in S : <<v, v>> \notin R
      /\ \A v, w \in S : v # w => <<v, w>> \in R \/ <<w, v>> \in R
      /\ \A u, v, w \in S : <<u, v>> \in R /\ <<v, w>> \in R => <<u, w>> \in R
  <2>1. \A v \in S : <<v, v>> \notin R
    BY <1>2, <1>3 DEF Before
  <2>2. \A v, w \in S : v # w => <<v, w>> \in R \/ <<w, v>> \in R
    BY <1>2, <1>3, <1>4 DEF Before
  <2>3. \A u, v, w \in S : <<u, v>> \in R /\ <<v, w>> \in R => <<u, w>> \in R
    BY <1>2, <1>3 DEF Before
  <2> QED
    BY <2>1, <2>2, <2>3
<1>6. \E s \in [1..n -> S] : \A i, j \in 1..n : i < j => <<s[i], s[j]>> \in R
  BY <1>1, <1>5, CanBeListed
<1>7. \E s \in [1..n -> S] : \A i, j \in DOMAIN s : i < j => Before(s[i], s[j], front)
  <2>1. PICK s \in [1..n -> S] : \A i, j \in 1..n : i < j => <<s[i], s[j]>> \in R
    BY <1>6
  <2>2. DOMAIN s = 1..n /\ \A i \in 1..n : s[i] \in S
    OBVIOUS
  <2> QED
    BY <1>2, <2>1, <2>2
<1>8. /\ Listed(S, front) \in [1..n -> S]
      /\ \A i, j \in DOMAIN Listed(S, front) : i < j => Before(Listed(S, front)[i], Listed(S, front)[j], front)
  BY <1>7 DEF Listed
<1>9. ASSUME NEW i \in 1..n, NEW j \in 1..n, i < j, Listed(S, front)[i] = Listed(S, front)[j]
      PROVE  FALSE
  <2>1. Before(Listed(S, front)[i], Listed(S, front)[i], front) /\ Listed(S, front)[i] \in S
    BY <1>8, <1>9
  <2> QED
    BY <1>3, <2>1 DEF Before
<1> QED
  BY <1>1, <1>8, <1>9

\* A list of workers in which none is twice.
Once(s) == s \in Seq(Workers) /\ \A i, j \in 1..Len(s) : i < j => s[i] # s[j]

LEMMA OrderedIs ==
  ASSUME NEW ask
  PROVE  /\ Once(Ordered(ask))
         /\ ask.prefer = None => /\ Ordered(ask) = Listed(Fleet(ask.model), None)
                                 /\ Len(Ordered(ask)) = Cardinality(Fleet(ask.model))
                                 /\ \A i \in 1..Len(Ordered(ask)) : Ordered(ask)[i] \in Fleet(ask.model)
<1> DEFINE S == {w \in Fleet(ask.model) : ask.prefer = None \/ ask.fallback \/ w = ask.prefer}
           s == Ordered(ask)
           n == Cardinality(S)
<1>1. S \in SUBSET Workers
  BY DEF Fleet
<1>2. n \in Nat /\ s \in [1..n -> S] /\ \A i, j \in 1..n : i < j => s[i] # s[j]
  BY <1>1, ListedIs DEF Ordered
<1> HIDE DEF S, s, n
<1>3. s \in [1..n -> Workers] /\ n \in Nat
  BY <1>1, <1>2
<1>4. s \in Seq(Workers)
  BY <1>3, SeqDef
<1>5. Len(s) = n
  BY <1>3, <1>4, LenProperties
<1>6. Once(s)
  BY <1>2, <1>4, <1>5 DEF Once
<1>7. ask.prefer = None => S = Fleet(ask.model)
  BY DEF S
<1>8. ask.prefer = None => s = Listed(Fleet(ask.model), None)
  BY <1>7 DEF s, S, Ordered
<1>9. ask.prefer = None => n = Cardinality(Fleet(ask.model)) /\ \A i \in 1..n : s[i] \in Fleet(ask.model)
  BY <1>2, <1>7 DEF n
<1> QED
  BY <1>5, <1>6, <1>8, <1>9 DEF s

\* A rotated list has the same workers, and begins where it was cut.
LEMMA RotatedIs ==
  ASSUME NEW s, Once(s), Len(s) > 0, NEW k \in Nat
  PROVE  /\ Once(Rotated(s, k)) /\ Len(Rotated(s, k)) = Len(s)
         /\ Rotated(s, k)[1] = s[(k % Len(s)) + 1]
<1> DEFINE n == Len(s)
           m == k % n
           a == SubSeq(s, m + 1, n)
           b == SubSeq(s, 1, m)
           t == Rotated(s, k)
<1>1. s \in Seq(Workers) /\ n \in Nat /\ n > 0 /\ \A i, j \in 1..n : i < j => s[i] # s[j]
  BY DEF Once
<1>2. m \in 0..n - 1
  BY <1>1
<1>3. t = a \o b
  BY DEF Rotated
<1>4. /\ a \in Seq(Workers) /\ Len(a) = n - m /\ \A i \in 1..n - m : a[i] = s[m + i]
  <2>1. a \in Seq(Workers) /\ Len(a) = n - (m + 1) + 1 /\ \A i \in 1..n - (m + 1) + 1 : a[i] = s[(m + 1) + i - 1]
    BY <1>1, <1>2, SubSeqProperties
  <2>2. n - (m + 1) + 1 = n - m /\ \A i \in 1..n - m : (m + 1) + i - 1 = m + i
    BY <1>1, <1>2
  <2> HIDE DEF a, m, n
  <2> QED
    BY <2>1, <2>2
<1>5. /\ b \in Seq(Workers) /\ Len(b) = m /\ \A i \in 1..m : b[i] = s[i]
  <2>1. b \in Seq(Workers) /\ Len(b) = m /\ \A i \in 1..m : b[i] = s[1 + i - 1]
    BY <1>1, <1>2, SubSeqProperties
  <2>2. \A i \in 1..m : 1 + i - 1 = i
    BY <1>1, <1>2
  <2> HIDE DEF b, m, n
  <2> QED
    BY <2>1, <2>2
<1> HIDE DEF a, b, t, m
<1>0. a \in Seq(Workers) /\ b \in Seq(Workers)
  BY <1>4, <1>5
<1>6. /\ t \in Seq(Workers) /\ Len(t) = Len(a) + Len(b)
      /\ \A i \in 1..Len(a) : t[i] = a[i]
      /\ \A i \in 1..Len(b) : t[Len(a) + i] = b[i]
  BY <1>3, <1>0, ConcatProperties
<1> HIDE DEF n
<1>7. /\ Len(t) = n
      /\ \A i \in 1..n - m : t[i] = s[m + i]
      /\ \A i \in 1..m : t[(n - m) + i] = s[i]
  <2>1. Len(t) = (n - m) + m
    BY <1>4, <1>5, <1>6
  <2>2. \A i \in 1..n - m : t[i] = s[m + i]
    BY <1>4, <1>6
  <2>3. \A i \in 1..m : t[(n - m) + i] = s[i]
    BY <1>4, <1>5, <1>6
  <2>4. (n - m) + m = n
    BY <1>1, <1>2
  <2> QED
    BY <2>1, <2>2, <2>3, <2>4
<1>8. ASSUME NEW i \in 1..n
      PROVE  t[i] = s[IF i <= n - m THEN m + i ELSE i - (n - m)]
  <2>1. CASE i <= n - m
    BY <1>1, <1>2, <1>7, <2>1
  <2>2. CASE i > n - m
    <3>1. i - (n - m) \in 1..m /\ (n - m) + (i - (n - m)) = i
      BY <1>1, <1>2, <2>2
    <3> QED
      BY <1>1, <1>2, <1>7, <2>2, <3>1
  <2> QED
    BY <1>1, <1>2, <2>1, <2>2
<1>9. ASSUME NEW i \in 1..n, NEW j \in 1..n, i < j
      PROVE  t[i] # t[j]
  <2> DEFINE at(x) == IF x <= n - m THEN m + x ELSE x - (n - m)
  <2>1. at(i) \in 1..n /\ at(j) \in 1..n /\ (at(i) < at(j) \/ at(j) < at(i))
    BY <1>1, <1>2, <1>9
  <2>2. t[i] = s[at(i)] /\ t[j] = s[at(j)]
    BY <1>8
  <2> HIDE DEF at
  <2> QED
    BY <1>1, <2>1, <2>2
<1>10. t[1] = s[m + 1]
  BY <1>1, <1>2, <1>7
<1> QED
  BY <1>6, <1>7, <1>9, <1>10 DEF Once, t, m, n

\* The lexicographic order of ranks and loads.
Ranks == Nat \X Nat \X Nat \X Nat \X Nat
Loads == Nat \X Nat \X Nat

LEMMA LessRank ==
  ASSUME NEW a \in Ranks, NEW b \in Ranks
  PROVE  Less(a, b) <=>
           \/ a[1] < b[1]
           \/ a[1] = b[1] /\ a[2] < b[2]
           \/ a[1] = b[1] /\ a[2] = b[2] /\ a[3] < b[3]
           \/ a[1] = b[1] /\ a[2] = b[2] /\ a[3] = b[3] /\ a[4] < b[4]
           \/ a[1] = b[1] /\ a[2] = b[2] /\ a[3] = b[3] /\ a[4] = b[4] /\ a[5] < b[5]
<1>1. Len(a) = 5
  BY DEF Ranks
<1>2. /\ 1..5 = {1, 2, 3, 4, 5} /\ 1..(1 - 1) = {} /\ 1..(2 - 1) = {1} /\ 1..(3 - 1) = {1, 2}
      /\ 1..(4 - 1) = {1, 2, 3} /\ 1..(5 - 1) = {1, 2, 3, 4}
  OBVIOUS
<1> QED
  BY <1>1, <1>2 DEF Less

LEMMA RanksOrdered ==
  ASSUME NEW a \in Ranks, NEW b \in Ranks, NEW c \in Ranks
  PROVE  /\ ~Less(a, a)
         /\ a[5] # b[5] => Less(a, b) \/ Less(b, a)
         /\ Less(a, b) /\ Less(b, c) => Less(a, c)
<1>1. /\ a[1] \in Nat /\ a[2] \in Nat /\ a[3] \in Nat /\ a[4] \in Nat /\ a[5] \in Nat
      /\ b[1] \in Nat /\ b[2] \in Nat /\ b[3] \in Nat /\ b[4] \in Nat /\ b[5] \in Nat
      /\ c[1] \in Nat /\ c[2] \in Nat /\ c[3] \in Nat /\ c[4] \in Nat /\ c[5] \in Nat
  BY DEF Ranks
<1>2. ~Less(a, a)
  BY <1>1, LessRank
<1>3. a[5] # b[5] => Less(a, b) \/ Less(b, a)
  BY <1>1, LessRank
<1>4. ASSUME Less(a, b), Less(b, c)
      PROVE  Less(a, c)
  BY <1>1, <1>4, LessRank
<1> QED
  BY <1>2, <1>3, <1>4

LEMMA LessLoad ==
  ASSUME NEW a \in Loads, NEW b \in Loads
  PROVE  Less(a, b) <=>
           \/ a[1] < b[1]
           \/ a[1] = b[1] /\ a[2] < b[2]
           \/ a[1] = b[1] /\ a[2] = b[2] /\ a[3] < b[3]
<1>1. Len(a) = 3
  BY DEF Loads
<1>2. 1..3 = {1, 2, 3} /\ 1..(1 - 1) = {} /\ 1..(2 - 1) = {1} /\ 1..(3 - 1) = {1, 2}
  OBVIOUS
<1> QED
  BY <1>1, <1>2 DEF Less

\* What is no later in one order is not before it in the other.
LEMMA Lexicographic ==
  ASSUME NEW x \in Nat, NEW y \in Nat, NEW z \in Nat, NEW u \in Nat, NEW v \in Nat, NEW w \in Nat,
         \/ x < u
         \/ x = u /\ y < v
         \/ x = u /\ y = v /\ z < w
         \/ x = u /\ y = v /\ z = w
  PROVE  ~(u < x) /\ ~(u = x /\ v < y) /\ ~(u = x /\ v = y /\ w < z)
OBVIOUS

-----------------------------------------------------------------------------
(* Rankings *)

Row == [worker : Workers, load : Loads, rank : Ranks]
Scans == [ask : Asks \union {NoAsk}, turn : Nat, left : Seq(Workers), rows : Seq(Row)]

\* The candidates of a ranking in the order in which they are looked at.
Route(s) == IF Cold(s.ask) THEN Rotated(Ordered(s.ask), s.turn) ELSE Ordered(s.ask)

\* A row is about the candidate whose place its rank ends with.
RowIs(s, c) ==
  /\ c.load = <<c.rank[1], c.rank[2], c.rank[3]>>
  /\ s.ask.prefer = None => c.rank[4] = 1
  /\ c.rank[5] + 1 \in 1..Len(Route(s)) - Len(s.left)
  /\ c.worker = Route(s)[c.rank[5] + 1]

ScanInv(s) ==
  /\ s.ask \in Asks /\ s.turn \in 0..Wheel - 1
  /\ Len(s.left) <= Len(Route(s))
  /\ \A i \in 1..Len(s.left) : s.left[i] = Route(s)[Len(Route(s)) - Len(s.left) + i]
  /\ \A i \in 1..Len(s.rows) : RowIs(s, s.rows[i])
  /\ \A i, j \in 1..Len(s.rows) : i < j => s.rows[i].rank[5] < s.rows[j].rank[5]

\* What is first at a turn is the candidate of that turn.
FirstInv ==
  \A t \in 0..Wheel - 1 : first[t] # None =>
    \E ask \in Asks : Cold(ask) /\ first[t] = Ordered(ask)[(t % Len(Ordered(ask))) + 1]

RankedInv ==
  /\ TypeOK
  /\ scan \in [Requests -> Scans]
  /\ \A r \in Requests : scan[r] # NoScan => pc[r] = "idle" /\ ScanInv(scan[r])
  /\ cursor \in 0..Wheel - 1
  /\ first \in [0..Wheel - 1 -> Workers \union {None}]
  /\ FirstInv

LEMMA RouteIs ==
  ASSUME NEW s, s.turn \in Nat
  PROVE  Once(Route(s)) /\ Len(Route(s)) = Len(Ordered(s.ask)) /\ Len(Route(s)) \in Nat
<1>1. Once(Ordered(s.ask))
  BY OrderedIs
<1>2. Cold(s.ask) => Len(Ordered(s.ask)) > 0
  <2>1. Len(Ordered(s.ask)) \in Nat
    BY <1>1, LenProperties DEF Once
  <2> QED
    BY <2>1 DEF Cold
<1>3. Once(Route(s)) /\ Len(Route(s)) = Len(Ordered(s.ask))
  BY <1>1, <1>2, RotatedIs DEF Route
<1> QED
  BY <1>3, LenProperties DEF Once

LEMMA RowsTyped ==
  ASSUME NEW s \in Scans
  PROVE  /\ Len(s.rows) \in Nat /\ DOMAIN s.rows = 1..Len(s.rows)
         /\ \A i \in 1..Len(s.rows) : s.rows[i] \in Row /\ s.rows[i].rank \in Ranks /\ s.rows[i].load \in Loads
                                      /\ s.rows[i].worker \in Workers
<1>1. s.rows \in Seq(Row)
  BY DEF Scans
<1>2. /\ Len(s.rows) \in Nat /\ DOMAIN s.rows = 1..Len(s.rows)
      /\ \A i \in 1..Len(s.rows) : s.rows[i] \in Row
  BY <1>1
<1> QED
  BY <1>2 DEF Row

\* The rows can be sorted: no two ranks are the same.
LEMMA SortedIs ==
  ASSUME NEW s \in Scans, ScanInv(s)
  PROVE  LET m == Len(s.rows)
             p == Sorted(s.rows)
         IN  /\ p \in [1..m -> 1..m]
             /\ \A i, j \in 1..m : i < j => p[i] # p[j] /\ Less(s.rows[p[i]].rank, s.rows[p[j]].rank)
             /\ \A j \in 1..m : \E i \in 1..m : p[i] = j
<1> DEFINE m == Len(s.rows)
           p == Sorted(s.rows)
           rank(i) == s.rows[i].rank
           R == {ij \in (1..m) \X (1..m) : Less(rank(ij[1]), rank(ij[2]))}
<1>1. m \in Nat /\ DOMAIN s.rows = 1..m /\ \A i \in 1..m : rank(i) \in Ranks
  BY RowsTyped
<1>2. \A i, j \in 1..m : i < j => rank(i)[5] < rank(j)[5]
  BY DEF ScanInv
<1> HIDE DEF rank, m, p
<1>3. \A i, j \in 1..m : <<i, j>> \in R <=> Less(rank(i), rank(j))
  OBVIOUS
<1>4. IsFiniteSet(1..m) /\ Cardinality(1..m) = m
  BY <1>1, FS_Interval
<1> HIDE DEF R
<1>5. \A i \in 1..m : ~Less(rank(i), rank(i))
  BY <1>1, RanksOrdered
<1>6. \A i, j \in 1..m : i # j => Less(rank(i), rank(j)) \/ Less(rank(j), rank(i))
  <2> TAKE i, j \in 1..m
  <2>1. i # j => rank(i)[5] # rank(j)[5]
    <3>1. i < j => rank(i)[5] < rank(j)[5]
      BY <1>2
    <3>2. j < i => rank(j)[5] < rank(i)[5]
      BY <1>2
    <3>3. rank(i)[5] \in Nat /\ rank(j)[5] \in Nat
      BY <1>1 DEF Ranks
    <3> QED
      BY <1>1, <3>1, <3>2, <3>3
  <2> QED
    BY <1>1, <2>1, RanksOrdered
<1>7. \A i, j, k \in 1..m : Less(rank(i), rank(j)) /\ Less(rank(j), rank(k)) => Less(rank(i), rank(k))
  BY <1>1, RanksOrdered
<1>8. \E q \in [1..m -> 1..m] : \A i, j \in 1..m : i < j => <<q[i], q[j]>> \in R
  <2>1. /\ \A i \in 1..m : <<i, i>> \notin R
        /\ \A i, j \in 1..m : i # j => <<i, j>> \in R \/ <<j, i>> \in R
        /\ \A i, j, k \in 1..m : <<i, j>> \in R /\ <<j, k>> \in R => <<i, k>> \in R
    BY <1>3, <1>5, <1>6, <1>7
  <2>2. \E q \in [1..Cardinality(1..m) -> 1..m] : \A i, j \in 1..Cardinality(1..m) : i < j => <<q[i], q[j]>> \in R
    BY <1>4, <2>1, CanBeListed
  <2> QED
    BY <1>4, <2>2
<1>9. \E q \in [1..m -> 1..m] : \A i, j \in 1..m : i < j => Less(s.rows[q[i]].rank, s.rows[q[j]].rank)
  BY <1>3, <1>8 DEF rank
<1>10. p \in [1..m -> 1..m] /\ \A i, j \in 1..m : i < j => Less(s.rows[p[i]].rank, s.rows[p[j]].rank)
  BY <1>1, <1>9 DEF Sorted, p
<1>11. \A i, j \in 1..m : i < j => p[i] # p[j]
  BY <1>5, <1>10 DEF rank
<1>12. \A j \in 1..m : \E i \in 1..m : p[i] = j
  <2> DEFINE S == 1..m
  <2>1. IsFiniteSet(S) /\ Cardinality(S) = m /\ p \in [1..m -> S]
    BY <1>4, <1>10
  <2> HIDE DEF S
  <2>2. \A x \in S : \E i \in 1..m : p[i] = x
    BY <1>1, <1>11, <2>1, AllListed
  <2> QED
    BY <2>2 DEF S
<1> QED
  BY <1>10, <1>11, <1>12 DEF m, p

\* The list that is made of the rows.
List(s) == [i \in DOMAIN s.rows |-> s.rows[Sorted(s.rows)[i]].worker]

LEMMA ListIs ==
  ASSUME NEW s \in Scans, ScanInv(s)
  PROVE  /\ Once(List(s)) /\ Len(List(s)) = Len(s.rows)
         /\ \A i \in 1..Len(s.rows) : List(s)[i] = s.rows[Sorted(s.rows)[i]].worker
         /\ \A i, j \in 1..Len(s.rows) : i # j => s.rows[i].worker # s.rows[j].worker
<1> DEFINE m == Len(s.rows)
           p == Sorted(s.rows)
           list == List(s)
<1>1. m \in Nat /\ DOMAIN s.rows = 1..m /\ \A i \in 1..m : s.rows[i].rank \in Ranks /\ s.rows[i].worker \in Workers
  BY RowsTyped
<1>2. p \in [1..m -> 1..m] /\ \A i, j \in 1..m : i < j => p[i] # p[j]
  BY SortedIs
<1> HIDE DEF m, p
<1>3. list = [i \in 1..m |-> s.rows[p[i]].worker]
  BY <1>1 DEF List, p
<1>4. list \in [1..m -> Workers]
  BY <1>1, <1>2, <1>3
<1>5. list \in Seq(Workers)
  BY <1>1, <1>4, SeqDef
<1>6. Len(list) = m
  BY <1>1, <1>4, <1>5, LenProperties
<1>7. ASSUME NEW i \in 1..m, NEW j \in 1..m, i < j
      PROVE  s.rows[i].worker # s.rows[j].worker
  <2> DEFINE x == s.rows[i].rank[5] + 1
             y == s.rows[j].rank[5] + 1
             route == Route(s)
  <2>1. s.rows[i].worker = route[x] /\ s.rows[j].worker = route[y]
    BY DEF ScanInv, RowIs, m
  <2>2. x \in 1..Len(route) - Len(s.left) /\ y \in 1..Len(route) - Len(s.left)
    BY DEF ScanInv, RowIs, m
  <2>3. Once(route) /\ Len(route) \in Nat
    <3>1. s.turn \in Nat
      BY DEF Scans
    <3> QED
      BY <3>1, RouteIs
  <2>4. Len(s.left) \in Nat
    BY DEF Scans
  <2>5. s.rows[i].rank[5] < s.rows[j].rank[5] /\ s.rows[i].rank[5] \in Nat /\ s.rows[j].rank[5] \in Nat
    <3>1. s.rows[i].rank[5] < s.rows[j].rank[5]
      BY <1>7 DEF ScanInv, m
    <3> QED
      BY <1>1, <3>1 DEF Ranks
  <2>6. x < y
    BY <2>5
  <2> HIDE DEF x, y, route
  <2>7. x \in 1..Len(route) /\ y \in 1..Len(route)
    BY <2>2, <2>3, <2>4
  <2> QED
    BY <2>1, <2>3, <2>6, <2>7 DEF Once
<1>8. \A i, j \in 1..m : i # j => s.rows[i].worker # s.rows[j].worker
  <2> TAKE i, j \in 1..m
  <2>1. i # j => i < j \/ j < i
    BY <1>1
  <2> QED
    BY <1>7, <2>1
<1>9. Once(list)
  <2>1. \A i, j \in 1..m : i < j => list[i] # list[j]
    BY <1>2, <1>3, <1>8
  <2> QED
    BY <1>5, <1>6, <2>1 DEF Once
<1> QED
  BY <1>3, <1>6, <1>8, <1>9 DEF m, p

\* The first of the list, and what comes after it.
LEMMA HeadOfList ==
  ASSUME NEW s \in Scans, ScanInv(s), List(s) # <<>>
  PROVE  \E h \in 1..Len(s.rows) :
           /\ Head(List(s)) = s.rows[h].worker
           /\ \A j \in 1..Len(s.rows) : j = h \/ Less(s.rows[h].rank, s.rows[j].rank)
<1> DEFINE m == Len(s.rows)
           p == Sorted(s.rows)
<1>1. /\ p \in [1..m -> 1..m]
      /\ \A i, j \in 1..m : i < j => Less(s.rows[p[i]].rank, s.rows[p[j]].rank)
      /\ \A j \in 1..m : \E i \in 1..m : p[i] = j
  BY SortedIs
<1>2. m \in Nat
  BY RowsTyped
<1>3. List(s) \in Seq(Workers) /\ Len(List(s)) = m /\ \A i \in 1..m : List(s)[i] = s.rows[p[i]].worker
  BY ListIs DEF Once
<1> HIDE DEF m, p
<1>4. 1 \in 1..m /\ Head(List(s)) = List(s)[1]
  BY <1>2, <1>3
<1>5. ASSUME NEW j \in 1..m, j # p[1]
      PROVE  Less(s.rows[p[1]].rank, s.rows[j].rank)
  <2>1. PICK i \in 1..m : p[i] = j
    BY <1>1
  <2>2. 1 < i
    BY <1>2, <1>5, <2>1
  <2> QED
    BY <1>1, <1>4, <2>1, <2>2
<1> QED
  BY <1>1, <1>3, <1>4, <1>5 DEF m

\* The first has no heavier load than any other row.
LEMMA HeadIsLightest ==
  ASSUME NEW s \in Scans, ScanInv(s), List(s) # <<>>,
         NEW i \in 1..Len(s.rows), NEW j \in 1..Len(s.rows), Head(List(s)) = s.rows[i].worker
  PROVE  ~Less(s.rows[j].load, s.rows[i].load)
<1>1. PICK h \in 1..Len(s.rows) :
           /\ Head(List(s)) = s.rows[h].worker
           /\ \A k \in 1..Len(s.rows) : k = h \/ Less(s.rows[h].rank, s.rows[k].rank)
  BY HeadOfList
<1>2. i = h
  BY <1>1, ListIs
<1> DEFINE a == s.rows[i]
           b == s.rows[j]
<1>3. /\ a.rank \in Ranks /\ b.rank \in Ranks /\ a.load \in Loads /\ b.load \in Loads
      /\ a.load = <<a.rank[1], a.rank[2], a.rank[3]>> /\ b.load = <<b.rank[1], b.rank[2], b.rank[3]>>
  BY RowsTyped DEF ScanInv, RowIs
<1>4. a = b \/ Less(a.rank, b.rank)
  BY <1>1, <1>2
<1> HIDE DEF a, b
<1>5. /\ a.rank[1] \in Nat /\ a.rank[2] \in Nat /\ a.rank[3] \in Nat
      /\ b.rank[1] \in Nat /\ b.rank[2] \in Nat /\ b.rank[3] \in Nat
  BY <1>3 DEF Ranks
<1>6. /\ a.load[1] = a.rank[1] /\ a.load[2] = a.rank[2] /\ a.load[3] = a.rank[3]
      /\ b.load[1] = b.rank[1] /\ b.load[2] = b.rank[2] /\ b.load[3] = b.rank[3]
  BY <1>3
<1>7. ~Less(b.load, a.load)
  <2>1. CASE a = b
    <3>1. Less(b.load, a.load) <=>
            \/ b.load[1] < a.load[1]
            \/ b.load[1] = a.load[1] /\ b.load[2] < a.load[2]
            \/ b.load[1] = a.load[1] /\ b.load[2] = a.load[2] /\ b.load[3] < a.load[3]
      BY <1>3, LessLoad
    <3>2. b.load[1] = a.load[1] /\ b.load[2] = a.load[2] /\ b.load[3] = a.load[3]
      BY <2>1
    <3>3. a.load[1] \in Nat /\ a.load[2] \in Nat /\ a.load[3] \in Nat
      BY <1>5, <1>6
    <3> QED
      BY <3>1, <3>2, <3>3
  <2>2. CASE Less(a.rank, b.rank)
    <3>1. \/ a.rank[1] < b.rank[1]
          \/ a.rank[1] = b.rank[1] /\ a.rank[2] < b.rank[2]
          \/ a.rank[1] = b.rank[1] /\ a.rank[2] = b.rank[2] /\ a.rank[3] < b.rank[3]
          \/ a.rank[1] = b.rank[1] /\ a.rank[2] = b.rank[2] /\ a.rank[3] = b.rank[3]
      BY <1>3, <2>2, LessRank
    <3>2. Less(b.load, a.load) <=>
            \/ b.rank[1] < a.rank[1]
            \/ b.rank[1] = a.rank[1] /\ b.rank[2] < a.rank[2]
            \/ b.rank[1] = a.rank[1] /\ b.rank[2] = a.rank[2] /\ b.rank[3] < a.rank[3]
      BY <1>3, <1>6, LessLoad
    <3> QED
      BY <1>5, <3>1, <3>2, Lexicographic
  <2> QED
    BY <1>4, <2>1, <2>2
<1> QED
  BY <1>7 DEF a, b

\* With all candidates there and alike, the first is the one at which the route begins.
LEMMA HeadTakesTurn ==
  ASSUME NEW s \in Scans, ScanInv(s), s.left = <<>>, Cold(s.ask), Alike(s), List(s) # <<>>
  PROVE  Head(List(s)) = Ordered(s.ask)[(s.turn % Len(Ordered(s.ask))) + 1]
<1> DEFINE n == Len(s.rows)
           route == Route(s)
           at == [i \in 1..n |-> s.rows[i].rank[5] + 1]
<1>1. /\ n = Len(Ordered(s.ask)) /\ n = Len(route) /\ n \in Nat /\ Once(Ordered(s.ask)) /\ s.turn \in Nat
      /\ s.ask.prefer = None /\ n > 1
  BY RouteIs, OrderedIs DEF Scans, Alike, Cold
<1>2. ASSUME NEW i \in 1..n
      PROVE  /\ s.rows[i].rank \in Ranks /\ s.rows[i].rank[5] \in Nat /\ s.rows[i].rank[4] = 1
             /\ s.rows[i].load = <<s.rows[i].rank[1], s.rows[i].rank[2], s.rows[i].rank[3]>>
             /\ s.rows[i].rank[5] + 1 \in 1..n /\ s.rows[i].worker = route[s.rows[i].rank[5] + 1]
  <2>1. /\ s.rows[i].load = <<s.rows[i].rank[1], s.rows[i].rank[2], s.rows[i].rank[3]>>
        /\ s.rows[i].rank[4] = 1
        /\ s.rows[i].rank[5] + 1 \in 1..Len(route) - Len(s.left) /\ s.rows[i].worker = route[s.rows[i].rank[5] + 1]
    BY <1>1 DEF ScanInv, RowIs
  <2>2. Len(route) - Len(s.left) = n
    BY <1>1
  <2>3. s.rows[i].rank \in Ranks
    BY RowsTyped
  <2> QED
    BY <2>1, <2>2, <2>3 DEF Ranks
<1>3. \A i, j \in 1..n : i < j => s.rows[i].rank[5] < s.rows[j].rank[5]
  BY DEF ScanInv
<1>4. \A i, j \in 1..n : s.rows[i].load = s.rows[j].load
  BY RowsTyped DEF Alike
<1>5. PICK h \in 1..n :
           /\ Head(List(s)) = s.rows[h].worker
           /\ \A j \in 1..n : j = h \/ Less(s.rows[h].rank, s.rows[j].rank)
  BY HeadOfList
<1>6. at \in [1..n -> 1..n] /\ \A i \in 1..n : at[i] = s.rows[i].rank[5] + 1
  BY <1>2
<1> HIDE DEF n, route, at
<1>7. \E j \in 1..n : at[j] = 1
  <2> DEFINE S == 1..n
  <2>0. n \in Nat /\ n > 1
    BY <1>1
  <2>1. IsFiniteSet(S) /\ Cardinality(S) = n
    BY <2>0, FS_Interval
  <2>2. at \in [1..n -> S] /\ 1 \in S
    BY <2>0, <1>6
  <2>3. \A i, j \in 1..n : i < j => at[i] # at[j]
    <3> SUFFICES ASSUME NEW i \in 1..n, NEW j \in 1..n, i < j
                 PROVE  at[i] # at[j]
      OBVIOUS
    <3> DEFINE x == s.rows[i].rank[5]
               y == s.rows[j].rank[5]
    <3>1. x < y
      BY <1>3
    <3>2. x \in Nat /\ y \in Nat
      BY <1>2
    <3>3. at[i] = x + 1 /\ at[j] = y + 1
      BY <1>6
    <3> HIDE DEF x, y
    <3> QED
      BY <3>1, <3>2, <3>3
  <2>5. n \in Nat /\ at \in [1..n -> S]
    BY <2>0, <2>2
  <2> HIDE DEF S
  <2>4. \A x \in S : \E i \in 1..n : at[i] = x
    <3>1. ASSUME NEW f \in [1..n -> S], \A i, j \in 1..n : i < j => f[i] # f[j]
          PROVE  \A x \in S : \E i \in 1..n : f[i] = x
      BY <2>1, <2>5, <3>1, AllListed
    <3> QED
      BY <2>3, <2>5, <3>1
  <2> QED
    BY <2>2, <2>4
<1>8. PICK j \in 1..n : s.rows[j].rank[5] = 0
  <2>1. PICK j \in 1..n : at[j] = 1
    BY <1>7
  <2>2. s.rows[j].rank[5] \in Nat /\ s.rows[j].rank[5] + 1 = 1
    BY <1>2, <1>6, <2>1
  <2> QED
    BY <2>2
<1>9. h = j
  <2> SUFFICES ASSUME h # j PROVE FALSE
    OBVIOUS
  <2> DEFINE a == s.rows[h]
             b == s.rows[j]
  <2>1. Less(a.rank, b.rank)
    BY <1>5
  <2>2. /\ a.rank \in Ranks /\ b.rank \in Ranks /\ a.rank[5] \in Nat /\ b.rank[5] = 0 /\ a.rank[4] = 1 /\ b.rank[4] = 1
        /\ a.load = <<a.rank[1], a.rank[2], a.rank[3]>> /\ b.load = <<b.rank[1], b.rank[2], b.rank[3]>>
    BY <1>2, <1>8
  <2>3. a.load = b.load
    BY <1>4
  <2> HIDE DEF a, b
  <2>4. a.rank[1] = b.rank[1] /\ a.rank[2] = b.rank[2] /\ a.rank[3] = b.rank[3]
    BY <2>2, <2>3
  <2>5. a.rank[1] \in Nat /\ a.rank[2] \in Nat /\ a.rank[3] \in Nat
    BY <2>2 DEF Ranks
  <2>6. a.rank[5] < b.rank[5]
    <3>1. \/ a.rank[1] < b.rank[1]
          \/ a.rank[1] = b.rank[1] /\ a.rank[2] < b.rank[2]
          \/ a.rank[1] = b.rank[1] /\ a.rank[2] = b.rank[2] /\ a.rank[3] < b.rank[3]
          \/ a.rank[4] < b.rank[4]
          \/ a.rank[5] < b.rank[5]
      BY <2>1, <2>2, LessRank
    <3>2. ~(a.rank[1] < b.rank[1]) /\ ~(a.rank[2] < b.rank[2]) /\ ~(a.rank[3] < b.rank[3])
      BY <2>4, <2>5
    <3>3. ~(a.rank[4] < b.rank[4])
      BY <2>2
    <3> QED
      BY <3>1, <3>2, <3>3
  <2> QED
    BY <2>2, <2>6
<1>10. Head(List(s)) = route[1]
  <2>1. s.rows[j].worker = route[s.rows[j].rank[5] + 1]
    BY <1>2
  <2>2. s.rows[j].rank[5] + 1 = 1
    BY <1>8
  <2> QED
    BY <1>5, <1>9, <2>1, <2>2
<1>11. route[1] = Ordered(s.ask)[(s.turn % n) + 1]
  <2>1. Len(Ordered(s.ask)) > 0 /\ Route(s) = Rotated(Ordered(s.ask), s.turn)
    BY <1>1 DEF Route
  <2>2. Rotated(Ordered(s.ask), s.turn)[1] = Ordered(s.ask)[(s.turn % Len(Ordered(s.ask))) + 1]
    BY <1>1, <2>1, RotatedIs
  <2> QED
    BY <1>1, <2>1, <2>2 DEF route
<1> QED
  BY <1>1, <1>10, <1>11

LEMMA ScanFields ==
  ASSUME NEW s \in Scans
  PROVE  \A left, rows : [s EXCEPT !.left = left, !.rows = rows]
                           = [ask |-> s.ask, turn |-> s.turn, left |-> left, rows |-> rows]
<1> DEFINE A == Asks \union {NoAsk}
           L == Seq(Workers)
           R == Seq(Row)
<1>1. s \in [ask : A, turn : Nat, left : L, rows : R]
  BY DEF Scans
<1> HIDE DEF A, L, R
<1> TAKE left, rows
<1>3. [s EXCEPT !.left = left] = [ask |-> s.ask, turn |-> s.turn, left |-> left, rows |-> s.rows]
  BY <1>1
<1>4. [[ask |-> s.ask, turn |-> s.turn, left |-> left, rows |-> s.rows] EXCEPT !.rows = rows]
        = [ask |-> s.ask, turn |-> s.turn, left |-> left, rows |-> rows]
  OBVIOUS
<1> QED
  BY <1>3, <1>4

\* A candidate has been asked: it has a row behind the others, or it has none.
LEMMA CandidateAsked ==
  ASSUME NEW s \in Scans, ScanInv(s), s.left # <<>>, NEW rows,
         \/ rows = s.rows
         \/ \E row \in Row : /\ rows = Append(s.rows, row)
                             /\ row.load = <<row.rank[1], row.rank[2], row.rank[3]>>
                             /\ s.ask.prefer = None => row.rank[4] = 1
                             /\ row.rank[5] = Len(Ordered(s.ask)) - Len(s.left)
                             /\ row.worker = Head(s.left)
  PROVE  /\ [s EXCEPT !.left = Tail(@), !.rows = rows] \in Scans
         /\ ScanInv([s EXCEPT !.left = Tail(@), !.rows = rows])
<1> DEFINE t == [s EXCEPT !.left = Tail(@), !.rows = rows]
           route == Route(s)
           l == Len(route)
           k == Len(s.left)
           n == Len(s.rows)
<1>1. /\ s.left \in Seq(Workers) /\ s.turn \in Nat /\ s.rows \in Seq(Row) /\ s.ask \in Asks \union {NoAsk}
      /\ t.ask = s.ask /\ t.turn = s.turn /\ t.left = Tail(s.left) /\ t.rows = rows
      /\ t = [ask |-> s.ask, turn |-> s.turn, left |-> Tail(s.left), rows |-> rows]
  <2>1. s.left \in Seq(Workers) /\ s.turn \in Nat /\ s.rows \in Seq(Row) /\ s.ask \in Asks \union {NoAsk}
    BY DEF Scans
  <2>3. t = [ask |-> s.ask, turn |-> s.turn, left |-> Tail(s.left), rows |-> rows]
    BY ScanFields
  <2> HIDE DEF t
  <2>4. t.ask = s.ask /\ t.turn = s.turn /\ t.left = Tail(s.left) /\ t.rows = rows
    BY <2>3
  <2> QED
    BY <2>1, <2>3, <2>4
<1>2. Route(t) = route
  BY <1>1 DEF Route
<1>3. l \in Nat /\ l = Len(Ordered(s.ask)) /\ Once(route)
  BY <1>1, RouteIs
<1>4. /\ k \in Nat /\ k > 0 /\ Len(t.left) = k - 1 /\ t.left \in Seq(Workers) /\ Head(s.left) = s.left[1]
      /\ \A i \in 1..k - 1 : t.left[i] = s.left[i + 1]
  <2>1. k \in Nat /\ k # 0 /\ Tail(s.left) \in Seq(Workers) /\ Len(Tail(s.left)) = k - 1 /\ Head(s.left) = s.left[1]
        /\ \A i \in 1..Len(Tail(s.left)) : Tail(s.left)[i] = s.left[i + 1]
    BY <1>1, HeadTailProperties, EmptySeq, LenProperties
  <2> QED
    BY <1>1, <2>1
<1>5. k <= l /\ \A i \in 1..k : s.left[i] = route[l - k + i]
  BY DEF ScanInv
<1>6. \A i \in 1..n : s.rows[i] \in Row /\ RowIs(s, s.rows[i])
  BY RowsTyped DEF ScanInv
<1>7. \A i, j \in 1..n : i < j => s.rows[i].rank[5] < s.rows[j].rank[5]
  BY DEF ScanInv
<1>8. n \in Nat
  BY RowsTyped
<1>9. s.ask \in Asks /\ s.turn \in 0..Wheel - 1
  BY DEF ScanInv
<1>0. l \in Nat /\ k \in Nat /\ k > 0 /\ k <= l
  BY <1>3, <1>4, <1>5
<1> HIDE DEF t, route, l, k, n
<1>10. /\ Len(t.left) <= l
       /\ \A i \in 1..Len(t.left) : t.left[i] = route[l - Len(t.left) + i]
  <2>1. k - 1 <= l
    BY <1>0
  <2>2. ASSUME NEW i \in 1..k - 1
        PROVE  t.left[i] = route[l - (k - 1) + i]
    <3>1. i + 1 \in 1..k /\ l - k + (i + 1) = l - (k - 1) + i
      BY <1>0
    <3>2. s.left[i + 1] = route[l - k + (i + 1)]
      BY <1>0, <1>5, <3>1
    <3>3. t.left[i] = s.left[i + 1]
      BY <1>4
    <3> QED
      BY <3>1, <3>2, <3>3
  <2> QED
    BY <1>4, <2>1, <2>2
<1>11. ASSUME NEW c \in Row, RowIs(s, c)
       PROVE  RowIs(t, c)
  <2> DEFINE x == c.rank[5] + 1
  <2>1. x \in 1..l - k /\ c.worker = route[x]
    BY <1>11 DEF RowIs, route, l, k
  <2> HIDE DEF x
  <2>2. x \in 1..l - (k - 1)
    BY <1>3, <1>4, <2>1
  <2> QED
    BY <1>1, <1>2, <1>4, <1>11, <2>1, <2>2 DEF RowIs, l, x
<1>12. CASE rows = s.rows
  <2>1. \A i \in 1..Len(t.rows) : RowIs(t, t.rows[i])
    BY <1>1, <1>6, <1>11, <1>12 DEF n
  <2>2. t \in Scans
    BY <1>1, <1>4, <1>12 DEF Scans
  <2>3. \A i, j \in 1..Len(t.rows) : i < j => t.rows[i].rank[5] < t.rows[j].rank[5]
    BY <1>1, <1>7, <1>12 DEF n
  <2> QED
    BY <1>1, <1>2, <1>9, <1>10, <2>1, <2>2, <2>3 DEF ScanInv, t, l
<1>13. CASE rows # s.rows
  <2>1. PICK row \in Row : /\ rows = Append(s.rows, row)
                           /\ row.load = <<row.rank[1], row.rank[2], row.rank[3]>>
                           /\ s.ask.prefer = None => row.rank[4] = 1
                           /\ row.rank[5] = Len(Ordered(s.ask)) - Len(s.left)
                           /\ row.worker = Head(s.left)
    BY <1>13
  <2>2. /\ rows \in Seq(Row) /\ Len(rows) = n + 1 /\ rows[n + 1] = row /\ \A i \in 1..n : rows[i] = s.rows[i]
    BY <1>1, <2>1, AppendProperties DEF n
  <2>3. RowIs(t, row)
    <3>1. row.rank[5] = l - k
      BY <1>3, <2>1 DEF k
    <3>2. row.worker = route[(l - k) + 1]
      BY <1>4, <1>5, <2>1
    <3>3. (l - k) + 1 \in 1..l - (k - 1)
      BY <1>3, <1>4, <1>5
    <3> QED
      BY <1>1, <1>2, <1>4, <2>1, <3>1, <3>2, <3>3 DEF RowIs, l
  <2>4. ASSUME NEW i \in 1..n + 1
        PROVE  RowIs(t, rows[i])
    <3>1. i = n + 1 \/ i \in 1..n
      BY <1>8
    <3> QED
      BY <1>6, <1>11, <2>2, <2>3, <3>1
  <2>5. ASSUME NEW i \in 1..n
        PROVE  s.rows[i].rank[5] < row.rank[5]
    <3> DEFINE x == s.rows[i].rank[5]
    <3>1. x \in Nat
      BY <1>6 DEF Row, Ranks
    <3>2. x + 1 \in 1..l - k
      BY <1>6 DEF RowIs, l, k, route
    <3>3. row.rank[5] = l - k
      BY <1>3, <2>1 DEF k
    <3> HIDE DEF x
    <3>4. x < l - k
      BY <1>3, <1>4, <3>1, <3>2
    <3> QED
      BY <3>3, <3>4 DEF x
  <2>6. ASSUME NEW i \in 1..n + 1, NEW j \in 1..n + 1, i < j
        PROVE  rows[i].rank[5] < rows[j].rank[5]
    <3>1. i \in 1..n /\ (j = n + 1 \/ j \in 1..n)
      BY <1>8, <2>6
    <3> QED
      BY <1>7, <2>2, <2>5, <2>6, <3>1
  <2>7. t \in Scans
    BY <1>1, <1>4, <2>2 DEF Scans
  <2>8. Len(t.rows) = n + 1
    BY <1>1, <2>2
  <2> QED
    BY <1>1, <1>2, <1>9, <1>10, <2>4, <2>6, <2>7, <2>8 DEF ScanInv, t, l
<1> QED
  BY <1>12, <1>13

-----------------------------------------------------------------------------
(* The steps of a ranking *)

LEMMA NoScanIsScan == NoScan \in Scans
  BY EmptySeq DEF NoScan, Scans

\* A step of one request that leaves the others where they were, or wakes them.
ScanKept(r) ==
  /\ \A q \in Requests \ {r} : scan'[q] = scan[q]
  /\ \A q \in Requests \ {r} : pc[q] = "idle" => pc'[q] = "idle"

LEMMA OthersKept ==
  ASSUME RankedInv, NEW r \in Requests, ScanKept(r), scan'[r] # NoScan => pc'[r] = "idle" /\ ScanInv(scan'[r])
  PROVE  \A q \in Requests : scan'[q] # NoScan => pc'[q] = "idle" /\ ScanInv(scan'[q])
<1> TAKE q \in Requests
<1>1. CASE q = r
  BY <1>1
<1>2. CASE q # r
  BY <1>2 DEF RankedInv, ScanKept
<1> QED
  BY <1>1, <1>2

LEMMA BeginStep ==
  ASSUME RankedInv, NEW r \in Requests, BeginRanking(r)
  PROVE  RankedInv' /\ UNCHANGED vars
<1>1. PICK ask \in Asks :
         scan' = [scan EXCEPT ![r] =
            [ask |-> ask, turn |-> cursor, rows |-> <<>>,
             left |-> IF Cold(ask) THEN Rotated(Ordered(ask), cursor) ELSE Ordered(ask)]]
  BY DEF BeginRanking
<1> DEFINE s == [ask |-> ask, turn |-> cursor, rows |-> <<>>,
                 left |-> IF Cold(ask) THEN Rotated(Ordered(ask), cursor) ELSE Ordered(ask)]
<1>2. scan' = [scan EXCEPT ![r] = s] /\ pc[r] = "idle" /\ UNCHANGED <<first, vars>>
  BY <1>1 DEF BeginRanking
<1>3. cursor \in 0..Wheel - 1 /\ Wheel \in Nat \ {0}
  BY RankingAssumption DEF RankedInv
<1>4. s.ask = ask /\ s.turn = cursor /\ s.rows = <<>> /\ s.left = Route(s)
  BY DEF Route
<1>5. Route(s) \in Seq(Workers) /\ Len(Route(s)) \in Nat
  <2>1. s.turn \in Nat
    BY <1>3, <1>4
  <2> HIDE DEF s
  <2> QED
    BY <2>1, RouteIs DEF Once
<1>6. s \in Scans
  <2>1. s.left \in Seq(Workers) /\ s.rows \in Seq(Row)
    BY <1>4, <1>5, EmptySeq
  <2>2. ask \in Asks \union {NoAsk} /\ cursor \in Nat /\ s.left \in Seq(Workers) /\ <<>> \in Seq(Row)
    BY <1>3, <1>4, <2>1
  <2> DEFINE L == Seq(Workers)
             R == Seq(Row)
             A == Asks \union {NoAsk}
  <2> HIDE DEF L, R, A
  <2>3. s \in [ask : A, turn : Nat, left : L, rows : R]
    BY <2>2 DEF L, R, A
  <2> QED
    BY <2>3 DEF Scans, L, R, A
<1> HIDE DEF s
<1>7. ScanInv(s)
  <2>1. Len(s.rows) = 0
    BY <1>4
  <2>2. \A i \in 1..Len(s.left) : s.left[i] = Route(s)[Len(Route(s)) - Len(s.left) + i]
    <3> DEFINE l == Len(Route(s))
    <3>1. \A i \in 1..l : l - l + i = i
      BY <1>5
    <3> QED
      BY <1>4, <3>1
  <2>3. s.ask \in Asks /\ s.turn \in 0..Wheel - 1 /\ Len(s.left) <= Len(Route(s))
    BY <1>3, <1>4, <1>5
  <2>4. 1..Len(s.rows) = {}
    BY <2>1
  <2> QED
    BY <2>2, <2>3, <2>4 DEF ScanInv
<1>8. scan' \in [Requests -> Scans] /\ scan'[r] = s /\ \A q \in Requests \ {r} : scan'[q] = scan[q]
  BY <1>2, <1>6 DEF RankedInv
<1>9. pc' = pc /\ UNCHANGED vars
  BY <1>2 DEF vars, threadVars
<1>10. \A q \in Requests : scan'[q] # NoScan => pc'[q] = "idle" /\ ScanInv(scan'[q])
  BY <1>2, <1>7, <1>8, <1>9, OthersKept DEF ScanKept
<1>11. cursor' \in 0..Wheel - 1
  <2>1. cursor' = cursor \/ cursor' = (cursor + 1) % Wheel
    BY DEF BeginRanking
  <2> QED
    BY <1>3, <2>1
<1>12. TypeOK'
  BY <1>9, TypeStep DEF Next, RankedInv
<1>13. first' \in [0..Wheel - 1 -> Workers \union {None}] /\ FirstInv'
  BY <1>2 DEF RankedInv, FirstInv
<1> QED
  BY <1>8, <1>9, <1>10, <1>11, <1>12, <1>13 DEF RankedInv

LEMMA LookStep ==
  ASSUME RankedInv, NEW r \in Requests, Look(r)
  PROVE  RankedInv' /\ UNCHANGED vars /\ scan[r].left # <<>>
<1> DEFINE s == scan[r]
           w == Head(s.left)
           index == Len(Ordered(s.ask)) - Len(s.left)
           row(view) == [worker |-> w, load |-> <<BusyScore(view), active[w], depth[w]>>,
                         rank |-> Rank(s.ask, w, view, index)]
           rows(view) == IF view \in {"unready", "stalled"} THEN s.rows ELSE Append(s.rows, row(view))
<1>1. PICK view \in Views : scan' = [scan EXCEPT ![r] = [s EXCEPT !.left = Tail(@), !.rows = rows(view)]]
  BY DEF Look, RankedInv
<1>2. s \in Scans /\ s.left # <<>> /\ UNCHANGED <<cursor, first, vars>> /\ s # NoScan
  BY DEF Look, RankedInv, NoScan
<1>3. ScanInv(s) /\ pc[r] = "idle"
  BY <1>2 DEF RankedInv
<1> DEFINE t == [s EXCEPT !.left = Tail(@), !.rows = rows(view)]
<1>4. t \in Scans /\ ScanInv(t)
  <2>1. CASE view \in {"unready", "stalled"}
    BY <1>2, <1>3, <2>1, CandidateAsked
  <2>2. CASE view \notin {"unready", "stalled"}
    <3> DEFINE c == row(view)
    <3>1. BusyScore(view) \in Nat
      BY <2>2, RankingAssumption DEF BusyScore, AllViews
    <3>2. w \in Workers /\ s.left \in Seq(Workers)
      BY <1>2, HeadTailProperties DEF Scans
    <3>3. active[w] \in Nat /\ depth[w] \in Nat
      BY <3>2 DEF RankedInv, TypeOK
    <3>4. index \in Nat
      <4>1. Len(s.left) <= Len(Route(s)) /\ s.turn \in Nat /\ Len(s.left) \in Nat
        BY <1>2, <1>3, <3>2 DEF ScanInv, Scans
      <4>2. Len(Ordered(s.ask)) = Len(Route(s)) /\ Len(Route(s)) \in Nat
        BY <4>1, RouteIs
      <4> HIDE DEF s
      <4> QED
        BY <4>1, <4>2
    <3> DEFINE last == IF w = s.ask.prefer THEN 0 ELSE 1
    <3>5. c.rank = <<BusyScore(view), active[w], depth[w], last, index>>
      BY DEF Rank
    <3>6. c.worker = w /\ c.load = <<BusyScore(view), active[w], depth[w]>>
      OBVIOUS
    <3>7. s.ask.prefer = None => last = 1
      BY <3>2, RankingAssumption
    <3>8. last \in Nat
      OBVIOUS
    <3>9. c = [worker |-> c.worker, load |-> c.load, rank |-> c.rank]
      OBVIOUS
    <3>10. rows(view) = Append(s.rows, c)
      BY <2>2
    <3> HIDE DEF c, last, s, w, index, row, rows
    <3>11. c \in Row
      BY <3>1, <3>2, <3>3, <3>4, <3>5, <3>6, <3>8, <3>9 DEF Row, Ranks, Loads
    <3>12. c.load = <<c.rank[1], c.rank[2], c.rank[3]>> /\ c.rank[4] = last /\ c.rank[5] = index
      BY <3>5, <3>6
    <3>13. c.rank[5] = Len(Ordered(s.ask)) - Len(s.left) /\ c.worker = Head(s.left)
      BY <3>6, <3>12 DEF w, index
    <3> QED
      BY <1>2, <1>3, <3>7, <3>10, <3>11, <3>12, <3>13, CandidateAsked
  <2> QED
    BY <2>1, <2>2
<1> HIDE DEF rows
<1>5. scan' = [scan EXCEPT ![r] = t]
  BY <1>1
<1> HIDE DEF t
<1>6. scan' \in [Requests -> Scans] /\ scan'[r] = t /\ \A q \in Requests \ {r} : scan'[q] = scan[q]
  BY <1>4, <1>5 DEF RankedInv
<1>7. pc' = pc /\ UNCHANGED vars
  BY <1>2 DEF vars, threadVars
<1>8. \A q \in Requests : scan'[q] # NoScan => pc'[q] = "idle" /\ ScanInv(scan'[q])
  BY <1>3, <1>4, <1>6, <1>7, OthersKept DEF ScanKept
<1>9. TypeOK'
  BY <1>7, TypeStep DEF Next, RankedInv
<1>10. /\ cursor' \in 0..Wheel - 1
       /\ first' \in [0..Wheel - 1 -> Workers \union {None}] /\ FirstInv'
  BY <1>2 DEF RankedInv, FirstInv
<1> QED
  BY <1>2, <1>6, <1>7, <1>8, <1>9, <1>10 DEF RankedInv

\* What is left to try is other workers.
LEMMA TailOfList ==
  ASSUME NEW l, Once(l), l # <<>>
  PROVE  /\ Head(l) \in Workers
         /\ ToSet(Tail(l)) \in SUBSET (Workers \ {Head(l)})
         /\ ToSet(Tail(SubSeq(l, 1, 1))) \in SUBSET (Workers \ {Head(l)})
<1>1. l \in Seq(Workers) /\ Len(l) \in Nat /\ Len(l) # 0 /\ \A i, j \in 1..Len(l) : i < j => l[i] # l[j]
  BY EmptySeq DEF Once
<1>2. /\ Head(l) \in Workers /\ Head(l) = l[1]
      /\ Tail(l) \in Seq(Workers) /\ Len(Tail(l)) = Len(l) - 1
      /\ \A i \in 1..Len(Tail(l)) : Tail(l)[i] = l[i + 1]
  BY <1>1, HeadTailProperties
<1>3. ToSet(Tail(l)) \in SUBSET (Workers \ {Head(l)})
  <2>1. ASSUME NEW i \in 1..Len(l) - 1
        PROVE  Tail(l)[i] \in Workers \ {Head(l)}
    <3>1. i + 1 \in 1..Len(l) /\ 1 \in 1..Len(l) /\ 1 < i + 1
      BY <1>1
    <3>2. Tail(l)[i] = l[i + 1] /\ l[1] # l[i + 1] /\ l[i + 1] \in Workers
      BY <1>1, <1>2, <3>1
    <3> QED
      BY <1>2, <3>2
  <2>2. DOMAIN Tail(l) = 1..Len(l) - 1
    BY <1>2
  <2> QED
    BY <2>1, <2>2 DEF ToSet
<1>4. ToSet(Tail(SubSeq(l, 1, 1))) = {}
  <2> DEFINE t == SubSeq(l, 1, 1)
  <2>1. t \in Seq(Workers) /\ Len(t) = 1
    BY <1>1, SubSeqProperties
  <2> HIDE DEF t
  <2>2. t # <<>>
    <3>1. Len(<<>>) = 0
      BY EmptySeq
    <3>2. t = <<>> => Len(t) = Len(<<>>)
      OBVIOUS
    <3> QED
      BY <2>1, <3>1, <3>2
  <2>3. Tail(t) \in Seq(Workers) /\ Len(Tail(t)) = 0
    BY <2>1, <2>2, HeadTailProperties
  <2>4. DOMAIN Tail(t) = {}
    <3>1. DOMAIN Tail(t) = 1..Len(Tail(t))
      BY <2>3, LenProperties
    <3>2. 1..Len(Tail(t)) = 1..0
      BY <2>3
    <3> QED
      BY <3>1, <3>2
  <2> QED
    BY <2>4 DEF ToSet, t
<1> QED
  BY <1>2, <1>3, <1>4

LEMMA EndStep ==
  ASSUME RankedInv, NEW r \in Requests, EndRanking(r)
  PROVE  /\ RankedInv' /\ (Arrive(r) \/ ArriveUnserved(r))
         /\ \A i, j \in DOMAIN scan[r].rows :
              worker'[r] = scan[r].rows[i].worker => ~Less(scan[r].rows[j].load, scan[r].rows[i].load)
<1> DEFINE s == scan[r]
           list == List(s)
           tried == IF s.ask.fallback THEN list ELSE SubSeq(list, 1, 1)
<1>1. /\ s # NoScan /\ s.left = <<>> /\ scan' = [scan EXCEPT ![r] = NoScan] /\ UNCHANGED cursor
      /\ \/ list = <<>> /\ ArriveUnserved(r) /\ UNCHANGED <<order, first>>
         \/ /\ list # <<>>
            /\ inflight' = inflight + 1
            /\ Goto(r, "acquire")
            /\ worker' = [worker EXCEPT ![r] = Head(list)]
            /\ fallbacks' = [fallbacks EXCEPT ![r] = ToSet(Tail(tried))]
            /\ UNCHANGED <<active, depth, expired>>
            /\ first' = IF Cold(s.ask) /\ Alike(s) THEN [first EXCEPT ![s.turn] = Head(list)] ELSE first
  BY DEF EndRanking, List
<1>2. s \in Scans /\ pc[r] = "idle" /\ ScanInv(s)
  BY <1>1 DEF RankedInv
<1>3. Once(list) /\ Len(list) = Len(s.rows)
  BY <1>2, ListIs
<1>4. list # <<>> => Head(list) \in Workers /\ ToSet(Tail(tried)) \in SUBSET (Workers \ {Head(list)})
  BY <1>3, TailOfList
<1> HIDE DEF s, list, tried
<1>5. Arrive(r) \/ ArriveUnserved(r)
  <2>1. CASE list # <<>>
    <3>1. \E w \in Workers : \E rest \in SUBSET (Workers \ {w}) :
            worker' = [worker EXCEPT ![r] = w] /\ fallbacks' = [fallbacks EXCEPT ![r] = rest]
      BY <1>1, <1>4, <2>1
    <3> QED
      BY <1>1, <1>2, <2>1, <3>1 DEF Arrive
  <2> QED
    BY <1>1, <2>1
<1>6. TypeOK' /\ \A q \in Requests \ {r} : pc'[q] = pc[q]
  <2>1. [Next]_vars
    BY <1>5 DEF Next, NextWith, Step
  <2>2. TypeOK /\ TypeOK'
    BY <2>1, TypeStep DEF Next, RankedInv
  <2> QED
    BY <1>5, <2>2 DEF TypeOK, Arrive, ArriveUnserved, Goto
<1>7. /\ scan' \in [Requests -> Scans] /\ scan'[r] = NoScan
      /\ \A q \in Requests \ {r} : scan'[q] = scan[q]
  BY <1>1, NoScanIsScan DEF RankedInv
<1>8. \A q \in Requests : scan'[q] # NoScan => pc'[q] = "idle" /\ ScanInv(scan'[q])
  BY <1>6, <1>7, OthersKept DEF ScanKept
<1>9. /\ first' \in [0..Wheel - 1 -> Workers \union {None}]
      /\ FirstInv'
  <2>1. first \in [0..Wheel - 1 -> Workers \union {None}] /\ FirstInv
    BY DEF RankedInv
  <2>2. CASE first' = first
    BY <2>1, <2>2 DEF FirstInv
  <2>3. CASE list # <<>> /\ Cold(s.ask) /\ Alike(s) /\ first' = [first EXCEPT ![s.turn] = Head(list)]
    <3>1. s.ask \in Asks /\ s.turn \in 0..Wheel - 1
      BY <1>2 DEF ScanInv
    <3>2. first' \in [0..Wheel - 1 -> Workers \union {None}]
      BY <1>4, <2>1, <2>3, <3>1
    <3>3. Head(list) = Ordered(s.ask)[(s.turn % Len(Ordered(s.ask))) + 1]
      BY <1>1, <1>2, <2>3, HeadTakesTurn DEF list
    <3>4. first'[s.turn] = Head(list) /\ \A t \in 0..Wheel - 1 : t # s.turn => first'[t] = first[t]
      BY <2>1, <2>3, <3>1
    <3>5. ASSUME NEW t \in 0..Wheel - 1, first'[t] # None
          PROVE  \E ask \in Asks : Cold(ask) /\ first'[t] = Ordered(ask)[(t % Len(Ordered(ask))) + 1]
      <4>1. CASE t = s.turn
        BY <2>3, <3>1, <3>3, <3>4, <4>1
      <4>2. CASE t # s.turn
        BY <2>1, <3>4, <3>5, <4>2 DEF FirstInv
      <4> QED
        BY <4>1, <4>2
    <3> QED
      BY <3>2, <3>5 DEF FirstInv
  <2> QED
    BY <1>1, <2>2, <2>3
<1>10. ASSUME NEW i \in DOMAIN s.rows, NEW j \in DOMAIN s.rows, worker'[r] = s.rows[i].worker
       PROVE  ~Less(s.rows[j].load, s.rows[i].load)
  <2>1. DOMAIN s.rows = 1..Len(s.rows) /\ Len(s.rows) \in Nat
    BY <1>2, RowsTyped
  <2>2. list # <<>>
    <3>1. Len(s.rows) # 0
      BY <2>1
    <3> QED
      BY <1>3, <3>1
  <2>3. worker'[r] = Head(list)
    BY <1>1, <2>2 DEF RankedInv, TypeOK
  <2> QED
    BY <1>2, <1>10, <2>1, <2>2, <2>3, HeadIsLightest DEF list
<1>11. cursor' \in 0..Wheel - 1
  BY <1>1 DEF RankedInv
<1>12. RankedInv'
  BY <1>6, <1>7, <1>8, <1>9, <1>11 DEF RankedInv
<1> QED
  BY <1>5, <1>10, <1>12 DEF s

LEMMA ProceedStep ==
  ASSUME RankedInv, NEW r \in Requests, Proceed(r)
  PROVE  RankedInv' /\ Step(r, Capacity) /\ scan' = scan
<1>1. Step(r, Capacity) /\ UNCHANGED <<scan, cursor, first>>
  BY DEF Proceed, Step
<1>2. TypeOK /\ TypeOK'
  <2>1. [Next]_vars
    BY <1>1 DEF Next, NextWith
  <2> QED
    BY <2>1, TypeStep DEF Next, RankedInv
<1>3. pc[r] # "idle" /\ \A q \in Requests \ {r} : pc[q] = "idle" => pc'[q] = "idle"
  <2>1. CASE Acquire(r, Capacity) \/ TimeOut(r) \/ FinishRequest(r)
    BY <1>2, <2>1 DEF TypeOK, Acquire, TimeOut, FinishRequest, Admit, RejectFull, Enqueue, Goto, Queued
  <2>2. CASE Recheck(r, Capacity)
    BY <1>2, <2>2 DEF TypeOK, Recheck, AdmitAfterWait, WaitAgain, QueueTimeout, Goto, NotifyAllBut
  <2>3. CASE Reply(r)
    BY <1>2, <2>3 DEF TypeOK, Reply, BackendAnswers, BackendFails, StreamOpens, Goto, NotifyAllBut
  <2>4. CASE Relay(r)
    BY <1>2, <2>4 DEF TypeOK, Relay, HeadersSent, ClientGone, StreamEnds, Goto, NotifyAllBut
  <2> QED
    BY <2>1, <2>2, <2>3, <2>4 DEF Proceed
<1>4. \A q \in Requests : scan'[q] # NoScan => pc'[q] = "idle" /\ ScanInv(scan'[q])
  BY <1>1, <1>3 DEF RankedInv
<1> QED
  BY <1>1, <1>2, <1>4 DEF RankedInv, FirstInv

LEMMA RankedStep ==
  ASSUME RankedInv, [RankedNext]_rankVars
  PROVE  RankedInv' /\ [Next]_vars
<1>1. ASSUME NEW r \in Requests, BeginRanking(r) \/ Look(r) \/ EndRanking(r) \/ Proceed(r)
      PROVE  RankedInv' /\ [Next]_vars
  <2>1. CASE BeginRanking(r)
    BY <2>1, BeginStep
  <2>2. CASE Look(r)
    BY <2>2, LookStep
  <2>3. CASE EndRanking(r)
    BY <2>3, EndStep DEF Next, NextWith, Step
  <2>4. CASE Proceed(r)
    BY <2>4, ProceedStep DEF Next, NextWith
  <2> QED
    BY <1>1, <2>1, <2>2, <2>3, <2>4
<1>2. CASE UNCHANGED rankVars
  BY <1>2 DEF rankVars, vars, threadVars, RankedInv, TypeOK, FirstInv
<1> QED
  BY <1>1, <1>2 DEF RankedNext

\* Rankings in progress only concern requests that have not begun; what they have seen
\* is the candidates in the order of their route, and each turn has its own first.
THEOREM RankedInvariant == RankedSpec => []RankedInv
<1>1. RankedInit => RankedInv
  <2> SUFFICES ASSUME RankedInit PROVE RankedInv
    OBVIOUS
  <2>1. TypeOK
    BY AnyWorkerIsWorker DEF RankedInit, Init, TypeOK, Stages
  <2>2. scan \in [Requests -> Scans] /\ \A r \in Requests : scan[r] = NoScan
    BY NoScanIsScan DEF RankedInit
  <2>3. cursor \in 0..Wheel - 1
    BY RankingAssumption DEF RankedInit
  <2>4. first \in [0..Wheel - 1 -> Workers \union {None}] /\ FirstInv
    BY DEF RankedInit, FirstInv
  <2> QED
    BY <2>1, <2>2, <2>3, <2>4 DEF RankedInv
<1>2. RankedInv /\ [RankedNext]_rankVars => RankedInv'
  BY RankedStep
<1> QED
  BY <1>1, <1>2, PTL DEF RankedSpec

\* Whatever the ranking sees and in whatever order requests come and go meanwhile, the
\* candidates it yields are ones admission allows for: RankedAdmission implements
\* WorkerAdmission, and all that is proved of admission holds with the ranking too.
THEOREM RankingImplementsAdmission == RankedSpec => AnyOrder
<1>1. RankedInit => Init
  BY DEF RankedInit
<1>2. RankedInv /\ [RankedNext]_rankVars => [Next]_vars
  BY RankedStep
<1> QED
  BY <1>1, <1>2, RankedInvariant, PTL DEF RankedSpec, AnyOrder, Spec

\* The worker that is tried first had no heavier load than any other that was ranked.
THEOREM LightestIsFirst == RankedSpec => LightestFirst
<1> DEFINE A(r) == scan[r] # NoScan /\ scan'[r] = NoScan =>
                     \A i, j \in DOMAIN scan[r].rows :
                       LET a == scan[r].rows[i]  b == scan[r].rows[j] IN
                       worker'[r] = a.worker => ~Less(b.load, a.load)
<1>1. ASSUME RankedInv, [RankedNext]_rankVars, NEW r \in Requests
      PROVE  A(r)
  <2>1. CASE UNCHANGED rankVars
    BY <2>1 DEF rankVars
  <2>2. ASSUME NEW q \in Requests, q # r, BeginRanking(q) \/ Look(q) \/ EndRanking(q) \/ Proceed(q)
        PROVE  scan'[r] = scan[r]
    BY <1>1, <2>2 DEF BeginRanking, Look, EndRanking, Proceed, RankedInv
  <2>3. CASE BeginRanking(r) \/ Proceed(r)
    BY <2>3 DEF BeginRanking, Proceed
  <2>4. CASE EndRanking(r)
    BY <1>1, <2>4, EndStep
  <2>5. CASE Look(r)
    <3> SUFFICES ASSUME scan'[r] = NoScan, NEW i \in DOMAIN scan[r].rows PROVE FALSE
      OBVIOUS
    <3>1. scan[r] \in Scans /\ scan'[r].rows = <<>>
      BY <1>1 DEF RankedInv, NoScan
    <3>2. PICK rows : /\ scan' = [scan EXCEPT ![r] = [scan[r] EXCEPT !.left = Tail(@), !.rows = rows]]
                      /\ rows = scan[r].rows \/ \E row : rows = Append(scan[r].rows, row)
      <4>1. PICK view \in Views : scan' = [scan EXCEPT ![r].left = Tail(@), ![r].rows =
              IF view \in {"unready", "stalled"} THEN @
              ELSE Append(@, [worker |-> Head(scan[r].left),
                              load |-> <<BusyScore(view), active[Head(scan[r].left)], depth[Head(scan[r].left)]>>,
                              rank |-> Rank(scan[r].ask, Head(scan[r].left), view,
                                            Len(Ordered(scan[r].ask)) - Len(scan[r].left))])]
        BY <2>5 DEF Look
      <4> QED
        BY <1>1, <4>1 DEF RankedInv
    <3>5. scan'[r].rows = rows
      <4>1. scan'[r] = [scan[r] EXCEPT !.left = Tail(@), !.rows = rows]
        BY <1>1, <3>2 DEF RankedInv
      <4>2. scan'[r] = [ask |-> scan[r].ask, turn |-> scan[r].turn, left |-> Tail(scan[r].left), rows |-> rows]
        BY <3>1, <4>1, ScanFields
      <4> QED
        BY <4>2
    <3>3. scan[r].rows \in Seq(Row)
      BY <3>1 DEF Scans
    <3>4. Len(scan[r].rows) = 0
      BY <3>1, <3>2, <3>3, <3>5, EmptySeq, AppendProperties
    <3> QED
      BY <3>3, <3>4, LenProperties
  <2> QED
    BY <1>1, <2>1, <2>2, <2>3, <2>4, <2>5 DEF RankedNext
<1>2. RankedInv /\ [RankedNext]_rankVars => [\A r \in Requests : A(r)]_rankVars
  BY <1>1
<1> QED
  BY <1>2, RankedInvariant, PTL DEF RankedSpec, LightestFirst

\* Requests of one model have the same candidates in the same order, so two turns with
\* the same first worker differ by a multiple of their number: among workers that look
\* alike each is first as often as any other.
THEOREM EqualsTakeTurns == RankedSpec => []EqualScoresRotate
<1>1. RankedInv => EqualScoresRotate
  <2> SUFFICES ASSUME RankedInv, NEW i \in 0..Wheel - 1, NEW j \in 0..Wheel - 1,
                      first[i] # None, first[i] = first[j]
               PROVE  LET n == Cardinality(Fleet(ModelOf[first[i]])) IN i % n = j % n
    BY DEF EqualScoresRotate
  <2>1. PICK ask \in Asks : Cold(ask) /\ first[i] = Ordered(ask)[(i % Len(Ordered(ask))) + 1]
    BY DEF RankedInv, FirstInv
  <2>2. PICK other \in Asks : Cold(other) /\ first[j] = Ordered(other)[(j % Len(Ordered(other))) + 1]
    BY DEF RankedInv, FirstInv
  <2> DEFINE s == Ordered(ask)
             n == Len(s)
             x == i % n
             y == j % n
  <2>3. n \in Nat /\ n > 1 /\ Once(s)
    BY <2>1, OrderedIs, LenProperties DEF Cold, Once
  <2>4. s = Listed(Fleet(ask.model), None) /\ n = Cardinality(Fleet(ask.model)) /\ \A k \in 1..n : ModelOf[s[k]] = ask.model
    BY <2>1, OrderedIs DEF Cold, Fleet
  <2>5. /\ Ordered(other) = Listed(Fleet(other.model), None) /\ Len(Ordered(other)) \in Nat /\ Len(Ordered(other)) > 1
        /\ \A k \in 1..Len(Ordered(other)) : ModelOf[Ordered(other)[k]] = other.model
    BY <2>2, OrderedIs, LenProperties DEF Cold, Fleet, Once
  <2> HIDE DEF s, n
  <2>6. x \in 0..n - 1 /\ y \in 0..n - 1 /\ x + 1 \in 1..n /\ y + 1 \in 1..n
    BY <2>3
  <2>7. ModelOf[first[i]] = ask.model /\ first[i] = s[x + 1]
    BY <2>1, <2>4, <2>6 DEF s, n
  <2>8. ModelOf[first[j]] = other.model
    <3> DEFINE m == Len(Ordered(other))
    <3>1. m \in Nat /\ m > 1
      BY <2>5
    <3> HIDE DEF m
    <3>2. (j % m) + 1 \in 1..m
      BY <3>1
    <3> QED
      BY <2>2, <2>5, <3>2 DEF m
  <2>9. Ordered(other) = s
    BY <2>4, <2>5, <2>7, <2>8
  <2>10. first[j] = s[y + 1]
    BY <2>2, <2>9 DEF n
  <2> HIDE DEF x, y
  <2>11. x = y
    <3>1. s[x + 1] = s[y + 1]
      BY <2>7, <2>10
    <3>2. ~(x + 1 < y + 1) /\ ~(y + 1 < x + 1)
      BY <2>3, <2>6, <3>1 DEF Once, n
    <3> QED
      BY <2>6, <3>2
  <2> QED
    BY <2>4, <2>7, <2>11 DEF x, y
<1> QED
  BY <1>1, RankedInvariant, PTL
=============================================================================
