-------------------------- MODULE ReloadedAdmission --------------------------
(***************************************************************************)
(* The admission queue (module WorkerAdmission) while the inventory is     *)
(* reloaded.  maybe_reload_inventory copies the counters in one critical   *)
(* section of the scheduler lock, swaps the workers under another lock,    *)
(* and puts new counters, made from its copies, in a third; requests take  *)
(* and return slots in between.                                            *)
(*                                                                         *)
(* Any thread may be the one that reloads: the interval is checked without *)
(* a lock, so more than one may.  Which file they have read is the subject *)
(* of module Inventory; here it is any non-empty set of workers, with any  *)
(* of Capacities.                                                          *)
(*                                                                         *)
(* A worker that stays may change its capacity.  The counters belong to    *)
(* worker ids, the capacity to the worker objects a request has ranked:    *)
(* it goes by the old one until it ends, in the queue or with the backend. *)
(***************************************************************************)
EXTENDS WorkerAdmission

CONSTANTS
  Capacities,    \* the worker capacities an inventory may give
  Reloaders,     \* threads that may be in maybe_reload_inventory
  MaxReloads     \* bound: reloads of one run

ASSUME ReloadAssumption ==
  /\ Capacity \in Capacities
  /\ Capacities \subseteq [Workers -> Nat \ {0}]
  /\ MaxReloads \in Nat

VARIABLES
  installed,     \* the ids of self.workers
  offered,       \* the capacities of self.workers
  ranked,        \* those of the worker objects a request has ranked
  reload,        \* what a reloading thread is about to do, with its locals
  reloads,       \* reloads begun
  disturbed      \* history: workers whose counters a reload may have got wrong

reloadVars == <<installed, offered, ranked, reload, reloads, disturbed>>
allVars == <<vars, reloadVars>>

\* self.worker_active_requests.get(w, 0) for ids that are not in the table
NoCounts == [w \in Workers |-> 0]

NoReload == [at |-> "idle", workers |-> {}, capacity |-> Capacity,
             active |-> NoCounts, depth |-> NoCounts]

ReloadInit ==
  /\ Init
  /\ installed = Workers
  /\ offered = Capacity
  /\ ranked = [r \in Requests |-> Capacity]
  /\ reload = [t \in Reloaders |-> NoReload]
  /\ reloads = 0
  /\ disturbed = {}

-----------------------------------------------------------------------------
(* maybe_reload_inventory *)

\* The fingerprint differs and the file holds a valid inventory.
LoadWorkers(t) ==
  /\ reload[t].at = "idle"
  /\ reloads < MaxReloads
  /\ reloads' = reloads + 1
  /\ \E new \in SUBSET Workers \ {{}}, capacity \in Capacities :
       reload' = [reload EXCEPT ![t] = [at |-> "copy", workers |-> new, capacity |-> capacity,
                                        active |-> NoCounts, depth |-> NoCounts]]
  /\ UNCHANGED <<vars, installed, offered, ranked, disturbed>>

\* old_active and old_queued, under the scheduler lock.
CopyCounts(t) ==
  /\ reload[t].at = "copy"
  /\ reload' = [reload EXCEPT ![t] = [@ EXCEPT !.at = "swap", !.active = active, !.depth = depth]]
  /\ UNCHANGED <<vars, installed, offered, ranked, reloads, disturbed>>

\* self.workers and what hangs on it, under the workers lock.
SwapWorkers(t) ==
  /\ reload[t].at = "swap"
  /\ reload' = [reload EXCEPT ![t].at = "rebuild"]
  /\ installed' = reload[t].workers
  /\ offered' = reload[t].capacity
  /\ UNCHANGED <<vars, ranked, reloads, disturbed>>

\* What the copied counts become in the new table.
Kept(t, counts) == [w \in Workers |-> IF w \in reload[t].workers THEN counts[w] ELSE 0]

\* The new table wakes nobody up.
FaultyNotifyAll == UNCHANGED pc

NotifyAll == pc' = [q \in Requests |-> IF pc[q] = "parked" THEN "woken" ELSE pc[q]]

\* A dropped worker loses the requests it still has.
Dropped(t) == {w \in Workers \ reload[t].workers : Holders(w) \union Waiters(w) # {}}

\* Starts the new table from nothing.
FaultyFreshCounts(t) ==
  /\ reload[t].at = "rebuild"
  /\ reload' = [reload EXCEPT ![t] = NoReload]
  /\ active' = NoCounts
  /\ depth' = NoCounts
  /\ NotifyAll
  /\ disturbed' = disturbed \union Dropped(t)
  /\ UNCHANGED <<inflight, worker, fallbacks, expired, installed, offered, ranked, reloads>>

\* Both tables, and notify_all, in one critical section of the scheduler lock.
RebuildCounts(t) ==
  /\ reload[t].at = "rebuild"
  /\ reload' = [reload EXCEPT ![t] = NoReload]
  /\ active' = Kept(t, reload[t].active)
  /\ depth' = Kept(t, reload[t].depth)
  /\ NotifyAll
  /\ disturbed' = disturbed \union Dropped(t)
  /\ UNCHANGED <<inflight, worker, fallbacks, expired, installed, offered, ranked, reloads>>

-----------------------------------------------------------------------------
(* Requests meanwhile *)

\* candidate_workers ranks a snapshot of the installed workers; the thread keeps these
\* objects to its end.
RankedFromInstalled(r) ==
  IF pc[r] = "idle" /\ pc'[r] = "acquire"
  THEN /\ worker'[r] \in installed /\ fallbacks'[r] \subseteq installed
       /\ ranked' = [ranked EXCEPT ![r] = offered]
  ELSE ranked' = [ranked EXCEPT ![r] = IF pc'[r] = "idle" THEN Capacity ELSE @]

\* Workers whose requests change while a reload has copied counts in its hands.
Overtaken ==
  IF \E t \in Reloaders : reload[t].at \in {"swap", "rebuild"}
  THEN {w \in Workers : Holders(w)' # Holders(w) \/ Waiters(w)' # Waiters(w)}
  ELSE {}

Meanwhile(r) ==
  /\ RankedFromInstalled(r)
  /\ disturbed' = disturbed \union Overtaken
  /\ UNCHANGED <<installed, offered, reload, reloads>>

Request(r) == Step(r, ranked[r]) /\ Meanwhile(r)

Reload(t) == LoadWorkers(t) \/ CopyCounts(t) \/ SwapWorkers(t) \/ RebuildCounts(t)

ReloadNext ==
  \/ \E r \in Requests : Request(r)
  \/ \E t \in Reloaders : Reload(t)

ReloadSpec == ReloadInit /\ [][ReloadNext]_allVars

-----------------------------------------------------------------------------
(* Properties *)

ReloadTypeOK ==
  /\ TypeOK
  /\ installed \in SUBSET Workers
  /\ offered \in Capacities
  /\ ranked \in [Requests -> Capacities]
  /\ reload \in [Reloaders -> [at : {"idle", "copy", "swap", "rebuild"}, workers : SUBSET Workers,
                               capacity : Capacities,
                               active : [Workers -> Nat], depth : [Workers -> Nat]]]
  /\ reloads \in Nat
  /\ disturbed \subseteq Workers

\* A reload leaves the counters of a worker right unless requests came or went
\* while it had copies in its hands, or it dropped a worker that still had some.
CountsKept ==
  \A w \in Workers \ disturbed :
    active[w] = Cardinality(Holders(w)) /\ depth[w] = Cardinality(Waiters(w))

\* The requests that own a slot of w and have ranked it with a capacity of at most n.
HoldersWithin(w, n) == {r \in Holders(w) : ranked[r][w] <= n}

\* A lowered capacity takes no slot away, but it counts for whoever has ranked the
\* worker since: of the requests that know a capacity of n or less, n at most own a
\* slot, however many got one of theirs when there were more.
CapacityHonoured ==
  QueueLimit > 0 =>
    \A w \in Workers \ disturbed : \A r \in Holders(w) :
      Cardinality(HoldersWithin(w, ranked[r][w])) <= ranked[r][w]

\* Even counters that a reload got wrong stay below some capacity an inventory may give the
\* worker.
CountersStayBounded ==
  QueueLimit > 0 => \A w \in Workers : \E capacity \in Capacities : active[w] <= capacity[w]

\* Nobody is left asleep while the counter is below the capacity it goes by.
AsleepOnlyWhenFull ==
  \A r \in Requests : pc[r] = "parked" => ~SlotFree(worker[r], ranked[r])

\* Reloads let nobody in above the capacity it goes by, line nobody up above the queue
\* limit, and leave nobody asleep.
ReloadedOverOrUnder ==
  CapacityHonoured /\ CountersStayBounded /\ QueueBounded /\ AsleepOnlyWhenFull
=============================================================================
