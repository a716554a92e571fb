---------------------------- MODULE RegistryLease ----------------------------
(***************************************************************************)
(* The lease file router-store/registry-leases.json that several routers   *)
(* share: acquire_registry_lease, release_registry_lease and the pruning   *)
(* of expired leases.  A router takes the lease of a cache key before it   *)
(* builds, hydrates or restores that key, keeps it for as long as the work *)
(* takes, never renews it and never looks at it again before it gives it   *)
(* back in a finally clause.                                               *)
(*                                                                         *)
(* Each read-modify-write of the file happens under flock and is one       *)
(* action.  The clock is read before the flock is asked for, which is why  *)
(* asking is a stage of its own.  A router does one cache operation at a   *)
(* time (CacheRouterState.lock), so its lease is known by its owner id.    *)
(*                                                                         *)
(* As in WorkerAdmission, an operator named Faulty... is wrong on purpose. *)
(***************************************************************************)
EXTENDS Naturals

CONSTANTS
  Routers,       \* router daemons sharing one cache root
  Keys,          \* cache_key_hash values
  TTL,           \* registry_lease_ttl_seconds
  Horizon,       \* bound: the clock stops here
  MaxRestarts    \* bound: restarts of one router

ASSUME LeaseAssumption ==
  /\ TTL \in Nat \ {0}
  /\ Horizon \in Nat
  /\ MaxRestarts \in Nat

VARIABLES
  leases,        \* the rows of the lease file
  now,           \* time.time(), the same on every router
  stage,         \* "idle", "asking" for a lease, or "working" under one
  key,           \* the cache key a router's operation is about
  stamp,         \* the time a router read before it asked
  restarts       \* how often a router has come back

vars == <<leases, now, stage, key, stamp, restarts>>

\* registry_lease_owner_id: a fresh opaque id at every start.
Owner(r) == <<r, restarts[r]>>

Lease(r) == [owner |-> Owner(r), key |-> key[r], expires |-> stamp[r] + TTL]

\* The rows prune_expired_registry_leases_unlocked keeps.
Unexpired(time) == {l \in leases : l.expires > time}

\* Another owner has the key.
Taken(r) == \E l \in Unexpired(stamp[r]) : l.key = key[r] /\ l.owner # Owner(r)

Init ==
  /\ leases = {}
  /\ now = 0
  /\ stage = [r \in Routers |-> "idle"]
  /\ key \in [Routers -> Keys]
  /\ stamp = [r \in Routers |-> 0]
  /\ restarts = [r \in Routers |-> 0]

\* A cache operation begins: now_unix = time.time(), then wait for the flock.
Ask(r) ==
  /\ stage[r] = "idle"
  /\ stage' = [stage EXCEPT ![r] = "asking"]
  /\ \E k \in Keys : key' = [key EXCEPT ![r] = k]
  /\ stamp' = [stamp EXCEPT ![r] = now]
  /\ UNCHANGED <<leases, now, restarts>>

Grant(r) ==
  /\ stage[r] = "asking"
  /\ ~Taken(r)
  /\ leases' = Unexpired(stamp[r]) \union {Lease(r)}
  /\ stage' = [stage EXCEPT ![r] = "working"]
  /\ UNCHANGED <<now, key, stamp, restarts>>

\* RegistryLeaseConflictError, a 503 for the client; what was pruned is saved.
Refuse(r) ==
  /\ stage[r] = "asking"
  /\ Taken(r)
  /\ leases' = Unexpired(stamp[r])
  /\ stage' = [stage EXCEPT ![r] = "idle"]
  /\ UNCHANGED <<now, key, stamp, restarts>>

\* Removes the lease of the key, whoever has it by now.
FaultyReleaseByKey(r) ==
  /\ stage[r] = "working"
  /\ leases' = {l \in leases : l.key # key[r]}
  /\ stage' = [stage EXCEPT ![r] = "idle"]
  /\ UNCHANGED <<now, key, stamp, restarts>>

\* Only a success gives the lease back.
FaultyRelease(r) ==
  /\ stage[r] = "working"
  /\ \/ leases' = {l \in leases : l.owner # Owner(r)}
     \/ UNCHANGED leases
  /\ stage' = [stage EXCEPT ![r] = "idle"]
  /\ UNCHANGED <<now, key, stamp, restarts>>

\* The finally clause: on success and on every error.  No pruning here.
Release(r) ==
  /\ stage[r] = "working"
  /\ leases' = {l \in leases : l.owner # Owner(r)}
  /\ stage' = [stage EXCEPT ![r] = "idle"]
  /\ UNCHANGED <<now, key, stamp, restarts>>

\* Prunes by a clock that runs ahead.
FaultyPrune == leases' = Unexpired(now + 1) /\ UNCHANGED <<now, stage, key, stamp, restarts>>

\* Any router asked for its status prunes the file (load_registry_leases).
Prune ==
  /\ leases' = Unexpired(now)
  /\ UNCHANGED <<now, stage, key, stamp, restarts>>

\* The process dies, whatever it was doing, and starts again.
Restart(r) ==
  /\ restarts[r] < MaxRestarts
  /\ restarts' = [restarts EXCEPT ![r] = @ + 1]
  /\ stage' = [stage EXCEPT ![r] = "idle"]
  /\ UNCHANGED <<leases, now, key, stamp>>

Tick ==
  /\ now < Horizon
  /\ now' = now + 1
  /\ UNCHANGED <<leases, stage, key, stamp, restarts>>

Next ==
  \/ \E r \in Routers : Ask(r) \/ Grant(r) \/ Refuse(r) \/ Release(r) \/ Restart(r)
  \/ Prune
  \/ Tick

Spec == Init /\ [][Next]_vars

-----------------------------------------------------------------------------
(* Properties *)

Owners == Routers \X Nat
LeaseRows == [owner : Owners, key : Keys, expires : Nat]

TypeOK ==
  /\ leases \subseteq LeaseRows
  /\ now \in Nat
  /\ stage \in [Routers -> {"idle", "asking", "working"}]
  /\ key \in [Routers -> Keys]
  /\ stamp \in [Routers -> Nat]
  /\ restarts \in [Routers -> Nat]

\* The file never names two owners for one key, expired rows included, although
\* each router decides with a clock reading that may be old by the time it writes.
OneOwnerPerKey == \A l, m \in leases : l.key = m.key => l.owner = m.owner

Current(r) == stage[r] = "working" /\ now < stamp[r] + TTL

\* Two routers never work on one key while both of their leases run.
RunningLeasesExclude ==
  \A r, q \in Routers : Current(r) /\ Current(q) /\ key[r] = key[q] => r = q

\* Neither in the file nor at work do two routers have one key.
LeasesExclude == OneOwnerPerKey /\ RunningLeasesExclude

\* A live router leaves no lease behind: what the file holds in its name is the
\* lease it works under.
NothingLeftBehind ==
  \A l \in leases, r \in Routers :
    l.owner = Owner(r) => stage[r] = "working" /\ l = Lease(r)

\* A running lease leaves the file only because its own router gives it back:
\* no other router's pruning, refusal or restart takes it away.
OnlyOwnerEnds ==
  [][\A l \in leases \ leases' :
       l.expires <= now \/ \E r \in Routers : l.owner = Owner(r) /\ stage[r] = "working" /\ stage'[r] = "idle"]_vars

\* Two routers never build, hydrate or restore one key at the same time.
NoDuplicateWork ==
  \A r, q \in Routers :
    stage[r] = "working" /\ stage[q] = "working" /\ key[r] = key[q] => r = q
=============================================================================
