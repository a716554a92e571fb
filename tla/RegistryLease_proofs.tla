------------------------- MODULE RegistryLease_proofs -------------------------
(***************************************************************************)
(* For any number of routers, keys and restarts and any lease time: while  *)
(* leases run, two routers never work on one key.                          *)
(*                                                                         *)
(* That two running leases exclude each other is a fact about the file and *)
(* about what the routers believe.  LeaseInv relates the two: a router     *)
(* whose lease still runs finds it in the file (every removal is by expiry *)
(* or by its owner), and the file has one owner per key.                   *)
(***************************************************************************)
EXTENDS RegistryLease, TLAPS

\* A clock reading is never ahead of the clock.
StampsPast == \A r \in Routers : stamp[r] <= now

\* A running lease is in the file.
RunningIsFiled == \A r \in Routers : Current(r) => Lease(r) \in leases

\* A row of a live incarnation is the lease it works under; nothing is filed
\* under an incarnation yet to come.
FiledIsKnown ==
  \A l \in leases, r \in Routers :
    l.owner[1] = r => /\ l.owner[2] <= restarts[r]
                      /\ l.owner = Owner(r) => stage[r] = "working" /\ l = Lease(r)

LeaseInv == TypeOK /\ StampsPast /\ OneOwnerPerKey /\ RunningIsFiled /\ FiledIsKnown

LEMMA OwnersDiffer ==
  ASSUME NEW r, NEW q, Owner(r) = Owner(q)
  PROVE  r = q
  BY DEF Owner

LEMMA LeaseTyped ==
  ASSUME TypeOK, NEW r \in Routers
  PROVE  Lease(r) \in LeaseRows
<1>1. stamp[r] + TTL \in Nat /\ restarts[r] \in Nat /\ key[r] \in Keys
  BY LeaseAssumption DEF TypeOK
<1>2. Owner(r) \in Owners
  BY <1>1 DEF Owner, Owners
<1>3. QED
  BY <1>1, <1>2 DEF Lease, LeaseRows

\* One step, action by action.
LEMMA TypeStep ==
  ASSUME TypeOK, [Next]_vars
  PROVE  TypeOK'
<1>1. ASSUME NEW r \in Routers, Ask(r) PROVE TypeOK'
  BY <1>1 DEF TypeOK, Ask
<1>2. ASSUME NEW r \in Routers, Grant(r) PROVE TypeOK'
  BY <1>2, LeaseTyped DEF TypeOK, Grant, Unexpired
<1>3. ASSUME NEW r \in Routers, Refuse(r) \/ Release(r) \/ Restart(r) PROVE TypeOK'
  BY <1>3 DEF TypeOK, Refuse, Release, Restart, Unexpired
<1>4. CASE Prune \/ Tick
  BY <1>4 DEF TypeOK, Prune, Tick, Unexpired
<1>5. CASE UNCHANGED vars
  BY <1>5 DEF TypeOK, vars
<1>6. QED
  BY <1>1, <1>2, <1>3, <1>4, <1>5 DEF Next

LEMMA StampsStep ==
  ASSUME TypeOK, StampsPast, [Next]_vars
  PROVE  StampsPast'
<1>1. ASSUME NEW r \in Routers, Ask(r) PROVE StampsPast'
  BY <1>1 DEF TypeOK, StampsPast, Ask
<1>2. ASSUME NEW r \in Routers, Grant(r) \/ Refuse(r) \/ Release(r) \/ Restart(r)
      PROVE  StampsPast'
  BY <1>2 DEF StampsPast, Grant, Refuse, Release, Restart
<1>3. CASE Prune \/ UNCHANGED vars
  BY <1>3 DEF StampsPast, Prune, vars
<1>4. CASE Tick
  BY <1>4 DEF TypeOK, StampsPast, Tick
<1>5. QED
  BY <1>1, <1>2, <1>3, <1>4 DEF Next

LEMMA OneOwnerStep ==
  ASSUME TypeOK, OneOwnerPerKey, [Next]_vars
  PROVE  OneOwnerPerKey'
<1>1. ASSUME NEW r \in Routers, Grant(r) PROVE OneOwnerPerKey'
  <2>1. leases' = Unexpired(stamp[r]) \union {Lease(r)}
    BY <1>1 DEF Grant
  <2>2. \A l \in Unexpired(stamp[r]) : l.key = key[r] => l.owner = Owner(r)
    BY <1>1 DEF Grant, Taken
  <2>3. Lease(r).key = key[r] /\ Lease(r).owner = Owner(r)
    BY DEF Lease
  <2>4. Unexpired(stamp[r]) \subseteq leases
    BY DEF Unexpired
  <2>5. QED
    BY <2>1, <2>2, <2>3, <2>4 DEF OneOwnerPerKey
<1>2. ASSUME leases' \subseteq leases PROVE OneOwnerPerKey'
  BY <1>2 DEF OneOwnerPerKey
<1>3. Next /\ (\A r \in Routers : ~Grant(r)) => leases' \subseteq leases
  BY DEF Next, Ask, Refuse, Release, Restart, Prune, Tick, Unexpired
<1>4. CASE UNCHANGED vars
  BY <1>2, <1>4 DEF vars
<1>5. QED
  BY <1>1, <1>2, <1>3, <1>4

\* Pruning by a clock that is not ahead keeps every running lease.
LEMMA PruningKeepsRunning ==
  ASSUME TypeOK, RunningIsFiled, NEW time \in Nat, time <= now, NEW q \in Routers, Current(q)
  PROVE  Lease(q) \in Unexpired(time)
<1>1. Lease(q) \in leases
  BY DEF RunningIsFiled
<1>2. Lease(q).expires = stamp[q] + TTL
  BY DEF Lease
<1>3. stamp[q] + TTL > time
  BY LeaseAssumption DEF TypeOK, Current
<1>4. QED
  BY <1>1, <1>2, <1>3 DEF Unexpired

LEMMA RunningIsFiledStep ==
  ASSUME TypeOK, StampsPast, RunningIsFiled, [Next]_vars
  PROVE  RunningIsFiled'
<1>1. ASSUME NEW r \in Routers, Ask(r) \/ Restart(r) PROVE RunningIsFiled'
  <2>1. ~Current(r)' /\ leases' = leases
    BY <1>1 DEF TypeOK, Ask, Restart, Current
  <2>2. \A q \in Routers \ {r} : Current(q)' = Current(q) /\ Lease(q)' = Lease(q)
    BY <1>1 DEF TypeOK, Ask, Restart, Current, Lease, Owner
  <2>3. QED
    BY <2>1, <2>2 DEF RunningIsFiled
<1>2. ASSUME NEW r \in Routers, Grant(r) \/ Refuse(r) PROVE RunningIsFiled'
  <2>1. \A q \in Routers : Lease(q)' = Lease(q)
    BY <1>2 DEF Grant, Refuse, Lease, Owner
  <2>2. \A q \in Routers \ {r} : Current(q)' = Current(q)
    BY <1>2 DEF TypeOK, Grant, Refuse, Current
  <2>3. stamp[r] \in Nat /\ stamp[r] <= now
    BY DEF TypeOK, StampsPast
  <2>4. \A q \in Routers : Current(q) => Lease(q) \in leases'
    BY <1>2, <2>3, PruningKeepsRunning DEF Grant, Refuse
  <2>5. Current(r)' => Lease(r) \in leases'
    BY <1>2 DEF TypeOK, Grant, Refuse, Current
  <2>6. QED
    BY <2>1, <2>2, <2>4, <2>5 DEF RunningIsFiled
<1>3. ASSUME NEW r \in Routers, Release(r) PROVE RunningIsFiled'
  <2>1. ~Current(r)'
    BY <1>3 DEF TypeOK, Release, Current
  <2>2. \A q \in Routers \ {r} : Current(q)' = Current(q) /\ Lease(q)' = Lease(q)
    BY <1>3 DEF TypeOK, Release, Current, Lease, Owner
  <2>3. \A q \in Routers \ {r} : Lease(q).owner # Owner(r)
    BY OwnersDiffer DEF Lease
  <2>4. QED
    BY <1>3, <2>1, <2>2, <2>3 DEF RunningIsFiled, Release
<1>4. CASE Prune
  <2>1. \A q \in Routers : Current(q)' = Current(q) /\ Lease(q)' = Lease(q)
    BY <1>4 DEF Prune, Current, Lease, Owner
  <2>2. \A q \in Routers : Current(q) => Lease(q) \in Unexpired(now)
    BY PruningKeepsRunning DEF TypeOK
  <2>3. QED
    BY <1>4, <2>1, <2>2 DEF RunningIsFiled, Prune
<1>5. CASE Tick
  <2>1. \A q \in Routers : (Current(q)' => Current(q)) /\ Lease(q)' = Lease(q)
    BY <1>5, LeaseAssumption DEF TypeOK, Tick, Current, Lease, Owner
  <2>2. QED
    BY <1>5, <2>1 DEF RunningIsFiled, Tick
<1>6. CASE UNCHANGED vars
  BY <1>6 DEF RunningIsFiled, vars, Current, Lease, Owner
<1>7. QED
  BY <1>1, <1>2, <1>3, <1>4, <1>5, <1>6 DEF Next

LEMMA FiledIsKnownStep ==
  ASSUME TypeOK, FiledIsKnown, [Next]_vars
  PROVE  FiledIsKnown'
<1>1. ASSUME NEW r \in Routers, Ask(r) PROVE FiledIsKnown'
  <2>1. \A l \in leases : l.owner # Owner(r)
    <3>1. ASSUME NEW l \in leases, l.owner = Owner(r) PROVE FALSE
      BY <1>1, <3>1 DEF Ask, FiledIsKnown, Owner
    <3>2. QED
      BY <3>1
  <2>2. \A q \in Routers : Owner(q)' = Owner(q)
    BY <1>1 DEF Ask, Owner
  <2>3. \A q \in Routers \ {r} : Lease(q)' = Lease(q) /\ stage'[q] = stage[q]
    BY <1>1 DEF TypeOK, Ask, Lease, Owner
  <2>4. leases' = leases /\ restarts' = restarts
    BY <1>1 DEF Ask
  <2>5. QED
    BY <2>1, <2>2, <2>3, <2>4 DEF FiledIsKnown
<1>2. ASSUME NEW r \in Routers, Grant(r) PROVE FiledIsKnown'
  <2>1. \A q \in Routers : Owner(q)' = Owner(q) /\ Lease(q)' = Lease(q)
    BY <1>2 DEF Grant, Owner, Lease
  <2>2. \A l \in leases' : l \in leases \/ l = Lease(r)
    BY <1>2 DEF Grant, Unexpired
  <2>3. restarts' = restarts /\ stage' = [stage EXCEPT ![r] = "working"]
    BY <1>2 DEF Grant
  <2>4. /\ Lease(r).owner = Owner(r) /\ Lease(r).owner[1] = r /\ Lease(r).owner[2] = restarts[r]
        /\ restarts[r] \in Nat
    BY DEF Lease, Owner, TypeOK
  <2>5. QED
    BY <2>1, <2>2, <2>3, <2>4 DEF FiledIsKnown, TypeOK
<1>3. ASSUME NEW r \in Routers, Refuse(r) PROVE FiledIsKnown'
  BY <1>3 DEF TypeOK, FiledIsKnown, Refuse, Unexpired, Owner, Lease
<1>4. ASSUME NEW r \in Routers, Release(r) PROVE FiledIsKnown'
  <2>1. \A l \in leases' : l \in leases /\ l.owner # Owner(r)
    BY <1>4 DEF Release
  <2>2. \A q \in Routers : Owner(q)' = Owner(q) /\ Lease(q)' = Lease(q)
    BY <1>4 DEF Release, Owner, Lease
  <2>3. restarts' = restarts /\ \A q \in Routers \ {r} : stage'[q] = stage[q]
    BY <1>4 DEF TypeOK, Release
  <2>4. QED
    BY <2>1, <2>2, <2>3 DEF FiledIsKnown
<1>5. ASSUME NEW r \in Routers, Restart(r) PROVE FiledIsKnown'
  <2>1. /\ leases' = leases /\ restarts'[r] = restarts[r] + 1
        /\ \A q \in Routers \ {r} : restarts'[q] = restarts[q] /\ stage'[q] = stage[q]
    BY <1>5 DEF TypeOK, Restart
  <2>2. \A q \in Routers \ {r} : Owner(q)' = Owner(q) /\ Lease(q)' = Lease(q)
    BY <1>5, <2>1 DEF Restart, Owner, Lease
  <2>3. ASSUME NEW l \in leases, l.owner[1] = r
        PROVE  l.owner[2] <= restarts'[r] /\ l.owner # Owner(r)'
    <3>1. l.owner[2] \in Nat /\ l.owner[2] <= restarts[r] /\ restarts[r] \in Nat
      BY <2>3 DEF TypeOK, LeaseRows, Owners, FiledIsKnown
    <3>2. Owner(r)'[2] = restarts[r] + 1
      BY <2>1 DEF Owner
    <3>3. QED
      BY <2>1, <3>1, <3>2
  <2>4. QED
    BY <2>1, <2>2, <2>3 DEF FiledIsKnown
<1>6. CASE Prune \/ Tick \/ UNCHANGED vars
  BY <1>6 DEF FiledIsKnown, Prune, Tick, vars, Unexpired, Owner, Lease
<1>7. QED
  BY <1>1, <1>2, <1>3, <1>4, <1>5, <1>6 DEF Next

\* The inductive invariant.
THEOREM LeaseInvariant == Spec => []LeaseInv
<1>1. Init => LeaseInv
  BY LeaseAssumption
  DEF Init, LeaseInv, TypeOK, StampsPast, OneOwnerPerKey, RunningIsFiled, FiledIsKnown, Current
<1>2. LeaseInv /\ [Next]_vars => LeaseInv'
  BY TypeStep, StampsStep, OneOwnerStep, RunningIsFiledStep, FiledIsKnownStep DEF LeaseInv
<1>3. QED
  BY <1>1, <1>2, PTL DEF Spec

\* While leases run, no two routers work on one key.
THEOREM RunningLeasesAreExclusive == Spec => []RunningLeasesExclude
<1>1. LeaseInv => RunningLeasesExclude
  <2> SUFFICES ASSUME LeaseInv, NEW r \in Routers, NEW q \in Routers,
                      Current(r), Current(q), key[r] = key[q]
               PROVE  r = q
    BY DEF RunningLeasesExclude
  <2>1. Lease(r) \in leases /\ Lease(q) \in leases
    BY DEF LeaseInv, RunningIsFiled
  <2>2. Lease(r).key = Lease(q).key
    BY DEF Lease
  <2>3. Lease(r).owner = Lease(q).owner
    BY <2>1, <2>2 DEF LeaseInv, OneOwnerPerKey
  <2>4. QED
    BY <2>3, OwnersDiffer DEF Lease
<1>2. QED
  BY <1>1, LeaseInvariant, PTL

\* The file never has two owners for one key.
THEOREM OneOwnerIsFiled == Spec => []OneOwnerPerKey
<1>1. LeaseInv => OneOwnerPerKey
  BY DEF LeaseInv
<1>2. QED
  BY <1>1, LeaseInvariant, PTL

\* Live routers clean up after themselves.
THEOREM NothingIsLeftBehind == Spec => []NothingLeftBehind
<1>1. LeaseInv => NothingLeftBehind
  BY DEF LeaseInv, FiledIsKnown, NothingLeftBehind, Owner
<1>2. QED
  BY <1>1, LeaseInvariant, PTL

\* A running lease is ended by nobody but its router.
THEOREM OwnerEndsLease == Spec => OnlyOwnerEnds
<1> DEFINE EndedByOwner(l) ==
      \E r \in Routers : l.owner = Owner(r) /\ stage[r] = "working" /\ stage'[r] = "idle"
<1>1. ASSUME LeaseInv, [Next]_vars, NEW l \in leases, l \notin leases'
      PROVE  l.expires <= now \/ EndedByOwner(l)
  <2>1. l.expires \in Nat /\ now \in Nat
    BY <1>1 DEF LeaseInv, TypeOK, LeaseRows
  <2>2. ASSUME NEW r \in Routers, Grant(r) \/ Refuse(r)
        PROVE  l.expires <= now
    <3>1. l.expires <= stamp[r]
      BY <1>1, <2>1, <2>2 DEF LeaseInv, TypeOK, Grant, Refuse, Unexpired
    <3>2. QED
      BY <1>1, <2>1, <3>1 DEF LeaseInv, TypeOK, StampsPast
  <2>3. ASSUME NEW r \in Routers, Release(r)
        PROVE  EndedByOwner(l)
    <3>1. l.owner = Owner(r) /\ stage[r] = "working" /\ stage'[r] = "idle"
      BY <1>1, <2>3 DEF LeaseInv, TypeOK, Release
    <3>2. QED
      BY <3>1
  <2>4. CASE Prune
    BY <1>1, <2>1, <2>4 DEF Prune, Unexpired
  <2>5. ASSUME NEW r \in Routers, Ask(r) \/ Restart(r)
        PROVE  FALSE
    BY <1>1, <2>5 DEF Ask, Restart
  <2>6. ~(Tick \/ UNCHANGED vars)
    BY <1>1 DEF Tick, vars
  <2>7. QED
    BY <1>1, <2>2, <2>3, <2>4, <2>5, <2>6 DEF Next
<1>2. LeaseInv /\ [Next]_vars =>
        [\A l \in leases \ leases' : l.expires <= now \/ EndedByOwner(l)]_vars
  BY <1>1
<1>3. QED
  BY <1>2, LeaseInvariant, PTL DEF Spec, OnlyOwnerEnds

\* Neither the file nor the routers at work ever share a key.
THEOREM LeasesAreExclusive == Spec => []LeasesExclude
<1>1. OneOwnerPerKey /\ RunningLeasesExclude => LeasesExclude
  BY DEF LeasesExclude
<1>2. QED
  BY <1>1, OneOwnerIsFiled, RunningLeasesAreExclusive, PTL

\* The lease file and the routers' memory keep their types.
THEOREM LeasesTyped == Spec => []TypeOK
<1>1. LeaseInv => TypeOK
  BY DEF LeaseInv
<1>2. QED
  BY <1>1, LeaseInvariant, PTL
=============================================================================
