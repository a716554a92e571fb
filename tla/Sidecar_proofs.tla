---------------------------- MODULE Sidecar_proofs ----------------------------
(***************************************************************************)
(* For any number of files, contents, requests and leases: a leased file   *)
(* keeps its bytes, and an eviction removes what it names.                 *)
(*                                                                         *)
(* Neither is inductive.  SidecarInv adds what the with blocks are there   *)
(* for: who has passed a check under the lock still has the lock (LockInv),*)
(* so no lease has been granted since (HoldInv) and the bytes are still    *)
(* the ones it has read (SeenInv); and that what a client relies on is in  *)
(* the table of leases (FiledInv) under an id nobody else gives back.      *)
(***************************************************************************)
EXTENDS Sidecar, TLAPS

\* The lock of a file and the request that holds it agree.
LockInv ==
  /\ \A f \in Files : lock[f] # None => op[lock[f]].at = "holding" /\ op[lock[f]].file = f
  /\ \A h \in Handlers : op[h].at = "holding" => lock[op[h].file] = h

\* Ids are handed out once, and a client that gives its lease back stops relying on it.
IdsInv ==
  /\ \A l \in held : l.id \in 1 .. granted
  /\ \A h \in Handlers :
       op[h].at = "waiting" /\ op[h].kind = "release" =>
         op[h].id \in 1 .. granted /\ \A l \in held : l.id # op[h].id

FiledInv == \A l \in held : l.expires > now => Row(l.id, l.expires) \in leases[l.file]

\* No lease is granted between a check and the change it allows.
HoldInv == \A h \in Handlers : Holding(h, Publishing \union {"evict"}) => leases[op[h].file] = {}

\* What was read under the lock is still there, but for the llama-server.
SeenInv ==
  \A h \in Handlers :
    /\ Holding(h, {"acquire", "evict"}) /\ op[h].clean => file[op[h].file] = op[h].content
    /\ Holding(h, {"acquire"} \union Publishing) => op[h].content # None
    /\ op[h].at = "waiting" /\ op[h].kind \in Publishing => op[h].content # None

SidecarInv == TypeOK /\ LockInv /\ IdsInv /\ FiledInv /\ HoldInv /\ SeenInv /\ HeldBytesStay

-----------------------------------------------------------------------------
(* The shapes of the steps *)

LEMMA IdleTyped == Idle \in Requests /\ Idle.at = "idle"
  BY SidecarAssumption DEF Idle, Requests, Kinds, Publishing

LEMMA KeepTyped ==
  ASSUME TypeOK, NEW h \in Handlers, NEW c \in Contents \union {None}, Keep(h, c)
  PROVE  /\ op' \in [Handlers -> Requests]
         /\ lock' \in [Files -> Handlers \union {None}]
<1>1. op[h] \in Requests
  BY DEF TypeOK
<1>2. [op[h] EXCEPT !.at = "holding", !.content = c, !.clean = TRUE] \in Requests
  BY <1>1 DEF Requests
<1>3. op' = [op EXCEPT ![h] = [op[h] EXCEPT !.at = "holding", !.content = c, !.clean = TRUE]]
  BY <1>1 DEF TypeOK, Keep, Requests
<1>4. QED
  BY <1>1, <1>2, <1>3 DEF TypeOK, Keep, Requests

LEMMA KeepShape ==
  ASSUME TypeOK, NEW h \in Handlers, NEW c \in Contents \union {None}, Keep(h, c)
  PROVE  /\ op'[h].at = "holding" /\ op'[h].kind = op[h].kind /\ op'[h].file = op[h].file
         /\ op'[h].content = c
         /\ \A g \in Handlers \ {h} : op'[g] = op[g]
<1>1. op[h] \in Requests
  BY DEF TypeOK
<1>2. op' = [op EXCEPT ![h] = [op[h] EXCEPT !.at = "holding", !.content = c, !.clean = TRUE]]
  BY <1>1 DEF TypeOK, Keep, Requests
<1>3. QED
  BY <1>1, <1>2 DEF TypeOK, Requests

\* A request enters the with block and leaves it at once, or goes on.
LEMMA EnterShape ==
  ASSUME TypeOK, NEW h \in Handlers, Enter(h)
  PROVE  /\ op[h].at = "waiting" /\ lock[op[h].file] = None
         /\ UNCHANGED <<file, granted, now, held>>
         /\ Answer(h) \/ \E c \in Contents \union {None} : Keep(h, c)
<1>1. /\ op[h] \in Requests
      /\ op[h].file \in Files /\ op[h].content \in Contents \union {None}
      /\ file[op[h].file] \in Contents \union {None}
  BY DEF TypeOK, Requests
<1>2. CASE CheckForLease(h)
  BY <1>1, <1>2 DEF CheckForLease, AtLock
<1>3. CASE ReleaseLease(h)
  BY <1>3 DEF ReleaseLease, AtLock
<1>4. CASE CheckForPublish(h)
  BY <1>1, <1>4 DEF CheckForPublish, AtLock
<1>5. CASE CheckForEvict(h)
  BY <1>1, <1>5 DEF CheckForEvict, AtLock
<1>6. CASE OpenDownload(h)
  BY <1>6 DEF OpenDownload, AtLock
<1>7. QED
  BY <1>2, <1>3, <1>4, <1>5, <1>6 DEF Enter

LEMMA EnterOthers ==
  ASSUME TypeOK, NEW h \in Handlers, Enter(h), NEW g \in Handlers \ {h}
  PROVE  op'[g] = op[g]
<1>1. CASE Answer(h)
  BY <1>1 DEF TypeOK, Answer
<1>2. QED
  BY <1>1, EnterShape, KeepShape

\* A request leaves the with block.
LEMMA FinishShape ==
  ASSUME NEW h \in Handlers, Finish(h)
  PROVE  op[h].at = "holding" /\ Unlock(h) /\ now' = now
  BY DEF Finish, GrantLease, LeaseBound, Publish, Evict, EndDownload, Holding

\* What the llama-server's save does to a request.
LEMMA SaveShape ==
  ASSUME TypeOK, NEW f \in Files, WorkerSaves(f), NEW h \in Handlers
  PROVE  /\ op'[h] \in Requests
         /\ op'[h].at = op[h].at /\ op'[h].kind = op[h].kind /\ op'[h].file = op[h].file
         /\ op'[h].content = op[h].content /\ op'[h].id = op[h].id
         /\ op'[h].clean = (op[h].clean /\ op[h].file # f)
<1>1. op[h] \in Requests
  BY DEF TypeOK
<1>2. op'[h] = [op[h] EXCEPT !.clean = op[h].clean /\ op[h].file # f]
  BY <1>1 DEF WorkerSaves, Requests
<1>3. QED
  BY <1>1, <1>2 DEF Requests

-----------------------------------------------------------------------------
(* One step, conjunct by conjunct *)

LEMMA TypeStep ==
  ASSUME TypeOK, SeenInv, [Next]_vars
  PROVE  TypeOK'
<1>1. ASSUME NEW h \in Handlers, Receive(h) PROVE TypeOK'
  <2>1. PICK kind \in Kinds, f \in Files, c \in Contents \union {None}, id \in 0 .. granted :
          /\ kind \in Publishing => c # None
          /\ kind \in {"release", "download"} => c = None
          /\ kind = "release" <=> id # 0
          /\ op' = [op EXCEPT ![h] = [at |-> "waiting", kind |-> kind, file |-> f,
                                      content |-> c, id |-> id, clean |-> TRUE]]
          /\ held' = {l \in held : l.id # id}
    BY <1>1, Zenon DEF Receive
  <2>2. [at |-> "waiting", kind |-> kind, file |-> f, content |-> c, id |-> id, clean |-> TRUE] \in Requests
    BY DEF TypeOK, Requests
  <2>3. QED
    BY <1>1, <2>1, <2>2 DEF TypeOK, Receive
<1>2. ASSUME NEW h \in Handlers, Enter(h) PROVE TypeOK'
  <2>1. op' \in [Handlers -> Requests] /\ lock' \in [Files -> Handlers \union {None}]
    BY <1>2, EnterShape, KeepTyped, IdleTyped DEF TypeOK, Answer
  <2>2. leases' \in [Files -> SUBSET [id : Nat, expires : Nat]]
    BY <1>2 DEF TypeOK, Enter, CheckForLease, ReleaseLease, CheckForPublish, CheckForEvict,
                OpenDownload, Count, Running
  <2>3. QED
    BY <1>2, <2>1, <2>2, EnterShape DEF TypeOK
<1>3. ASSUME NEW h \in Handlers, GrantLease(h) PROVE TypeOK'
  <2>1. /\ op[h].file \in Files /\ op[h].content \in Contents
        /\ granted' \in Nat /\ now \in Nat
    BY <1>3 DEF TypeOK, SeenInv, GrantLease, Holding, Requests
  <2>2. PICK ttl \in Ttls :
          /\ leases' = [leases EXCEPT ![op[h].file] = Running(op[h].file) \union {Row(granted', now + ttl)}]
          /\ held' \subseteq held \union {[id |-> granted', file |-> op[h].file,
                                           content |-> op[h].content, expires |-> now + ttl]}
    BY <1>3 DEF GrantLease
  <2>3. now + ttl \in Nat
    BY <2>1, SidecarAssumption
  <2>4. QED
    BY <1>3, <2>1, <2>2, <2>3, IdleTyped DEF TypeOK, GrantLease, Unlock, Running, Row
<1>4. ASSUME NEW h \in Handlers, LeaseBound(h) \/ Publish(h) \/ Evict(h) \/ EndDownload(h)
      PROVE  TypeOK'
  <2>1. op[h].file \in Files /\ op[h].content \in Contents \union {None}
    BY DEF TypeOK, Requests
  <2>2. QED
    BY <1>4, <2>1, IdleTyped DEF TypeOK, LeaseBound, Publish, Evict, EndDownload, Unlock
<1>5. ASSUME NEW f \in Files, WorkerSaves(f) PROVE TypeOK'
  <2>1. op' \in [Handlers -> Requests]
    BY <1>5, SaveShape DEF WorkerSaves
  <2>2. QED
    BY <1>5, <2>1 DEF TypeOK, WorkerSaves
<1>6. CASE Restart
  BY <1>6, IdleTyped DEF TypeOK, Restart
<1>7. CASE Tick \/ UNCHANGED vars
  BY <1>7 DEF TypeOK, Tick, vars
<1>8. QED
  BY <1>1, <1>2, <1>3, <1>4, <1>5, <1>6, <1>7 DEF Next, Finish

LEMMA LockStep ==
  ASSUME TypeOK, LockInv, [Next]_vars
  PROVE  LockInv'
<1>1. ASSUME NEW h \in Handlers, op[h].at # "holding", op'[h].at # "holding",
             \A g \in Handlers \ {h} : op'[g] = op[g], UNCHANGED lock
      PROVE  LockInv'
  BY <1>1, SidecarAssumption DEF TypeOK, LockInv
<1>2. ASSUME NEW h \in Handlers, Receive(h) PROVE LockInv'
  BY <1>1, <1>2 DEF TypeOK, Receive
<1>3. ASSUME NEW h \in Handlers, Enter(h), Answer(h) PROVE LockInv'
  BY <1>1, <1>3, EnterShape, IdleTyped DEF TypeOK, Answer
<1>4. ASSUME NEW h \in Handlers, Enter(h), NEW c \in Contents \union {None}, Keep(h, c)
      PROVE  LockInv'
  <2>1. /\ op'[h].at = "holding" /\ op'[h].file = op[h].file /\ op[h].file \in Files
        /\ \A g \in Handlers \ {h} : op'[g] = op[g]
        /\ lock' = [lock EXCEPT ![op[h].file] = h]
    BY <1>4 DEF TypeOK, Keep, Requests
  <2>2. op[h].at # "holding" /\ lock[op[h].file] = None
    BY <1>4, EnterShape
  <2>3. \A f \in Files : lock[f] # None => lock[f] \in Handlers \ {h}
    BY <2>2 DEF TypeOK, LockInv
  <2>4. \A f \in Files : f # op[h].file => lock'[f] = lock[f]
    BY <2>1
  <2>5. lock'[op[h].file] = h
    BY <2>1 DEF TypeOK
  <2>6. \A g \in Handlers \ {h} : op[g].at = "holding" => op[g].file \in Files /\ op[g].file # op[h].file
    BY <2>2, SidecarAssumption DEF TypeOK, LockInv, Requests
  <2>7. \A f \in Files : lock'[f] # None => op'[lock'[f]].at = "holding" /\ op'[lock'[f]].file = f
    BY <2>1, <2>3, <2>4, <2>5 DEF LockInv
  <2>8. \A g \in Handlers : op'[g].at = "holding" => lock'[op'[g].file] = g
    BY <2>1, <2>4, <2>5, <2>6 DEF LockInv
  <2>9. QED
    BY <2>7, <2>8 DEF LockInv
<1>5. ASSUME NEW h \in Handlers, Finish(h) PROVE LockInv'
  <2>1. op[h].at = "holding" /\ op[h].file \in Files /\ lock[op[h].file] = h
    BY <1>5, FinishShape DEF TypeOK, LockInv, Requests
  <2>2. /\ op'[h].at = "idle" /\ \A g \in Handlers \ {h} : op'[g] = op[g]
        /\ lock' = [lock EXCEPT ![op[h].file] = None]
    BY <1>5, FinishShape, IdleTyped DEF TypeOK, Unlock
  <2>3. QED
    BY <2>1, <2>2, SidecarAssumption DEF TypeOK, LockInv, Requests
<1>6. ASSUME NEW f \in Files, WorkerSaves(f) PROVE LockInv'
  <2>1. \A h \in Handlers : op'[h].at = op[h].at /\ op'[h].file = op[h].file
    BY <1>6, SaveShape
  <2>2. lock' = lock /\ \A g \in Files : lock[g] # None => lock[g] \in Handlers
    BY <1>6 DEF TypeOK, WorkerSaves
  <2>3. QED
    BY <2>1, <2>2 DEF LockInv
<1>7. CASE Restart
  BY <1>7, IdleTyped DEF LockInv, Restart
<1>8. CASE Tick \/ UNCHANGED vars
  BY <1>8 DEF LockInv, Tick, vars
<1>9. QED
  BY <1>2, <1>3, <1>4, <1>5, <1>6, <1>7, <1>8, EnterShape DEF Next

LEMMA IdsStep ==
  ASSUME TypeOK, IdsInv, [Next]_vars
  PROVE  IdsInv'
<1>1. ASSUME NEW h \in Handlers, Receive(h) PROVE IdsInv'
  BY <1>1 DEF TypeOK, IdsInv, Receive
<1>2. ASSUME NEW h \in Handlers, op'[h].at # "waiting",
             \A g \in Handlers \ {h} : op'[g] = op[g], UNCHANGED <<granted, held>>
      PROVE  IdsInv'
  BY <1>2 DEF IdsInv
<1>3. ASSUME NEW h \in Handlers, Enter(h) PROVE IdsInv'
  <2>1. CASE Answer(h)
    BY <1>2, <1>3, <2>1, EnterShape, IdleTyped DEF TypeOK, Answer
  <2>2. ASSUME NEW c \in Contents \union {None}, Keep(h, c)
        PROVE  op'[h].at = "holding" /\ \A g \in Handlers \ {h} : op'[g] = op[g]
    BY <2>2 DEF TypeOK, Keep, Requests
  <2>3. QED
    BY <1>2, <1>3, <2>1, <2>2, EnterShape
<1>4. ASSUME NEW h \in Handlers, LeaseBound(h) \/ Publish(h) \/ Evict(h) \/ EndDownload(h)
      PROVE  IdsInv'
  BY <1>2, <1>4, IdleTyped DEF TypeOK, LeaseBound, Publish, Evict, EndDownload, Unlock
<1>5. ASSUME NEW h \in Handlers, GrantLease(h) PROVE IdsInv'
  <2>1. op'[h].at # "waiting" /\ \A g \in Handlers \ {h} : op'[g] = op[g]
    BY <1>5, IdleTyped DEF TypeOK, GrantLease, Unlock
  <2>2. granted \in Nat /\ granted' = granted + 1
    BY <1>5 DEF TypeOK, GrantLease
  <2>3. \A l \in held' : l \in held \/ l.id = granted'
    BY <1>5 DEF GrantLease
  <2>4. QED
    BY <2>1, <2>2, <2>3 DEF IdsInv
<1>6. ASSUME NEW f \in Files, WorkerSaves(f) PROVE IdsInv'
  <2>1. held' \subseteq held /\ granted' = granted
    BY <1>6 DEF WorkerSaves
  <2>2. \A h \in Handlers : op'[h].at = op[h].at /\ op'[h].kind = op[h].kind /\ op'[h].id = op[h].id
    BY <1>6, SaveShape
  <2>3. QED
    BY <2>1, <2>2 DEF IdsInv
<1>7. CASE Restart
  BY <1>7, IdleTyped DEF IdsInv, Restart
<1>8. CASE Tick \/ UNCHANGED vars
  BY <1>8 DEF IdsInv, Tick, vars
<1>9. QED
  BY <1>1, <1>3, <1>4, <1>5, <1>6, <1>7, <1>8 DEF Next, Finish

\* Pruning forgets no running lease.
LEMMA RunningKept ==
  ASSUME TypeOK, FiledInv, NEW l \in held, l.expires > now
  PROVE  Row(l.id, l.expires) \in Running(l.file)
  BY DEF FiledInv, Running, Row

LEMMA FiledStep ==
  ASSUME TypeOK, IdsInv, FiledInv, [Next]_vars
  PROVE  FiledInv'
<1>1. ASSUME NEW h \in Handlers, ReleaseLease(h) PROVE FiledInv'
  <2>1. \A l \in held : l.id # op[h].id
    BY <1>1 DEF IdsInv, ReleaseLease, AtLock
  <2>2. op[h].file \in Files
    BY DEF TypeOK, Requests
  <2>3. \A l \in held : l.file \in Files /\ Row(l.id, l.expires).id = l.id
    BY DEF TypeOK, Row
  <2>4. QED
    BY <1>1, <2>1, <2>2, <2>3, RunningKept DEF TypeOK, FiledInv, ReleaseLease
<1>2. ASSUME NEW f \in Files, Count(f), UNCHANGED <<now, held>> PROVE FiledInv'
  BY <1>2, RunningKept DEF TypeOK, FiledInv, Count
<1>3. ASSUME UNCHANGED <<leases, now>>, held' \subseteq held PROVE FiledInv'
  BY <1>3 DEF FiledInv
<1>4. ASSUME NEW h \in Handlers, CheckForPublish(h) \/ CheckForEvict(h) PROVE FiledInv'
  <2>1. op[h].file \in Files
    BY DEF TypeOK, Requests
  <2>2. QED
    BY <1>2, <1>3, <1>4, <2>1 DEF CheckForPublish, CheckForEvict
<1>5. ASSUME NEW h \in Handlers, GrantLease(h) PROVE FiledInv'
  <2>1. PICK ttl \in Ttls :
          /\ leases' = [leases EXCEPT ![op[h].file] = Running(op[h].file) \union {Row(granted', now + ttl)}]
          /\ held' \subseteq held \union {[id |-> granted', file |-> op[h].file,
                                           content |-> op[h].content, expires |-> now + ttl]}
    BY <1>5 DEF GrantLease
  <2>2. op[h].file \in Files /\ now' = now /\ \A l \in held : l.file \in Files
    BY <1>5 DEF TypeOK, Requests, GrantLease
  <2>3. QED
    BY <2>1, <2>2, RunningKept DEF TypeOK, FiledInv
<1>6. CASE Tick
  BY <1>6 DEF TypeOK, FiledInv, Tick
<1>7. CASE Restart
  BY <1>7 DEF FiledInv, Restart
<1>8. ASSUME NEW h \in Handlers, Receive(h) \/ CheckForLease(h) \/ OpenDownload(h) \/ LeaseBound(h)
                                  \/ Publish(h) \/ Evict(h) \/ EndDownload(h)
      PROVE  FiledInv'
  BY <1>3, <1>8 DEF Receive, CheckForLease, OpenDownload, LeaseBound, Publish, Evict, EndDownload
<1>9. ASSUME NEW f \in Files, WorkerSaves(f) PROVE FiledInv'
  BY <1>3, <1>9 DEF WorkerSaves
<1>10. CASE UNCHANGED vars
  BY <1>3, <1>10 DEF vars
<1>11. QED
  BY <1>1, <1>4, <1>5, <1>6, <1>7, <1>8, <1>9, <1>10 DEF Next, Enter, Finish

\* Two requests are not in one with block.
LEMMA LockExcludes ==
  ASSUME LockInv, NEW h \in Handlers, NEW g \in Handlers,
         op[h].at = "holding", op[g].at = "holding", op[h].file = op[g].file
  PROVE  h = g
  BY DEF LockInv

\* While a request holds the lock nobody else enters.
LEMMA EnterExcluded ==
  ASSUME LockInv, NEW h \in Handlers, NEW g \in Handlers,
         op[h].at = "holding", lock[op[g].file] = None
  PROVE  op[g].file # op[h].file
  BY SidecarAssumption DEF LockInv

LEMMA HoldStep ==
  ASSUME TypeOK, LockInv, HoldInv, [Next]_vars
  PROVE  HoldInv'
<1> DEFINE Changing == Publishing \union {"evict"}
<1>1. ASSUME NEW h \in Handlers, ~Holding(h, Changing)',
             \A g \in Handlers \ {h} : op'[g] = op[g] /\ (Holding(g, Changing) => op[g].file # op[h].file),
             \A f \in Files : f # op[h].file => leases'[f] = leases[f]
      PROVE  HoldInv'
  BY <1>1 DEF TypeOK, HoldInv, Holding, Requests
<1>2. ASSUME UNCHANGED leases,
             \A h \in Handlers : op'[h].at = "holding" =>
               op[h].at = "holding" /\ op'[h].file = op[h].file /\ op'[h].kind = op[h].kind
      PROVE  HoldInv'
  BY <1>2 DEF HoldInv, Holding
<1>3. ASSUME NEW h \in Handlers, Receive(h) PROVE HoldInv'
  <2>1. PICK request : op' = [op EXCEPT ![h] = request] /\ request.at = "waiting"
    BY <1>3 DEF Receive
  <2>2. leases' = leases
    BY <1>3 DEF Receive
  <2>3. op'[h].at = "waiting" /\ \A g \in Handlers \ {h} : op'[g] = op[g]
    BY <2>1 DEF TypeOK
  <2>4. QED
    BY <1>2, <2>2, <2>3
<1>4. ASSUME NEW h \in Handlers, Enter(h) PROVE HoldInv'
  <2>1. \A g \in Handlers \ {h} : Holding(g, Changing) => op[g].file # op[h].file
    BY <1>4, EnterShape, EnterExcluded DEF Holding
  <2>2. \A g \in Handlers \ {h} : op'[g] = op[g]
    BY <1>4, EnterOthers
  <2>3. \A f \in Files : f # op[h].file => leases'[f] = leases[f]
    BY <1>4 DEF TypeOK, Enter, CheckForLease, ReleaseLease, CheckForPublish, CheckForEvict, OpenDownload, Count
  <2>4. CASE ~Holding(h, Changing)'
    BY <1>1, <2>1, <2>2, <2>3, <2>4
  <2>5. CASE Holding(h, Changing)'
    <3>1. PICK c \in Contents \union {None} : Keep(h, c)
      BY <1>4, <2>5, EnterShape, IdleTyped DEF TypeOK, Answer, Holding
    <3>2. op'[h].kind = op[h].kind /\ op'[h].file = op[h].file /\ op[h].file \in Files /\ ~Answer(h)
      BY <2>5, <3>1, IdleTyped DEF TypeOK, Keep, Answer, Requests, Holding
    <3>3. CheckForPublish(h) \/ CheckForEvict(h)
      BY <1>4, <2>5, <3>2
      DEF Enter, CheckForLease, ReleaseLease, OpenDownload, AtLock, Holding, Publishing
    <3>4. Running(op[h].file) = {} /\ leases'[op[h].file] = Running(op[h].file)
      BY <3>2, <3>3 DEF TypeOK, CheckForPublish, CheckForEvict, Count
    <3>5. QED
      BY <2>1, <2>2, <2>3, <3>2, <3>4 DEF TypeOK, HoldInv, Holding, Requests
  <2>6. QED
    BY <2>4, <2>5
<1>5. ASSUME NEW h \in Handlers, Finish(h) PROVE HoldInv'
  <2>1. ~Holding(h, Changing)' /\ \A g \in Handlers \ {h} : op'[g] = op[g]
    BY <1>5, FinishShape, IdleTyped DEF TypeOK, Unlock, Holding
  <2>2. \A g \in Handlers \ {h} : Holding(g, Changing) => op[g].file # op[h].file
    BY <1>5, FinishShape, LockExcludes DEF Holding
  <2>3. \A f \in Files : f # op[h].file => leases'[f] = leases[f]
    BY <1>5 DEF TypeOK, Finish, GrantLease, LeaseBound, Publish, Evict, EndDownload
  <2>4. QED
    BY <1>1, <2>1, <2>2, <2>3
<1>6. ASSUME NEW f \in Files, WorkerSaves(f) PROVE HoldInv'
  <2>1. UNCHANGED leases
    BY <1>6 DEF WorkerSaves
  <2>2. \A h \in Handlers : op'[h].file = op[h].file /\ op'[h].at = op[h].at /\ op'[h].kind = op[h].kind
    BY <1>6, SaveShape
  <2>3. QED
    BY <1>2, <2>1, <2>2
<1>7. CASE Restart
  BY <1>7, IdleTyped DEF HoldInv, Holding, Restart
<1>8. CASE Tick \/ UNCHANGED vars
  BY <1>8 DEF HoldInv, Holding, Tick, vars
<1>9. QED
  BY <1>3, <1>4, <1>5, <1>6, <1>7, <1>8 DEF Next

\* A file changes under a request's hands only by the llama-server.
LEMMA FileFrame ==
  ASSUME TypeOK, LockInv, [Next]_vars, NEW h \in Handlers, op[h].at = "holding", NEW g \in Handlers \ {h}, Finish(g)
  PROVE  file'[op[h].file] = file[op[h].file]
<1>1. op[g].file # op[h].file
  BY FinishShape, LockExcludes
<1>2. QED
  BY <1>1 DEF TypeOK, Requests, Finish, GrantLease, LeaseBound, Publish, Evict, EndDownload

LEMMA SeenStep ==
  ASSUME TypeOK, LockInv, SeenInv, [Next]_vars
  PROVE  SeenInv'
<1> DEFINE Seen(h) ==
      /\ Holding(h, {"acquire", "evict"}) /\ op[h].clean => file[op[h].file] = op[h].content
      /\ Holding(h, {"acquire"} \union Publishing) => op[h].content # None
      /\ op[h].at = "waiting" /\ op[h].kind \in Publishing => op[h].content # None
<1> SUFFICES ASSUME NEW h \in Handlers PROVE Seen(h)'
  BY DEF SeenInv
<1>1. Seen(h)
  BY DEF SeenInv
<1>2. ASSUME op'[h] = op[h], op[h].at = "holding" => file'[op[h].file] = file[op[h].file]
      PROVE  Seen(h)'
  BY <1>1, <1>2 DEF Holding
<1>3. ASSUME op'[h].at = "idle" PROVE Seen(h)'
  BY <1>3 DEF Holding
<1>4. CASE Receive(h)
  <2>1. PICK kind \in Kinds, f \in Files, c \in Contents \union {None}, id \in 0 .. granted :
          /\ kind \in Publishing => c # None
          /\ kind \in {"release", "download"} => c = None
          /\ kind = "release" <=> id # 0
          /\ op' = [op EXCEPT ![h] = [at |-> "waiting", kind |-> kind, file |-> f,
                                      content |-> c, id |-> id, clean |-> TRUE]]
          /\ held' = {l \in held : l.id # id}
    BY <1>4, Zenon DEF Receive
  <2>2. op'[h].at = "waiting" /\ op'[h].kind = kind /\ op'[h].content = c
    BY <2>1 DEF TypeOK
  <2>3. QED
    BY <2>1, <2>2 DEF Holding
<1>5. CASE Enter(h)
  <2>1. CASE Answer(h)
    BY <1>3, <2>1, IdleTyped DEF TypeOK, Answer
  <2>2. ASSUME NEW c \in Contents \union {None}, Keep(h, c) PROVE Seen(h)'
    <3>1. /\ op'[h].at = "holding" /\ op'[h].kind = op[h].kind /\ op'[h].file = op[h].file
          /\ op'[h].content = c /\ file' = file
      BY <1>5, <2>2, EnterShape, KeepShape
    <3>2. op[h].kind \in {"acquire", "evict"} => file[op[h].file] = c
      BY <1>5, <3>1, IdleTyped
      DEF TypeOK, Enter, CheckForLease, ReleaseLease, CheckForPublish, CheckForEvict, OpenDownload,
          AtLock, Keep, Answer, Requests, Publishing
    <3>3. op[h].kind \in {"acquire"} \union Publishing => c # None
      BY <1>1, <1>5, <3>1, IdleTyped
      DEF TypeOK, Enter, CheckForLease, ReleaseLease, CheckForPublish, CheckForEvict, OpenDownload,
          AtLock, Keep, Answer, Requests, Publishing
    <3>4. QED
      BY <3>1, <3>2, <3>3 DEF Holding
  <2>3. QED
    BY <1>5, <2>1, <2>2, EnterShape
<1>6. CASE Finish(h)
  BY <1>3, <1>6, FinishShape, IdleTyped DEF TypeOK, Unlock
<1>7. ASSUME NEW g \in Handlers \ {h}, Receive(g) PROVE Seen(h)'
  BY <1>2, <1>7 DEF TypeOK, Receive
<1>8. ASSUME NEW g \in Handlers \ {h}, Enter(g) PROVE Seen(h)'
  BY <1>2, <1>8, EnterShape, EnterOthers
<1>9. ASSUME NEW g \in Handlers \ {h}, Finish(g) PROVE Seen(h)'
  <2>1. op'[h] = op[h]
    BY <1>9, FinishShape DEF TypeOK, Unlock
  <2>2. QED
    BY <1>2, <1>9, <2>1, FileFrame
<1>10. ASSUME NEW f \in Files, WorkerSaves(f) PROVE Seen(h)'
  <2>1. /\ op'[h].at = op[h].at /\ op'[h].kind = op[h].kind /\ op'[h].file = op[h].file
        /\ op'[h].content = op[h].content /\ op'[h].clean = (op[h].clean /\ op[h].file # f)
    BY <1>10, SaveShape
  <2>2. op[h].file # f => file'[op[h].file] = file[op[h].file]
    BY <1>10 DEF TypeOK, Requests, WorkerSaves
  <2>3. QED
    BY <1>1, <2>1, <2>2 DEF Holding
<1>11. CASE Restart
  BY <1>3, <1>11, IdleTyped DEF Restart
<1>12. CASE Tick \/ UNCHANGED vars
  BY <1>2, <1>12 DEF Tick, vars
<1>13. QED
  BY <1>4, <1>5, <1>6, <1>7, <1>8, <1>9, <1>10, <1>11, <1>12 DEF Next

\* The leased bytes, step by step.
LEMMA BytesStep ==
  ASSUME SidecarInv, [Next]_vars
  PROVE  HeldBytesStay'
<1> USE DEF SidecarInv
<1>1. ASSUME held' \subseteq held, UNCHANGED <<file, now>> PROVE HeldBytesStay'
  BY <1>1 DEF HeldBytesStay
<1>2. ASSUME NEW h \in Handlers, Receive(h) PROVE HeldBytesStay'
  BY <1>1, <1>2 DEF Receive
<1>3. ASSUME NEW h \in Handlers, Enter(h) PROVE HeldBytesStay'
  BY <1>1, <1>3, EnterShape
<1>4. ASSUME NEW h \in Handlers, LeaseBound(h) \/ EndDownload(h) PROVE HeldBytesStay'
  BY <1>1, <1>4 DEF LeaseBound, EndDownload
<1>5. ASSUME NEW h \in Handlers, Publish(h) \/ Evict(h) PROVE HeldBytesStay'
  <2>1. op[h].file \in Files /\ leases[op[h].file] = {}
    BY <1>5 DEF TypeOK, Requests, HoldInv, Publish, Evict, Holding
  <2>2. \A l \in held : l.expires > now => l.file # op[h].file
    BY <2>1 DEF FiledInv
  <2>3. /\ held' = held /\ now' = now
        /\ \A f \in Files : f # op[h].file => file'[f] = file[f]
    BY <1>5 DEF TypeOK, Publish, Evict
  <2>4. \A l \in held : l.file \in Files
    BY DEF TypeOK
  <2>5. QED
    BY <2>2, <2>3, <2>4 DEF HeldBytesStay
<1>6. ASSUME NEW h \in Handlers, GrantLease(h) PROVE HeldBytesStay'
  <2>1. PICK ttl \in Ttls :
          held' = IF op[h].clean
                  THEN held \union {[id |-> granted', file |-> op[h].file,
                                     content |-> op[h].content, expires |-> now + ttl]}
                  ELSE held
    BY <1>6 DEF GrantLease
  <2>2. op[h].clean => file[op[h].file] = op[h].content
    BY <1>6 DEF SeenInv, GrantLease, Holding
  <2>3. file' = file /\ now' = now
    BY <1>6 DEF GrantLease
  <2>4. QED
    BY <2>1, <2>2, <2>3 DEF HeldBytesStay
<1>7. ASSUME NEW f \in Files, WorkerSaves(f) PROVE HeldBytesStay'
  <2>1. \A l \in held' : l \in held /\ l.file \in Files /\ file'[l.file] = file[l.file]
    BY <1>7 DEF TypeOK, WorkerSaves
  <2>2. now' = now
    BY <1>7 DEF WorkerSaves
  <2>3. QED
    BY <2>1, <2>2 DEF HeldBytesStay
<1>8. CASE Restart
  BY <1>8 DEF HeldBytesStay, Restart
<1>9. CASE Tick
  BY <1>9 DEF TypeOK, HeldBytesStay, Tick
<1>10. CASE UNCHANGED vars
  BY <1>1, <1>10 DEF vars
<1>11. QED
  BY <1>2, <1>3, <1>4, <1>5, <1>6, <1>7, <1>8, <1>9, <1>10 DEF Next, Finish

-----------------------------------------------------------------------------
LEMMA InitInv == Init => SidecarInv
<1> SUFFICES ASSUME Init PROVE SidecarInv
  OBVIOUS
<1>1. TypeOK
  BY IdleTyped DEF Init, TypeOK
<1>2. LockInv /\ IdsInv /\ HoldInv /\ SeenInv
  BY IdleTyped DEF Init, LockInv, IdsInv, HoldInv, SeenInv, Holding
<1>3. FiledInv /\ HeldBytesStay
  BY DEF Init, FiledInv, HeldBytesStay
<1>4. QED
  BY <1>1, <1>2, <1>3 DEF SidecarInv

\* The inductive invariant.
THEOREM SidecarInvariant == Spec => []SidecarInv
<1>1. SidecarInv /\ [Next]_vars => SidecarInv'
  BY TypeStep, LockStep, IdsStep, FiledStep, HoldStep, SeenStep, BytesStep DEF SidecarInv
<1>2. QED
  BY InitInv, <1>1, PTL DEF Spec

\* Every variable of the sidecar keeps its type.
THEOREM SidecarTyped == Spec => []TypeOK
<1>1. SidecarInv => TypeOK
  BY DEF SidecarInv
<1>2. QED
  BY <1>1, SidecarInvariant, PTL

\* A file keeps its bytes while a client's lease on it runs.
THEOREM LeasedBytesStay == Spec => []HeldBytesStay
<1>1. SidecarInv => HeldBytesStay
  BY DEF SidecarInv
<1>2. QED
  BY <1>1, SidecarInvariant, PTL

\* A file goes only to an eviction that names its content.
THEOREM EvictionIsExact == Spec => EvictsWhatItNames
<1> DEFINE Named(f) == \E h \in Handlers :
                         /\ Holding(h, {"evict"}) /\ op[h].file = f
                         /\ op[h].clean => file[f] = op[h].content
<1>1. ASSUME SidecarInv, [Next]_vars, NEW f \in Files, file[f] # None, file'[f] = None
      PROVE  Named(f)
  <2> USE DEF SidecarInv
  <2>1. ASSUME NEW h \in Handlers, Evict(h) PROVE Named(f)
    <3>1. op[h].file \in Files /\ op[h].file = f /\ Holding(h, {"evict"})
      BY <1>1, <2>1 DEF TypeOK, Requests, Evict
    <3>2. op[h].clean => file[f] = op[h].content
      BY <1>1, <3>1 DEF SeenInv, Holding
    <3>3. QED
      BY <3>1, <3>2
  <2>2. ASSUME NEW h \in Handlers, Publish(h) PROVE FALSE
    <3>1. op[h].content # None /\ op[h].file \in Files
      BY <1>1, <2>2 DEF TypeOK, Requests, SeenInv, Publish, Holding
    <3>2. QED
      BY <1>1, <2>2, <3>1 DEF TypeOK, Publish
  <2>3. ASSUME NEW g \in Files, WorkerSaves(g) PROVE FALSE
    BY <1>1, <2>3, SidecarAssumption DEF TypeOK, WorkerSaves
  <2>4. file' # file
    BY <1>1
  <2>5. ~(Restart \/ Tick \/ UNCHANGED vars)
    BY <2>4 DEF Restart, Tick, vars
  <2>6. \A h \in Handlers : ~(Receive(h) \/ Enter(h) \/ GrantLease(h) \/ LeaseBound(h) \/ EndDownload(h))
    BY <1>1, <2>4, EnterShape DEF Receive, GrantLease, LeaseBound, EndDownload
  <2>7. QED
    BY <1>1, <2>1, <2>2, <2>3, <2>5, <2>6 DEF Next, Finish
<1>2. SidecarInv /\ [Next]_vars => [\A f \in Files : file[f] # None /\ file'[f] = None => Named(f)]_vars
  BY <1>1
<1>3. QED
  BY <1>2, SidecarInvariant, PTL DEF Spec, EvictsWhatItNames
=============================================================================
