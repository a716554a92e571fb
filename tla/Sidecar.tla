------------------------------- MODULE Sidecar -------------------------------
(***************************************************************************)
(* The worker sidecar: one HTTP handler thread per request over the slot   *)
(* directory of a llama-server, with a lock per filename and leases kept   *)
(* in memory.  A request reads and checks under the lock, may then be      *)
(* preempted, and changes something before it lets go of the lock.  The    *)
(* llama-server saves its slots into the same directory and knows neither  *)
(* the locks nor the leases.                                               *)
(*                                                                         *)
(* Left out, as no state hangs on it: requests refused before the lock     *)
(* (a bad name, an upload whose bytes do not have the expected hash or     *)
(* size), and the reads that take no lock (info, verify, inventory).  A    *)
(* size is part of a content.                                              *)
(*                                                                         *)
(* As in WorkerAdmission, an operator named Faulty... is wrong on purpose. *)
(***************************************************************************)
EXTENDS Naturals

CONSTANTS
  Files,         \* slot filenames
  Contents,      \* what a slot file may hold
  Handlers,      \* request threads
  Ttls,          \* lease times clients ask for
  None,          \* no file, no hash given, nobody
  MaxLeases,     \* bound: leases granted
  Horizon        \* bound: the clock stops here

ASSUME SidecarAssumption ==
  /\ Files # {}
  /\ Ttls \subseteq Nat \ {0}
  /\ None \notin Contents \union Handlers
  /\ MaxLeases \in Nat
  /\ Horizon \in Nat

VARIABLES
  file,          \* the bytes under a filename
  leases,        \* the lease rows of a filename, in memory
  lock,          \* who has the filename's lock
  op,            \* the request a handler is serving
  granted,       \* leases granted so far; the last one's id
  now,           \* time.monotonic()
  held           \* history: leases clients rely on, see below

vars == <<file, leases, lock, op, granted, now, held>>

(***************************************************************************)
(* held is the clients' view: a lease is in it from the moment it is       *)
(* granted until its client asks for its release, the sidecar restarts or  *)
(* the llama-server saves over the file.  clean says that the llama-server *)
(* has not saved over the file since the handler took the lock.            *)
(***************************************************************************)
\* An upload and a PUT to the content do the same.
Publishing == {"upload", "hydrate"}
Kinds == Publishing \union {"acquire", "release", "evict", "download"}

Idle == [at |-> "idle", kind |-> "download", file |-> CHOOSE f \in Files : TRUE,
         content |-> None, id |-> 0, clean |-> TRUE]

Row(id, expires) == [id |-> id, expires |-> expires]

\* prune_expired_leases_locked
Running(f) == {row \in leases[f] : row.expires > now}

Init ==
  /\ file \in [Files -> Contents \union {None}]
  /\ leases = [f \in Files |-> {}]
  /\ lock = [f \in Files |-> None]
  /\ op = [h \in Handlers |-> Idle]
  /\ granted = 0
  /\ now = 0
  /\ held = {}

-----------------------------------------------------------------------------
(* Requests and the lock *)

\* A request is read and, for a publication, its bytes are staged in a file of
\* its own.  content is what is published, or the hash expected by the others.
Receive(h) ==
  /\ op[h].at = "idle"
  /\ \E kind \in Kinds, f \in Files, c \in Contents \union {None}, id \in 0 .. granted :
       /\ kind \in Publishing => c # None
       /\ kind \in {"release", "download"} => c = None
       /\ kind = "release" <=> id # 0
       /\ op' = [op EXCEPT ![h] = [at |-> "waiting", kind |-> kind, file |-> f,
                                   content |-> c, id |-> id, clean |-> TRUE]]
       /\ held' = {l \in held : l.id # id}
  /\ UNCHANGED <<file, leases, lock, granted, now>>

AtLock(h, kinds) == op[h].at = "waiting" /\ op[h].kind \in kinds /\ lock[op[h].file] = None

Holding(h, kinds) == op[h].at = "holding" /\ op[h].kind \in kinds

\* The with block is left right away: the request has changed no file.
Answer(h) == op' = [op EXCEPT ![h] = Idle] /\ UNCHANGED lock

\* The with block goes on; content is what the handler has read.
Keep(h, c) ==
  /\ op' = [op EXCEPT ![h].at = "holding", ![h].content = c, ![h].clean = TRUE]
  /\ lock' = [lock EXCEPT ![op[h].file] = h]

Unlock(h) ==
  /\ op' = [op EXCEPT ![h] = Idle]
  /\ lock' = [lock EXCEPT ![op[h].file] = None]

\* active_lease_count forgets what has expired.
Count(f) == leases' = [leases EXCEPT ![f] = Running(f)]

-----------------------------------------------------------------------------
(* acquire_lease and release_lease *)

\* not_found, precondition_failed, or the bytes are the ones asked for.
CheckForLease(h) ==
  /\ AtLock(h, {"acquire"})
  /\ LET f == op[h].file
         matches == file[f] # None /\ op[h].content \in {None, file[f]}
     IN IF matches THEN Keep(h, file[f]) ELSE Answer(h)
  /\ UNCHANGED <<file, leases, granted, now, held>>

GrantLease(h) ==
  /\ Holding(h, {"acquire"})
  /\ granted < MaxLeases
  /\ granted' = granted + 1
  /\ \E ttl \in Ttls :
       LET f == op[h].file
           lease == [id |-> granted', file |-> f, content |-> op[h].content, expires |-> now + ttl]
       IN /\ leases' = [leases EXCEPT ![f] = Running(f) \union {Row(granted', now + ttl)}]
          /\ held' = IF op[h].clean THEN held \union {lease} ELSE held
  /\ Unlock(h)
  /\ UNCHANGED <<file, now>>

\* Without the bound a lease would be granted: the handler is dropped instead.
LeaseBound(h) ==
  /\ Holding(h, {"acquire"})
  /\ granted = MaxLeases
  /\ Unlock(h)
  /\ UNCHANGED <<file, leases, granted, now, held>>

\* Gives back the file's leases, all of them.
FaultyReleaseLease(h) ==
  /\ AtLock(h, {"release"})
  /\ leases' = [leases EXCEPT ![op[h].file] = {}]
  /\ Answer(h)
  /\ UNCHANGED <<file, granted, now, held>>

\* An id the file does not have releases nothing.
ReleaseLease(h) ==
  /\ AtLock(h, {"release"})
  /\ LET f == op[h].file
     IN leases' = [leases EXCEPT ![f] = {row \in Running(f) : row.id # op[h].id}]
  /\ Answer(h)
  /\ UNCHANGED <<file, granted, now, held>>

-----------------------------------------------------------------------------
(* publish_temp and do_PUT *)

\* already_present, which only /hydrate asks; in_use; or go on.
CheckForPublish(h) ==
  /\ AtLock(h, Publishing)
  /\ LET f == op[h].file
         present == op[h].kind = "hydrate" /\ file[f] = op[h].content
     IN /\ IF present THEN UNCHANGED leases ELSE Count(f)
        /\ IF present \/ Running(f) # {} THEN Answer(h) ELSE Keep(h, op[h].content)
  /\ UNCHANGED <<file, granted, now, held>>

\* os.replace, and the hash of what is there now for the answer.
Publish(h) ==
  /\ Holding(h, Publishing)
  /\ file' = [file EXCEPT ![op[h].file] = op[h].content]
  /\ Unlock(h)
  /\ UNCHANGED <<leases, granted, now, held>>

-----------------------------------------------------------------------------
(* /evict *)

\* A mismatch is answered and the lock is not given back.
FaultyCheckForEvict(h) ==
  /\ AtLock(h, {"evict"})
  /\ LET f == op[h].file
         named == file[f] # None /\ op[h].content # None
     IN /\ IF named THEN Count(f) ELSE UNCHANGED leases
        /\ IF named /\ Running(f) = {}
             THEN IF file[f] = op[h].content THEN Keep(h, op[h].content)
                  ELSE op' = [op EXCEPT ![h] = Idle] /\ lock' = [lock EXCEPT ![f] = h]
             ELSE Answer(h)
  /\ UNCHANGED <<file, granted, now, held>>

\* Compares no hash.
FaultyEvictAnything(h) ==
  /\ AtLock(h, {"evict"})
  /\ LET f == op[h].file
         named == file[f] # None /\ op[h].content # None
     IN /\ IF named THEN Count(f) ELSE UNCHANGED leases
        /\ IF named /\ Running(f) = {} THEN Keep(h, op[h].content) ELSE Answer(h)
  /\ UNCHANGED <<file, granted, now, held>>

\* not_found, expected_sha256 is required, in_use, mismatch, or go on.
CheckForEvict(h) ==
  /\ AtLock(h, {"evict"})
  /\ LET f == op[h].file
         named == file[f] # None /\ op[h].content # None
     IN /\ IF named THEN Count(f) ELSE UNCHANGED leases
        /\ IF named /\ Running(f) = {} /\ file[f] = op[h].content
             THEN Keep(h, op[h].content) ELSE Answer(h)
  /\ UNCHANGED <<file, granted, now, held>>

Evict(h) ==
  /\ Holding(h, {"evict"})
  /\ file' = [file EXCEPT ![op[h].file] = None]
  /\ Unlock(h)
  /\ UNCHANGED <<leases, granted, now, held>>

-----------------------------------------------------------------------------
(* GET /slots/<filename>/content *)

\* The answer is streamed under the lock, at the speed of the client.
OpenDownload(h) ==
  /\ AtLock(h, {"download"})
  /\ IF file[op[h].file] = None THEN Answer(h) ELSE Keep(h, None)
  /\ UNCHANGED <<file, leases, granted, now, held>>

EndDownload(h) ==
  /\ Holding(h, {"download"})
  /\ Unlock(h)
  /\ UNCHANGED <<file, leases, granted, now, held>>

-----------------------------------------------------------------------------
(* The surroundings *)

\* The llama-server saves a slot, over whatever is there.
WorkerSaves(f) ==
  /\ \E c \in Contents : file' = [file EXCEPT ![f] = c]
  /\ op' = [h \in Handlers |-> [op[h] EXCEPT !.clean = @ /\ op[h].file # f]]
  /\ held' = {l \in held : l.file # f}
  /\ UNCHANGED <<leases, lock, granted, now>>

\* The process dies and starts again: files stay, threads and leases go.
Restart ==
  /\ leases' = [f \in Files |-> {}]
  /\ lock' = [f \in Files |-> None]
  /\ op' = [h \in Handlers |-> Idle]
  /\ held' = {}
  /\ UNCHANGED <<file, granted, now>>

Tick ==
  /\ now < Horizon
  /\ now' = now + 1
  /\ UNCHANGED <<file, leases, lock, op, granted, held>>

-----------------------------------------------------------------------------
Enter(h) ==
  CheckForLease(h) \/ ReleaseLease(h) \/ CheckForPublish(h) \/ CheckForEvict(h) \/ OpenDownload(h)

Finish(h) == GrantLease(h) \/ LeaseBound(h) \/ Publish(h) \/ Evict(h) \/ EndDownload(h)

Next ==
  \/ \E h \in Handlers : Receive(h) \/ Enter(h) \/ Finish(h)
  \/ \E f \in Files : WorkerSaves(f)
  \/ Restart
  \/ Tick

Spec == Init /\ [][Next]_vars

(***************************************************************************)
(* A thread in a with block runs on; the client of a download reads on or  *)
(* goes away (the code sets no socket timeout).  A thread waiting for a    *)
(* lock that is free again and again gets it some day: threading.Lock      *)
(* promises no order, the assumption is that no thread is always passed    *)
(* over.  Nothing is assumed of requests, saves and restarts.              *)
(***************************************************************************)
Fairness == \A h \in Handlers : SF_vars(Enter(h)) /\ WF_vars(Finish(h))

FairSpec == Spec /\ Fairness

-----------------------------------------------------------------------------
(* Properties *)

Requests ==
  [at : {"idle", "waiting", "holding"}, kind : Kinds, file : Files,
   content : Contents \union {None}, id : Nat, clean : BOOLEAN]

TypeOK ==
  /\ file \in [Files -> Contents \union {None}]
  /\ leases \in [Files -> SUBSET [id : Nat, expires : Nat]]
  /\ lock \in [Files -> Handlers \union {None}]
  /\ op \in [Handlers -> Requests]
  /\ granted \in Nat
  /\ now \in Nat
  /\ held \subseteq [id : Nat, file : Files, content : Contents, expires : Nat]

\* While a client's lease runs, the file keeps the bytes it had when the lease
\* was granted: no eviction, upload, hydration or PUT of any other request, and no
\* other client's release, takes that away.
HeldBytesStay == \A l \in held : l.expires > now => file[l.file] = l.content

\* A file goes only to an eviction that names its content, unless the
\* llama-server has saved over it between the eviction's hash and its unlink.
EvictsWhatItNames ==
  [][\A f \in Files : file[f] # None /\ file'[f] = None =>
       \E h \in Handlers :
         /\ Holding(h, {"evict"}) /\ op[h].file = f
         /\ op[h].clean => file[f] = op[h].content]_vars

\* Whatever the outcome, a request gives the filename's lock back: nobody waits
\* for it for ever.
RequestsFinish == \A h \in Handlers : op[h].at = "waiting" ~> op[h].at = "idle"
=============================================================================
