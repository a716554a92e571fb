------------------------------ MODULE Inventory ------------------------------
(***************************************************************************)
(* How the router follows its workers file, and what it knows of a worker: *)
(* maybe_reload_inventory and worker_readiness, as the threads run them    *)
(* that look at the workers, to route a request, to answer a status call   *)
(* or to poll readiness.  A thread reloads first if it is time and the     *)
(* file has changed, takes a snapshot of the workers, and then looks one   *)
(* of them up in the readiness cache or probes it.  At startup the workers *)
(* are loaded first, and the fingerprint of the file is computed later.    *)
(*                                                                         *)
(* An inventory is its version: the operator's edits number the contents   *)
(* of the file and never bring an old content back, so a version is its    *)
(* own fingerprint.  One worker id is looked at, whose URL every version   *)
(* changes.  The counters rebuilt by a reload are in ReloadedAdmission.    *)
(***************************************************************************)
EXTENDS Naturals

CONSTANTS
  Threads,       \* threads that look at the workers
  LastVersion,   \* bound: edits of the file
  Valid,         \* the versions load_workers accepts
  None           \* no readiness row, no fingerprint

Versions == 0 .. LastVersion

\* The router does not start with an invalid inventory.
ASSUME InventoryAssumption ==
  /\ LastVersion \in Nat
  /\ Valid \subseteq Versions /\ 0 \in Valid
  /\ None \notin Versions

VARIABLES
  file,          \* the version in the workers file
  installed,     \* self.workers
  fingerprint,   \* self.inventory_fingerprint
  row,           \* the worker's row in readiness_cache
  step,          \* where a thread is
  seen,          \* the fingerprint a thread has computed
  workers,       \* the workers it has in hand: loaded, later its snapshot
  verdict,       \* the outcome of its probe
  unread,        \* history: a version startup has fingerprinted without having loaded it
  passed,        \* history: versions a probe of which came out well
  overlapped     \* history: two reloads have overlapped

locals == <<step, seen, workers, verdict>>
vars == <<file, installed, fingerprint, row, locals, unread, passed, overlapped>>

Row(version, ok, fresh) == [version |-> version, ok |-> ok, fresh |-> fresh]

Reloading == {"load", "swap", "clear", "record"}
Steps == Reloading \union {"starting", "idle", "snapshot", "lookup", "probe", "store", "route"}

\* load_workers has read the file; no thread runs yet.
Init ==
  /\ file = 0
  /\ installed = 0
  /\ fingerprint = None
  /\ row = None
  /\ step = [t \in Threads |-> "starting"]
  /\ seen = [t \in Threads |-> 0]
  /\ workers = [t \in Threads |-> 0]
  /\ verdict = [t \in Threads |-> FALSE]
  /\ unread = None
  /\ passed = {}
  /\ overlapped = FALSE

\* compute_inventory_fingerprint reads the file again, and the router serves.
Start ==
  /\ fingerprint = None
  /\ fingerprint' = file
  /\ unread' = IF file = installed THEN None ELSE file
  /\ step' = [t \in Threads |-> "idle"]
  /\ UNCHANGED <<file, installed, row, seen, workers, verdict, passed, overlapped>>

Goto(t, s) == step' = [step EXCEPT ![t] = s]

\* The thread has looked at the worker: its locals are gone.
Return(t) ==
  /\ Goto(t, "idle")
  /\ workers' = [workers EXCEPT ![t] = 0]
  /\ verdict' = [verdict EXCEPT ![t] = FALSE]

\* The operator replaces the workers file.
Edit ==
  /\ file < LastVersion
  /\ file' = file + 1
  /\ UNCHANGED <<installed, fingerprint, row, locals, unread, passed, overlapped>>

-----------------------------------------------------------------------------
(* maybe_reload_inventory *)

\* The interval has not passed, the file cannot be read, or nothing has changed.
NoReload(t) ==
  /\ step[t] = "idle"
  /\ Goto(t, "snapshot")
  /\ UNCHANGED <<file, installed, fingerprint, row, seen, workers, verdict, unread, passed, overlapped>>

\* The interval has passed: other threads may find that too before the next time is
\* set, or this reload may take longer than the interval.
Check(t) ==
  /\ step[t] = "idle"
  /\ file # fingerprint
  /\ Goto(t, "load")
  /\ seen' = [seen EXCEPT ![t] = file]
  /\ overlapped' = (overlapped \/ \E u \in Threads : step[u] \in Reloading)
  /\ UNCHANGED <<file, installed, fingerprint, row, workers, verdict, unread, passed>>

\* Goes back to the inventory of the start when the file is not valid.
FaultyLoad(t) ==
  /\ step[t] = "load"
  /\ workers' = [workers EXCEPT ![t] = IF file \in Valid THEN file ELSE 0]
  /\ Goto(t, "swap")
  /\ UNCHANGED <<file, installed, fingerprint, row, seen, verdict, unread, passed, overlapped>>

\* load_workers reads the file again; an invalid one changes nothing.
Load(t) ==
  /\ step[t] = "load"
  /\ \/ file \in Valid /\ workers' = [workers EXCEPT ![t] = file] /\ Goto(t, "swap")
     \/ file \notin Valid /\ UNCHANGED workers /\ Goto(t, "snapshot")
  /\ UNCHANGED <<file, installed, fingerprint, row, seen, verdict, unread, passed, overlapped>>

Swap(t) ==
  /\ step[t] = "swap"
  /\ installed' = workers[t]
  /\ Goto(t, "clear")
  /\ UNCHANGED <<file, fingerprint, row, seen, workers, verdict, unread, passed, overlapped>>

Clear(t) ==
  /\ step[t] = "clear"
  /\ row' = None
  /\ Goto(t, "record")
  /\ UNCHANGED <<file, installed, fingerprint, seen, workers, verdict, unread, passed, overlapped>>

\* Computes the fingerprint anew.
FaultyRecord(t) ==
  /\ step[t] = "record"
  /\ fingerprint' = file
  /\ Goto(t, "snapshot")
  /\ UNCHANGED <<file, installed, row, seen, workers, verdict, unread, passed, overlapped>>

Record(t) ==
  /\ step[t] = "record"
  /\ fingerprint' = seen[t]
  /\ Goto(t, "snapshot")
  /\ UNCHANGED <<file, installed, row, seen, workers, verdict, unread, passed, overlapped>>

-----------------------------------------------------------------------------
(* workers_snapshot and worker_readiness *)

Snapshot(t) ==
  /\ step[t] = "snapshot"
  /\ workers' = [workers EXCEPT ![t] = installed]
  /\ Goto(t, "lookup")
  /\ UNCHANGED <<file, installed, fingerprint, row, seen, verdict, unread, passed, overlapped>>

Eligible(t, ok) ==
  \/ ok /\ Goto(t, "route") /\ UNCHANGED <<workers, verdict>>
  \/ ~ok /\ Return(t)

\* A row never gets too old.
FaultyLookup(t) ==
  /\ step[t] = "lookup"
  /\ \/ row # None /\ Eligible(t, row.ok)
     \/ row = None /\ Goto(t, "probe") /\ UNCHANGED <<workers, verdict>>
  /\ UNCHANGED <<file, installed, fingerprint, row, seen, unread, passed, overlapped>>

\* A row under the worker's id that is not too old answers; the poller, and whoever
\* needs the sidecar's state, probes in any case.
Lookup(t) ==
  /\ step[t] = "lookup"
  /\ \/ row # None /\ row.fresh /\ Eligible(t, row.ok)
     \/ Goto(t, "probe") /\ UNCHANGED <<workers, verdict>>
  /\ UNCHANGED <<file, installed, fingerprint, row, seen, unread, passed, overlapped>>

\* /health and /v1/models of the worker in the snapshot; no lock is held.
Probe(t) ==
  /\ step[t] = "probe"
  /\ \E ok \in BOOLEAN :
       /\ verdict' = [verdict EXCEPT ![t] = ok]
       /\ passed' = IF ok THEN passed \union {workers[t]} ELSE passed
  /\ Goto(t, "store")
  /\ UNCHANGED <<file, installed, fingerprint, row, seen, workers, unread, overlapped>>

\* A row is as old as the beginning of its probe.
Store(t) ==
  /\ step[t] = "store"
  /\ \E fresh \in BOOLEAN : row' = Row(workers[t], verdict[t], fresh)
  /\ Eligible(t, verdict[t])
  /\ UNCHANGED <<file, installed, fingerprint, seen, unread, passed, overlapped>>

\* The worker of the snapshot is eligible: a request may go to it.
Route(t) ==
  /\ step[t] = "route"
  /\ Return(t)
  /\ UNCHANGED <<file, installed, fingerprint, row, seen, unread, passed, overlapped>>

\* readiness_poll_interval passes.
Expire ==
  /\ row # None /\ row.fresh
  /\ row' = [row EXCEPT !.fresh = FALSE]
  /\ UNCHANGED <<file, installed, fingerprint, locals, unread, passed, overlapped>>

-----------------------------------------------------------------------------
Reload(t) == Check(t) \/ Load(t) \/ Swap(t) \/ Clear(t) \/ Record(t)
Readiness(t) == Snapshot(t) \/ Lookup(t) \/ Probe(t) \/ Store(t) \/ Route(t)
Move(t) == NoReload(t) \/ Reload(t) \/ Readiness(t)

Next == Start \/ Edit \/ Expire \/ \E t \in Threads : Move(t)

Spec == Init /\ [][Next]_vars

(***************************************************************************)
(* The readiness poller looks at the workers for ever, and each time the   *)
(* interval has passed a thread that looks also checks the file; probes    *)
(* have timeouts; time passes.                                             *)
(***************************************************************************)
Fairness ==
  /\ \A t \in Threads : WF_vars(Move(t)) /\ SF_vars(Check(t))
  /\ WF_vars(Start) /\ WF_vars(Expire)

FairSpec == Spec /\ Fairness

-----------------------------------------------------------------------------
(* Properties *)

TypeOK ==
  /\ file \in Versions
  /\ installed \in Valid
  /\ fingerprint \in Versions \union {None}
  /\ row \in [version : Valid, ok : BOOLEAN, fresh : BOOLEAN] \union {None}
  /\ step \in [Threads -> Steps]
  /\ seen \in [Threads -> Versions]
  /\ workers \in [Threads -> Valid]
  /\ verdict \in [Threads -> BOOLEAN]
  /\ unread \in Versions \union {None}
  /\ passed \subseteq Valid
  /\ overlapped \in BOOLEAN

\* A reload never puts back workers that a later version has replaced, whatever is
\* edited while it runs, as long as reloads do not overlap.
NeverBackwards == [][installed' >= installed \/ overlapped']_vars

\* When the operator has done editing, the workers are those of the file, unless reloads
\* have overlapped, the file is not valid, or its last edit came between the two reads of
\* startup: then the router holds its fingerprint and not its workers.
FollowsFile == <>[](installed = file \/ overlapped \/ file \notin Valid \/ file = unread)

\* "the daemon hot-reloads the file on --inventory-reload-interval seconds", from the
\* moment it has first read it.
HotReloads == <>[](installed = file \/ overlapped \/ file \notin Valid)

\* What the router knows of a worker is in the end about the worker it has, however
\* late a probe of an earlier one comes back.
RowsCatchUp == <>[](row # None => row.version = installed)

\* A changed worker is eligible only after a check of it has passed.
ChecksComeFirst == \A t \in Threads : step[t] = "route" => workers[t] \in passed
=============================================================================
