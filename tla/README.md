# Cachy-Router: a verification development

TLA+ models of Cachy-Router, the runs of TLC that check them on small
instances, and TLAPS proofs about them for every instance. Paths below are
relative to the repository; line numbers are those of the commit modelled.

1. [The system](#1-the-system): components, state, operations, what is hard
2. [Modules](#2-modules) and how they correspond to the code
3. [Runs](#3-runs): what each asks, its bounds, the fairness it assumes
4. [Proofs](#4-proofs)
5. [What disagrees with the documentation](#5-where-code-and-documentation-disagree)
6. [What is not modelled](#6-what-is-not-modelled), and the [plan](#7-plan)

## 1. The system

A router daemon presents one OpenAI-style endpoint in front of several
llama-server workers. Normal requests are proxied to a ready worker. Cached
requests ("build", "refresh", "use", "auto") save the KV slot of a prompt prefix
as a content-addressed blob in a durable store and later restore it into a slot
of any compatible worker. A sidecar process beside each worker moves slot files
over HTTP.

```
 client --> router daemon ---- proxy ----> llama-server worker
              |   |  \                          | saves / restores
              |   |   \--- slot files ---> worker sidecar --> slot directory
              |   |
              |   +-- registry.json, manifests/, blobs/, registry-wal.jsonl
              +------ registry-leases.json   (shared by routers on one cache root)
 operator --> store audit / tenant deletion / blob GC (same files, offline tool)
 operator --> remote stack (starts and stops the processes over SSH)
```

| Component (source) | State | Operations | What is hard |
|---|---|---|---|
| Proxy path and admission (`scripts/cache_router_daemon.py`) | `worker_active_requests`, `worker_queue_depths`, one condition variable, request gauge | `proxy`, `acquire_worker_slot`, `finish_worker_attempt`, `begin_request`, `finish_request` | one thread per request; all workers' queues share one condition; timeouts; fallback after a slot was taken; slot handed from one `finally` to another for streams |
| Worker inventory and readiness (same file) | `workers`, fingerprint, `readiness_cache`, counters rebuilt on reload | `maybe_reload_inventory`, `worker_readiness`, `readiness_loop` | any thread reloads, unlocked; counters are rebuilt from a stale snapshot; probes finish after a reload |
| Worker ranking (same file) | `cold_route_cursor` | `ordered_workers`, `rotate_cold_candidates`, `candidate_workers` | a rank is put together from counters read one after the other while other requests change them; one cursor for all models |
| Registry leases (same file) | `registry-leases.json` | `acquire_registry_lease`, `release_registry_lease`, pruning | several routers; clock read before the file lock; expiry under the holder; restarts |
| Registry, manifests, blobs, log (same file, `scripts/cache_router_transport.py`) | `registry.json`, `manifests/`, `blobs/`, `registry-wal.jsonl` | `build_cache`, registry writes of `use_cache`, `quarantine_cache_entry`, `replay_registry_wal`, `rebuild_registry_from_manifests` | a crash between any two writes; read-modify-write of a whole file; rotting blobs |
| Cached requests (same file) | `CacheRouterState.lock`, worker slots, slot files | `handle_cached_completion`, `build_cache`, `ensure_entry`, `use_cache`, hydration, validation | five modes, several fall-backs, restore on one of many candidates; no lease covers a worker's slot |
| Strict keys and policies (same file) | none | `strict_cache_key_fields`, `find_entry`, policy denial reasons | what may share a slot with what |
| Decision events and replay (same file, `scripts/replay_cache_router_decisions.py`, `scripts/validate_cache_router_contracts.py`) | the event log | `emit_event`, the replay's and the prototype's decisions, the contract checks | the same decision is told by several programs with code of their own |
| Worker sidecar (`scripts/cache_router_worker_sidecar.py`) | slot files, a lock per filename, leases in memory | `/lease/acquire`, `/lease/release`, `/upload`, `/hydrate`, `PUT`, `/evict`, `GET content` | check then act under a lock; the llama-server writes the same files and knows no lock; restarts forget leases |
| Store audit, tenant deletion, GC (`scripts/cache_router_store_audit.py`) | the store's files | `tenant_delete`, `gc_unreferenced_blobs`, `rebuild_registry` | no lock or lease; next to live routers |
| Stack lifecycle (`scripts/cache_router_remote_stack.py`) | PID files, the legacy server's record | start, stop, restart, test, the worker commands | every remote call may be the last; PIDs are given out again |
| Agent loop, correctness probe, suffix gate (`scripts/cache_router_agent_loop.py`, `cache_router_correctness_probe.py`, `cache_router_suffix_benchmark_gate.py`) | what they have asked and seen | a cache cycle, a trial, a benchmark, each with a verdict | a gate must not pass what it has not seen |
| Proofs of concept, setup, preflight, smoke tests, document validators | none of their own | measurements, text generation, linters | - |

**Interactions.** Cached requests take a registry lease for each build and each
restore attempt, hold the process-wide `CacheRouterState.lock`, move slot files
through the sidecar (or locally, or over SSH), and write manifest, registry and
log in that order. The proxy path uses neither leases nor store; it shares the
inventory, the readiness cache and the metrics with everything else.

**What makes each component correct.**
Admission: the two integers per worker count what they are meant to count on every
way out of a request; the limits hold; no wakeup is lost; everybody is answered.
Leases: while leases run they exclude each other, and nobody but its owner ends
one. Store: nothing dangles after a crash, what was published stays, a quarantine
sticks, and what was prepared is found again. Sidecar: the bytes a client has
leased stay, an eviction removes the bytes it names, every request gives its lock
back. Inventory: the installed workers follow the file. Maintenance: what is
deleted stays deleted and what is referenced is not collected. Cached requests: one
answer or one refusal each, and a client that is careful never gets an answer to
another prompt. Evidence: events, audit rows, replay and verdicts tell the same
story. Stack: what a command has started it can find and stop again.

`PROJECT.json` has the complete lists of components and of hazards, each at its
line, with the properties that are meant to catch it.

## 2. Modules

Constants have named assumptions; there is one action per critical section, remote
call or file write; properties are made of named parts; recursion
is written as a recursive function over a range, so that proofs reach it. An operator
whose name begins with `Faulty` (or `Forgetful`) is wrong on purpose: substituted for
the operator after it, it breaks the property it is listed with under `mutants`.

| Part of the system | Modules | Proofs |
|---|---|---|
| Admission | `WorkerSlots` (abstract), `WorkerAdmission` | `Admission_proofs` |
| Ranking in front of admission | `RankedAdmission`, extends `WorkerAdmission` | `Admission_proofs` |
| Reloads under running requests | `ReloadedAdmission`, extends `WorkerAdmission` | `Admission_proofs` |
| Inventory and readiness cache | `Inventory` | `Inventory_proofs` |
| Registry leases | `RegistryLease` | `RegistryLease_proofs` |
| Files of the store | `RegistryStore` | `Store_proofs` |
| Offline tool next to routers | `StoreMaintenance`, extends `RegistryStore` | `Store_proofs` |
| Cached completions | `CachedAnswer` (abstract), `CachedRequest` | `CachedRequest_proofs` |
| Sidecar | `Sidecar` | `Sidecar_proofs` |
| Keys, policies, lookup; soundness of a manifest | `CacheKeys`; `StoreAudit` (`Picking`: parts of a sequence) | `Evidence_proofs` |
| Events, contract, a whole request | `DecisionEvents`, `DecisionContract`, `RouterEvidence` | `Evidence_proofs` |
| Replay and prototype | `Replay` | `Evidence_proofs` |
| Probes and agent loop | `CorrectnessProbe`, `SuffixGate`, `AgentLoop` | `Evidence_proofs` |
| Processes of a host | `StackLifecycle` | `StackLifecycle_proofs` |

A module `MCX` instantiates `X` for TLC.

### WorkerSlots, WorkerAdmission

One action per critical section of `scheduler_lock`, or per step of a request thread
between two of them. `active`, `depth` and `inflight` are `worker_active_requests`,
`worker_queue_depths` and `metrics["active_requests"]`; `pc` is the program counter
of a request's thread; `worker` and `fallbacks` are the candidates of `proxy`'s
loop. `notify_all` moves every parked thread, of whichever worker, to `woken`;
`wait(timeout)` ends by notification or by `TimeOut`. A streaming request leaves the
first `finally` clause with its slot (`StreamOpens`), and either reaches the second
(`StreamEnds`) or loses its client while the response head is sent (`ClientGone`).
Threads that reach `aborted` are gone for good. `queue_wait_timeout` is positive: at
0 a thread in line times out at its first look and the queue does not exist.

`WorkerSlots` is the abstract specification: a worker is the set of requests it
serves and the set in line for it. `ImplementsSlots` maps the program counters to
these sets.

### RankedAdmission

`WorkerAdmission` allows any candidates in any order; here `candidate_workers` picks
them. A ranking (`scan`) asks one worker after the other, so its rows hold counters
of different moments, and sorts them at its end. `cursor` is `cold_route_cursor`,
counted modulo `Wheel`, a common multiple of the numbers of candidates it is reduced
by; `first` is a history variable with the worker that came first at each turn of the
cursor. Rows are equal in rank when the scores are; `Sorted` is then the one
permutation that keeps equals in the order in which they were asked, as Python's
`sorted` does. `AnyOrder` says that all this implements `WorkerAdmission`.

### ReloadedAdmission

`Step` of a request thread interleaved with the four critical sections of
`maybe_reload_inventory` (load, copy the counters, swap the workers, rebuild the
counters and notify). A reload may drop workers and bring them back under running
requests, and two reloads may overlap, since the interval is checked without a lock.
The counters of a worker can then be wrong for as long as the router runs: a request
that takes or gives back a slot between the copy and the rebuild is overwritten, and
so is a dropped worker's count. `disturbed` is a history variable with the workers to
which that may have happened; `CountsKept` says that it happens to no other.

A reload may also change a worker's capacity (`n_parallel`, `n_seq_max`). The counters
belong to worker ids, but `acquire_worker_slot` takes the capacity from the worker object
the request has ranked, once, before it waits: `offered` are the capacities of
`self.workers`, `ranked` those each request goes by until it ends. When a capacity is
lowered, requests that own slots or wait under the old one keep to it, so that more slots
may be owned than the new one allows; `CapacityHonoured` says what is left of the limit:
of the requests that go by a capacity of n or less, at most n own a slot. When it is
raised, a request that already waits goes on waiting by the old one (`AsleepOnlyWhenFull`).

### Inventory

How the installed workers follow the workers file, and what the router knows of a
worker. An inventory is its version, a number that is its own fingerprint; one worker
id is looked at, whose URL every version changes. `file`, `installed`, `fingerprint`
and `row` are the file, `self.workers`, `inventory_fingerprint` and the worker's row
in `readiness_cache`; `step` is the program counter of a thread in
`maybe_reload_inventory` and `worker_readiness`. The file is read twice, by `Check`
and by `Load`, and edited in between; probes hold no lock. At startup it is the other
way round: `Init` is the router with its workers loaded, `Start` takes the fingerprint,
and an edit may come in between. `unread` is then the version fingerprinted and not
loaded; it, `passed` and `overlapped` are history variables.

### RegistryLease

The rows of `registry-leases.json`, routers that ask, work and give back, a clock,
and restarts that give a router a new owner id (`new_opaque_id` at start). A read
and write of the file under `flock` is one action; the clock is read one action
earlier (`Ask`), as in the code. Nothing renews a lease, and nobody looks at one
again before the work is published.

### RegistryStore

The files of a cache root and routers that write them one file at a time: each
stage of a job is the next `os.replace` or appended line, and `Crash` may come
between any two. The registry is always loaded whole and saved whole
(`LoadRegistry`, `SaveRegistry`). Of a row only the blob and the status are kept; of
the log only what the replay computes from it: the keys prepared and not committed. A
rebuild saves the registry (`Rebuild`) and then writes its log row (`LogRebuild`), with
room for a crash in between. A
lease is taken to outlast its job here; what happens when it does not is the subject
of `RegistryLease`.

### StoreMaintenance

`cache_router_store_audit.py --apply` added to the routers of `RegistryStore`: a
deletion writes one tombstone after the other and then the registry, a collection
reads all manifests and then unlinks one blob after the other, `--write-registry`
files what it audited. The tool takes no lock or lease and may be killed at any step
and run again. `Offline` says whether it is used as documented, with the routers
down.

### CachedRequest, CachedAnswer

A request of `handle_cached_completion` from its arrival to `finish_request`. A malformed
one is answered before `begin_request` (`Malformed`); `begun` and `counted` are the calls
of `begin_request` and `finish_request`, which `CountedOnce` compares. `at` is
where its thread is; `lock` is `CacheRouterState.lock`, one per router; a request
holds a registry lease while it is in `Building` or `Using`. What is in a slot, a
slot file or a blob is the prefix it continues, or `"foreign"`. `shared` says whether
anything but one router's cached requests reaches the workers: other routers,
proxied requests, other clients. A blob's name is its content; manifest and row are
one `entry` (their separate writes are `RegistryStore`). Whether a worker appends a
bare suffix to what it has restored is up to the worker (`Appends`).

`CachedAnswer` is what the client is promised: it asks, and gets one answer or one
refusal; if it is careful, never an answer to another prompt. A request is careful
that sends the full prompt or has the router validate against a cold recompute; one
that asks for suffix-only generation unchecked is careful only if nothing else
reaches the slots.

### Sidecar

One handler thread per request, a lock per filename, leases in memory. A request is
received, checks under the lock, may be preempted, and acts; `WorkerSaves` is the
llama-server writing the same file without the lock. `held` is a history variable,
the clients' view: a lease is in it from its grant until its client asks for release,
the sidecar restarts or the llama-server saves over the file. A request's `clean` flag
says whether the llama-server has saved since the request looked.

### CacheKeys, StoreAudit, DecisionEvents, RouterEvidence

A cached request as a function: from the registry and the workers it meets to the
registry it leaves, the events it writes and the answer (`RouterEvidence!Answers`), one
request at a time. A key is `Hash` of a record of the strict fields (`KeyFields` in
`CacheKeys`; `ToString` in the run, and section 4 says what the proofs assume of it); the
worker part of it is the model, everything of the runtime at once, and the draft model
with its own rules. A worker whose row lacks strict fields takes part: no key is derived
on it, a build it is selected for fails, and no entry fits it. So does one that does not
count the prefix's tokens when a key is derived (`mute`): `request_cache_key_candidates`
passes over it without an event, and with it over the entries that only it fits. A build
may fail on the worker (`BuildFailed`: erase, prefill, save, a slot file that is not there,
upload, hash), and a proxied prompt may go from worker to worker or find none that answers
(`ProxyReasons`, `Proxied`). `StoreAudit` is when a
manifest is sound, once by the router's rebuild and once by the offline audit; `Fates` in
`AgentLoop` is what may have become of a manifest when `RebuildsAgree` compares the two: a
quarantine (`"corrupt"` counts as one for the router, though nothing writes it), a
tombstone, a blob that is damaged or gone, a copy elsewhere, an encryption.
`DecisionEvents` has one operator per place that writes an event, and `emit_event`'s
audit rows. The loop of `use_cache` over the workers (`Attempts`) is the recursive
function `failed`, what is left after i failed attempts; an answer leaves the loop
(`AnsweredOn`), and so does the last failure or one that is final (`GivenUp`).

### DecisionContract, Replay

What `validate_cache_router_contracts.py` asks of events and fixtures; what the
offline replay and the ranking prototype decide for a request. Both are functions of
the workers, the registry and the policy; `AgentLoop` translates the router's own
(`ReplayWorkers`, `ReplayManifest`, `ReplayRequest`) and compares (`ReplayAgrees`).

### CorrectnessProbe, SuffixGate, AgentLoop

How a trial, a benchmark and a cache cycle are judged, and in `AgentLoop` the whole:
clients fill a cache, blobs wear, and then one client asks, or one of the subagents
runs its requests against `RouterEvidence` and gives its verdict.

### StackLifecycle

A command is the sequence of its remote calls; any of them may be the last (`Cut`).
Loops over the workers take them in the order of the configuration (`NextWorker`), and
`File` gives each process of the stack the PID file it is found by. A command may be one
that starts no sidecar (`bare`: `--no-start-sidecar`, or another transport than http).
Processes die, PID files stay, PIDs are given out again to others. `record` is the
file with the legacy server's argv; `proof` is what the endpoint test has seen.

## 3. Runs

| Run | Instance | What it checks |
|---|---|---|
| `admission` | 3 requests, 2 workers of one slot, a line of 1 | `CountersExact`, `NobodyOverOrUnder`; refinement `ImplementsSlots`; liveness `RequestsAnswered` |
| `ranking` | 2 requests, 2 workers of a model, with and without preference and fallback, queueing off | `EqualScoresRotate`; action property `LightestFirst`; refinement `AnyOrder` |
| `reload` | a line of 1 and 2 reloads; 2 requests and 2 workers of one slot that may be dropped, or 3 requests for a worker of one slot or two while reloads overlap | `CountsKept`, `ReloadedOverOrUnder` |
| `inventory` | 2 threads, 3 edits of the file, the second invalid | action property `NeverBackwards`; liveness `FollowsFile`, `RowsCatchUp` |
| `lease` | 2 routers, 2 keys, lease time 2, clock to 5, one restart each | `LeasesExclude`, `NothingLeftBehind`; action property `OnlyOwnerEnds` |
| `store` | 1 router, 2 keys, 2 blobs that may rot | `NothingDangles`; action properties `PublishedStays`, `QuarantineSticks`; liveness `PreparedRecovered` |
| `maintenance` | the same with the tool, 2 tenants, routers down while it runs | action properties `ReferencedStay`, `CollectedMeansGone`, `TenantRowsLeaveLast`, `NoRouterResurrects` |
| `cached` | 2 requests of 10 kinds, 2 routers, 2 workers, 2 keys, damaged blobs | `FiledUnderOwnPrefix`, `QuarantinedOnlyChecked`, `CountedOnce`; refinement with liveness `AnswersRefined` |
| `sidecar` | 1 file, 2 contents, 2 handlers, lease time 1, 2 leases, clock to 2 | `HeldBytesStay`; action property `EvictsWhatItNames`; liveness `RequestsFinish` |
| `stack` | 1 worker, 4 PIDs that are reused | `Owned`, `ProvedByFreshWorker`; action property `LegacyOnRecord` |
| `evidence` | 2 workers in 6 fleets, up to 2 earlier requests, 2 runs of a benchmark | `RightEntry`, `RefusalsExplained`, `TrailValid`, `AuditTells`, `ReplayAgrees`, `RebuildsAgree`, `GateHonest` |
| `slot_leak` | 2 requests | a violation, see section 5 |

Type invariants are proved (section 4), so the runs do not repeat them; the one of
`StackLifecycle` is checked with `MCStackLifecycle.cfg` and `TypeOK` as the invariant.

**Why the bounds are enough.** *Admission*: three threads are the fewest with which one
owns a slot, one waits and one is refused by the full line or takes the slot the waiter
was woken for; two workers make a thread woken for another worker's slot, and fallback
after either kind of refusal. *Ranking*: one request ranks while the other takes, holds or
gives back a slot between two of its reads. *Reloads*: two requests let one hold a slot
and one wait for it, or a worker's count change twice, under a reload; two reloads follow
each other so that a dropped worker comes back, or overlap; a worker grows and shrinks
again under a request that owns a slot, one that waits and one that has ranked the new
capacity. The product of these would be some ten million states; the constraint `Instance`
keeps the two apart, and the proofs cover both at once. *Inventory*: two threads reload at
once, or one probes while the other reloads; three edits let a reload meet an invalid file
and recover, and be overtaken by an edit between its two reads. *Leases*: the clock runs
past two lease times, so a lease can be granted, expire under its holder, be pruned, be
taken by the other router, and expire again; a restart makes a router meet its own old
lease. *Store and maintenance*: two keys let a refresh replace another key and let a
rebuild keep one and drop the other; two blobs let two keys, or two tenants, share one.
The number of crashes and of tool runs is not bounded. *Cached requests*: two requests
suffice for everything one request can do to another, through a slot, a slot file, an
entry, a lock or a lease; the kinds are those that take different branches, with a key of
another prefix among them; two workers let one candidate fail and the next one succeed.
*Sidecar*: filenames share nothing but the clock and the restart, so one suffices; two
handlers make every check-then-act overlap, two leases make one outlive the other.
*Stack*: three processes of the stack and the legacy server or a stranger; commands follow
each other without bound, each with or without sidecars. *Evidence*: two entries are the
fewest of which one can hide the other; the fleets differ in one respect each (model,
build, draft model, readiness, a worker whose inventory row lacks strict fields). The
proofs of section 4 remove the bounds for all safety properties.

**Symmetry** is used in `lease` (no temporal property but an action property over
the same sets), `reload` (requests and reloading threads, not the workers, since
`AnyWorker` is one of them), `maintenance` (blobs) and `stack` (PIDs). No run with
liveness uses it.

**Deadlock** is checked in `admission`, `inventory`, `lease`, `store`, `maintenance`,
`sidecar`, `stack` and `slot_leak`. It is not in `ranking` and `reload`, where every one
of the few threads may end in `aborted`, as the unbounded thread pool of the program
cannot (and `reload` runs out of reloads); nor in `cached` and `evidence`, which end
when every request is answered or the task is over.

**Fairness.** All weak unless said. `WorkerAdmission`: a thread that can run does
run; `wait(timeout)` returns; a backend answers or the socket timeout of `urlopen`
fires; a stream has finitely many tokens. Nothing makes a waiter win against
newcomers, which is why `RequestsAnswered` promises an answer and not a slot.
`RegistryStore`: a router that is down is started again and goes on writing; nothing
is assumed of workers, requests or crashes. `CachedRequest`: a request that can go on
does, as every call it makes has a timeout; its requests are finitely many, each
holds a lock for finitely many steps, so weak fairness is enough for those that wait
for it. `Inventory`: a thread runs on (probes have timeouts), the readiness poller
looks again and again, time passes, and a thread that looks again and again while the
file has changed sometimes finds the reload interval passed (strong fairness of
`Check`: between two looks the thread is elsewhere). Nothing is assumed of the
operator's edits. `Sidecar`: a thread in a `with` block runs on, and a thread waiting
for a lock that is free again and again gets it (strong fairness; `threading.Lock`
promises no order, but starves nobody in practice); the client of a download reads on
or closes, as the code sets no socket timeout. Without that last assumption one
stalled download holds up all requests for its file.

## 4. Proofs

Proved for every value of the constants under the assumptions named in the modules:
capacities and the lease time are positive, there is a worker, a key, a file; the
router starts with a valid inventory; the set of requests is finite where it is
counted; keys are neither `"foreign"` nor `"empty"`. The theorems about the
maintenance tool assume `Offline`.

* **Admission_proofs, admission.** `TypeCorrect`, `CountersAreExact`,
  `NobodyIsOverOrUnder`. The counting invariants are inductive together with typing; the
  work is in lemmas that say how the set of owners and its cardinality change when one
  thread moves. No wakeup is lost because a slot is given back and everybody notified in
  one critical section. `SlotsImplemented`: every step maps to a step of `WorkerSlots`
  or a stutter.
* **Admission_proofs, reloads.** The invariant of admission is too strong under reloads,
  since counters may be wrong and capacities change. `ReloadInvariant` keeps of it, for
  every worker, the wakeups and a bound (some capacity an inventory may give it), for the copies
  in a reloading thread's hands the bound, and for undisturbed workers the counts, of the
  tables and of the copies. The steps of requests are those of admission, worker by worker,
  with the capacities the request has ranked. The limit itself (`EachWithin`) is an
  induction over admissions: a request that gets a slot finds fewer of them owned than the
  capacity it goes by. `ReloadHonoursCapacity`, `ReloadLeavesNobodyOverOrUnder`.
* **Admission_proofs, rankings.** `RankingImplementsAdmission` says that a ranking ends in
  a step of `WorkerAdmission`, so that all that is proved of admission holds behind it.
  `RankedInv` adds where rows stand: the rows of a ranking under way are the first of the
  list it was given, each at the place it was asked at, and `first` is what the cursor's
  value picks. The lemmas about `Sorted` are what the rest stands on: the row in front has
  no heavier load than any other (`LightestIsFirst`), and among equals it is the one asked
  first, which is a different one at each of n turns (`EqualsTakeTurns`).
* **Inventory_proofs.** `ReloadsGoForward`: what a thread is about to install is in the
  file's past and, unless reloads have overlapped, not older than what is installed.
* **RegistryLease_proofs.** `LeasesAreExclusive` is not inductive: it speaks of what
  routers believe. `LeaseInv` adds that a running lease is in the file
  (`RunningIsFiled`), which every prune must preserve although its clock reading may be
  old (`StampsPast`), that the file has one owner per key, and that nothing is filed
  under an incarnation yet to come (`FiledIsKnown`).
* **Store_proofs, any number of routers.** `NothingEverDangles`. A router has a copy of
  the registry and a manifest in memory while others write, so `StoreInv` says of these,
  too, that files back them.
* **Store_proofs, one router.** `PublishedRowsStay` and `QuarantinesStick` have the
  hypothesis `OneRouter`: with two routers the first is false (section 5, and
  `MCStoreFaults.cfg` finds the lost row), as each saves the whole registry from its own
  copy. With one, `SoleInv` says that the copy about to be saved is the registry but for
  the job's own rows (lemma `SaveIsExact`), and that a use whose entry has been
  quarantined carries the quarantined row. Crashes, replays and rebuilds are not bounded.
* **Store_proofs, the tool.** `ToolInv`: what the tool read before its first write is
  still so at its last, because nobody else runs. A named blob is not on its list
  (`NamedAreSpared`) and everything else is (`OthersAreListed`); a tenant's row is
  dropped after its manifest is a tombstone (`DoomedAreMarked`).
  `RoutersResurrectNothing` takes `SoleInv` through the tool's steps: the router is down
  while the tool runs, and comes back with nothing in memory.
* **CachedRequest_proofs.** What a client gets depends on what three stages have left
  in a slot, a slot file and an entry. `CachedInv` says it stage by stage (`Undisturbed`),
  for the case that nothing else reaches the slots; then all requests go to one router
  (`OneRouter`) and whoever is inside has its lock (`LockHeld`), so that a stage's work
  is still there in the next one (lemma `Alone`). In the other case only the request's
  own checks count (`Checked`, `ForeignIsCareless`). `AnswersImplemented` is the safety
  part of the refinement of `CachedAnswer`.
* **Sidecar_proofs.** `LeasedBytesStay` needs what the `with` blocks are for: whoever
  passed a check under the lock still has it (`LockInv`), so no lease has been granted
  since (`HoldInv`) and the bytes are those it read (`SeenInv`); and what a client
  relies on is filed (`FiledInv`) under an id nobody else gives back (`IdsInv`).
* **StackLifecycle_proofs.** `OwnedAlways`, `FreshWorkerProves`, `LegacyStaysOnRecord`, for
  any number of workers. `StackInv` says what a command has seen and done at the point it
  has got to; a second part (`UncutInv`) is claimed only as long as no command was cut,
  since a command that is cut after a process was started and before its PID was written
  leaves one that nothing names.
* **Evidence_proofs.** For any inventory, any fleets, any earlier requests and any wear of
  the blobs: `OnlyTheRightEntry`, `EventsValid`, `AuditTellsAll`, `EveryRefusalExplained`,
  `RebuildsAlwaysAgree`, `GatesAreHonest`, `ReplayAlwaysAgrees`. A whole request is one
  step, so the work is in lemmas that follow the code of one: each call takes an answer
  under way (`Open`) to another or to an answer (`Proper`). Of the events only four facts
  are needed (valid, tells a restore, a denial, a cold answer), one lemma per place that
  writes one. `Evidenced`, the invariant, says that a registry files each entry under the
  key of its own material (`SoundEntries`), that no two entries of a key may be used by
  the same policy (`Apart`: a build replaces the entry it would find), and that each
  answer is one its request may have had of the registry it met. The verdicts need more
  (`GateKept`): that a trial or a benchmark has asked its own requests in their order,
  goes on with the key its build was answered, and that as long as no run of it failed
  anywhere, the registry of this moment bears what each run restored; a later run adds a
  holder to the entry and takes none away (`TouchBears`). What a gate may take from one
  answer is `LookupTells`, again a lemma per call. Four assumptions (`AgentLoop`,
  `SuffixGate`): the least number of runs is a number; the names of the inventory differ
  (`load_workers` raises an error otherwise), the fleets give a row to each of them, and a
  build, be it `"unknown"`, to every row; the requests name a worker of the inventory or
  none, and an entry that can be filed; a digest stands for one model (without that, a key
  might be derived on the wrong fleet, as it might in the code).
* **Evidence_proofs, the replay.** `ReplayAlwaysAgrees` compares three programs: the router
  finds an entry by id, policy and key, the replay by key and prefix, the prototype ranks
  what the replay takes first. They agree because a key tells what it was made of
  (`KeyTells`, the one place that needs `DigestAssumption`: no two key records have the
  same digest), so that of a policy that may use a cache there is one entry of a key at
  most (`KeyedOnce`, from `Apart`), and the entry fits a worker if and only if their
  compatibility blocks are equal (`FitsBlock`, for rows with all strict fields). Both
  replays then meet one specification, `RightDecision` (`DecideIs`, `PrototypeIs`); for
  the ranking, the first worker in the order of the inventory that holds the entry, or
  else the first of all, is before every other option (`BestIs`).

The installed provers cannot instantiate an induction schema. Where `Evidence_proofs`
needs induction it goes over a range 0..n by a first-order lemma: a set of numbers that is
not empty has a least one (`Least`, from the well-foundedness of `<`), hence a set that
has 0 and with each i - 1 also i has all (`UpTo`). That the recursive functions have the
values their definitions say is proved the same way (`PickedIs`, `AttemptsAre`).

**Only model-checked:** the liveness properties `RequestsAnswered`, `PreparedRecovered`,
`RequestsFinish`, `FollowsFile`, `RowsCatchUp` and that of `AnswersRefined` (liveness
under fairness is beyond the installed provers, as is `ENABLED`). Every safety
property of a run is proved.

## 5. Where code and documentation disagree

Each has a property that states what the documentation says; the run `slot_leak`, or
the configuration named here, has TLC
find the violation. A configuration with two properties stops at the first: leave one at a
time. The quotations are in `PROJECT.json` under `findings`.

| What the code does | Property | Configuration |
|---|---|---|
| A streaming client that disconnects between the opened backend stream and the response head leaves its worker's active count raised for ever; with queueing on, the worker admits one request less. | `SlotsReleased` | `MCSlotLeak.cfg` |
| Leases are taken once for work that may take longer than they last (300 s, against a backend timeout of 900 s), so they do not prevent duplicate work. | `NoDuplicateWork` | `MCRegistryLease.cfg` with this invariant |
| Two routers on one cache root overwrite each other's registry rows: the registry is loaded, changed and saved without `registry.lock`. The log says committed, so no replay brings the row back. | `PublishedStays` | `MCStoreFaults.cfg` |
| `upload_to_router` replaces what is at a content address before it compares the hash: a failed build can damage a blob that other manifests name. | `BlobsImmutable` | `MCStoreFaults.cfg` |
| A reload installs the new workers before it empties the readiness cache, whose rows are found by worker id: a request in between routes to a new URL with the row of the old one. | `ChecksComeFirst` | `MCInventory.cfg` with this invariant |
| The workers file is read at startup before its fingerprint is computed: an edit in between is taken for loaded, and the router keeps the old workers until the next edit. | `HotReloads` | `MCInventory.cfg` with this property |
| A quarantined entry is built again and the router dies between manifest and registry: the replay leaves the key alone because it has a row, and that row, quarantined, refuses the key although the new manifest is sound. | `RebuiltRecovered` | `MCRegistryStore.cfg` with this property |
| Next to a running router, blob GC collects a blob that was uploaded and not yet named by its manifest. | `ReferencedStay` | `MCMaintenanceFaults.cfg` |
| The tool's own rebuild files tombstones as rows the daemon takes for usable. | `DeletedStaysOut` | `MCMaintenanceFaults.cfg` |
| Two workers on one host share `worker.pid`: starting the second stops the first. | `WorkersCoexist` | `MCStackFaults.cfg` |
| A PID file whose process died makes the stack stop whatever has that PID now. | `StrangersSpared` | `MCStackFaults.cfg` |
| One cursor rotates the candidates of all models: two models asked for in turn each find the same worker for ever. | `NobodyPinned` | `MCPinnedWorker.cfg` |
| The agent loop's uses by handle send no prefix text and are always refused, so its cache cycle cannot pass. | `CyclePasses` | `MCAgentCycle.cfg` |
| The suffix gate counts runs whose cold request failed, and passes with one comparison. | `EnoughCompared` | `MCAgentCycle.cfg` with this invariant |

Not contradicted by any document, but worth knowing: when two reloads overlap, the
slower one may install the older workers and record the newer fingerprint, or the
other way round, and the router then keeps workers that differ from the file until
the next edit. `NeverBackwards` and `FollowsFile` therefore except overlapping reloads.
The two rebuilds of the registry differ on purpose or by neglect in four cases, which
`RebuildsAgree` names: a blob found at another path inside the store and a blob without
the encryption the audit demands are the router's only; quarantined manifests and
tombstones the audit's only (what comes of the tombstones is `DeletedStaysOut` above). A
lookup whose only fitting workers failed to count the prefix's tokens answers as if there
were no entry and writes no event of the failure.

## 6. What is not modelled

Component by component in `PROJECT.json`. In short: HTTP parsing, authentication,
headers and error wording; metrics other than the two gauges; SSH and file copying
beyond their outcome; the contents of prompts and slots beyond which prefix they
continue; times, percentiles and report files of the gates; the live monitor's
display; two stack commands at once. The proofs of concept, the performance and soak
probes, setup, preflight, smoke tests and the validators of documents have no state
that outlives them and nothing concurrent: a model of them would be the script again.
Endpoints that only read without a lock have no action.

## 7. Plan

*Done*: sections 2 to 4. What would come next, in this order:

1. `CachedRequest` over `RegistryStore` instead of its one-entry store, so that a crash
   inside a cached request and two routers' lost rows meet the restore loop.
2. Two stack commands at the same time.
