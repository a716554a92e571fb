---------------------------- MODULE RegistryStore ----------------------------
(***************************************************************************)
(* The durable store under one cache root: content-addressed blobs, one    *)
(* manifest file per cache key, registry.json with one row per key, and    *)
(* the write-ahead log registry-wal.jsonl; and the routers that change it: *)
(* build_cache, the registry writes of use_cache, quarantine_cache_entry,  *)
(* and the replay or rebuild at startup.                                   *)
(*                                                                         *)
(* A router does one job at a time (CacheRouterState.lock).  A job is a    *)
(* fixed sequence of file writes, each of them atomic (temporary file and  *)
(* os.replace, or one appended line), and the process may die between any  *)
(* two.  Changing the registry is always: load the whole file, change the  *)
(* copy, write the whole file; registry.lock is not held meanwhile.        *)
(*                                                                         *)
(* Of the log only what replay_registry_wal computes from it is kept: the  *)
(* keys prepared and not committed since.  A lease (module RegistryLease)  *)
(* is taken to outlast the job it covers, and to have run out when a dead  *)
(* router's key is wanted again.  Rows stand for the fields the properties *)
(* distinguish: the blob and the validation status.                        *)
(***************************************************************************)
EXTENDS Naturals

CONSTANTS
  Routers,       \* router daemons sharing the cache root
  Keys,          \* cache_key_hash values
  Blobs,         \* slot_file_sha256 values
  DiskFaults     \* whether stored blobs may rot

ASSUME StoreAssumption == Keys # {} /\ DiskFaults \in BOOLEAN

VARIABLES
  blob,          \* the file at a content address: "absent", "good" or "damaged"
  manifest,      \* the manifest file of a key
  registry,      \* the rows of registry.json
  pending,       \* keys the log leaves prepared but not committed
  stage,         \* the next write of a router's job
  job,           \* what the job is about
  copy           \* the registry a router has loaded

files == <<blob, manifest, registry, pending>>
vars == <<files, stage, job, copy>>

None == [blob |-> "none", status |-> "none"]
Rows == [blob : Blobs, status : {"validated", "quarantined"}]

(***************************************************************************)
(* Stages of a build: upload, prepare, write, prepared, load, save, commit *)
(* Stages of a use:   found, restoring, write, load, save                  *)
(* Of a rebuild, before either or for the load of one: rebuilt, refiled    *)
(* job.kind is "build"; "touch" (worker_residency only); "corrupt" (the    *)
(* blob failed its check); or "mismatch" (deterministic validation failed).*)
(* job.row is the manifest in memory; job.old the key a refresh replaces.  *)
(***************************************************************************)
Stages == {"down", "idle", "upload", "prepare", "write", "prepared", "load", "save", "commit",
           "found", "restoring", "rebuilt", "refiled"}
Kinds == {"build", "touch", "corrupt", "mismatch"}
SomeKey == CHOOSE k \in Keys : TRUE
NoJob == [kind |-> "touch", key |-> SomeKey, old |-> SomeKey, row |-> None]
EmptyTable == [k \in Keys |-> None]

Init ==
  /\ blob = [b \in Blobs |-> "absent"]
  /\ manifest = EmptyTable
  /\ registry = EmptyTable
  /\ pending = {}
  /\ stage = [r \in Routers |-> "down"]
  /\ job = [r \in Routers |-> NoJob]
  /\ copy = [r \in Routers |-> EmptyTable]

\* A rebuild files this manifest.
Active(row) == row.status = "validated"

\* ensure_entry accepts this row, this manifest: anything but a quarantined one.
Usable(row) == row # None /\ row.status # "quarantined"

\* manifest_blob_valid: the blob is there, with the recorded size and hash.
Intact(row) == row # None /\ blob[row.blob] = "good"

Goto(r, s) == stage' = [stage EXCEPT ![r] = s]

\* The job is over, and what it had in memory is gone.
Finish(r, s) ==
  /\ Goto(r, s)
  /\ job' = [job EXCEPT ![r] = NoJob]
  /\ copy' = [copy EXCEPT ![r] = EmptyTable]

\* Another router has the lease of k.
Leased(r, k) ==
  \E q \in Routers \ {r} : stage[q] \notin {"down", "idle", "rebuilt", "found"} /\ job[q].key = k

-----------------------------------------------------------------------------
(* Startup *)

\* Rebuilds the keys the log names and forgets the others.
FaultyRebuilt ==
  [k \in Keys |-> IF k \in pending /\ Active(manifest[k]) /\ Intact(manifest[k])
                  THEN manifest[k] ELSE None]

\* Files every manifest a lookup would accept.
FaultyTombstonesRebuilt ==
  [k \in Keys |-> IF Usable(manifest[k]) /\ Intact(manifest[k]) THEN manifest[k] ELSE None]

\* registry_entry_from_manifest for every manifest: active, blob present and intact.
Rebuilt ==
  [k \in Keys |-> IF Active(manifest[k]) /\ Intact(manifest[k]) THEN manifest[k] ELSE None]

\* Looks at the log alone: a prepared key with a row would do as well.
FaultyUnrecovered == {k \in pending : manifest[k] # None /\ registry[k] # None}

\* Prepared keys with a manifest file and no registry row of any status.
Unrecovered == {k \in pending : manifest[k] # None /\ registry[k] = None}

\* rebuild_registry_from_manifests up to save_registry; its log row comes after.
Rebuild(r) ==
  /\ registry' = Rebuilt
  /\ Goto(r, IF stage[r] = "load" THEN "refiled" ELSE "rebuilt")

\* The log's rebuild_registry row, which clears the pending keys.
LogRebuild(r) ==
  /\ \/ stage[r] = "rebuilt" /\ Goto(r, "idle")
     \/ stage[r] = "refiled" /\ Goto(r, "load")
  /\ pending' = {}
  /\ UNCHANGED <<blob, manifest, registry, job, copy>>

\* --rebuild-registry or no registry file: rebuild.  Otherwise the log is replayed,
\* which rebuilds too unless every prepared key has its row.
Start(r) ==
  /\ stage[r] = "down"
  /\ \/ Rebuild(r)
     \/ Unrecovered = {} /\ Goto(r, "idle") /\ UNCHANGED registry
  /\ UNCHANGED <<blob, manifest, pending, job, copy>>

\* load_registry finds no registry.json, or one that is not JSON.
RebuildLost(r) ==
  /\ DiskFaults
  /\ stage[r] \in {"idle", "load"}
  /\ Rebuild(r)
  /\ UNCHANGED <<blob, manifest, pending, job, copy>>

Crash(r) ==
  /\ stage[r] # "down"
  /\ Finish(r, "down")
  /\ UNCHANGED files

-----------------------------------------------------------------------------
(* build_cache *)

\* Without refresh a usable entry is returned as it is.  A refresh may name the
\* key of the entry it replaces; ensure_entry has then found that entry usable.
BeginBuild(r) ==
  /\ stage[r] = "idle"
  /\ \E k \in Keys, old \in Keys :
       /\ ~Leased(r, k)
       /\ \/ old = k
          \/ Usable(registry[old]) /\ Usable(manifest[old])
       /\ job' = [job EXCEPT ![r] = [kind |-> "build", key |-> k, old |-> old, row |-> None]]
  /\ Goto(r, "upload")
  /\ UNCHANGED <<files, copy>>

\* The slot is saved, hashed, and copied to its content address.
Upload(r) ==
  /\ stage[r] = "upload"
  /\ \E b \in Blobs :
       /\ blob' = [blob EXCEPT ![b] = "good"]
       /\ job' = [job EXCEPT ![r].row = [blob |-> b, status |-> "validated"]]
  /\ Goto(r, "prepare")
  /\ UNCHANGED <<manifest, registry, pending, copy>>

\* The copy differs from the slot that was hashed; this is seen after the copy has
\* replaced what was at the address.
UploadMismatch(r) ==
  /\ stage[r] = "upload"
  /\ \E b \in Blobs : blob' = [blob EXCEPT ![b] = "damaged"]
  /\ Finish(r, "idle")
  /\ UNCHANGED <<manifest, registry, pending>>

\* The worker fails before there is anything to publish.
BuildFails(r) ==
  /\ stage[r] = "upload"
  /\ Finish(r, "idle")
  /\ UNCHANGED files

\* The registry before the manifest.
FaultyPrepare(r) ==
  /\ stage[r] = "prepare"
  /\ pending' = pending \union {job[r].key}
  /\ Goto(r, "load")
  /\ UNCHANGED <<blob, manifest, registry, job, copy>>

\* The log's manifest_prepare row.
Prepare(r) ==
  /\ stage[r] = "prepare"
  /\ pending' = pending \union {job[r].key}
  /\ Goto(r, "write")
  /\ UNCHANGED <<blob, manifest, registry, job, copy>>

\* write_json(manifest_path, manifest), of a build and of a use.
WriteManifest(r) ==
  /\ stage[r] = "write"
  /\ manifest' = [manifest EXCEPT ![job[r].key] = job[r].row]
  /\ Goto(r, IF job[r].kind = "build" THEN "prepared" ELSE "load")
  /\ UNCHANGED <<blob, registry, pending, job, copy>>

\* The log's manifest_prepared row.
Prepared(r) ==
  /\ stage[r] = "prepared"
  /\ pending' = pending \union {job[r].key}
  /\ Goto(r, "load")
  /\ UNCHANGED <<blob, manifest, registry, job, copy>>

LoadRegistry(r) ==
  /\ stage[r] = "load"
  /\ copy' = [copy EXCEPT ![r] = registry]
  /\ Goto(r, "save")
  /\ UNCHANGED <<files, job>>

\* What a job does to the copy it loaded.
Edited(r) ==
  LET j == job[r] IN
  CASE j.kind = "build" -> [copy[r] EXCEPT ![j.old] = None, ![j.key] = j.row]
    [] j.kind = "touch" -> copy[r]
    [] OTHER -> [copy[r] EXCEPT ![j.key] = IF @ = None THEN None ELSE [@ EXCEPT !.status = "quarantined"]]

\* The next candidate gets the manifest as it was before the mismatch.
FaultySaveRegistry(r) ==
  /\ stage[r] = "save"
  /\ registry' = Edited(r)
  /\ \/ /\ job[r].kind = "build"
        /\ Goto(r, "commit")
        /\ UNCHANGED <<job, copy>>
     \/ /\ job[r].kind # "build"
        /\ Finish(r, "idle")
     \/ /\ job[r].kind = "mismatch"
        /\ Goto(r, "write")
        /\ job' = [job EXCEPT ![r].kind = "touch", ![r].row.status = "validated"]
        /\ UNCHANGED copy
  /\ UNCHANGED <<blob, manifest, pending>>

\* save_registry.  A build goes on to the log; a quarantine ends a use whose blob was
\* corrupt, and one that was asked for cold output on a mismatch; any other mismatch
\* is an error of this candidate, and the next candidate gets the manifest in memory.
SaveRegistry(r) ==
  /\ stage[r] = "save"
  /\ registry' = Edited(r)
  /\ \/ /\ job[r].kind = "build"
        /\ Goto(r, "commit")
        /\ UNCHANGED <<job, copy>>
     \/ /\ job[r].kind # "build"
        /\ Finish(r, "idle")
     \/ /\ job[r].kind = "mismatch"
        /\ Goto(r, "write")
        /\ job' = [job EXCEPT ![r].kind = "touch"]
        /\ UNCHANGED copy
     \/ /\ job[r].kind = "touch"
        /\ Goto(r, "found")
        /\ UNCHANGED <<job, copy>>
  /\ UNCHANGED <<blob, manifest, pending>>

\* The log's registry_committed row; the lease goes back.
Commit(r) ==
  /\ stage[r] = "commit"
  /\ pending' = pending \ {job[r].key}
  /\ Finish(r, "idle")
  /\ UNCHANGED <<blob, manifest, registry>>

-----------------------------------------------------------------------------
(* use_cache *)

\* ensure_entry reads row and manifest; neither may be quarantined.  No lease yet.
Find(r) ==
  /\ stage[r] = "idle"
  /\ \E k \in Keys :
       /\ Usable(registry[k])
       /\ Usable(manifest[k])
       /\ job' = [job EXCEPT ![r] = [kind |-> "touch", key |-> k, old |-> k, row |-> manifest[k]]]
  /\ Goto(r, "found")
  /\ UNCHANGED <<files, copy>>

\* The lease for one candidate worker, or a 503.
LeaseForUse(r) ==
  /\ stage[r] = "found"
  /\ \/ ~Leased(r, job[r].key) /\ Goto(r, "restoring") /\ UNCHANGED <<job, copy>>
     \/ Leased(r, job[r].key) /\ Finish(r, "idle")
  /\ UNCHANGED files

\* No candidate is left.
GiveUp(r) ==
  /\ stage[r] = "found"
  /\ Finish(r, "idle")
  /\ UNCHANGED files

\* The worker has a matching slot file, or the blob is copied to it: restored.
\* Or the candidate fails in one of many ways.  Either way worker_residency changes.
Attempt(r) ==
  /\ stage[r] = "restoring"
  /\ Goto(r, "write")
  /\ UNCHANGED <<files, job, copy>>

Quarantined(row) == [row EXCEPT !.status = "quarantined"]

\* hydrate_if_needed finds size or hash of the blob wrong: quarantine_cache_entry.
FindCorrupt(r) ==
  /\ stage[r] = "restoring"
  /\ blob[job[r].row.blob] = "damaged"
  /\ job' = [job EXCEPT ![r].kind = "corrupt", ![r].row = Quarantined(@)]
  /\ Goto(r, "write")
  /\ UNCHANGED <<files, copy>>

\* The restored output differs from a cold recompute: quarantine_cache_entry.
FindMismatch(r) ==
  /\ stage[r] = "restoring"
  /\ job' = [job EXCEPT ![r].kind = "mismatch", ![r].row = Quarantined(@)]
  /\ Goto(r, "write")
  /\ UNCHANGED <<files, copy>>

-----------------------------------------------------------------------------
\* A stored blob rots.
Rot ==
  /\ DiskFaults
  /\ \E b \in Blobs : blob[b] = "good" /\ blob' = [blob EXCEPT ![b] = "damaged"]
  /\ UNCHANGED <<manifest, registry, pending, stage, job, copy>>

Write(r) == Prepare(r) \/ WriteManifest(r) \/ Prepared(r) \/ LoadRegistry(r) \/ SaveRegistry(r) \/ Commit(r)
Build(r) == BeginBuild(r) \/ Upload(r) \/ UploadMismatch(r) \/ BuildFails(r)
Use(r) == Find(r) \/ LeaseForUse(r) \/ GiveUp(r) \/ Attempt(r) \/ FindCorrupt(r) \/ FindMismatch(r)

Next ==
  \/ \E r \in Routers : Start(r) \/ Crash(r) \/ RebuildLost(r) \/ LogRebuild(r) \/ Build(r) \/ Use(r) \/ Write(r)
  \/ Rot

Spec == Init /\ [][Next]_vars

(***************************************************************************)
(* A router that is down is started again, and one that has something to   *)
(* write writes it.  Nothing is assumed of workers, requests or crashes.   *)
(***************************************************************************)
Fairness == \A r \in Routers : WF_vars(Start(r)) /\ WF_vars(LogRebuild(r)) /\ WF_vars(Write(r))

FairSpec == Spec /\ Fairness

-----------------------------------------------------------------------------
(* Properties *)

Tables == [Keys -> Rows \union {None}]

TypeOK ==
  /\ blob \in [Blobs -> {"absent", "good", "damaged"}]
  /\ manifest \in Tables
  /\ registry \in Tables
  /\ pending \subseteq Keys
  /\ stage \in [Routers -> Stages]
  /\ job \in [Routers -> [kind : Kinds, key : Keys, old : Keys, row : Rows \union {None}]]
  /\ copy \in [Routers -> Tables]

\* A row is only ever published for a key whose manifest is on disk, whatever write
\* the process dies after: no lookup finds a row it cannot follow.
RowsHaveManifests == \A k \in Keys : registry[k] # None => manifest[k] # None

\* Metadata is not published before its blob: a manifest names a blob that is stored.
ManifestsHaveBlobs == \A k \in Keys : manifest[k] # None => blob[manifest[k].blob] # "absent"

\* Nothing on disk names what is not there, whatever write the process dies after.
NothingDangles == RowsHaveManifests /\ ManifestsHaveBlobs

\* A published row stays.  Only a refresh that replaces the key removes it, or a
\* rebuild that finds its manifest quarantined or its blob gone bad.
PublishedStays ==
  [][\A k \in Keys :
       registry[k] # None /\ registry'[k] = None =>
         \/ \E r \in Routers : stage[r] = "save" /\ job[r].kind = "build" /\ job[r].old = k
         \/ ~Active(manifest[k])
         \/ ~Intact(manifest[k])]_vars

\* A quarantined entry comes back only by being built again: not by a use that still
\* has the old manifest in memory, and not by a restart.
QuarantineSticks ==
  [][\A k \in Keys :
       manifest[k].status = "quarantined" /\ Active(manifest'[k]) =>
         \E r \in Routers : stage[r] = "write" /\ job[r].kind = "build" /\ job[r].key = k]_vars

\* A build that died between its manifest and its registry row is finished by the
\* restart, whether the key is new or replaces a row still in use: a prepared key with
\* an active manifest and an intact blob has a row that lookups accept.  Not promised
\* of a key whose row was quarantined before it was built again.
PreparedRecovered ==
  \A k \in Keys, r \in Routers :
    (stage[r] = "down" /\ k \in pending /\ Active(manifest[k]) /\ registry[k].status # "quarantined")
      ~> (Usable(registry[k]) \/ ~Intact(manifest[k]))

\* scripts/cache_router_daemon_smoke_test.py: "startup WAL replay should recover a
\* manifest prepared before registry commit".  The replay leaves a prepared key alone
\* that has any row, and a quarantined one then refuses the key for ever.
RebuiltRecovered ==
  \A k \in Keys, r \in Routers :
    (stage[r] = "down" /\ k \in pending /\ Active(manifest[k]))
      ~> (Usable(registry[k]) \/ ~Intact(manifest[k]))

\* A blob once stored under its hash is never overwritten with something else.
BlobsImmutable == [][\A b \in Blobs : blob[b] = "good" => blob'[b] = "good"]_vars
=============================================================================
