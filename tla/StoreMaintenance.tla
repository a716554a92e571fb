--------------------------- MODULE StoreMaintenance ---------------------------
(***************************************************************************)
(* scripts/cache_router_store_audit.py next to the routers of module       *)
(* RegistryStore: deletion of a tenant, garbage collection of blobs, and   *)
(* the registry written from the manifests.  The tool takes no lock and no *)
(* lease.  It reads what it needs at once, and then changes one file after *)
(* the other; it may be killed between any two, and run again.  Dry runs   *)
(* change nothing and are left out, as are the rows appended to the audit  *)
(* log and to gc-queue.jsonl, which nothing reads.                         *)
(***************************************************************************)
EXTENDS RegistryStore

CONSTANTS
  TenantOf,      \* the tenant_hash of a key's manifest
  Offline        \* whether the tool only runs while no router does

ASSUME MaintenanceAssumption == DOMAIN TenantOf = Keys /\ Offline \in BOOLEAN

VARIABLES
  tool,          \* the run of the tool: its next step and what it has in memory
  stray          \* whether a file in manifests/ is no manifest

storeVars == <<tool, stray, vars>>

\* ok: nothing has gone wrong in this collection.
Idle == [step |-> "idle", ok |-> TRUE, gc |-> FALSE, tenant |-> None, rows |-> EmptyTable,
         marks |-> EmptyTable, blobs |-> {}]

MaintenanceInit == Init /\ tool = Idle /\ stray = FALSE

Deleted(row) == row.status = "tenant_deleted"

\* mark_manifest_tenant_deleted
Tombstone(row) == [row EXCEPT !.status = "tenant_deleted"]

\* audit_manifest, of a manifest some router wrote: a tombstone may have lost its blob.
Sound(row) == Intact(row) \/ (Deleted(row) /\ blob[row.blob] = "absent")

\* rebuild_registry of the tool: tombstones and quarantined entries are filed too.
OfflineRebuilt == [k \in Keys |-> IF manifest[k] # None /\ Sound(manifest[k]) THEN manifest[k] ELSE None]

\* active_blob_references
FaultyReferences == {manifest[k].blob : k \in {k \in Keys : Active(manifest[k])}}
KeepingReferences == {manifest[k].blob : k \in {k \in Keys : manifest[k] # None}}
References == {manifest[k].blob : k \in {k \in Keys : manifest[k] # None /\ ~Deleted(manifest[k])}}

-----------------------------------------------------------------------------
(* tenant_delete, with --apply *)

MayRun == tool.step = "idle" /\ (Offline => \A r \in Routers : stage[r] = "down")

\* load_registry_or_rebuild, and every manifest the tenant's rows name.
BeginDelete ==
  /\ MayRun
  /\ \E rows \in {registry} \union (IF DiskFaults THEN {OfflineRebuilt} ELSE {}),
        t \in {TenantOf[k] : k \in Keys}, gc \in BOOLEAN :
       LET doomed == {k \in Keys : TenantOf[k] = t /\ rows[k] # None} IN
       tool' = [Idle EXCEPT
         !.step = "marking", !.gc = gc, !.tenant = t, !.rows = rows,
         !.marks = [k \in Keys |-> IF k \in doomed /\ manifest[k] # None THEN Tombstone(manifest[k])
                                   ELSE None]]
  /\ UNCHANGED <<stray, vars>>

MarkManifest ==
  /\ tool.step = "marking"
  /\ \E k \in Keys :
       /\ tool.marks[k] # None
       /\ manifest' = [manifest EXCEPT ![k] = tool.marks[k]]
       /\ tool' = [tool EXCEPT !.marks[k] = None]
  /\ UNCHANGED <<stray, blob, registry, pending, stage, job, copy>>

\* The registry before the manifests.
FaultyRemoveRows ==
  /\ tool.step = "marking"
  /\ registry' = [k \in Keys |-> IF TenantOf[k] = tool.tenant THEN None ELSE tool.rows[k]]
  /\ tool' = IF tool.marks = EmptyTable THEN Idle ELSE tool
  /\ UNCHANGED <<stray, blob, manifest, pending, stage, job, copy>>

RemoveRows ==
  /\ tool.step = "marking"
  /\ tool.marks = EmptyTable
  /\ registry' = [k \in Keys |-> IF TenantOf[k] = tool.tenant THEN None ELSE tool.rows[k]]
  /\ tool' = IF tool.gc THEN [Idle EXCEPT !.step = "collecting"] ELSE Idle
  /\ UNCHANGED <<stray, blob, manifest, pending, stage, job, copy>>

-----------------------------------------------------------------------------
(* gc_unreferenced_blobs, with --apply *)

BeginCollect ==
  /\ MayRun
  /\ tool' = [Idle EXCEPT !.step = "collecting"]
  /\ UNCHANGED <<stray, vars>>

\* Refused when a manifest cannot be read; then the references and the candidates.
Collect ==
  /\ tool.step = "collecting"
  /\ tool' = IF stray THEN Idle
             ELSE [tool EXCEPT !.step = "unlinking",
                               !.blobs = {b \in Blobs : blob[b] # "absent"} \ References]
  /\ UNCHANGED <<stray, vars>>

\* A candidate that cannot be deleted is an error of the report; the others follow.
Unlink ==
  /\ tool.step = "unlinking"
  /\ \E b \in tool.blobs :
       \/ /\ blob[b] # "absent"
          /\ blob' = [blob EXCEPT ![b] = "absent"]
          /\ tool' = [tool EXCEPT !.blobs = @ \ {b}]
       \/ /\ DiskFaults
          /\ tool' = [tool EXCEPT !.blobs = @ \ {b}, !.ok = FALSE]
          /\ UNCHANGED blob
  /\ UNCHANGED <<stray, manifest, registry, pending, stage, job, copy>>

EndCollect ==
  /\ tool.step = "unlinking"
  /\ tool.blobs = {}
  /\ tool' = Idle
  /\ UNCHANGED <<stray, vars>>

-----------------------------------------------------------------------------
(* --write-registry *)

\* Nothing is written when any manifest is rejected.
BeginRebuild ==
  /\ MayRun
  /\ tool' = IF ~stray /\ \A k \in Keys : manifest[k] # None => Sound(manifest[k])
             THEN [Idle EXCEPT !.step = "filing", !.rows = OfflineRebuilt]
             ELSE Idle
  /\ UNCHANGED <<stray, vars>>

WriteRegistry ==
  /\ tool.step = "filing"
  /\ registry' = tool.rows
  /\ tool' = Idle
  /\ UNCHANGED <<stray, blob, manifest, pending, stage, job, copy>>

-----------------------------------------------------------------------------
Kill ==
  /\ tool.step # "idle"
  /\ tool' = Idle
  /\ UNCHANGED <<stray, vars>>

\* Somebody leaves a file in manifests/ that is no JSON object, or removes it.
Litter == stray' = ~stray /\ UNCHANGED <<tool, vars>>

Router ==
  /\ Offline => tool.step = "idle"
  /\ Next
  /\ UNCHANGED <<tool, stray>>

Delete == BeginDelete \/ MarkManifest \/ RemoveRows
CollectGarbage == BeginCollect \/ Collect \/ Unlink \/ EndCollect

MaintenanceNext ==
  Router \/ Delete \/ CollectGarbage \/ BeginRebuild \/ WriteRegistry \/ Kill \/ Litter

MaintenanceSpec == MaintenanceInit /\ [][MaintenanceNext]_storeVars

-----------------------------------------------------------------------------
(* Properties *)

MaintainedRows == [blob : Blobs, status : {"validated", "quarantined", "tenant_deleted"}]
MaintainedTables == [Keys -> MaintainedRows \union {None}]

MaintenanceTypeOK ==
  /\ manifest \in MaintainedTables /\ registry \in MaintainedTables
  /\ tool.rows \in MaintainedTables /\ tool.marks \in MaintainedTables
  /\ tool.step \in {"idle", "marking", "collecting", "unlinking", "filing"}
  /\ tool.blobs \subseteq Blobs
  /\ {tool.ok, tool.gc, stray} \subseteq BOOLEAN

\* A manifest that is not a tombstone names b.
Named(b) == \E k \in Keys : manifest[k] # None /\ manifest[k].blob = b /\ ~Deleted(manifest[k])

\* Blob GC never deletes what a manifest that is not a tombstone names, the blob it
\* shares with a deleted tenant and a quarantined one's included.
ReferencedStay ==
  [][\A b \in Blobs : blob[b] # "absent" /\ blob'[b] = "absent" => ~Named(b)]_storeVars

\* A deletion killed half way can be repeated: a row of the tenant leaves the registry
\* only when its manifest is a tombstone, so what was not marked still has its row.  (A
\* rebuild of a lost registry.json leaves out what has no intact blob, marked or not.)
TenantRowsLeaveLast ==
  [][\A k \in Keys :
       tool.step = "marking" /\ registry[k] # None /\ registry'[k] = None /\ TenantOf[k] = tool.tenant =>
         manifest[k] = None \/ Deleted(manifest[k]) \/ ~Intact(manifest[k])]_storeVars

\* No router puts a deleted entry back into the registry, with its log's replay or
\* with a rebuild: only the tool does, from registry.json missing or on request.
NoRouterResurrects ==
  [][\A k \in Keys :
       Deleted(manifest[k]) /\ registry[k] = None /\ registry'[k] # None =>
         tool.step \in {"marking", "filing"}]_storeVars

\* A collection that reports ok has left no blob that only tombstones name.
CollectedMeansGone ==
  [][tool.step = "unlinking" /\ tool.blobs = {} /\ tool.ok /\ tool'.step = "idle" =>
       \A b \in Blobs : blob[b] # "absent" => Named(b)]_storeVars

\* docs/architecture/final-acceptance-metrics.md: tombstones are there "so registry
\* rebuild cannot resurrect active tenant entries".  What a router would use stays out.
DeletedStaysOut ==
  [][\A k \in Keys : Deleted(manifest[k]) /\ registry[k] = None => ~Usable(registry'[k])]_storeVars
=============================================================================
