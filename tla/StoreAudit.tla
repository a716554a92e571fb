------------------------------ MODULE StoreAudit ------------------------------
(***************************************************************************)
(* When a manifest is sound: the offline audit (cache_router_store_audit)  *)
(* and the router's own rebuild (registry_entry_from_manifest) decide it   *)
(* on their own.  A manifest is an entry of module CacheKeys with the      *)
(* state of its blob at the content address ("whole", "short", "damaged"   *)
(* or "gone"), where else its router_blob_path points ("none", "inside" or *)
(* "outside" the store, a whole copy) and its encryption metadata.         *)
(***************************************************************************)
EXTENDS CacheKeys

Encryption == [required |-> TRUE, mode |-> "operator_managed_encrypted_filesystem", basis |-> "operator_attestation",
               volume |-> "hash", owner |-> "operator"]
\* No metadata at all.
Unencrypted == [required |-> FALSE, mode |-> "none", basis |-> "none", volume |-> "none", owner |-> "none"]

\* durable_blob_encryption_metadata: all four options of the router, or none; a bad one stops it.
Configured(o) ==
  IF {o.mode, o.basis, o.volume, o.owner} = {"none"} THEN Unencrypted
  ELSE IF o.mode = "other" \/ o.basis = "other" \/ o.volume # "hash" \/ o.owner = "none" THEN "refused"
  ELSE [Encryption EXCEPT !.mode = o.mode, !.basis = o.basis, !.owner = o.owner]

\* encryption_at_rest_errors finds none.
Encrypted(e, required, active) ==
  required /\ active =>
    /\ e.required
    /\ e.mode \in {"operator_managed_encrypted_filesystem", "platform_encrypted_volume"}
    /\ e.basis \in {"operator_attestation", "setup_doctor_metadata"}
    /\ e.volume = "hash" /\ e.owner # "none"

Active(m) == m.status \notin {"tenant_deleted", "deleted"}

\* manifest_errors finds none: the fields are there, the digest is one, the size positive.
Complete(m, required) ==
  /\ "none" \notin {m.id, m.key, m.runtime.build}
  /\ Encrypted(m.encryption, required, Active(m))

FaultyAuditManifest(m, required) == Complete(m, required) /\ (m.blob \in {"whole", "damaged"} \/ (m.blob = "gone" /\ ~Active(m)))

\* audit_manifest: ok.  Only the content address is looked at.
AuditManifest(m, required) == Complete(m, required) /\ (m.blob = "whole" \/ (m.blob = "gone" /\ ~Active(m)))

\* registry_entry_from_manifest of the audit: a row names what its manifest names.
AuditRow(m) == [key |-> m.key, policy |-> m.policy, status |-> m.status, encryption |-> m.encryption]

\* rebuild_registry: in the order of id and key; a set here.
AuditRebuilt(ms, required) == {AuditRow(m) : m \in {m \in ms : AuditManifest(m, required)}}

\* audit_store: ok, and how many manifests would be rows again.
AuditStore(ms, required) ==
  [ok |-> \A m \in ms : AuditManifest(m, required), valid |-> {m.key : m \in {n \in ms : AuditManifest(n, required)}}]

-----------------------------------------------------------------------------
(* The router's side *)

\* manifest_blob_path and manifest_blob_valid
BlobValid(m) == IF m.blob = "gone" THEN m.elsewhere = "inside" ELSE m.blob = "whole"

\* registry_entry_from_manifest: the row a manifest gives, if any.
RouterRow(m) ==
  IF /\ m.status \notin {"quarantined", "corrupt", "tenant_deleted"} /\ "none" \notin {m.id, m.key}
     /\ CanonicalKey(m) = m.key /\ BlobValid(m)
  THEN {AuditRow(m)} ELSE {}

\* rebuild_registry_from_manifests
RouterRebuilt(ms) == UNION {RouterRow(m) : m \in ms}

-----------------------------------------------------------------------------
\* make_manifest: the manifest the audit's own test stores for a payload.
MadeManifest(id, policy) ==
  [id |-> id, key |-> id, policy |-> policy, prefix |-> id,
   runtime |-> [model |-> "synthetic", build |-> "synthetic", mtp |-> FALSE, draftName |-> "none", draftHash |-> "none"],
   status |-> "validated", used |-> 0, created |-> 1, blob |-> "whole", elsewhere |-> "none", encryption |-> Encryption]
=============================================================================
