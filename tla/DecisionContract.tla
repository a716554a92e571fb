--------------------------- MODULE DecisionContract ---------------------------
(***************************************************************************)
(* What validate_cache_router_contracts.py asks of decision events, of     *)
(* validation results, of the two together, and how it evaluates a strict  *)
(* key fixture.  Each validator is the conjunction of what its errors      *)
(* deny.  What schema, hash and privacy checks say of names, digests and   *)
(* flags that the program writes as literals is left out.                  *)
(***************************************************************************)
EXTENDS Naturals, Sequences

Dependent == {"durable_hit_hydrate", "fallback_after_restore_failure", "hot_local_hit", "restore_then_generate"}
Positive == Dependent \ {"fallback_after_restore_failure"}

\* expected_audit_actions
Expected(e) ==
  (IF e.phase = "registry_lookup" \/ e.hit \in {"registry_only", "local_nvme", "durable_blob"} THEN {"lookup"} ELSE {})
  \union (IF e.phase = "cache_commit_published" THEN {"commit"} ELSE {})
  \union (IF e.decision \in Positive /\ e.hit \in {"local_nvme", "durable_blob"} THEN {"hit"} ELSE {})
  \union (IF e.compat = "miss" \/ e.reason = "no_compatible_manifest" THEN {"miss"} ELSE {})
  \union (IF \/ e.decision \in {"restore_then_generate", "fallback_after_restore_failure"}
             \/ e.phase \in {"restore_requested", "restore_validated"} THEN {"restore"} ELSE {})
  \union (IF e.fallback \/ e.decision \in {"fallback_after_restore_failure", "cold_prefill"} THEN {"fallback"} ELSE {})
  \union (IF e.decision = "reject_policy" \/ "policy_denied" \in {e.compat, e.reason} THEN {"denial"} ELSE {})

Identified(e) == e.key # "none" /\ e.manifest # "none"
Distrusted(e) == e.status \in {"quarantined", "corrupt"}

\* validate_decision_event of an event written with these audit actions.
ValidEvent(e, actions) ==
  /\ actions # {} /\ Expected(e) \subseteq actions
  /\ e.decision \in Dependent \/ e.phase \in {"hydrate_requested", "restore_requested", "restore_validated"} => Identified(e)
  /\ e.decision \in Positive => e.compat = "match" /\ ~e.fallback
  /\ e.hit \in {"local_nvme", "durable_blob"} /\ e.decision # "fallback_after_restore_failure"
       => Identified(e) /\ e.compat = "match"
  /\ e.decision = "restore_then_generate" => e.status = "validated" /\ e.reason = "none"
  /\ e.decision = "fallback_after_restore_failure" => e.fallback /\ e.reason # "none" /\ Distrusted(e)
  /\ e.fallback <=> e.reason # "none"
  /\ Distrusted(e) => e.fallback

-----------------------------------------------------------------------------
(* Validation results *)

BlobChecks == {"checksum", "size"}
RestoreChecks == {"restore", "logits", "topk", "text"}
Quarantining == {"checksum_mismatch", "deterministic_text_mismatch", "logits_mismatch", "mtp_restore_mismatch",
                 "poisoning_negative_test_failed", "restore_api_failed", "size_mismatch", "top_k_mismatch"}

\* validate_validation_result
ValidResult(r) ==
  /\ r.status = "pass" =>
       /\ r.compat = "match" /\ ~r.fallback /\ ~r.quarantine /\ r.failure = "none" /\ r.signal = "none"
       /\ r.type \in {"next_token_logits", "top_k_distribution", "deterministic_text", "mtp_restore"}
            => \E c \in {"text", "logits", "topk"} : r.checks[c] = "pass"
  /\ r.status \in {"fail", "error"} =>
       /\ r.failure \notin {"none", "not_applicable"} /\ r.fallback
       /\ r.failure \in Quarantining => r.quarantine /\ r.signal # "none"
       /\ r.failure = "tenant_policy_mismatch" => r.signal \in {"tenant_mismatch", "policy_violation"}
  /\ (\E c \in BlobChecks \union RestoreChecks : r.checks[c] = "fail") => r.fallback
  /\ (\E c \in RestoreChecks : r.checks[c] = "fail") => r.quarantine

\* validate_cross_records: restores and their failures have the result of a validation
\* with the same trace, manifest, key and worker.
Crossed(events, results) ==
  \A e \in events :
    LET same == {r \in results : <<r.trace, r.manifest, r.key, r.worker>> = <<e.trace, e.manifest, e.key, e.worker>>}
    IN /\ e.phase = "restore_validated" \/ e.decision \in {"restore_then_generate", "fallback_after_restore_failure"}
       /\ "none" \notin {e.manifest, e.key, e.worker}
       => /\ e.status = "validated" => \E r \in same : r.status = "pass"
          /\ Distrusted(e) => \E r \in same : r.status \in {"fail", "error"} /\ r.fallback

-----------------------------------------------------------------------------
(* Strict key fixtures: a request q, a manifest m, a worker w and a replay policy p *)

\* validate_compatibility_block, of a runtime as module CacheKeys has it.
ValidBlock(r) == r.build # "unknown" /\ (r.mtp <=> r.draft # "none")

\* validate_replay_policy
ValidPolicy(p) == ~p.crossTenant

\* validate_replay_request, validate_replay_manifest and validate_replay_worker
ValidRequest(q) == q.scope \in {"global_system", "tenant", "conversation", "private_disabled"} /\ q.workers # <<>> /\ ValidBlock(q.block)
ValidManifest(m) == /\ m.status \in {"validated", "quarantined", "corrupt", "expired"}
                    /\ \A i \in m.residency : i.status \in {"available", "stale", "missing", "corrupt"}
                    /\ ValidBlock(m.block)
ValidWorker(w) == w.health \in {"healthy", "degraded", "draining", "offline"} /\ w.models # {} /\ ValidBlock(w.block)

\* manifest_match_reason: "match", or what keeps the manifest from the request.
ManifestReason(m, q) ==
  IF \E f \in {"key", "scope", "model", "prefix"} : m[f] # q[f] THEN "manifest_mismatch"
  ELSE IF m.status # "validated" THEN "manifest_mismatch:validation_status"
  ELSE IF ~m.encrypted THEN "manifest_mismatch:encrypted_at_rest"
  ELSE IF m.block # q.block THEN "strict_key_mismatch"
  ELSE "match"

\* policy_match_reason
PolicyReason(p, q, m) ==
  IF q.scope \notin p.scopes THEN "policy_denied:scope_not_allowed"
  ELSE IF p.crossTenant THEN "policy_denied:cross_tenant_policy_unsafe"
  ELSE IF q.tenant # m.tenant THEN "policy_denied:tenant_scope_mismatch"
  ELSE IF q.scope = "conversation" /\ p.conversation /\ q.conversation # m.conversation THEN "policy_denied:conversation_scope_mismatch"
  ELSE IF q.scope = "global_system" /\ ~(p.global /\ q.prefix \in p.allowlist) THEN "policy_denied:global_system_not_allowlisted"
  ELSE IF q.scope = "private_disabled" THEN "policy_denied:private_disabled"
  ELSE "match"

\* worker_match_reason
WorkerReason(w, q, operation) ==
  IF w.health # "healthy" THEN "worker_unavailable:health_status"
  ELSE IF ~w.capacity THEN "worker_unavailable:worker_capacity"
  ELSE IF q.model \notin w.models THEN "worker_unavailable:model_not_loaded"
  ELSE IF w.context < q.context THEN "worker_unavailable:ctx_size"
  ELSE IF w.block # q.block THEN "worker_strict_key_mismatch"
  ELSE IF operation \in {"local_restore", "durable_hydrate", "restore_validation"} /\ ~w.restores THEN "worker_unavailable:worker_lacks_restore"
  ELSE IF operation = "durable_hydrate" /\ ~w.hydrates THEN "worker_unavailable:worker_lacks_hydration"
  ELSE "match"

\* evaluate_strict_key_fixture of a fixture that mutates nothing.
Fixture(q, m, w, p, operation) ==
  LET verdicts == <<ManifestReason(m, q), PolicyReason(p, q, m), WorkerReason(w, q, operation)>>
      bad == {i \in DOMAIN verdicts : verdicts[i] # "match"}
  IN IF bad = {} THEN "restore_allowed" ELSE verdicts[CHOOSE i \in bad : \A j \in bad : i <= j]
=============================================================================
