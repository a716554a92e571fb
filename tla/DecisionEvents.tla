---------------------------- MODULE DecisionEvents ----------------------------
(***************************************************************************)
(* The decision events a router writes, one operator per place it writes   *)
(* one from, and what emit_event derives from an event: its audit actions, *)
(* the row of the registry audit log and the cache outcome counters.       *)
(*                                                                         *)
(* A manifest's id is its key.  "none" is None; "unset" is a validation    *)
(* status left to emit_event.  Names, hashes, times and notes are left     *)
(* out, token counts are kept as far as full_reprocess_suspected asks.     *)
(***************************************************************************)
EXTENDS Naturals, Sequences, Picking

Cached == {"local_nvme", "durable_blob"}
Hits == {"hot_local_hit", "durable_hit_hydrate", "restore_then_generate"}

\* audit_actions_for_event
Actions(e) ==
  (IF e.phase \in {"registry_lookup", "worker_selected"} \/ e.hit \in Cached \union {"registry_only"} THEN {"lookup"} ELSE {})
  \union (IF e.phase = "cache_commit_published" THEN {"commit"} ELSE {})
  \union (IF e.decision \in Hits /\ e.hit \in Cached THEN {"hit"} ELSE {})
  \union (IF e.compat = "miss" \/ e.reason = "no_compatible_manifest" THEN {"miss"} ELSE {})
  \union (IF \/ e.decision \in {"restore_then_generate", "fallback_after_restore_failure"}
             \/ e.phase \in {"restore_requested", "restore_validated"}
             \/ e.reason = "restore_validation_failed" THEN {"restore"} ELSE {})
  \union (IF e.fallback \/ e.decision \in {"fallback_after_restore_failure", "cold_prefill"} THEN {"fallback"} ELSE {})
  \union (IF e.decision = "reject_policy" \/ "policy_denied" \in {e.compat, e.reason} THEN {"denial"} ELSE {})

\* classify_full_reprocess: did the worker process again what the slot held?
Reprocessed(e) ==
  IF e.decision # "restore_then_generate" \/ e.hit \notin Cached THEN "not_interpreted"
  ELSE IF e.basis = "suffix_only" THEN "no"
  ELSE IF e.cached = 0 \/ e.processed >= e.cached THEN "yes"
  ELSE "no"

\* record_cache_event: the cache outcomes an event counts as.
Outcomes(e) ==
  (IF e.compat = "miss" \/ e.reason = "no_compatible_manifest" THEN {"miss"} ELSE {})
  \union (IF e.decision = "restore_then_generate" /\ e.hit \in Cached /\ Reprocessed(e) = "no" THEN {"hit"} ELSE {})
  \union (IF /\ e.hit = "durable_blob"
             /\ e.timed \/ e.decision = "restore_then_generate" \/ e.reason = "hydration_failed" THEN {"hydrate"} ELSE {})
  \union (IF e.decision \in {"restore_then_generate", "fallback_after_restore_failure"} \/ e.timed THEN {"restore"} ELSE {})
  \union (IF e.fallback THEN {"fallback"} ELSE {})
  \union (IF e.status \in {"quarantined", "corrupt"} THEN {"validation_failure"} ELSE {})

\* registry_audit_operation: the first of these an event is.
Ranked == <<"denial", "commit", "restore", "fallback", "hit", "miss", "lookup">>
Operation(e) == Ranked[CHOOSE i \in DOMAIN Ranked : /\ Ranked[i] \in Actions(e)
                                                    /\ \A j \in 1..(i - 1) : Ranked[j] \notin Actions(e)]

FaultyOutcome(e) ==
  IF e.denial # "none" THEN "denied"
  ELSE IF e.compat = "match" THEN "success"
  ELSE IF e.status = "quarantined" THEN "quarantined"
  ELSE IF e.fallback THEN "fallback"
  ELSE IF e.compat = "policy_denied" THEN "denied"
  ELSE IF e.compat \in {"miss", "mismatch"} THEN e.compat
  ELSE e.decision

\* registry_audit_outcome
Outcome(e) ==
  IF e.denial # "none" THEN "denied"
  ELSE IF e.status = "quarantined" THEN "quarantined"
  ELSE IF e.fallback THEN "fallback"
  ELSE IF e.compat = "match" THEN "success"
  ELSE IF e.compat = "policy_denied" THEN "denied"
  ELSE IF e.compat \in {"miss", "mismatch"} THEN e.compat
  ELSE e.decision

\* emit_registry_audit_from_decision_event: the audit rows a trail of events leaves.
Audited(trail) ==
  LET logged(e) == Actions(e) # {} /\ <<e.phase, e.decision, e.hit>> # <<"worker_selected", "no_op", "none">>
      S == Picked(trail, {i \in DOMAIN trail : logged(trail[i])})
  IN [i \in DOMAIN S |-> [operation |-> Operation(S[i]), outcome |-> Outcome(S[i]), actions |-> Actions(S[i]),
                          key |-> S[i].key, worker |-> S[i].worker]]

-----------------------------------------------------------------------------
(* Where events are written *)

\* emit_event with nothing but the defaults of its parameters.
Blank == [phase |-> "registry_lookup", decision |-> "no_op", key |-> "none", manifest |-> "none", hit |-> "none",
          compat |-> "miss", status |-> "unset", fallback |-> FALSE, reason |-> "none", denial |-> "none",
          worker |-> "none", timed |-> FALSE, basis |-> "none", cached |-> 0, processed |-> 0]

Emit(e) == [e EXCEPT !.status = IF @ # "unset" THEN @ ELSE IF e.compat = "match" THEN "validated" ELSE "not_applicable"]

Because(e, reason) == [e EXCEPT !.fallback = TRUE, !.reason = reason]

\* What every event about an entry not used has in common.
Refused(k) == Because([Blank EXCEPT !.hit = "registry_only", !.key = k, !.manifest = k, !.status = "not_checked"], "none")

\* A policy that may use no cache at all, or not the entry of key k.
DeniedEvent(denial, k) ==
  Emit(Because([Refused(k) EXCEPT !.decision = "reject_policy", !.compat = "policy_denied", !.denial = denial], "policy_denied"))

\* Another key than the one asked for is filed under the id.
MismatchEvent(k, filed) == Emit(Because([Refused(k) EXCEPT !.manifest = filed, !.compat = "mismatch"], "cache_key_mismatch"))

\* Registry row or manifest unfit.
RejectedEvent(k, reason) ==
  Emit(Because([Refused(k) EXCEPT !.decision = "reject_capacity", !.compat = "mismatch", !.status = "quarantined"], reason))

CommittedEvent(k, w) ==
  Emit([Blank EXCEPT !.phase = "cache_commit_published", !.key = k, !.manifest = k, !.hit = "durable_blob",
                     !.compat = "match", !.worker = w])

\* What a restore that was measured reports.
Measured(k, w, hydrated, counts) ==
  [Blank EXCEPT !.phase = "restore_validated", !.key = k, !.manifest = k, !.compat = "match", !.worker = w, !.timed = TRUE,
                !.hit = IF hydrated THEN "durable_blob" ELSE "local_nvme",
                !.basis = counts.basis, !.cached = counts.cached, !.processed = counts.processed]

RestoredEvent(k, w, hydrated, counts) == Emit([Measured(k, w, hydrated, counts) EXCEPT !.decision = "restore_then_generate"])

InvalidEvent(k, w, hydrated, counts) ==
  Emit(Because([Measured(k, w, hydrated, counts) EXCEPT !.decision = "fallback_after_restore_failure", !.status = "quarantined"],
               "restore_validation_failed"))

FaultyFailedEvent(k, w, mayFallBack, reason) ==
  Emit(Because([Blank EXCEPT !.phase = "request_failed", !.key = k, !.manifest = k, !.worker = w,
                             !.decision = IF mayFallBack THEN "fallback_after_restore_failure" ELSE "reject_capacity",
                             !.hit = "durable_blob",
                             !.compat = IF reason = "cache_key_mismatch" THEN "mismatch" ELSE "match",
                             !.status = "quarantined"], reason))

\* One worker could not serve the entry.
FailedEvent(k, w, mayFallBack, reason) ==
  Emit(Because([Blank EXCEPT !.phase = "request_failed", !.key = k, !.manifest = k, !.worker = w,
                             !.decision = IF mayFallBack THEN "fallback_after_restore_failure" ELSE "reject_capacity",
                             !.hit = IF mayFallBack THEN "durable_blob" ELSE "none",
                             !.compat = IF reason = "cache_key_mismatch" THEN "mismatch" ELSE "match",
                             !.status = "quarantined"], reason))

\* The two misses: auto mode goes on to build, use mode answers 404.
ToBuildEvent == Emit(Because([Blank EXCEPT !.decision = "cold_prefill"], "no_compatible_manifest"))
MissEvent(k) == Emit([Blank EXCEPT !.key = k])

\* Why proxy went on to the next worker.
Retries == {"worker_capacity", "worker_unavailable"}

\* The full prompt sent to a worker: in the first place, after another one, or because of the reason given.
ProxiedEvent(w, reason) ==
  Emit(IF reason = "none"
       THEN [Blank EXCEPT !.phase = "worker_selected", !.compat = "not_checked", !.worker = w]
       ELSE IF reason \in Retries
       THEN Because([Blank EXCEPT !.phase = "worker_selected", !.compat = "not_checked", !.worker = w], reason)
       ELSE Because([Blank EXCEPT !.phase = "cold_prefill_selected", !.decision = "cold_prefill", !.compat = "not_checked",
                                  !.worker = w], reason))

-----------------------------------------------------------------------------
(* Reading the events back *)

\* What /router/decisions?request_id=... returns of a request's trail when the log has
\* grown by the events of other requests: the tail is taken before it is filtered.
Seen(trail, others, limit) ==
  LET dropped == IF others + Len(trail) <= limit THEN 0 ELSE others + Len(trail) - limit
  IN SubSeq(trail, dropped + 1, Len(trail))
=============================================================================
