-------------------------------- MODULE Replay --------------------------------
(***************************************************************************)
(* The offline replay of routing decisions, replay_cache_router_decisions: *)
(* what it decides for one request from the workers, the registry and the  *)
(* policy it is given.  Requests, manifests, workers and policies are the  *)
(* records of module DecisionContract; an event is one of DecisionEvents.  *)
(***************************************************************************)
EXTENDS DecisionContract, Picking, SequencesExt

\* eligible_workers and worker_matches_request: the candidates that could serve, in the request's order.
Eligible(q, workers) ==
  LET serves(n) == /\ n \in DOMAIN workers /\ workers[n].health = "healthy" /\ workers[n].capacity
                   /\ q.model \in workers[n].models
                   /\ workers[n].block = q.block
  IN Picked(q.workers, {i \in DOMAIN q.workers : serves(q.workers[i])})

\* Those of the workers ns that restore, those that hydrate too, and those that have m in their slots.
Restoring(ns, workers) == Picked(ns, {i \in DOMAIN ns : workers[ns[i]].restores})
Hydrating(ns, workers) == LET rs == Restoring(ns, workers) IN Picked(rs, {i \in DOMAIN rs : workers[rs[i]].hydrates})

\* candidate_manifests: by key or by prefix.
Candidates(q, registry) == Picked(registry, {i \in DOMAIN registry : registry[i].key = q.key \/ registry[i].prefix = q.prefix})

FaultyMatches(m, q) == /\ m.key = q.key /\ m.scope = q.scope /\ m.model = q.model /\ m.prefix = q.prefix
                       /\ m.encrypted /\ m.block = q.block

\* manifest_matches_request
Matches(m, q) == /\ m.key = q.key /\ m.scope = q.scope /\ m.model = q.model /\ m.prefix = q.prefix
                 /\ m.status = "validated" /\ m.encrypted /\ m.block = q.block

\* policy_allows
Allows(p, q, m) ==
  /\ q.scope \in p.scopes /\ ~p.crossTenant /\ q.tenant = m.tenant
  /\ q.scope = "conversation" /\ p.conversation => q.conversation = m.conversation
  /\ q.scope = "global_system" => p.global /\ q.prefix \in p.allowlist
  /\ q.scope # "private_disabled"

\* has_local_residency
Resident(m, n) == [worker |-> n, status |-> "available"] \in m.residency
Holding(ns, m) == Picked(ns, {i \in DOMAIN ns : Resident(m, ns[i])})

\* make_event
NoManifest == [key |-> "none"]
Event(q, m, e) == [e EXCEPT !.key = IF m = NoManifest THEN q.key ELSE m.key, !.manifest = m.key]

Decided(phase, decision, worker, hit, compat, status, reason) ==
  [phase |-> phase, decision |-> decision, worker |-> worker, hit |-> hit, compat |-> compat, status |-> status,
   fallback |-> reason # "none", reason |-> reason, key |-> "none", manifest |-> "none"]

Cold(worker, hit, compat, status, reason) ==
  Decided("cold_prefill_selected", "cold_prefill", worker, hit, compat, status, reason)

\* decide_one
Decide(q, workers, registry, p) ==
  LET able == Eligible(q, workers)
      found == Candidates(q, registry)
      exact == Picked(found, {i \in DOMAIN found : Matches(found[i], q)})
      m == exact[1]
      restoring == Restoring(able, workers)
      holding == Holding(restoring, m)
      hydrating == Hydrating(able, workers)
  IN IF able = <<>> THEN
            Event(q, NoManifest, Decided("request_failed", "reject_capacity", "none", "none", "not_checked", "not_applicable",
                                     "worker_capacity"))
     ELSE IF found = <<>> THEN Event(q, NoManifest, Cold(able[1], "none", "miss", "not_applicable", "no_compatible_manifest"))
     ELSE IF exact = <<>> THEN Event(q, found[1], Cold(able[1], "registry_only", "mismatch", "not_checked", "cache_key_mismatch"))
     ELSE IF ~Allows(p, q, m) THEN
            Event(q, m, IF p.rejects
                        THEN Decided("request_failed", "reject_policy", "none", "registry_only", "policy_denied", "not_checked",
                                     "policy_denied")
                        ELSE Cold(able[1], "registry_only", "policy_denied", "not_checked", "policy_denied"))
     ELSE IF m.failsRestore /\ restoring # <<>> THEN
            Event(q, m, Decided("restore_validated", "fallback_after_restore_failure", restoring[1], "durable_blob", "match",
                                "quarantined", "restore_validation_failed"))
     ELSE IF ~m.failsRestore /\ holding # <<>> THEN
            Event(q, m, Decided("worker_selected", "hot_local_hit", holding[1], "local_nvme", "match", "validated", "none"))
     ELSE IF ~m.failsRestore /\ m.durable /\ hydrating # <<>> THEN
            Event(q, m, Decided("hydrate_requested", "durable_hit_hydrate", hydrating[1], "durable_blob", "match", "validated", "none"))
     ELSE Event(q, m, Cold(able[1], "registry_only", "match", "not_checked", "no_compatible_manifest"))

-----------------------------------------------------------------------------
(* The offline prototype, cache_router_offline_prototype: the same question, *)
(* with every manifest and worker ranked instead of the first of each.      *)

\* ranked_options: who can restore which of ms, and how
RankedOptions(q, able, ms, workers, p) ==
  LET rank(m, n) == <<IF Resident(m, n) THEN 0 ELSE 1, m.priority, CHOOSE i \in DOMAIN q.workers : q.workers[i] = n>>
      pairs == {m \in ms : Allows(p, q, m)} \X {n \in ToSet(able) : workers[n].restores}
  IN {[m |-> x[1], worker |-> x[2], hot |-> Resident(x[1], x[2]), rank |-> rank(x[1], x[2])] :
        x \in {x \in pairs : Resident(x[1], x[2]) \/ (x[1].durable /\ workers[x[2]].hydrates)}}

RankBefore(r, s) == \E i \in 1..3 : r[i] < s[i] /\ \A j \in 1..(i - 1) : r[j] = s[j]

\* The best of the options, and the manifest to name of ms: ties in the order of the identifiers, here any.
BestOption(options) == CHOOSE x \in options : ~\E y \in options : RankBefore(y.rank, x.rank)
FirstManifest(ms) == CHOOSE m \in ms : ~\E l \in ms : l.priority < m.priority

\* event_for_case
Prototype(q, workers, registry, p) ==
  LET able == Eligible(q, workers)
      found == ToSet(Candidates(q, registry))
      exact == {m \in found : Matches(m, q)}
      allowed == {m \in exact : Allows(p, q, m)}
      restoring == Restoring(able, workers)
      options == RankedOptions(q, able, {m \in exact : ~m.failsRestore}, workers, p)
      o == BestOption(options)
      allFail == allowed # {} /\ \A m \in allowed : m.failsRestore
      cold(m, compat, reason) == Event(q, m, Cold(able[1], "registry_only", compat, "not_checked", reason))
  IN IF able = <<>> THEN
            Event(q, NoManifest, Decided("request_failed", "reject_capacity", "none", "none", "not_checked", "not_applicable",
                                         "worker_capacity"))
     ELSE IF found = {} THEN Event(q, NoManifest, Cold(able[1], "none", "miss", "not_applicable", "no_compatible_manifest"))
     ELSE IF exact = {} THEN cold(CHOOSE m \in found : TRUE, "mismatch", "cache_key_mismatch")
     ELSE IF allFail /\ restoring # <<>> THEN
            Event(q, FirstManifest(allowed), Decided("restore_validated", "fallback_after_restore_failure", restoring[1], "durable_blob",
                                             "match", "quarantined", "restore_validation_failed"))
     ELSE IF ~allFail /\ options # {} THEN
            Event(q, o.m, IF o.hot THEN Decided("worker_selected", "hot_local_hit", o.worker, "local_nvme", "match", "validated", "none")
                          ELSE Decided("hydrate_requested", "durable_hit_hydrate", o.worker, "durable_blob", "match", "validated",
                                       "none"))
     ELSE IF ~allFail /\ allowed = {} THEN cold(FirstManifest(exact), "policy_denied", "policy_denied")
     ELSE cold(FirstManifest(IF allFail THEN allowed ELSE exact), "match", "no_compatible_manifest")

\* The decision serves the request from a cache.
Serves(e) == e.decision \in {"hot_local_hit", "durable_hit_hydrate"}
=============================================================================
