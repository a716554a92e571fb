---------------------------- MODULE CorrectnessProbe ----------------------------
(***************************************************************************)
(* The live correctness gate, cache_router_correctness_probe: a trial has  *)
(* a cache built, generates the answer cold and then from the cache, and   *)
(* compares; the verdict is over all trials and over the artifacts they    *)
(* leave, which must be valid by module DecisionContract.                  *)
(*                                                                         *)
(* A trial's input t: the phase it got to, the key built, the cold text,   *)
(* the answer to the use request as module RouterEvidence has it, the      *)
(* events read back of it, whether texts are tokenized and agree in the    *)
(* first tokens, and the draft options.                                    *)
(***************************************************************************)
EXTENDS DecisionContract, SequencesExt

RestoreHits == {"local_nvme", "durable_blob"}
RestoreDecisions == {"restore_then_generate", "hot_local_hit", "durable_hit_hydrate"}
ColdDecisions == {"cold_prefill", "fallback_after_restore_failure"}
ColdReasons == {"restore_validation_failed", "restore_failed", "no_compatible_manifest", "cache_key_mismatch",
                "worker_unavailable", "worker_capacity"}

\* classify_trial, with what the validation row asks of the events.
Classify(cold, text, events) ==
  LET es == ToSet(events)
      used == \E e \in es : e.decision \in RestoreDecisions \/ e.hit \in RestoreHits
      recomputed == \E e \in es : e.decision \in ColdDecisions \/ e.reason \in ColdReasons
      matches == cold = text
  IN [ok |-> matches /\ (recomputed \/ used),
      used |-> used /\ ~(matches /\ recomputed), recomputed |-> recomputed, matches |-> matches,
      statuses |-> {e.status : e \in es}, reasons |-> {e.reason : e \in es}]

\* representative_restore_event, none if there is no event.
NoEvent == [trace |-> "none", manifest |-> "none", key |-> "none", worker |-> "none"]
Representative(events) ==
  LET restores == SelectSeq(events, LAMBDA e : e.decision \in RestoreDecisions \/ e.phase \in {"restore_requested", "restore_validated"})
  IN IF restores # <<>> THEN Last(restores) ELSE IF events # <<>> THEN Last(events) ELSE NoEvent

\* token_compare: "none" when nothing could be tokenized.
TokenMatch(t) == IF ~t.tokenized THEN "none" ELSE IF t.cold = t.answer.text \/ t.agree THEN "yes" ELSE "no"

\* The router's recompute and the probe's own cold answer differ.
Nondeterministic(t) == t.answer.recomputed # "none" /\ t.answer.recomputed # t.cold

\* internal_restore_validation_passed
Internal(t, statuses) == Nondeterministic(t) /\ t.answer.validation = "pass" /\ "validated" \in statuses

\* draft_disable_contradicted_by_timings
Contradicted(t) == t.noDraft /\ t.drafted

NotCompared(t) == [case |-> t.case, phase |-> t.phase, ok |-> FALSE, used |-> FALSE, recomputed |-> FALSE, matches |-> FALSE,
                   statuses |-> {}, reasons |-> {}, trace |-> "none", manifest |-> "none", key |-> t.key, worker |-> "none",
                   tokens |-> "none", internal |-> FALSE, nondeterministic |-> FALSE, contradicted |-> FALSE]

FaultyTrial(t) ==
  LET c == Classify(t.cold, t.answer.text, t.events)
      e == Representative(t.events)
  IN IF t.phase # "compare" THEN NotCompared(t)
     ELSE [NotCompared(t) EXCEPT
             !.ok = (c.ok \/ Nondeterministic(t)) /\ ~Contradicted(t), !.matches = c.matches,
             !.used = c.used, !.recomputed = c.recomputed, !.statuses = c.statuses, !.reasons = c.reasons,
             !.trace = e.trace, !.manifest = e.manifest, !.key = IF e.key # "none" THEN e.key ELSE t.key,
             !.worker = IF e.worker # "none" THEN e.worker ELSE t.answer.worker,
             !.tokens = TokenMatch(t), !.internal = Internal(t, c.statuses), !.nondeterministic = Nondeterministic(t),
             !.contradicted = Contradicted(t)]

\* run_trial: what it returns of its input.
Trial(t) ==
  LET c == Classify(t.cold, t.answer.text, t.events)
      e == Representative(t.events)
      differs == IF Nondeterministic(t) THEN ~Internal(t, c.statuses) ELSE TokenMatch(t) = "no"
  IN IF t.phase # "compare" THEN NotCompared(t)
     ELSE [NotCompared(t) EXCEPT
             !.ok = (c.ok \/ Internal(t, c.statuses)) /\ ~differs /\ ~Contradicted(t), !.matches = c.matches /\ ~differs,
             !.used = c.used, !.recomputed = c.recomputed, !.statuses = c.statuses, !.reasons = c.reasons,
             !.trace = e.trace, !.manifest = e.manifest, !.key = IF e.key # "none" THEN e.key ELSE t.key,
             !.worker = IF e.worker # "none" THEN e.worker ELSE t.answer.worker,
             !.tokens = TokenMatch(t), !.internal = Internal(t, c.statuses), !.nondeterministic = Nondeterministic(t),
             !.contradicted = Contradicted(t)]

-----------------------------------------------------------------------------
Missing(r) == "none" \in {r.trace, r.manifest, r.worker, r.key}

\* The router quarantined, or could not validate, what it answered cold.
FailedClosed(r) == r.recomputed /\ ("quarantined" \in r.statuses \/ "restore_validation_failed" \in r.reasons)

\* The gate fails, yet the cache is not to blame.
BlockedValid(r) == r.contradicted /\ ~FailedClosed(r) /\ r.matches /\ r.tokens # "no"

RowStatus(r) ==
  LET tokens == r.tokens = "no" /\ ~r.internal /\ ~BlockedValid(r)
  IN IF tokens THEN "fail"
     ELSE IF r.phase # "compare" \/ Missing(r) THEN "error"
     ELSE IF (r.ok /\ ~FailedClosed(r)) \/ r.internal \/ BlockedValid(r) THEN "pass"
     ELSE "fail"

\* validation_result_from_trial
Row(r) ==
  LET status == RowStatus(r)
      bad == status \in {"fail", "error"}
      tokens == r.tokens = "no" /\ ~r.internal /\ ~BlockedValid(r)
      mtp == r.case = "mtp_enabled"
  IN [status |-> status, compat |-> IF bad THEN "mismatch" ELSE "match", fallback |-> bad, quarantine |-> bad,
      signal |-> IF bad THEN "stale_residency" ELSE "none", type |-> IF mtp THEN "mtp_restore" ELSE "deterministic_text",
      failure |-> IF ~bad THEN "none"
                  ELSE IF tokens THEN "deterministic_text_mismatch"
                  ELSE IF r.phase # "compare" \/ Missing(r) THEN "restore_api_failed"
                  ELSE IF mtp THEN "mtp_restore_mismatch" ELSE "deterministic_text_mismatch",
      checks |-> [c \in BlobChecks \union RestoreChecks |->
                    CASE c = "restore" -> IF r.internal THEN "pass" ELSE IF FailedClosed(r) THEN "fail"
                                          ELSE IF r.used THEN "pass" ELSE IF r.recomputed THEN "skipped" ELSE "fail"
                      [] c = "text" -> IF tokens THEN "fail" ELSE IF r.internal THEN "pass" ELSE IF FailedClosed(r) THEN "fail"
                                       ELSE IF r.matches THEN "pass" ELSE "fail"
                      [] OTHER -> "not_checked"],
      trace |-> r.trace, manifest |-> IF r.manifest # "none" THEN r.manifest ELSE r.key, key |-> r.key, worker |-> r.worker]

\* runtime_blocked_by_upstream
Blocked(r) == ~r.ok /\ r.contradicted /\ (r.nondeterministic \/ r.matches)

\* run_live: the verdict on the trials ts with acts for the audit actions of their events; cases are skipped for want of MTP.
Verdict(ts, acts, skips, allowSkips) ==
  LET trials == {Trial(t) : t \in ts}
      rows == {Row(r) : r \in trials}
      events == UNION {ToSet(t.events) : t \in ts}
      failed == {r \in trials : ~r.ok}
      sound == /\ \A e \in events : ValidEvent(e, acts[e])
               /\ \A row \in rows : ValidResult(row)
               /\ Crossed(events, rows)
  IN [ok |-> failed = {} /\ sound /\ (~skips \/ allowSkips),
      status |-> CASE failed = {} /\ sound /\ (~skips \/ allowSkips) -> "pass"
                   [] failed # {} /\ sound /\ \A r \in failed : Blocked(r) -> "runtime_blocked"
                   [] OTHER -> "fail",
      sound |-> sound]

\* selected_cases with deployment_has_mtp_enabled: is the case run or skipped?
Skipped(case, enabled, worker) ==
  case = "mtp_enabled" /\ ~\E n \in DOMAIN enabled : enabled[n] /\ worker \in {"none", n}
=============================================================================
