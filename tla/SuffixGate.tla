------------------------------- MODULE SuffixGate -------------------------------
(***************************************************************************)
(* The suffix benchmark gate, cache_router_suffix_benchmark_gate: after a  *)
(* build, every run asks the same thing cold and from the cache, and a     *)
(* summary judges the rows.                                                *)
(*                                                                         *)
(* A run r: whether its cold request was answered, the answer to the       *)
(* request by key, and whether that evaluated only the suffix.  Prefixes   *)
(* are long: a prompt whose prefix was not evaluated is over 90% shorter,  *)
(* and the suffix has fewer tokens than the prefix.  Times are only        *)
(* compared, so what the comparisons come to is an input.                  *)
(***************************************************************************)
EXTENDS Naturals, FiniteSets

CONSTANT MinRuns      \* ACCEPTANCE_MIN_RUNS
ASSUME RunsAssumption == MinRuns \in Nat

CacheLevels == {"local_nvme", "durable_blob"}

\* reduction_percent against the threshold: "none" without a count of the cold prompt or of the restored one.
Reduction(r) ==
  IF ~r.cold \/ r.answer.status # "ok" THEN "none" ELSE IF r.suffixOnly THEN "enough" ELSE "little"

\* classify_full_reprocess
FullReprocess(r) ==
  IF r.answer.status # "ok" THEN "not_captured"
  ELSE IF Reduction(r) = "enough" THEN "no"
  ELSE IF r.suffixOnly THEN "no" ELSE "yes"

\* restore_error of run_one_live; a fallback is never asked for.
RestoreError(r) == r.answer.status # "ok" \/ r.answer.hit \notin CacheLevels \/ r.answer.tried # {}

\* prompt_ok of summarize_runs: the least of the reductions there are.
PromptOk(rs) ==
  LET reductions == {Reduction(rs[i]) : i \in DOMAIN rs} \ {"none"}
  IN Cardinality(DOMAIN rs) >= MinRuns /\ reductions = {"enough"}

\* summarize_runs, and run_live's word for a build that failed; times tells whether first
\* tokens were timed in enough runs, and whether they, or the proxies for them, improved enough.
Summary(built, rs, times) ==
  IF ~built THEN "build_failed"
  ELSE IF Cardinality(DOMAIN rs) < MinRuns THEN "insufficient_runs"
  ELSE IF \E i \in DOMAIN rs : RestoreError(rs[i]) \/ FullReprocess(rs[i]) = "yes" THEN "fail"
  ELSE IF PromptOk(rs) /\ times.first THEN "pass"
  ELSE IF PromptOk(rs) /\ times.proxy THEN "pass_proxy"
  ELSE IF PromptOk(rs) /\ ~times.timed THEN "insufficient_true_ttft"
  ELSE "fail"
=============================================================================
