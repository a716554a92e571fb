-------------------------------- MODULE AgentLoop --------------------------------
(***************************************************************************)
(* The agent loop, cache_router_agent_loop, against one router: clients    *)
(* have filled its cache, and now one of its subagents runs, the cache     *)
(* cycle, the correctness probe or the suffix benchmark, or one more       *)
(* client asks something.                                                  *)
(*                                                                         *)
(* Requests and answers are those of module RouterEvidence, trials those   *)
(* of CorrectnessProbe, benchmark runs those of SuffixGate.  What a client *)
(* and a probe see of the answers is kept, with the registry each request  *)
(* met.                                                                    *)
(***************************************************************************)
EXTENDS RouterEvidence, CorrectnessProbe, SuffixGate, Replay

CONSTANTS
  Names,        \* the workers in the order of the inventory
  Fleets,       \* what they may be: the worker of a name
  Earlier,      \* what clients ask first
  Questions,    \* what one more client may ask
  MaxEarlier,   \* how many ask first
  Options       \* how the probe is called

LocalPolicy == PolicyOf([scope |-> "absent", tenant |-> "absent", conversation |-> "absent", rule |-> "absent"])
TrialPolicy == [scope |-> "conversation", tenant |-> "probe", conversation |-> "trial", rule |-> "local"]

\* What an entry may be built for: an id, a prefix and a policy; the last three are the subagents'.
Material ==
  {<<q.id, q.prefix, q.policy>> : q \in Earlier \union Questions}
  \union ({"agent-loop"} \X {"branch-a", "branch-b", "none"} \X {LocalPolicy})
  \union {<<"trial", "case", TrialPolicy>>, <<"suffix-benchmark", "long", LocalPolicy>>}

\* What the workers of a fleet may run.
Runtimes == {Runtime(f[n].row) : f \in Fleets, n \in ToSet(Names)}

\* An id and a policy by which entries may be filed.
Fileable(id, p) == id # "none" /\ p \in [{"scope", "tenant", "conversation", "rule"} -> {p[f] : f \in DOMAIN p} \ {"absent"}]

\* A request names a worker of the inventory, if any.
Wellformed(q) ==
  /\ <<q.id, q.prefix, q.policy>> \in Material
  /\ q.worker \in ToSet(Names) \union {"none"}
  /\ {q.fallback, q.validate, q.recompute, q.suffixOnly} \subseteq BOOLEAN

ASSUME FleetAssumption ==
  /\ Names \in Seq(STRING) /\ Names # <<>>
  /\ \A i, j \in DOMAIN Names : Names[i] = Names[j] => i = j
  /\ \A f \in Fleets : /\ DOMAIN f = ToSet(Names)
                       /\ \A n \in DOMAIN f : f[n].row.mtp \in BOOLEAN /\ f[n].row.build # "none"
ASSUME RequestAssumption ==
  /\ \A q \in Earlier \union Questions : Wellformed(q) /\ Fileable(q.id, q.policy)
  /\ Options \subseteq [worker : ToSet(Names) \union {"none"}, fallback : BOOLEAN, validate : BOOLEAN]
\* A hash is a digest, and no two models have the same.
ASSUME HashAssumption ==
  \A m, l \in Material, r, t \in Runtimes :
    /\ KeyOf(m[1], m[2], m[3], r) # "none"
    /\ KeyOf(m[1], m[2], m[3], r) = KeyOf(l[1], l[2], l[3], t) => r.model = t.model
\* No two records of key fields have the same digest at all.
ASSUME DigestAssumption ==
  \A m, l \in Material, r, t \in Runtimes :
    KeyOf(m[1], m[2], m[3], r) = KeyOf(l[1], l[2], l[3], t) => KeyFields(m[1], m[2], m[3], r) = KeyFields(l[1], l[2], l[3], t)

VARIABLES
  ws,           \* the workers
  rows,         \* the registry
  task,         \* "none", "client", "cycle", "probe", "benchmark" or "over"
  asked,        \* the requests of the task: the request, the registry it met, the answer
  trial         \* how the probe's trial or the benchmark went, if there was one

vars == <<ws, rows, task, asked, trial>>

NoTrial == [case |-> "none"]
Now == Len(rows) + Len(asked) + 1

Init ==
  /\ ws \in Fleets
  /\ rows = <<>>
  /\ task = "none"
  /\ asked = <<>>
  /\ trial = NoTrial

\* Send request q and remember what it met.
Request(q) ==
  \E mute \in Mutes(ws, Names, q) : \E a \in Answers(rows, ws, Names, mute, q, Now) :
    rows' = a.rows /\ asked' = Append(asked, [q |-> q, rows |-> rows, mute |-> mute, a |-> a])

\* An earlier client's request; nobody looks at its answer again.
Fill ==
  /\ task = "none" /\ Len(rows) < MaxEarlier
  /\ \E q \in Earlier, now \in {Now} : \E mute \in Mutes(ws, Names, q) :
       \E a \in Answers(rows, ws, Names, mute, q, now) : rows' = a.rows
  /\ UNCHANGED <<ws, task, asked, trial>>

\* The blob of one entry is damaged, or gone from its content address, with a copy kept elsewhere in
\* the store or outside it; the workers may have lost the slot file.
Wear ==
  /\ task = "none"
  /\ \A i \in DOMAIN rows : rows[i].blob = "whole" /\ rows[i].on # {}
  /\ \E i \in DOMAIN rows, b \in {"damaged", "gone"}, on \in BOOLEAN :
       \E elsewhere \in IF b = "gone" THEN {"inside", "outside"} ELSE {"none"} :
         rows' = [rows EXCEPT ![i].blob = b, ![i].elsewhere = elsewhere, ![i].on = IF on THEN @ ELSE {}]
  /\ UNCHANGED <<ws, task, asked, trial>>

\* One more client.
Ask ==
  /\ task = "none" /\ task' = "client"
  /\ \E q \in Questions : Request(q)
  /\ UNCHANGED <<ws, trial>>

-----------------------------------------------------------------------------
(* The cache cycle *)

Absent == "0"      \* the key nothing is filed under

\* ready_worker_ids, in the router's order
ReadyWorkers == Picked(Names, {i \in DOMAIN Names : ws[Names[i]].ready})

\* cache_body, without fallback
CycleBody(mode, prefix, key, worker) ==
  [mode |-> mode, id |-> "agent-loop", model |-> ws[Names[1]].row.model, prefix |-> prefix, policy |-> LocalPolicy, key |-> key,
   worker |-> worker, fallback |-> FALSE, validate |-> FALSE, recompute |-> FALSE, suffixOnly |-> FALSE]

\* cache_key_from_body of an answer
KeyOfAnswer(x) == IF x.a.status = "ok" THEN x.a.key ELSE "none"

\* run_cache_cycle: the step that follows those done, on the first ready worker and the second.
CycleStep ==
  LET target == ReadyWorkers[1]
      second == ReadyWorkers[2]
      a == KeyOfAnswer(asked[1])
      done == Len(asked)
  IN CASE done < 2 -> CycleBody("auto", "branch-a", "none", target)
       [] done = 2 -> CycleBody("auto", "branch-b", "none", target)
       [] done = 3 -> CycleBody("use", "none", a, target)
       [] done = 4 -> CycleBody("use", "none", a, second)
       [] OTHER -> CycleBody("use", "none", Absent, target)

\* The two uses by handle are left out without a handle; here there are two ready workers.
Cycle ==
  /\ task \in {"none", "cycle"} /\ task' = "cycle"
  /\ task = "none" => rows = <<>> /\ Len(ReadyWorkers) = 2
  /\ Len(asked) < 6
  /\ asked # <<>> => KeyOfAnswer(asked[1]) # "none"
  /\ Request(CycleStep)
  /\ UNCHANGED <<ws, trial>>

\* What the cycle's result calls ok, once it has run.
CyclePassed ==
  LET done(i) == asked[i].a.status = "ok"
      keys == {KeyOfAnswer(asked[1]), KeyOfAnswer(asked[3])}
  IN /\ \A i \in 1..5 : done(i)
     /\ asked[6].a.status = "not_found"
     /\ keys \subseteq {rows[i].key : i \in DOMAIN rows} /\ Cardinality(keys) = 2

-----------------------------------------------------------------------------
(* The correctness probe *)

\* correctness_command, or the probe called by hand: o has the worker, the fallback,
\* whether the router is to validate, and the draft options.
TrialBody(o, mode) ==
  [mode |-> mode, id |-> "trial", model |-> ws[Names[1]].row.model, prefix |-> "case",
   policy |-> TrialPolicy,
   key |-> "none", worker |-> o.worker, fallback |-> o.fallback,
   validate |-> o.validate /\ mode = "use", recompute |-> o.validate /\ mode = "use", suffixOnly |-> FALSE]

\* The phase a trial failed in, "compare" if every request was answered.
Phase(cold) ==
  IF asked[1].a.status # "ok" THEN "build" ELSE IF cold = NoText THEN "cold" ELSE IF asked[2].a.status # "ok" THEN "restore" ELSE "compare"

\* run_trial: its build, refreshed whatever is there, and its use.
ProbeRequest ==
  /\ \/ task = "none" /\ rows = <<>> /\ task' = "probe"
        /\ \E o \in Options : Request(TrialBody(o, "refresh"))
     \/ task = "probe" /\ Len(asked) = 1 /\ asked[1].a.status = "ok" /\ UNCHANGED task
        /\ \E o \in Options : /\ TrialBody(o, "refresh") = asked[1].q
                              /\ Request(TrialBody(o, "use"))
  /\ UNCHANGED <<ws, trial>>

\* The comparison, with a cold text from the router or from the worker itself, none if that
\* failed.  The log grew by other events before the trial's own are read back.
Judge ==
  /\ task = "probe" /\ (Len(asked) = 2 \/ asked[1].a.status # "ok") /\ task' = "over"
  /\ \E cold \in Texts \union {NoText}, others \in {0, 99, 100}, tokenized, agree, noDraft, drafted \in BOOLEAN :
       LET phase == Phase(cold)
           seen == Seen(asked[2].a.events, others, 100)
       IN /\ phase # "compare" => others = 0 /\ ~tokenized /\ ~drafted
          /\ ~tokenized => ~agree
          /\ trial' = [case |-> IF ws[Names[1]].row.mtp THEN "mtp_enabled" ELSE "deterministic_generation", phase |-> phase,
                       key |-> KeyOfAnswer(asked[1]), cold |-> cold, answer |-> asked[Len(asked)].a,
                       events |-> IF phase = "compare" THEN [i \in DOMAIN seen |-> seen[i] @@ [trace |-> "trace"]] ELSE <<>>,
                       tokenized |-> tokenized, agree |-> agree, noDraft |-> noDraft, drafted |-> drafted]
  /\ UNCHANGED <<ws, rows, asked>>

-----------------------------------------------------------------------------
(* The suffix benchmark *)

\* build_body and restored_body
BenchBody(o, mode, key) ==
  [mode |-> mode, id |-> "suffix-benchmark", model |-> ws[Names[1]].row.model, prefix |-> "long", policy |-> LocalPolicy,
   key |-> key, worker |-> o.worker, fallback |-> FALSE, validate |-> FALSE, recompute |-> FALSE,
   suffixOnly |-> mode = "use" /\ o.suffixOnly]

Benchmarks == [worker : {o.worker : o \in Options}, suffixOnly : BOOLEAN]

\* run_live: the build, then MinRuns requests by the key it was told.
BenchRequest ==
  /\ \/ task = "none" /\ rows = <<>> /\ task' = "benchmark"
        /\ \E o \in Benchmarks : Request(BenchBody(o, "refresh", "none"))
     \/ task = "benchmark" /\ asked[1].a.status = "ok" /\ Len(asked) <= MinRuns /\ UNCHANGED task
        /\ \E o \in Benchmarks :
             /\ IF Len(asked) = 1 THEN o.worker = asked[1].q.worker ELSE BenchBody(o, "use", KeyOfAnswer(asked[1])) = asked[2].q
             /\ Request(BenchBody(o, "use", KeyOfAnswer(asked[1])))
  /\ UNCHANGED <<ws, trial>>

\* The summary: each run's cold request, sent apart to the worker or to any, may have failed.
Summarize ==
  /\ task = "benchmark" /\ (asked[1].a.status # "ok" \/ Len(asked) = MinRuns + 1) /\ task' = "over"
  /\ \E cold \in [2..Len(asked) -> BOOLEAN], times \in [timed : BOOLEAN, first : BOOLEAN, proxy : BOOLEAN] :
       LET run(i) == [cold |-> cold[i + 1], answer |-> asked[i + 1].a, suffixOnly |-> asked[i + 1].q.suffixOnly]
           runs == [i \in 1..(Len(asked) - 1) |-> run(i)]
       IN /\ times.first => times.timed
          /\ trial' = [case |-> "suffix", runs |-> runs, status |-> Summary(asked[1].a.status = "ok", runs, times)]
  /\ UNCHANGED <<ws, rows, asked>>

Next == Fill \/ Wear \/ Ask \/ Cycle \/ ProbeRequest \/ Judge \/ BenchRequest \/ Summarize

Spec == Init /\ [][Next]_vars

-----------------------------------------------------------------------------
(* What the last answer must satisfy *)

Latest == asked[Len(asked)]
Answered == asked # <<>> /\ task # "over"
Met == ToSet(Latest.rows)

\* An answer restored from a cache comes from an entry of the client's own scope and
\* prefix, made by a worker that runs what the restoring worker runs, draft model included.
RightEntry ==
  Answered /\ Latest.a.restored =>
    \E e \in ToSet(Latest.a.rows) :
      LET q == Latest.q r == Runtime(ws[Latest.a.worker].row)
      IN /\ e.key = Latest.a.key /\ e.id = q.id /\ e.prefix = q.prefix
         /\ e.policy.scope = q.policy.scope /\ e.policy.tenant = q.policy.tenant
         /\ e.policy.scope = "conversation" => e.policy.conversation = q.policy.conversation
         /\ <<e.runtime.model, e.runtime.build, e.runtime.mtp>> = <<r.model, r.build, r.mtp>>
         /\ r.mtp => e.runtime.draftHash = r.draftHash

\* An entry that serves the request is found: sound, of its scope and prefix, made by what a ready worker
\* it may go to runs that counted the prefix's tokens, and not behind a quarantined one.  An entry that only
\* workers fit that did not count them is passed over without a word, as the code does.
Serving(q) ==
  {e \in Met : /\ e.id = q.id /\ e.prefix = q.prefix /\ e.status = "validated" /\ PolicyDenial(q.policy, e) = "none"
                  /\ \E n \in ToSet(Ordered(ws, Names, q)) \ Latest.mute : ws[n].ready /\ Fits(e, Runtime(ws[n].row))}

RefusalsExplained ==
  /\ Answered /\ Latest.q.mode = "use" /\ Latest.q.key = "none" /\ Serving(Latest.q) # {}
  /\ ~\E e \in Met : e.id = Latest.q.id /\ Quarantined(e)
  => Latest.a.restored \/ Latest.a.recomputed # NoText \/ \E i \in DOMAIN Latest.a.events : Latest.a.events[i].phase = "request_failed"

\* Every event of every answer satisfies the contract its readers validate it by.
TrailValid ==
  Answered => \A i \in DOMAIN Latest.a.events : ValidEvent(Latest.a.events[i], Actions(Latest.a.events[i]))

\* The audit log tells an answer from a cache from a cold one and from a denial.
AuditTells ==
  Answered =>
    LET audit == ToSet(Audited(Latest.a.events))
    IN /\ Latest.a.restored <=> \E x \in audit : x.operation = "restore" /\ x.outcome = "success"
       /\ Latest.a.status = "ok" /\ ~Latest.a.restored /\ Latest.q.mode \in {"use", "auto"}
            => \E x \in audit : x.outcome \in {"fallback", "quarantined"}
       /\ (\E x \in audit : x.outcome = "denied") => Latest.a.status \in {"denied", "not_found"}

-----------------------------------------------------------------------------
(* The replay, the audit and the probe *)

Block(r) == [build |-> r.build, mtp |-> r.mtp, draft |-> DraftKey(r)]

ReplayWorkers == [n \in DOMAIN ws |-> [health |-> "healthy", capacity |-> ws[n].ready, models |-> {ws[n].row.model},
                                       block |-> Block(Runtime(ws[n].row)), restores |-> TRUE, hydrates |-> TRUE, context |-> 1]]

ReplayManifest(e) ==
  [key |-> e.key, scope |-> e.policy.scope, model |-> e.runtime.model, prefix |-> e.prefix, tenant |-> e.policy.tenant,
   conversation |-> e.policy.conversation, status |-> e.status, encrypted |-> TRUE, block |-> Block(e.runtime),
   residency |-> {[worker |-> n, status |-> "available"] : n \in e.on}, durable |-> TRUE, failsRestore |-> FALSE, priority |-> 100]

ReplayPolicy == [scopes |-> {"conversation", "tenant"}, crossTenant |-> FALSE, conversation |-> TRUE, global |-> FALSE,
                 allowlist |-> {}, rejects |-> TRUE]

\* A request as the replay has it: the key derived on worker n.
ReplayRequest(q, n) ==
  [key |-> KeyOf(q.id, q.prefix, q.policy, Runtime(ws[n].row)), scope |-> q.policy.scope, model |-> q.model, prefix |-> q.prefix,
   tenant |-> q.policy.tenant, conversation |-> q.policy.conversation, workers |-> Names,
   block |-> Block(Runtime(ws[n].row)), context |-> 1]

\* Whatever registry the clients have left and whatever one more client asks: for the key its lookup uses,
\* the offline replay restores if and only if the router finds a sound entry that a ready worker fits; it is
\* then one the strict key fixtures allow, and the ranking prototype restores the same entry on the same worker.
ReplayAgrees ==
  task = "none" => \A c \in Questions :
    \A n \in {n \in DOMAIN ws : ws[n].row.model = c.model} :
      LET q == ReplayRequest(c, n)
          manifests == [i \in DOMAIN rows |-> ReplayManifest(rows[i])]
          e == Decide(q, ReplayWorkers, manifests, ReplayPolicy)
          p == Prototype(q, ReplayWorkers, manifests, ReplayPolicy)
          i == FindEntry(rows, c.id, {c.policy}, {q.key})
          able == {w \in DOMAIN ws : ws[w].ready /\ Fits(rows[i], Runtime(ws[w].row))}
      IN /\ Serves(e) <=> Ensure(rows, c.id, c.policy, q.key) = "found" /\ able # {}
         /\ Serves(e) => \E m \in ToSet(manifests) :
              Fixture(q, m, ReplayWorkers[e.worker], ReplayPolicy, "local_restore") = "restore_allowed"
         /\ Serves(p) <=> Serves(e)
         /\ Serves(p) => <<p.decision, p.worker, p.key>> = <<e.decision, e.worker, e.key>>
         /\ ValidEvent(e, Expected(e)) /\ ValidEvent(p, Expected(p))

\* What may become of the manifest of an entry: its status set by a router or a deletion, its blob and a
\* copy lost or changed, the encryption it was written under.
Fates(e) ==
  {[e EXCEPT !.status = s, !.blob = b, !.elsewhere = w, !.encryption = x] :
     s \in {e.status, "quarantined", "corrupt", "tenant_deleted", "deleted"}, b \in {"whole", "short", "damaged", "gone"},
     w \in {"none", "inside", "outside"}, x \in {Unencrypted, Encryption}}

\* The router and the offline audit, with and without an encryption demanded, rebuild the same row of every
\* manifest the clients have filled the cache with, whatever has become of it, but for these: only the router
\* files one with a copy at another place in the store, and one without the encryption that is demanded; only
\* the audit files one that is quarantined or a tombstone.
RebuildsAgree ==
  task = "none" => \A e \in ToSet(rows), required \in BOOLEAN : \A m \in Fates(e) :
    LET router == RouterRebuilt({m})
        audit == AuditRebuilt({m}, required)
    IN /\ router \subseteq audit \/ (m.blob = "gone" /\ m.elsewhere = "inside") \/ (required /\ m.encryption = Unencrypted)
       /\ audit \subseteq router \/ Quarantined(m) \/ ~Active(m)
       /\ Quarantined(m) \/ m.status = "tenant_deleted" => router = {}

\* A verdict of the probe is right: an answer it passes is the cold one or the one the
\* router's own check recomputed, and without fallback it came from the cache.
ProbeHonest ==
  task = "over" /\ trial.case # "suffix" /\ Verdict({trial}, [e \in ToSet(trial.events) |-> Actions(e)], FALSE, FALSE).ok =>
    /\ \/ trial.answer.text = trial.cold
       \/ trial.answer.validation = "pass" /\ trial.answer.text = trial.answer.recomputed
    /\ ~asked[1].q.fallback => trial.answer.restored
    /\ trial.events # <<>>

\* A benchmark that passes has every answer from the entry its own build made, by a
\* worker that evaluated the suffix alone.
BenchHonest ==
  task = "over" /\ trial.case = "suffix" /\ trial.status \in {"pass", "pass_proxy"} =>
    /\ Len(trial.runs) >= MinRuns
    /\ \A i \in DOMAIN trial.runs : LET x == trial.runs[i] IN
         /\ x.answer.restored /\ x.answer.key = asked[1].a.key /\ x.suffixOnly
         /\ \E e \in ToSet(rows) : e.key = x.answer.key /\ x.answer.worker \in e.on /\ e.prefix = "long" /\ ~Quarantined(e)

\* Neither gate passes what its requests do not bear out.
GateHonest == ProbeHonest /\ BenchHonest

\* A benchmark that passes compared as many prompts as it must have runs.
EnoughCompared ==
  task = "over" /\ trial.case = "suffix" /\ trial.status = "pass" =>
    Cardinality({i \in DOMAIN trial.runs : Reduction(trial.runs[i]) # "none"}) >= MinRuns

\* A cycle in which every worker did what it was asked to has passed.
CyclePasses ==
  /\ task = "cycle" /\ Len(asked) = 6
  /\ \A i \in 1..6 : asked[i].mute = {} /\ asked[i].a.tried \intersect {"build", "restore", "hydration"} = {}
  => CyclePassed
=============================================================================
