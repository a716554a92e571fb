----------------------------- MODULE RouterEvidence -----------------------------
(***************************************************************************)
(* What a completion request with a cache_router extension comes to, from  *)
(* the registry and the workers it meets: the registry it leaves, the      *)
(* decision events it writes and the answer.  One request at a time (how   *)
(* several interleave is the subject of module CachedRequest).             *)
(*                                                                         *)
(* The registry is a sequence of entries of module CacheKeys, each with    *)
(* the workers that hold its slot file ("on") and the state of its blob as *)
(* in module StoreAudit.  ws[n] is a worker: its inventory row and whether *)
(* it is ready.  Texts are what a model may generate; the text from a      *)
(* restored slot is "a".  Inputs that end in a 400 are left out.           *)
(***************************************************************************)
EXTENDS CacheKeys, DecisionEvents, StoreAudit, SequencesExt

Texts == {"a", "b"}
NoText == "none"

\* An answer under way: what it found and did until now.
Began(rows) == [rows |-> rows, events |-> <<>>, tried |-> {}, status |-> "none", text |-> NoText, worker |-> "none",
                key |-> "none", hit |-> "none", validation |-> "off", recomputed |-> NoText, restored |-> FALSE]

Told(s, e) == [s EXCEPT !.events = Append(@, e)]
Ended(s, status) == [s EXCEPT !.status = status]

\* The rows when the entry of key k has been quarantined, or has been used on worker n.
Quarantine(rows, k) == [i \in DOMAIN rows |-> IF rows[i].key = k THEN [rows[i] EXCEPT !.status = "quarantined"] ELSE rows[i]]
Touch(rows, k, n, now) ==
  [i \in DOMAIN rows |-> IF rows[i].key = k THEN [rows[i] EXCEPT !.used = now, !.on = @ \union {n}] ELSE rows[i]]

\* The workers a request may go to.
Able(ws, q, fallback) ==
  {n \in IF q.worker # "none" /\ ~fallback THEN {q.worker} ELSE DOMAIN ws : ws[n].ready /\ ws[n].row.model = q.model}

\* candidate_workers: any order, as ranks depend on load (module RankedAdmission).
Orders(ws, q, fallback) == SetToSeqs(Able(ws, q, fallback))

\* ordered_workers of the lookup: the inventory's order, the worker asked for first.
Ordered(ws, names, q) ==
  LET others == IF q.worker = "none" \/ q.fallback THEN Picked(names, {i \in DOMAIN names : names[i] # q.worker}) ELSE <<>>
      all == IF q.worker = "none" THEN names ELSE <<q.worker>> \o others
  IN Picked(all, {i \in DOMAIN all : ws[all[i]].row.model = q.model})

\* The full prompt sent to worker n, and its answer: a text, or the worker's own error.
Forwarded(s, n, t, reason) ==
  [Told(s, ProxiedEvent(n, reason)) EXCEPT !.status = IF t = NoText THEN "failed" ELSE "ok", !.text = t, !.worker = n]

\* Why proxy's event says its worker was not the first: the caller's reason, else that of the last one
\* tried before, if it tried one.
ProxyReasons(ws, q, n, reason) ==
  IF reason # "none" THEN {reason}
  ELSE {"none"} \union (IF q.fallback /\ Able(ws, q, TRUE) # {n} THEN Retries ELSE {})

\* proxy of the full prompt, with the reason it is cold; there may be no worker, or none that answers.
Proxied(s, ws, q, reason) ==
  {Ended(s, "unavailable")}
  \union UNION {{Forwarded(s, n, t, r) : t \in Texts \union {NoText}, r \in ProxyReasons(ws, q, n, reason)} :
                  n \in Able(ws, q, q.fallback)}

\* The reason the handler reads from the words of all the errors a request met.
HandlerReason(tried) ==
  IF tried \intersect {"hydration", "corrupt"} # {} THEN "hydration_failed"
  ELSE IF tried \intersect {"incompatible", "other_prefix", "quarantined", "model"} # {} THEN "manifest_quarantined"
  ELSE IF "incomplete" \in tried THEN "cache_key_mismatch"
  ELSE "restore_validation_failed"

\* No worker could: the full prompt is proxied if it is known and the client lets it.
Exhausted(s, ws, q) ==
  IF q.fallback /\ q.prefix # "none" THEN Proxied(s, ws, q, HandlerReason(s.tried)) ELSE {Ended(s, "failed")}

\* The words of an error without a key: one of the strict fields workers in ns may lack has "manifest" in its name.
Words(ns) == {{}} \union {{"incompatible"} : n \in ns}

\* No key: there is no worker, none counted the prefix's tokens, or those in ns, which did, lack strict fields.
Underivable(s, ws, q, ns) == UNION {Exhausted([s EXCEPT !.tried = words], ws, q) : words \in Words(ns)}

-----------------------------------------------------------------------------
(* build_cache *)

\* The entry build_cache_under_registry_lease publishes in the rows, in place of those of the keys ks.
Publish(rows, ws, n, q, ks, now) ==
  LET r == Runtime(ws[n].row)
      k == KeyOf(q.id, q.prefix, q.policy, r)
      replaced(e) == e.id = q.id /\ PolicyDenial(q.policy, e) = "none" /\ e.key \in ks \union {k}
  IN Append(Picked(rows, {i \in DOMAIN rows : ~replaced(rows[i])}),
            [id |-> q.id, key |-> k, policy |-> q.policy, prefix |-> q.prefix, runtime |-> r, status |-> "validated",
             used |-> 0, created |-> now, on |-> {n}, blob |-> "whole", elsewhere |-> "none", encryption |-> Unencrypted])

\* build_cache on the worker selected; an entry that is there is left alone unless it is to be refreshed.
BuildOn(s, ws, n, q, refresh, ks, now) ==
  LET k == KeyOf(q.id, q.prefix, q.policy, Runtime(ws[n].row))
      i == FindEntry(s.rows, q.id, {q.policy}, {k})
  IN IF i # 0 /\ ~Quarantined(s.rows[i]) /\ ~refresh
     THEN [s EXCEPT !.key = k]
     ELSE [Told(s, CommittedEvent(k, n)) EXCEPT !.key = k, !.rows = Publish(@, ws, n, q, ks, now)]

\* select_worker takes the best of the candidates, any of them here, and only the one asked for if there is one.
Built(s, ws, q, refresh, ks, now) ==
  {BuildOn(s, ws, n, q, refresh, ks, now) : n \in {n \in Able(ws, q, FALSE) : Strict(Runtime(ws[n].row))}}

\* The build fails, and the full prompt is proxied if that may be: there is no worker, its key cannot be
\* made, one of its calls fails, or what was uploaded is not the slot file that was hashed.
BuildFailed(s, ws, q) ==
  UNION {Exhausted([s EXCEPT !.tried = {"build"} \union words], ws, q) : words \in {{"corrupt"}} \union Words(Able(ws, q, FALSE))}

-----------------------------------------------------------------------------
(* use_cache *)

\* What one worker makes of the entry before it generates: a failure, or a restored slot.
Tries(e, ws, n, q) ==
  IF ~Strict(Runtime(ws[n].row)) THEN {"incompatible", "incomplete"}
  ELSE IF ~Fits(e, Runtime(ws[n].row)) THEN {"incompatible"}
  ELSE IF q.prefix = "none" THEN {"no_prefix"}
  ELSE IF q.prefix # e.prefix THEN {"other_prefix"}
  ELSE IF n \in e.on THEN {"local", "restore"}
  ELSE IF e.blob = "gone" /\ e.elsewhere # "inside" THEN {"hydration"}
  ELSE IF e.blob \in {"short", "damaged"} THEN {"corrupt"}
  ELSE {"hydrated", "hydration", "restore"}

\* The reason an attempt's own event gives.
AttemptReason(kind) ==
  CASE kind \in {"incompatible", "incomplete"} -> "cache_key_mismatch"
    [] kind \in {"hydration", "corrupt"} -> "hydration_failed"
    [] OTHER -> "restore_validation_failed"

Fail(s, e, n, q, kind) ==
  [Told(s, FailedEvent(e.key, n, q.fallback, AttemptReason(kind))) EXCEPT
     !.tried = @ \union {kind}, !.hit = "none",
     !.rows = IF kind = "corrupt" THEN Quarantine(@, e.key) ELSE @]

\* What the worker reports of the prompt it evaluated.
Counts(q) == [basis |-> IF q.suffixOnly THEN "suffix_only" ELSE "full_prompt", cached |-> 2,
              processed |-> IF q.suffixOnly THEN 1 ELSE 2]

\* The answer from a restored slot, checked against a recompute or not.
Succeed(s, e, n, q, hydrated, now) ==
  [Told(s, RestoredEvent(e.key, n, hydrated, Counts(q))) EXCEPT
     !.status = "ok", !.text = "a", !.worker = n, !.hit = IF hydrated THEN "durable_blob" ELSE "local_nvme",
     !.validation = IF q.validate THEN "pass" ELSE "off", !.recomputed = IF q.validate THEN "a" ELSE NoText,
     !.restored = TRUE, !.rows = Touch(@, e.key, n, now)]

\* The recompute answers otherwise: the entry is quarantined.
Mismatch(s, e, n, q, hydrated) ==
  [Told(s, InvalidEvent(e.key, n, hydrated, Counts(q))) EXCEPT !.rows = Quarantine(@, e.key)]

\* What the recompute answered, t, is the answer.
Recomputed(s, e, n, q, hydrated, t) ==
  [Mismatch(s, e, n, q, hydrated) EXCEPT !.status = "ok", !.text = t, !.worker = n, !.validation = "fail", !.recomputed = t]

\* How the attempt on worker n may answer: from the slot, or with what the check recomputed.
Answering(s, e, ws, n, q, now) ==
  UNION {{Succeed(s, e, n, q, kind = "hydrated", now)}
         \union {Recomputed(s, e, n, q, kind = "hydrated", t) :
                   t \in IF q.validate /\ q.recompute /\ q.fallback THEN Texts \ {"a"} ELSE {}} :
           kind \in Tries(e, ws, n, q) \intersect {"local", "hydrated"}}

\* How it may fail.
Failing(s, e, ws, n, q) ==
  {Fail(s, e, n, q, kind) : kind \in Tries(e, ws, n, q) \ {"local", "hydrated"}}
  \union {Fail(Mismatch(s, e, n, q, kind = "hydrated"), e, n, q, "mismatch") :
            kind \in IF q.validate /\ ~(q.recompute /\ q.fallback) THEN Tries(e, ws, n, q) \intersect {"local", "hydrated"} ELSE {}}

\* A failure after which no other worker is tried.
Final(s, q) == s.tried # {} /\ ("corrupt" \in s.tried \/ ~q.fallback)

\* What is answered on one of the workers in o, where f[i] is what is left after i of them.
AnsweredOn(f, e, ws, o, q, now) ==
  UNION {UNION {Answering(t, e, ws, o[i], q, now) : t \in {t \in f[i - 1] : ~Final(t, q)}} : i \in 1..Len(o)}

\* What is left in the end, after the last worker or a failure that is final.
GivenUp(f, ws, o, q) ==
  UNION {Exhausted(t, ws, q) : t \in f[Len(o)] \union {t \in UNION {f[i] : i \in 1..Len(o)} : Final(t, q)}}

\* The loop of use_cache over the workers in o.
Attempts(s, e, ws, o, q, now) ==
  LET failed[i \in 0..Len(o)] ==
        IF i = 0 THEN {s} ELSE UNION {Failing(t, e, ws, o[i], q) : t \in {t \in failed[i - 1] : ~Final(t, q)}}
  IN AnsweredOn(failed, e, ws, o, q, now) \union GivenUp(failed, ws, o, q)

\* An entry that is not fit to be used; its event names what find_entry makes of the key.
Unfit(s, ws, q, k, kind) ==
  Exhausted([Told(s, RejectedEvent(k, IF kind = "model" THEN "cache_key_mismatch" ELSE "manifest_quarantined"))
               EXCEPT !.tried = {kind}], ws, q)

\* The handler of CacheKeyMismatchError.
Mismatched(s, ws, q, mayFallBack) ==
  IF mayFallBack /\ q.fallback /\ q.prefix # "none" THEN Proxied(s, ws, q, "cache_key_mismatch") ELSE {Ended(s, "not_found")}

Missed(s, k) == {Ended(Told(s, MissEvent(k)), "not_found")}

\* use_cache with the key k, and the handler's clauses for what it raises.
Use(s0, ws, q, k, now) ==
  LET s == [s0 EXCEPT !.key = k]
      i == FindEntry(s.rows, q.id, {q.policy}, {k})
      e == s.rows[i]
      filed == s.rows[FindEntry(s.rows, q.id, {q.policy}, {})].key
      other == s.rows[FindEntry(s.rows, q.id, {}, {k})]
  IN IF Ensure(s.rows, q.id, q.policy, k) = "denied" THEN
            Missed(Told(s, DeniedEvent(PolicyDenial(q.policy, other), k)), k)
     ELSE IF Ensure(s.rows, q.id, q.policy, k) = "miss" THEN Missed(s, k)
     ELSE IF Ensure(s.rows, q.id, q.policy, k) = "mismatch" THEN
            Mismatched(Told(s, MismatchEvent(k, filed)), ws, q, TRUE)
     ELSE IF Ensure(s.rows, q.id, q.policy, k) = "quarantined" THEN Unfit(s, ws, q, k, "quarantined")
     ELSE IF e.runtime.model # q.model THEN Unfit(s, ws, q, k, "model")
     ELSE UNION {Attempts(s, e, ws, o, q, now) : o \in Orders(ws, q, q.fallback)}

-----------------------------------------------------------------------------
(* handle_cached_completion *)

\* mode build and refresh
Building(s, ws, q, now) ==
  LET given == IF q.mode = "refresh" /\ q.key # "none" THEN Ensure(s.rows, q.id, q.policy, q.key) ELSE "found"
      filed == s.rows[FindEntry(s.rows, q.id, {q.policy}, {})].key
      ks == IF q.mode = "refresh" THEN {q.key} ELSE {}
  IN IF given = "mismatch" THEN Mismatched(Told(s, MismatchEvent(q.key, filed)), ws, q, FALSE)
     ELSE IF given = "denied" THEN {Ended(s, "denied")}
     ELSE IF given = "miss" THEN Missed(s, q.key)
     ELSE IF given = "quarantined" THEN {Ended(s, "failed")}
     ELSE {Ended(t, "ok") : t \in Built(s, ws, q, q.mode = "refresh", ks, now)}
          \union {Ended([s EXCEPT !.tried = {"build"}], "failed")}

\* mode auto without an entry: build, then use
BuildThenUse(s, ws, q, now) ==
  LET told == Told(s, ToBuildEvent)
  IN (UNION {Use(t, ws, q, t.key, now) : t \in Built(told, ws, q, FALSE, {}, now)}) \union BuildFailed(told, ws, q)

\* mode use and auto; names are the workers in the order of the inventory, mute those that do not
\* count the prefix's tokens when the key is derived.
Using(s, ws, names, mute, q, now) ==
  LET o == Ordered(ws, names, q)
      told == {i \in DOMAIN o : o[i] \notin mute}
      runtimes == [i \in DOMAIN o |-> Runtime(ws[o[i]].row)]
      k == IF q.key # "none" THEN q.key ELSE KeyFor(s.rows, runtimes, told, q.id, q.prefix, q.policy)
  IN IF q.key = "none" /\ KeyCandidates(runtimes, told, q.id, q.prefix, q.policy) = <<>>
     THEN Underivable(s, ws, q, ToSet(o) \ mute)
     ELSE IF q.mode = "auto" /\ q.key = "none" /\ FindEntry(s.rows, q.id, {q.policy}, {k}) = 0
     THEN BuildThenUse(s, ws, q, now) ELSE Use(s, ws, q, k, now)

\* Which workers may not count the tokens of q's prefix when its key is derived, if it is.
Mutes(ws, names, q) == IF q.mode \in {"use", "auto"} /\ q.key = "none" THEN SUBSET ToSet(Ordered(ws, names, q)) ELSE {{}}

\* All that may come of request q at the given time.
Answers(rows, ws, names, mute, q, now) ==
  LET s == Began(rows)
  IN IF q.mode = "bypass" THEN Proxied(s, ws, q, "none")
     ELSE IF RequestDenial(q.policy) # "none" THEN {Ended(Told(s, DeniedEvent(RequestDenial(q.policy), "none")), "denied")}
     ELSE IF q.mode \in {"build", "refresh"} THEN Building(s, ws, q, now)
     ELSE Using(s, ws, names, mute, q, now)
=============================================================================
