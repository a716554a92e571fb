----------------------------- MODULE CachedRequest ----------------------------
(***************************************************************************)
(* A cached completion through a router: handle_cached_completion and the  *)
(* build_cache, ensure_entry and use_cache it calls.  A router builds or   *)
(* uses one cache at a time (CacheRouterState.lock) and holds a registry   *)
(* lease on the key meanwhile; a proxied request takes neither, and no     *)
(* lease covers a worker's slot.                                           *)
(*                                                                         *)
(* What is in a slot, a slot file or a blob is the prefix it continues, so *)
(* a key, or "foreign" for any other prompt.  A content-addressed blob is  *)
(* named by its content.  Manifest and registry row are one entry here:    *)
(* how they are written one after the other is module RegistryStore.       *)
(***************************************************************************)
EXTENDS Naturals

CONSTANTS
  Requests, Routers, Workers,
  Keys,          \* cache_key_hash values, each with its prefix
  Asks,          \* what each request may ask, a set of records (see AskFields)
  Appends,       \* whether a worker appends a bare suffix to what it restored
  Faults         \* whether a stored blob may be damaged

AskFields == {"router", "chat", "mode", "prefix", "key", "given", "fallback", "suffixOnly", "validate",
              "recompute"}

ASSUME CachedAssumption ==
  /\ \A q \in Requests : \A a \in Asks[q] : DOMAIN a = AskFields /\ a.router \in Routers /\ {a.prefix, a.key} \subseteq Keys
  /\ Appends \in BOOLEAN /\ Faults \in BOOLEAN
  /\ "free" \notin Requests /\ Keys \intersect {"foreign", "empty"} = {}

VARIABLES
  at, ask,       \* where a request is, and what it asks
  lock,          \* the request inside a router's lock
  job,           \* what it has in memory: the entry, the worker in use, the candidates
                 \* that failed, and what the last completion continued
  reply,         \* what the client has got
  begun,         \* how often begin_request was called
  counted,       \* how often finish_request was called
  slot, file,    \* a worker's slot, and its slot file of a key
  blob, entry,   \* the durable store
  shared         \* other traffic reaches the slots: proxied requests, other routers

store == <<slot, file, blob, entry>>
vars == <<at, ask, lock, job, reply, begun, counted, store, shared>>

Free == "free"
Contents == Keys \union {"foreign", "empty"}
NoEntry == [content |-> "empty", status |-> "none"]
NoAsk == [router |-> "none", mode |-> "none", suffixOnly |-> FALSE, validate |-> FALSE]

NoJob == [entry |-> NoEntry, on |-> Free, tried |-> {}, context |-> "none"]

Stored(k) == [content |-> k, status |-> "validated"]

Init ==
  /\ at = [q \in Requests |-> "new"]
  /\ ask = [q \in Requests |-> NoAsk]
  /\ lock = [r \in Routers |-> Free]
  /\ job = [q \in Requests |-> NoJob]
  /\ reply = [q \in Requests |-> "none"]
  /\ begun = [q \in Requests |-> 0]
  /\ counted = [q \in Requests |-> 0]
  /\ slot = [w \in Workers |-> "empty"]
  /\ file = [w \in Workers |-> [k \in Keys |-> "empty"]]
  /\ entry \in [Keys -> {NoEntry} \union {Stored(k) : k \in Keys}]
  /\ \A k \in Keys : entry[k] \in {NoEntry, Stored(k)}
  /\ \E b \in {"good"} \union (IF Faults THEN {"damaged"} ELSE {}) :
       blob = [c \in Contents |-> IF \E k \in Keys : entry[k] = Stored(c) THEN b ELSE "absent"]
  /\ shared \in BOOLEAN

\* is_quarantined_cache_status of row and manifest
Usable(e) == e.status = "validated"

Building == {"erase", "prefill", "save", "upload", "publish"}
Using == {"hydrate", "restore", "generate", "validate", "finish"}

\* The key a request has the lease of.
Leased(q, k) ==
  \/ at[q] \in Building /\ ask[q].prefix = k
  \/ at[q] \in Using /\ ask[q].key = k

\* The lease has another router as its owner.
Conflict(q, k) == \E p \in Requests : ask[p].router # ask[q].router /\ Leased(p, k)

-----------------------------------------------------------------------------
(* Every step of a request is one of these three, with its next stage s. *)

\* On, with j in memory.
Goes(q, s, j) ==
  /\ at' = [at EXCEPT ![q] = s]
  /\ job' = [job EXCEPT ![q] = j]
  /\ UNCHANGED <<lock, reply, begun, counted>>

\* Out of the router's lock.
Leaves(q, s, j) ==
  /\ at' = [at EXCEPT ![q] = s]
  /\ job' = [job EXCEPT ![q] = j]
  /\ lock' = [lock EXCEPT ![ask[q].router] = IF @ = q THEN Free ELSE @]
  /\ UNCHANGED <<reply, begun, counted>>

\* send_error_json or send_json, and finish_request in the finally clause.
Reply(q, a) ==
  /\ at' = [at EXCEPT ![q] = "done"]
  /\ job' = [job EXCEPT ![q] = NoJob]
  /\ lock' = [lock EXCEPT ![ask[q].router] = IF @ = q THEN Free ELSE @]
  /\ reply' = [reply EXCEPT ![q] = a]
  /\ counted' = [counted EXCEPT ![q] = @ + 1]
  /\ UNCHANGED begun

\* Counts a request that the proxy counts as well.
FaultyColdPrompt(q) ==
  /\ at' = [at EXCEPT ![q] = "proxied"]
  /\ job' = [job EXCEPT ![q] = NoJob]
  /\ lock' = [lock EXCEPT ![ask[q].router] = IF @ = q THEN Free ELSE @]
  /\ counted' = [counted EXCEPT ![q] = @ + 1]
  /\ UNCHANGED <<reply, begun>>

\* The full prompt goes to a worker; the proxy will count the request.
ColdPrompt(q) == Leaves(q, "proxied", NoJob)

\* allow_fallback, in a mode that wanted a completion whose prompt can be put together.
MayFallBack(q) == ask[q].fallback /\ ~ask[q].chat /\ ask[q].mode \in {"auto", "use"}

\* The handlers of CacheKeyMismatchError and of any other exception.
Fails(q, a) == IF MayFallBack(q) THEN ColdPrompt(q) ELSE Reply(q, a)

-----------------------------------------------------------------------------
(* handle_cached_completion *)

Arrive(q) ==
  /\ at[q] = "new"
  /\ \E a \in Asks[q] :
       /\ shared \/ \A p \in Requests : ask[p] = NoAsk \/ ask[p].router = a.router
       /\ ask' = [ask EXCEPT ![q] = a]
  /\ Goes(q, "received", NoJob)
  /\ UNCHANGED <<store, shared>>

\* A malformed request, in any mode: answered before begin_request, and not counted.
Malformed(q) ==
  /\ at[q] = "received"
  /\ at' = [at EXCEPT ![q] = "done"]
  /\ reply' = [reply EXCEPT ![q] = "400"]
  /\ UNCHANGED <<ask, lock, job, begun, counted, store, shared>>

\* begin_request, here or first thing in the proxy.
Begin(q) ==
  /\ at[q] = "received"
  /\ at' = [at EXCEPT ![q] = IF ask[q].mode = "bypass" THEN "proxied" ELSE "begun"]
  /\ begun' = [begun EXCEPT ![q] = @ + 1]
  /\ UNCHANGED <<ask, lock, job, reply, counted, store, shared>>

\* No prefix where the mode needs one, and a request its own policy denies.
Refuse(q) ==
  /\ at[q] = "begun"
  /\ \E a \in {"400", "403"} : Reply(q, a)
  /\ UNCHANGED <<ask, store, shared>>

\* No worker gives a strict key for the prefix.
Underived(q) ==
  /\ at[q] = "begun"
  /\ ask[q].mode \in {"auto", "use"} /\ ~ask[q].given
  /\ Fails(q, "500")
  /\ UNCHANGED <<ask, store, shared>>

\* auto builds what it does not find, unless the client named the key.  find_entry
\* finds quarantined entries too.
Dispatch(q) ==
  /\ at[q] = "begun"
  /\ Goes(q, CASE ask[q].mode \in {"build", "refresh"} -> "wait build"
               [] ask[q].mode = "auto" /\ ~ask[q].given /\ entry[ask[q].key] = NoEntry -> "wait build"
               [] OTHER -> "wait use", NoJob)
  /\ UNCHANGED <<ask, store, shared>>

TakeLock(q) ==
  /\ at[q] \in {"wait build", "wait use"}
  /\ lock[ask[q].router] = Free
  /\ lock' = [lock EXCEPT ![ask[q].router] = q]
  /\ at' = [at EXCEPT ![q] = IF @ = "wait build" THEN "build" ELSE "use"]
  /\ UNCHANGED <<ask, job, reply, begun, counted, store, shared>>

\* The answer is sent, or the client is gone: an exception like any other, so that a
\* request that may fall back is generated once more.
Send(q) ==
  /\ at[q] = "sending"
  /\ Reply(q, job[q].context) \/ Fails(q, "gone")
  /\ UNCHANGED <<ask, store, shared>>

\* Some worker serves it, and its slot then holds this prompt; or none does.
Proxied(q) ==
  /\ at[q] = "proxied"
  /\ \/ /\ Reply(q, "own")
        /\ \E w \in Workers : slot' = [slot EXCEPT ![w] = IF shared THEN "foreign" ELSE @]
     \/ Reply(q, "503") /\ UNCHANGED slot
  /\ UNCHANGED <<ask, file, blob, entry, shared>>

-----------------------------------------------------------------------------
(* build_cache *)

\* The lock is free again: the answer of a build, or on to use_cache.
Built(q) == Leaves(q, IF ask[q].mode = "auto" THEN "wait use" ELSE "sending", [NoJob EXCEPT !.context = "built"])

Named(q) == ask[q].mode = "refresh" /\ ask[q].given

\* A refresh that names a key needs that entry; a build of a usable entry is done.
\* Otherwise the lease, or a 503.
BeginBuild(q) ==
  /\ at[q] = "build"
  /\ LET k == ask[q].prefix IN
     \/ /\ Named(q) /\ ~Usable(entry[ask[q].key])
        /\ \E a \in {"403", "404", "500"} : Fails(q, a)
     \/ /\ ask[q].mode # "refresh" /\ Usable(entry[k])
        /\ Built(q)
     \/ /\ IF ask[q].mode = "refresh" THEN Named(q) => Usable(entry[ask[q].key]) ELSE ~Usable(entry[k])
        /\ IF Conflict(q, k) THEN Reply(q, "503")
           ELSE \E w \in Workers : Goes(q, "erase", [NoJob EXCEPT !.on = w])
  /\ UNCHANGED <<ask, store, shared>>

Erase(q) ==
  /\ at[q] = "erase"
  /\ slot' = [slot EXCEPT ![job[q].on] = "empty"]
  /\ Goes(q, "prefill", job[q])
  /\ UNCHANGED <<ask, file, blob, entry, shared>>

Prefill(q) ==
  /\ at[q] = "prefill"
  /\ slot' = [slot EXCEPT ![job[q].on] = ask[q].prefix]
  /\ Goes(q, "save", job[q])
  /\ UNCHANGED <<ask, file, blob, entry, shared>>

\* Saves the slot of any worker.
FaultySave(q) ==
  /\ at[q] = "save"
  /\ \E w \in Workers : file' = [file EXCEPT ![job[q].on][ask[q].prefix] = slot[w]]
  /\ Goes(q, "upload", job[q])
  /\ UNCHANGED <<ask, slot, blob, entry, shared>>

\* Whatever the slot holds by now.
Save(q) ==
  /\ at[q] = "save"
  /\ file' = [file EXCEPT ![job[q].on][ask[q].prefix] = slot[job[q].on]]
  /\ Goes(q, "upload", job[q])
  /\ UNCHANGED <<ask, slot, blob, entry, shared>>

Upload(q) ==
  /\ at[q] = "upload"
  /\ blob' = [blob EXCEPT ![file[job[q].on][ask[q].prefix]] = "good"]
  /\ Goes(q, "publish", job[q])
  /\ UNCHANGED <<ask, slot, file, entry, shared>>

\* Manifest and row; a refresh drops the row of the key it replaces.
Publish(q) ==
  /\ at[q] = "publish"
  /\ entry' = [k \in Keys |->
       CASE k = ask[q].prefix -> Stored(file[job[q].on][k])
         [] Named(q) /\ k = ask[q].key /\ k # ask[q].prefix -> NoEntry
         [] OTHER -> entry[k]]
  /\ Built(q)
  /\ UNCHANGED <<ask, slot, file, blob, shared>>

\* The worker or the copy fails.
BuildFails(q) ==
  /\ at[q] \in {"erase", "prefill", "save", "upload"}
  /\ Fails(q, "500")
  /\ UNCHANGED <<ask, store, shared>>

-----------------------------------------------------------------------------
(* use_cache *)

\* ensure_entry.  Nothing under this key is a miss, or a mismatch when the cache_id has
\* another key; a quarantined entry is an error.
Lookup(k) ==
  CASE entry[k] = NoEntry ->
         {"miss"} \union (IF \E other \in Keys : entry[other] # NoEntry THEN {"mismatch"} ELSE {})
    [] Usable(entry[k]) -> {"found"}
    [] OTHER -> {"quarantined"}

\* Only a miss is never generated cold: it is the client that must send the prefix.
Ensure(q) ==
  /\ at[q] = "use"
  /\ \E found \in Lookup(ask[q].key) :
       CASE found = "miss" -> Reply(q, "404")
         [] found = "mismatch" -> Fails(q, "404")
         [] found = "quarantined" -> Fails(q, "500")
         [] found = "found" -> Goes(q, "candidate", [NoJob EXCEPT !.entry = entry[ask[q].key]])
  /\ UNCHANGED <<ask, store, shared>>

\* The lease for the next candidate.  A conflict is not an error of that candidate.
LeaseForUse(q) ==
  /\ at[q] = "candidate"
  /\ \E w \in Workers \ job[q].tried :
       IF Conflict(q, ask[q].key) THEN Reply(q, "503") ELSE Goes(q, "hydrate", [job[q] EXCEPT !.on = w])
  /\ UNCHANGED <<ask, store, shared>>

\* No worker is healthy, or all of them failed.
OutOfCandidates(q) ==
  /\ at[q] = "candidate"
  /\ Fails(q, "500")
  /\ UNCHANGED <<ask, store, shared>>

\* The row becomes quarantined; one that is gone stays so.
Quarantine(q) == entry' = [entry EXCEPT ![ask[q].key] = IF @ = NoEntry THEN @ ELSE [@ EXCEPT !.status = "quarantined"]]

\* On to the next candidate with j, or the end without allow_fallback.
NextCandidate(q, j) ==
  IF ask[q].fallback THEN Goes(q, "candidate", [j EXCEPT !.tried = @ \union {j.on}, !.on = Free, !.context = "none"])
                     ELSE Reply(q, "500")

\* The checks of worker and prefix, hydration, restore and completion may all fail.
CandidateFails(q) ==
  /\ at[q] \in {"hydrate", "restore", "generate", "validate"}
  /\ NextCandidate(q, job[q])
  /\ UNCHANGED <<ask, store, shared>>

\* Takes the key for the prefix.
FaultyHydrate(q) ==
  /\ at[q] = "hydrate"
  /\ LET w == job[q].on  k == ask[q].key  c == job[q].entry.content IN
     /\ file[w][k] = c \/ blob[c] = "good"
     /\ file' = [file EXCEPT ![w][k] = c]
  /\ Goes(q, "restore", job[q])
  /\ UNCHANGED <<ask, slot, blob, entry, shared>>

\* The prefix is the one the entry was built for; the worker has the slot file already,
\* or it is copied from an intact blob.
Hydrate(q) ==
  /\ at[q] = "hydrate"
  /\ ask[q].prefix = ask[q].key
  /\ LET w == job[q].on  k == ask[q].key  c == job[q].entry.content IN
     /\ file[w][k] = c \/ blob[c] = "good"
     /\ file' = [file EXCEPT ![w][k] = c]
  /\ Goes(q, "restore", job[q])
  /\ UNCHANGED <<ask, slot, blob, entry, shared>>

\* The blob is corrupt: quarantined, and no other candidate is tried.
FindCorrupt(q) ==
  /\ at[q] = "hydrate"
  /\ ask[q].prefix = ask[q].key
  /\ file[job[q].on][ask[q].key] # job[q].entry.content
  /\ blob[job[q].entry.content] = "damaged"
  /\ Quarantine(q)
  /\ Fails(q, "500")
  /\ UNCHANGED <<ask, slot, file, blob, shared>>

\* n_restored must be positive.
Restore(q) ==
  /\ at[q] = "restore"
  /\ file[job[q].on][ask[q].key] # "empty"
  /\ slot' = [slot EXCEPT ![job[q].on] = file[job[q].on][ask[q].key]]
  /\ Goes(q, "generate", job[q])
  /\ UNCHANGED <<ask, file, blob, entry, shared>>

\* The full prompt is processed from its start (cache_prompt off); a bare suffix is
\* appended to what is in the slot by now.  The TTFT probe repeats this for one token.
Generate(q) ==
  /\ at[q] = "generate"
  /\ LET own == ~ask[q].suffixOnly \/ (Appends /\ slot[job[q].on] = ask[q].prefix) IN
     Goes(q, IF ask[q].validate THEN "validate" ELSE "finish",
          [job[q] EXCEPT !.context = IF own THEN "own" ELSE "foreign"])
  /\ slot' = [slot EXCEPT ![job[q].on] = "foreign"]
  /\ UNCHANGED <<ask, file, blob, entry, shared>>

\* Trusts what an earlier candidate has quarantined.
FaultyValidate(q) ==
  /\ at[q] = "validate"
  /\ job[q].context = "own" \/ ~Usable(job[q].entry)
  /\ slot' = [slot EXCEPT ![job[q].on] = "foreign"]
  /\ Goes(q, "finish", job[q])
  /\ UNCHANGED <<ask, file, blob, entry, shared>>

\* The slot is erased, the full prompt generated cold, and the outputs are the same.
Validate(q) ==
  /\ at[q] = "validate"
  /\ job[q].context = "own"
  /\ slot' = [slot EXCEPT ![job[q].on] = "foreign"]
  /\ Goes(q, "finish", job[q])
  /\ UNCHANGED <<ask, file, blob, entry, shared>>

\* They differ: quarantined.  The cold output is the answer if the client asked for it;
\* otherwise this candidate has failed, and the next one gets the entry in memory.
Mismatch(q) ==
  /\ at[q] = "validate"
  /\ slot' = [slot EXCEPT ![job[q].on] = "foreign"]
  /\ Quarantine(q)
  /\ IF ask[q].recompute /\ ask[q].fallback
     THEN Leaves(q, "sending", [NoJob EXCEPT !.context = "own"])
     ELSE NextCandidate(q, [job[q] EXCEPT !.entry.status = "quarantined"])
  /\ UNCHANGED <<ask, file, blob, shared>>

\* worker_residency and last_used_at are written; the lease and the lock go back.
Finish(q) ==
  /\ at[q] = "finish"
  /\ Leaves(q, "sending", [NoJob EXCEPT !.context = job[q].context])
  /\ UNCHANGED <<ask, store, shared>>

-----------------------------------------------------------------------------
Build(q) == BeginBuild(q) \/ Erase(q) \/ Prefill(q) \/ Save(q) \/ Upload(q) \/ Publish(q) \/ BuildFails(q)
Use(q) ==
  \/ Ensure(q) \/ LeaseForUse(q) \/ OutOfCandidates(q) \/ CandidateFails(q) \/ Hydrate(q) \/ FindCorrupt(q)
  \/ Restore(q) \/ Generate(q) \/ Validate(q) \/ Mismatch(q) \/ Finish(q)
Handle(q) ==
  \/ Malformed(q) \/ Begin(q) \/ Refuse(q) \/ Underived(q) \/ Dispatch(q) \/ TakeLock(q)
  \/ Build(q) \/ Use(q) \/ Send(q) \/ Proxied(q)

Next == \E q \in Requests : Arrive(q) \/ Handle(q)

\* Every call to a worker has a timeout, and requests are finitely many: a request that
\* can go on does.
Spec == Init /\ [][Next]_vars /\ \A q \in Requests : WF_vars(Handle(q))

-----------------------------------------------------------------------------
(* Properties *)

Entries == [content : Contents, status : {"none", "validated", "quarantined"}]

TypeOK ==
  /\ \A q \in Requests : at[q] # "new" => ask[q] \in Asks[q]
  /\ lock \in [Routers -> Requests \union {Free}]
  /\ job \in [Requests -> [entry : Entries, on : Workers \union {Free}, tried : SUBSET Workers,
                           context : {"none", "own", "foreign", "built"}]]
  /\ slot \in [Workers -> Contents]
  /\ file \in [Workers -> [Keys -> Contents]]
  /\ blob \in [Contents -> {"absent", "good", "damaged"}]
  /\ entry \in [Keys -> Entries]

\* A request whose answer was checked against a cold recompute, or generated from the
\* full prompt, or on a slot no other traffic reaches.
Careful(q) == ~ask[q].suffixOnly \/ ask[q].validate \/ (Appends /\ ~shared)

\* What the client sees of a request.
Outcome(q) ==
  CASE at[q] = "new" -> "none"
    [] at[q] # "new" /\ at[q] # "done" -> "asked"
    [] at[q] = "done" /\ reply[q] \in {"own", "foreign"} -> reply[q]
    [] OTHER -> "refused"

Answers == INSTANCE CachedAnswer WITH
  outcome <- [q \in Requests |-> Outcome(q)],
  careful <- [q \in Requests |-> Careful(q)]

\* Every request gets one answer or refusal; a careful one never gets an answer to
\* another prompt, however slots, slot files and blobs are shared.
AnswersRefined == Answers!Spec

\* While no other traffic reaches the slots, what is filed under a key continues that
\* key's prefix: erase, prefill, save and upload of a build are not mixed with others.
FiledUnderOwnPrefix == ~shared => \A k \in Keys : entry[k].status = "validated" => entry[k].content = k

\* An entry this request has found wanting is tried on another worker only with the
\* same validation: no unchecked answer comes from what was quarantined.
QuarantinedOnlyChecked ==
  \A q \in Requests :
    at[q] \in {"generate", "finish"} /\ job[q].entry.status = "quarantined" => ask[q].validate /\ (at[q] = "finish" => job[q].context = "own")

\* The gauge of active requests is right however handler and proxy share a request: what
\* begin_request has counted up, finish_request counts down once and at the end; a
\* malformed request is counted neither way.
CountedOnce ==
  \A q \in Requests : begun[q] <= 1 /\ counted[q] = IF at[q] = "done" THEN begun[q] ELSE 0
=============================================================================
