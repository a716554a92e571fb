------------------------------ MODULE CacheKeys ------------------------------
(***************************************************************************)
(* Strict cache keys, cache policies and the registry lookup.              *)
(*                                                                         *)
(* A key is the hash of a record.  What a worker runs is its               *)
(* model, a build (every strict field of the runtime at once, "unknown"    *)
(* when one of them is missing or a placeholder) and a draft model, by the *)
(* name and the hash the inventory gives.  A hash that is not one is       *)
(* "bad", a missing field is "absent", Python's None is "none".            *)
(***************************************************************************)
EXTENDS Naturals, Sequences, Picking

CONSTANT Hash(_)     \* sha256 of a record's canonical JSON

DefaultPolicy == [scope |-> "conversation", tenant |-> "local", conversation |-> "local", rule |-> "local"]

Scopes == {"global_system", "tenant", "conversation", "private_disabled"}

\* The policy a request's extension x asks for.
PolicyOf(x) ==
  LET scope == IF x.scope = "absent" THEN DefaultPolicy.scope ELSE x.scope
  IN [scope |-> scope,
      tenant |-> IF x.tenant = "absent" THEN DefaultPolicy.tenant ELSE x.tenant,
      conversation |-> IF x.conversation # "absent" THEN x.conversation
                       ELSE IF scope = "conversation" THEN DefaultPolicy.conversation ELSE "none",
      rule |-> IF x.rule = "absent" THEN DefaultPolicy.rule ELSE x.rule]

\* cache_policy_from_extension raises no ValueError.
Accepted(x) ==
  LET p == PolicyOf(x)
  IN /\ p.scope \in Scopes
     /\ "bad" \notin {p.tenant, p.conversation, p.rule}
     /\ p.scope = "conversation" => p.conversation # "none"

\* Why a policy may use no cache at all, "none" if it may.
RequestDenial(p) ==
  CASE p.scope = "private_disabled" -> "private_disabled"
    [] p.scope = "global_system" -> "global_system_not_allowlisted"
    [] p.scope \notin Scopes -> "scope_not_allowed"
    [] OTHER -> "none"

\* The policy of a row or manifest: what it does not name is the local policy's.
RecordPolicy(e) == [f \in DOMAIN e.policy |-> IF e.policy[f] = "absent" THEN DefaultPolicy[f] ELSE e.policy[f]]

FaultyPolicyDenial(p, e) ==
  LET m == RecordPolicy(e)
  IN IF RequestDenial(p) # "none" THEN RequestDenial(p)
     ELSE IF p.rule # m.rule THEN "policy_id_mismatch"
     ELSE IF p.scope # m.scope THEN "scope_mismatch"
     ELSE IF p.tenant # m.tenant THEN "tenant_scope_mismatch"
     ELSE "none"

\* Why policy p may not use entry e, "none" if it may.
PolicyDenial(p, e) ==
  LET m == RecordPolicy(e)
  IN IF RequestDenial(p) # "none" THEN RequestDenial(p)
     ELSE IF p.rule # m.rule THEN "policy_id_mismatch"
     ELSE IF p.scope # m.scope THEN "scope_mismatch"
     ELSE IF p.tenant # m.tenant THEN "tenant_scope_mismatch"
     ELSE IF p.scope = "conversation" /\ p.conversation # m.conversation THEN "conversation_scope_mismatch"
     ELSE "none"

-----------------------------------------------------------------------------
(* Workers and keys *)

\* A worker's runtime from its inventory row: without MTP it has no draft model,
\* but keeps the draft hash of the row.
Runtime(row) ==
  [model |-> row.model, build |-> row.build, mtp |-> row.mtp,
   draftName |-> IF row.mtp THEN row.draft ELSE "none", draftHash |-> row.draft]

\* The draft hash and configuration that enter the key.
DraftKey(r) == IF r.mtp THEN r.draftHash ELSE "none"

\* strict_cache_key_fields and validated_cache_key_material raise nothing.
Strict(r) == r.build # "unknown" /\ (r.mtp => "none" \notin {r.draftName, r.draftHash})

\* cache_key_fields: what a key is made of.
KeyFields(id, prefix, p, r) ==
  [id |-> id, prefix |-> prefix, scope |-> p.scope, tenant |-> p.tenant, rule |-> p.rule,
   conversation |-> IF p.scope = "conversation" THEN p.conversation ELSE "none",
   model |-> r.model, build |-> r.build, mtp |-> r.mtp, draftName |-> r.draftName, draftHash |-> DraftKey(r)]

\* The key of a prefix under a policy on a runtime.
KeyOf(id, prefix, p, r) == Hash(KeyFields(id, prefix, p, r))

\* worker_cache_compatibility_mismatch finds nothing.
Fits(e, r) ==
  /\ Strict(r)
  /\ e.runtime.model = r.model /\ e.runtime.build = r.build /\ e.runtime.mtp = r.mtp
  /\ DraftKey(e.runtime) = DraftKey(r)
  /\ r.mtp => e.runtime.draftName = r.draftName

-----------------------------------------------------------------------------
(* Lookup in a registry: a sequence of entries, row and manifest in one *)

Quarantined(e) == e.status \in {"quarantined", "corrupt"}

\* find_entry prefers row j to row i: a sound one, then the last used, then the newest.
Before(rows, i, j) ==
  IF Quarantined(rows[i]) # Quarantined(rows[j]) THEN Quarantined(rows[i])
  ELSE IF rows[i].used # rows[j].used THEN rows[i].used < rows[j].used
  ELSE IF rows[i].created # rows[j].created THEN rows[i].created < rows[j].created
  ELSE i < j

\* The place of the entry found under the policies ps and keys ks given, if any: 0 if none is.
FindEntry(rows, id, ps, ks) ==
  LET found == {i \in DOMAIN rows : /\ rows[i].id = id
                                    /\ \A k \in ks : rows[i].key = k
                                    /\ \A p \in ps : PolicyDenial(p, rows[i]) = "none"}
  IN IF found = {} THEN 0
     ELSE CHOOSE j \in found : \A i \in found : i = j \/ Before(rows, i, j)

\* The key of an entry's own material.
CanonicalKey(e) == KeyOf(e.id, e.prefix, RecordPolicy(e), e.runtime)

\* ensure_entry, which use_cache always gives policy p and key k.
Ensure(rows, id, p, k) ==
  LET i == FindEntry(rows, id, {p}, {k})
  IN IF i = 0
     THEN IF FindEntry(rows, id, {}, {k}) # 0 THEN "denied"
          ELSE IF FindEntry(rows, id, {p}, {}) # 0 THEN "mismatch" ELSE "miss"
     ELSE IF Quarantined(rows[i]) THEN "quarantined"
     ELSE IF CanonicalKey(rows[i]) # k THEN "mismatch"
     ELSE "found"

\* The keys a request's prefix has on the workers ws, in their order: those at the places told
\* have counted its tokens, and one that has not, or has no strict key, is passed over.
KeyCandidates(ws, told, id, prefix, p) ==
  LET S == Picked(ws, {i \in told : Strict(ws[i])})
  IN [i \in DOMAIN S |-> KeyOf(id, prefix, p, S[i])]

FaultyKeyFor(rows, ws, told, id, prefix, p) == KeyCandidates(ws, told, id, prefix, p)[1]

\* The one a lookup goes on with: the first that is filed, else the first.
KeyFor(rows, ws, told, id, prefix, p) ==
  LET C == KeyCandidates(ws, told, id, prefix, p)
      filed == {i \in DOMAIN C : FindEntry(rows, id, {p}, {C[i]}) # 0}
  IN IF filed = {} THEN C[1] ELSE C[CHOOSE i \in filed : \A j \in filed : i <= j]
=============================================================================
