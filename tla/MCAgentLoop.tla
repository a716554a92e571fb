------------------------------- MODULE MCAgentLoop -------------------------------
(* Two workers, alike or not, two prefixes under the policies of two          *)
(* conversations and of their tenant, and what the answers must satisfy.      *)
EXTENDS AgentLoop

CONSTANTS MCAlike      \* only fleets of two workers that run the same

MCHash(record) == ToString(record)

MCNames == <<"w1", "w2">>

Plain == [model |-> "m", build |-> "b1", mtp |-> FALSE, draft |-> "none"]
Other == [Plain EXCEPT !.build = "b2"]
Unknown == [Plain EXCEPT !.build = "unknown"]
Foreign == [Plain EXCEPT !.model = "n"]
Drafted == [Plain EXCEPT !.mtp = TRUE, !.draft = "d1"]
Redrafted == [Drafted EXCEPT !.draft = "d2"]

Fleet(r1, r2) == [n \in {"w1", "w2"} |-> [row |-> IF n = "w1" THEN r1 ELSE r2, ready |-> TRUE]]

MCFleets ==
  IF MCAlike THEN {Fleet(Plain, Plain), Fleet(Drafted, Drafted)}
  ELSE {Fleet(Plain, Plain), Fleet(Plain, Other), Fleet(Plain, Unknown), Fleet(Plain, Foreign), Fleet(Drafted, Redrafted),
        [Fleet(Plain, Plain) EXCEPT !["w1"].ready = FALSE]}

Ours == [scope |-> "conversation", tenant |-> "t", conversation |-> "c1", rule |-> "local"]
Theirs == [Ours EXCEPT !.conversation = "c2"]
Shared == [Ours EXCEPT !.scope = "tenant", !.conversation = "none"]

Asks == [mode |-> "use", id |-> "id", model |-> "m", prefix |-> "x", policy |-> Ours, key |-> "none", worker |-> "none",
        fallback |-> TRUE, validate |-> FALSE, recompute |-> FALSE, suffixOnly |-> FALSE]
Build == [Asks EXCEPT !.mode = "build"]

MCEarlier ==
  {[Build EXCEPT !.worker = w] : w \in {"w1", "w2"}} \union {[Build EXCEPT !.worker = "w1", !.policy = Shared]}
  \union {[Asks EXCEPT !.validate = TRUE, !.fallback = FALSE, !.worker = "w2"]}

Given == {KeyOf("id", "x", p, Runtime(Plain)) : p \in {Ours, Shared}} \union {Absent}

MCQuestions ==
  {[Asks EXCEPT !.mode = m, !.fallback = f] : m \in {"use", "auto"}, f \in BOOLEAN}
  \union {[Asks EXCEPT !.policy = p, !.fallback = f] : p \in {Theirs, Shared}, f \in BOOLEAN}
  \union {[Asks EXCEPT !.validate = TRUE, !.fallback = f] : f \in BOOLEAN}
  \union {[Asks EXCEPT !.validate = TRUE, !.recompute = TRUE, !.suffixOnly = s] : s \in BOOLEAN}
  \union {[Asks EXCEPT !.worker = "w2", !.fallback = f, !.suffixOnly = TRUE] : f \in BOOLEAN}
  \union {[Asks EXCEPT !.mode = m, !.prefix = x, !.policy = p, !.key = k] :
             m \in {"use", "refresh"}, <<x, p>> \in {<<"x", Ours>>, <<"y", Ours>>, <<"x", Theirs>>}, k \in Given}
  \union {[Asks EXCEPT !.key = k, !.prefix = "none", !.fallback = f] : k \in Given, f \in BOOLEAN}
  \union {[Asks EXCEPT !.policy = [Ours EXCEPT !.scope = s]] : s \in {"private_disabled", "global_system"}}
  \union {[Asks EXCEPT !.model = "n", !.key = k] : k \in Given}
  \union {[Asks EXCEPT !.mode = "bypass"], [Build EXCEPT !.worker = "w2"]}

MCOptions == [worker : {"none", "w1"}, fallback : BOOLEAN, validate : BOOLEAN]
=============================================================================
