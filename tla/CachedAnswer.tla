----------------------------- MODULE CachedAnswer -----------------------------
(***************************************************************************)
(* What a cached completion promises its client: one answer, continuing    *)
(* the prompt the client sent, or one refusal.  A request that asks for    *)
(* suffix-only generation without validation is not careful: nothing       *)
(* checks what the worker continued.                                       *)
(***************************************************************************)
CONSTANT Requests

VARIABLES
  outcome,       \* what a client has got
  careful        \* whether its answer is checked, or needs no check

Init ==
  /\ outcome = [q \in Requests |-> "none"]
  /\ careful = [q \in Requests |-> TRUE]

Ask(q) ==
  /\ outcome[q] = "none"
  /\ outcome' = [outcome EXCEPT ![q] = "asked"]
  /\ \E c \in BOOLEAN : careful' = [careful EXCEPT ![q] = c]

Answer(q) ==
  /\ outcome[q] = "asked"
  /\ \E a \in {"own", "refused"} \union (IF careful[q] THEN {} ELSE {"foreign"}) :
       outcome' = [outcome EXCEPT ![q] = a]
  /\ UNCHANGED careful

Next == \E q \in Requests : Ask(q) \/ Answer(q)

vars == <<outcome, careful>>
Spec == Init /\ [][Next]_vars /\ \A q \in Requests : WF_vars(Answer(q))
=============================================================================
