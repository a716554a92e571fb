---------------------------- MODULE Evidence_proofs ----------------------------
(***************************************************************************)
(* What the router tells of a request, proved for every inventory, every   *)
(* fleet, every sequence of earlier requests and every state of the blobs: *)
(* events keep their contract, audit rows tell hits from misses, what is   *)
(* restored is the client's own, a lookup that does without a cache has a  *)
(* reason, a gate that passes is right, and the offline replay decides as  *)
(* the router looks up.  AgentLoop and SuffixGate name the assumptions:    *)
(* workers have a build and names of their own, requests name workers of   *)
(* the inventory and an entry to file, no digest stands for two models,    *)
(* and the least number of runs is a number.  That no digest stands for    *)
(* two records at all is needed for the replay alone (KeyTells).           *)
(*                                                                         *)
(* A whole request is one step, so the proof follows the code of one:      *)
(* an answer under way (Open) becomes an answer (Proper) call by call. Its *)
(* loops are recursive functions; an induction over the range they run     *)
(* over (UpTo) needs no schema, only the least number of a set (Least).    *)
(***************************************************************************)
EXTENDS AgentLoop, WellFoundedInduction, FiniteSetTheorems, FunctionTheorems, SequenceTheorems, TLAPS

-----------------------------------------------------------------------------
(* Induction and recursion on a range of numbers *)

LEMMA Least ==
  ASSUME NEW T \in SUBSET Nat, T # {}
  PROVE  \E n \in T : \A m \in T : n <= m
<1>1. \E x \in T : \A y \in T : <<y, x>> \notin OpToRel(<, Nat)
  BY NatLessThanWellFounded, WFMin
<1>2. PICK x \in T : \A y \in T : <<y, x>> \notin OpToRel(<, Nat)
  BY <1>1
<1>3. \A y \in T : ~(y < x)
  BY <1>2 DEF OpToRel
<1> QED
  BY <1>3

\* Induction over 0..n, for what is true of the members of a set.
LEMMA UpTo ==
  ASSUME NEW n \in Nat, NEW S, 0 \in S, \A i \in 1..n : i - 1 \in S => i \in S
  PROVE  0..n \subseteq S
<1> DEFINE T == {i \in 0..n : i \notin S}
<1> SUFFICES ASSUME T # {} PROVE FALSE
  OBVIOUS
<1>0. T \in SUBSET Nat
  OBVIOUS
<1>1. PICK i \in T : \A j \in T : i <= j
  <2> HIDE DEF T
  <2> QED  BY <1>0, Least
<1>2. i \in 1..n /\ i - 1 \notin T
  BY <1>1
<1> QED
  BY <1>1, <1>2

\* A recursion on 0..n has a solution: what to do at each step is given by a function.
LEMMA PickedIs ==
  ASSUME NEW X, NEW s \in Seq(X), NEW I
  PROVE  \E p : /\ p = [i \in 0..Len(s) |-> IF i = 0 THEN <<>> ELSE IF i \in I THEN Append(p[i - 1], s[i]) ELSE p[i - 1]]
                /\ Picked(s, I) = p[Len(s)]
<1> DEFINE Body(p, i) == IF i = 0 THEN <<>> ELSE IF i \in I THEN Append(p[i - 1], s[i]) ELSE p[i - 1]
           N == {n \in Nat : \E p : p = [i \in 0..n |-> Body(p, i)]}
<1>1. 0 \in N
  <2> DEFINE p == [i \in 0..0 |-> <<>>]
  <2>1. p = [i \in 0..0 |-> Body(p, i)]
    OBVIOUS
  <2> QED
    BY <2>1
<1>3. Len(s) \in Nat
  OBVIOUS
<1>2. ASSUME NEW n \in 1..Len(s), n - 1 \in N
      PROVE  n \in N
  <2>1. PICK p : p = [i \in 0..(n - 1) |-> Body(p, i)]
    BY <1>2
  <2> DEFINE r == [i \in 0..n |-> IF i = n THEN Body(p, n) ELSE p[i]]
  <2>2. \A i \in 0..n : r[i] = Body(r, i)
    <3> SUFFICES ASSUME NEW i \in 0..n PROVE r[i] = Body(r, i)
      OBVIOUS
    <3>1. CASE i = 0
      BY <2>1, <3>1
    <3>2. CASE i # 0
      <4>1. i - 1 \in 0..(n - 1) /\ i - 1 \in 0..n /\ i - 1 # n
        BY <3>2
      <4>2. r[i - 1] = p[i - 1]
        BY <4>1
      <4>4. i # n => i \in 0..(n - 1)
        BY <1>3
      <4>5. i # n => r[i] = p[i] /\ p[i] = Body(p, i)
        BY <2>1, <4>4
      <4>6. i = n => r[i] = Body(p, i)
        OBVIOUS
      <4>3. r[i] = Body(p, i)
        BY <4>5, <4>6
      <4> QED
        BY <4>2, <4>3
    <3> QED
      BY <3>1, <3>2
  <2>3. r = [i \in 0..n |-> Body(r, i)]
    BY <2>2
  <2>4. n \in Nat
    BY <1>3
  <2>5. \E u : u = [i \in 0..n |-> Body(u, i)]
    BY <2>3
  <2> QED
    BY <2>4, <2>5
<1>4. Len(s) \in N
  <2> HIDE DEF N
  <2>1. \A i \in 1..Len(s) : i - 1 \in N => i \in N
    BY <1>2
  <2>2. 0..Len(s) \subseteq N
    BY <1>1, <1>3, <2>1, UpTo
  <2> QED
    BY <1>3, <2>2
<1>5. PICK p : p = [i \in 0..Len(s) |-> Body(p, i)]
  BY <1>4
<1> DEFINE upTo == CHOOSE u : u = [i \in 0..Len(s) |-> Body(u, i)]
<1>6. upTo = [i \in 0..Len(s) |-> Body(upTo, i)]
  BY <1>5
<1>7. Picked(s, I) = upTo[Len(s)]
  BY DEF Picked
<1> QED
  BY <1>6, <1>7

LEMMA PickedFrom ==
  ASSUME NEW X, NEW s \in Seq(X), NEW I
  PROVE  /\ Picked(s, I) \in Seq(X)
         /\ \A i \in DOMAIN Picked(s, I) : \E j \in DOMAIN s : j \in I /\ s[j] = Picked(s, I)[i]
         /\ \A j \in DOMAIN s : j \in I => \E i \in DOMAIN Picked(s, I) : Picked(s, I)[i] = s[j]
<1>1. PICK p : /\ p = [i \in 0..Len(s) |-> IF i = 0 THEN <<>> ELSE IF i \in I THEN Append(p[i - 1], s[i]) ELSE p[i - 1]]
               /\ Picked(s, I) = p[Len(s)]
  BY PickedIs
<1> DEFINE Right(i) == /\ p[i] \in Seq(X)
                       /\ \A x : (\E j \in 1..Len(p[i]) : p[i][j] = x) <=> (\E j \in 1..i : j \in I /\ s[j] = x)
           S == {i \in 0..Len(s) : Right(i)}
<1>2. Len(s) \in Nat /\ DOMAIN s = 1..Len(s)
  OBVIOUS
<1>3. 0 \in S
  <2>1. p[0] = <<>>
    BY <1>1, <1>2
  <2>2. 1..Len(p[0]) = {} /\ 1..0 = {}
    BY <2>1
  <2>3. p[0] \in Seq(X)
    BY <2>1
  <2>4. Right(0)
    BY <2>2, <2>3
  <2>5. 0 \in 0..Len(s)
    BY <1>2
  <2> HIDE DEF Right
  <2> QED
    BY <2>4, <2>5
<1>4. ASSUME NEW i \in 1..Len(s), i - 1 \in S
      PROVE  i \in S
  <2>1. i \in 0..Len(s) /\ i - 1 \in 0..Len(s) /\ i # 0
    BY <1>2
  <2>2. p[i] = IF i \in I THEN Append(p[i - 1], s[i]) ELSE p[i - 1]
    BY <1>1, <2>1
  <2>3. Right(i - 1)
    BY <1>4
  <2>4. CASE i \in I
    <3>1. p[i] \in Seq(X) /\ Len(p[i]) = Len(p[i - 1]) + 1 /\ p[i][Len(p[i])] = s[i]
      BY <2>2, <2>3, <2>4, <1>2
    <3>2. \A j \in 1..Len(p[i - 1]) : p[i][j] = p[i - 1][j]
      BY <2>2, <2>3, <2>4, <1>2
    <3>3. ASSUME NEW x, NEW j \in 1..Len(p[i]), p[i][j] = x
          PROVE  \E k \in 1..i : k \in I /\ s[k] = x
      <4>1. CASE j = Len(p[i])
        BY <3>1, <3>3, <2>1, <2>4, <4>1
      <4>2. CASE j # Len(p[i])
        <5>1. j \in 1..Len(p[i - 1]) /\ p[i - 1][j] = x
          BY <3>1, <3>2, <3>3, <4>2, <2>3
        <5>2. PICK k \in 1..(i - 1) : k \in I /\ s[k] = x
          BY <2>3, <5>1
        <5> QED
          BY <5>2, <2>1
      <4> QED
        BY <4>1, <4>2
    <3>4. ASSUME NEW x, NEW k \in 1..i, k \in I, s[k] = x
          PROVE  \E j \in 1..Len(p[i]) : p[i][j] = x
      <4>1. CASE k = i
        BY <3>1, <3>4, <4>1, <2>3
      <4>2. CASE k # i
        <5>1. k \in 1..(i - 1)
          BY <4>2, <2>1
        <5>2. PICK j \in 1..Len(p[i - 1]) : p[i - 1][j] = x
          BY <2>3, <3>4, <5>1
        <5> QED
          BY <5>2, <3>1, <3>2, <2>3
      <4> QED
        BY <4>1, <4>2
    <3>5. \A x : (\E j \in 1..Len(p[i]) : p[i][j] = x) <=> (\E j \in 1..i : j \in I /\ s[j] = x)
      BY <3>3, <3>4
    <3>6. Right(i)
      BY <3>1, <3>5
    <3> QED
      BY <2>1, <3>6
  <2>5. CASE i \notin I
    <3>1. p[i] = p[i - 1]
      BY <2>2, <2>5
    <3>2. \A x : (\E j \in 1..(i - 1) : j \in I /\ s[j] = x) <=> (\E j \in 1..i : j \in I /\ s[j] = x)
      BY <2>1, <2>5
    <3>3. Right(i)
      BY <3>1, <3>2, <2>3
    <3> QED
      BY <3>3, <2>1
  <2> QED
    BY <2>4, <2>5
<1>5. Len(s) \in S
  <2> HIDE DEF S
  <2>1. \A i \in 1..Len(s) : i - 1 \in S => i \in S
    BY <1>4
  <2>2. 0..Len(s) \subseteq S
    BY <1>2, <1>3, <2>1, UpTo
  <2> QED
    BY <1>2, <2>2
<1>6. Right(Len(s))
  BY <1>5
<1>7. DOMAIN p[Len(s)] = 1..Len(p[Len(s)])
  BY <1>6
<1> QED
  BY <1>1, <1>2, <1>6, <1>7

\* What is picked stays in order: its places in the sequence it was picked from.
LEMMA PickedPlaces ==
  ASSUME NEW X, NEW s \in Seq(X), NEW I
  PROVE  \E f \in [DOMAIN Picked(s, I) -> DOMAIN s] :
           /\ \A k \in DOMAIN Picked(s, I) : f[k] \in I /\ s[f[k]] = Picked(s, I)[k]
           /\ \A k, l \in DOMAIN Picked(s, I) : k < l => f[k] < f[l]
<1>1. PICK p : /\ p = [i \in 0..Len(s) |-> IF i = 0 THEN <<>> ELSE IF i \in I THEN Append(p[i - 1], s[i]) ELSE p[i - 1]]
               /\ Picked(s, I) = p[Len(s)]
  BY PickedIs
<1> DEFINE Places(f, i) == /\ f \in [1..Len(p[i]) -> 1..i]
                           /\ \A k \in 1..Len(p[i]) : f[k] \in I /\ s[f[k]] = p[i][k]
                           /\ \A k, l \in 1..Len(p[i]) : k < l => f[k] < f[l]
           Right(i) == p[i] \in Seq(X) /\ \E f : Places(f, i)
           S == {i \in 0..Len(s) : Right(i)}
<1>2. Len(s) \in Nat /\ DOMAIN s = 1..Len(s)
  OBVIOUS
<1>3. 0 \in S
  <2>1. p[0] = <<>>
    BY <1>1, <1>2
  <2>2. Len(p[0]) = 0 /\ p[0] \in Seq(X) /\ 0 \in 0..Len(s)
    BY <1>2, <2>1
  <2> DEFINE f == [k \in 1..0 |-> 1]
  <2>3. 1..0 = {}
    OBVIOUS
  <2>4. f \in [1..0 -> 1..0]
    BY <2>3
  <2>5. Places(f, 0)
    BY <2>2, <2>3, <2>4
  <2> QED
    BY <2>2, <2>5
<1>4. ASSUME NEW i \in 1..Len(s), i - 1 \in S
      PROVE  i \in S
  <2>1. i \in 0..Len(s) /\ i - 1 \in 0..Len(s) /\ i # 0 /\ i \in Nat
    BY <1>2
  <2>2. p[i] = IF i \in I THEN Append(p[i - 1], s[i]) ELSE p[i - 1]
    BY <1>1, <2>1
  <2>3. p[i - 1] \in Seq(X) /\ \E f : Places(f, i - 1)
    BY <1>4
  <2>4. PICK f : Places(f, i - 1)
    BY <2>3
  <2>5. f \in [1..Len(p[i - 1]) -> 1..(i - 1)]
    BY <2>4
  <2>6. \A k \in 1..Len(p[i - 1]) : f[k] \in I /\ s[f[k]] = p[i - 1][k] /\ f[k] \in 1..(i - 1)
    BY <2>4
  <2>7. \A k, l \in 1..Len(p[i - 1]) : k < l => f[k] < f[l]
    BY <2>4
  <2>8. Len(p[i - 1]) \in Nat
    BY <2>3
  <2>9. CASE i \in I
    <3> DEFINE n == Len(p[i - 1])
               g == [k \in 1..(n + 1) |-> IF k = n + 1 THEN i ELSE f[k]]
    <3>1. p[i] \in Seq(X) /\ Len(p[i]) = n + 1 /\ p[i][n + 1] = s[i] /\ \A k \in 1..n : p[i][k] = p[i - 1][k]
      BY <2>2, <2>3, <2>9, <1>2
    <3>2. n \in Nat /\ \A k \in 1..(n + 1) : k = n + 1 \/ k \in 1..n
      BY <2>8
    <3>3. \A k \in 1..n : f[k] \in I /\ s[f[k]] = p[i][k] /\ f[k] \in 1..(i - 1)
      BY <2>6, <3>1
    <3>4. \A k, l \in 1..n : k < l => f[k] < f[l]
      BY <2>7
    <3> HIDE DEF n
    <3>5. ASSUME NEW k \in 1..(n + 1)
          PROVE  g[k] \in 1..i /\ g[k] \in I /\ s[g[k]] = p[i][k]
      <4>1. g[k] = IF k = n + 1 THEN i ELSE f[k]
        OBVIOUS
      <4> HIDE DEF g
      <4> QED
        BY <2>1, <2>9, <3>1, <3>2, <3>3, <4>1
    <3>6. ASSUME NEW k \in 1..(n + 1), NEW l \in 1..(n + 1), k < l
          PROVE  g[k] < g[l]
      <4>1. g[k] = f[k] /\ k \in 1..n
        BY <3>2, <3>6
      <4>2. g[l] = IF l = n + 1 THEN i ELSE f[l]
        OBVIOUS
      <4> HIDE DEF g
      <4> QED
        BY <2>1, <3>2, <3>3, <3>4, <3>6, <4>1, <4>2
    <3>7. g \in [1..(n + 1) -> 1..i]
      BY <3>5
    <3> HIDE DEF g
    <3>8. Places(g, i)
      BY <3>1, <3>5, <3>6, <3>7
    <3> QED
      BY <2>1, <3>1, <3>8
  <2>10. CASE i \notin I
    <3>1. p[i] = p[i - 1]
      BY <2>2, <2>10
    <3>2. f \in [1..Len(p[i]) -> 1..i]
      <4>1. 1..(i - 1) \subseteq 1..i
        BY <2>1
      <4> QED
        BY <2>5, <3>1, <4>1
    <3>3. Places(f, i)
      BY <2>6, <2>7, <3>1, <3>2
    <3> QED
      BY <2>1, <2>3, <3>1, <3>3
  <2> QED
    BY <2>9, <2>10
<1>5. Len(s) \in S
  <2> HIDE DEF S
  <2>1. \A i \in 1..Len(s) : i - 1 \in S => i \in S
    BY <1>4
  <2>2. 0..Len(s) \subseteq S
    BY <1>2, <1>3, <2>1, UpTo
  <2> QED
    BY <1>2, <2>2
<1>6. p[Len(s)] \in Seq(X) /\ \E f : Places(f, Len(s))
  BY <1>5
<1>7. DOMAIN Picked(s, I) = 1..Len(p[Len(s)])
  BY <1>1, <1>6
<1>8. PICK f : Places(f, Len(s))
  BY <1>6
<1>9. /\ f \in [DOMAIN Picked(s, I) -> DOMAIN s]
      /\ \A k \in DOMAIN Picked(s, I) : f[k] \in I /\ s[f[k]] = Picked(s, I)[k]
      /\ \A k, l \in DOMAIN Picked(s, I) : k < l => f[k] < f[l]
  BY <1>1, <1>2, <1>7, <1>8
<1> HIDE DEF Places, Right, S
<1> QED
  BY <1>9

-----------------------------------------------------------------------------
(* What an event tells: its audit row, if it has one. *)

Logged(e) == Actions(e) # {} /\ <<e.phase, e.decision, e.hit>> # <<"worker_selected", "no_op", "none">>
TellsRestore(e) == Logged(e) /\ Operation(e) = "restore" /\ Outcome(e) = "success"
TellsDenial(e) == Logged(e) /\ Outcome(e) = "denied"
TellsCold(e) == Logged(e) /\ Outcome(e) \in {"fallback", "quarantined"}
Valid(e) == ValidEvent(e, Actions(e))

LEMMA OperationIs ==
  ASSUME NEW e, NEW i \in 1..7, Ranked[i] \in Actions(e), \A j \in 1..(i - 1) : Ranked[j] \notin Actions(e)
  PROVE  Operation(e) = Ranked[i]
<1> DEFINE First(k) == Ranked[k] \in Actions(e) /\ \A j \in 1..(k - 1) : Ranked[j] \notin Actions(e)
<1>1. DOMAIN Ranked = 1..7
  BY DEF Ranked
<1>2. ASSUME NEW k \in DOMAIN Ranked, First(k)
      PROVE  k = i
  <2>1. ~(k < i) /\ ~(i < k)
    BY <1>1, <1>2
  <2> QED
    BY <1>1, <2>1
<1>3. (CHOOSE k \in DOMAIN Ranked : First(k)) = i
  BY <1>1, <1>2
<1> QED
  BY <1>3 DEF Operation

LEMMA Restored ==
  ASSUME NEW k, k # "none", NEW w, NEW hydrated \in BOOLEAN, NEW counts
  PROVE  LET e == RestoredEvent(k, w, hydrated, counts) IN Valid(e) /\ TellsRestore(e) /\ ~TellsDenial(e)
<1> DEFINE e == RestoredEvent(k, w, hydrated, counts)
<1>1. /\ e.phase = "restore_validated" /\ e.decision = "restore_then_generate" /\ e.key = k /\ e.manifest = k
      /\ e.hit \in {"durable_blob", "local_nvme"} /\ e.compat = "match" /\ e.status = "validated" /\ ~e.fallback
      /\ e.reason = "none" /\ e.denial = "none"
  BY DEF RestoredEvent, Measured, Emit, Blank
<1> HIDE DEF e
<1>2. "restore" \in Actions(e) /\ "denial" \notin Actions(e) /\ "commit" \notin Actions(e)
  BY <1>1 DEF Actions
<1>3. Operation(e) = "restore"
  <2>1. Ranked[1] = "denial" /\ Ranked[2] = "commit" /\ Ranked[3] = "restore" /\ 1..(3 - 1) = {1, 2}
    BY DEF Ranked
  <2> QED
    BY <1>2, <2>1, OperationIs
<1>4. Outcome(e) = "success"
  BY <1>1 DEF Outcome
<1>5. Expected(e) \subseteq Actions(e)
  BY <1>1 DEF Expected, Actions, Positive, Dependent, Cached, Hits
<1>6. Valid(e)
  BY <1>1, <1>2, <1>5 DEF Valid, ValidEvent, Identified, Distrusted, Dependent, Positive
<1> QED
  BY <1>1, <1>2, <1>3, <1>4, <1>6 DEF TellsRestore, TellsDenial, Logged, e

\* An event of a request that goes on without the entry it asked for.
Passed(e) == Valid(e) /\ TellsCold(e) /\ ~TellsRestore(e) /\ ~TellsDenial(e)

LEMMA Fallback ==
  ASSUME NEW e, e.fallback = TRUE, e.reason # "none", e.denial = "none",
         e.decision \notin Positive, Expected(e) \subseteq Actions(e),
         e.phase \notin {"worker_selected", "hydrate_requested", "restore_requested"},
         \/ e.decision = "fallback_after_restore_failure" /\ Identified(e) /\ e.status = "quarantined"
         \/ e.decision # "fallback_after_restore_failure" /\ e.phase # "restore_validated" /\ e.hit \notin {"local_nvme", "durable_blob"}
  PROVE  Passed(e)
<1>1. "fallback" \in Actions(e)
  BY DEF Actions
<1>2. Logged(e)
  BY <1>1 DEF Logged
<1>3. Outcome(e) \in {"fallback", "quarantined"}
  <2>1. CASE e.status = "quarantined"
    BY <2>1 DEF Outcome
  <2>2. CASE e.status # "quarantined"
    <3>1. e.fallback
      OBVIOUS
    <3> QED
      BY <2>2, <3>1 DEF Outcome
  <2> QED
    BY <2>1, <2>2
<1>4. Valid(e)
  BY <1>1 DEF Valid, ValidEvent, Dependent, Positive, Distrusted
<1> QED
  BY <1>2, <1>3, <1>4 DEF Passed, TellsCold, TellsRestore, TellsDenial

LEMMA Invalid ==
  ASSUME NEW k, k # "none", NEW w, NEW hydrated \in BOOLEAN, NEW counts
  PROVE  Passed(InvalidEvent(k, w, hydrated, counts))
<1> DEFINE e == InvalidEvent(k, w, hydrated, counts)
<1>1. /\ e.phase = "restore_validated" /\ e.decision = "fallback_after_restore_failure" /\ e.key = k /\ e.manifest = k
      /\ e.hit \in {"durable_blob", "local_nvme"} /\ e.compat = "match" /\ e.status = "quarantined" /\ e.fallback = TRUE
      /\ e.reason = "restore_validation_failed" /\ e.denial = "none"
  BY DEF InvalidEvent, Because, Measured, Emit, Blank
<1> HIDE DEF e
<1>2. Expected(e) \subseteq Actions(e)
  BY <1>1 DEF Expected, Actions, Positive, Dependent, Cached, Hits
<1>3. Passed(e)
  BY <1>1, <1>2, Fallback DEF Identified, Positive, Dependent
<1> QED
  BY <1>3 DEF e

LEMMA Failed ==
  ASSUME NEW k, k # "none", NEW w, NEW mayFallBack \in BOOLEAN,
         NEW reason \in {"cache_key_mismatch", "hydration_failed", "restore_validation_failed"}
  PROVE  Passed(FailedEvent(k, w, mayFallBack, reason)) /\ FailedEvent(k, w, mayFallBack, reason).phase = "request_failed"
<1> DEFINE e == FailedEvent(k, w, mayFallBack, reason)
<1>1. /\ e.phase = "request_failed" /\ e.key = k /\ e.manifest = k
      /\ \/ e.decision = "fallback_after_restore_failure" /\ e.hit = "durable_blob"
         \/ e.decision = "reject_capacity" /\ e.hit = "none"
      /\ e.compat \in {"match", "mismatch"} /\ e.status = "quarantined" /\ e.fallback = TRUE
      /\ e.reason = reason /\ e.denial = "none"
  BY DEF FailedEvent, Because, Emit, Blank
<1> HIDE DEF e
<1>2. Expected(e) \subseteq Actions(e)
  BY <1>1 DEF Expected, Actions, Positive, Dependent, Cached, Hits
<1>3. Passed(e)
  BY <1>1, <1>2, Fallback DEF Identified, Positive, Dependent
<1> QED
  BY <1>1, <1>3 DEF e

LEMMA OtherKey ==
  ASSUME NEW k, NEW filed
  PROVE  Passed(MismatchEvent(k, filed))
<1> DEFINE e == MismatchEvent(k, filed)
<1>1. /\ e.phase = "registry_lookup" /\ e.decision = "no_op" /\ e.hit = "registry_only"
      /\ e.compat = "mismatch" /\ e.status = "not_checked" /\ e.fallback = TRUE
      /\ e.reason = "cache_key_mismatch" /\ e.denial = "none"
  BY DEF MismatchEvent, Refused, Because, Emit, Blank
<1> HIDE DEF e
<1>2. Expected(e) \subseteq Actions(e)
  BY <1>1 DEF Expected, Actions, Positive, Dependent, Cached, Hits
<1>3. Passed(e)
  BY <1>1, <1>2, Fallback DEF Positive, Dependent
<1> QED
  BY <1>3 DEF e

LEMMA Rejected ==
  ASSUME NEW k, NEW reason, reason \in {"cache_key_mismatch", "manifest_quarantined"}
  PROVE  Passed(RejectedEvent(k, reason))
<1> DEFINE e == RejectedEvent(k, reason)
<1>1. /\ e.phase = "registry_lookup" /\ e.decision = "reject_capacity" /\ e.hit = "registry_only"
      /\ e.compat = "mismatch" /\ e.status = "quarantined" /\ e.fallback = TRUE
      /\ e.reason = reason /\ e.denial = "none"
  BY DEF RejectedEvent, Refused, Because, Emit, Blank
<1> HIDE DEF e
<1>2. Expected(e) \subseteq Actions(e)
  BY <1>1 DEF Expected, Actions, Positive, Dependent, Cached, Hits
<1>3. Passed(e)
  BY <1>1, <1>2, Fallback DEF Positive, Dependent
<1> QED
  BY <1>3 DEF e

LEMMA ToBuild == Passed(ToBuildEvent)
<1> DEFINE e == ToBuildEvent
<1>1. /\ e.phase = "registry_lookup" /\ e.decision = "cold_prefill" /\ e.hit = "none"
      /\ e.compat = "miss" /\ e.status = "not_applicable" /\ e.fallback = TRUE
      /\ e.reason = "no_compatible_manifest" /\ e.denial = "none"
  BY DEF ToBuildEvent, Because, Emit, Blank
<1> HIDE DEF e
<1>2. Expected(e) \subseteq Actions(e)
  BY <1>1 DEF Expected, Actions, Positive, Dependent, Cached, Hits
<1>3. Passed(e)
  BY <1>1, <1>2, Fallback DEF Positive, Dependent
<1> QED
  BY <1>3 DEF e

LEMMA ColdlyProxied ==
  ASSUME NEW w, NEW reason, reason \notin Retries \union {"none", "policy_denied"}
  PROVE  Passed(ProxiedEvent(w, reason))
<1> DEFINE e == ProxiedEvent(w, reason)
<1>1. /\ e.phase = "cold_prefill_selected" /\ e.decision = "cold_prefill" /\ e.hit = "none"
      /\ e.compat = "not_checked" /\ e.status = "not_applicable" /\ e.fallback = TRUE
      /\ e.reason = reason /\ e.denial = "none"
  BY DEF ProxiedEvent, Because, Emit, Blank
<1> HIDE DEF e
<1>2. Expected(e) \subseteq Actions(e)
  BY <1>1 DEF Expected, Actions, Positive, Dependent, Cached, Hits
<1>3. Passed(e)
  BY <1>1, <1>2, Fallback DEF Positive, Dependent
<1> QED
  BY <1>3 DEF e

\* An event that tells nothing of a cache used, denied or gone without.
Silent(e) == Valid(e) /\ ~TellsRestore(e) /\ ~TellsDenial(e)

LEMMA Committed ==
  ASSUME NEW k, k # "none", NEW w
  PROVE  Silent(CommittedEvent(k, w))
<1> DEFINE e == CommittedEvent(k, w)
<1>1. /\ e.phase = "cache_commit_published" /\ e.decision = "no_op" /\ e.hit = "durable_blob" /\ e.key = k /\ e.manifest = k
      /\ e.compat = "match" /\ e.status = "validated" /\ e.fallback = FALSE
      /\ e.reason = "none" /\ e.denial = "none"
  BY DEF CommittedEvent, Emit, Blank
<1> HIDE DEF e
<1>2. Expected(e) \subseteq Actions(e) /\ "commit" \in Actions(e) /\ "denial" \notin Actions(e)
  BY <1>1 DEF Expected, Actions, Positive, Dependent, Cached, Hits
<1>3. Operation(e) = "commit"
  <2>1. Ranked[1] = "denial" /\ Ranked[2] = "commit" /\ 1..(2 - 1) = {1}
    BY DEF Ranked
  <2> QED
    BY <1>2, <2>1, OperationIs
<1>4. Outcome(e) = "success"
  BY <1>1 DEF Outcome
<1>5. Valid(e)
  BY <1>1, <1>2 DEF Valid, ValidEvent, Identified, Distrusted, Dependent, Positive
<1> QED
  BY <1>3, <1>4, <1>5 DEF Silent, TellsRestore, TellsDenial, e

LEMMA MissedEvent ==
  ASSUME NEW k
  PROVE  Silent(MissEvent(k))
<1> DEFINE e == MissEvent(k)
<1>1. /\ e.phase = "registry_lookup" /\ e.decision = "no_op" /\ e.hit = "none"
      /\ e.compat = "miss" /\ e.status = "not_applicable" /\ e.fallback = FALSE
      /\ e.reason = "none" /\ e.denial = "none"
  BY DEF MissEvent, Emit, Blank
<1> HIDE DEF e
<1>2. Expected(e) \subseteq Actions(e) /\ "lookup" \in Actions(e)
  BY <1>1 DEF Expected, Actions, Positive, Dependent, Cached, Hits
<1>4. Outcome(e) = "miss"
  BY <1>1 DEF Outcome
<1>5. Valid(e)
  BY <1>1, <1>2 DEF Valid, ValidEvent, Identified, Distrusted, Dependent, Positive
<1> QED
  BY <1>4, <1>5 DEF Silent, TellsRestore, TellsDenial, e

LEMMA Bypassed ==
  ASSUME NEW w, NEW reason \in Retries \union {"none"}
  PROVE  Silent(ProxiedEvent(w, reason))
<1> DEFINE e == ProxiedEvent(w, reason)
<1>1. /\ e.phase = "worker_selected" /\ e.decision = "no_op" /\ e.hit = "none"
      /\ e.compat = "not_checked" /\ e.status = "not_applicable" /\ e.fallback = (reason # "none")
      /\ e.reason = reason /\ e.denial = "none"
  BY DEF ProxiedEvent, Because, Emit, Blank, Retries
<1>0. reason \in {"none", "worker_capacity", "worker_unavailable"}
  BY DEF Retries
<1> HIDE DEF e
<1>2. Expected(e) \subseteq Actions(e) /\ "lookup" \in Actions(e)
  BY <1>0, <1>1 DEF Expected, Actions, Positive, Dependent, Cached, Hits
<1>4. ~Logged(e)
  BY <1>1 DEF Logged
<1>5. Valid(e)
  BY <1>0, <1>1, <1>2 DEF Valid, ValidEvent, Identified, Distrusted, Dependent, Positive
<1> QED
  BY <1>4, <1>5 DEF Silent, TellsRestore, TellsDenial, e

LEMMA Denied ==
  ASSUME NEW denial, denial # "none", NEW k
  PROVE  LET e == DeniedEvent(denial, k) IN Valid(e) /\ TellsDenial(e) /\ ~TellsRestore(e) /\ ~TellsCold(e)
<1> DEFINE e == DeniedEvent(denial, k)
<1>1. /\ e.phase = "registry_lookup" /\ e.decision = "reject_policy" /\ e.hit = "registry_only"
      /\ e.compat = "policy_denied" /\ e.status = "not_checked" /\ e.fallback = TRUE
      /\ e.reason = "policy_denied" /\ e.denial = denial
  BY DEF DeniedEvent, Refused, Because, Emit, Blank
<1> HIDE DEF e
<1>2. Expected(e) \subseteq Actions(e) /\ "lookup" \in Actions(e)
  BY <1>1 DEF Expected, Actions, Positive, Dependent, Cached, Hits
<1>3. Outcome(e) = "denied" /\ Logged(e)
  BY <1>1, <1>2 DEF Outcome, Logged
<1>5. Valid(e)
  BY <1>1, <1>2 DEF Valid, ValidEvent, Identified, Distrusted, Dependent, Positive
<1> QED
  BY <1>3, <1>5 DEF TellsRestore, TellsDenial, TellsCold, e

-----------------------------------------------------------------------------
(* Registries: what their entries are, and what a lookup finds *)

Ids == {m[1] : m \in Material}
Prompts == {m[2] : m \in Material}
Policies == {m[3] : m \in Material}
Keys == {KeyOf(m[1], m[2], m[3], r) : m \in Material, r \in Runtimes}

Entries ==
  [id : Ids, key : Keys, policy : Policies, prefix : Prompts, runtime : Runtimes,
   status : {"validated", "quarantined"}, used : Nat, created : Nat, on : SUBSET ToSet(Names),
   blob : {"whole", "damaged", "gone"}, elsewhere : {"none", "inside", "outside"}, encryption : {Unencrypted}]

\* An entry is filed under the key of its own material.
SoundEntries ==
  {e \in Entries : /\ <<e.id, e.prefix, e.policy>> \in Material
                   /\ e.key = KeyOf(e.id, e.prefix, e.policy, e.runtime)
                   /\ Strict(e.runtime)}

\* Of two entries of one id and key, the later is of a policy that may not use the earlier.
Apart(rs) == \A i, j \in DOMAIN rs : i < j /\ rs[i].id = rs[j].id /\ rs[i].key = rs[j].key => PolicyDenial(rs[j].policy, rs[i]) # "none"

Registries == {rs \in Seq(SoundEntries) : Apart(rs)}

LEMMA MaterialIs ==
  ASSUME NEW m \in Material
  PROVE  Fileable(m[1], m[3])
<1>1. CASE \E q \in Earlier \union Questions : m = <<q.id, q.prefix, q.policy>>
  BY <1>1, RequestAssumption
<1>2. Fileable("agent-loop", LocalPolicy) /\ Fileable("suffix-benchmark", LocalPolicy)
  BY DEF Fileable, LocalPolicy, PolicyOf, DefaultPolicy
<1>3. Fileable("trial", TrialPolicy)
  BY DEF Fileable, TrialPolicy
<1> QED
  BY <1>1, <1>2, <1>3 DEF Material

LEMMA OwnPolicy ==
  ASSUME NEW id, NEW e, Fileable(id, e.policy)
  PROVE  RecordPolicy(e) = e.policy
<1>1. DOMAIN e.policy = {"scope", "tenant", "conversation", "rule"} /\ \A f \in DOMAIN e.policy : e.policy[f] # "absent"
  BY DEF Fileable
<1> QED
  BY <1>1 DEF RecordPolicy, Fileable

LEMMA RuntimeIs ==
  ASSUME NEW r \in Runtimes
  PROVE  r.mtp \in BOOLEAN /\ r.build # "none" /\ (~r.mtp => r.draftName = "none")
<1>1. PICK f \in Fleets, n \in ToSet(Names) : r = Runtime(f[n].row)
  BY DEF Runtimes
<1> QED
  BY <1>1, FleetAssumption DEF Runtime

LEMMA EntryIs ==
  ASSUME NEW e \in SoundEntries
  PROVE  /\ e \in Entries /\ e.key # "none" /\ e.id # "none" /\ e.runtime.build # "none"
         /\ RecordPolicy(e) = e.policy /\ CanonicalKey(e) = e.key
         /\ e.runtime.mtp \in BOOLEAN /\ (~e.runtime.mtp => e.runtime.draftName = "none")
<1>1. e \in Entries /\ <<e.id, e.prefix, e.policy>> \in Material /\ e.key = KeyOf(e.id, e.prefix, e.policy, e.runtime)
  BY DEF SoundEntries
<1>2. e.runtime \in Runtimes
  BY <1>1 DEF Entries
<1>3. Fileable(e.id, e.policy)
  BY <1>1, MaterialIs
<1>4. RecordPolicy(e) = e.policy
  BY <1>3, OwnPolicy
<1>5. e.key # "none"
  BY <1>1, <1>2, HashAssumption
<1>6. e.id # "none"
  BY <1>3 DEF Fileable
<1> QED
  BY <1>1, <1>2, <1>4, <1>5, <1>6, RuntimeIs DEF CanonicalKey

LEMMA RegistryRow ==
  ASSUME NEW rs \in Registries, NEW i \in DOMAIN rs
  PROVE  rs[i] \in SoundEntries /\ rs[i] \in Entries
  BY DEF Registries, SoundEntries

LEMMA BeforeOrders ==
  ASSUME NEW rs \in Registries, NEW i \in DOMAIN rs, NEW j \in DOMAIN rs, NEW k \in DOMAIN rs
  PROVE  /\ Before(rs, i, j) /\ Before(rs, j, k) => Before(rs, i, k)
         /\ i # j => Before(rs, i, j) \/ Before(rs, j, i)
<1>1. rs[i] \in Entries /\ rs[j] \in Entries /\ rs[k] \in Entries
  BY RegistryRow
<1>2. i \in Nat /\ j \in Nat /\ k \in Nat
  BY DEF Registries
<1>3. /\ rs[i].used \in Nat /\ rs[j].used \in Nat /\ rs[k].used \in Nat
      /\ rs[i].created \in Nat /\ rs[j].created \in Nat /\ rs[k].created \in Nat
  BY <1>1 DEF Entries
<1>4. Quarantined(rs[i]) \in BOOLEAN /\ Quarantined(rs[j]) \in BOOLEAN /\ Quarantined(rs[k]) \in BOOLEAN
  BY DEF Quarantined
<1> QED
  BY <1>2, <1>3, <1>4, SMTT(30) DEF Before

Topmost(rs, T, j) == j \in T /\ \A i \in T : i = j \/ Before(rs, i, j)

LEMMA TopmostThereIs ==
  ASSUME NEW rs \in Registries, NEW T \in SUBSET DOMAIN rs, T # {}
  PROVE  \E j : Topmost(rs, T, j)
<1> DEFINE Part(n) == T \intersect (1..n)
           S == {n \in 0..Len(rs) : Part(n) = {} \/ \E j : Topmost(rs, Part(n), j)}
<1>1. Len(rs) \in Nat /\ DOMAIN rs = 1..Len(rs)
  BY DEF Registries
<1>2. 0 \in S
  BY <1>1
<1>3. ASSUME NEW n \in 1..Len(rs), n - 1 \in S
      PROVE  n \in S
  <2>1. n \in 0..Len(rs) /\ n - 1 \in 0..Len(rs) /\ (1..n) = (1..(n - 1)) \union {n}
    BY <1>1
  <2>2. CASE n \notin T
    <3>1. Part(n) = Part(n - 1)
      BY <2>1, <2>2
    <3> QED
      BY <1>3, <2>1, <3>1
  <2>3. CASE n \in T /\ Part(n - 1) = {}
    <3>1. Part(n) = {n}
      BY <2>1, <2>3
    <3>2. Topmost(rs, Part(n), n)
      BY <3>1 DEF Topmost
    <3> QED
      BY <2>1, <3>2
  <2>4. CASE n \in T /\ Part(n - 1) # {}
    <3>1. PICK j : Topmost(rs, Part(n - 1), j)
      BY <1>3, <2>4
    <3>2. Part(n) = Part(n - 1) \union {n} /\ j # n /\ j \in T
      BY <2>1, <2>4, <3>1 DEF Topmost
    <3>3. CASE Before(rs, n, j)
      <4>1. Topmost(rs, Part(n), j)
        BY <3>1, <3>2, <3>3 DEF Topmost
      <4> QED
        BY <2>1, <4>1
    <3>4. CASE ~Before(rs, n, j)
      <4>1. Before(rs, j, n)
        BY <3>2, <3>4, <2>4, BeforeOrders
      <4>2. ASSUME NEW i \in Part(n), i # n
            PROVE  Before(rs, i, n)
        <5>1. i \in Part(n - 1) /\ i \in T
          BY <3>2, <4>2
        <5>2. i = j \/ Before(rs, i, j)
          BY <5>1, <3>1 DEF Topmost
        <5>3. Before(rs, i, j) => Before(rs, i, n)
          BY <5>1, <4>1, <3>2, <2>4, BeforeOrders
        <5> QED
          BY <5>2, <5>3, <4>1
      <4>3. Topmost(rs, Part(n), n)
        BY <4>2, <3>2 DEF Topmost
      <4> QED
        BY <2>1, <4>3
    <3> QED
      BY <3>3, <3>4
  <2> QED
    BY <2>2, <2>3, <2>4
<1>4. Len(rs) \in S
  <2> HIDE DEF S
  <2>1. \A n \in 1..Len(rs) : n - 1 \in S => n \in S
    BY <1>3
  <2>2. 0..Len(rs) \subseteq S
    BY <1>1, <1>2, <2>1, UpTo
  <2> QED
    BY <1>1, <2>2
<1>5. Part(Len(rs)) = T
  BY <1>1
<1> QED
  BY <1>4, <1>5

\* The entries of an id under the policies ps and keys ks.
Found(rs, id, ps, ks) ==
  {i \in DOMAIN rs : rs[i].id = id /\ (\A k \in ks : rs[i].key = k) /\ (\A p \in ps : PolicyDenial(p, rs[i]) = "none")}

LEMMA FindEntryIs ==
  ASSUME NEW rs \in Registries, NEW id, NEW ps, NEW ks
  PROVE  /\ Found(rs, id, ps, ks) = {} => FindEntry(rs, id, ps, ks) = 0
         /\ Found(rs, id, ps, ks) # {} => FindEntry(rs, id, ps, ks) \in Found(rs, id, ps, ks) /\ FindEntry(rs, id, ps, ks) # 0
<1> DEFINE T == Found(rs, id, ps, ks)
           j == FindEntry(rs, id, ps, ks)
<1>1. j = IF T = {} THEN 0 ELSE CHOOSE i \in T : \A h \in T : h = i \/ Before(rs, h, i)
  BY DEF FindEntry, Found
<1>2. T \in SUBSET DOMAIN rs
  BY DEF Found
<1>3. DOMAIN rs = 1..Len(rs) /\ Len(rs) \in Nat
  BY DEF Registries
<1> HIDE DEF T
<1>4. CASE T # {}
  <2>1. \E i \in T : \A h \in T : h = i \/ Before(rs, h, i)
    BY <1>2, <1>4, TopmostThereIs DEF Topmost
  <2>2. j \in T
    BY <1>1, <1>4, <2>1
  <2> QED
    BY <2>2, <1>2, <1>3, <1>4 DEF T
<1> QED
  BY <1>1, <1>4 DEF T

-----------------------------------------------------------------------------
(* Answers under way, and answers *)

Fields == {"rows", "events", "tried", "status", "text", "worker", "key", "hit", "validation", "recomputed", "restored"}

Trail(events) == \E S : events \in Seq(S)

\* An answer under way: a sound registry, and nothing told that the answer would have to bear out.
Open(s) ==
  /\ DOMAIN s = Fields
  /\ s.rows \in Registries
  /\ Trail(s.events)
  /\ \A e \in ToSet(s.events) : Silent(e)
  /\ s.restored = FALSE

\* An answer whose events tell of it what it is.
Honest(a) ==
  /\ a.rows \in Registries
  /\ Trail(a.events)
  /\ \A e \in ToSet(a.events) : Valid(e)
  /\ a.restored \in BOOLEAN
  /\ a.restored <=> \E e \in ToSet(a.events) : TellsRestore(e)
  /\ (\E e \in ToSet(a.events) : TellsDenial(e)) => a.status \in {"denied", "not_found"}

\* An answer of a lookup that does not come from a cache says so.
Explained(a) == a.status = "ok" /\ ~a.restored => \E e \in ToSet(a.events) : TellsCold(e)

LEMMA TrailGrows ==
  ASSUME NEW events, Trail(events), NEW e
  PROVE  Trail(Append(events, e)) /\ ToSet(Append(events, e)) = ToSet(events) \union {e}
<1>1. PICK S : events \in Seq(S)
  BY DEF Trail
<1> DEFINE T == S \union {e}
           more == Append(events, e)
<1>2. events \in Seq(T) /\ e \in T
  BY <1>1, SeqMonotonic
<1>3. /\ more \in Seq(T) /\ Len(more) = Len(events) + 1 /\ more[Len(events) + 1] = e
      /\ \A i \in 1..Len(events) : more[i] = events[i]
      /\ Len(events) \in Nat /\ DOMAIN events = 1..Len(events) /\ DOMAIN more = 1..Len(more)
  <2> HIDE DEF T
  <2> QED
    BY <1>2
<1> HIDE DEF T, more
<1>4. DOMAIN more = DOMAIN events \union {Len(events) + 1}
  BY <1>3
<1>5. ToSet(more) = ToSet(events) \union {e}
  BY <1>3, <1>4 DEF ToSet
<1>6. Trail(more)
  BY <1>3 DEF Trail
<1> QED
  BY <1>5, <1>6 DEF more

LEMMA ToldIs ==
  ASSUME NEW s, DOMAIN s = Fields, NEW e
  PROVE  LET t == Told(s, e) IN
         /\ DOMAIN t = Fields /\ t.events = Append(s.events, e)
         /\ t.rows = s.rows /\ t.tried = s.tried /\ t.status = s.status /\ t.restored = s.restored /\ t.key = s.key
  BY DEF Told, Fields

LEMMA PassedIsSilent == \A e : Passed(e) => Silent(e) /\ TellsCold(e)
  BY DEF Passed, Silent

LEMMA OpenTold ==
  ASSUME NEW s, Open(s), NEW e, Silent(e)
  PROVE  /\ Open(Told(s, e)) /\ Told(s, e).key = s.key /\ Told(s, e).rows = s.rows /\ Told(s, e).tried = s.tried
         /\ ToSet(Told(s, e).events) = ToSet(s.events) \union {e}
<1>1. DOMAIN s = Fields /\ Trail(s.events)
  BY DEF Open
<1>2. ToSet(Append(s.events, e)) = ToSet(s.events) \union {e} /\ Trail(Append(s.events, e))
  BY <1>1, TrailGrows
<1> QED
  BY <1>1, <1>2, ToldIs DEF Open

\* A request that ends without an answer, or with what was built.
LEMMA OpenEnded ==
  ASSUME NEW s, Open(s), NEW status
  PROVE  LET a == Ended(s, status) IN
         Honest(a) /\ ~a.restored /\ a.status = status /\ a.events = s.events /\ a.rows = s.rows
<1> DEFINE a == Ended(s, status)
<1>1. a.rows = s.rows /\ a.events = s.events /\ a.restored = FALSE /\ a.status = status
  BY DEF Ended, Open, Fields
<1>2. \A e \in ToSet(s.events) : Valid(e) /\ ~TellsRestore(e) /\ ~TellsDenial(e)
  BY DEF Open, Silent
<1> QED
  BY <1>1, <1>2 DEF Honest, Open

LEMMA DeniedEnded ==
  ASSUME NEW s, Open(s), NEW e, Valid(e), ~TellsRestore(e), NEW status \in {"denied", "not_found"}
  PROVE  LET a == Ended(Told(s, e), status) IN Honest(a) /\ ~a.restored /\ a.status = status
<1> DEFINE a == Ended(Told(s, e), status)
<1>0. DOMAIN s = Fields /\ Trail(s.events)
  BY DEF Open
<1>1. a.rows = s.rows /\ a.events = Append(s.events, e) /\ a.restored = FALSE /\ a.status = status
  BY <1>0, ToldIs DEF Ended, Open, Fields
<1>2. \A x \in ToSet(s.events) : Valid(x) /\ ~TellsRestore(x) /\ ~TellsDenial(x)
  BY DEF Open, Silent
<1>3. ToSet(Append(s.events, e)) = ToSet(s.events) \union {e} /\ Trail(Append(s.events, e))
  BY <1>0, TrailGrows
<1> QED
  BY <1>1, <1>2, <1>3 DEF Honest, Open

LEMMA ProxiedSplits ==
  ASSUME NEW s, NEW fleet, NEW q, NEW reason, NEW a \in Proxied(s, fleet, q, reason)
  PROVE  a = Ended(s, "unavailable") \/ \E n, t : \E r \in ProxyReasons(fleet, q, n, reason) : a = Forwarded(s, n, t, r)
  BY DEF Proxied

\* What is proxied instead says why, unless the cache was to be bypassed.
LEMMA ProxiedIs ==
  ASSUME NEW s, Open(s), NEW fleet, NEW q, NEW reason, reason \notin Retries \union {"policy_denied"},
         NEW a \in Proxied(s, fleet, q, reason)
  PROVE  Honest(a) /\ ~a.restored /\ (reason # "none" => Explained(a)) /\ ToSet(s.events) \subseteq ToSet(a.events)
<1>1. CASE a = Ended(s, "unavailable")
  BY <1>1, OpenEnded DEF Explained
<1>2. CASE \E n, t : \E r \in ProxyReasons(fleet, q, n, reason) : a = Forwarded(s, n, t, r)
  <2>9. PICK n, t : \E r \in ProxyReasons(fleet, q, n, reason) : a = Forwarded(s, n, t, r)
    BY <1>2
  <2>1. PICK r \in ProxyReasons(fleet, q, n, reason) : a = Forwarded(s, n, t, r)
    BY <2>9
  <2> DEFINE e == ProxiedEvent(n, r)
             o == Told(s, e)
  <2>0. IF reason = "none" THEN r \in Retries \union {"none"} ELSE r = reason
    BY DEF ProxyReasons
  <2>2. Silent(e) /\ (reason # "none" => TellsCold(e))
    BY <2>0, Bypassed, ColdlyProxied, PassedIsSilent
  <2>3. Open(o) /\ ToSet(o.events) = ToSet(s.events) \union {e}
    <3> HIDE DEF e
    <3> QED
      BY <2>2, OpenTold
  <2> HIDE DEF e, o
  <2>4. a.rows = o.rows /\ a.events = o.events /\ a.restored = FALSE /\ a.status \in {"ok", "failed"}
    BY <2>1, <2>3 DEF Forwarded, Open, Fields, o, e
  <2>5. \A x \in ToSet(o.events) : Valid(x) /\ ~TellsRestore(x) /\ ~TellsDenial(x)
    BY <2>3 DEF Open, Silent
  <2>6. Honest(a) /\ ~a.restored
    BY <2>3, <2>4, <2>5 DEF Honest, Open
  <2> QED
    BY <2>2, <2>3, <2>4, <2>6 DEF Explained
<1> QED
  BY <1>1, <1>2, ProxiedSplits

-----------------------------------------------------------------------------
(* What becomes of the entries of a registry *)

\* x is entry e, whatever was done with it.
SameEntry(x, e) == x.key = e.key /\ x.id = e.id /\ x.prefix = e.prefix /\ x.policy = e.policy /\ x.runtime = e.runtime

Holds(rs, e) == \E x \in ToSet(rs) : SameEntry(x, e)

\* A policy may use an entry by what the entry's own policy is.
LEMMA DenialOf ==
  ASSUME NEW x, NEW e, x.policy = e.policy, NEW p
  PROVE  PolicyDenial(p, x) = PolicyDenial(p, e)
<1>1. RecordPolicy(x) = RecordPolicy(e)
  BY DEF RecordPolicy
<1> QED
  BY <1>1 DEF PolicyDenial

\* Entries may be used or quarantined, and stay.
LEMMA EntriesStay ==
  ASSUME NEW rs \in Registries, NEW more, more = [i \in DOMAIN rs |-> more[i]],
         \A i \in DOMAIN rs : more[i] \in SoundEntries /\ SameEntry(more[i], rs[i])
  PROVE  more \in Registries /\ \A e : Holds(rs, e) => Holds(more, e)
<1>1. DOMAIN rs = 1..Len(rs) /\ Len(rs) \in Nat
  BY DEF Registries
<1>2. more \in [1..Len(rs) -> SoundEntries] /\ DOMAIN more = DOMAIN rs
  BY <1>1
<1>5. more \in Seq(SoundEntries)
  BY <1>1, <1>2, SeqDef
<1>6. ASSUME NEW i \in DOMAIN rs, NEW j \in DOMAIN rs, i < j, more[i].id = more[j].id, more[i].key = more[j].key
      PROVE  PolicyDenial(more[j].policy, more[i]) # "none"
  <2>1. /\ more[i].policy = rs[i].policy /\ more[i].id = rs[i].id /\ more[i].key = rs[i].key
        /\ more[j].policy = rs[j].policy /\ more[j].id = rs[j].id /\ more[j].key = rs[j].key
    BY DEF SameEntry
  <2>2. PolicyDenial(rs[j].policy, rs[i]) # "none"
    BY <1>6, <2>1 DEF Registries, Apart
  <2> QED
    BY <2>1, <2>2, DenialOf
<1>3. more \in Registries
  <2>1. Apart(more)
    BY <1>2, <1>6 DEF Apart
  <2> QED
    BY <1>5, <2>1 DEF Registries
<1>4. ASSUME NEW e, Holds(rs, e)
      PROVE  Holds(more, e)
  <2>1. PICK i \in DOMAIN rs : SameEntry(rs[i], e)
    BY <1>4 DEF Holds, ToSet
  <2>2. SameEntry(more[i], e)
    BY <2>1 DEF SameEntry
  <2>3. more[i] \in ToSet(more)
    BY <1>2 DEF ToSet
  <2> QED
    BY <2>2, <2>3 DEF Holds
<1> QED
  BY <1>3, <1>4

LEMMA SoundStays ==
  ASSUME NEW e \in SoundEntries, NEW x \in Entries, SameEntry(x, e), x.blob = e.blob, x.elsewhere = e.elsewhere
  PROVE  x \in SoundEntries
  BY DEF SameEntry, SoundEntries

LEMMA QuarantineKeeps ==
  ASSUME NEW rs \in Registries, NEW k
  PROVE  Quarantine(rs, k) \in Registries /\ \A e : Holds(rs, e) => Holds(Quarantine(rs, k), e)
<1> DEFINE more == Quarantine(rs, k)
<1>1. \A i \in DOMAIN rs : more[i] = IF rs[i].key = k THEN [rs[i] EXCEPT !.status = "quarantined"] ELSE rs[i]
  BY DEF Quarantine
<1>2. ASSUME NEW i \in DOMAIN rs
      PROVE  more[i] \in SoundEntries /\ SameEntry(more[i], rs[i])
  <2>1. rs[i] \in SoundEntries /\ rs[i] \in Entries
    BY RegistryRow
  <2> DEFINE x == [rs[i] EXCEPT !.status = "quarantined"]
  <2>2. x \in Entries /\ SameEntry(x, rs[i]) /\ x.blob = rs[i].blob /\ x.elsewhere = rs[i].elsewhere
    BY <2>1 DEF Entries, SameEntry
  <2>3. x \in SoundEntries
    <3> HIDE DEF x
    <3> QED
      BY <2>1, <2>2, SoundStays
  <2> HIDE DEF more
  <2> QED
    BY <1>1, <2>1, <2>2, <2>3 DEF SameEntry
<1>3. more = [i \in DOMAIN rs |-> more[i]]
  BY DEF Quarantine
<1> HIDE DEF more
<1>4. \A i \in DOMAIN rs : more[i] \in SoundEntries /\ SameEntry(more[i], rs[i])
  BY <1>2
<1>5. more \in Registries /\ \A e : Holds(rs, e) => Holds(more, e)
  BY <1>3, <1>4, EntriesStay
<1> QED
  BY <1>5 DEF more

LEMMA TouchKeeps ==
  ASSUME NEW rs \in Registries, NEW k, NEW n \in ToSet(Names), NEW now \in Nat
  PROVE  Touch(rs, k, n, now) \in Registries /\ \A e : Holds(rs, e) => Holds(Touch(rs, k, n, now), e)
<1> DEFINE more == Touch(rs, k, n, now)
<1>1. \A i \in DOMAIN rs : more[i] = IF rs[i].key = k THEN [rs[i] EXCEPT !.used = now, !.on = @ \union {n}] ELSE rs[i]
  BY DEF Touch
<1>2. ASSUME NEW i \in DOMAIN rs
      PROVE  more[i] \in SoundEntries /\ SameEntry(more[i], rs[i])
  <2>1. rs[i] \in SoundEntries /\ rs[i] \in Entries
    BY RegistryRow
  <2> DEFINE x == [rs[i] EXCEPT !.used = now, !.on = @ \union {n}]
  <2>2. x \in Entries /\ SameEntry(x, rs[i]) /\ x.blob = rs[i].blob /\ x.elsewhere = rs[i].elsewhere
    BY <2>1 DEF Entries, SameEntry
  <2>3. x \in SoundEntries
    <3> HIDE DEF x
    <3> QED
      BY <2>1, <2>2, SoundStays
  <2> HIDE DEF more
  <2> QED
    BY <1>1, <2>1, <2>2, <2>3 DEF SameEntry
<1>3. more = [i \in DOMAIN rs |-> more[i]]
  BY DEF Touch
<1> HIDE DEF more
<1>4. \A i \in DOMAIN rs : more[i] \in SoundEntries /\ SameEntry(more[i], rs[i])
  BY <1>2
<1>5. more \in Registries /\ \A e : Holds(rs, e) => Holds(more, e)
  BY <1>3, <1>4, EntriesStay
<1> QED
  BY <1>5 DEF more

-----------------------------------------------------------------------------
(* The attempts to restore an entry *)

\* An entry a lookup may go on with, for the request q.
Wanted(e, q) == e \in SoundEntries /\ e.id = q.id /\ PolicyDenial(q.policy, e) = "none"

\* An answer under way about entry e.
Going(s, e) == Open(s) /\ s.key = e.key /\ Holds(s.rows, e)

HadFailed(s) == \E x \in ToSet(s.events) : x.phase = "request_failed"

\* What RightEntry says of an answer a to request q.
Right(a, q, fleet) ==
  a.restored =>
    \E e \in ToSet(a.rows) :
      LET r == Runtime(fleet[a.worker].row)
      IN /\ e.key = a.key /\ e.id = q.id /\ e.prefix = q.prefix
         /\ e.policy.scope = q.policy.scope /\ e.policy.tenant = q.policy.tenant
         /\ e.policy.scope = "conversation" => e.policy.conversation = q.policy.conversation
         /\ <<e.runtime.model, e.runtime.build, e.runtime.mtp>> = <<r.model, r.build, r.mtp>>
         /\ r.mtp => e.runtime.draftHash = r.draftHash

Kinds == {"incompatible", "incomplete", "no_prefix", "other_prefix", "local", "restore", "hydration", "corrupt", "hydrated", "mismatch"}

LEMMA TriesTell ==
  ASSUME NEW e, NEW fleet, NEW n, NEW q, NEW kind \in Tries(e, fleet, n, q)
  PROVE  /\ kind \in Kinds
         /\ kind \in {"local", "hydrated"} => Fits(e, Runtime(fleet[n].row)) /\ q.prefix = e.prefix
  BY DEF Tries, Kinds

LEMMA PolicyFits ==
  ASSUME NEW q, Wellformed(q), NEW e, Wanted(e, q)
  PROVE  /\ e.policy.scope = q.policy.scope /\ e.policy.tenant = q.policy.tenant /\ e.policy.rule = q.policy.rule
         /\ e.policy.scope = "conversation" => e.policy.conversation = q.policy.conversation
<1>1. RecordPolicy(e) = e.policy
  BY EntryIs DEF Wanted
<1>5. RequestDenial(q.policy) = "none"
  BY DEF Wanted, PolicyDenial
<1> QED
  BY <1>1, <1>5 DEF Wanted, PolicyDenial

LEMMA FailGoes ==
  ASSUME NEW s, NEW e \in SoundEntries, Going(s, e), NEW n, NEW q, Wellformed(q), NEW kind \in Kinds
  PROVE  Going(Fail(s, e, n, q, kind), e) /\ HadFailed(Fail(s, e, n, q, kind))
<1> DEFINE x == FailedEvent(e.key, n, q.fallback, AttemptReason(kind))
           o == Told(s, x)
           t == Fail(s, e, n, q, kind)
<1>1. AttemptReason(kind) \in {"cache_key_mismatch", "hydration_failed", "restore_validation_failed"}
  BY DEF AttemptReason
<1>2. e.key # "none" /\ q.fallback \in BOOLEAN
  BY EntryIs DEF Wellformed
<1>3. Silent(x) /\ x.phase = "request_failed"
  BY <1>1, <1>2, Failed, PassedIsSilent
<1> HIDE DEF x
<1>4. Open(o) /\ o.key = s.key /\ o.rows = s.rows /\ ToSet(o.events) = ToSet(s.events) \union {x}
  BY <1>3, OpenTold DEF Going
<1>5. t = [o EXCEPT !.tried = @ \union {kind}, !.hit = "none", !.rows = IF kind = "corrupt" THEN Quarantine(@, e.key) ELSE @]
  BY DEF Fail, x
<1> HIDE DEF o, t
<1>6. DOMAIN o = Fields
  BY <1>4 DEF Open
<1>7. DOMAIN t = Fields /\ t.events = o.events /\ t.key = o.key /\ t.restored = o.restored
      /\ t.rows = IF kind = "corrupt" THEN Quarantine(o.rows, e.key) ELSE o.rows
  BY <1>5, <1>6 DEF Fields
<1>8. o.rows \in Registries /\ Holds(o.rows, e)
  BY <1>4 DEF Going, Open
<1>9. t.rows \in Registries /\ Holds(t.rows, e)
  BY <1>7, <1>8, QuarantineKeeps
<1>10. Open(t)
  BY <1>4, <1>7, <1>9 DEF Open
<1> QED
  BY <1>3, <1>4, <1>7, <1>9, <1>10 DEF Going, HadFailed, t

LEMMA MismatchGoes ==
  ASSUME NEW s, NEW e \in SoundEntries, Going(s, e), NEW n, NEW q, NEW hydrated \in BOOLEAN
  PROVE  /\ Going(Mismatch(s, e, n, q, hydrated), e)
         /\ \E x \in ToSet(Mismatch(s, e, n, q, hydrated).events) : TellsCold(x)
<1> DEFINE x == InvalidEvent(e.key, n, hydrated, Counts(q))
           o == Told(s, x)
           t == Mismatch(s, e, n, q, hydrated)
<1>1. e.key # "none"
  BY EntryIs
<1>2. Silent(x) /\ TellsCold(x)
  BY <1>1, Invalid, PassedIsSilent
<1> HIDE DEF x
<1>3. Open(o) /\ o.key = s.key /\ o.rows = s.rows /\ ToSet(o.events) = ToSet(s.events) \union {x}
  BY <1>2, OpenTold DEF Going
<1>4. t = [o EXCEPT !.rows = Quarantine(@, e.key)]
  BY DEF Mismatch, x
<1> HIDE DEF o, t
<1>5. DOMAIN o = Fields
  BY <1>3 DEF Open
<1>6. DOMAIN t = Fields /\ t.events = o.events /\ t.key = o.key /\ t.restored = o.restored /\ t.rows = Quarantine(o.rows, e.key)
  BY <1>4, <1>5 DEF Fields
<1>7. o.rows \in Registries /\ Holds(o.rows, e)
  BY <1>3 DEF Going, Open
<1>8. t.rows \in Registries /\ Holds(t.rows, e)
  BY <1>6, <1>7, QuarantineKeeps
<1>9. Open(t)
  BY <1>3, <1>6, <1>8 DEF Open
<1> QED
  BY <1>2, <1>3, <1>6, <1>8, <1>9 DEF Going, t

LEMMA FailingGoes ==
  ASSUME NEW s, NEW e \in SoundEntries, Going(s, e), NEW fleet, NEW n, NEW q, Wellformed(q), NEW t \in Failing(s, e, fleet, n, q)
  PROVE  Going(t, e) /\ HadFailed(t)
<1>1. CASE \E kind \in Tries(e, fleet, n, q) : t = Fail(s, e, n, q, kind)
  BY <1>1, TriesTell, FailGoes
<1>2. CASE \E kind : t = Fail(Mismatch(s, e, n, q, kind = "hydrated"), e, n, q, "mismatch")
  <2>1. PICK kind : t = Fail(Mismatch(s, e, n, q, kind = "hydrated"), e, n, q, "mismatch")
    BY <1>2
  <2> DEFINE m == Mismatch(s, e, n, q, kind = "hydrated")
  <2>2. Going(m, e) /\ "mismatch" \in Kinds
    BY MismatchGoes DEF Kinds
  <2> HIDE DEF m
  <2>3. Going(Fail(m, e, n, q, "mismatch"), e) /\ HadFailed(Fail(m, e, n, q, "mismatch"))
    BY <2>2, FailGoes
  <2> QED
    BY <2>1, <2>3 DEF m
<1> QED
  BY <1>1, <1>2 DEF Failing

\* What an answer to request q is, whatever it comes from.
Proper(a, q, fleet) == Honest(a) /\ Explained(a) /\ Right(a, q, fleet)

\* A lookup found its entry and did something with it.
Served(a) == a.restored \/ a.recomputed # NoText \/ HadFailed(a)

LEMMA SucceedIs ==
  ASSUME NEW s, NEW q, Wellformed(q), NEW e, Wanted(e, q), Going(s, e), NEW fleet, NEW n \in ToSet(Names),
         Fits(e, Runtime(fleet[n].row)), q.prefix = e.prefix, NEW hydrated \in BOOLEAN, NEW now \in Nat
  PROVE  Proper(Succeed(s, e, n, q, hydrated, now), q, fleet) /\ Served(Succeed(s, e, n, q, hydrated, now))
<1> DEFINE x == RestoredEvent(e.key, n, hydrated, Counts(q))
           o == Told(s, x)
           a == Succeed(s, e, n, q, hydrated, now)
           r == Runtime(fleet[n].row)
<1>1. e \in SoundEntries /\ e \in Entries /\ e.key # "none"
  BY EntryIs DEF Wanted
<1>2. Valid(x) /\ TellsRestore(x) /\ ~TellsDenial(x)
  BY <1>1, Restored
<1> HIDE DEF x
<1>3. DOMAIN s = Fields /\ Trail(s.events) /\ s.rows \in Registries
  BY DEF Going, Open
<1>4. DOMAIN o = Fields /\ o.events = Append(s.events, x) /\ o.rows = s.rows /\ o.key = s.key
  BY <1>3, ToldIs
<1>5. ToSet(o.events) = ToSet(s.events) \union {x} /\ Trail(o.events)
  BY <1>3, <1>4, TrailGrows
<1>6. a = [o EXCEPT !.status = "ok", !.text = "a", !.worker = n, !.hit = IF hydrated THEN "durable_blob" ELSE "local_nvme",
             !.validation = IF q.validate THEN "pass" ELSE "off", !.recomputed = IF q.validate THEN "a" ELSE NoText,
             !.restored = TRUE, !.rows = Touch(@, e.key, n, now)]
  BY DEF Succeed, x
<1> HIDE DEF o, a
<1>7. a.status = "ok" /\ a.restored = TRUE /\ a.worker = n /\ a.events = o.events /\ a.key = s.key /\ a.rows = Touch(s.rows, e.key, n, now)
  BY <1>4, <1>6 DEF Fields
<1>8. a.rows \in Registries /\ Holds(a.rows, e)
  BY <1>3, <1>7, TouchKeeps DEF Going
<1>9. \A y \in ToSet(s.events) : Valid(y) /\ ~TellsRestore(y) /\ ~TellsDenial(y)
  BY DEF Going, Open, Silent
<1>10. Honest(a)
  BY <1>2, <1>5, <1>7, <1>8, <1>9 DEF Honest
<1>11. PICK y \in ToSet(a.rows) : SameEntry(y, e)
  BY <1>8 DEF Holds
<1>12. /\ e.policy.scope = q.policy.scope /\ e.policy.tenant = q.policy.tenant
       /\ e.policy.scope = "conversation" => e.policy.conversation = q.policy.conversation
  BY PolicyFits
<1>13. /\ e.runtime.model = r.model /\ e.runtime.build = r.build /\ e.runtime.mtp = r.mtp
       /\ r.mtp => e.runtime.draftHash = r.draftHash
  BY DEF Fits, DraftKey
<1>14. Right(a, q, fleet)
  <2> HIDE DEF r
  <2>1. /\ y.key = a.key /\ y.id = q.id /\ y.prefix = q.prefix
        /\ y.policy.scope = q.policy.scope /\ y.policy.tenant = q.policy.tenant
        /\ y.policy.scope = "conversation" => y.policy.conversation = q.policy.conversation
        /\ <<y.runtime.model, y.runtime.build, y.runtime.mtp>> = <<r.model, r.build, r.mtp>>
        /\ r.mtp => y.runtime.draftHash = r.draftHash
    BY <1>7, <1>11, <1>12, <1>13 DEF SameEntry, Going, Wanted
  <2>2. r = Runtime(fleet[a.worker].row)
    BY <1>7 DEF r
  <2> QED
    BY <2>1, <2>2 DEF Right
<1> QED
  BY <1>7, <1>10, <1>14 DEF Proper, Explained, Served, a

LEMMA RecomputedIs ==
  ASSUME NEW s, NEW q, Wellformed(q), NEW e, Wanted(e, q), Going(s, e), NEW fleet, NEW n, NEW hydrated \in BOOLEAN,
         NEW text \in Texts
  PROVE  LET a == Recomputed(s, e, n, q, hydrated, text) IN Proper(a, q, fleet) /\ Served(a)
<1> DEFINE a == Recomputed(s, e, n, q, hydrated, text)
           m == Mismatch(s, e, n, q, hydrated)
<1>1. e \in SoundEntries
  BY DEF Wanted
<1>2. Going(m, e) /\ \E x \in ToSet(m.events) : TellsCold(x)
  BY <1>1, MismatchGoes
<1> HIDE DEF m
<1>3. Open(m)
  BY <1>2 DEF Going
<1>4. a.status = "ok" /\ a.recomputed = text /\ a.restored = FALSE /\ a.events = m.events /\ a.rows = m.rows
  BY <1>3 DEF Recomputed, Open, Fields, m
<1>5. Honest(a)
  BY <1>3, <1>4 DEF Open, Silent, Honest
<1>6. text # NoText
  BY DEF Texts, NoText
<1> QED
  BY <1>2, <1>4, <1>5, <1>6 DEF Proper, Explained, Right, Served

LEMMA AnsweringIs ==
  ASSUME NEW s, NEW q, Wellformed(q), NEW e, Wanted(e, q), Going(s, e), NEW fleet, NEW n \in ToSet(Names), NEW now \in Nat,
         NEW a \in Answering(s, e, fleet, n, q, now)
  PROVE  Proper(a, q, fleet) /\ Served(a)
<1>1. ASSUME NEW kind \in Tries(e, fleet, n, q) \intersect {"local", "hydrated"}
      PROVE  LET x == Succeed(s, e, n, q, kind = "hydrated", now) IN Proper(x, q, fleet) /\ Served(x)
  <2>1. Fits(e, Runtime(fleet[n].row)) /\ q.prefix = e.prefix /\ (kind = "hydrated") \in BOOLEAN
    BY TriesTell
  <2> QED
    BY <2>1, SucceedIs
<1>2. ASSUME NEW kind, NEW text \in Texts
      PROVE  LET x == Recomputed(s, e, n, q, kind = "hydrated", text) IN Proper(x, q, fleet) /\ Served(x)
  BY RecomputedIs
<1> DEFINE Passing == Tries(e, fleet, n, q) \intersect {"local", "hydrated"}
           Others == IF q.validate /\ q.recompute /\ q.fallback THEN Texts \ {"a"} ELSE {}
           From(kind) == {Succeed(s, e, n, q, kind = "hydrated", now)}
                         \union {Recomputed(s, e, n, q, kind = "hydrated", t) : t \in Others}
<1>3. PICK kind \in Passing : a \in From(kind)
  <2>1. Answering(s, e, fleet, n, q, now) = UNION {From(kind) : kind \in Passing}
    BY DEF Answering
  <2> HIDE DEF From, Passing
  <2> QED
    BY <2>1
<1>4. Others \subseteq Texts
  OBVIOUS
<1> HIDE DEF Others
<1>5. a = Succeed(s, e, n, q, kind = "hydrated", now) \/ \E t \in Others : a = Recomputed(s, e, n, q, kind = "hydrated", t)
  BY <1>3
<1> QED
  BY <1>1, <1>2, <1>3, <1>4, <1>5

\* No worker could: what is proxied, or the failure.
LEMMA ExhaustedIs ==
  ASSUME NEW s, Open(s), NEW fleet, NEW q, NEW a \in Exhausted(s, fleet, q)
  PROVE  Proper(a, q, fleet) /\ (HadFailed(s) => Served(a))
<1>1. HandlerReason(s.tried) \notin Retries \union {"none", "policy_denied"}
  BY DEF HandlerReason, Retries
<1>2. CASE a \in Proxied(s, fleet, q, HandlerReason(s.tried))
  <2>1. Honest(a) /\ ~a.restored /\ Explained(a) /\ ToSet(s.events) \subseteq ToSet(a.events)
    BY <1>1, <1>2, ProxiedIs
  <2> QED
    BY <2>1 DEF Proper, Right, Served, HadFailed
<1>3. CASE a = Ended(s, "failed")
  <2>1. Honest(a) /\ ~a.restored /\ a.status = "failed" /\ a.events = s.events
    BY <1>3, OpenEnded
  <2> QED
    BY <2>1 DEF Proper, Explained, Right, Served, HadFailed
<1> QED
  BY <1>2, <1>3 DEF Exhausted

\* The loop over the workers in o, with its recursion unfolded: f[i] is what is left after i of them.
Loop(f, s, e, fleet, o, q) ==
  f = [i \in 0..Len(o) |-> IF i = 0 THEN {s} ELSE UNION {Failing(t, e, fleet, o[i], q) : t \in {t \in f[i - 1] : ~Final(t, q)}}]

LEMMA AttemptsAre ==
  ASSUME NEW s, NEW e, NEW fleet, NEW o, Len(o) \in Nat, NEW q, NEW now
  PROVE  \E f : /\ Loop(f, s, e, fleet, o, q)
                /\ Attempts(s, e, fleet, o, q, now) = AnsweredOn(f, e, fleet, o, q, now) \union GivenUp(f, fleet, o, q)
<1> DEFINE More(T, i) == UNION {Failing(t, e, fleet, o[i], q) : t \in {t \in T : ~Final(t, q)}}
           Body(p, i) == IF i = 0 THEN {s} ELSE More(p[i - 1], i)
           N == {n \in Nat : \E p : p = [i \in 0..n |-> Body(p, i)]}
<1>1. 0 \in N
  <2> DEFINE p == [i \in 0..0 |-> {s}]
  <2>1. p = [i \in 0..0 |-> Body(p, i)]
    OBVIOUS
  <2> QED
    BY <2>1
<1>2. ASSUME NEW n \in 1..Len(o), n - 1 \in N
      PROVE  n \in N
  <2>1. PICK p : p = [i \in 0..(n - 1) |-> Body(p, i)]
    BY <1>2
  <2> DEFINE r == [i \in 0..n |-> IF i = n THEN Body(p, n) ELSE p[i]]
  <2>2. \A i \in 0..n : r[i] = Body(r, i)
    <3> HIDE DEF More
    <3> SUFFICES ASSUME NEW i \in 0..n PROVE r[i] = Body(r, i)
      OBVIOUS
    <3>1. CASE i = 0
      BY <2>1, <3>1
    <3>2. CASE i # 0
      <4>1. i - 1 \in 0..(n - 1) /\ i - 1 \in 0..n /\ i - 1 # n
        BY <3>2
      <4>2. r[i - 1] = p[i - 1]
        BY <4>1
      <4>3. i # n => i \in 0..(n - 1)
        OBVIOUS
      <4>4. i # n => r[i] = p[i] /\ p[i] = Body(p, i)
        BY <2>1, <4>3
      <4>5. i = n => r[i] = Body(p, i)
        OBVIOUS
      <4>6. r[i] = Body(p, i)
        BY <4>4, <4>5
      <4> QED
        BY <4>2, <4>6
    <3> QED
      BY <3>1, <3>2
  <2>3. r = [i \in 0..n |-> Body(r, i)]
    BY <2>2
  <2>4. n \in Nat
    OBVIOUS
  <2>5. \E u : u = [i \in 0..n |-> Body(u, i)]
    BY <2>3
  <2> QED
    BY <2>4, <2>5
<1>3. Len(o) \in N
  <2> HIDE DEF N
  <2>1. \A i \in 1..Len(o) : i - 1 \in N => i \in N
    BY <1>2
  <2>2. 0..Len(o) \subseteq N
    BY <1>1, <2>1, UpTo
  <2> QED
    BY <2>2
<1>4. PICK p : p = [i \in 0..Len(o) |-> Body(p, i)]
  BY <1>3
<1> DEFINE failed == CHOOSE u : u = [i \in 0..Len(o) |-> Body(u, i)]
<1>5. failed = [i \in 0..Len(o) |-> Body(failed, i)]
  BY <1>4
<1>6. Attempts(s, e, fleet, o, q, now) = AnsweredOn(failed, e, fleet, o, q, now) \union GivenUp(failed, fleet, o, q)
  BY DEF Attempts
<1>7. Loop(failed, s, e, fleet, o, q)
  BY <1>5 DEF Loop
<1> HIDE DEF failed
<1> QED
  BY <1>6, <1>7

LEMMA AttemptsIs ==
  ASSUME NEW s, NEW q, Wellformed(q), NEW e, Wanted(e, q), Going(s, e), NEW fleet, NEW o \in Seq(ToSet(Names)), NEW now \in Nat,
         NEW a \in Attempts(s, e, fleet, o, q, now)
  PROVE  Proper(a, q, fleet) /\ (o # <<>> => Served(a))
<1>1. Len(o) \in Nat /\ \A i \in 1..Len(o) : o[i] \in ToSet(Names)
  OBVIOUS
<1>2. e \in SoundEntries
  BY DEF Wanted
<1>3. PICK f : /\ Loop(f, s, e, fleet, o, q)
               /\ Attempts(s, e, fleet, o, q, now) = AnsweredOn(f, e, fleet, o, q, now) \union GivenUp(f, fleet, o, q)
  BY <1>1, AttemptsAre
<1> DEFINE S == {i \in 0..Len(o) : \A t \in f[i] : Going(t, e) /\ (i # 0 => HadFailed(t))}
<1>4. 0 \in S
  <2>1. f[0] = {s} /\ 0 \in 0..Len(o)
    BY <1>1, <1>3 DEF Loop
  <2> QED
    BY <2>1
<1>5. ASSUME NEW i \in 1..Len(o), i - 1 \in S
      PROVE  i \in S
  <2>1. i \in 0..Len(o) /\ i - 1 \in 0..Len(o) /\ i # 0
    BY <1>1
  <2>2. f[i] = UNION {Failing(t, e, fleet, o[i], q) : t \in {t \in f[i - 1] : ~Final(t, q)}}
    BY <1>3, <2>1 DEF Loop
  <2>3. \A t \in f[i - 1] : Going(t, e)
    BY <1>5
  <2>4. \A t \in f[i] : \E u \in f[i - 1] : t \in Failing(u, e, fleet, o[i], q)
    BY <2>2
  <2>5. \A t \in f[i] : Going(t, e) /\ HadFailed(t)
    BY <1>2, <2>3, <2>4, FailingGoes
  <2> QED
    BY <2>1, <2>5
<1>6. 0..Len(o) \subseteq S
  <2> HIDE DEF S
  <2>1. \A i \in 1..Len(o) : i - 1 \in S => i \in S
    BY <1>5
  <2> QED
    BY <1>1, <1>4, <2>1, UpTo
<1>7. \A i \in 0..Len(o) : \A t \in f[i] : Going(t, e) /\ (i # 0 => HadFailed(t))
  BY <1>6
<1> HIDE DEF S
<1>8. ASSUME NEW i \in 1..Len(o), NEW t \in f[i - 1], a \in Answering(t, e, fleet, o[i], q, now)
      PROVE  Proper(a, q, fleet) /\ Served(a)
  <2>1. i - 1 \in 0..Len(o) /\ o[i] \in ToSet(Names)
    BY <1>1
  <2>2. Going(t, e)
    BY <1>7, <2>1
  <2> QED
    BY <1>8, <2>1, <2>2, AnsweringIs
<1>9. ASSUME NEW i \in 0..Len(o), NEW t \in f[i], a \in Exhausted(t, fleet, q)
      PROVE  Proper(a, q, fleet) /\ (i # 0 => Served(a))
  <2>1. Open(t) /\ (i # 0 => HadFailed(t))
    BY <1>7 DEF Going
  <2> QED
    BY <1>9, <2>1, ExhaustedIs
<1>10. CASE a \in AnsweredOn(f, e, fleet, o, q, now)
  <2>1. PICK i \in 1..Len(o) : \E t \in f[i - 1] : a \in Answering(t, e, fleet, o[i], q, now)
    BY <1>10 DEF AnsweredOn
  <2> QED
    BY <1>8, <2>1
<1>11. CASE a \in GivenUp(f, fleet, o, q)
  <2>1. PICK t \in f[Len(o)] \union {t \in UNION {f[i] : i \in 1..Len(o)} : Final(t, q)} : a \in Exhausted(t, fleet, q)
    BY <1>11 DEF GivenUp
  <2>2. CASE t \in f[Len(o)]
    <3>1. o # <<>> => Len(o) # 0
      OBVIOUS
    <3> QED
      BY <1>1, <1>9, <2>1, <2>2, <3>1
  <2>3. CASE \E i \in 1..Len(o) : t \in f[i]
    <3>1. PICK i \in 1..Len(o) : t \in f[i]
      BY <2>3
    <3>2. i \in 0..Len(o) /\ i # 0
      BY <1>1
    <3> QED
      BY <1>9, <2>1, <3>1, <3>2
  <2> QED
    BY <2>1, <2>2, <2>3
<1> QED
  BY <1>3, <1>10, <1>11

-----------------------------------------------------------------------------
(* Workers in some order *)

LEMMA NamesFinite == IsFiniteSet(ToSet(Names))
<1>1. Names \in Seq(STRING)
  BY FleetAssumption
<1>2. Len(Names) \in Nat /\ DOMAIN Names = 1..Len(Names) /\ Names \in [1..Len(Names) -> ToSet(Names)]
  BY <1>1 DEF ToSet
<1>3. Names \in Surjection(1..Len(Names), ToSet(Names))
  BY <1>2 DEF Surjection, ToSet
<1>4. IsFiniteSet(1..Len(Names))
  BY <1>2, FS_Interval
<1> QED
  BY <1>3, <1>4, FS_Surjection

LEMMA AbleAre ==
  ASSUME NEW fleet \in Fleets, NEW q, Wellformed(q), NEW fallback \in BOOLEAN
  PROVE  Able(fleet, q, fallback) \in SUBSET ToSet(Names)
<1>1. DOMAIN fleet = ToSet(Names)
  BY FleetAssumption
<1>2. q.worker = "none" \/ q.worker \in ToSet(Names)
  BY DEF Wellformed
<1> QED
  BY <1>1, <1>2 DEF Able

LEMMA OrdersAre ==
  ASSUME NEW fleet \in Fleets, NEW q, Wellformed(q), NEW fallback \in BOOLEAN, NEW o \in Orders(fleet, q, fallback)
  PROVE  /\ o \in Seq(ToSet(Names))
         /\ Able(fleet, q, fallback) # {} => o # <<>>
         /\ o # <<>> => o[1] \in ToSet(Names)
<1> DEFINE S == Able(fleet, q, fallback)
<1>3. S \in SUBSET ToSet(Names)
  BY AbleAre
<1>4. IsFiniteSet(S)
  BY <1>3, NamesFinite, FS_Subset
<1>5. Cardinality(S) \in Nat /\ (S # {} => Cardinality(S) # 0)
  BY <1>4, FS_CardinalityType, FS_EmptySet
<1>6. Orders(fleet, q, fallback) = SetToSeqs(S)
  BY DEF Orders
<1> HIDE DEF S
<1>7. o \in [1..Cardinality(S) -> S]
  BY <1>6 DEF SetToSeqs
<1>8. o \in [1..Cardinality(S) -> ToSet(Names)]
  BY <1>3, <1>7
<1>9. o \in Seq(ToSet(Names)) /\ Len(o) = Cardinality(S)
  BY <1>5, <1>8
<1>10. o # <<>> => o[1] \in ToSet(Names)
  BY <1>9
<1>11. S # {} => o # <<>>
  BY <1>5, <1>9
<1> QED
  BY <1>9, <1>10, <1>11 DEF S

-----------------------------------------------------------------------------
(* Builds *)

LEMMA KeyIs ==
  ASSUME NEW fleet \in Fleets, NEW n \in ToSet(Names), NEW q, Wellformed(q)
  PROVE  LET r == Runtime(fleet[n].row) IN
         r \in Runtimes /\ KeyOf(q.id, q.prefix, q.policy, r) \in Keys /\ KeyOf(q.id, q.prefix, q.policy, r) # "none"
<1> DEFINE r == Runtime(fleet[n].row)
           m == <<q.id, q.prefix, q.policy>>
<1>1. m \in Material /\ m[1] = q.id /\ m[2] = q.prefix /\ m[3] = q.policy
  BY DEF Wellformed
<1>2. r \in Runtimes
  BY DEF Runtimes
<1> HIDE DEF r, m
<1>3. KeyOf(m[1], m[2], m[3], r) \in Keys
  BY <1>1, <1>2 DEF Keys
<1>4. KeyOf(m[1], m[2], m[3], r) # "none"
  BY <1>1, <1>2, HashAssumption
<1> QED
  BY <1>1, <1>2, <1>3, <1>4 DEF r

LEMMA PublishIs ==
  ASSUME NEW rs \in Registries, NEW fleet \in Fleets, NEW n \in ToSet(Names), Strict(Runtime(fleet[n].row)),
         NEW q, Wellformed(q), NEW ks, NEW now \in Nat
  PROVE  Publish(rs, fleet, n, q, ks, now) \in Registries
<1> DEFINE r == Runtime(fleet[n].row)
           k == KeyOf(q.id, q.prefix, q.policy, r)
           e == [id |-> q.id, key |-> k, policy |-> q.policy, prefix |-> q.prefix, runtime |-> r, status |-> "validated",
                 used |-> 0, created |-> now, on |-> {n}, blob |-> "whole", elsewhere |-> "none", encryption |-> Unencrypted]
<1>1. r \in Runtimes /\ k \in Keys
  BY KeyIs
<1>2. <<q.id, q.prefix, q.policy>> \in Material
  BY DEF Wellformed
<1>3. q.id \in Ids /\ q.prefix \in Prompts /\ q.policy \in Policies
  BY <1>2 DEF Ids, Prompts, Policies
<1>4. k = KeyOf(q.id, q.prefix, q.policy, r) /\ Strict(r)
  OBVIOUS
<1> HIDE DEF r, k
<1>5. e \in Entries
  BY <1>1, <1>3 DEF Entries
<1>7. e \in SoundEntries
  BY <1>2, <1>4, <1>5 DEF SoundEntries
<1>6. e.id = q.id /\ e.key = k /\ e.policy = q.policy
  OBVIOUS
<1> HIDE DEF e
<1> DEFINE kept == {i \in DOMAIN rs : ~(rs[i].id = q.id /\ PolicyDenial(q.policy, rs[i]) = "none" /\ rs[i].key \in ks \union {k})}
<1>8. Publish(rs, fleet, n, q, ks, now) = Append(Picked(rs, kept), e)
  BY DEF Publish, e, k, r
<1>9. \A i \in kept : rs[i].id = e.id /\ rs[i].key = e.key => PolicyDenial(e.policy, rs[i]) # "none"
  BY <1>6
<1> HIDE DEF kept
<1>10. rs \in Seq(SoundEntries) /\ Apart(rs)
  BY DEF Registries
<1>11. Picked(rs, kept) \in Seq(SoundEntries)
  BY <1>10, PickedFrom
<1> DEFINE P == Picked(rs, kept)
           new == Append(P, e)
<1>12. PICK f \in [DOMAIN P -> DOMAIN rs] : /\ \A h \in DOMAIN P : f[h] \in kept /\ rs[f[h]] = P[h]
                                            /\ \A h, l \in DOMAIN P : h < l => f[h] < f[l]
  BY <1>10, PickedPlaces
<1> HIDE DEF P
<1>13. /\ new \in Seq(SoundEntries) /\ DOMAIN new = 1..(Len(P) + 1) /\ new[Len(P) + 1] = e
       /\ \A i \in 1..Len(P) : new[i] = P[i]
       /\ DOMAIN P = 1..Len(P) /\ Len(P) \in Nat
  BY <1>7, <1>11 DEF P
<1> HIDE DEF new
<1>14. ASSUME NEW i \in DOMAIN new, NEW j \in DOMAIN new, i < j, new[i].id = new[j].id, new[i].key = new[j].key
       PROVE  PolicyDenial(new[j].policy, new[i]) # "none"
  <2>1. i \in DOMAIN P /\ new[i] = P[i]
    BY <1>13, <1>14
  <2>2. f[i] \in kept /\ rs[f[i]] = new[i]
    BY <1>12, <2>1
  <2>3. CASE j = Len(P) + 1
    BY <1>9, <1>13, <1>14, <2>2, <2>3
  <2>4. CASE j # Len(P) + 1
    <3>1. j \in DOMAIN P /\ new[j] = P[j]
      BY <1>13, <2>4
    <3>2. f[j] \in DOMAIN rs /\ rs[f[j]] = new[j] /\ f[i] < f[j] /\ f[i] \in DOMAIN rs
      BY <1>12, <1>14, <2>1, <3>1
    <3> QED
      BY <1>10, <1>14, <2>2, <3>2 DEF Apart
  <2> QED
    BY <2>3, <2>4
<1>15. new \in Registries
  BY <1>13, <1>14 DEF Registries, Apart
<1> QED
  BY <1>8, <1>15 DEF new, P

LEMMA BuildOnIs ==
  ASSUME NEW s, Open(s), NEW fleet \in Fleets, NEW n \in ToSet(Names), Strict(Runtime(fleet[n].row)),
         NEW q, Wellformed(q), NEW refresh, NEW ks, NEW now \in Nat
  PROVE  Open(BuildOn(s, fleet, n, q, refresh, ks, now))
<1> DEFINE k == KeyOf(q.id, q.prefix, q.policy, Runtime(fleet[n].row))
           x == CommittedEvent(k, n)
           o == Told(s, x)
<1>1. k # "none"
  BY KeyIs
<1> HIDE DEF k
<1>2. Silent(x)
  BY <1>1, Committed
<1> HIDE DEF x
<1>3. Open(o) /\ o.rows = s.rows
  BY <1>2, OpenTold
<1> HIDE DEF o
<1>4. CASE BuildOn(s, fleet, n, q, refresh, ks, now) = [s EXCEPT !.key = k]
  BY <1>4 DEF Open, Fields
<1>5. CASE BuildOn(s, fleet, n, q, refresh, ks, now) = [o EXCEPT !.key = k, !.rows = Publish(@, fleet, n, q, ks, now)]
  <2>1. Publish(o.rows, fleet, n, q, ks, now) \in Registries
    BY <1>3, PublishIs DEF Open
  <2> QED
    BY <1>3, <1>5, <2>1 DEF Open, Fields
<1> QED
  BY <1>4, <1>5 DEF BuildOn, o, x, k

LEMMA BuiltIs ==
  ASSUME NEW s, Open(s), NEW fleet \in Fleets, NEW q, Wellformed(q), NEW refresh, NEW ks, NEW now \in Nat,
         NEW t \in Built(s, fleet, q, refresh, ks, now)
  PROVE  Open(t)
<1>1. PICK n \in Able(fleet, q, FALSE) : Strict(Runtime(fleet[n].row)) /\ t = BuildOn(s, fleet, n, q, refresh, ks, now)
  BY DEF Built
<1>2. n \in ToSet(Names)
  BY <1>1, AbleAre
<1> QED
  BY <1>1, <1>2, BuildOnIs

-----------------------------------------------------------------------------
(* A request that uses the cache *)

\* An answer that was not restored and denies or fails to find something.
LEMMA EndedIs ==
  ASSUME NEW s, Open(s), NEW status, status # "ok", NEW q, NEW fleet
  PROVE  Proper(Ended(s, status), q, fleet)
<1>1. LET a == Ended(s, status) IN Honest(a) /\ ~a.restored /\ a.status = status
  BY OpenEnded
<1> QED
  BY <1>1 DEF Proper, Explained, Right

LEMMA DeniedIs ==
  ASSUME NEW s, Open(s), NEW denial, denial # "none", NEW k, NEW q, NEW fleet
  PROVE  /\ Proper(Ended(Told(s, DeniedEvent(denial, k)), "denied"), q, fleet)
         /\ Proper(Ended(Told(Told(s, DeniedEvent(denial, k)), MissEvent(k)), "not_found"), q, fleet)
<1> DEFINE d == DeniedEvent(denial, k)
           m == MissEvent(k)
           t == Told(s, d)
           u == Told(t, m)
           a == Ended(u, "not_found")
<1>1. Valid(d) /\ ~TellsRestore(d)
  BY Denied
<1>2. Valid(m) /\ ~TellsRestore(m)
  BY MissedEvent DEF Silent
<1> HIDE DEF d, m
<1>3. DOMAIN s = Fields /\ Trail(s.events) /\ s.rows \in Registries /\ s.restored = FALSE
  BY DEF Open
<1>4. DOMAIN t = Fields /\ t.events = Append(s.events, d) /\ t.rows = s.rows /\ t.restored = FALSE
  BY <1>3, ToldIs
<1>5. Trail(t.events) /\ ToSet(t.events) = ToSet(s.events) \union {d}
  BY <1>3, <1>4, TrailGrows
<1> HIDE DEF t
<1>6. DOMAIN u = Fields /\ u.events = Append(t.events, m) /\ u.rows = s.rows /\ u.restored = FALSE
  BY <1>4, ToldIs
<1>7. Trail(u.events) /\ ToSet(u.events) = ToSet(s.events) \union {d, m}
  BY <1>5, <1>6, TrailGrows
<1> HIDE DEF u
<1>8. a.rows = s.rows /\ a.events = u.events /\ a.restored = FALSE /\ a.status = "not_found"
  BY <1>6 DEF Ended, Fields
<1>9. \A e \in ToSet(s.events) : Valid(e) /\ ~TellsRestore(e)
  BY DEF Open, Silent
<1> HIDE DEF a
<1>10. Proper(a, q, fleet)
  BY <1>1, <1>2, <1>3, <1>7, <1>8, <1>9 DEF Proper, Honest, Explained, Right
<1>11. LET b == Ended(Told(s, d), "denied") IN Honest(b) /\ ~b.restored /\ b.status = "denied"
  BY <1>1, DeniedEnded
<1>12. Proper(Ended(Told(s, d), "denied"), q, fleet)
  BY <1>11 DEF Proper, Explained, Right
<1> QED
  BY <1>10, <1>12 DEF a, u, t, d, m

LEMMA UnfitIs ==
  ASSUME NEW s, Open(s), NEW fleet, NEW q, NEW k, NEW kind \in {"quarantined", "model"}, NEW a \in Unfit(s, fleet, q, k, kind)
  PROVE  Proper(a, q, fleet)
<1> DEFINE x == RejectedEvent(k, IF kind = "model" THEN "cache_key_mismatch" ELSE "manifest_quarantined")
           t == [Told(s, x) EXCEPT !.tried = {kind}]
<1>1. Silent(x)
  BY Rejected, PassedIsSilent
<1> HIDE DEF x
<1>2. Open(Told(s, x))
  BY <1>1, OpenTold
<1>3. Open(t)
  BY <1>2 DEF Open, Fields
<1>4. a \in Exhausted(t, fleet, q)
  BY DEF Unfit, x
<1> HIDE DEF t
<1> QED
  BY <1>3, <1>4, ExhaustedIs

LEMMA MismatchedIs ==
  ASSUME NEW s, Open(s), NEW fleet, NEW q, NEW mayFallBack, NEW a \in Mismatched(s, fleet, q, mayFallBack)
  PROVE  Proper(a, q, fleet)
<1>1. CASE a \in Proxied(s, fleet, q, "cache_key_mismatch")
  <2>1. "cache_key_mismatch" \notin Retries \union {"policy_denied"}
    BY DEF Retries
  <2>2. Honest(a) /\ ~a.restored /\ Explained(a)
    BY <1>1, <2>1, ProxiedIs
  <2> QED
    BY <2>2 DEF Proper, Right
<1>2. CASE a = Ended(s, "not_found")
  BY <1>2, EndedIs
<1> QED
  BY <1>1, <1>2 DEF Mismatched

LEMMA MissedIs ==
  ASSUME NEW s, Open(s), NEW fleet, NEW q, NEW k, NEW a \in Missed(s, k)
  PROVE  Proper(a, q, fleet)
<1>1. Open(Told(s, MissEvent(k)))
  BY MissedEvent, OpenTold
<1> QED
  BY <1>1, EndedIs DEF Missed

LEMMA UseIs ==
  ASSUME NEW s0, Open(s0), NEW fleet \in Fleets, NEW q, Wellformed(q), NEW k, NEW now \in Nat, NEW a \in Use(s0, fleet, q, k, now)
  PROVE  /\ Proper(a, q, fleet)
         /\ /\ Ensure(s0.rows, q.id, q.policy, k) = "found"
            /\ s0.rows[FindEntry(s0.rows, q.id, {q.policy}, {k})].runtime.model = q.model
            /\ Able(fleet, q, q.fallback) # {}
            => Served(a)
<1> DEFINE s == [s0 EXCEPT !.key = k]
           rs == s0.rows
           i == FindEntry(rs, q.id, {q.policy}, {k})
           e == rs[i]
           filed == rs[FindEntry(rs, q.id, {q.policy}, {})].key
           other == rs[FindEntry(rs, q.id, {}, {k})]
           given == Ensure(rs, q.id, q.policy, k)
<1>1. Open(s) /\ s.rows = rs /\ s.key = k /\ rs \in Registries
  BY DEF Open, Fields
<1>2. a \in IF given = "denied" THEN Missed(Told(s, DeniedEvent(PolicyDenial(q.policy, other), k)), k)
            ELSE IF given = "miss" THEN Missed(s, k)
            ELSE IF given = "mismatch" THEN Mismatched(Told(s, MismatchEvent(k, filed)), fleet, q, TRUE)
            ELSE IF given = "quarantined" THEN Unfit(s, fleet, q, k, "quarantined")
            ELSE IF e.runtime.model # q.model THEN Unfit(s, fleet, q, k, "model")
            ELSE UNION {Attempts(s, e, fleet, o, q, now) : o \in Orders(fleet, q, q.fallback)}
  BY <1>1 DEF Use
<1> HIDE DEF s
<1>3. i # 0 => i \in DOMAIN rs /\ e.key = k /\ Wanted(e, q)
  <2>1. i # 0 => i \in Found(rs, q.id, {q.policy}, {k})
    BY <1>1, FindEntryIs
  <2>2. i # 0 => i \in DOMAIN rs /\ e.id = q.id /\ e.key = k /\ PolicyDenial(q.policy, e) = "none"
    BY <2>1 DEF Found
  <2> QED
    BY <1>1, <2>2, RegistryRow DEF Wanted
<1>4. CASE given = "denied"
  <2>1. FindEntry(rs, q.id, {q.policy}, {k}) = 0 /\ FindEntry(rs, q.id, {}, {k}) # 0
    BY <1>4 DEF Ensure
  <2>2. FindEntry(rs, q.id, {}, {k}) \in Found(rs, q.id, {}, {k})
    BY <1>1, <2>1, FindEntryIs
  <2>3. Found(rs, q.id, {q.policy}, {k}) = {}
    BY <1>1, <2>1, FindEntryIs
  <2>4. PolicyDenial(q.policy, other) # "none"
    BY <2>2, <2>3 DEF Found
  <2>5. a = Ended(Told(Told(s, DeniedEvent(PolicyDenial(q.policy, other), k)), MissEvent(k)), "not_found")
    BY <1>2, <1>4 DEF Missed
  <2> HIDE DEF given, other, e
  <2> QED
    BY <1>1, <1>4, <2>4, <2>5, DeniedIs DEF given
<1>5. CASE given = "miss"
  <2>1. a \in Missed(s, k)
    BY <1>2, <1>5
  <2> QED
    BY <1>1, <1>5, <2>1, MissedIs
<1>6. CASE given = "mismatch"
  <2>1. a \in Mismatched(Told(s, MismatchEvent(k, filed)), fleet, q, TRUE)
    BY <1>2, <1>6
  <2>2. Open(Told(s, MismatchEvent(k, filed)))
    BY <1>1, OtherKey, PassedIsSilent, OpenTold
  <2> QED
    BY <1>6, <2>1, <2>2, MismatchedIs
<1>7. CASE given = "quarantined"
  <2>1. a \in Unfit(s, fleet, q, k, "quarantined")
    BY <1>2, <1>7
  <2> QED
    BY <1>1, <1>7, <2>1, UnfitIs
<1>8. CASE given = "found" /\ e.runtime.model # q.model
  <2>1. a \in Unfit(s, fleet, q, k, "model")
    BY <1>2, <1>8
  <2> QED
    BY <1>1, <1>8, <2>1, UnfitIs
<1>9. CASE given = "found" /\ e.runtime.model = q.model
  <2>1. i # 0
    BY <1>9 DEF Ensure
  <2>2. PICK o \in Orders(fleet, q, q.fallback) : a \in Attempts(s, e, fleet, o, q, now)
    <3>1. a \in UNION {Attempts(s, e, fleet, o, q, now) : o \in Orders(fleet, q, q.fallback)}
      BY <1>2, <1>9
    <3> QED
      BY <3>1
  <2>3. e \in ToSet(s.rows)
    BY <1>1, <1>3, <2>1 DEF ToSet
  <2>4. Going(s, e) /\ Wanted(e, q)
    BY <1>1, <1>3, <2>1, <2>3 DEF Going, Holds, SameEntry
  <2>5. q.fallback \in BOOLEAN
    BY DEF Wellformed
  <2>6. o \in Seq(ToSet(Names)) /\ (Able(fleet, q, q.fallback) # {} => o # <<>>)
    BY <2>2, <2>5, OrdersAre
  <2> HIDE DEF e
  <2> QED
    BY <2>2, <2>4, <2>6, AttemptsIs
<1>10. given \in {"denied", "miss", "mismatch", "quarantined", "found"}
  BY DEF Ensure
<1> QED
  BY <1>4, <1>5, <1>6, <1>7, <1>8, <1>9, <1>10

-----------------------------------------------------------------------------
(* The key a lookup goes on with *)

LEMMA OrderedIs ==
  ASSUME NEW fleet \in Fleets, NEW q, Wellformed(q)
  PROVE  LET o == Ordered(fleet, Names, q) IN
         /\ o \in Seq(ToSet(Names))
         /\ \A n \in ToSet(o) : /\ n \in ToSet(Names) /\ fleet[n].row.model = q.model
                                /\ q.worker # "none" /\ ~q.fallback => n = q.worker
<1> DEFINE others == IF q.worker = "none" \/ q.fallback THEN Picked(Names, {i \in DOMAIN Names : Names[i] # q.worker}) ELSE <<>>
           all == IF q.worker = "none" THEN Names ELSE <<q.worker>> \o others
           o == Picked(all, {i \in DOMAIN all : fleet[all[i]].row.model = q.model})
<1>1. Ordered(fleet, Names, q) = o
  BY DEF Ordered
<1>2. Names \in Seq(ToSet(Names))
  <2>1. Names \in Seq(STRING)
    BY FleetAssumption
  <2> QED
    BY <2>1 DEF ToSet
<1>3. others \in Seq(ToSet(Names))
  BY <1>2, PickedFrom
<1>4. q.worker # "none" => q.worker \in ToSet(Names)
  BY DEF Wellformed
<1>5. q.worker # "none" /\ ~q.fallback => others = <<>>
  OBVIOUS
<1> HIDE DEF others
<1>6. all \in Seq(ToSet(Names))
  <2>1. q.worker # "none" => <<q.worker>> \in Seq(ToSet(Names))
    BY <1>4
  <2>2. q.worker # "none" => <<q.worker>> \o others \in Seq(ToSet(Names))
    BY <1>3, <2>1, ConcatProperties
  <2> QED
    BY <1>2, <2>2
<1>7. q.worker # "none" /\ ~q.fallback => \A i \in DOMAIN all : all[i] = q.worker
  <2>0. q.worker # "none" => <<q.worker>> \in Seq(ToSet(Names))
    BY <1>4
  <2>1. q.worker # "none" /\ ~q.fallback => all = <<q.worker>>
    BY <1>5, <2>0, ConcatEmptySeq
  <2> HIDE DEF all
  <2> QED
    BY <2>1
<1> HIDE DEF all
<1>8. o \in Seq(ToSet(Names)) /\ \A n : (\E i \in DOMAIN o : o[i] = n) <=> (\E i \in DOMAIN all : fleet[all[i]].row.model = q.model /\ all[i] = n)
  <2> DEFINE I == {i \in DOMAIN all : fleet[all[i]].row.model = q.model}
  <2>1. /\ Picked(all, I) \in Seq(ToSet(Names))
        /\ \A n : (\E i \in DOMAIN Picked(all, I) : Picked(all, I)[i] = n) <=> (\E i \in DOMAIN all : i \in I /\ all[i] = n)
    <3> HIDE DEF I
    <3> QED
      BY <1>6, PickedFrom
  <2>2. \A i \in DOMAIN all : i \in I <=> fleet[all[i]].row.model = q.model
    OBVIOUS
  <2>3. o = Picked(all, I)
    OBVIOUS
  <2> HIDE DEF I, o
  <2> QED
    BY <2>1, <2>2, <2>3
<1> HIDE DEF o
<1>9. ASSUME NEW n \in ToSet(o)
      PROVE  n \in ToSet(Names) /\ fleet[n].row.model = q.model /\ (q.worker # "none" /\ ~q.fallback => n = q.worker)
  <2>1. \E i \in DOMAIN o : o[i] = n
    BY DEF ToSet
  <2>2. PICK i \in DOMAIN all : fleet[all[i]].row.model = q.model /\ all[i] = n
    BY <1>8, <2>1
  <2> QED
    BY <1>6, <1>7, <2>2
<1> QED
  BY <1>1, <1>8, <1>9

\* A worker that fits an entry derives the entry's key.
LEMMA SameKey ==
  ASSUME NEW q, Wellformed(q), NEW e, Wanted(e, q), e.prefix = q.prefix, NEW r \in Runtimes, Fits(e, r)
  PROVE  KeyOf(q.id, q.prefix, q.policy, r) = e.key
<1>1. /\ e.policy.scope = q.policy.scope /\ e.policy.tenant = q.policy.tenant /\ e.policy.rule = q.policy.rule
      /\ e.policy.scope = "conversation" => e.policy.conversation = q.policy.conversation
  BY PolicyFits
<1>2. e.key = KeyOf(e.id, e.prefix, e.policy, e.runtime) /\ e.id = q.id
  BY DEF Wanted, SoundEntries
<1>3. /\ e.runtime.model = r.model /\ e.runtime.build = r.build /\ e.runtime.mtp = r.mtp
      /\ DraftKey(e.runtime) = DraftKey(r) /\ (r.mtp => e.runtime.draftName = r.draftName)
  BY DEF Fits
<1>4. r.mtp \in BOOLEAN /\ (~r.mtp => r.draftName = "none") /\ (~e.runtime.mtp => e.runtime.draftName = "none")
  BY RuntimeIs, EntryIs DEF Wanted
<1>5. e.runtime.draftName = r.draftName
  BY <1>3, <1>4
<1> QED
  BY <1>1, <1>2, <1>3, <1>5 DEF KeyOf, KeyFields

\* k is the key of what request q asks for, on some worker of the model it names.
Derivable(q, k) == \E r \in Runtimes : r.model = q.model /\ k = KeyOf(q.id, q.prefix, q.policy, r)

\* The keys derived for request q on a fleet in which the workers of mute count no
\* tokens, and the one of them that is looked for.
Derived(fleet, q, mute) ==
  LET o == Ordered(fleet, Names, q)
  IN KeyCandidates([i \in DOMAIN o |-> Runtime(fleet[o[i]].row)], {i \in DOMAIN o : o[i] \notin mute}, q.id, q.prefix, q.policy)

Sought(rs, fleet, q, mute) ==
  LET o == Ordered(fleet, Names, q)
  IN KeyFor(rs, [i \in DOMAIN o |-> Runtime(fleet[o[i]].row)], {i \in DOMAIN o : o[i] \notin mute}, q.id, q.prefix, q.policy)

\* A lookup without a key goes on with one that is filed, of a worker that serves the model, if any is.
LEMMA KeyForIs ==
  ASSUME NEW rs \in Registries, NEW fleet \in Fleets, NEW q, Wellformed(q), NEW e \in ToSet(rs), Wanted(e, q), e.prefix = q.prefix,
         NEW mute, NEW n \in ToSet(Ordered(fleet, Names, q)) \ mute, Fits(e, Runtime(fleet[n].row))
  PROVE  /\ Derived(fleet, q, mute) # <<>>
         /\ FindEntry(rs, q.id, {q.policy}, {Sought(rs, fleet, q, mute)}) # 0
         /\ Derivable(q, Sought(rs, fleet, q, mute))
<1> DEFINE o == Ordered(fleet, Names, q)
           R == [i \in DOMAIN o |-> Runtime(fleet[o[i]].row)]
           told == {i \in DOMAIN o : o[i] \notin mute}
           S == Picked(R, {i \in told : Strict(R[i])})
           C == KeyCandidates(R, told, q.id, q.prefix, q.policy)
           k == KeyFor(rs, R, told, q.id, q.prefix, q.policy)
           filed == {i \in DOMAIN C : FindEntry(rs, q.id, {q.policy}, {C[i]}) # 0}
           T == {r \in Runtimes : r.model = q.model}
<1>1. o \in Seq(ToSet(Names)) /\ \A w \in ToSet(o) : w \in ToSet(Names) /\ fleet[w].row.model = q.model
  BY OrderedIs
<1>2. n \in ToSet(o) /\ n \notin mute
  OBVIOUS
<1>3. C = [i \in DOMAIN S |-> KeyOf(q.id, q.prefix, q.policy, S[i])]
  BY DEF KeyCandidates
<1>4. k = IF filed = {} THEN C[1] ELSE C[CHOOSE i \in filed : \A j \in filed : i <= j]
  BY DEF KeyFor
<1> HIDE DEF o, C, k
<1>5. \A w \in ToSet(o) : Runtime(fleet[w].row) \in T
  BY <1>1 DEF Runtimes, Runtime
<1> HIDE DEF T
<1>6. DOMAIN o = 1..Len(o) /\ Len(o) \in Nat
  BY <1>1
<1>7. R \in [1..Len(o) -> T]
  BY <1>5, <1>6 DEF ToSet
<1>8. R \in Seq(T)
  BY <1>6, <1>7
<1>9. PICK h \in DOMAIN R : R[h] = Runtime(fleet[n].row) /\ h \in told
  BY <1>2 DEF ToSet
<1>20. told \subseteq DOMAIN R
  OBVIOUS
<1> HIDE DEF R, told
<1>10. Strict(R[h])
  BY <1>9 DEF Fits
<1>11. /\ S \in Seq(T)
       /\ \A j \in told : Strict(R[j]) => \E i \in DOMAIN S : S[i] = R[j]
  <2> DEFINE I == {i \in told : Strict(R[i])}
  <2>1. S = Picked(R, I) /\ I \subseteq DOMAIN R /\ \A i \in told : Strict(R[i]) => i \in I
    BY <1>20
  <2> HIDE DEF I, S
  <2>2. /\ Picked(R, I) \in Seq(T)
        /\ \A i \in DOMAIN Picked(R, I) : \E j \in DOMAIN R : j \in I /\ R[j] = Picked(R, I)[i]
        /\ \A j \in DOMAIN R : j \in I => \E i \in DOMAIN Picked(R, I) : Picked(R, I)[i] = R[j]
    BY <1>8, PickedFrom
  <2> QED
    BY <1>20, <2>1, <2>2
<1> HIDE DEF S
<1>12. PICK g \in DOMAIN S : S[g] = Runtime(fleet[n].row)
  BY <1>9, <1>10, <1>11
<1>13. C[g] = e.key
  BY <1>2, <1>3, <1>5, <1>12, SameKey DEF T
<1>14. g \in filed
  <2>1. PICK p \in DOMAIN rs : rs[p] = e
    BY DEF ToSet
  <2>2. p \in Found(rs, q.id, {q.policy}, {C[g]})
    BY <1>13, <2>1 DEF Found, Wanted
  <2>3. FindEntry(rs, q.id, {q.policy}, {C[g]}) # 0
    BY <2>2, FindEntryIs
  <2> QED
    BY <1>3, <2>3
<1>15. filed \in SUBSET Nat
  BY <1>3, <1>11
<1>16. PICK i \in filed : k = C[i]
  <2> HIDE DEF filed
  <2>1. \E i \in filed : \A j \in filed : i <= j
    BY <1>14, <1>15, Least
  <2> QED
    BY <1>4, <1>14, <2>1
<1>17. FindEntry(rs, q.id, {q.policy}, {k}) # 0
  BY <1>16
<1>18. i \in DOMAIN S /\ k = KeyOf(q.id, q.prefix, q.policy, S[i]) /\ S[i] \in T
  BY <1>3, <1>11, <1>16
<1>19. C # <<>>
  <2>1. DOMAIN C # {}
    BY <1>3, <1>18
  <2> QED
    BY <2>1
<1> QED
  <2>1. Derivable(q, k)
    BY <1>18 DEF Derivable, T
  <2> QED
    BY <2>1, <1>17, <1>19 DEF k, C, R, o, told, Derived, Sought

-----------------------------------------------------------------------------
(* Any request *)

LEMMA BeganIs == \A rs \in Registries : Open(Began(rs)) /\ Began(rs).rows = rs
<1> SUFFICES ASSUME NEW rs \in Registries PROVE Open(Began(rs)) /\ Began(rs).rows = rs
  OBVIOUS
<1> DEFINE s == Began(rs)
<1>1. DOMAIN s = Fields /\ s.rows = rs /\ s.events = <<>> /\ s.restored = FALSE
  BY DEF Began, Fields
<1>2. ToSet(<<>>) = {} /\ Trail(<<>>)
  <2>1. <<>> \in Seq({})
    OBVIOUS
  <2> QED
    BY <2>1 DEF ToSet, Trail
<1> QED
  BY <1>1, <1>2 DEF Open

LEMMA OpenTrying ==
  ASSUME NEW s, Open(s), NEW words
  PROVE  Open([s EXCEPT !.tried = words])
BY DEF Open, Fields

LEMMA BuildingIs ==
  ASSUME NEW s, Open(s), NEW fleet \in Fleets, NEW q, Wellformed(q), NEW now \in Nat, NEW a \in Building(s, fleet, q, now)
  PROVE  Honest(a) /\ ~a.restored
<1> DEFINE given == IF q.mode = "refresh" /\ q.key # "none" THEN Ensure(s.rows, q.id, q.policy, q.key) ELSE "found"
           filed == s.rows[FindEntry(s.rows, q.id, {q.policy}, {})].key
           ks == IF q.mode = "refresh" THEN {q.key} ELSE {}
           B == Built(s, fleet, q, q.mode = "refresh", ks, now)
<1>1. \/ a \in Mismatched(Told(s, MismatchEvent(q.key, filed)), fleet, q, FALSE)
      \/ a = Ended(s, "denied")
      \/ a \in Missed(s, q.key)
      \/ a = Ended(s, "failed")
      \/ a = Ended([s EXCEPT !.tried = {"build"}], "failed")
      \/ \E t \in B : a = Ended(t, "ok")
  BY DEF Building
<1>2. CASE a \in Mismatched(Told(s, MismatchEvent(q.key, filed)), fleet, q, FALSE)
  <2>1. Open(Told(s, MismatchEvent(q.key, filed)))
    BY OtherKey, PassedIsSilent, OpenTold
  <2>2. a = Ended(Told(s, MismatchEvent(q.key, filed)), "not_found")
    BY <1>2 DEF Mismatched
  <2> QED
    BY <2>1, <2>2, OpenEnded
<1>3. CASE a = Ended(s, "denied") \/ a = Ended(s, "failed")
  BY <1>3, OpenEnded
<1>4. CASE a \in Missed(s, q.key)
  <2>1. Open(Told(s, MissEvent(q.key)))
    BY MissedEvent, OpenTold
  <2> QED
    BY <1>4, <2>1, OpenEnded DEF Missed
<1>5. CASE \E t \in B : a = Ended(t, "ok")
  <2>1. PICK t \in B : a = Ended(t, "ok")
    BY <1>5
  <2>2. Open(t)
    BY BuiltIs
  <2> QED
    BY <2>1, <2>2, OpenEnded
<1>6. CASE a = Ended([s EXCEPT !.tried = {"build"}], "failed")
  BY <1>6, OpenTrying, OpenEnded
<1> QED
  BY <1>1, <1>2, <1>3, <1>4, <1>5, <1>6

LEMMA UnderivableIs ==
  ASSUME NEW s, Open(s), NEW fleet, NEW q, NEW ns, NEW a \in Underivable(s, fleet, q, ns)
  PROVE  Proper(a, q, fleet)
<1>1. PICK words : a \in Exhausted([s EXCEPT !.tried = words], fleet, q)
  BY DEF Underivable
<1>2. Open([s EXCEPT !.tried = words])
  BY OpenTrying
<1> QED
  BY <1>1, <1>2, ExhaustedIs

LEMMA BuildFailedIs ==
  ASSUME NEW s, Open(s), NEW fleet, NEW q, NEW a \in BuildFailed(s, fleet, q)
  PROVE  Proper(a, q, fleet)
<1>1. PICK words : a \in Exhausted([s EXCEPT !.tried = {"build"} \union words], fleet, q)
  BY DEF BuildFailed
<1>2. Open([s EXCEPT !.tried = {"build"} \union words])
  BY OpenTrying
<1> QED
  BY <1>1, <1>2, ExhaustedIs

LEMMA BuildThenUseIs ==
  ASSUME NEW s, Open(s), NEW fleet \in Fleets, NEW q, Wellformed(q), NEW now \in Nat, NEW a \in BuildThenUse(s, fleet, q, now)
  PROVE  Proper(a, q, fleet)
<1> DEFINE told == Told(s, ToBuildEvent)
           built == Built(told, fleet, q, FALSE, {}, now)
<1>1. Open(told)
  BY ToBuild, PassedIsSilent, OpenTold
<1>2. a \in BuildFailed(told, fleet, q) \/ \E t \in built : a \in Use(t, fleet, q, t.key, now)
  BY DEF BuildThenUse
<1> HIDE DEF told
<1>3. CASE a \in BuildFailed(told, fleet, q)
  BY <1>1, <1>3, BuildFailedIs
<1>4. CASE \E t \in built : a \in Use(t, fleet, q, t.key, now)
  <2>1. PICK t \in built : a \in Use(t, fleet, q, t.key, now)
    BY <1>4
  <2>2. Open(t)
    BY <1>1, BuiltIs
  <2> QED
    BY <2>1, <2>2, UseIs
<1> QED
  BY <1>2, <1>3, <1>4

\* Among the rows rs there is an entry that serves request q on a worker not mute, and none of its id is quarantined.
Servable(rs, fleet, mute, q) ==
  /\ \E e \in ToSet(rs) : /\ e.id = q.id /\ e.prefix = q.prefix /\ PolicyDenial(q.policy, e) = "none"
                          /\ \E n \in ToSet(Ordered(fleet, Names, q)) \ mute : fleet[n].ready /\ Fits(e, Runtime(fleet[n].row))
  /\ ~\E e \in ToSet(rs) : e.id = q.id /\ Quarantined(e)

\* With an entry to serve from, the key that is looked for is filed.
LEMMA KeyServes ==
  ASSUME NEW rs \in Registries, NEW fleet \in Fleets, NEW q, Wellformed(q), NEW mute, Servable(rs, fleet, mute, q)
  PROVE  /\ Derived(fleet, q, mute) # <<>>
         /\ FindEntry(rs, q.id, {q.policy}, {Sought(rs, fleet, q, mute)}) # 0
         /\ Derivable(q, Sought(rs, fleet, q, mute))
<1>1. PICK e \in ToSet(rs) : /\ e.id = q.id /\ e.prefix = q.prefix /\ PolicyDenial(q.policy, e) = "none"
                            /\ \E n \in ToSet(Ordered(fleet, Names, q)) \ mute : fleet[n].ready /\ Fits(e, Runtime(fleet[n].row))
  BY DEF Servable
<1>2. PICK n \in ToSet(Ordered(fleet, Names, q)) \ mute : fleet[n].ready /\ Fits(e, Runtime(fleet[n].row))
  BY <1>1
<1>3. e \in SoundEntries
  BY RegistryRow DEF ToSet
<1>4. Wanted(e, q) /\ e.prefix = q.prefix
  BY <1>1, <1>3 DEF Wanted
<1>5. Fits(e, Runtime(fleet[n].row))
  BY <1>2
<1> QED
  BY <1>4, <1>5, KeyForIs

LEMMA UsingIs ==
  ASSUME NEW s, Open(s), NEW fleet \in Fleets, NEW q, Wellformed(q), NEW now \in Nat, NEW mute,
         NEW a \in Using(s, fleet, Names, mute, q, now)
  PROVE  /\ Proper(a, q, fleet)
         /\ q.mode = "use" /\ q.key = "none" /\ Servable(s.rows, fleet, mute, q) => Served(a)
<1> DEFINE o == Ordered(fleet, Names, q)
           k0 == Sought(s.rows, fleet, q, mute)
           k == IF q.key # "none" THEN q.key ELSE k0
           C == Derived(fleet, q, mute)
<1>1. \/ q.key = "none" /\ C = <<>> /\ a \in Underivable(s, fleet, q, ToSet(o) \ mute)
      \/ q.mode = "auto" /\ a \in BuildThenUse(s, fleet, q, now)
      \/ a \in Use(s, fleet, q, k, now)
  BY DEF Using, Derived, Sought
<1>2. s.rows \in Registries
  BY DEF Open
<1>4. CASE q.key = "none" /\ C = <<>> /\ a \in Underivable(s, fleet, q, ToSet(o) \ mute)
  <2>1. ASSUME Servable(s.rows, fleet, mute, q)
        PROVE  FALSE
    BY <1>2, <1>4, <2>1, KeyServes
  <2> QED
    BY <1>4, <2>1, UnderivableIs
<1>5. CASE q.mode = "auto" /\ a \in BuildThenUse(s, fleet, q, now)
  BY <1>5, BuildThenUseIs
<1>6. CASE a \in Use(s, fleet, q, k, now)
  <2>1. Proper(a, q, fleet)
    BY <1>6, UseIs
  <2>2. ASSUME q.key = "none", Servable(s.rows, fleet, mute, q)
        PROVE  Served(a)
    <3>1. PICK e \in ToSet(s.rows) : /\ e.id = q.id /\ e.prefix = q.prefix /\ PolicyDenial(q.policy, e) = "none"
                                     /\ \E n \in ToSet(o) \ mute : fleet[n].ready /\ Fits(e, Runtime(fleet[n].row))
      BY <2>2 DEF Servable
    <3>2. PICK n \in ToSet(o) \ mute : fleet[n].ready /\ Fits(e, Runtime(fleet[n].row))
      BY <3>1
    <3>4. FindEntry(s.rows, q.id, {q.policy}, {k0}) # 0 /\ Derivable(q, k0)
      BY <1>2, <2>2, KeyServes
    <3>5. FindEntry(s.rows, q.id, {q.policy}, {k0}) # 0 /\ \E r \in Runtimes : r.model = q.model /\ k0 = KeyOf(q.id, q.prefix, q.policy, r)
      BY <3>4 DEF Derivable
    <3> DEFINE j == FindEntry(s.rows, q.id, {q.policy}, {k0})
               x == s.rows[j]
    <3> HIDE DEF k0
    <3>6. j \in DOMAIN s.rows /\ x.id = q.id /\ x.key = k0
      <4>1. j \in Found(s.rows, q.id, {q.policy}, {k0})
        BY <1>2, <3>5, FindEntryIs
      <4> QED
        BY <4>1 DEF Found
    <3>7. x \in SoundEntries /\ x \in ToSet(s.rows)
      BY <1>2, <3>6, RegistryRow DEF ToSet
    <3>8. ~Quarantined(x)
      BY <2>2, <3>6, <3>7 DEF Servable
    <3>9. CanonicalKey(x) = k0
      BY <3>6, <3>7, EntryIs
    <3>10. Ensure(s.rows, q.id, q.policy, k0) = "found"
      BY <3>5, <3>8, <3>9 DEF Ensure
    <3>11. x.runtime.model = q.model
      <4>1. PICK r \in Runtimes : r.model = q.model /\ k0 = KeyOf(q.id, q.prefix, q.policy, r)
        BY <3>5
      <4> DEFINE m == <<x.id, x.prefix, x.policy>>
                 l == <<q.id, q.prefix, q.policy>>
      <4>2. m \in Material /\ x.key = KeyOf(m[1], m[2], m[3], x.runtime) /\ x.runtime \in Runtimes
        BY <3>7 DEF SoundEntries, Entries
      <4>3. l \in Material /\ l[1] = q.id /\ l[2] = q.prefix /\ l[3] = q.policy
        BY DEF Wellformed
      <4> HIDE DEF m, l, x
      <4>4. KeyOf(m[1], m[2], m[3], x.runtime) = KeyOf(l[1], l[2], l[3], r)
        BY <3>6, <4>1, <4>2, <4>3
      <4> QED
        BY <4>1, <4>2, <4>3, <4>4, HashAssumption
    <3>12. Able(fleet, q, q.fallback) # {}
      <4>1. n \in ToSet(Names) /\ fleet[n].row.model = q.model /\ (q.worker # "none" /\ ~q.fallback => n = q.worker)
        BY OrderedIs
      <4>2. n \in DOMAIN fleet
        BY <4>1, FleetAssumption
      <4>3. n \in Able(fleet, q, q.fallback)
        BY <3>2, <4>1, <4>2 DEF Able
      <4> QED
        BY <4>3
    <3>13. a \in Use(s, fleet, q, k0, now)
      BY <1>6, <2>2
    <3> QED
      BY <3>10, <3>11, <3>12, <3>13, UseIs
  <2> QED
    BY <2>1, <2>2
<1> QED
  BY <1>1, <1>4, <1>5, <1>6

LEMMA AnswersAre ==
  ASSUME NEW rs \in Registries, NEW fleet \in Fleets, NEW q, Wellformed(q), NEW now \in Nat, NEW mute,
         NEW a \in Answers(rs, fleet, Names, mute, q, now)
  PROVE  /\ Honest(a) /\ Right(a, q, fleet)
         /\ q.mode \in {"use", "auto"} => Explained(a)
         /\ q.mode = "use" /\ q.key = "none" /\ Servable(rs, fleet, mute, q) => Served(a)
<1> DEFINE s == Began(rs)
           d == RequestDenial(q.policy)
<1>1. Open(s) /\ s.rows = rs
  BY BeganIs
<1>2. \/ q.mode = "bypass" /\ a \in Proxied(s, fleet, q, "none")
      \/ d # "none" /\ a = Ended(Told(s, DeniedEvent(d, "none")), "denied")
      \/ q.mode \in {"build", "refresh"} /\ a \in Building(s, fleet, q, now)
      \/ a \in Using(s, fleet, Names, mute, q, now)
  BY DEF Answers
<1> HIDE DEF s
<1>3. CASE q.mode = "bypass" /\ a \in Proxied(s, fleet, q, "none")
  <2>1. "none" \notin Retries \union {"policy_denied"}
    BY DEF Retries
  <2>2. Honest(a) /\ ~a.restored /\ ToSet(s.events) \subseteq ToSet(a.events)
    BY <1>1, <1>3, <2>1, ProxiedIs
  <2> QED
    BY <1>1, <1>3, <2>2 DEF Right
<1>4. CASE d # "none" /\ a = Ended(Told(s, DeniedEvent(d, "none")), "denied")
  <2>1. Proper(a, q, fleet)
    BY <1>1, <1>4, DeniedIs
  <2>2. ~Servable(rs, fleet, mute, q)
    BY <1>4 DEF Servable, PolicyDenial
  <2> QED
    BY <2>1, <2>2 DEF Proper
<1>5. CASE q.mode \in {"build", "refresh"} /\ a \in Building(s, fleet, q, now)
  BY <1>1, <1>5, BuildingIs DEF Right
<1>6. CASE a \in Using(s, fleet, Names, mute, q, now)
  BY <1>1, <1>6, UsingIs DEF Proper
<1> QED
  BY <1>2, <1>3, <1>4, <1>5, <1>6

LEMMA PickedTrail ==
  ASSUME NEW events, Trail(events), NEW I
  PROVE  /\ \A i \in DOMAIN Picked(events, I) : \E j \in DOMAIN events : j \in I /\ events[j] = Picked(events, I)[i]
         /\ \A j \in DOMAIN events : j \in I => \E i \in DOMAIN Picked(events, I) : Picked(events, I)[i] = events[j]
<1>1. PICK X : events \in Seq(X)
  BY DEF Trail
<1>2. /\ Picked(events, I) \in Seq(X)
      /\ \A i \in DOMAIN Picked(events, I) : \E j \in DOMAIN events : j \in I /\ events[j] = Picked(events, I)[i]
      /\ \A j \in DOMAIN events : j \in I => \E i \in DOMAIN Picked(events, I) : Picked(events, I)[i] = events[j]
  BY <1>1, PickedFrom
<1> QED
  BY <1>2

\* The audit rows are those of the events that have one.
LEMMA AuditedAre ==
  ASSUME NEW events, Trail(events), NEW x
  PROVE  x \in ToSet(Audited(events)) <=>
           \E e \in ToSet(events) : /\ Logged(e)
                                    /\ x = [operation |-> Operation(e), outcome |-> Outcome(e), actions |-> Actions(e),
                                            key |-> e.key, worker |-> e.worker]
<1> DEFINE Line(e) == [operation |-> Operation(e), outcome |-> Outcome(e), actions |-> Actions(e), key |-> e.key, worker |-> e.worker]
           I == {i \in DOMAIN events : Actions(events[i]) # {}
                                       /\ <<events[i].phase, events[i].decision, events[i].hit>> # <<"worker_selected", "no_op", "none">>}
           S == Picked(events, I)
<1>1. Audited(events) = [i \in DOMAIN S |-> Line(S[i])]
  BY DEF Audited
<1>2. \A i \in DOMAIN events : i \in I <=> Logged(events[i])
  BY DEF Logged
<1> HIDE DEF I, Line
<1>4. /\ \A i \in DOMAIN S : \E j \in DOMAIN events : j \in I /\ events[j] = S[i]
      /\ \A j \in DOMAIN events : j \in I => \E i \in DOMAIN S : S[i] = events[j]
  BY PickedTrail
<1> HIDE DEF S
<1>5. x \in ToSet(Audited(events)) <=> \E i \in DOMAIN S : x = Line(S[i])
  BY <1>1 DEF ToSet
<1>6. (\E i \in DOMAIN S : x = Line(S[i])) <=> \E e \in ToSet(events) : Logged(e) /\ x = Line(e)
  BY <1>2, <1>4 DEF ToSet
<1> QED
  BY <1>5, <1>6 DEF Line

-----------------------------------------------------------------------------
(* The invariant *)

\* The registry is sound, and each answer is one that its request may have had.
Evidenced ==
  /\ ws \in Fleets /\ rows \in Registries /\ Trail(asked)
  /\ \A i \in DOMAIN asked :
       /\ Wellformed(asked[i].q) /\ asked[i].rows \in Registries
       /\ \E now \in Nat : asked[i].a \in Answers(asked[i].rows, ws, Names, asked[i].mute, asked[i].q, now)

CycleReady == task = "cycle" => Len(ReadyWorkers) = 2

LEMMA NowIs == Evidenced => Now \in Nat
<1> SUFFICES ASSUME Evidenced PROVE Now \in Nat
  OBVIOUS
<1>1. PICK S : asked \in Seq(S)
  BY DEF Evidenced, Trail
<1>2. Len(rows) \in Nat /\ Len(asked) \in Nat
  BY <1>1 DEF Evidenced, Registries
<1> QED
  BY <1>2 DEF Now

LEMMA RequestKeeps ==
  ASSUME Evidenced, NEW q, Wellformed(q), Request(q), ws' = ws
  PROVE  Evidenced'
<1>1. PICK mute : \E a \in Answers(rows, ws, Names, mute, q, Now) :
        rows' = a.rows /\ asked' = Append(asked, [q |-> q, rows |-> rows, mute |-> mute, a |-> a])
  BY DEF Request
<1>0. PICK a \in Answers(rows, ws, Names, mute, q, Now) :
        rows' = a.rows /\ asked' = Append(asked, [q |-> q, rows |-> rows, mute |-> mute, a |-> a])
  BY <1>1
<1> DEFINE x == [q |-> q, rows |-> rows, mute |-> mute, a |-> a]
<1>2. Now \in Nat /\ ws \in Fleets /\ rows \in Registries
  BY NowIs DEF Evidenced
<1>3. rows' \in Registries
  BY <1>0, <1>2, AnswersAre DEF Honest
<1>4. PICK S : asked \in Seq(S)
  BY DEF Evidenced, Trail
<1>5. x.q = q /\ x.rows = rows /\ x.mute = mute /\ x.a = a
  OBVIOUS
<1> HIDE DEF x
<1>6. Trail(asked') /\ ToSet(asked') = ToSet(asked) \union {x}
  BY <1>0, TrailGrows DEF Evidenced, x
<1>7. \A i \in DOMAIN asked' : asked'[i] \in ToSet(asked) \union {x}
  BY <1>6 DEF ToSet
<1>8. ASSUME NEW y \in ToSet(asked) \union {x}
      PROVE  /\ Wellformed(y.q) /\ y.rows \in Registries
             /\ \E now \in Nat : y.a \in Answers(y.rows, ws, Names, y.mute, y.q, now)
  <2>1. CASE y = x
    BY <1>0, <1>2, <1>5, <2>1
  <2>2. CASE y \in ToSet(asked)
    BY <2>2 DEF Evidenced, ToSet
  <2> QED
    BY <2>1, <2>2
<1>9. \A i \in DOMAIN asked' : /\ Wellformed(asked'[i].q) /\ asked'[i].rows \in Registries
                               /\ \E now \in Nat : asked'[i].a \in Answers(asked'[i].rows, ws, Names, asked'[i].mute, asked'[i].q, now)
  BY <1>7, <1>8
<1> QED
  BY <1>2, <1>3, <1>6, <1>9 DEF Evidenced

LEMMA CycleAsks ==
  ASSUME Evidenced, Len(ReadyWorkers) = 2
  PROVE  Wellformed(CycleStep)
<1>1. Names \in Seq(STRING)
  BY FleetAssumption
<1>2. Names \in Seq(ToSet(Names))
  BY <1>1 DEF ToSet
<1>3. ReadyWorkers \in Seq(ToSet(Names))
  BY <1>2, PickedFrom DEF ReadyWorkers
<1>4. ReadyWorkers[1] \in ToSet(Names) /\ ReadyWorkers[2] \in ToSet(Names)
  BY <1>3
<1>5. ASSUME NEW mode, NEW prefix \in {"branch-a", "branch-b", "none"}, NEW key, NEW n \in ToSet(Names)
      PROVE  Wellformed(CycleBody(mode, prefix, key, n))
  BY DEF Wellformed, CycleBody, Material
<1>6. \E mode, key : \E prefix \in {"branch-a", "branch-b", "none"}, n \in {ReadyWorkers[1], ReadyWorkers[2]} :
        CycleStep = CycleBody(mode, prefix, key, n)
  BY DEF CycleStep
<1> QED
  BY <1>4, <1>5, <1>6

LEMMA TrialAsks ==
  ASSUME NEW o \in Options, NEW mode
  PROVE  Wellformed(TrialBody(o, mode))
  BY RequestAssumption DEF Wellformed, TrialBody, Material

LEMMA BenchAsks ==
  ASSUME NEW o \in Benchmarks, NEW mode, NEW key
  PROVE  Wellformed(BenchBody(o, mode, key))
  BY RequestAssumption DEF Wellformed, BenchBody, Benchmarks, Material

LEMMA WearKeeps ==
  ASSUME Evidenced, Wear
  PROVE  Evidenced'
<1>0. PICK i \in DOMAIN rows, b \in {"damaged", "gone"}, on \in BOOLEAN :
        \E elsewhere \in IF b = "gone" THEN {"inside", "outside"} ELSE {"none"} :
          rows' = [rows EXCEPT ![i].blob = b, ![i].elsewhere = elsewhere, ![i].on = IF on THEN @ ELSE {}]
  BY DEF Wear
<1>1. PICK elsewhere \in {"none", "inside", "outside"} :
        rows' = [rows EXCEPT ![i].blob = b, ![i].elsewhere = elsewhere, ![i].on = IF on THEN @ ELSE {}]
  BY <1>0
<1>2. rows \in Registries /\ UNCHANGED <<ws, asked>>
  BY DEF Wear, Evidenced
<1> DEFINE e == rows[i]
           x == [e EXCEPT !.blob = b, !.elsewhere = elsewhere, !.on = IF on THEN @ ELSE {}]
<1>3. e \in SoundEntries /\ e \in Entries
  BY <1>2, RegistryRow
<1>4. x \in Entries /\ SameEntry(x, e)
  <2> HIDE DEF e
  <2> QED
    BY <1>3 DEF Entries, SameEntry
<1>5. x \in SoundEntries
  <2> HIDE DEF x, e
  <2> QED
    BY <1>3, <1>4 DEF SoundEntries, SameEntry
<1>6. rows' = [rows EXCEPT ![i] = x]
  BY <1>1
<1> HIDE DEF x
<1>7. rows' = [j \in DOMAIN rows |-> rows'[j]] /\ \A j \in DOMAIN rows : rows'[j] = IF j = i THEN x ELSE rows[j]
  BY <1>6
<1>8. \A j \in DOMAIN rows : rows[j] \in SoundEntries
  BY <1>2, RegistryRow
<1>9. \A j \in DOMAIN rows : rows'[j] \in SoundEntries /\ SameEntry(rows'[j], rows[j])
  BY <1>4, <1>5, <1>7, <1>8 DEF SameEntry
<1>10. rows' \in Registries
  BY <1>2, <1>7, <1>9, EntriesStay
<1> QED
  BY <1>2, <1>10 DEF Evidenced

LEMMA EvidenceInit == Init => Evidenced /\ CycleReady
<1> SUFFICES ASSUME Init PROVE Evidenced /\ CycleReady
  OBVIOUS
<1>1. ws \in Fleets /\ rows = <<>> /\ asked = <<>> /\ task = "none"
  BY DEF Init
<1>2. <<>> \in Registries /\ <<>> \in Seq({}) /\ DOMAIN <<>> = {}
  BY DEF Registries, Apart
<1> QED
  BY <1>1, <1>2 DEF Evidenced, CycleReady, Trail

LEMMA EvidenceKeeps == Evidenced /\ CycleReady /\ [Next]_vars => (Evidenced /\ CycleReady)'
<1> SUFFICES ASSUME Evidenced, CycleReady, [Next]_vars PROVE Evidenced' /\ CycleReady'
  OBVIOUS
<1>1. CASE Fill
  <2>1. PICK q \in Earlier : \E mute : \E a \in Answers(rows, ws, Names, mute, q, Now) : rows' = a.rows
    BY <1>1 DEF Fill
  <2>2. Wellformed(q) /\ Now \in Nat /\ ws \in Fleets /\ rows \in Registries
    BY RequestAssumption, NowIs DEF Evidenced
  <2>3. rows' \in Registries
    BY <2>1, <2>2, AnswersAre DEF Honest
  <2> QED
    BY <1>1, <2>3 DEF Fill, Evidenced, CycleReady, ReadyWorkers
<1>2. CASE Wear
  BY <1>2, WearKeeps DEF Wear, CycleReady, ReadyWorkers
<1>3. CASE Ask
  <2>1. PICK q \in Questions : Request(q)
    BY <1>3 DEF Ask
  <2>2. Wellformed(q) /\ ws' = ws /\ task' = "client"
    BY <1>3, RequestAssumption DEF Ask
  <2> QED
    BY <2>1, <2>2, RequestKeeps DEF CycleReady
<1>4. CASE Cycle
  <2>1. Len(ReadyWorkers) = 2
    BY <1>4 DEF Cycle, CycleReady
  <2>2. Request(CycleStep) /\ ws' = ws
    BY <1>4 DEF Cycle
  <2>3. Evidenced'
    BY <2>1, <2>2, CycleAsks, RequestKeeps
  <2> QED
    BY <2>1, <2>2, <2>3 DEF CycleReady, ReadyWorkers
<1>5. CASE ProbeRequest
  <2>1. ws' = ws /\ task' = "probe" /\ \E o \in Options : \E mode : Request(TrialBody(o, mode))
    BY <1>5 DEF ProbeRequest
  <2> QED
    BY <2>1, TrialAsks, RequestKeeps DEF CycleReady
<1>6. CASE Judge
  BY <1>6 DEF Judge, Evidenced, CycleReady
<1>7. CASE BenchRequest
  <2>1. ws' = ws /\ task' = "benchmark" /\ \E o \in Benchmarks : \E mode, key : Request(BenchBody(o, mode, key))
    BY <1>7 DEF BenchRequest
  <2> QED
    BY <2>1, BenchAsks, RequestKeeps DEF CycleReady
<1>8. CASE Summarize
  BY <1>8 DEF Summarize, Evidenced, CycleReady
<1>9. CASE UNCHANGED vars
  BY <1>9 DEF vars, Evidenced, CycleReady, ReadyWorkers
<1> QED
  BY <1>1, <1>2, <1>3, <1>4, <1>5, <1>6, <1>7, <1>8, <1>9 DEF Next

\* Each answer the agent loop keeps is one its request may have had of the registry it met, and
\* every registry files its entries under the keys of their own material.
THEOREM EvidenceInvariant == Spec => [](Evidenced /\ CycleReady)
<1> QED
  BY EvidenceInit, EvidenceKeeps, PTL DEF Spec

LEMMA LatestIs ==
  ASSUME Evidenced, Answered
  PROVE  /\ Wellformed(Latest.q) /\ Latest.rows \in Registries /\ Honest(Latest.a) /\ Right(Latest.a, Latest.q, ws)
         /\ Latest.q.mode \in {"use", "auto"} => Explained(Latest.a)
         /\ Latest.q.mode = "use" /\ Latest.q.key = "none" /\ Servable(Latest.rows, ws, Latest.mute, Latest.q) => Served(Latest.a)
<1>1. PICK S : asked \in Seq(S)
  BY DEF Evidenced, Trail
<1>2. Len(asked) \in DOMAIN asked
  BY <1>1 DEF Answered
<1>3. /\ Wellformed(Latest.q) /\ Latest.rows \in Registries /\ ws \in Fleets
      /\ \E now \in Nat : Latest.a \in Answers(Latest.rows, ws, Names, Latest.mute, Latest.q, now)
  BY <1>2 DEF Evidenced, Latest
<1> QED
  BY <1>3, AnswersAre

-----------------------------------------------------------------------------
(* What the answers must satisfy *)

\* Every event the router writes about any request satisfies the contract its readers validate it by.
THEOREM EventsValid == Spec => []TrailValid
<1>1. Evidenced => TrailValid
  <2> SUFFICES ASSUME Evidenced, Answered PROVE \A i \in DOMAIN Latest.a.events : Valid(Latest.a.events[i])
    BY DEF TrailValid, Valid
  <2>1. \A e \in ToSet(Latest.a.events) : Valid(e)
    BY LatestIs DEF Honest
  <2> QED
    BY <2>1 DEF ToSet
<1> QED
  BY <1>1, EvidenceInvariant, PTL

\* The audit log tells every answer from a cache from a cold one and from a denial.
THEOREM AuditTellsAll == Spec => []AuditTells
<1>1. Evidenced => AuditTells
  <2> SUFFICES ASSUME Evidenced, Answered
               PROVE  LET audit == ToSet(Audited(Latest.a.events))
                      IN /\ Latest.a.restored <=> \E x \in audit : x.operation = "restore" /\ x.outcome = "success"
                         /\ Latest.a.status = "ok" /\ ~Latest.a.restored /\ Latest.q.mode \in {"use", "auto"}
                              => \E x \in audit : x.outcome \in {"fallback", "quarantined"}
                         /\ (\E x \in audit : x.outcome = "denied") => Latest.a.status \in {"denied", "not_found"}
    BY DEF AuditTells
  <2> DEFINE a == Latest.a
             audit == ToSet(Audited(a.events))
             Line(e) == [operation |-> Operation(e), outcome |-> Outcome(e), actions |-> Actions(e), key |-> e.key, worker |-> e.worker]
  <2>1. Honest(a) /\ (Latest.q.mode \in {"use", "auto"} => Explained(a))
    BY LatestIs
  <2> HIDE DEF a
  <2>2. Trail(a.events)
    BY <2>1 DEF Honest
  <2>3. \A x : x \in audit <=> \E e \in ToSet(a.events) : Logged(e) /\ x = Line(e)
    BY <2>2, AuditedAre
  <2> HIDE DEF audit
  <2>4. \A e : Line(e).operation = Operation(e) /\ Line(e).outcome = Outcome(e)
    OBVIOUS
  <2> HIDE DEF Line
  <2>5. (\E x \in audit : x.operation = "restore" /\ x.outcome = "success") <=> \E e \in ToSet(a.events) : TellsRestore(e)
    BY <2>3, <2>4 DEF TellsRestore
  <2>6. (\E x \in audit : x.outcome \in {"fallback", "quarantined"}) <=> \E e \in ToSet(a.events) : TellsCold(e)
    BY <2>3, <2>4 DEF TellsCold
  <2>7. (\E x \in audit : x.outcome = "denied") <=> \E e \in ToSet(a.events) : TellsDenial(e)
    BY <2>3, <2>4 DEF TellsDenial
  <2>8. /\ a.restored <=> \E e \in ToSet(a.events) : TellsRestore(e)
        /\ (\E e \in ToSet(a.events) : TellsDenial(e)) => a.status \in {"denied", "not_found"}
    BY <2>1 DEF Honest
  <2>9. a.status = "ok" /\ ~a.restored /\ Latest.q.mode \in {"use", "auto"} => \E e \in ToSet(a.events) : TellsCold(e)
    BY <2>1 DEF Explained
  <2> QED
    BY <2>5, <2>6, <2>7, <2>8, <2>9 DEF a, audit
<1> QED
  BY <1>1, EvidenceInvariant, PTL

\* What is restored is the client's own: of its scope, conversation and prefix, made by a worker that runs the same.
THEOREM OnlyTheRightEntry == Spec => []RightEntry
<1>1. Evidenced => RightEntry
  <2> SUFFICES ASSUME Evidenced, Answered, Latest.a.restored PROVE RightEntry
    BY DEF RightEntry
  <2>1. Right(Latest.a, Latest.q, ws)
    BY LatestIs
  <2> QED
    BY <2>1 DEF Right, RightEntry
<1> QED
  BY <1>1, EvidenceInvariant, PTL

\* A lookup never passes over an entry that serves it: it restores, recomputes or says that a worker failed.
THEOREM EveryRefusalExplained == Spec => []RefusalsExplained
<1>1. Evidenced => RefusalsExplained
  <2> SUFFICES ASSUME Evidenced, Answered, Latest.q.mode = "use", Latest.q.key = "none", Serving(Latest.q) # {},
                      ~\E e \in Met : e.id = Latest.q.id /\ Quarantined(e)
               PROVE  Served(Latest.a)
    BY DEF RefusalsExplained, Served, HadFailed, ToSet
  <2>1. Servable(Latest.rows, ws, Latest.mute, Latest.q)
    BY DEF Servable, Serving, Met
  <2> QED
    BY <2>1, LatestIs
<1> QED
  BY <1>1, EvidenceInvariant, PTL

\* The router and the offline audit, which decide it each on their own, file the same manifests, whatever
\* became of what a router had written, but for the exceptions RebuildsAgree names.
THEOREM RebuildsAlwaysAgree == Spec => []RebuildsAgree
<1>1. Evidenced => RebuildsAgree
  <2> SUFFICES ASSUME Evidenced, NEW e \in ToSet(rows), NEW required \in BOOLEAN, NEW m \in Fates(e)
               PROVE  LET router == RouterRebuilt({m})
                          audit == AuditRebuilt({m}, required)
                      IN /\ router \subseteq audit \/ (m.blob = "gone" /\ m.elsewhere = "inside") \/ (required /\ m.encryption = Unencrypted)
                         /\ audit \subseteq router \/ Quarantined(m) \/ ~Active(m)
                         /\ Quarantined(m) \/ m.status = "tenant_deleted" => router = {}
    BY DEF RebuildsAgree
  <2>1. e \in SoundEntries
    BY RegistryRow DEF Evidenced, ToSet
  <2>2. PICK s \in {e.status, "quarantined", "corrupt", "tenant_deleted", "deleted"}, b \in {"whole", "short", "damaged", "gone"},
             w \in {"none", "inside", "outside"}, x \in {Unencrypted, Encryption} :
          m = [e EXCEPT !.status = s, !.blob = b, !.elsewhere = w, !.encryption = x]
    BY DEF Fates
  <2>3. /\ m.id = e.id /\ m.key = e.key /\ m.policy = e.policy /\ m.prefix = e.prefix /\ m.runtime = e.runtime
        /\ m.status = s /\ m.blob = b /\ m.elsewhere = w /\ m.encryption = x
    BY <2>1, <2>2 DEF SoundEntries, Entries
  <2> HIDE DEF Fates
  <2>4. e.id # "none" /\ e.key # "none" /\ e.runtime.build # "none" /\ CanonicalKey(e) = e.key
    BY <2>1, EntryIs
  <2>5. m.id # "none" /\ m.key # "none" /\ m.runtime.build # "none" /\ CanonicalKey(m) = m.key
    BY <2>3, <2>4 DEF CanonicalKey, RecordPolicy
  <2>6. RouterRebuilt({m}) = RouterRow(m)
    BY DEF RouterRebuilt
  <2>7. AuditRebuilt({m}, required) = IF AuditManifest(m, required) THEN {AuditRow(m)} ELSE {}
    BY DEF AuditRebuilt
  <2>8. RouterRow(m) = IF ~Quarantined(m) /\ m.status # "tenant_deleted" /\ BlobValid(m) THEN {AuditRow(m)} ELSE {}
    BY <2>5 DEF RouterRow, Quarantined
  <2>9. Encrypted(Encryption, required, Active(m))
    BY DEF Encrypted, Encryption
  <2>10. (~required \/ m.encryption # Unencrypted) => Encrypted(m.encryption, required, Active(m))
    BY <2>2, <2>3, <2>9 DEF Encrypted
  <2>11. AuditManifest(m, required) <=> Encrypted(m.encryption, required, Active(m)) /\ (m.blob = "whole" \/ (m.blob = "gone" /\ ~Active(m)))
    BY <2>5 DEF AuditManifest, Complete
  <2> HIDE DEF Encryption
  <2>12. BlobValid(m) <=> m.blob = "whole" \/ (m.blob = "gone" /\ m.elsewhere = "inside")
    BY DEF BlobValid
  <2> QED
    BY <2>6, <2>7, <2>8, <2>10, <2>11, <2>12 DEF Active
<1> QED
  BY <1>1, EvidenceInvariant, PTL

-----------------------------------------------------------------------------
(* What a gate may take from the answer to a lookup *)

Clean(a) == a.hit \in CacheLevels /\ a.tried = {}

\* Nothing is answered yet.
Pending(s) == DOMAIN s = Fields /\ s.hit = "none" /\ s.validation = "off"

\* Worker n holds an entry of key k for the prefix p that may be used.
Bears(rs, k, n, p) == \E e \in ToSet(rs) : e.key = k /\ n \in e.on /\ e.prefix = p /\ ~Quarantined(e)

\* Answer a to a lookup of key k in the registry rs.
Telling(a, q, k, rs) ==
  /\ a.key = k
  /\ a.validation = "pass" => a.text = a.recomputed
  /\ ~q.fallback /\ a.status = "ok" => a.restored
  /\ Clean(a) => /\ a.restored /\ Bears(a.rows, k, a.worker, q.prefix)
                 /\ \A n, p : Bears(rs, k, n, p) => Bears(a.rows, k, n, p)

LEMMA GoneWithout ==
  ASSUME NEW a, Pending(a), NEW q, a.status # "ok" \/ q.fallback, NEW rs
  PROVE  Telling(a, q, a.key, rs)
  BY DEF Pending, Telling, Clean, CacheLevels

LEMMA PendingTold ==
  ASSUME NEW s, Pending(s), NEW e
  PROVE  LET t == Told(s, e) IN Pending(t) /\ t.key = s.key /\ t.rows = s.rows /\ t.tried = s.tried
  BY DEF Pending, Told, Fields

LEMMA PendingEnded ==
  ASSUME NEW s, Pending(s), NEW status
  PROVE  LET t == Ended(s, status) IN Pending(t) /\ t.key = s.key /\ t.status = status
  BY DEF Pending, Ended, Fields

LEMMA EndedTells ==
  ASSUME NEW s, Pending(s), NEW status, status # "ok", NEW q, NEW rs
  PROVE  Telling(Ended(s, status), q, s.key, rs)
<1> DEFINE a == Ended(s, status)
<1>1. Pending(a) /\ a.key = s.key /\ a.status = status
  BY PendingEnded
<1> HIDE DEF a
<1>2. Telling(a, q, a.key, rs)
  BY <1>1, GoneWithout
<1> QED
  BY <1>1, <1>2 DEF a

LEMMA ProxiedTells ==
  ASSUME NEW s, Pending(s), NEW fleet, NEW q, q.fallback, NEW reason, NEW a \in Proxied(s, fleet, q, reason), NEW rs
  PROVE  Telling(a, q, s.key, rs)
<1>1. CASE a = Ended(s, "unavailable")
  BY <1>1, EndedTells
<1>2. CASE \E n, t : \E r \in ProxyReasons(fleet, q, n, reason) : a = Forwarded(s, n, t, r)
  <2>0. PICK n, t : \E r \in ProxyReasons(fleet, q, n, reason) : a = Forwarded(s, n, t, r)
    BY <1>2
  <2>1. PICK r \in ProxyReasons(fleet, q, n, reason) : a = Forwarded(s, n, t, r)
    BY <2>0
  <2> DEFINE o == Told(s, ProxiedEvent(n, r))
  <2>2. Pending(o) /\ o.key = s.key
    BY PendingTold
  <2>3. a = [o EXCEPT !.status = IF t = NoText THEN "failed" ELSE "ok", !.text = t, !.worker = n]
    BY <2>1 DEF Forwarded
  <2> HIDE DEF o
  <2>4. Pending(a) /\ a.key = s.key
    BY <2>2, <2>3 DEF Pending, Fields
  <2> QED
    BY <2>4, GoneWithout
<1> QED
  BY <1>1, <1>2, ProxiedSplits

LEMMA ExhaustedTells ==
  ASSUME NEW s, Pending(s), NEW fleet, NEW q, NEW a \in Exhausted(s, fleet, q), NEW rs
  PROVE  Telling(a, q, s.key, rs)
<1>1. CASE q.fallback /\ a \in Proxied(s, fleet, q, HandlerReason(s.tried))
  BY <1>1, ProxiedTells
<1>2. CASE a = Ended(s, "failed")
  BY <1>2, EndedTells
<1> QED
  BY <1>1, <1>2 DEF Exhausted

LEMMA FailPending ==
  ASSUME NEW s, Pending(s), NEW e, NEW n, NEW q, NEW kind
  PROVE  LET t == Fail(s, e, n, q, kind) IN Pending(t) /\ t.key = s.key /\ t.tried # {}
<1> DEFINE o == Told(s, FailedEvent(e.key, n, q.fallback, AttemptReason(kind)))
           t == Fail(s, e, n, q, kind)
<1>1. Pending(o) /\ o.key = s.key
  BY PendingTold
<1>2. t = [o EXCEPT !.tried = @ \union {kind}, !.hit = "none", !.rows = IF kind = "corrupt" THEN Quarantine(@, e.key) ELSE @]
  BY DEF Fail
<1> HIDE DEF o, t
<1>3. Pending(t) /\ t.key = s.key /\ t.tried = o.tried \union {kind}
  BY <1>1, <1>2 DEF Pending, Fields
<1> QED
  BY <1>3 DEF t

LEMMA MismatchPending ==
  ASSUME NEW s, Pending(s), NEW e, NEW n, NEW q, NEW hydrated
  PROVE  LET t == Mismatch(s, e, n, q, hydrated) IN Pending(t) /\ t.key = s.key
<1> DEFINE o == Told(s, InvalidEvent(e.key, n, hydrated, Counts(q)))
           t == Mismatch(s, e, n, q, hydrated)
<1>1. Pending(o) /\ o.key = s.key
  BY PendingTold
<1>2. t = [o EXCEPT !.rows = Quarantine(@, e.key)]
  BY DEF Mismatch
<1> HIDE DEF o, t
<1>3. Pending(t) /\ t.key = s.key
  BY <1>1, <1>2 DEF Pending, Fields
<1> QED
  BY <1>3 DEF t

LEMMA FailingPending ==
  ASSUME NEW s, Pending(s), NEW e, NEW fleet, NEW n, NEW q, NEW t \in Failing(s, e, fleet, n, q)
  PROVE  Pending(t) /\ t.key = s.key /\ t.tried # {}
<1>1. CASE \E kind : t = Fail(s, e, n, q, kind)
  BY <1>1, FailPending
<1>2. CASE \E kind : t = Fail(Mismatch(s, e, n, q, kind = "hydrated"), e, n, q, "mismatch")
  <2>1. PICK kind : t = Fail(Mismatch(s, e, n, q, kind = "hydrated"), e, n, q, "mismatch")
    BY <1>2
  <2> DEFINE m == Mismatch(s, e, n, q, kind = "hydrated")
  <2>2. Pending(m) /\ m.key = s.key
    BY MismatchPending
  <2>3. t = Fail(m, e, n, q, "mismatch")
    BY <2>1
  <2> HIDE DEF m
  <2> QED
    BY <2>2, <2>3, FailPending
<1> QED
  BY <1>1, <1>2 DEF Failing

\* A use adds a worker to those that hold an entry and takes nothing away.
LEMMA TouchBears ==
  ASSUME NEW rs \in Registries, NEW k, NEW n, NEW now
  PROVE  /\ \A e \in ToSet(rs) : e.key = k /\ ~Quarantined(e) => Bears(Touch(rs, k, n, now), k, n, e.prefix)
         /\ \A m, p : Bears(rs, k, m, p) => Bears(Touch(rs, k, n, now), k, m, p)
<1> DEFINE more == Touch(rs, k, n, now)
<1>1. more = [i \in DOMAIN rs |-> IF rs[i].key = k THEN [rs[i] EXCEPT !.used = now, !.on = @ \union {n}] ELSE rs[i]]
  BY DEF Touch
<1>2. ASSUME NEW e \in ToSet(rs), e.key = k
      PROVE  \E x \in ToSet(more) : x.key = k /\ x.on = e.on \union {n} /\ x.prefix = e.prefix /\ x.status = e.status
  <2>1. PICK i \in DOMAIN rs : rs[i] = e
    BY DEF ToSet
  <2>2. e \in Entries
    BY <2>1, RegistryRow
  <2> DEFINE x == [e EXCEPT !.used = now, !.on = @ \union {n}]
  <2>3. x.key = k /\ x.on = e.on \union {n} /\ x.prefix = e.prefix /\ x.status = e.status
    BY <1>2, <2>2 DEF Entries
  <2>4. i \in DOMAIN more /\ more[i] = x
    BY <1>1, <1>2, <2>1
  <2> HIDE DEF x, more
  <2>5. x \in ToSet(more)
    BY <2>4 DEF ToSet
  <2> QED
    BY <2>3, <2>5
<1> HIDE DEF more
<1>3. \A e \in ToSet(rs) : e.key = k /\ ~Quarantined(e) => Bears(more, k, n, e.prefix)
  BY <1>2 DEF Bears, Quarantined
<1>4. \A m, p : Bears(rs, k, m, p) => Bears(more, k, m, p)
  BY <1>2 DEF Bears, Quarantined
<1> QED
  BY <1>3, <1>4 DEF more

LEMMA AnsweringTells ==
  ASSUME NEW s, Pending(s), NEW e, NEW rs \in Registries, e \in ToSet(rs), ~Quarantined(e), e.key = s.key, s.tried = {} => s.rows = rs,
         NEW fleet, NEW n, NEW q, NEW now, NEW a \in Answering(s, e, fleet, n, q, now)
  PROVE  Telling(a, q, s.key, rs)
<1>1. ASSUME NEW kind \in Tries(e, fleet, n, q) \intersect {"local", "hydrated"}, a = Succeed(s, e, n, q, kind = "hydrated", now)
      PROVE  Telling(a, q, s.key, rs)
  <2> DEFINE o == Told(s, RestoredEvent(e.key, n, kind = "hydrated", Counts(q)))
  <2>1. Pending(o) /\ o.key = s.key /\ o.rows = s.rows /\ o.tried = s.tried
    BY PendingTold
  <2>2. a = [o EXCEPT !.status = "ok", !.text = "a", !.worker = n, !.hit = IF kind = "hydrated" THEN "durable_blob" ELSE "local_nvme",
               !.validation = IF q.validate THEN "pass" ELSE "off", !.recomputed = IF q.validate THEN "a" ELSE NoText,
               !.restored = TRUE, !.rows = Touch(@, e.key, n, now)]
    BY <1>1 DEF Succeed
  <2> HIDE DEF o
  <2>3. /\ a.key = s.key /\ a.text = "a" /\ a.worker = n /\ a.tried = s.tried /\ a.restored = TRUE /\ a.rows = Touch(s.rows, e.key, n, now)
        /\ a.validation = (IF q.validate THEN "pass" ELSE "off") /\ a.recomputed = (IF q.validate THEN "a" ELSE NoText)
    BY <2>1, <2>2 DEF Pending, Fields
  <2>4. a.validation = "pass" => a.text = a.recomputed
    BY <2>3
  <2>5. q.prefix = e.prefix
    BY TriesTell
  <2>6. s.tried = {} => Bears(a.rows, s.key, n, q.prefix) /\ \A m, p : Bears(rs, s.key, m, p) => Bears(a.rows, s.key, m, p)
    BY <2>3, <2>5, TouchBears
  <2> QED
    BY <2>3, <2>4, <2>6 DEF Telling, Clean
<1>2. ASSUME NEW kind, NEW t, q.fallback, a = Recomputed(s, e, n, q, kind = "hydrated", t)
      PROVE  Telling(a, q, s.key, rs)
  <2> DEFINE m == Mismatch(s, e, n, q, kind = "hydrated")
  <2>1. Pending(m) /\ m.key = s.key
    BY MismatchPending
  <2>2. a = [m EXCEPT !.status = "ok", !.text = t, !.worker = n, !.validation = "fail", !.recomputed = t]
    BY <1>2 DEF Recomputed
  <2> HIDE DEF m
  <2>3. a.key = s.key /\ a.hit = "none" /\ a.validation = "fail"
    BY <2>1, <2>2 DEF Pending, Fields
  <2> QED
    BY <1>2, <2>3 DEF Telling, Clean, CacheLevels
<1> DEFINE Passing == Tries(e, fleet, n, q) \intersect {"local", "hydrated"}
           Others == IF q.validate /\ q.recompute /\ q.fallback THEN Texts \ {"a"} ELSE {}
           From(kind) == {Succeed(s, e, n, q, kind = "hydrated", now)}
                         \union {Recomputed(s, e, n, q, kind = "hydrated", t) : t \in Others}
<1>3. PICK kind \in Passing : a \in From(kind)
  <2>1. Answering(s, e, fleet, n, q, now) = UNION {From(kind) : kind \in Passing}
    BY DEF Answering
  <2> HIDE DEF From, Passing
  <2> QED
    BY <2>1
<1>4. Others # {} => q.fallback
  OBVIOUS
<1> HIDE DEF Others
<1>5. a = Succeed(s, e, n, q, kind = "hydrated", now) \/ \E t \in Others : a = Recomputed(s, e, n, q, kind = "hydrated", t)
  BY <1>3
<1> QED
  BY <1>1, <1>2, <1>3, <1>4, <1>5

LEMMA AttemptsTell ==
  ASSUME NEW s, Pending(s), s.tried = {}, s.rows \in Registries, NEW e \in ToSet(s.rows), ~Quarantined(e), e.key = s.key,
         NEW fleet, NEW o, Len(o) \in Nat, NEW q, NEW now, NEW a \in Attempts(s, e, fleet, o, q, now)
  PROVE  Telling(a, q, s.key, s.rows)
<1>3. PICK f : /\ Loop(f, s, e, fleet, o, q)
               /\ Attempts(s, e, fleet, o, q, now) = AnsweredOn(f, e, fleet, o, q, now) \union GivenUp(f, fleet, o, q)
  BY AttemptsAre
<1> DEFINE S == {i \in 0..Len(o) : \A t \in f[i] : Pending(t) /\ t.key = s.key /\ (t.tried = {} => t.rows = s.rows)}
<1>4. 0 \in S
  <2>1. f[0] = {s} /\ 0 \in 0..Len(o)
    BY <1>3 DEF Loop
  <2> QED
    BY <2>1
<1>5. ASSUME NEW i \in 1..Len(o), i - 1 \in S
      PROVE  i \in S
  <2>1. i \in 0..Len(o) /\ i - 1 \in 0..Len(o) /\ i # 0
    OBVIOUS
  <2>2. f[i] = UNION {Failing(t, e, fleet, o[i], q) : t \in {t \in f[i - 1] : ~Final(t, q)}}
    BY <1>3, <2>1 DEF Loop
  <2>3. \A t \in f[i - 1] : Pending(t) /\ t.key = s.key
    BY <1>5
  <2>4. \A t \in f[i] : \E u \in f[i - 1] : t \in Failing(u, e, fleet, o[i], q)
    BY <2>2
  <2>5. \A t \in f[i] : Pending(t) /\ t.key = s.key /\ t.tried # {}
    BY <2>3, <2>4, FailingPending
  <2> QED
    BY <2>1, <2>5
<1>6. 0..Len(o) \subseteq S
  <2> HIDE DEF S
  <2>1. \A i \in 1..Len(o) : i - 1 \in S => i \in S
    BY <1>5
  <2> QED
    BY <1>4, <2>1, UpTo
<1>7. \A i \in 0..Len(o) : \A t \in f[i] : Pending(t) /\ t.key = s.key /\ (t.tried = {} => t.rows = s.rows)
  BY <1>6
<1> HIDE DEF S
<1>8. CASE a \in AnsweredOn(f, e, fleet, o, q, now)
  <2>1. PICK i \in 1..Len(o) : \E t \in f[i - 1] : a \in Answering(t, e, fleet, o[i], q, now)
    BY <1>8 DEF AnsweredOn
  <2>2. PICK t \in f[i - 1] : a \in Answering(t, e, fleet, o[i], q, now)
    BY <2>1
  <2>3. i - 1 \in 0..Len(o)
    OBVIOUS
  <2>4. Pending(t) /\ t.key = s.key /\ (t.tried = {} => t.rows = s.rows)
    BY <1>7, <2>2, <2>3
  <2>5. Telling(a, q, t.key, s.rows)
    BY <2>2, <2>4, AnsweringTells
  <2> QED
    BY <2>4, <2>5
<1>9. CASE a \in GivenUp(f, fleet, o, q)
  <2>1. PICK t \in f[Len(o)] \union {t \in UNION {f[i] : i \in 1..Len(o)} : Final(t, q)} : a \in Exhausted(t, fleet, q)
    BY <1>9 DEF GivenUp
  <2>2. \E i \in 0..Len(o) : t \in f[i]
    BY <2>1
  <2>3. Pending(t) /\ t.key = s.key
    BY <1>7, <2>2
  <2>4. Telling(a, q, t.key, s.rows)
    BY <2>1, <2>3, ExhaustedTells
  <2> QED
    BY <2>3, <2>4
<1> QED
  BY <1>3, <1>8, <1>9

LEMMA UseTells ==
  ASSUME NEW s0, Pending(s0), s0.tried = {}, s0.rows \in Registries, NEW fleet \in Fleets, NEW q, Wellformed(q), NEW k, NEW now,
         NEW a \in Use(s0, fleet, q, k, now)
  PROVE  Telling(a, q, k, s0.rows)
<1> DEFINE s == [s0 EXCEPT !.key = k]
           rs == s0.rows
           i == FindEntry(rs, q.id, {q.policy}, {k})
           e == rs[i]
           filed == rs[FindEntry(rs, q.id, {q.policy}, {})].key
           denied == DeniedEvent(PolicyDenial(q.policy, rs[FindEntry(rs, q.id, {}, {k})]), k)
           given == Ensure(rs, q.id, q.policy, k)
           unfit(kind) == [Told(s, RejectedEvent(k, IF kind = "model" THEN "cache_key_mismatch" ELSE "manifest_quarantined"))
                             EXCEPT !.tried = {kind}]
<1>1. Pending(s) /\ s.rows = rs /\ s.key = k /\ s.tried = {}
  BY DEF Pending, Fields
<1>2. \/ a \in Missed(Told(s, denied), k)
      \/ a \in Missed(s, k)
      \/ a \in Mismatched(Told(s, MismatchEvent(k, filed)), fleet, q, TRUE)
      \/ a \in Unfit(s, fleet, q, k, "quarantined")
      \/ a \in Unfit(s, fleet, q, k, "model")
      \/ given = "found" /\ \E o \in Orders(fleet, q, q.fallback) : a \in Attempts(s, e, fleet, o, q, now)
  <2>1. a \in IF given = "denied" THEN Missed(Told(s, denied), k)
              ELSE IF given = "miss" THEN Missed(s, k)
              ELSE IF given = "mismatch" THEN Mismatched(Told(s, MismatchEvent(k, filed)), fleet, q, TRUE)
              ELSE IF given = "quarantined" THEN Unfit(s, fleet, q, k, "quarantined")
              ELSE IF e.runtime.model # q.model THEN Unfit(s, fleet, q, k, "model")
              ELSE UNION {Attempts(s, e, fleet, o, q, now) : o \in Orders(fleet, q, q.fallback)}
    BY <1>1 DEF Use
  <2>2. given \in {"denied", "miss", "mismatch", "quarantined", "found"}
    BY DEF Ensure
  <2> HIDE DEF given, s, e, denied, filed
  <2> QED
    BY <2>1, <2>2
<1> HIDE DEF s
<1>3. ASSUME NEW t, Pending(t), t.key = k, a \in Missed(t, k)
      PROVE  Telling(a, q, k, rs)
  <2> DEFINE u == Told(t, MissEvent(k))
  <2>1. Pending(u) /\ u.key = k
    BY <1>3, PendingTold
  <2>2. a = Ended(u, "not_found")
    BY <1>3 DEF Missed
  <2> HIDE DEF u
  <2> QED
    BY <2>1, <2>2, EndedTells
<1>4. CASE a \in Missed(Told(s, denied), k)
  BY <1>1, <1>3, <1>4, PendingTold
<1>5. CASE a \in Missed(s, k)
  BY <1>1, <1>3, <1>5
<1>6. CASE a \in Mismatched(Told(s, MismatchEvent(k, filed)), fleet, q, TRUE)
  <2> DEFINE t == Told(s, MismatchEvent(k, filed))
  <2>1. Pending(t) /\ t.key = k
    BY <1>1, PendingTold
  <2>2. (q.fallback /\ a \in Proxied(t, fleet, q, "cache_key_mismatch")) \/ a = Ended(t, "not_found")
    BY <1>6 DEF Mismatched
  <2> HIDE DEF t
  <2>3. CASE q.fallback /\ a \in Proxied(t, fleet, q, "cache_key_mismatch")
    BY <2>1, <2>3, ProxiedTells
  <2>4. CASE a = Ended(t, "not_found")
    BY <2>1, <2>4, EndedTells
  <2> QED
    BY <2>2, <2>3, <2>4
<1>7. ASSUME NEW kind, a \in Unfit(s, fleet, q, k, kind)
      PROVE  Telling(a, q, k, rs)
  <2> DEFINE t == unfit(kind)
             o == Told(s, RejectedEvent(k, IF kind = "model" THEN "cache_key_mismatch" ELSE "manifest_quarantined"))
  <2>1. Pending(o) /\ o.key = k
    BY <1>1, PendingTold
  <2>2. t = [o EXCEPT !.tried = {kind}]
    OBVIOUS
  <2>3. a \in Exhausted(t, fleet, q)
    BY <1>7 DEF Unfit
  <2> HIDE DEF t, o
  <2>4. Pending(t) /\ t.key = k
    BY <2>1, <2>2 DEF Pending, Fields
  <2> QED
    BY <2>3, <2>4, ExhaustedTells
<1>8. CASE given = "found" /\ \E o \in Orders(fleet, q, q.fallback) : a \in Attempts(s, e, fleet, o, q, now)
  <2>1. PICK o \in Orders(fleet, q, q.fallback) : a \in Attempts(s, e, fleet, o, q, now)
    BY <1>8
  <2>2. q.fallback \in BOOLEAN
    BY DEF Wellformed
  <2>3. Len(o) \in Nat
    <3>1. o \in Seq(ToSet(Names))
      BY <2>1, <2>2, OrdersAre
    <3> QED
      BY <3>1
  <2>4. i # 0 /\ ~Quarantined(e)
    BY <1>8 DEF Ensure
  <2>5. i \in Found(rs, q.id, {q.policy}, {k})
    BY <2>4, FindEntryIs
  <2>6. e \in ToSet(rs) /\ e.key = k
    BY <2>5 DEF Found, ToSet
  <2> HIDE DEF e
  <2> QED
    BY <1>1, <2>1, <2>3, <2>4, <2>6, AttemptsTell
<1> QED
  BY <1>2, <1>4, <1>5, <1>6, <1>7, <1>8

\* A lookup, whichever key it goes on with.
LEMMA LookupTells ==
  ASSUME NEW rs \in Registries, NEW fleet \in Fleets, NEW q, Wellformed(q), q.mode = "use", NEW now,
         NEW mute, NEW a \in Answers(rs, fleet, Names, mute, q, now)
  PROVE  Telling(a, q, a.key, rs) /\ (q.key # "none" /\ (a.status = "ok" \/ Clean(a)) => a.key = q.key)
<1> DEFINE s == Began(rs)
           o == Ordered(fleet, Names, q)
           told == {i \in DOMAIN o : o[i] \notin mute}
           k == IF q.key # "none" THEN q.key ELSE KeyFor(rs, [i \in DOMAIN o |-> Runtime(fleet[o[i]].row)], told, q.id, q.prefix, q.policy)
           d == DeniedEvent(RequestDenial(q.policy), "none")
<1>1. Pending(s) /\ s.rows = rs /\ s.tried = {}
  BY DEF Began, Pending, Fields
<1>2. \/ a = Ended(Told(s, d), "denied")
      \/ q.key = "none" /\ a \in Underivable(s, fleet, q, ToSet(o) \ mute)
      \/ a \in Use(s, fleet, q, k, now)
  BY <1>1 DEF Answers, Using
<1> HIDE DEF s, k
<1>3. CASE a = Ended(Told(s, d), "denied")
  <2> DEFINE t == Told(s, d)
  <2>1. Pending(t)
    BY <1>1, PendingTold
  <2> HIDE DEF t
  <2>2. Telling(Ended(t, "denied"), q, t.key, rs)
    BY <2>1, EndedTells
  <2>3. Pending(a) /\ a.key = t.key /\ a.status = "denied"
    BY <1>3, <2>1, PendingEnded DEF t
  <2> QED
    BY <1>3, <2>2, <2>3 DEF t, Pending, Clean, CacheLevels
<1>4. CASE q.key = "none" /\ a \in Underivable(s, fleet, q, ToSet(o) \ mute)
  <2>1. PICK words : a \in Exhausted([s EXCEPT !.tried = words], fleet, q)
    BY <1>4 DEF Underivable
  <2>2. Pending([s EXCEPT !.tried = words]) /\ [s EXCEPT !.tried = words].key = s.key
    BY <1>1 DEF Pending, Fields
  <2>3. Telling(a, q, s.key, rs)
    BY <2>1, <2>2, ExhaustedTells
  <2> QED
    BY <1>4, <2>3 DEF Telling
<1>5. CASE a \in Use(s, fleet, q, k, now)
  <2>1. Telling(a, q, k, rs)
    BY <1>1, <1>5, UseTells
  <2>2. a.key = k
    BY <2>1 DEF Telling
  <2> QED
    BY <2>1, <2>2 DEF k
<1> QED
  BY <1>2, <1>3, <1>4, <1>5

\* What was refreshed has a key.
LEMMA RefreshTells ==
  ASSUME NEW rs \in Registries, NEW fleet \in Fleets, NEW q, Wellformed(q), q.mode = "refresh", q.key = "none", NEW now,
         NEW mute, NEW a \in Answers(rs, fleet, Names, mute, q, now), a.status = "ok"
  PROVE  a.key # "none"
<1> DEFINE s == Began(rs)
           d == DeniedEvent(RequestDenial(q.policy), "none")
           B == Built(s, fleet, q, TRUE, {q.key}, now)
           f == [s EXCEPT !.tried = {"build"}]
<1>1. Pending(s)
  BY DEF Began, Pending, Fields
<1>2. a = Ended(Told(s, d), "denied") \/ a = Ended(f, "failed") \/ \E t \in B : a = Ended(t, "ok")
  BY DEF Answers, Building
<1>11. Pending(f)
  BY <1>1 DEF Pending, Fields
<1> HIDE DEF s, f
<1>3. a # Ended(Told(s, d), "denied") /\ a # Ended(f, "failed")
  <2>1. Pending(Told(s, d)) /\ Pending(f)
    BY <1>1, <1>11, PendingTold
  <2>2. Ended(Told(s, d), "denied").status = "denied" /\ Ended(f, "failed").status = "failed"
    BY <1>1, <2>1, PendingEnded
  <2> QED
    BY <2>2
<1>4. PICK t \in B : a = Ended(t, "ok")
  BY <1>2, <1>3
<1>5. PICK n \in Able(fleet, q, FALSE) : t = BuildOn(s, fleet, n, q, TRUE, {q.key}, now)
  BY DEF Built
<1>6. n \in ToSet(Names)
  BY AbleAre
<1> DEFINE k == KeyOf(q.id, q.prefix, q.policy, Runtime(fleet[n].row))
           u == Told(s, CommittedEvent(k, n))
<1>7. k # "none"
  BY <1>6, KeyIs
<1>8. t = [u EXCEPT !.key = k, !.rows = Publish(@, fleet, n, q, {q.key}, now)]
  BY <1>5 DEF BuildOn
<1>9. Pending(u)
  BY <1>1, PendingTold
<1> HIDE DEF k, u
<1>10. Pending(t) /\ t.key = k
  BY <1>8, <1>9 DEF Pending, Fields
<1> QED
  BY <1>4, <1>7, <1>10, PendingEnded

-----------------------------------------------------------------------------
(* What the gates have kept *)

\* The requests of a trial.
Probing ==
  /\ Len(asked) \in {1, 2}
  /\ \E o \in Options : asked[1].q = TrialBody(o, "refresh") /\ (Len(asked) = 2 => asked[2].q = TrialBody(o, "use"))

\* The requests of a benchmark.  As long as no run of it failed anywhere, what it built serves them all.
Benching ==
  /\ Len(asked) > 0
  /\ \E o \in Benchmarks : asked[1].q = BenchBody(o, "refresh", "none")
  /\ Len(asked) > 1 => asked[1].a.status = "ok"
  /\ \A i \in 2..Len(asked) : \E o \in Benchmarks : asked[i].q = BenchBody(o, "use", asked[1].a.key)
  /\ (\A i \in 2..Len(asked) : Clean(asked[i].a)) => \A i \in 2..Len(asked) : Bears(rows, asked[1].a.key, asked[i].a.worker, "long")

\* A trial that got as far as the comparison compared the answer to its own use.
Judged ==
  /\ trial.case # "suffix" /\ Probing
  /\ trial.phase = "compare" => Len(asked) = 2 /\ asked[2].a.status = "ok" /\ trial.answer = asked[2].a

\* The summary is one of the benchmark's own runs.
Summed ==
  /\ Benching /\ (asked[1].a.status # "ok" \/ Len(asked) = MinRuns + 1)
  /\ trial.case = "suffix" /\ DOMAIN trial.runs = 1..(Len(asked) - 1)
  /\ \A i \in DOMAIN trial.runs : trial.runs[i].answer = asked[i + 1].a /\ trial.runs[i].suffixOnly = asked[i + 1].q.suffixOnly
  /\ \E times : trial.status = Summary(asked[1].a.status = "ok", trial.runs, times)

GateKept ==
  /\ task = "none" => asked = <<>>
  /\ task = "probe" => Probing
  /\ task = "benchmark" => Benching
  /\ task = "over" => Judged \/ Summed

LEMMA AskedGrows ==
  ASSUME Evidenced, NEW q, Request(q)
  PROVE  /\ Len(asked) \in Nat /\ Len(asked') = Len(asked) + 1
         /\ \A i \in 1..Len(asked) : asked'[i] = asked[i]
         /\ LET x == asked'[Len(asked')]
            IN x.q = q /\ x.a \in Answers(rows, ws, Names, x.mute, q, Now) /\ rows' = x.a.rows
<1>1. PICK mute : \E a \in Answers(rows, ws, Names, mute, q, Now) :
        rows' = a.rows /\ asked' = Append(asked, [q |-> q, rows |-> rows, mute |-> mute, a |-> a])
  BY DEF Request
<1>0. PICK a \in Answers(rows, ws, Names, mute, q, Now) :
        rows' = a.rows /\ asked' = Append(asked, [q |-> q, rows |-> rows, mute |-> mute, a |-> a])
  BY <1>1
<1>2. PICK S : asked \in Seq(S)
  BY DEF Evidenced, Trail
<1> DEFINE x == [q |-> q, rows |-> rows, mute |-> mute, a |-> a]
<1>3. x.q = q /\ x.mute = mute /\ x.a = a /\ asked' = Append(asked, x)
  BY <1>0
<1> HIDE DEF x
<1>4. asked \in Seq(S \union {x})
  BY <1>2
<1>5. /\ Len(asked) \in Nat /\ Len(asked') = Len(asked) + 1 /\ asked'[Len(asked) + 1] = x
      /\ \A i \in 1..Len(asked) : asked'[i] = asked[i]
  BY <1>3, <1>4
<1> QED
  BY <1>0, <1>3, <1>5

LEMMA ProbingKeeps ==
  ASSUME Evidenced, GateKept, ProbeRequest
  PROVE  Probing'
<1>1. \A o, mode : TrialBody(o, mode)' = TrialBody(o, mode)
  <2>1. ws' = ws
    BY DEF ProbeRequest
  <2> QED
    BY <2>1 DEF TrialBody
<1>2. CASE task = "none"
  <2>1. PICK o \in Options : Request(TrialBody(o, "refresh"))
    BY <1>2 DEF ProbeRequest
  <2>2. Len(asked) = 0
    BY <1>2 DEF GateKept
  <2>3. Len(asked') = 1 /\ asked'[1].q = TrialBody(o, "refresh")
    BY <2>1, <2>2, AskedGrows
  <2> QED
    BY <1>1, <2>3 DEF Probing
<1>3. CASE task = "probe"
  <2>1. Len(asked) = 1
    BY <1>3 DEF ProbeRequest
  <2>2. PICK o \in Options : TrialBody(o, "refresh") = asked[1].q /\ Request(TrialBody(o, "use"))
    BY <1>3 DEF ProbeRequest
  <2>3. Len(asked') = 2 /\ asked'[1] = asked[1] /\ asked'[2].q = TrialBody(o, "use")
    BY <2>1, <2>2, AskedGrows
  <2> QED
    BY <1>1, <2>2, <2>3 DEF Probing
<1> QED
  BY <1>2, <1>3 DEF ProbeRequest

\* The key a benchmark goes on with.
LEMMA BuiltKey ==
  ASSUME Evidenced, Benching, asked[1].a.status = "ok"
  PROVE  asked[1].a.key # "none"
<1>1. PICK S : asked \in Seq(S)
  BY DEF Evidenced, Trail
<1>2. 1 \in DOMAIN asked
  BY <1>1 DEF Benching
<1>3. PICK o \in Benchmarks : asked[1].q = BenchBody(o, "refresh", "none")
  BY DEF Benching
<1>4. asked[1].q.mode = "refresh" /\ asked[1].q.key = "none"
  BY <1>3 DEF BenchBody
<1>5. /\ Wellformed(asked[1].q) /\ asked[1].rows \in Registries /\ ws \in Fleets
      /\ \E now \in Nat : asked[1].a \in Answers(asked[1].rows, ws, Names, asked[1].mute, asked[1].q, now)
  BY <1>2 DEF Evidenced
<1> QED
  BY <1>4, <1>5, RefreshTells

LEMMA BenchingKeeps ==
  ASSUME Evidenced, GateKept, BenchRequest
  PROVE  Benching'
<1>1. \A o, mode, key : BenchBody(o, mode, key)' = BenchBody(o, mode, key)
  <2>1. ws' = ws
    BY DEF BenchRequest
  <2> QED
    BY <2>1 DEF BenchBody
<1>2. CASE task = "none"
  <2>1. PICK o \in Benchmarks : Request(BenchBody(o, "refresh", "none"))
    BY <1>2 DEF BenchRequest
  <2>2. Len(asked) = 0
    BY <1>2 DEF GateKept
  <2>3. Len(asked') = 1 /\ asked'[1].q = BenchBody(o, "refresh", "none")
    BY <2>1, <2>2, AskedGrows
  <2> QED
    BY <1>1, <2>3 DEF Benching
<1>3. CASE task = "benchmark"
  <2> DEFINE k == asked[1].a.key
             n == Len(asked')
             b == asked'[n].a
  <2>1. Benching /\ asked[1].a.status = "ok"
    BY <1>3 DEF GateKept, BenchRequest
  <2>2. PICK o \in Benchmarks : Request(BenchBody(o, "use", k))
    BY <1>3, <2>1 DEF BenchRequest, KeyOfAnswer
  <2> DEFINE q == BenchBody(o, "use", k)
  <2>3. k # "none"
    BY <2>1, BuiltKey
  <2>4. Wellformed(q) /\ q.mode = "use" /\ q.key = k /\ q.prefix = "long"
    BY BenchAsks DEF BenchBody
  <2>5. /\ Len(asked) \in Nat /\ n = Len(asked) + 1 /\ \A i \in 1..Len(asked) : asked'[i] = asked[i]
        /\ asked'[n].q = q /\ b \in Answers(rows, ws, Names, asked'[n].mute, q, Now) /\ rows' = b.rows
    BY <2>2, AskedGrows
  <2> HIDE DEF q
  <2>6. Telling(b, q, b.key, rows) /\ (Clean(b) => b.key = k)
    BY <2>3, <2>4, <2>5, NowIs, LookupTells DEF Evidenced
  <2>7. Clean(b) => Bears(rows', k, b.worker, "long") /\ \A m, p : Bears(rows, k, m, p) => Bears(rows', k, m, p)
    BY <2>4, <2>5, <2>6 DEF Telling
  <2> HIDE DEF b, k, n
  <2>8. asked'[1] = asked[1] /\ Len(asked) > 0
    BY <2>1, <2>5 DEF Benching
  <2>9. \A i \in 2..n : i = n \/ (i \in 2..Len(asked) /\ asked'[i] = asked[i])
    BY <2>5
  <2>10. \A i \in 2..n : \E u \in Benchmarks : asked'[i].q = BenchBody(u, "use", k)
    <3>1. \A i \in 2..Len(asked) : \E u \in Benchmarks : asked[i].q = BenchBody(u, "use", k)
      BY <2>1 DEF Benching, k
    <3>2. asked'[n].q = BenchBody(o, "use", k)
      BY <2>5 DEF q
    <3> QED
      BY <2>9, <3>1, <3>2
  <2>11. ASSUME \A i \in 2..n : Clean(asked'[i].a)
         PROVE  \A i \in 2..n : Bears(rows', k, asked'[i].a.worker, "long")
    <3>1. n \in 2..n /\ 2..Len(asked) \subseteq 2..n
      BY <2>5, <2>8
    <3>2. Clean(b)
      BY <2>11, <3>1 DEF b
    <3>3. \A i \in 2..Len(asked) : Clean(asked[i].a)
      BY <2>9, <2>11, <3>1, <2>5
    <3>4. \A i \in 2..Len(asked) : Bears(rows, k, asked[i].a.worker, "long")
      BY <2>1, <3>3 DEF Benching, k
    <3> QED
      BY <2>7, <2>9, <3>2, <3>4 DEF b
  <2>12. n > 0
    BY <2>5
  <2>13. \E u \in Benchmarks : asked'[1].q = BenchBody(u, "refresh", "none")
    BY <2>1, <2>8 DEF Benching
  <2>14. asked'[1].a.status = "ok" /\ asked'[1].a.key = k
    BY <2>1, <2>8 DEF k
  <2> QED
    BY <2>10, <2>11, <2>12, <2>13, <2>14, <1>1 DEF Benching, n
<1> QED
  BY <1>2, <1>3 DEF BenchRequest

LEMMA GateKeeps == Evidenced /\ GateKept /\ [Next]_vars => GateKept'
<1> SUFFICES ASSUME Evidenced, GateKept, [Next]_vars PROVE GateKept'
  OBVIOUS
<1>1. CASE Fill \/ Wear
  <2>1. task' = "none" /\ asked' = asked /\ task = "none"
    BY <1>1 DEF Fill, Wear
  <2> QED
    BY <2>1 DEF GateKept
<1>2. CASE Ask \/ Cycle
  <2>1. task' \in {"client", "cycle"}
    BY <1>2 DEF Ask, Cycle
  <2> QED
    BY <2>1 DEF GateKept
<1>3. CASE ProbeRequest
  <2>1. task' = "probe"
    BY <1>3 DEF ProbeRequest
  <2> QED
    BY <1>3, <2>1, ProbingKeeps DEF GateKept
<1>4. CASE Judge
  <2>1. ws' = ws /\ asked' = asked /\ task' = "over"
    BY <1>4 DEF Judge
  <2>2. Probing /\ (Len(asked) = 2 \/ asked[1].a.status # "ok")
    BY <1>4 DEF Judge, GateKept
  <2>3. PICK cold : /\ trial'.case \in {"mtp_enabled", "deterministic_generation"}
                    /\ trial'.phase = Phase(cold) /\ trial'.answer = asked[Len(asked)].a
    BY <1>4 DEF Judge
  <2>4. Phase(cold) = "compare" => asked[1].a.status = "ok" /\ asked[2].a.status = "ok"
    BY DEF Phase
  <2>5. Probing'
    BY <2>1, <2>2 DEF Probing, TrialBody
  <2>6. Judged'
    BY <2>1, <2>2, <2>3, <2>4, <2>5 DEF Judged
  <2> QED
    BY <2>1, <2>6 DEF GateKept
<1>5. CASE BenchRequest
  <2>1. task' = "benchmark"
    BY <1>5 DEF BenchRequest
  <2> QED
    BY <1>5, <2>1, BenchingKeeps DEF GateKept
<1>6. CASE Summarize
  <2>1. ws' = ws /\ rows' = rows /\ asked' = asked /\ task' = "over"
    BY <1>6 DEF Summarize
  <2>2. Benching /\ (asked[1].a.status # "ok" \/ Len(asked) = MinRuns + 1)
    BY <1>6 DEF Summarize, GateKept
  <2> DEFINE run(cold, i) == [cold |-> cold[i + 1], answer |-> asked[i + 1].a, suffixOnly |-> asked[i + 1].q.suffixOnly]
             runs(cold) == [i \in 1..(Len(asked) - 1) |-> run(cold, i)]
  <2>3. PICK cold, times : trial' = [case |-> "suffix", runs |-> runs(cold), status |-> Summary(asked[1].a.status = "ok", runs(cold), times)]
    BY <1>6 DEF Summarize
  <2>4. \A i : run(cold, i).answer = asked[i + 1].a /\ run(cold, i).suffixOnly = asked[i + 1].q.suffixOnly
    OBVIOUS
  <2> HIDE DEF run
  <2>5. /\ DOMAIN runs(cold) = 1..(Len(asked) - 1)
        /\ \A i \in DOMAIN runs(cold) : runs(cold)[i].answer = asked[i + 1].a /\ runs(cold)[i].suffixOnly = asked[i + 1].q.suffixOnly
    BY <2>4
  <2> HIDE DEF runs
  <2>6. trial'.case = "suffix" /\ trial'.runs = runs(cold) /\ trial'.status = Summary(asked[1].a.status = "ok", runs(cold), times)
    BY <2>3
  <2>7. Benching'
    BY <2>1, <2>2 DEF Benching, BenchBody
  <2>8. Summed'
    BY <2>1, <2>2, <2>5, <2>6, <2>7 DEF Summed
  <2> QED
    BY <2>1, <2>8 DEF GateKept
<1>7. CASE UNCHANGED vars
  <2>1. ws' = ws /\ rows' = rows /\ task' = task /\ asked' = asked /\ trial' = trial
    BY <1>7 DEF vars
  <2>2. Probing => Probing'
    BY <2>1 DEF Probing, TrialBody
  <2>3. Benching => Benching'
    BY <2>1 DEF Benching, BenchBody
  <2>4. Judged => Judged'
    BY <2>1, <2>2 DEF Judged
  <2>5. Summed => Summed'
    BY <2>1, <2>3 DEF Summed
  <2> QED
    BY <2>1, <2>2, <2>3, <2>4, <2>5 DEF GateKept
<1> QED
  BY <1>1, <1>2, <1>3, <1>4, <1>5, <1>6, <1>7 DEF Next

\* The requests and answers a gate concludes from are those of its own trial or benchmark, in its order.
THEOREM GatesKeep == Spec => []GateKept
<1>1. Init => GateKept
  BY DEF Init, GateKept
<1>2. (Evidenced /\ CycleReady) /\ GateKept /\ [Next]_vars => GateKept'
  BY GateKeeps
<1> QED
  BY <1>1, <1>2, EvidenceInvariant, PTL DEF Spec

-----------------------------------------------------------------------------
(* What the gates conclude *)

LEMMA VerdictIs ==
  ASSUME NEW t, NEW acts, Verdict({t}, acts, FALSE, FALSE).ok
  PROVE  t.phase = "compare" /\ (t.cold = t.answer.text \/ t.answer.validation = "pass") /\ t.events # <<>>
<1>1. {r \in {Trial(t)} : ~r.ok} = {}
  BY DEF Verdict
<1>2. Trial(t).ok
  BY <1>1
<1>3. t.phase = "compare"
  BY <1>2 DEF Trial, NotCompared
<1> DEFINE c == Classify(t.cold, t.answer.text, t.events)
<1>4. c.ok \/ Internal(t, c.statuses)
  BY <1>2, <1>3 DEF Trial, NotCompared
<1>5. c.ok => t.cold = t.answer.text /\ ToSet(t.events) # {}
  BY DEF Classify
<1>6. Internal(t, c.statuses) => t.answer.validation = "pass" /\ ToSet(t.events) # {}
  BY DEF Internal, Classify
<1>7. ToSet(<<>>) = {}
  BY DEF ToSet
<1> HIDE DEF c
<1> QED
  BY <1>3, <1>4, <1>5, <1>6, <1>7

LEMMA SummaryIs ==
  ASSUME NEW built \in BOOLEAN, NEW rs, NEW times, Summary(built, rs, times) \in {"pass", "pass_proxy"}
  PROVE  /\ built
         /\ \A i \in DOMAIN rs : rs[i].answer.status = "ok" /\ rs[i].answer.hit \in CacheLevels /\ rs[i].answer.tried = {} /\ rs[i].suffixOnly
<1>1. built /\ ~\E i \in DOMAIN rs : RestoreError(rs[i]) \/ FullReprocess(rs[i]) = "yes"
  BY DEF Summary
<1> SUFFICES ASSUME NEW i \in DOMAIN rs
             PROVE  rs[i].answer.status = "ok" /\ rs[i].answer.hit \in CacheLevels /\ rs[i].answer.tried = {} /\ rs[i].suffixOnly
  BY <1>1
<1>2. ~RestoreError(rs[i]) /\ FullReprocess(rs[i]) # "yes"
  BY <1>1
<1> QED
  BY <1>2 DEF RestoreError, FullReprocess, Reduction

LEMMA JudgedHonestly == Evidenced /\ Judged => ProbeHonest
<1> SUFFICES ASSUME Evidenced, Judged, Verdict({trial}, [e \in ToSet(trial.events) |-> Actions(e)], FALSE, FALSE).ok
             PROVE  /\ \/ trial.answer.text = trial.cold
                       \/ trial.answer.validation = "pass" /\ trial.answer.text = trial.answer.recomputed
                    /\ ~asked[1].q.fallback => trial.answer.restored
                    /\ trial.events # <<>>
  BY DEF ProbeHonest
<1>1. trial.phase = "compare" /\ (trial.cold = trial.answer.text \/ trial.answer.validation = "pass") /\ trial.events # <<>>
  BY VerdictIs
<1>2. Len(asked) = 2 /\ asked[2].a.status = "ok" /\ trial.answer = asked[2].a
  BY <1>1 DEF Judged
<1>3. PICK o \in Options : asked[1].q = TrialBody(o, "refresh") /\ asked[2].q = TrialBody(o, "use")
  BY <1>2 DEF Judged, Probing
<1>4. asked[2].q.mode = "use" /\ asked[2].q.fallback = asked[1].q.fallback
  BY <1>3 DEF TrialBody
<1>5. PICK S : asked \in Seq(S)
  BY DEF Evidenced, Trail
<1>6. 2 \in DOMAIN asked
  BY <1>2, <1>5
<1>7. /\ Wellformed(asked[2].q) /\ asked[2].rows \in Registries /\ ws \in Fleets
      /\ \E now \in Nat : asked[2].a \in Answers(asked[2].rows, ws, Names, asked[2].mute, asked[2].q, now)
  BY <1>6 DEF Evidenced
<1>8. Telling(asked[2].a, asked[2].q, asked[2].a.key, asked[2].rows)
  BY <1>4, <1>7, LookupTells
<1> QED
  BY <1>1, <1>2, <1>4, <1>8 DEF Telling

LEMMA SummedHonestly == Evidenced /\ Summed => BenchHonest
<1> SUFFICES ASSUME Evidenced, Summed, trial.status \in {"pass", "pass_proxy"}
             PROVE  /\ Len(trial.runs) >= MinRuns
                    /\ \A i \in DOMAIN trial.runs : LET x == trial.runs[i] IN
                         /\ x.answer.restored /\ x.answer.key = asked[1].a.key /\ x.suffixOnly
                         /\ \E e \in ToSet(rows) : e.key = x.answer.key /\ x.answer.worker \in e.on /\ e.prefix = "long" /\ ~Quarantined(e)
  BY DEF BenchHonest
<1> DEFINE k == asked[1].a.key
           runs == trial.runs
           built == asked[1].a.status = "ok"
<1>1. PICK times : trial.status = Summary(built, runs, times)
  BY DEF Summed
<1>2. /\ built
      /\ \A i \in DOMAIN runs : runs[i].answer.status = "ok" /\ runs[i].answer.hit \in CacheLevels /\ runs[i].answer.tried = {} /\ runs[i].suffixOnly
  <2>1. built \in BOOLEAN
    OBVIOUS
  <2> HIDE DEF built, runs
  <2> QED
    BY <1>1, <2>1, SummaryIs
<1>3. /\ Len(asked) = MinRuns + 1 /\ MinRuns \in Nat /\ DOMAIN runs = 1..MinRuns
      /\ \A i \in 1..MinRuns : runs[i].answer = asked[i + 1].a
  BY <1>2, RunsAssumption DEF Summed
<1> HIDE DEF runs
<1>4. Len(runs) = MinRuns
  BY <1>3
<1>5. k # "none"
  BY <1>2, BuiltKey DEF Summed
<1>6. PICK S : asked \in Seq(S)
  BY DEF Evidenced, Trail
<1>7. \A i \in 2..Len(asked) : Clean(asked[i].a) /\ asked[i].a.status = "ok"
  <2> SUFFICES ASSUME NEW i \in 2..Len(asked) PROVE Clean(asked[i].a) /\ asked[i].a.status = "ok"
    OBVIOUS
  <2>1. i - 1 \in 1..MinRuns /\ (i - 1) + 1 = i
    BY <1>3
  <2>2. runs[i - 1].answer = asked[i].a
    BY <1>3, <2>1
  <2> QED
    BY <1>2, <1>3, <2>1, <2>2 DEF Clean
<1>8. \A i \in 2..Len(asked) : Bears(rows, k, asked[i].a.worker, "long")
  BY <1>7 DEF Summed, Benching
<1>9. ASSUME NEW i \in 2..Len(asked)
      PROVE  asked[i].a.restored /\ asked[i].a.key = k
  <2>1. PICK o \in Benchmarks : asked[i].q = BenchBody(o, "use", k)
    BY DEF Summed, Benching
  <2>2. asked[i].q.mode = "use" /\ asked[i].q.key = k
    BY <2>1 DEF BenchBody
  <2>3. i \in DOMAIN asked
    BY <1>6
  <2>4. /\ Wellformed(asked[i].q) /\ asked[i].rows \in Registries /\ ws \in Fleets
        /\ \E now \in Nat : asked[i].a \in Answers(asked[i].rows, ws, Names, asked[i].mute, asked[i].q, now)
    BY <2>3 DEF Evidenced
  <2> HIDE DEF k
  <2>5. Telling(asked[i].a, asked[i].q, asked[i].a.key, asked[i].rows) /\ asked[i].a.key = k
    BY <1>5, <1>7, <2>2, <2>4, LookupTells
  <2> QED
    BY <1>7, <2>5 DEF Telling
<1>10. ASSUME NEW i \in DOMAIN runs
       PROVE  LET x == runs[i] IN
                /\ x.answer.restored /\ x.answer.key = k /\ x.suffixOnly
                /\ \E e \in ToSet(rows) : e.key = x.answer.key /\ x.answer.worker \in e.on /\ e.prefix = "long" /\ ~Quarantined(e)
  <2>1. i + 1 \in 2..Len(asked) /\ runs[i].answer = asked[i + 1].a
    BY <1>3
  <2>2. Bears(rows, k, runs[i].answer.worker, "long") /\ runs[i].answer.restored /\ runs[i].answer.key = k
    BY <1>8, <1>9, <2>1
  <2> QED
    BY <1>2, <2>2 DEF Bears
<1> QED
  BY <1>3, <1>4, <1>10 DEF runs

\* The probe passes no answer that is neither the cold one nor its own check's, and the benchmark no
\* run that was not answered from what it built: the gates of a release are right when they say "pass".
THEOREM GatesAreHonest == Spec => []GateHonest
<1>1. Evidenced /\ GateKept => GateHonest
  <2> SUFFICES ASSUME Evidenced, GateKept PROVE ProbeHonest /\ BenchHonest
    BY DEF GateHonest
  <2>1. CASE task # "over"
    BY <2>1 DEF ProbeHonest, BenchHonest
  <2>2. CASE Judged
    BY <2>2, JudgedHonestly DEF Judged, BenchHonest
  <2>3. CASE Summed
    BY <2>3, SummedHonestly DEF Summed, ProbeHonest
  <2> QED
    BY <2>1, <2>2, <2>3 DEF GateKept
<1> QED
  BY <1>1, EvidenceInvariant, GatesKeep, PTL

-----------------------------------------------------------------------------
(* The replay: workers in the order of the inventory *)

LEMMA PickedSet ==
  ASSUME NEW X, NEW s \in Seq(X), NEW I
  PROVE  /\ Picked(s, I) \in Seq(X)
         /\ \A x : x \in ToSet(Picked(s, I)) <=> \E j \in DOMAIN s : j \in I /\ s[j] = x
         /\ Picked(s, I) = <<>> <=> ToSet(Picked(s, I)) = {}
<1> DEFINE p == Picked(s, I)
<1>1. /\ p \in Seq(X)
      /\ \A i \in DOMAIN p : \E j \in DOMAIN s : j \in I /\ s[j] = p[i]
      /\ \A j \in DOMAIN s : j \in I => \E i \in DOMAIN p : p[i] = s[j]
  BY PickedFrom
<1> HIDE DEF p
<1>2. ToSet(p) = {} => DOMAIN p = {}
  BY DEF ToSet
<1>3. p = <<>> <=> ToSet(p) = {}
  <2>1. ToSet(<<>>) = {}
    BY DEF ToSet
  <2>2. DOMAIN p = {} => p = <<>>
    BY <1>1
  <2> QED
    BY <1>2, <2>1, <2>2
<1>4. \A x : x \in ToSet(p) <=> \E j \in DOMAIN s : j \in I /\ s[j] = x
  BY <1>1 DEF ToSet
<1> QED
  BY <1>1, <1>3, <1>4 DEF p

\* The workers in s stand in the order of the inventory.
InOrder(s) ==
  /\ s \in Seq(ToSet(Names))
  /\ \E f \in [DOMAIN s -> DOMAIN Names] : /\ \A k \in DOMAIN s : Names[f[k]] = s[k]
                                           /\ \A k, l \in DOMAIN s : k < l => f[k] < f[l]

LEMMA OrderKept ==
  ASSUME NEW s, InOrder(s), NEW I
  PROVE  InOrder(Picked(s, I))
<1> DEFINE p == Picked(s, I)
<1>1. s \in Seq(ToSet(Names)) /\ DOMAIN s \in SUBSET Nat
  BY DEF InOrder
<1>2. PICK f \in [DOMAIN s -> DOMAIN Names] : /\ \A k \in DOMAIN s : Names[f[k]] = s[k]
                                              /\ \A k, l \in DOMAIN s : k < l => f[k] < f[l]
  BY DEF InOrder
<1>3. PICK g \in [DOMAIN p -> DOMAIN s] : /\ \A k \in DOMAIN p : g[k] \in I /\ s[g[k]] = p[k]
                                          /\ \A k, l \in DOMAIN p : k < l => g[k] < g[l]
  BY <1>1, PickedPlaces
<1>4. p \in Seq(ToSet(Names))
  BY <1>1, PickedFrom
<1> HIDE DEF p
<1> DEFINE h == [k \in DOMAIN p |-> f[g[k]]]
<1>5. h \in [DOMAIN p -> DOMAIN Names] /\ \A k \in DOMAIN p : Names[h[k]] = p[k]
  BY <1>2, <1>3
<1>6. \A k, l \in DOMAIN p : k < l => h[k] < h[l]
  BY <1>2, <1>3
<1> HIDE DEF h
<1> QED
  BY <1>4, <1>5, <1>6 DEF InOrder, p

\* worker_order
Place(w) == CHOOSE i \in DOMAIN Names : Names[i] = w

LEMMA PlaceIs ==
  ASSUME NEW i \in DOMAIN Names
  PROVE  Place(Names[i]) = i /\ i \in Nat
<1>1. \A j \in DOMAIN Names : Names[j] = Names[i] => j = i
  BY FleetAssumption
<1>2. Names \in Seq(STRING)
  BY FleetAssumption
<1> QED
  BY <1>1, <1>2 DEF Place

\* The first of them is before all the others.
LEMMA FirstPlaced ==
  ASSUME NEW s, InOrder(s), s # <<>>
  PROVE  s[1] \in ToSet(s) /\ \A w \in ToSet(s) : Place(w) \in Nat /\ (w # s[1] => Place(s[1]) < Place(w))
<1>1. DOMAIN s = 1..Len(s) /\ Len(s) \in Nat /\ 1 \in DOMAIN s
  BY DEF InOrder
<1>2. PICK f \in [DOMAIN s -> DOMAIN Names] : /\ \A k \in DOMAIN s : Names[f[k]] = s[k]
                                              /\ \A k, l \in DOMAIN s : k < l => f[k] < f[l]
  BY DEF InOrder
<1>3. \A k \in DOMAIN s : Place(s[k]) = f[k] /\ f[k] \in Nat
  BY <1>2, PlaceIs
<1>4. ASSUME NEW w \in ToSet(s), w # s[1]
      PROVE  Place(s[1]) < Place(w)
  <2>1. PICK k \in DOMAIN s : s[k] = w
    BY DEF ToSet
  <2>2. 1 < k
    BY <1>1, <1>4, <2>1
  <2> QED
    BY <1>1, <1>2, <1>3, <2>1, <2>2
<1> QED
  BY <1>1, <1>3, <1>4 DEF ToSet

LEMMA NamesInOrder == InOrder(Names)
<1>1. Names \in Seq(STRING)
  BY FleetAssumption
<1>2. Names \in Seq(ToSet(Names)) /\ DOMAIN Names \in SUBSET Nat
  BY <1>1 DEF ToSet
<1> DEFINE f == [k \in DOMAIN Names |-> k]
<1>3. f \in [DOMAIN Names -> DOMAIN Names] /\ \A k \in DOMAIN Names : f[k] = k
  OBVIOUS
<1> HIDE DEF f
<1> QED
  BY <1>2, <1>3 DEF InOrder

-----------------------------------------------------------------------------
(* The replay: what a key tells *)

\* Runtimes with one build and one draft model.
LEMMA RuntimeDraft ==
  ASSUME NEW r \in Runtimes
  PROVE  r.mtp => r.draftName = r.draftHash
  BY DEF Runtimes, Runtime

LEMMA BlockIs ==
  ASSUME NEW r, NEW t
  PROVE  Block(r) = Block(t) <=> r.build = t.build /\ r.mtp = t.mtp /\ DraftKey(r) = DraftKey(t)
  BY DEF Block

\* An entry fits what has its block.
LEMMA FitsBlock ==
  ASSUME NEW e \in SoundEntries, NEW r \in Runtimes, e.runtime.model = r.model
  PROVE  Fits(e, r) <=> Block(r) = Block(e.runtime)
<1>1. Strict(e.runtime) /\ e.runtime \in Runtimes
  BY DEF SoundEntries, Entries
<1>2. /\ r.mtp => r.draftName = r.draftHash
      /\ e.runtime.mtp => e.runtime.draftName = e.runtime.draftHash
  BY <1>1, RuntimeDraft
<1>3. Fits(e, r) => Block(r) = Block(e.runtime)
  BY BlockIs DEF Fits
<1>4. ASSUME Block(r) = Block(e.runtime)
      PROVE  Fits(e, r)
  <2>1. r.build = e.runtime.build /\ r.mtp = e.runtime.mtp /\ DraftKey(r) = DraftKey(e.runtime)
    BY <1>4, BlockIs
  <2>2. r.mtp => r.draftHash = e.runtime.draftHash
    BY <2>1 DEF DraftKey
  <2> QED
    BY <1>1, <1>2, <2>1, <2>2 DEF Fits, Strict
<1> QED
  BY <1>3, <1>4

LEMMA KeyTells ==
  ASSUME NEW e \in SoundEntries, NEW c, Wellformed(c), NEW r \in Runtimes, e.key = KeyOf(c.id, c.prefix, c.policy, r)
  PROVE  /\ e.id = c.id /\ e.prefix = c.prefix
         /\ e.policy.scope = c.policy.scope /\ e.policy.tenant = c.policy.tenant /\ e.policy.rule = c.policy.rule
         /\ c.policy.scope = "conversation" => e.policy.conversation = c.policy.conversation
         /\ e.runtime.model = r.model /\ Block(e.runtime) = Block(r)
<1> DEFINE m == <<e.id, e.prefix, e.policy>>
           l == <<c.id, c.prefix, c.policy>>
<1>1. m \in Material /\ e.key = KeyOf(m[1], m[2], m[3], e.runtime) /\ e.runtime \in Runtimes
  BY DEF SoundEntries, Entries
<1>2. l \in Material /\ e.key = KeyOf(l[1], l[2], l[3], r)
  BY DEF Wellformed
<1>6. m[1] = e.id /\ m[2] = e.prefix /\ m[3] = e.policy /\ l[1] = c.id /\ l[2] = c.prefix /\ l[3] = c.policy
  OBVIOUS
<1> HIDE DEF m, l
<1>3. KeyFields(m[1], m[2], m[3], e.runtime) = KeyFields(l[1], l[2], l[3], r)
  <2>1. KeyOf(m[1], m[2], m[3], e.runtime) = KeyOf(l[1], l[2], l[3], r)
    BY <1>1, <1>2
  <2>2. \A t, u \in Runtimes :
          KeyOf(m[1], m[2], m[3], t) = KeyOf(l[1], l[2], l[3], u) => KeyFields(m[1], m[2], m[3], t) = KeyFields(l[1], l[2], l[3], u)
    BY <1>1, <1>2, DigestAssumption
  <2> QED
    BY <1>1, <2>1, <2>2
<1>4. KeyFields(e.id, e.prefix, e.policy, e.runtime) = KeyFields(c.id, c.prefix, c.policy, r)
  BY <1>3, <1>6
<1>5. /\ e.id = c.id /\ e.prefix = c.prefix
      /\ e.policy.scope = c.policy.scope /\ e.policy.tenant = c.policy.tenant /\ e.policy.rule = c.policy.rule
      /\ c.policy.scope = "conversation" => e.policy.conversation = c.policy.conversation
      /\ e.runtime.model = r.model /\ e.runtime.build = r.build /\ e.runtime.mtp = r.mtp /\ DraftKey(e.runtime) = DraftKey(r)
  BY <1>4 DEF KeyFields
<1> QED
  BY <1>5, BlockIs

\* The scopes a policy may use a cache in.
Usable(p) == p.scope \in {"conversation", "tenant"}

LEMMA PolicyTells ==
  ASSUME NEW e \in SoundEntries, NEW p,
         p.scope = e.policy.scope, p.tenant = e.policy.tenant, p.rule = e.policy.rule,
         p.scope = "conversation" => p.conversation = e.policy.conversation
  PROVE  PolicyDenial(p, e) = "none" <=> Usable(p)
<1>1. RecordPolicy(e) = e.policy
  BY EntryIs
<1>2. RequestDenial(p) = "none" <=> Usable(p)
  BY DEF RequestDenial, Usable, Scopes
<1> QED
  BY <1>1, <1>2 DEF PolicyDenial

\* A policy that may use a cache has one entry of a key at most.
LEMMA KeyedOnce ==
  ASSUME NEW rs \in Registries, NEW c, Wellformed(c), Usable(c.policy), NEW r \in Runtimes,
         NEW i \in DOMAIN rs, NEW j \in DOMAIN rs,
         rs[i].key = KeyOf(c.id, c.prefix, c.policy, r), rs[j].key = KeyOf(c.id, c.prefix, c.policy, r)
  PROVE  i = j
<1>1. i \in Nat /\ j \in Nat /\ Apart(rs) /\ rs[i] \in SoundEntries /\ rs[j] \in SoundEntries
  BY RegistryRow DEF Registries
<1> DEFINE Alike(d, e) == /\ d.id = e.id /\ d.policy.scope = e.policy.scope /\ d.policy.tenant = e.policy.tenant
                          /\ d.policy.rule = e.policy.rule /\ Usable(d.policy)
                          /\ d.policy.scope = "conversation" => d.policy.conversation = e.policy.conversation
<1>2. Alike(rs[i], rs[j]) /\ Alike(rs[j], rs[i])
  BY <1>1, KeyTells DEF Usable
<1>3. PolicyDenial(rs[j].policy, rs[i]) = "none" /\ PolicyDenial(rs[i].policy, rs[j]) = "none"
  BY <1>1, <1>2, PolicyTells
<1>4. ~(i < j) /\ ~(j < i)
  BY <1>1, <1>2, <1>3 DEF Apart
<1> QED
  BY <1>1, <1>4

FiledAt(rs, c, k) == FindEntry(rs, c.id, {c.policy}, {k})

\* What a lookup by a derived key finds.
LEMMA EnsureIs ==
  ASSUME NEW rs \in Registries, NEW c, Wellformed(c), NEW r \in Runtimes, NEW k, k = KeyOf(c.id, c.prefix, c.policy, r)
  PROVE  /\ Ensure(rs, c.id, c.policy, k) = "found"
              <=> Usable(c.policy) /\ \E j \in DOMAIN rs : rs[j].key = k /\ rs[j].status = "validated"
         /\ Ensure(rs, c.id, c.policy, k) = "found"
              => FiledAt(rs, c, k) \in DOMAIN rs /\ rs[FiledAt(rs, c, k)].key = k
<1> DEFINE i == FindEntry(rs, c.id, {c.policy}, {k})
           T == Found(rs, c.id, {c.policy}, {k})
<1>1. \A j \in DOMAIN rs : rs[j] \in SoundEntries /\ rs[j].status \in {"validated", "quarantined"} /\ CanonicalKey(rs[j]) = rs[j].key
  BY RegistryRow, EntryIs DEF Entries
<1>2. ASSUME NEW j \in DOMAIN rs
      PROVE  j \in T <=> rs[j].key = k /\ Usable(c.policy)
  <2>1. rs[j].key = k => rs[j].id = c.id /\ (PolicyDenial(c.policy, rs[j]) = "none" <=> Usable(c.policy))
    BY <1>1, KeyTells, PolicyTells
  <2> QED
    BY <2>1 DEF Found
<1>3. T \in SUBSET DOMAIN rs
  BY DEF Found
<1>4. (T = {} => i = 0) /\ (T # {} => i \in T /\ i # 0)
  BY FindEntryIs
<1> HIDE DEF i, T
<1>5. Ensure(rs, c.id, c.policy, k) = "found" <=> i # 0 /\ ~Quarantined(rs[i]) /\ CanonicalKey(rs[i]) = k
  BY DEF Ensure, i
<1>6. ASSUME Usable(c.policy), NEW j \in DOMAIN rs, rs[j].key = k, rs[j].status = "validated"
      PROVE  i # 0 /\ ~Quarantined(rs[i]) /\ CanonicalKey(rs[i]) = k
  <2>1. j \in T /\ i \in T /\ i # 0
    BY <1>2, <1>4, <1>6
  <2>2. i \in DOMAIN rs /\ rs[i].key = k
    BY <1>2, <1>3, <2>1
  <2>3. i = j
    BY <1>6, <2>2, KeyedOnce
  <2> QED
    BY <1>1, <1>6, <2>1, <2>2, <2>3 DEF Quarantined
<1>7. i # 0 => i \in DOMAIN rs /\ rs[i].key = k /\ Usable(c.policy)
  BY <1>2, <1>3, <1>4
<1>8. i # 0 /\ ~Quarantined(rs[i]) => rs[i].status = "validated"
  BY <1>1, <1>7 DEF Quarantined
<1>9. /\ Ensure(rs, c.id, c.policy, k) = "found"
           <=> Usable(c.policy) /\ \E j \in DOMAIN rs : rs[j].key = k /\ rs[j].status = "validated"
      /\ Ensure(rs, c.id, c.policy, k) = "found" => i \in DOMAIN rs /\ rs[i].key = k
  BY <1>5, <1>6, <1>7, <1>8
<1> QED
  BY <1>9 DEF i, FiledAt

-----------------------------------------------------------------------------
(* The replay: what it selects *)

Manifests(rs) == [i \in DOMAIN rs |-> ReplayManifest(rs[i])]

\* The request of client c that is replayed is the one derived on worker n of its model.
Replayed(c, n) == ws \in Fleets /\ Wellformed(c) /\ n \in DOMAIN ws /\ ws[n].row.model = c.model

LEMMA WorkerIs ==
  ASSUME ws \in Fleets, NEW w \in DOMAIN ws
  PROVE  /\ w \in ToSet(Names) /\ Runtime(ws[w].row) \in Runtimes /\ Runtime(ws[w].row).model = ws[w].row.model
         /\ LET x == ReplayWorkers[w] IN
            /\ x.health = "healthy" /\ x.capacity = ws[w].ready /\ x.models = {ws[w].row.model}
            /\ x.block = Block(Runtime(ws[w].row)) /\ x.restores /\ x.hydrates /\ x.context = 1
<1>1. DOMAIN ws = ToSet(Names)
  BY FleetAssumption
<1> QED
  BY <1>1 DEF ReplayWorkers, Runtimes, Runtime

LEMMA RequestIs ==
  ASSUME NEW c, NEW n, Replayed(c, n)
  PROVE  LET q == ReplayRequest(c, n) r == Runtime(ws[n].row) IN
         /\ q.key = KeyOf(c.id, c.prefix, c.policy, r) /\ q.key # "none" /\ q.scope = c.policy.scope /\ q.model = c.model
         /\ q.prefix = c.prefix /\ q.tenant = c.policy.tenant /\ q.conversation = c.policy.conversation
         /\ q.workers = Names /\ q.block = Block(r) /\ q.context = 1 /\ r \in Runtimes /\ r.model = c.model
<1>1. n \in ToSet(Names) /\ Runtime(ws[n].row) \in Runtimes /\ Runtime(ws[n].row).model = c.model
  BY WorkerIs DEF Replayed
<1>2. KeyOf(c.id, c.prefix, c.policy, Runtime(ws[n].row)) # "none"
  BY <1>1, KeyIs DEF Replayed
<1> QED
  BY <1>1, <1>2 DEF ReplayRequest

LEMMA ManifestIs ==
  ASSUME NEW e \in SoundEntries
  PROVE  LET m == ReplayManifest(e) IN
         /\ m.key = e.key /\ m.key # "none" /\ m # NoManifest
         /\ m.scope = e.policy.scope /\ m.model = e.runtime.model /\ m.prefix = e.prefix
         /\ m.tenant = e.policy.tenant /\ m.conversation = e.policy.conversation /\ m.status = e.status /\ m.encrypted
         /\ m.block = Block(e.runtime) /\ m.durable /\ ~m.failsRestore /\ m.priority = 100
<1> DEFINE m == ReplayManifest(e)
<1>1. /\ m.key = e.key
      /\ m.scope = e.policy.scope /\ m.model = e.runtime.model /\ m.prefix = e.prefix
      /\ m.tenant = e.policy.tenant /\ m.conversation = e.policy.conversation /\ m.status = e.status /\ m.encrypted
      /\ m.block = Block(e.runtime) /\ m.durable /\ ~m.failsRestore /\ m.priority = 100
  BY DEF ReplayManifest
<1> HIDE DEF m
<1>2. e.key # "none"
  BY EntryIs
<1>3. m # NoManifest
  BY <1>1, <1>2 DEF NoManifest
<1> QED
  BY <1>1, <1>2, <1>3 DEF m

\* The workers that could serve, and those among them that can restore.
LEMMA EligibleIs ==
  ASSUME NEW c, NEW n, Replayed(c, n)
  PROVE  LET q == ReplayRequest(c, n) able == Eligible(q, ReplayWorkers) IN
         /\ InOrder(able)
         /\ \A w : w \in ToSet(able) <=> w \in DOMAIN ws /\ ws[w].ready /\ ws[w].row.model = c.model /\ Block(Runtime(ws[w].row)) = q.block
<1> DEFINE q == ReplayRequest(c, n)
           able == Eligible(q, ReplayWorkers)
           serves(w) == /\ w \in DOMAIN ReplayWorkers /\ ReplayWorkers[w].health = "healthy" /\ ReplayWorkers[w].capacity
                        /\ q.model \in ReplayWorkers[w].models /\ ReplayWorkers[w].block = q.block
           I == {i \in DOMAIN Names : serves(Names[i])}
<1>1. q.workers = Names /\ q.model = c.model
  BY RequestIs
<1>2. able = Picked(Names, I)
  BY <1>1 DEF Eligible
<1>3. DOMAIN ReplayWorkers = DOMAIN ws /\ DOMAIN ws = ToSet(Names) /\ ws \in Fleets
  BY FleetAssumption DEF ReplayWorkers, Replayed
<1> HIDE DEF q, able
<1>4. \A w : serves(w) <=> w \in DOMAIN ws /\ ws[w].ready /\ ws[w].row.model = c.model /\ Block(Runtime(ws[w].row)) = q.block
  BY <1>1, <1>3, WorkerIs
<1>5. \A i \in DOMAIN Names : i \in I <=> serves(Names[i])
  OBVIOUS
<1> HIDE DEF serves, I
<1>6. InOrder(able)
  BY <1>2, NamesInOrder, OrderKept
<1>7. Names \in Seq(ToSet(Names))
  BY NamesInOrder DEF InOrder
<1>8. \A w : w \in ToSet(able) <=> \E j \in DOMAIN Names : j \in I /\ Names[j] = w
  BY <1>2, <1>7, PickedSet
<1>9. \A w : w \in ToSet(able) <=> w \in ToSet(Names) /\ serves(w)
  BY <1>5, <1>8 DEF ToSet
<1> QED
  BY <1>3, <1>4, <1>6, <1>9 DEF q, able

LEMMA RestoringIs ==
  ASSUME ws \in Fleets, NEW s, InOrder(s), ToSet(s) \subseteq DOMAIN ws
  PROVE  /\ InOrder(Restoring(s, ReplayWorkers)) /\ ToSet(Restoring(s, ReplayWorkers)) = ToSet(s)
         /\ InOrder(Hydrating(s, ReplayWorkers)) /\ ToSet(Hydrating(s, ReplayWorkers)) = ToSet(s)
         /\ Hydrating(s, ReplayWorkers) = <<>> <=> s = <<>>
<1> DEFINE I == {i \in DOMAIN s : ReplayWorkers[s[i]].restores}
           t == Restoring(s, ReplayWorkers)
           J == {i \in DOMAIN t : ReplayWorkers[t[i]].hydrates}
           u == Hydrating(s, ReplayWorkers)
<1>1. t = Picked(s, I) /\ u = Picked(t, J)
  BY DEF Restoring, Hydrating
<1>2. \A i \in DOMAIN s : i \in I
  BY WorkerIs DEF ToSet
<1>3. s \in Seq(ToSet(Names))
  BY DEF InOrder
<1> HIDE DEF I, t, u
<1>4. InOrder(t) /\ \A w : w \in ToSet(t) <=> \E j \in DOMAIN s : j \in I /\ s[j] = w
  BY <1>1, <1>3, OrderKept, PickedSet
<1>5. ToSet(t) = ToSet(s)
  BY <1>2, <1>4 DEF ToSet
<1>6. \A i \in DOMAIN t : i \in J
  BY <1>5, WorkerIs DEF ToSet
<1>7. t \in Seq(ToSet(Names))
  BY <1>4 DEF InOrder
<1> HIDE DEF J
<1>8. /\ InOrder(u) /\ \A w : w \in ToSet(u) <=> \E j \in DOMAIN t : j \in J /\ t[j] = w
      /\ u = <<>> <=> ToSet(u) = {}
  BY <1>1, <1>4, <1>7, OrderKept, PickedSet
<1>9. ToSet(u) = ToSet(s)
  BY <1>5, <1>6, <1>8 DEF ToSet
<1>10. s = <<>> <=> ToSet(s) = {}
  <2>1. DOMAIN s = {} => s = <<>>
    BY <1>3
  <2>2. ToSet(<<>>) = {}
    BY DEF ToSet
  <2> QED
    BY <2>1, <2>2 DEF ToSet
<1> QED
  BY <1>4, <1>5, <1>8, <1>9, <1>10 DEF t, u

LEMMA HoldingIs ==
  ASSUME NEW s, InOrder(s), NEW m
  PROVE  /\ InOrder(Holding(s, m))
         /\ \A w : w \in ToSet(Holding(s, m)) <=> w \in ToSet(s) /\ Resident(m, w)
         /\ Holding(s, m) = <<>> <=> ToSet(Holding(s, m)) = {}
<1> DEFINE I == {i \in DOMAIN s : Resident(m, s[i])}
           h == Holding(s, m)
<1>1. h = Picked(s, I) /\ \A i \in DOMAIN s : i \in I <=> Resident(m, s[i])
  BY DEF Holding
<1>2. s \in Seq(ToSet(Names))
  BY DEF InOrder
<1> HIDE DEF I, h
<1>3. /\ InOrder(h) /\ \A w : w \in ToSet(h) <=> \E j \in DOMAIN s : j \in I /\ s[j] = w
      /\ h = <<>> <=> ToSet(h) = {}
  BY <1>1, <1>2, OrderKept, PickedSet
<1>4. \A w : w \in ToSet(h) <=> w \in ToSet(s) /\ Resident(m, w)
  BY <1>1, <1>3 DEF ToSet
<1> QED
  BY <1>3, <1>4 DEF h

\* A manifest matches if it is sound and filed under the key asked for.
LEMMA MatchesIs ==
  ASSUME NEW c, NEW n, Replayed(c, n), NEW e \in SoundEntries
  PROVE  LET q == ReplayRequest(c, n) m == ReplayManifest(e) IN
         /\ Matches(m, q) <=> e.key = q.key /\ e.status = "validated"
         /\ Matches(m, q) => /\ Allows(ReplayPolicy, q, m) <=> Usable(c.policy)
                             /\ ManifestReason(m, q) = "match"
                             /\ Usable(c.policy) => PolicyReason(ReplayPolicy, q, m) = "match"
<1> DEFINE q == ReplayRequest(c, n)
           m == ReplayManifest(e)
           r == Runtime(ws[n].row)
<1>1. /\ q.key = KeyOf(c.id, c.prefix, c.policy, r) /\ q.scope = c.policy.scope /\ q.model = c.model
      /\ q.prefix = c.prefix /\ q.tenant = c.policy.tenant /\ q.conversation = c.policy.conversation
      /\ q.block = Block(r) /\ r \in Runtimes /\ r.model = c.model
  BY RequestIs
<1>2. /\ m.key = e.key /\ m.scope = e.policy.scope /\ m.model = e.runtime.model /\ m.prefix = e.prefix
      /\ m.tenant = e.policy.tenant /\ m.conversation = e.policy.conversation /\ m.status = e.status /\ m.encrypted
      /\ m.block = Block(e.runtime)
  BY ManifestIs
<1> HIDE DEF q, m, r
<1>3. ASSUME e.key = q.key
      PROVE  /\ m.scope = q.scope /\ m.model = q.model /\ m.prefix = q.prefix /\ m.tenant = q.tenant /\ m.block = q.block
             /\ q.scope = "conversation" => m.conversation = q.conversation
    <2>1. Wellformed(c)
      BY DEF Replayed
    <2> QED
      BY <1>1, <1>2, <1>3, <2>1, KeyTells
<1>4. Matches(m, q) <=> e.key = q.key /\ e.status = "validated"
  BY <1>2, <1>3 DEF Matches
<1>5. ASSUME Matches(m, q)
      PROVE  /\ Allows(ReplayPolicy, q, m) <=> Usable(c.policy)
             /\ Usable(c.policy) => PolicyReason(ReplayPolicy, q, m) = "match"
  <2>1. q.tenant = m.tenant /\ (q.scope = "conversation" => q.conversation = m.conversation)
    BY <1>3, <1>4, <1>5
  <2>2. Allows(ReplayPolicy, q, m) <=> q.scope \in {"conversation", "tenant"}
    BY <2>1 DEF Allows, ReplayPolicy
  <2>3. q.scope \in {"conversation", "tenant"} => PolicyReason(ReplayPolicy, q, m) = "match"
    BY <2>1 DEF PolicyReason, ReplayPolicy
  <2> QED
    BY <1>1, <2>2, <2>3 DEF Usable
<1>6. Matches(m, q) => ManifestReason(m, q) = "match"
  <2>1. Matches(m, q) => \A f \in {"key", "scope", "model", "prefix"} : m[f] = q[f]
    BY DEF Matches
  <2> QED
    BY <2>1 DEF Matches, ManifestReason
<1> QED
  BY <1>4, <1>5, <1>6 DEF q, m

-----------------------------------------------------------------------------
(* The replay: its events *)

LEMMA EventIs ==
  ASSUME NEW q, NEW m, NEW phase, NEW decision, NEW worker, NEW hit, NEW compat, NEW status, NEW reason
  PROVE  LET e == Event(q, m, Decided(phase, decision, worker, hit, compat, status, reason)) IN
         /\ e.phase = phase /\ e.decision = decision /\ e.worker = worker /\ e.hit = hit /\ e.compat = compat
         /\ e.status = status /\ e.reason = reason /\ e.manifest = m.key
         /\ e.fallback <=> reason # "none"
         /\ m # NoManifest => e.key = m.key
  BY DEF Event, Decided

\* A decision that serves nothing says why.
LEMMA Unserved ==
  ASSUME NEW q, NEW m, NEW phase \in {"request_failed", "cold_prefill_selected"},
         NEW decision \in {"reject_capacity", "reject_policy", "cold_prefill"}, NEW worker,
         NEW hit \in {"none", "registry_only"}, NEW compat, NEW status, NEW reason, reason # "none"
  PROVE  LET e == Event(q, m, Decided(phase, decision, worker, hit, compat, status, reason)) IN ValidEvent(e, Expected(e)) /\ ~Serves(e)
<1> DEFINE e == Event(q, m, Decided(phase, decision, worker, hit, compat, status, reason))
<1>1. /\ e.phase = phase /\ e.decision = decision /\ e.hit = hit /\ e.reason = reason
      /\ e.fallback <=> reason # "none"
  BY EventIs
<1> HIDE DEF e
<1>2. "fallback" \in Expected(e)
  BY <1>1 DEF Expected
<1>3. ValidEvent(e, Expected(e))
  BY <1>1, <1>2 DEF ValidEvent, Dependent, Positive
<1>4. ~Serves(e)
  BY <1>1 DEF Serves
<1> QED
  BY <1>3, <1>4 DEF e

HotHit(q, m, worker) == Event(q, m, Decided("worker_selected", "hot_local_hit", worker, "local_nvme", "match", "validated", "none"))
DurableHit(q, m, worker) ==
  Event(q, m, Decided("hydrate_requested", "durable_hit_hydrate", worker, "durable_blob", "match", "validated", "none"))

\* A decision that serves names the manifest.
LEMMA ServedEvent ==
  ASSUME NEW q, NEW m, m # NoManifest, m.key # "none", NEW worker
  PROVE  /\ LET e == HotHit(q, m, worker) IN
            ValidEvent(e, Expected(e)) /\ Serves(e) /\ e.key = m.key /\ e.worker = worker /\ e.decision = "hot_local_hit"
         /\ LET e == DurableHit(q, m, worker) IN
            ValidEvent(e, Expected(e)) /\ Serves(e) /\ e.key = m.key /\ e.worker = worker /\ e.decision = "durable_hit_hydrate"
<1>1. ASSUME NEW e, e.decision \in {"hot_local_hit", "durable_hit_hydrate"}, e.hit \in {"local_nvme", "durable_blob"},
             e.compat = "match", e.status = "validated", e.reason = "none", ~e.fallback, e.manifest = m.key, e.key = m.key
      PROVE  ValidEvent(e, Expected(e)) /\ Serves(e)
  <2>1. "lookup" \in Expected(e)
    BY <1>1 DEF Expected
  <2>2. ValidEvent(e, Expected(e))
    BY <1>1, <2>1 DEF ValidEvent, Dependent, Positive, Identified, Distrusted
  <2> QED
    BY <1>1, <2>2 DEF Serves
<1> DEFINE e == HotHit(q, m, worker)
           f == DurableHit(q, m, worker)
<1>2. /\ e.decision = "hot_local_hit" /\ e.worker = worker /\ e.hit = "local_nvme" /\ e.compat = "match"
      /\ e.status = "validated" /\ e.reason = "none" /\ e.manifest = m.key /\ e.key = m.key /\ ~e.fallback
  BY EventIs DEF HotHit
<1>3. /\ f.decision = "durable_hit_hydrate" /\ f.worker = worker /\ f.hit = "durable_blob" /\ f.compat = "match"
      /\ f.status = "validated" /\ f.reason = "none" /\ f.manifest = m.key /\ f.key = m.key /\ ~f.fallback
  BY EventIs DEF DurableHit
<1> HIDE DEF e, f
<1>4. ValidEvent(e, Expected(e)) /\ Serves(e)
  BY <1>1, <1>2
<1>5. ValidEvent(f, Expected(f)) /\ Serves(f)
  BY <1>1, <1>3
<1> QED
  BY <1>2, <1>3, <1>4, <1>5 DEF e, f

-----------------------------------------------------------------------------
(* The replay: what it finds *)

\* The places of the sound entries under key k, and the manifests that match a request.
FiledSound(rs, k) == {i \in DOMAIN rs : rs[i].key = k /\ rs[i].status = "validated"}
Exact(q, ms) == Picked(Candidates(q, ms), {i \in DOMAIN Candidates(q, ms) : Matches(Candidates(q, ms)[i], q)})

LEMMA ExactAre ==
  ASSUME NEW c, NEW n, Replayed(c, n), NEW rs \in Registries
  PROVE  LET q == ReplayRequest(c, n) found == Candidates(q, Manifests(rs)) exact == Exact(q, Manifests(rs)) IN
         /\ found = <<>> <=> ToSet(found) = {}
         /\ exact = <<>> <=> ToSet(exact) = {}
         /\ exact # <<>> => exact[1] \in ToSet(exact)
         /\ \A x : x \in ToSet(exact) <=> x \in ToSet(found) /\ Matches(x, q)
         /\ \A x : x \in ToSet(exact) <=> \E i \in FiledSound(rs, q.key) : x = Manifests(rs)[i]
<1> DEFINE q == ReplayRequest(c, n)
           M == Manifests(rs)
           found == Candidates(q, M)
           I == {i \in DOMAIN M : M[i].key = q.key \/ M[i].prefix = q.prefix}
           exact == Exact(q, M)
           J == {i \in DOMAIN found : Matches(found[i], q)}
           X == {ReplayManifest(e) : e \in SoundEntries}
<1>1. rs \in Seq(SoundEntries)
  BY DEF Registries
<1>2. M \in Seq(X) /\ DOMAIN M = DOMAIN rs /\ \A i \in DOMAIN M : M[i] = ReplayManifest(rs[i]) /\ rs[i] \in SoundEntries
  BY <1>1 DEF Manifests
<1>3. found = Picked(M, I)
  BY DEF Candidates
<1>4. exact = Picked(found, J)
  BY DEF Exact
<1>5. \A i \in DOMAIN M : (i \in I <=> M[i].key = q.key \/ M[i].prefix = q.prefix)
  OBVIOUS
<1>6. \A i \in DOMAIN found : (i \in J <=> Matches(found[i], q))
  OBVIOUS
<1>7. \A i \in DOMAIN M : (Matches(M[i], q) <=> i \in FiledSound(rs, q.key))
  BY <1>2, MatchesIs DEF FiledSound
<1>8. \A i \in DOMAIN M : Matches(M[i], q) => M[i].key = q.key
  BY DEF Matches
<1>9. FiledSound(rs, q.key) \subseteq DOMAIN M
  BY <1>2 DEF FiledSound
<1> HIDE DEF q, M, found, exact, I, J, X
<1>10. /\ found \in Seq(X) /\ (found = <<>> <=> ToSet(found) = {})
       /\ \A x : x \in ToSet(found) <=> \E j \in DOMAIN M : j \in I /\ M[j] = x
  BY <1>2, <1>3, PickedSet
<1>11. /\ exact \in Seq(X) /\ (exact = <<>> <=> ToSet(exact) = {})
       /\ \A x : x \in ToSet(exact) <=> \E j \in DOMAIN found : j \in J /\ found[j] = x
  BY <1>4, <1>10, PickedSet
<1>12. \A x : x \in ToSet(exact) <=> x \in ToSet(found) /\ Matches(x, q)
  BY <1>6, <1>11 DEF ToSet
<1>13. \A x : x \in ToSet(exact) <=> \E i \in FiledSound(rs, q.key) : x = M[i]
  <2>1. ASSUME NEW x \in ToSet(exact)
        PROVE  \E i \in FiledSound(rs, q.key) : x = M[i]
    BY <1>7, <1>10, <1>12
  <2>2. ASSUME NEW i \in FiledSound(rs, q.key)
        PROVE  M[i] \in ToSet(exact)
    BY <1>5, <1>7, <1>8, <1>9, <1>10, <1>12
  <2> QED
    BY <2>1, <2>2
<1>14. exact # <<>> => exact[1] \in ToSet(exact)
  BY <1>11 DEF ToSet
<1> QED
  BY <1>10, <1>11, <1>12, <1>13, <1>14 DEF q, M, found, exact

\* Event e serves manifest m on the worker that comes first: one of those that have it, or any that could serve.
ServedBy(able, m, e) ==
  LET holding == Holding(Restoring(able, ReplayWorkers), m)
  IN /\ e.key = m.key
     /\ e.decision = IF holding # <<>> THEN "hot_local_hit" ELSE "durable_hit_hydrate"
     /\ e.worker = IF holding # <<>> THEN holding[1] ELSE Hydrating(able, ReplayWorkers)[1]

\* What both replays decide.
RightDecision(c, n, rs, e) ==
  LET q == ReplayRequest(c, n) able == Eligible(q, ReplayWorkers) IN
  /\ ValidEvent(e, Expected(e))
  /\ Serves(e) <=> able # <<>> /\ Usable(c.policy) /\ FiledSound(rs, q.key) # {}
  /\ Serves(e) => \A i \in FiledSound(rs, q.key) : ServedBy(able, Manifests(rs)[i], e)

\* A policy that may use a cache finds one manifest at most.
LEMMA OneExact ==
  ASSUME NEW c, NEW n, Replayed(c, n), NEW rs \in Registries, Usable(c.policy)
  PROVE  LET q == ReplayRequest(c, n) exact == ToSet(Exact(q, Manifests(rs))) IN
         \A i \in FiledSound(rs, q.key) : exact = {Manifests(rs)[i]}
<1> DEFINE q == ReplayRequest(c, n)
           r == Runtime(ws[n].row)
           exact == ToSet(Exact(q, Manifests(rs)))
<1>1. q.key = KeyOf(c.id, c.prefix, c.policy, r) /\ r \in Runtimes /\ Wellformed(c)
  BY RequestIs DEF Replayed
<1>2. \A x : x \in exact <=> \E i \in FiledSound(rs, q.key) : x = Manifests(rs)[i]
  BY ExactAre
<1> HIDE DEF q, r, exact
<1>3. \A i, j \in FiledSound(rs, q.key) : i = j
  BY <1>1, KeyedOnce DEF FiledSound
<1>4. \A i \in FiledSound(rs, q.key) : exact = {Manifests(rs)[i]}
  BY <1>2, <1>3
<1> QED
  BY <1>4 DEF exact, q

LEMMA ExactManifests ==
  ASSUME NEW c, NEW n, Replayed(c, n), NEW rs \in Registries, NEW m \in ToSet(Exact(ReplayRequest(c, n), Manifests(rs)))
  PROVE  /\ m # NoManifest /\ m.key # "none" /\ m.durable /\ ~m.failsRestore /\ m.priority = 100
         /\ Allows(ReplayPolicy, ReplayRequest(c, n), m) <=> Usable(c.policy)
<1> DEFINE q == ReplayRequest(c, n)
<1>1. PICK i \in FiledSound(rs, q.key) : m = Manifests(rs)[i]
  BY ExactAre
<1>2. i \in DOMAIN rs /\ m = ReplayManifest(rs[i]) /\ rs[i].key = q.key /\ rs[i].status = "validated"
  BY <1>1 DEF FiledSound, Manifests
<1>3. rs[i] \in SoundEntries
  BY <1>2, RegistryRow
<1> HIDE DEF q
<1>4. m # NoManifest /\ m.key # "none" /\ m.durable /\ ~m.failsRestore /\ m.priority = 100
  BY <1>2, <1>3, ManifestIs
<1>5. Matches(m, q) /\ (Matches(m, q) => (Allows(ReplayPolicy, q, m) <=> Usable(c.policy)))
  BY <1>2, <1>3, MatchesIs DEF q
<1> QED
  BY <1>4, <1>5 DEF q

-----------------------------------------------------------------------------
(* The replay and the prototype *)

LEMMA DecideIs ==
  ASSUME NEW c, NEW n, Replayed(c, n), NEW rs \in Registries
  PROVE  RightDecision(c, n, rs, Decide(ReplayRequest(c, n), ReplayWorkers, Manifests(rs), ReplayPolicy))
<1> DEFINE q == ReplayRequest(c, n)
           M == Manifests(rs)
           able == Eligible(q, ReplayWorkers)
           found == Candidates(q, M)
           exact == Exact(q, M)
           m == exact[1]
           restoring == Restoring(able, ReplayWorkers)
           holding == Holding(restoring, m)
           hydrating == Hydrating(able, ReplayWorkers)
           e == Decide(q, ReplayWorkers, M, ReplayPolicy)
<1>1. e = IF able = <<>> THEN
               Event(q, NoManifest, Decided("request_failed", "reject_capacity", "none", "none", "not_checked", "not_applicable",
                                            "worker_capacity"))
          ELSE IF found = <<>> THEN Event(q, NoManifest, Cold(able[1], "none", "miss", "not_applicable", "no_compatible_manifest"))
          ELSE IF exact = <<>> THEN Event(q, found[1], Cold(able[1], "registry_only", "mismatch", "not_checked", "cache_key_mismatch"))
          ELSE IF ~Allows(ReplayPolicy, q, m) THEN
               Event(q, m, IF ReplayPolicy.rejects
                           THEN Decided("request_failed", "reject_policy", "none", "registry_only", "policy_denied", "not_checked",
                                        "policy_denied")
                           ELSE Cold(able[1], "registry_only", "policy_denied", "not_checked", "policy_denied"))
          ELSE IF m.failsRestore /\ restoring # <<>> THEN
               Event(q, m, Decided("restore_validated", "fallback_after_restore_failure", restoring[1], "durable_blob", "match",
                                   "quarantined", "restore_validation_failed"))
          ELSE IF ~m.failsRestore /\ holding # <<>> THEN HotHit(q, m, holding[1])
          ELSE IF ~m.failsRestore /\ m.durable /\ hydrating # <<>> THEN DurableHit(q, m, hydrating[1])
          ELSE Event(q, m, Cold(able[1], "registry_only", "match", "not_checked", "no_compatible_manifest"))
  BY DEF Decide, Exact, HotHit, DurableHit
<1>2. ReplayPolicy.rejects
  BY DEF ReplayPolicy
<1>3. /\ InOrder(able) /\ \A w \in ToSet(able) : w \in DOMAIN ws
      /\ ws \in Fleets
  BY EligibleIs DEF Replayed
<1>4. hydrating = <<>> <=> able = <<>>
  BY <1>3, RestoringIs
<1>5. /\ found = <<>> <=> ToSet(found) = {}
      /\ exact = <<>> <=> ToSet(exact) = {}
      /\ exact # <<>> => m \in ToSet(exact)
      /\ \A x : x \in ToSet(exact) <=> x \in ToSet(found) /\ Matches(x, q)
      /\ \A x : x \in ToSet(exact) <=> \E i \in FiledSound(rs, q.key) : x = M[i]
  BY ExactAre
<1>6. exact # <<>> => /\ m # NoManifest /\ m.key # "none" /\ m.durable /\ ~m.failsRestore
                      /\ Allows(ReplayPolicy, q, m) <=> Usable(c.policy)
  BY <1>5, ExactManifests
<1>7. exact = <<>> <=> FiledSound(rs, q.key) = {}
  BY <1>5
<1>8. found = <<>> => exact = <<>>
  BY <1>5
<1>9. Usable(c.policy) => \A i \in FiledSound(rs, q.key) : ToSet(exact) = {M[i]}
  BY OneExact
<1>10. ASSUME m # NoManifest, m.key # "none", NEW w
       PROVE  /\ LET h == HotHit(q, m, w) IN
                 ValidEvent(h, Expected(h)) /\ Serves(h) /\ h.key = m.key /\ h.worker = w /\ h.decision = "hot_local_hit"
              /\ LET h == DurableHit(q, m, w) IN
                 ValidEvent(h, Expected(h)) /\ Serves(h) /\ h.key = m.key /\ h.worker = w /\ h.decision = "durable_hit_hydrate"
  BY <1>10, ServedEvent
<1>12. able # <<>> /\ exact # <<>> /\ Usable(c.policy)
         => e = IF holding # <<>> THEN HotHit(q, m, holding[1]) ELSE DurableHit(q, m, hydrating[1])
  BY <1>1, <1>4, <1>6, <1>8
<1>13. ASSUME ~(able # <<>> /\ exact # <<>> /\ Usable(c.policy))
       PROVE  ValidEvent(e, Expected(e)) /\ ~Serves(e)
  <2>1. CASE able = <<>>
    <3>1. e = Event(q, NoManifest, Decided("request_failed", "reject_capacity", "none", "none", "not_checked", "not_applicable",
                                           "worker_capacity"))
      BY <1>1, <2>1
    <3> HIDE DEF e, q
    <3> QED
      BY <3>1, Unserved
  <2>2. CASE able # <<>> /\ found = <<>>
    <3>1. e = Event(q, NoManifest, Decided("cold_prefill_selected", "cold_prefill", able[1], "none", "miss", "not_applicable",
                                           "no_compatible_manifest"))
      BY <1>1, <2>2 DEF Cold
    <3> HIDE DEF e, q, able
    <3> QED
      BY <3>1, Unserved
  <2>3. CASE able # <<>> /\ found # <<>> /\ exact = <<>>
    <3>1. e = Event(q, found[1], Decided("cold_prefill_selected", "cold_prefill", able[1], "registry_only", "mismatch", "not_checked",
                                         "cache_key_mismatch"))
      BY <1>1, <2>3 DEF Cold
    <3> HIDE DEF e, q, able, found
    <3> QED
      BY <3>1, Unserved
  <2>4. CASE able # <<>> /\ exact # <<>> /\ ~Usable(c.policy)
    <3>1. e = Event(q, m, Decided("request_failed", "reject_policy", "none", "registry_only", "policy_denied", "not_checked",
                                  "policy_denied"))
      BY <1>1, <1>2, <1>6, <1>8, <2>4
    <3> HIDE DEF e, q, m
    <3> QED
      BY <3>1, Unserved
  <2> QED
    BY <1>13, <2>1, <2>2, <2>3, <2>4
<1> HIDE DEF e, exact, found, able, restoring, hydrating, q, M
<1>14. ASSUME able # <<>> /\ exact # <<>> /\ Usable(c.policy)
       PROVE  /\ ValidEvent(e, Expected(e)) /\ Serves(e)
              /\ e.key = m.key
              /\ e.decision = IF holding # <<>> THEN "hot_local_hit" ELSE "durable_hit_hydrate"
              /\ e.worker = IF holding # <<>> THEN holding[1] ELSE hydrating[1]
  <2> HIDE DEF m, holding
  <2>1. m # NoManifest /\ m.key # "none"
    BY <1>6, <1>14
  <2>2. CASE holding # <<>>
    BY <1>10, <1>12, <1>14, <2>1, <2>2
  <2>3. CASE holding = <<>>
    BY <1>10, <1>12, <1>14, <2>1, <2>3
  <2> QED
    BY <2>2, <2>3
<1>15. ASSUME Serves(e), NEW i \in FiledSound(rs, q.key)
       PROVE  ServedBy(able, M[i], e)
  <2>1. able # <<>> /\ exact # <<>> /\ Usable(c.policy)
    BY <1>13, <1>15
  <2>2. m = M[i]
    BY <1>5, <1>9, <1>15, <2>1
  <2>3. /\ e.key = m.key
        /\ e.decision = IF holding # <<>> THEN "hot_local_hit" ELSE "durable_hit_hydrate"
        /\ e.worker = IF holding # <<>> THEN holding[1] ELSE hydrating[1]
    BY <1>14, <2>1
  <2> HIDE DEF m
  <2> QED
    BY <2>2, <2>3 DEF ServedBy, restoring, hydrating
<1>16. /\ ValidEvent(e, Expected(e))
       /\ Serves(e) <=> able # <<>> /\ Usable(c.policy) /\ FiledSound(rs, q.key) # {}
  BY <1>7, <1>13, <1>14
<1> QED
  BY <1>15, <1>16 DEF RightDecision, e, q, able, M

\* How the prototype ranks worker w for manifest m, and its option there.
RankOn(m, w) == <<IF Resident(m, w) THEN 0 ELSE 1, m.priority, Place(w)>>
OptionOn(m, w) == [m |-> m, worker |-> w, hot |-> Resident(m, w), rank |-> RankOn(m, w)]

LEMMA RankIs ==
  ASSUME NEW m, m.priority = 100, NEW v, NEW w, Place(v) \in Nat, Place(w) \in Nat
  PROVE  RankBefore(RankOn(m, v), RankOn(m, w))
           <=> \/ Resident(m, v) /\ ~Resident(m, w)
               \/ (Resident(m, v) <=> Resident(m, w)) /\ Place(v) < Place(w)
<1> DEFINE r == RankOn(m, v)
           s == RankOn(m, w)
           a == IF Resident(m, v) THEN 0 ELSE 1
           b == IF Resident(m, w) THEN 0 ELSE 1
<1>1. r[1] = a /\ r[2] = 100 /\ r[3] = Place(v) /\ s[1] = b /\ s[2] = 100 /\ s[3] = Place(w)
  BY DEF RankOn
<1>2. RankBefore(r, s) <=> \E i \in 1..3 : r[i] < s[i] /\ \A j \in 1..(i - 1) : r[j] = s[j]
  BY DEF RankBefore
<1>3. /\ (Resident(m, v) => a = 0) /\ (~Resident(m, v) => a = 1)
      /\ (Resident(m, w) => b = 0) /\ (~Resident(m, w) => b = 1)
  OBVIOUS
<1> HIDE DEF r, s, a, b
<1>4. RankBefore(r, s) <=> a < b \/ (a = b /\ Place(v) < Place(w))
  <2>1. RankBefore(r, s) => a < b \/ (a = b /\ Place(v) < Place(w))
    <3>1. ASSUME NEW i \in 1..3, r[i] < s[i], \A j \in 1..(i - 1) : r[j] = s[j]
          PROVE  a < b \/ (a = b /\ Place(v) < Place(w))
      <4>1. CASE i = 1
        BY <1>1, <3>1, <4>1
      <4>2. CASE i = 2
        BY <1>1, <3>1, <4>2
      <4>3. CASE i = 3
        BY <1>1, <3>1, <4>3
      <4> QED
        BY <4>1, <4>2, <4>3
    <3> QED
      BY <1>2, <3>1
  <2>2. a < b => RankBefore(r, s)
    <3>1. a < b => r[1] < s[1] /\ \A j \in 1..(1 - 1) : r[j] = s[j]
      BY <1>1
    <3> QED
      BY <1>2, <3>1
  <2>3. a = b /\ Place(v) < Place(w) => RankBefore(r, s)
    <3>1. a = b /\ Place(v) < Place(w) => r[3] < s[3] /\ \A j \in 1..(3 - 1) : r[j] = s[j]
      BY <1>1
    <3> QED
      BY <1>2, <3>1
  <2> QED
    BY <2>1, <2>2, <2>3
<1>5. a < b <=> Resident(m, v) /\ ~Resident(m, w)
  BY <1>3
<1>6. a = b <=> (Resident(m, v) <=> Resident(m, w))
  BY <1>3
<1> QED
  BY <1>4, <1>5, <1>6 DEF r, s

\* The options for one manifest: all the workers that could serve.
LEMMA OptionsAre ==
  ASSUME NEW c, NEW n, Replayed(c, n), NEW m, m.durable, Allows(ReplayPolicy, ReplayRequest(c, n), m), NEW able,
         ToSet(able) \subseteq DOMAIN ws
  PROVE  RankedOptions(ReplayRequest(c, n), able, {m}, ReplayWorkers, ReplayPolicy) = {OptionOn(m, w) : w \in ToSet(able)}
<1> DEFINE q == ReplayRequest(c, n)
           rank(l, w) == <<IF Resident(l, w) THEN 0 ELSE 1, l.priority, CHOOSE i \in DOMAIN q.workers : q.workers[i] = w>>
           pairs == {l \in {m} : Allows(ReplayPolicy, q, l)} \X {w \in ToSet(able) : ReplayWorkers[w].restores}
           take(x) == Resident(x[1], x[2]) \/ (x[1].durable /\ ReplayWorkers[x[2]].hydrates)
           made(x) == [m |-> x[1], worker |-> x[2], hot |-> Resident(x[1], x[2]), rank |-> rank(x[1], x[2])]
           options == RankedOptions(q, able, {m}, ReplayWorkers, ReplayPolicy)
<1>1. options = {made(x) : x \in {x \in pairs : take(x)}}
  BY DEF RankedOptions
<1>2. q.workers = Names
  BY RequestIs
<1>3. \A w \in ToSet(able) : ReplayWorkers[w].restores /\ ReplayWorkers[w].hydrates
  BY WorkerIs DEF Replayed
<1>4. pairs = {m} \X ToSet(able)
  BY <1>3
<1>5. \A w : made(<<m, w>>) = OptionOn(m, w)
  BY <1>2 DEF OptionOn, RankOn, Place
<1>6. \A w \in ToSet(able) : take(<<m, w>>)
  BY <1>3
<1>7. \A x : x \in {m} \X ToSet(able) <=> \E w \in ToSet(able) : x = <<m, w>>
  OBVIOUS
<1>10. \A o : o \in options <=> \E x \in pairs : take(x) /\ o = made(x)
  <2> HIDE DEF pairs, take, made, options, q
  <2> QED
    BY <1>1
<1> HIDE DEF pairs, take, made, options, q
<1>8. ASSUME NEW o
      PROVE  o \in options <=> \E w \in ToSet(able) : o = OptionOn(m, w)
  <2>1. ASSUME o \in options
        PROVE  \E w \in ToSet(able) : o = OptionOn(m, w)
    <3>1. PICK x \in pairs : take(x) /\ o = made(x)
      BY <1>10, <2>1
    <3>2. PICK w \in ToSet(able) : x = <<m, w>>
      BY <1>4, <1>7, <3>1
    <3> QED
      BY <1>5, <3>1, <3>2
  <2>2. ASSUME NEW w \in ToSet(able), o = OptionOn(m, w)
        PROVE  o \in options
    <3>1. <<m, w>> \in pairs
      BY <1>4, <1>7
    <3> QED
      BY <1>5, <1>6, <1>10, <2>2, <3>1
  <2> QED
    BY <2>1, <2>2
<1>9. options = {OptionOn(m, w) : w \in ToSet(able)}
  BY <1>8
<1> QED
  BY <1>9 DEF options, q

\* The best of them: the first worker that has the manifest, else the first.
LEMMA BestIs ==
  ASSUME ws \in Fleets, NEW m, m.priority = 100, NEW able, InOrder(able), able # <<>>, ToSet(able) \subseteq DOMAIN ws
  PROVE  LET holding == Holding(Restoring(able, ReplayWorkers), m)
             w == IF holding # <<>> THEN holding[1] ELSE Hydrating(able, ReplayWorkers)[1]
         IN /\ BestOption({OptionOn(m, v) : v \in ToSet(able)}) = OptionOn(m, w)
            /\ Resident(m, w) <=> holding # <<>>
<1> DEFINE restoring == Restoring(able, ReplayWorkers)
           hydrating == Hydrating(able, ReplayWorkers)
           holding == Holding(restoring, m)
           w == IF holding # <<>> THEN holding[1] ELSE hydrating[1]
           options == {OptionOn(m, v) : v \in ToSet(able)}
<1>1. /\ InOrder(restoring) /\ ToSet(restoring) = ToSet(able)
      /\ InOrder(hydrating) /\ ToSet(hydrating) = ToSet(able) /\ hydrating # <<>>
  BY RestoringIs
<1>2. /\ InOrder(holding)
      /\ \A v : v \in ToSet(holding) <=> v \in ToSet(restoring) /\ Resident(m, v)
      /\ holding = <<>> <=> ToSet(holding) = {}
  BY <1>1, HoldingIs
<1>3. \A v : v \in options <=> \E x \in ToSet(able) : v = OptionOn(m, x)
  OBVIOUS
<1> HIDE DEF restoring, hydrating, holding, options
<1>4. holding # <<>> => holding[1] \in ToSet(holding) /\ \A v \in ToSet(holding) : Place(v) \in Nat /\ (v # holding[1] => Place(holding[1]) < Place(v))
  BY <1>2, FirstPlaced
<1>5. hydrating[1] \in ToSet(hydrating) /\ \A v \in ToSet(hydrating) : Place(v) \in Nat /\ (v # hydrating[1] => Place(hydrating[1]) < Place(v))
  BY <1>1, FirstPlaced
<1>6. w \in ToSet(able) /\ (Resident(m, w) <=> holding # <<>>)
  <2>1. CASE holding # <<>>
    BY <1>1, <1>2, <1>4, <2>1
  <2>2. CASE holding = <<>>
    BY <1>1, <1>2, <1>5, <2>2
  <2> QED
    BY <2>1, <2>2
<1>7. ASSUME NEW v \in ToSet(able), v # w
      PROVE  \/ Resident(m, w) /\ ~Resident(m, v)
             \/ (Resident(m, w) <=> Resident(m, v)) /\ Place(w) < Place(v)
  <2>1. CASE holding # <<>>
    BY <1>1, <1>2, <1>4, <1>6, <1>7, <2>1
  <2>2. CASE holding = <<>>
    BY <1>1, <1>2, <1>5, <1>6, <1>7, <2>2
  <2> QED
    BY <2>1, <2>2
<1>8. \A v \in ToSet(able) : Place(v) \in Nat
  BY <1>1, <1>5
<1> HIDE DEF w
<1>9. \A v \in ToSet(able) : v # w => RankBefore(RankOn(m, w), RankOn(m, v))
  BY <1>6, <1>7, <1>8, RankIs
<1>10. \A v \in ToSet(able) : ~RankBefore(RankOn(m, v), RankOn(m, w))
  <2> SUFFICES ASSUME NEW v \in ToSet(able), RankBefore(RankOn(m, v), RankOn(m, w))
               PROVE  FALSE
    OBVIOUS
  <2>1. \/ Resident(m, v) /\ ~Resident(m, w)
        \/ (Resident(m, v) <=> Resident(m, w)) /\ Place(v) < Place(w)
    BY <1>6, <1>8, RankIs
  <2>2. Place(v) \in Nat /\ Place(w) \in Nat
    BY <1>6, <1>8
  <2>3. v # w
    BY <2>1, <2>2
  <2>4. \/ Resident(m, w) /\ ~Resident(m, v)
        \/ (Resident(m, w) <=> Resident(m, v)) /\ Place(w) < Place(v)
    BY <1>7, <2>3
  <2> QED
    BY <2>1, <2>2, <2>4
<1>11. \A v : OptionOn(m, v).rank = RankOn(m, v)
  BY DEF OptionOn
<1>12. OptionOn(m, w) \in options /\ ~\E y \in options : RankBefore(y.rank, OptionOn(m, w).rank)
  BY <1>3, <1>6, <1>10, <1>11
<1>13. \A x \in options : (~\E y \in options : RankBefore(y.rank, x.rank)) => x = OptionOn(m, w)
  BY <1>3, <1>6, <1>9, <1>11
<1>14. BestOption(options) = OptionOn(m, w)
  BY <1>12, <1>13 DEF BestOption
<1> QED
  BY <1>6, <1>14 DEF options, w, holding, restoring, hydrating

LEMMA PrototypeIs ==
  ASSUME NEW c, NEW n, Replayed(c, n), NEW rs \in Registries
  PROVE  RightDecision(c, n, rs, Prototype(ReplayRequest(c, n), ReplayWorkers, Manifests(rs), ReplayPolicy))
<1> DEFINE q == ReplayRequest(c, n)
           M == Manifests(rs)
           able == Eligible(q, ReplayWorkers)
           found == ToSet(Candidates(q, M))
           exact == {m \in found : Matches(m, q)}
           allowed == {m \in exact : Allows(ReplayPolicy, q, m)}
           sound == {m \in exact : ~m.failsRestore}
           restoring == Restoring(able, ReplayWorkers)
           options == RankedOptions(q, able, sound, ReplayWorkers, ReplayPolicy)
           o == BestOption(options)
           allFail == allowed # {} /\ \A m \in allowed : m.failsRestore
           p == Prototype(q, ReplayWorkers, M, ReplayPolicy)
           cold(m, hit, compat, status, reason) ==
             Event(q, m, Decided("cold_prefill_selected", "cold_prefill", able[1], hit, compat, status, reason))
<1>1. p = IF able = <<>> THEN
               Event(q, NoManifest, Decided("request_failed", "reject_capacity", "none", "none", "not_checked", "not_applicable",
                                            "worker_capacity"))
          ELSE IF found = {} THEN cold(NoManifest, "none", "miss", "not_applicable", "no_compatible_manifest")
          ELSE IF exact = {} THEN cold(CHOOSE m \in found : TRUE, "registry_only", "mismatch", "not_checked", "cache_key_mismatch")
          ELSE IF allFail /\ restoring # <<>> THEN
               Event(q, FirstManifest(allowed), Decided("restore_validated", "fallback_after_restore_failure", restoring[1], "durable_blob",
                                                        "match", "quarantined", "restore_validation_failed"))
          ELSE IF ~allFail /\ options # {} THEN
               Event(q, o.m, IF o.hot THEN Decided("worker_selected", "hot_local_hit", o.worker, "local_nvme", "match", "validated", "none")
                             ELSE Decided("hydrate_requested", "durable_hit_hydrate", o.worker, "durable_blob", "match", "validated", "none"))
          ELSE IF ~allFail /\ allowed = {} THEN
               cold(FirstManifest(exact), "registry_only", "policy_denied", "not_checked", "policy_denied")
          ELSE cold(FirstManifest(IF allFail THEN allowed ELSE exact), "registry_only", "match", "not_checked", "no_compatible_manifest")
  BY DEF Prototype, Cold
<1>2. \A m, hit, compat, status, reason :
        hit \in {"none", "registry_only"} /\ reason # "none"
          => ValidEvent(cold(m, hit, compat, status, reason), Expected(cold(m, hit, compat, status, reason)))
             /\ ~Serves(cold(m, hit, compat, status, reason))
  BY Unserved
<1>3. /\ InOrder(able) /\ ToSet(able) \subseteq DOMAIN ws
      /\ ws \in Fleets
  BY EligibleIs DEF Replayed
<1>4. /\ \A x : x \in ToSet(Exact(q, M)) <=> x \in found /\ Matches(x, q)
      /\ \A x : x \in ToSet(Exact(q, M)) <=> \E i \in FiledSound(rs, q.key) : x = M[i]
  BY ExactAre
<1>5. exact = ToSet(Exact(q, M))
  BY <1>4
<1>6. \A m \in exact : /\ m # NoManifest /\ m.key # "none" /\ m.durable /\ ~m.failsRestore /\ m.priority = 100
                       /\ Allows(ReplayPolicy, q, m) <=> Usable(c.policy)
  BY <1>5, ExactManifests
<1>7. exact = {} <=> FiledSound(rs, q.key) = {}
  BY <1>4, <1>5
<1>8. Usable(c.policy) => \A i \in FiledSound(rs, q.key) : exact = {M[i]}
  BY <1>5, OneExact
<1>9. ~allFail /\ sound = exact
  BY <1>6
<1>10. found = {} => exact = {}
  OBVIOUS
<1>11. /\ Usable(c.policy) => allowed = exact
       /\ ~Usable(c.policy) => allowed = {}
  BY <1>6
<1>12. ~Usable(c.policy) => options = {}
  <2>1. ~Usable(c.policy) => {m \in sound : Allows(ReplayPolicy, q, m)} = {}
    BY <1>6
  <2> HIDE DEF sound, q, able
  <2>2. ~Usable(c.policy) => {m \in sound : Allows(ReplayPolicy, q, m)} \X {v \in ToSet(able) : ReplayWorkers[v].restores} = {}
    BY <2>1
  <2> QED
    BY <2>2 DEF RankedOptions
<1>13. ASSUME ~(able # <<>> /\ exact # {} /\ Usable(c.policy))
       PROVE  ValidEvent(p, Expected(p)) /\ ~Serves(p)
  <2>1. CASE able = <<>>
    <3>1. p = Event(q, NoManifest, Decided("request_failed", "reject_capacity", "none", "none", "not_checked", "not_applicable",
                                           "worker_capacity"))
      BY <1>1, <2>1
    <3> HIDE DEF p, q
    <3> QED
      BY <3>1, Unserved
  <2>2. CASE able # <<>>
    <3>1. \/ p = cold(NoManifest, "none", "miss", "not_applicable", "no_compatible_manifest")
          \/ p = cold(CHOOSE m \in found : TRUE, "registry_only", "mismatch", "not_checked", "cache_key_mismatch")
          \/ p = cold(FirstManifest(exact), "registry_only", "policy_denied", "not_checked", "policy_denied")
      <4> HIDE DEF p, cold, options, o, allFail, allowed, exact, found, able, restoring, sound, q
      <4> QED
        BY <1>1, <1>9, <1>10, <1>11, <1>12, <1>13, <2>2
    <3> HIDE DEF p, cold, exact, found
    <3> QED
      BY <1>2, <3>1
  <2> QED
    BY <2>1, <2>2
<1> HIDE DEF cold
<1>14. ASSUME able # <<>>, Usable(c.policy), NEW i \in FiledSound(rs, q.key)
       PROVE  ValidEvent(p, Expected(p)) /\ Serves(p) /\ ServedBy(able, M[i], p)
  <2> DEFINE m == M[i]
             holding == Holding(restoring, m)
             w == IF holding # <<>> THEN holding[1] ELSE Hydrating(able, ReplayWorkers)[1]
  <2>1. sound = {m} /\ m \in exact
    BY <1>8, <1>9, <1>14
  <2>2. m # NoManifest /\ m.key # "none" /\ m.durable /\ m.priority = 100 /\ Allows(ReplayPolicy, q, m)
    BY <1>6, <1>14, <2>1
  <2> HIDE DEF sound, exact, found, m, able
  <2>3. options = {OptionOn(m, v) : v \in ToSet(able)}
    BY <1>3, <2>1, <2>2, OptionsAre
  <2>4. o = OptionOn(m, w) /\ (Resident(m, w) <=> holding # <<>>)
    BY <1>3, <1>14, <2>2, <2>3, BestIs
  <2>5. options # {}
    <3>1. ToSet(able) # {}
      BY <1>3, <1>14, FirstPlaced
    <3> HIDE DEF options
    <3> QED
      BY <2>3, <3>1
  <2>6. o.m = m /\ o.worker = w /\ o.hot = Resident(m, w)
    BY <2>4 DEF OptionOn
  <2> HIDE DEF options, o, w, holding, allFail, p, q
  <2>7. p = IF o.hot THEN HotHit(q, m, w) ELSE DurableHit(q, m, w)
    <3>1. p = Event(q, m, IF o.hot THEN Decided("worker_selected", "hot_local_hit", w, "local_nvme", "match", "validated", "none")
                          ELSE Decided("hydrate_requested", "durable_hit_hydrate", w, "durable_blob", "match", "validated", "none"))
      BY <1>1, <1>9, <1>10, <1>14, <2>1, <2>5, <2>6
    <3> QED
      BY <3>1 DEF HotHit, DurableHit
  <2>8. o.hot <=> holding # <<>>
    BY <2>4, <2>6
  <2>9. /\ ValidEvent(p, Expected(p)) /\ Serves(p) /\ p.key = m.key /\ p.worker = w
        /\ p.decision = IF holding # <<>> THEN "hot_local_hit" ELSE "durable_hit_hydrate"
    <3>1. CASE holding # <<>>
      BY <2>2, <2>7, <2>8, <3>1, ServedEvent
    <3>2. CASE holding = <<>>
      BY <2>2, <2>7, <2>8, <3>2, ServedEvent
    <3> QED
      BY <3>1, <3>2
  <2> QED
    BY <2>9 DEF ServedBy, w, holding, m
<1> HIDE DEF p, able, q, M, exact
<1>15. /\ ValidEvent(p, Expected(p))
       /\ Serves(p) <=> able # <<>> /\ Usable(c.policy) /\ FiledSound(rs, q.key) # {}
       /\ Serves(p) => \A i \in FiledSound(rs, q.key) : ServedBy(able, M[i], p)
  BY <1>7, <1>13, <1>14
<1> QED
  BY <1>15 DEF RightDecision, p, q, able, M

-----------------------------------------------------------------------------
(* The replay and the router *)

\* A worker could serve the replayed request if it fits the entry filed under its key.
LEMMA AbleFits ==
  ASSUME NEW c, NEW n, Replayed(c, n), NEW rs \in Registries, NEW i \in DOMAIN rs, rs[i].key = ReplayRequest(c, n).key
  PROVE  Eligible(ReplayRequest(c, n), ReplayWorkers) # <<>> <=> {w \in DOMAIN ws : ws[w].ready /\ Fits(rs[i], Runtime(ws[w].row))} # {}
<1> DEFINE q == ReplayRequest(c, n)
           able == Eligible(q, ReplayWorkers)
           r == Runtime(ws[n].row)
<1>1. q.key = KeyOf(c.id, c.prefix, c.policy, r) /\ q.block = Block(r) /\ r \in Runtimes /\ r.model = c.model /\ Wellformed(c)
  BY RequestIs DEF Replayed
<1>2. /\ InOrder(able)
      /\ \A w : w \in ToSet(able) <=> w \in DOMAIN ws /\ ws[w].ready /\ ws[w].row.model = c.model /\ Block(Runtime(ws[w].row)) = q.block
  BY EligibleIs
<1>3. rs[i].key = q.key /\ rs[i] \in SoundEntries
  BY RegistryRow
<1> HIDE DEF q, able, r
<1>4. rs[i].runtime.model = c.model /\ Block(rs[i].runtime) = q.block
  BY <1>1, <1>3, KeyTells
<1>5. ASSUME NEW w \in DOMAIN ws
      PROVE  Fits(rs[i], Runtime(ws[w].row)) <=> ws[w].row.model = c.model /\ Block(Runtime(ws[w].row)) = q.block
  <2>1. Runtime(ws[w].row) \in Runtimes /\ Runtime(ws[w].row).model = ws[w].row.model
    BY WorkerIs DEF Replayed
  <2>2. Fits(rs[i], Runtime(ws[w].row)) => rs[i].runtime.model = Runtime(ws[w].row).model
    BY DEF Fits
  <2> QED
    BY <1>3, <1>4, <2>1, <2>2, FitsBlock
<1>6. able # <<>> <=> ToSet(able) # {}
  <2>1. ToSet(<<>>) = {}
    BY DEF ToSet
  <2> QED
    BY <1>2, <2>1, FirstPlaced
<1>7. able # <<>> <=> {w \in DOMAIN ws : ws[w].ready /\ Fits(rs[i], Runtime(ws[w].row))} # {}
  BY <1>2, <1>5, <1>6
<1> QED
  BY <1>7 DEF able, q

\* A decision that serves is one the strict key fixtures allow.
LEMMA ServedAllowed ==
  ASSUME NEW c, NEW n, Replayed(c, n), NEW rs \in Registries, Usable(c.policy), NEW i \in FiledSound(rs, ReplayRequest(c, n).key),
         NEW w \in ToSet(Eligible(ReplayRequest(c, n), ReplayWorkers))
  PROVE  Fixture(ReplayRequest(c, n), Manifests(rs)[i], ReplayWorkers[w], ReplayPolicy, "local_restore") = "restore_allowed"
<1> DEFINE q == ReplayRequest(c, n)
           m == Manifests(rs)[i]
           x == ReplayWorkers[w]
<1>1. i \in DOMAIN rs /\ m = ReplayManifest(rs[i]) /\ rs[i].key = q.key /\ rs[i].status = "validated"
  BY DEF FiledSound, Manifests
<1>2. rs[i] \in SoundEntries
  BY <1>1, RegistryRow
<1>3. ManifestReason(m, q) = "match" /\ PolicyReason(ReplayPolicy, q, m) = "match"
  BY <1>1, <1>2, MatchesIs
<1>4. w \in DOMAIN ws /\ ws[w].ready /\ ws[w].row.model = c.model /\ Block(Runtime(ws[w].row)) = q.block
  BY EligibleIs
<1>5. /\ x.health = "healthy" /\ x.capacity /\ x.models = {c.model} /\ x.block = q.block
      /\ x.restores /\ x.context = 1
  BY <1>4, WorkerIs DEF Replayed
<1>6. q.model = c.model /\ q.context = 1
  BY RequestIs
<1> HIDE DEF m, q, x
<1>7. WorkerReason(x, q, "local_restore") = "match"
  BY <1>5, <1>6 DEF WorkerReason
<1>8. Fixture(q, m, x, ReplayPolicy, "local_restore") = "restore_allowed"
  <2> DEFINE verdicts == <<ManifestReason(m, q), PolicyReason(ReplayPolicy, q, m), WorkerReason(x, q, "local_restore")>>
             bad == {j \in DOMAIN verdicts : verdicts[j] # "match"}
  <2>1. \A j \in DOMAIN verdicts : verdicts[j] = "match"
    BY <1>3, <1>7
  <2>2. bad = {}
    BY <2>1
  <2> QED
    BY <2>2 DEF Fixture
<1> QED
  BY <1>8 DEF m, q, x

\* The worker of a decision that serves could serve.
LEMMA ServedWhere ==
  ASSUME NEW c, NEW n, Replayed(c, n), NEW m, NEW e, Eligible(ReplayRequest(c, n), ReplayWorkers) # <<>>,
         ServedBy(Eligible(ReplayRequest(c, n), ReplayWorkers), m, e)
  PROVE  e.worker \in ToSet(Eligible(ReplayRequest(c, n), ReplayWorkers))
<1> DEFINE able == Eligible(ReplayRequest(c, n), ReplayWorkers)
           restoring == Restoring(able, ReplayWorkers)
           holding == Holding(restoring, m)
           hydrating == Hydrating(able, ReplayWorkers)
<1>1. InOrder(able) /\ ToSet(able) \subseteq DOMAIN ws /\ ws \in Fleets
  BY EligibleIs DEF Replayed
<1>2. e.worker = IF holding # <<>> THEN holding[1] ELSE hydrating[1]
  BY DEF ServedBy
<1> HIDE DEF able
<1>3. /\ InOrder(restoring) /\ ToSet(restoring) = ToSet(able)
      /\ InOrder(hydrating) /\ ToSet(hydrating) = ToSet(able) /\ hydrating # <<>>
  BY <1>1, RestoringIs DEF able
<1> HIDE DEF restoring, hydrating
<1>4. InOrder(holding) /\ ToSet(holding) \subseteq ToSet(restoring)
  BY <1>3, HoldingIs
<1> HIDE DEF holding
<1>5. holding # <<>> => holding[1] \in ToSet(holding)
  BY <1>4, FirstPlaced
<1>6. hydrating[1] \in ToSet(hydrating)
  BY <1>3, FirstPlaced
<1> QED
  BY <1>2, <1>3, <1>4, <1>5, <1>6 DEF able

\* For the key a lookup uses, the replay restores if and only if the router finds a sound entry that a
\* ready worker fits, one the fixtures allow, and the prototype does the same on the same worker.
THEOREM ReplayAlwaysAgrees == Spec => []ReplayAgrees
<1>1. Evidenced => ReplayAgrees
  <2> SUFFICES ASSUME Evidenced, NEW c \in Questions, NEW n \in DOMAIN ws, ws[n].row.model = c.model
               PROVE  LET q == ReplayRequest(c, n)
                          e == Decide(q, ReplayWorkers, Manifests(rows), ReplayPolicy)
                          p == Prototype(q, ReplayWorkers, Manifests(rows), ReplayPolicy)
                          i == FindEntry(rows, c.id, {c.policy}, {q.key})
                          able == {w \in DOMAIN ws : ws[w].ready /\ Fits(rows[i], Runtime(ws[w].row))}
                      IN /\ Serves(e) <=> Ensure(rows, c.id, c.policy, q.key) = "found" /\ able # {}
                         /\ Serves(e) => \E m \in ToSet(Manifests(rows)) :
                              Fixture(q, m, ReplayWorkers[e.worker], ReplayPolicy, "local_restore") = "restore_allowed"
                         /\ Serves(p) <=> Serves(e)
                         /\ Serves(p) => <<p.decision, p.worker, p.key>> = <<e.decision, e.worker, e.key>>
                         /\ ValidEvent(e, Expected(e)) /\ ValidEvent(p, Expected(p))
    BY DEF ReplayAgrees, Manifests
  <2> DEFINE rs == rows
             q == ReplayRequest(c, n)
             r == Runtime(ws[n].row)
             e == Decide(q, ReplayWorkers, Manifests(rs), ReplayPolicy)
             p == Prototype(q, ReplayWorkers, Manifests(rs), ReplayPolicy)
             i == FindEntry(rs, c.id, {c.policy}, {q.key})
             able == Eligible(q, ReplayWorkers)
             fit == {w \in DOMAIN ws : ws[w].ready /\ Fits(rs[i], Runtime(ws[w].row))}
             found == Ensure(rs, c.id, c.policy, q.key) = "found"
  <2>1. Replayed(c, n) /\ rs \in Registries /\ Wellformed(c)
    BY RequestAssumption DEF Evidenced, Replayed
  <2> HIDE DEF rs
  <2>2. q.key = KeyOf(c.id, c.prefix, c.policy, r) /\ r \in Runtimes
    BY <2>1, RequestIs
  <2>3. RightDecision(c, n, rs, e)
    BY <2>1, DecideIs
  <2>4. RightDecision(c, n, rs, p)
    BY <2>1, PrototypeIs
  <2> HIDE DEF q, r, e, p
  <2>5. /\ found <=> Usable(c.policy) /\ \E j \in DOMAIN rs : rs[j].key = q.key /\ rs[j].status = "validated"
        /\ found => i \in DOMAIN rs /\ rs[i].key = q.key
    <3> DEFINE k == q.key
    <3>1. k = KeyOf(c.id, c.prefix, c.policy, r)
      BY <2>2
    <3> HIDE DEF k
    <3>2. /\ Ensure(rs, c.id, c.policy, k) = "found"
               <=> Usable(c.policy) /\ \E j \in DOMAIN rs : rs[j].key = k /\ rs[j].status = "validated"
          /\ Ensure(rs, c.id, c.policy, k) = "found"
               => FiledAt(rs, c, k) \in DOMAIN rs /\ rs[FiledAt(rs, c, k)].key = k
      BY <2>1, <2>2, <3>1, EnsureIs
    <3> QED
      BY <3>2 DEF k, FiledAt
  <2>6. found <=> Usable(c.policy) /\ FiledSound(rs, q.key) # {}
    BY <2>5 DEF FiledSound
  <2>7. found => (able # <<>> <=> fit # {})
    BY <2>1, <2>5, AbleFits DEF q
  <2> HIDE DEF found, fit, i
  <2>8. /\ ValidEvent(e, Expected(e)) /\ ValidEvent(p, Expected(p))
        /\ Serves(e) <=> able # <<>> /\ Usable(c.policy) /\ FiledSound(rs, q.key) # {}
        /\ Serves(p) <=> able # <<>> /\ Usable(c.policy) /\ FiledSound(rs, q.key) # {}
        /\ Serves(e) => \A j \in FiledSound(rs, q.key) : ServedBy(able, Manifests(rs)[j], e)
        /\ Serves(p) => \A j \in FiledSound(rs, q.key) : ServedBy(able, Manifests(rs)[j], p)
    BY <2>3, <2>4 DEF RightDecision, q
  <2> HIDE DEF able
  <2>9. (Serves(e) <=> found /\ fit # {}) /\ (Serves(p) <=> Serves(e))
    BY <2>6, <2>7, <2>8
  <2>10. Serves(p) => <<p.decision, p.worker, p.key>> = <<e.decision, e.worker, e.key>>
    <3> SUFFICES ASSUME Serves(p) PROVE <<p.decision, p.worker, p.key>> = <<e.decision, e.worker, e.key>>
      OBVIOUS
    <3>1. PICK j \in FiledSound(rs, q.key) : ServedBy(able, Manifests(rs)[j], e) /\ ServedBy(able, Manifests(rs)[j], p)
      BY <2>8
    <3> QED
      BY <3>1 DEF ServedBy
  <2>11. Serves(e) => \E m \in ToSet(Manifests(rs)) : Fixture(q, m, ReplayWorkers[e.worker], ReplayPolicy, "local_restore") = "restore_allowed"
    <3> SUFFICES ASSUME Serves(e)
                 PROVE  \E m \in ToSet(Manifests(rs)) : Fixture(q, m, ReplayWorkers[e.worker], ReplayPolicy, "local_restore") = "restore_allowed"
      OBVIOUS
    <3>1. PICK j \in FiledSound(rs, q.key) : ServedBy(able, Manifests(rs)[j], e)
      BY <2>8
    <3>2. e.worker \in ToSet(able)
      BY <2>1, <2>8, <3>1, ServedWhere DEF able, q
    <3>3. Fixture(q, Manifests(rs)[j], ReplayWorkers[e.worker], ReplayPolicy, "local_restore") = "restore_allowed"
      BY <2>1, <2>8, <3>1, <3>2, ServedAllowed DEF able, q
    <3>4. Manifests(rs)[j] \in ToSet(Manifests(rs))
      BY <3>1 DEF ToSet, Manifests, FiledSound
    <3> QED
      BY <3>3, <3>4
  <2> QED
    BY <2>8, <2>9, <2>10, <2>11 DEF q, e, p, i, fit, found, rs
<1> QED
  BY <1>1, EvidenceInvariant, PTL
=============================================================================
