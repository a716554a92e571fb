-------------------------- MODULE Inventory_proofs --------------------------
(* Proofs about Inventory: for any number of threads and edits, reloads that *)
(* do not overlap never put older workers back.                              *)
EXTENDS Inventory, TLAPS

\* What a reload is about to install is in the file's past, and not older than what
\* is installed, unless reloads have overlapped.
LoadsAreCurrent ==
  /\ installed <= file
  /\ \A t \in Threads : step[t] = "swap" =>
       /\ workers[t] <= file
       /\ overlapped \/ installed <= workers[t]

\* overlapped says all there is to say of two reloads at a time.
OneReload ==
  \A t, u \in Threads :
    step[t] \in Reloading /\ step[u] \in Reloading /\ ~overlapped => t = u

IInv == TypeOK /\ LoadsAreCurrent /\ OneReload

USE InventoryAssumption DEF InventoryAssumption, Versions

LEMMA InitEstablishes == Init => IInv
<1> SUFFICES ASSUME Init PROVE IInv
  OBVIOUS
<1>1. TypeOK
  BY DEF Init, TypeOK, Steps, Reloading
<1>2. \A t \in Threads : step[t] = "starting"
  BY DEF Init
<1>3. LoadsAreCurrent
  BY <1>2 DEF Init, LoadsAreCurrent
<1>4. OneReload
  BY <1>2 DEF OneReload, Reloading
<1> QED BY <1>1, <1>3, <1>4 DEF IInv

\* Every step keeps the types.
LEMMA TypeStep == ASSUME TypeOK, [Next]_vars PROVE TypeOK'
<1> USE DEF TypeOK, Goto, Steps, Reloading
<1>1. CASE Edit
  BY <1>1 DEF Edit, locals
<1>6. CASE Start
  BY <1>6 DEF Start
<1>2. CASE Expire
  BY <1>2 DEF Expire, locals
<1>3. CASE UNCHANGED vars
  BY <1>3 DEF vars, locals
<1>4. ASSUME NEW t \in Threads, Reload(t) PROVE TypeOK'
  <2>1. CASE Check(t)
    BY <2>1 DEF Check
  <2>2. CASE Load(t)
    BY <2>2 DEF Load
  <2>3. CASE Swap(t)
    BY <2>3 DEF Swap
  <2>4. CASE Clear(t)
    BY <2>4 DEF Clear
  <2>5. CASE Record(t)
    BY <2>5 DEF Record
  <2> QED BY <1>4, <2>1, <2>2, <2>3, <2>4, <2>5 DEF Reload
<1>5. ASSUME NEW t \in Threads, Readiness(t) \/ NoReload(t) PROVE TypeOK'
  <2>1. CASE NoReload(t)
    BY <2>1 DEF NoReload
  <2>2. CASE Snapshot(t)
    BY <2>2 DEF Snapshot
  <2>3. CASE Lookup(t)
    <3>1. \/ Return(t)
          \/ (Goto(t, "route") \/ Goto(t, "probe")) /\ UNCHANGED <<workers, verdict>>
      BY <2>3 DEF Lookup, Eligible
    <3>2. step' \in [Threads -> Steps]
      BY <3>1 DEF Return
    <3>3. workers' \in [Threads -> Valid]
      BY <3>1 DEF Return
    <3>4. verdict' \in [Threads -> BOOLEAN]
      BY <3>1 DEF Return
    <3> QED BY <2>3, <3>2, <3>3, <3>4 DEF Lookup
  <2>4. CASE Probe(t)
    BY <2>4 DEF Probe
  <2>5. CASE Store(t)
    <3>1. step' \in [Threads -> Steps]
      BY <2>5 DEF Store, Eligible, Return
    <3>2. workers' \in [Threads -> Valid] /\ verdict' \in [Threads -> BOOLEAN]
      BY <2>5 DEF Store, Eligible, Return
    <3>3. row' \in [version : Valid, ok : BOOLEAN, fresh : BOOLEAN]
      BY <2>5 DEF Store, Row
    <3> QED BY <2>5, <3>1, <3>2, <3>3 DEF Store
  <2>6. CASE Route(t)
    BY <2>6 DEF Route, Return
  <2> QED BY <1>5, <2>1, <2>2, <2>3, <2>4, <2>5, <2>6 DEF Readiness
<1> QED BY <1>1, <1>2, <1>3, <1>4, <1>5, <1>6 DEF Next, Move

\* A thread that looks workers up leaves the reloads alone.
LEMMA ReadinessStep ==
  ASSUME IInv, NEW t \in Threads, Readiness(t) \/ NoReload(t)
  PROVE  LoadsAreCurrent' /\ OneReload'
<1> USE DEF IInv, TypeOK, LoadsAreCurrent, OneReload, Goto, Reloading, Steps
<1>1. CASE NoReload(t)
  BY <1>1 DEF NoReload
<1>2. CASE Snapshot(t)
  BY <1>2 DEF Snapshot
<1>3. CASE Lookup(t)
  BY <1>3 DEF Lookup, Eligible, Return
<1>4. CASE Probe(t)
  BY <1>4 DEF Probe
<1>5. CASE Store(t)
  BY <1>5 DEF Store, Eligible, Return
<1>6. CASE Route(t)
  BY <1>6 DEF Route, Return
<1> QED BY <1>1, <1>2, <1>3, <1>4, <1>5, <1>6 DEF Readiness

\* A reload is the only one, or overlapped is set; what it installs it has read.
LEMMA ReloadStep ==
  ASSUME IInv, NEW t \in Threads, Reload(t)
  PROVE  LoadsAreCurrent' /\ OneReload'
<1> USE DEF IInv, TypeOK, LoadsAreCurrent, OneReload, Goto, Reloading, Steps
<1>1. CASE Check(t)
  <2>1. \A u \in Threads : u # t => step'[u] = step[u]
    BY <1>1 DEF Check
  <2>2. step'[t] = "load"
    BY <1>1 DEF Check
  <2>3. LoadsAreCurrent'
    BY <1>1, <2>1, <2>2 DEF Check
  <2>4. ~overlapped' => \A u \in Threads : step[u] \notin Reloading
    BY <1>1 DEF Check
  <2>5. OneReload'
    BY <2>1, <2>4
  <2> QED BY <2>3, <2>5
<1>2. CASE Load(t)
  BY <1>2 DEF Load
<1>3. CASE Swap(t)
  BY <1>3 DEF Swap
<1>4. CASE Clear(t)
  BY <1>4 DEF Clear
<1>5. CASE Record(t)
  BY <1>5 DEF Record
<1> QED BY <1>1, <1>2, <1>3, <1>4, <1>5 DEF Reload

LEMMA StepPreserves == IInv /\ [Next]_vars => IInv'
<1> SUFFICES ASSUME IInv, [Next]_vars PROVE IInv'
  OBVIOUS
<1>1. TypeOK'
  BY TypeStep DEF IInv
<1>2. LoadsAreCurrent' /\ OneReload'
  <2>1. CASE Edit
    <3>1. \A n \in Versions : n \in Nat
      OBVIOUS
    <3>2. installed \in Nat /\ file \in Nat
      BY <3>1 DEF IInv, TypeOK
    <3>3. ASSUME NEW t \in Threads PROVE workers[t] \in Nat
      <4>1. workers[t] \in Valid
        BY DEF IInv, TypeOK
      <4> QED BY <3>1, <4>1
    <3>4. file' = file + 1 /\ UNCHANGED <<installed, step, workers, overlapped>>
      BY <2>1 DEF Edit, locals
    <3>5. LoadsAreCurrent'
      <4>1. LoadsAreCurrent
        BY DEF IInv
      <4> QED BY <3>2, <3>3, <3>4, <4>1 DEF LoadsAreCurrent
    <3>6. OneReload'
      BY <3>4 DEF OneReload, IInv
    <3> QED BY <3>5, <3>6
  <2>2. CASE Expire
    BY <2>2 DEF Expire, locals, IInv, LoadsAreCurrent, OneReload
  <2>3. CASE UNCHANGED vars
    BY <2>3 DEF vars, locals, IInv, LoadsAreCurrent, OneReload
  <2>4. CASE \E t \in Threads : Move(t)
    BY <2>4, ReadinessStep, ReloadStep DEF Move
  <2>5. CASE Start
    BY <2>5 DEF Start, IInv, LoadsAreCurrent, OneReload, Reloading
  <2> QED BY <2>1, <2>2, <2>3, <2>4, <2>5 DEF Next
<1> QED BY <1>1, <1>2 DEF IInv

\* The inductive invariant: types, and that reloads which do not overlap only go forward.
THEOREM InventoryInvariant == Spec => []IInv
BY InitEstablishes, StepPreserves, PTL DEF Spec

\* Type correctness of the inventory and of the readiness cache.
THEOREM InventoryTyped == Spec => []TypeOK
<1>1. IInv => TypeOK
  BY DEF IInv
<1> QED BY <1>1, InventoryInvariant, PTL

\* maybe_reload_inventory never puts workers back that a later version of the file has
\* replaced, while only one thread at a time is in it.
THEOREM ReloadsGoForward == Spec => NeverBackwards
<1>1. IInv /\ [Next]_vars => [installed' >= installed \/ overlapped']_vars
  <2> SUFFICES ASSUME IInv, [Next]_vars, ~UNCHANGED vars
               PROVE  installed' >= installed \/ overlapped'
    OBVIOUS
  <2>1. installed' = installed => installed' >= installed
    BY DEF IInv, TypeOK
  <2>2. ASSUME NEW t \in Threads, Move(t), ~Swap(t) PROVE installed' = installed
    BY <2>2 DEF Move, Reload, Readiness, NoReload, Check, Load, Clear, Record,
                Snapshot, Lookup, Probe, Store, Route
  <2>3. ASSUME NEW t \in Threads, Swap(t) PROVE installed' >= installed \/ overlapped'
    BY <2>3 DEF Swap, IInv, TypeOK, LoadsAreCurrent
  <2>4. CASE Start \/ Edit \/ Expire
    BY <2>1, <2>4 DEF Start, Edit, Expire
  <2> QED BY <2>1, <2>2, <2>3, <2>4 DEF Next
<1> QED BY <1>1, InventoryInvariant, PTL DEF Spec, NeverBackwards
=============================================================================
