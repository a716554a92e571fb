---------------------------- MODULE RankedAdmission ----------------------------
(***************************************************************************)
(* Which workers a proxied request tries, and in which order: module       *)
(* WorkerAdmission with the candidate_workers it leaves open.  Candidates  *)
(* are looked at one after the other, while other requests come and go, so *)
(* a rank is made of what was true at different moments.                   *)
(*                                                                         *)
(* What a worker's /health, /v1/models and /slots answer is any of Views;  *)
(* the rank uses the router's own counters besides.  The ranking comes     *)
(* before begin_request here, which it does not look at.                   *)
(***************************************************************************)
EXTENDS WorkerAdmission, SequencesExt

CONSTANTS
  Inventory,     \* the workers in the order of the inventory
  ModelOf,       \* the model of a worker
  Asks,          \* what requests ask: model, prefer (a worker or None), fallback
  Views,         \* what may be seen of a worker
  Wheel          \* the cursor counts modulo Wheel

None == "none"
AllViews == {"unready", "idle", "busy", "unknown", "stalled"}
Fleet(m) == {w \in Workers : ModelOf[w] = m}

\* Wheel is a multiple of the number of workers of each model, so that a turn modulo
\* Wheel rotates them like the turn itself.
ASSUME RankingAssumption ==
  /\ Inventory \in Seq(Workers) /\ ToSet(Inventory) = Workers /\ IsInjective(Inventory)
  /\ None \notin Workers
  /\ \A a \in Asks : DOMAIN a = {"model", "prefer", "fallback"} /\ a.prefer \in Workers \union {None} /\ a.fallback \in BOOLEAN
  /\ Views \subseteq AllViews
  /\ Wheel \in Nat \ {0}
  /\ \A a \in Asks : Fleet(a.model) # {} => Wheel % Cardinality(Fleet(a.model)) = 0

VARIABLES
  scan,          \* a ranking in progress: the request, the candidates left, those ranked
  order,         \* the candidates a request has left, best first
  cursor,        \* cold_route_cursor
  first          \* at each cursor the choice of the last cold ranking that saw all alike

rankVars == <<scan, order, cursor, first, vars>>

NoAsk == [model |-> None, prefer |-> None, fallback |-> FALSE]
NoScan == [ask |-> NoAsk, turn |-> 0, left |-> <<>>, rows |-> <<>>]

RankedInit ==
  /\ Init
  /\ scan = [r \in Requests |-> NoScan]
  /\ order = [r \in Requests |-> <<>>]
  /\ cursor = 0
  /\ first = [turn \in 0..Wheel - 1 |-> None]

-----------------------------------------------------------------------------
\* Where the inventory has a worker; front is before all of them.
Place(w) == CHOOSE i \in DOMAIN Inventory : Inventory[i] = w
Before(v, w, front) == w # front /\ (v = front \/ Place(v) < Place(w))

Listed(set, front) ==
  CHOOSE s \in [1..Cardinality(set) -> set] : \A i, j \in DOMAIN s : i < j => Before(s[i], s[j], front)

\* The preferred worker is a candidate twice.
FaultyOrdered(ask) ==
  LET all == Listed(Fleet(ask.model), None) IN
  IF ask.prefer \notin Fleet(ask.model) THEN all
  ELSE <<ask.prefer>> \o (IF ask.fallback THEN all ELSE <<>>)

\* ordered_workers, of a request without residency.
Ordered(ask) ==
  Listed({w \in Fleet(ask.model) : ask.prefer = None \/ ask.fallback \/ w = ask.prefer}, ask.prefer)

\* The last of the candidates is never rotated to the front.
FaultyRotated(s, n) == LET k == n % (Len(s) - 1) IN SubSeq(s, k + 1, Len(s)) \o SubSeq(s, 1, k)

Rotated(s, n) == LET k == n % Len(s) IN SubSeq(s, k + 1, Len(s)) \o SubSeq(s, 1, k)

Cold(ask) == ask.prefer = None /\ Len(Ordered(ask)) > 1

\* Only a cold request of at least two candidates takes its turn.
BeginRanking(r) ==
  /\ pc[r] = "idle" /\ scan[r] = NoScan
  /\ \E ask \in Asks :
       /\ scan' = [scan EXCEPT ![r] =
            [ask |-> ask, turn |-> cursor, rows |-> <<>>,
             left |-> IF Cold(ask) THEN Rotated(Ordered(ask), cursor) ELSE Ordered(ask)]]
       /\ cursor' = IF Cold(ask) THEN (cursor + 1) % Wheel ELSE cursor
  /\ UNCHANGED <<order, first, vars>>

\* slot_availability
BusyScore(view) == CASE view = "idle" -> 0 [] view = "unknown" -> 1 [] view = "busy" -> 2

\* The preferred worker before the load.
FaultyRank(ask, w, view, index) ==
  <<IF w = ask.prefer THEN 0 ELSE 1, BusyScore(view), active[w], depth[w], index>>

\* rank_worker; no worker is hot here.
Rank(ask, w, view, index) ==
  <<BusyScore(view), active[w], depth[w], IF w = ask.prefer THEN 0 ELSE 1, index>>

\* One candidate is asked; not ready or stalled, it is left out.
Look(r) ==
  /\ scan[r].left # <<>>
  /\ LET w == Head(scan[r].left)
         index == Len(Ordered(scan[r].ask)) - Len(scan[r].left)
     IN \E view \in Views :
          scan' = [scan EXCEPT ![r].left = Tail(@), ![r].rows =
            IF view \in {"unready", "stalled"} THEN @
            ELSE Append(@, [worker |-> w, load |-> <<BusyScore(view), active[w], depth[w]>>,
                            rank |-> Rank(scan[r].ask, w, view, index)])]
  /\ UNCHANGED <<order, cursor, first, vars>>

Less(a, b) == \E i \in 1..Len(a) : a[i] < b[i] /\ \A j \in 1..(i - 1) : a[j] = b[j]

\* list.sort, as the permutation that sorts; no two ranks are the same.
Sorted(rows) ==
  CHOOSE p \in [DOMAIN rows -> DOMAIN rows] :
    \A i, j \in DOMAIN rows : i < j => Less(rows[p[i]].rank, rows[p[j]].rank)

\* Every candidate was there, with the same load.
Alike(s) ==
  /\ Len(s.rows) = Len(Ordered(s.ask))
  /\ \A i, j \in DOMAIN s.rows : s.rows[i].load = s.rows[j].load

\* The list is sorted; without allow_fallback only its first worker is tried.
EndRanking(r) ==
  /\ scan[r] # NoScan /\ scan[r].left = <<>>
  /\ LET s == scan[r]
         list == [i \in DOMAIN s.rows |-> s.rows[Sorted(s.rows)[i]].worker]
         tried == IF s.ask.fallback THEN list ELSE SubSeq(list, 1, 1)
     IN IF list = <<>>
        THEN ArriveUnserved(r) /\ UNCHANGED <<order, first>>
        ELSE /\ inflight' = inflight + 1
             /\ Goto(r, "acquire")
             /\ worker' = [worker EXCEPT ![r] = Head(list)]
             /\ fallbacks' = [fallbacks EXCEPT ![r] = ToSet(Tail(tried))]
             /\ UNCHANGED <<active, depth, expired>>
             /\ order' = [order EXCEPT ![r] = Tail(tried)]
             /\ first' = IF Cold(s.ask) /\ Alike(s) THEN [first EXCEPT ![s.turn] = Head(list)] ELSE first
  /\ scan' = [scan EXCEPT ![r] = NoScan]
  /\ UNCHANGED cursor

\* The fallback is the next one of the list.
InOrder(r) ==
  IF fallbacks'[r] = fallbacks[r] THEN UNCHANGED order
  ELSE /\ order' = [order EXCEPT ![r] = IF pc[r] = "closing" THEN <<>> ELSE Tail(@)]
       /\ pc[r] # "closing" => worker'[r] = Head(order[r])

Proceed(r) ==
  /\ Acquire(r, Capacity) \/ TimeOut(r) \/ Recheck(r, Capacity) \/ Reply(r) \/ Relay(r) \/ FinishRequest(r)
  /\ InOrder(r)
  /\ UNCHANGED <<scan, cursor, first>>

RankedNext == \E r \in Requests : BeginRanking(r) \/ Look(r) \/ EndRanking(r) \/ Proceed(r)

RankedSpec == RankedInit /\ [][RankedNext]_rankVars

\* As in WorkerAdmission; the probes of a ranking have timeouts.
RankedFairSpec ==
  RankedSpec /\ \A r \in Requests : WF_rankVars(Look(r) \/ EndRanking(r) \/ Proceed(r))

-----------------------------------------------------------------------------
(* Properties *)

\* A ranking is one of the candidate lists WorkerAdmission allows for: no worker twice,
\* none but the ranked ones, whatever changes while it is made.
AnyOrder == Spec

\* "equal-score cold pass-through traffic rotates across ready workers instead of
\* pinning one inventory row": n turns in a row have each of n workers first once.
EqualScoresRotate ==
  \A i, j \in 0..Wheel - 1 :
    first[i] # None /\ first[i] = first[j] =>
      LET n == Cardinality(Fleet(ModelOf[first[i]])) IN i % n = j % n

\* "normal OpenAI pass-through prefers a ready idle worker when slot state is available,
\* then lower per-worker in-flight request count", the preferred worker or not.
LightestFirst ==
  [][\A r \in Requests :
       scan[r] # NoScan /\ scan'[r] = NoScan =>
         \A i, j \in DOMAIN scan[r].rows :
           LET a == scan[r].rows[i]  b == scan[r].rows[j] IN
           worker'[r] = a.worker => ~Less(b.load, a.load)]_rankVars

\* "Cold requests distribute across workers instead of pinning one worker forever": a
\* worker whose model is asked for again and again gets some request.
NobodyPinned ==
  \A w \in Workers :
    []<>(\E r \in Requests : pc[r] = "acquire" /\ ModelOf[worker[r]] = ModelOf[w]) =>
      <>(\E r \in Requests : pc[r] = "acquire" /\ worker[r] = w)
=============================================================================
