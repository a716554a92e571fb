------------------------- MODULE CachedRequest_proofs -------------------------
(***************************************************************************)
(* Cached completions, for any number of requests, routers, workers, keys  *)
(* and kinds of request: what is filed under a key, what an answer         *)
(* continues, and how often a request is counted.                          *)
(*                                                                         *)
(* Everything rests on two facts.  A request that works on slots is inside *)
(* its router's lock (LockHeld); and while no other traffic reaches the    *)
(* slots, all requests go to one router (OneRouter), so that only one of   *)
(* them is inside.  What a stage has left in a slot or a slot file is then *)
(* still there in the next one.                                            *)
(***************************************************************************)
EXTENDS CachedRequest, TLAPS

Inside == {"build", "use", "candidate"} \union Building \union Using
Outside == {"new", "received", "begun", "wait build", "wait use", "sending", "proxied", "done"}
Replies == {"none", "own", "foreign", "built", "gone", "400", "403", "404", "500", "503"}
Jobs == [entry : Entries, on : Workers \union {Free}, tried : SUBSET Workers,
         context : {"none", "own", "foreign", "built"}]

StoreTyped ==
  /\ slot \in [Workers -> Contents]
  /\ file \in [Workers -> [Keys -> Contents]]
  /\ blob \in [Contents -> {"absent", "good", "damaged"}]
  /\ entry \in [Keys -> Entries]

Typed ==
  /\ TypeOK
  /\ at \in [Requests -> Inside \union Outside]
  /\ DOMAIN ask = Requests
  /\ reply \in [Requests -> Replies]
  /\ begun \in [Requests -> Nat] /\ counted \in [Requests -> Nat]

OneRouter ==
  ~shared => \A p, q \in Requests : at[p] # "new" /\ at[q] # "new" => ask[p].router = ask[q].router

LockHeld(q) == at[q] \in Inside => lock[ask[q].router] = q

HasWorker(q) == at[q] \in Building \union Using => job[q].on \in Workers

\* What a request has found wanting, it goes on to check.
Checked(q) ==
  /\ at[q] \in {"candidate"} \union Using /\ job[q].entry.status = "quarantined" => ask[q].validate
  /\ at[q] = "validate" => ask[q].validate
  /\ at[q] = "finish" /\ ask[q].validate => job[q].context = "own"

ForeignIsCareless(q) ==
  at[q] \in {"finish", "sending"} /\ job[q].context = "foreign" => ~Careful(q)

\* Alone on the slots, a request finds what it has left there.
Undisturbed(q) ==
  ~shared =>
    /\ at[q] = "save" => slot[job[q].on] = ask[q].prefix
    /\ at[q] \in {"upload", "publish"} => file[job[q].on][ask[q].prefix] = ask[q].prefix
    /\ at[q] \in {"candidate"} \union Using => job[q].entry.content = ask[q].key
    /\ at[q] = "restore" => file[job[q].on][ask[q].key] = ask[q].key /\ ask[q].prefix = ask[q].key
    /\ at[q] = "generate" => slot[job[q].on] = ask[q].prefix

\* Begun unless it is still before begin_request; ended as often as begun.
Early == {"new", "received"}
Counted(q) ==
  /\ begun[q] \in {0, 1}
  /\ at[q] \in Early => begun[q] = 0
  /\ at[q] \notin Early /\ at[q] # "done" => begun[q] = 1
  /\ counted[q] = IF at[q] = "done" THEN begun[q] ELSE 0

Of(q) == LockHeld(q) /\ HasWorker(q) /\ Checked(q) /\ ForeignIsCareless(q) /\ Undisturbed(q) /\ Counted(q)

CachedInv == Typed /\ OneRouter /\ FiledUnderOwnPrefix /\ \A q \in Requests : Of(q)

-----------------------------------------------------------------------------
LEMMA Fields ==
  ASSUME NEW q \in Requests, Typed, at[q] # "new"
  PROVE  ask[q] \in Asks[q] /\ ask[q].router \in Routers /\ ask[q].prefix \in Keys /\ ask[q].key \in Keys
  BY CachedAssumption DEF Typed, TypeOK

LEMMA NoJobTyped == NoJob \in Jobs
  BY DEF NoJob, Jobs, NoEntry, Entries, Contents, Free

\* While the slots are not shared, nobody else is inside a lock.
LEMMA Alone ==
  ASSUME CachedInv, ~shared, NEW p \in Requests, NEW q \in Requests, at[p] \in Inside, at[q] \in Inside
  PROVE  p = q
<1>1. at[p] # "new" /\ at[q] # "new"
  BY DEF Inside, Building, Using
<1>2. QED
  BY <1>1 DEF CachedInv, OneRouter, Of, LockHeld

-----------------------------------------------------------------------------
(* What a step of one request leaves of the others *)

Frame(q) ==
  /\ \A p \in Requests \ {q} : at'[p] = at[p] /\ job'[p] = job[p]
  /\ \A p \in Requests \ {q} : begun'[p] = begun[p] /\ counted'[p] = counted[p]
  /\ \A r \in Routers : \/ lock'[r] = lock[r]
                        \/ lock[r] = Free
                        \/ lock[r] = q

LEMMA GoesFrame ==
  ASSUME Typed, NEW q \in Requests, NEW s \in Inside \union Outside, NEW j \in Jobs, Goes(q, s, j)
  PROVE  /\ Frame(q)
         /\ at'[q] = s /\ job'[q] = j /\ lock' = lock /\ begun' = begun /\ counted' = counted /\ reply' = reply
         /\ at' \in [Requests -> Inside \union Outside] /\ job' \in [Requests -> Jobs]
  BY DEF Typed, TypeOK, Goes, Frame, Jobs

LEMMA LeavesFrame ==
  ASSUME Typed, NEW q \in Requests, at[q] # "new", NEW s \in Outside, NEW j \in Jobs, Leaves(q, s, j)
  PROVE  /\ Frame(q)
         /\ at'[q] = s /\ job'[q] = j /\ begun' = begun /\ counted' = counted /\ reply' = reply
         /\ at' \in [Requests -> Inside \union Outside] /\ job' \in [Requests -> Jobs]
         /\ lock' \in [Routers -> Requests \union {Free}]
  BY Fields DEF Typed, TypeOK, Leaves, Frame, Jobs

LEMMA ReplyFrame ==
  ASSUME Typed, NEW q \in Requests, at[q] # "new", NEW a \in Replies, Reply(q, a)
  PROVE  /\ Frame(q)
         /\ at'[q] = "done" /\ begun' = begun /\ counted'[q] = counted[q] + 1
         /\ reply' = [reply EXCEPT ![q] = a]
         /\ at' \in [Requests -> Inside \union Outside] /\ job' \in [Requests -> Jobs]
         /\ lock' \in [Routers -> Requests \union {Free}]
         /\ begun' \in [Requests -> Nat] /\ counted' \in [Requests -> Nat] /\ reply' \in [Requests -> Replies]
<1>1. /\ counted' = [counted EXCEPT ![q] = @ + 1] /\ counted \in [Requests -> Nat]
      /\ begun' = begun /\ begun' \in [Requests -> Nat]
  BY DEF Typed, Reply
<1>2. counted' \in [Requests -> Nat] /\ counted'[q] = counted[q] + 1
      /\ \A p \in Requests \ {q} : counted'[p] = counted[p]
  BY <1>1
<1>3. /\ at' = [at EXCEPT ![q] = "done"] /\ job' = [job EXCEPT ![q] = NoJob]
      /\ reply' = [reply EXCEPT ![q] = a]
      /\ lock' = [lock EXCEPT ![ask[q].router] = IF @ = q THEN Free ELSE @]
  BY DEF Reply
<1>4. /\ at \in [Requests -> Inside \union Outside] /\ job \in [Requests -> Jobs]
      /\ reply \in [Requests -> Replies] /\ lock \in [Routers -> Requests \union {Free}]
  BY DEF Typed, TypeOK, Jobs
<1>5. Frame(q)
  BY <1>1, <1>2, <1>3, <1>4, Fields DEF Frame
<1>6. lock' \in [Routers -> Requests \union {Free}]
  BY <1>3, <1>4
<1>7. at' \in [Requests -> Inside \union Outside] /\ job' \in [Requests -> Jobs] /\ reply' \in [Requests -> Replies]
  BY <1>3, <1>4, NoJobTyped DEF Outside
<1>8. QED
  BY <1>1, <1>2, <1>3, <1>4, <1>5, <1>6, <1>7

LEMMA FrameTyped ==
  ASSUME Typed, NEW q \in Requests, at[q] # "new", Frame(q), UNCHANGED ask,
         at' \in [Requests -> Inside \union Outside], job' \in [Requests -> Jobs],
         lock' \in [Routers -> Requests \union {Free}],
         begun' \in [Requests -> Nat], counted' \in [Requests -> Nat],
         reply' \in [Requests -> Replies], StoreTyped'
  PROVE  Typed'
<1>1. \A p \in Requests : at'[p] # "new" => at[p] # "new"
  BY DEF Frame
<1>2. QED
  BY <1>1 DEF Typed, TypeOK, Jobs, StoreTyped

LEMMA OthersKept ==
  ASSUME CachedInv, NEW q \in Requests, NEW p \in Requests, p # q, Frame(q), UNCHANGED shared,
         ask'[p] = ask[p], UNCHANGED <<slot, file>> \/ at[q] \in Inside \/ shared
  PROVE  Of(p)'
<1>1. at'[p] = at[p] /\ job'[p] = job[p] /\ begun'[p] = begun[p] /\ counted'[p] = counted[p] /\ Of(p)
  BY DEF Frame, CachedInv
<1>2. LockHeld(p)'
  <2>1. CASE at[p] \in Inside
    <3>1. ask[p].router \in Routers
      BY <2>1, Fields DEF CachedInv, Inside, Building, Using
    <3>2. p # Free
      BY CachedAssumption DEF Free
    <3>3. QED
      BY <1>1, <2>1, <3>1, <3>2 DEF Of, LockHeld, Frame
  <2>2. CASE at[p] \notin Inside
    BY <1>1, <2>2 DEF LockHeld, Inside, Building, Using
  <2>3. QED
    BY <2>1, <2>2
<1>3. HasWorker(p)' /\ Checked(p)' /\ ForeignIsCareless(p)' /\ Counted(p)'
  BY <1>1 DEF Of, HasWorker, Checked, ForeignIsCareless, Counted, Careful, Building, Using
<1>4. Undisturbed(p)'
  <2>1. CASE shared
    BY <2>1 DEF Undisturbed
  <2>2. CASE UNCHANGED <<slot, file>>
    BY <1>1, <2>2 DEF Of, Undisturbed, Using
  <2>3. CASE ~shared /\ at[q] \in Inside
    <3>1. at[p] \notin Inside
      BY <2>3, Alone
    <3>2. QED
      BY <1>1, <3>1 DEF Undisturbed, Inside, Building, Using
  <2>4. QED
    BY <2>1, <2>2, <2>3
<1>5. QED
  BY <1>2, <1>3, <1>4 DEF Of

-----------------------------------------------------------------------------
(* The request itself, where it leaves the lock *)

LEMMA RepliedOf ==
  ASSUME CachedInv, NEW q \in Requests, at[q] \notin {"new", "received", "done"}, NEW a \in Replies, Reply(q, a)
  PROVE  Of(q)'
<1>1. at'[q] = "done" /\ begun' = begun /\ counted'[q] = counted[q] + 1
  BY ReplyFrame DEF CachedInv
<1>2. QED
  BY <1>1 DEF CachedInv, Of, LockHeld, HasWorker, Checked, ForeignIsCareless, Undisturbed, Counted, Early, Inside,
              Building, Using

LEMMA LeftOf ==
  ASSUME CachedInv, NEW q \in Requests, at[q] \notin {"new", "received", "done"},
         NEW s \in {"proxied", "sending", "wait use"}, NEW j \in Jobs, Leaves(q, s, j),
         s = "sending" /\ j.context = "foreign" => ~Careful(q), UNCHANGED <<ask, shared>>
  PROVE  Of(q)'
<1>1. at'[q] = s /\ job'[q] = j /\ begun' = begun /\ counted'[q] = counted[q]
  BY LeavesFrame DEF CachedInv, Outside
<1>2. QED
  BY <1>1 DEF CachedInv, Of, LockHeld, HasWorker, Checked, ForeignIsCareless, Undisturbed, Counted, Early, Inside,
              Building, Using, Careful

\* All that a step has to show besides its own request: types, files and entries.
LEMMA StepKeeps ==
  ASSUME CachedInv, NEW q \in Requests, Frame(q), UNCHANGED <<ask, shared>>,
         UNCHANGED <<slot, file>> \/ at[q] \in Inside \/ shared, at[q] # "new",
         Typed', FiledUnderOwnPrefix', Of(q)'
  PROVE  CachedInv'
<1>1. \A p \in Requests : Of(p)'
  BY OthersKept
<1>2. OneRouter'
  <2>1. \A p \in Requests : at'[p] # "new" => at[p] # "new"
    BY DEF Frame
  <2>2. QED
    BY <2>1 DEF CachedInv, OneRouter
<1>3. QED
  BY <1>1, <1>2 DEF CachedInv

LEMMA GoesKeep ==
  ASSUME CachedInv, NEW q \in Requests, at[q] \notin {"new", "received", "done"}, UNCHANGED <<ask, shared>>,
         NEW s \in (Inside \union Outside) \ {"new", "received", "done"}, NEW j \in Jobs, Goes(q, s, j),
         s \in Inside => at[q] \in Inside, StoreTyped', UNCHANGED <<slot, file>> \/ at[q] \in Inside,
         FiledUnderOwnPrefix', HasWorker(q)', Checked(q)', ForeignIsCareless(q)', Undisturbed(q)'
  PROVE  CachedInv'
<1>1. /\ Frame(q)
      /\ at'[q] = s /\ job'[q] = j /\ lock' = lock /\ begun' = begun /\ counted' = counted /\ reply' = reply
      /\ at' \in [Requests -> Inside \union Outside] /\ job' \in [Requests -> Jobs]
  BY GoesFrame DEF CachedInv
<1>2. LockHeld(q)' /\ Counted(q)'
  BY <1>1 DEF CachedInv, Of, LockHeld, Counted, Early
<1>3. Typed'
  <2>1. lock \in [Routers -> Requests \union {Free}] /\ begun \in [Requests -> Nat] /\ counted \in [Requests -> Nat] /\ reply \in [Requests -> Replies]
    BY DEF CachedInv, Typed, TypeOK
  <2>2. QED
    BY <1>1, <2>1, FrameTyped DEF CachedInv
<1>4. QED
  BY <1>1, <1>2, <1>3, StepKeeps DEF Of

LEMMA LeavesKeep ==
  ASSUME CachedInv, NEW q \in Requests, at[q] \notin {"new", "received", "done"}, UNCHANGED <<ask, shared>>,
         NEW s \in {"proxied", "sending", "wait use"}, NEW j \in Jobs, Leaves(q, s, j),
         s = "sending" /\ j.context = "foreign" => ~Careful(q),
         StoreTyped', UNCHANGED <<slot, file>> \/ at[q] \in Inside, FiledUnderOwnPrefix'
  PROVE  CachedInv'
<1>1. /\ Frame(q) /\ begun' = begun /\ counted' = counted /\ reply' = reply
      /\ at' \in [Requests -> Inside \union Outside] /\ job' \in [Requests -> Jobs]
      /\ lock' \in [Routers -> Requests \union {Free}]
  BY LeavesFrame DEF CachedInv, Outside
<1>2. Of(q)'
  BY LeftOf
<1>3. Typed'
  <2>1. begun \in [Requests -> Nat] /\ counted \in [Requests -> Nat] /\ reply \in [Requests -> Replies]
    BY DEF CachedInv, Typed
  <2>2. QED
    BY <1>1, <2>1, FrameTyped DEF CachedInv
<1>4. QED
  BY <1>1, <1>2, <1>3, StepKeeps

LEMMA ReplyKeeps ==
  ASSUME CachedInv, NEW q \in Requests, at[q] \notin {"new", "received", "done"}, UNCHANGED <<ask, shared>>,
         NEW a \in Replies, Reply(q, a),
         StoreTyped', UNCHANGED <<slot, file>> \/ at[q] \in Inside \/ shared, FiledUnderOwnPrefix'
  PROVE  CachedInv'
<1>1. /\ Frame(q)
      /\ at' \in [Requests -> Inside \union Outside] /\ job' \in [Requests -> Jobs]
      /\ lock' \in [Routers -> Requests \union {Free}]
      /\ begun' \in [Requests -> Nat] /\ counted' \in [Requests -> Nat] /\ reply' \in [Requests -> Replies]
  BY ReplyFrame DEF CachedInv
<1>2. Of(q)'
  BY RepliedOf
<1>3. Typed'
  BY <1>1, FrameTyped DEF CachedInv
<1>4. QED
  BY <1>1, <1>2, <1>3, StepKeeps

\* An exception: an answer, or the prompt goes to the proxy.
LEMMA FailsKeeps ==
  ASSUME CachedInv, NEW q \in Requests, at[q] \notin {"new", "received", "done"}, UNCHANGED <<ask, shared>>,
         NEW a \in Replies, Fails(q, a),
         StoreTyped', UNCHANGED <<slot, file>> \/ at[q] \in Inside, FiledUnderOwnPrefix'
  PROVE  CachedInv'
<1>1. CASE Reply(q, a)
  BY <1>1, ReplyKeeps
<1>2. CASE Leaves(q, "proxied", NoJob)
  BY <1>2, NoJobTyped, LeavesKeep
<1>3. QED
  BY <1>1, <1>2 DEF Fails, ColdPrompt

\* Steps that leave the store alone.
LEMMA SameStore ==
  ASSUME CachedInv, UNCHANGED <<store, shared>>
  PROVE  StoreTyped' /\ FiledUnderOwnPrefix' /\ UNCHANGED <<slot, file>>
  BY DEF CachedInv, Typed, TypeOK, StoreTyped, FiledUnderOwnPrefix, store

LEMMA StoreIsTyped == ASSUME CachedInv PROVE StoreTyped
  BY DEF CachedInv, Typed, TypeOK, StoreTyped

-----------------------------------------------------------------------------
(* handle_cached_completion *)

LEMMA ArriveKeeps ==
  ASSUME CachedInv, NEW q \in Requests, Arrive(q)
  PROVE  CachedInv'
<1>1. PICK a \in Asks[q] : /\ shared \/ \A p \in Requests : ask[p] = NoAsk \/ ask[p].router = a.router
                           /\ ask' = [ask EXCEPT ![q] = a]
  BY DEF Arrive
<1>2. at[q] = "new" /\ Goes(q, "received", NoJob) /\ UNCHANGED <<store, shared>>
  BY DEF Arrive
<1>3. /\ Frame(q)
      /\ at'[q] = "received" /\ job'[q] = NoJob /\ lock' = lock /\ begun' = begun /\ counted' = counted /\ reply' = reply
      /\ at' \in [Requests -> Inside \union Outside] /\ job' \in [Requests -> Jobs]
  BY <1>2, GoesFrame, NoJobTyped DEF CachedInv, Outside
<1>4. DOMAIN ask = Requests /\ \A p \in Requests : at[p] # "new" => ask[p] \in Asks[p]
  BY DEF CachedInv, Typed, TypeOK
<1>5. DOMAIN ask' = Requests /\ ask'[q] = a /\ \A p \in Requests \ {q} : ask'[p] = ask[p]
  BY <1>1, <1>4
<1>6. \A p \in Requests : at'[p] # "new" => ask'[p] \in Asks[p]
  BY <1>1, <1>3, <1>4, <1>5 DEF Frame
<1>7. Typed'
  BY <1>2, <1>3, <1>5, <1>6 DEF CachedInv, Typed, TypeOK, Jobs, store
<1>8. \A p \in Requests : Of(p)'
  <2>1. ASSUME NEW p \in Requests, p # q PROVE Of(p)'
    BY <1>2, <1>3, <1>5, <2>1, OthersKept DEF store
  <2>2. Of(q)'
    BY <1>2, <1>3 DEF CachedInv, Of, LockHeld, HasWorker, Checked, ForeignIsCareless, Undisturbed, Counted, Early, Inside,
                      Building, Using
  <2>3. QED
    BY <2>1, <2>2
<1>9. OneRouter'
  <2>1. ASSUME NEW p \in Requests, at[p] # "new" PROVE ask[p] # NoAsk
    <3>1. DOMAIN ask[p] = AskFields
      BY <1>4, <2>1, CachedAssumption
    <3>2. "chat" \notin DOMAIN NoAsk
      BY DEF NoAsk
    <3>3. QED
      BY <3>1, <3>2 DEF AskFields
  <2>2. ~shared => \A p \in Requests : at[p] # "new" => ask[p].router = a.router
    BY <1>1, <2>1
  <2>3. QED
    BY <1>2, <1>3, <1>5, <2>2 DEF CachedInv, OneRouter, Frame
<1>10. QED
  BY <1>2, <1>7, <1>8, <1>9, SameStore DEF CachedInv

\* A step outside the lock, or into it, that leaves the store and takes job j along.
LEMMA MoveKeeps ==
  ASSUME CachedInv, NEW q \in Requests, at[q] \notin {"new", "received", "done"}, UNCHANGED <<ask, store, shared>>,
         NEW s \in {"wait build", "wait use"}, Goes(q, s, NoJob)
  PROVE  CachedInv'
<1>1. at'[q] = s /\ job'[q] = NoJob
  BY GoesFrame, NoJobTyped DEF CachedInv, Outside
<1>2. HasWorker(q)' /\ Checked(q)' /\ ForeignIsCareless(q)' /\ Undisturbed(q)'
  BY <1>1 DEF HasWorker, Checked, ForeignIsCareless, Undisturbed, Building, Using
<1>3. s \in (Inside \union Outside) \ {"new", "received", "done"} /\ s \notin Inside
  BY DEF Inside, Outside, Building, Using
<1>4. QED
  BY <1>2, <1>3, NoJobTyped, SameStore, GoesKeep DEF store

LEMMA TakeLockKeeps ==
  ASSUME CachedInv, NEW q \in Requests, TakeLock(q)
  PROVE  CachedInv'
<1>1. /\ at[q] \in {"wait build", "wait use"} /\ lock[ask[q].router] = Free
      /\ lock' = [lock EXCEPT ![ask[q].router] = q]
      /\ at' = [at EXCEPT ![q] = IF @ = "wait build" THEN "build" ELSE "use"]
      /\ UNCHANGED <<ask, job, reply, begun, counted, store, shared>>
  BY DEF TakeLock
<1>2. ask[q].router \in Routers
  BY <1>1, Fields DEF CachedInv
<1>3. /\ at \in [Requests -> Inside \union Outside] /\ job \in [Requests -> Jobs]
      /\ lock \in [Routers -> Requests \union {Free}]
      /\ begun \in [Requests -> Nat] /\ counted \in [Requests -> Nat] /\ reply \in [Requests -> Replies]
  BY DEF CachedInv, Typed, TypeOK, Jobs
<1>4. /\ at' \in [Requests -> Inside \union Outside] /\ at'[q] \in {"build", "use"}
      /\ lock' \in [Routers -> Requests \union {Free}] /\ lock'[ask[q].router] = q
      /\ \A p \in Requests \ {q} : at'[p] = at[p]
  BY <1>1, <1>2, <1>3 DEF Inside
<1>5. Frame(q)
  BY <1>1, <1>2, <1>3, <1>4 DEF Frame
<1>6. Typed'
  BY <1>1, <1>3, <1>4, <1>5, SameStore, FrameTyped DEF CachedInv
<1>7. Of(q)'
  BY <1>1, <1>4 DEF CachedInv, Of, LockHeld, HasWorker, Checked, ForeignIsCareless, Undisturbed, Counted, Early,
                    Building, Using
<1>8. QED
  BY <1>1, <1>5, <1>6, <1>7, SameStore, StepKeeps DEF store

\* The answer to a malformed request, and the count of one that is not.
LEMMA BeforeBeginKeeps ==
  ASSUME CachedInv, NEW q \in Requests, Malformed(q) \/ Begin(q)
  PROVE  CachedInv'
<1>1. at[q] = "received" /\ UNCHANGED <<ask, lock, job, counted, store, shared>>
  BY DEF Malformed, Begin
<1>2. /\ at \in [Requests -> Inside \union Outside] /\ job \in [Requests -> Jobs]
      /\ lock \in [Routers -> Requests \union {Free}] /\ reply \in [Requests -> Replies]
      /\ begun \in [Requests -> Nat] /\ counted \in [Requests -> Nat]
  BY DEF CachedInv, Typed, TypeOK, Jobs
<1>3. PICK s \in {"done", "proxied", "begun"} :
        /\ at' = [at EXCEPT ![q] = s]
        /\ begun' = IF s = "done" THEN begun ELSE [begun EXCEPT ![q] = @ + 1]
        /\ reply' = IF s = "done" THEN [reply EXCEPT ![q] = "400"] ELSE reply
  BY DEF Malformed, Begin
<1>4. begun[q] = 0 /\ counted[q] = 0
  BY <1>1 DEF CachedInv, Of, Counted, Early
<1>5. /\ begun' \in [Requests -> Nat] /\ begun'[q] = (IF s = "done" THEN 0 ELSE 1)
      /\ \A p \in Requests \ {q} : begun'[p] = begun[p]
  BY <1>2, <1>3, <1>4
<1>6. /\ at' \in [Requests -> Inside \union Outside] /\ at'[q] = s
      /\ \A p \in Requests \ {q} : at'[p] = at[p]
  BY <1>2, <1>3 DEF Outside
<1>7. reply' \in [Requests -> Replies]
  BY <1>2, <1>3 DEF Replies
<1>8. Frame(q)
  BY <1>1, <1>5, <1>6 DEF Frame
<1>9. Typed'
  BY <1>1, <1>2, <1>5, <1>6, <1>7, <1>8, SameStore, FrameTyped DEF CachedInv
<1>10. Counted(q)'
  BY <1>1, <1>4, <1>5, <1>6 DEF Counted, Early
<1>11. Of(q)'
  BY <1>1, <1>6, <1>10 DEF Of, LockHeld, HasWorker, Checked, ForeignIsCareless, Undisturbed, Inside, Building, Using
<1>12. QED
  BY <1>1, <1>8, <1>9, <1>11, SameStore, StepKeeps

\* Arriving, waiting, being proxied, and the answer.
LEMMA HandlerKeeps ==
  ASSUME CachedInv, NEW q \in Requests,
         Refuse(q) \/ Underived(q) \/ Dispatch(q) \/ TakeLock(q) \/ Send(q) \/ Proxied(q)
  PROVE  CachedInv'
<1>1. CASE Refuse(q)
  <2>1. PICK a \in Replies : Reply(q, a)
    BY <1>1 DEF Refuse, Replies
  <2>2. QED
    BY <1>1, <2>1, SameStore, ReplyKeeps DEF Refuse
<1>2. CASE Dispatch(q)
  <2>1. PICK s \in {"wait build", "wait use"} : Goes(q, s, NoJob)
    BY <1>2 DEF Dispatch
  <2>2. QED
    BY <1>2, <2>1, MoveKeeps DEF Dispatch
<1>3. CASE TakeLock(q)
  BY <1>3, TakeLockKeeps
<1>4. CASE Send(q)
  <2>1. job[q].context \in Replies /\ at[q] = "sending" /\ UNCHANGED <<ask, store, shared>>
    BY <1>4 DEF Send, CachedInv, Typed, TypeOK, Replies
  <2>2. CASE Reply(q, job[q].context)
    BY <2>1, <2>2, SameStore, ReplyKeeps
  <2>3. CASE Fails(q, "gone")
    BY <2>1, <2>3, SameStore, FailsKeeps DEF Replies
  <2>4. QED
    BY <1>4, <2>2, <2>3 DEF Send
<1>5. CASE Proxied(q)
  <2>1. at[q] = "proxied" /\ UNCHANGED <<ask, file, blob, entry, shared>>
    BY <1>5 DEF Proxied
  <2>2. StoreTyped' /\ (UNCHANGED slot \/ shared)
    BY <1>5, <2>1, StoreIsTyped DEF Proxied, StoreTyped, Contents
  <2>3. FiledUnderOwnPrefix'
    BY <2>1 DEF CachedInv, FiledUnderOwnPrefix
  <2>4. PICK a \in Replies : Reply(q, a)
    BY <1>5 DEF Proxied, Replies
  <2>5. QED
    BY <2>1, <2>2, <2>3, <2>4, ReplyKeeps
<1>6. CASE Underived(q)
  BY <1>6, SameStore, FailsKeeps DEF Underived, Replies
<1>7. QED
  BY <1>1, <1>2, <1>3, <1>4, <1>5, <1>6

-----------------------------------------------------------------------------
(* build_cache *)

LEMMA BuiltKeeps ==
  ASSUME CachedInv, NEW q \in Requests, at[q] \in Inside, UNCHANGED <<ask, shared>>,
         Built(q), StoreTyped', FiledUnderOwnPrefix'
  PROVE  CachedInv'
<1> DEFINE j == [NoJob EXCEPT !.context = "built"]
<1>1. j \in Jobs /\ j.context = "built"
  BY NoJobTyped DEF NoJob, Jobs
<1>2. PICK s \in {"sending", "wait use"} : Leaves(q, s, j)
  BY DEF Built
<1>3. at[q] \notin {"new", "received", "done"}
  BY DEF Inside, Building, Using
<1>4. QED
  BY <1>1, <1>2, <1>3, LeavesKeep

LEMMA BeginBuildKeeps ==
  ASSUME CachedInv, NEW q \in Requests, BeginBuild(q)
  PROVE  CachedInv'
<1>1. at[q] = "build" /\ at[q] \in Inside /\ UNCHANGED <<ask, store, shared>>
  BY DEF BeginBuild, Inside
<1>2. ASSUME NEW a \in Replies, Fails(q, a) \/ Reply(q, a) PROVE CachedInv'
  BY <1>1, <1>2, SameStore, FailsKeeps, ReplyKeeps
<1>3. CASE Built(q)
  BY <1>1, <1>3, SameStore, BuiltKeeps
<1>4. ASSUME NEW w \in Workers, Goes(q, "erase", [NoJob EXCEPT !.on = w]) PROVE CachedInv'
  <2> DEFINE j == [NoJob EXCEPT !.on = w]
  <2>1. j \in Jobs /\ j.on = w
    BY NoJobTyped DEF NoJob, Jobs
  <2>2. "erase" \in (Inside \union Outside) \ {"done"}
    BY DEF Inside, Building
  <2>3. at'[q] = "erase" /\ job'[q] = j
    BY <1>4, <2>1, <2>2, GoesFrame DEF CachedInv
  <2>4. HasWorker(q)' /\ Checked(q)' /\ ForeignIsCareless(q)' /\ Undisturbed(q)'
    BY <2>1, <2>3 DEF HasWorker, Checked, ForeignIsCareless, Undisturbed, Building, Using
  <2>5. QED
    BY <1>1, <1>4, <2>1, <2>2, <2>4, SameStore, GoesKeep
<1>5. (\E a \in Replies : Fails(q, a) \/ Reply(q, a)) \/ Built(q)
        \/ \E w \in Workers : Goes(q, "erase", [NoJob EXCEPT !.on = w])
  BY DEF BeginBuild, Replies
<1>6. QED
  BY <1>2, <1>3, <1>4, <1>5

\* Erase, prefill, save and upload go on with the same job.
LEMMA BuildStepKeeps ==
  ASSUME CachedInv, NEW q \in Requests, Erase(q) \/ Prefill(q) \/ Save(q) \/ Upload(q)
  PROVE  CachedInv'
<1>1. at[q] \in Building /\ at[q] \notin {"new", "received", "done"} /\ at[q] \in Inside /\ UNCHANGED <<ask, entry, shared>>
  BY DEF Erase, Prefill, Save, Upload, Building, Inside
<1>2. job[q] \in Jobs /\ job[q].on \in Workers /\ ask[q].prefix \in Keys
  BY <1>1, Fields DEF CachedInv, Typed, TypeOK, Jobs, Of, HasWorker
<1>3. PICK s \in {"prefill", "save", "upload", "publish"} : Goes(q, s, job[q])
  BY DEF Erase, Prefill, Save, Upload
<1>4. s \in (Inside \union Outside) \ {"done"}
  BY DEF Inside, Building
<1>5. at'[q] = s /\ job'[q] = job[q]
  BY <1>2, <1>3, <1>4, GoesFrame DEF CachedInv
<1>6. FiledUnderOwnPrefix'
  BY <1>1 DEF CachedInv, FiledUnderOwnPrefix
<1>7. slot \in [Workers -> Contents] /\ file \in [Workers -> [Keys -> Contents]] /\ StoreTyped
  BY StoreIsTyped DEF StoreTyped
<1>8. StoreTyped'
  BY <1>1, <1>2, <1>7 DEF StoreTyped, Erase, Prefill, Save, Upload, Contents
<1>9. HasWorker(q)' /\ Checked(q)' /\ ForeignIsCareless(q)'
  BY <1>1, <1>2, <1>5 DEF HasWorker, Checked, ForeignIsCareless, Building, Using
<1>10. Undisturbed(q)'
  <2>1. CASE Erase(q)
    BY <1>5, <2>1, <1>3 DEF Erase, Goes, Undisturbed, Using, CachedInv, Typed
  <2>2. CASE Prefill(q)
    <3>1. at'[q] = "save" /\ slot'[job[q].on] = ask[q].prefix
      BY <1>2, <1>7, <2>2 DEF Prefill, Goes, CachedInv, Typed
    <3>2. QED
      BY <1>1, <1>5, <3>1 DEF Undisturbed, Using
  <2>3. CASE Save(q)
    <3>1. at'[q] = "upload" /\ file'[job[q].on][ask[q].prefix] = slot[job[q].on] /\ at[q] = "save"
      BY <1>2, <1>7, <2>3 DEF Save, Goes, CachedInv, Typed
    <3>2. QED
      BY <1>1, <1>5, <3>1 DEF Undisturbed, Using, CachedInv, Of
  <2>4. CASE Upload(q)
    <3>1. at'[q] = "publish" /\ at[q] = "upload" /\ UNCHANGED file
      BY <2>4 DEF Upload, Goes, CachedInv, Typed
    <3>2. QED
      BY <1>1, <1>5, <3>1 DEF Undisturbed, Using, CachedInv, Of
  <2>5. QED
    BY <2>1, <2>2, <2>3, <2>4
<1>11. QED
  BY <1>1, <1>2, <1>3, <1>4, <1>6, <1>8, <1>9, <1>10, GoesKeep

LEMMA PublishKeeps ==
  ASSUME CachedInv, NEW q \in Requests, Publish(q)
  PROVE  CachedInv'
<1>1. /\ at[q] = "publish" /\ at[q] \in Inside /\ Built(q) /\ UNCHANGED <<ask, slot, file, blob, shared>>
      /\ entry' = [k \in Keys |->
           CASE k = ask[q].prefix -> Stored(file[job[q].on][k])
             [] Named(q) /\ k = ask[q].key /\ k # ask[q].prefix -> NoEntry
             [] OTHER -> entry[k]]
  BY DEF Publish, Inside, Building
<1>2. job[q].on \in Workers /\ StoreTyped
  BY <1>1, StoreIsTyped DEF CachedInv, Of, HasWorker, Building
<1>3. \A k \in Keys : file[job[q].on][k] \in Contents
  BY <1>2 DEF StoreTyped
<1>4. \A k \in Keys : entry'[k] \in {Stored(file[job[q].on][k]), NoEntry, entry[k]}
                      /\ (k # ask[q].prefix => entry'[k] \in {NoEntry, entry[k]})
  BY <1>1
<1>5. \A c \in Contents : Stored(c) \in Entries /\ NoEntry \in Entries
  BY DEF Stored, NoEntry, Entries, Contents
<1>6. StoreTyped'
  BY <1>1, <1>2, <1>3, <1>4, <1>5 DEF StoreTyped
<1>7. FiledUnderOwnPrefix'
  <2>1. ~shared => file[job[q].on][ask[q].prefix] = ask[q].prefix
    BY <1>1 DEF CachedInv, Of, Undisturbed
  <2>2. ASSUME NEW k \in Keys, ~shared, entry'[k].status = "validated" PROVE entry'[k].content = k
    <3>1. CASE k = ask[q].prefix
      BY <1>1, <2>1, <2>2, <3>1 DEF Stored
    <3>2. CASE k # ask[q].prefix
      BY <1>4, <2>2, <3>2 DEF NoEntry, CachedInv, FiledUnderOwnPrefix
    <3>3. QED
      BY <3>1, <3>2
  <2>3. QED
    BY <1>1, <2>2 DEF FiledUnderOwnPrefix
<1>8. QED
  BY <1>1, <1>6, <1>7, BuiltKeeps

LEMMA BuildFailsKeeps ==
  ASSUME CachedInv, NEW q \in Requests, BuildFails(q)
  PROVE  CachedInv'
<1>1. /\ at[q] \notin {"new", "received", "done"} /\ Fails(q, "500") /\ UNCHANGED <<ask, store, shared>>
  BY DEF BuildFails
<1>2. QED
  BY <1>1, SameStore, FailsKeeps DEF Replies

-----------------------------------------------------------------------------
(* use_cache *)

\* What a request has while it uses an entry.
LEMMA UsingHas ==
  ASSUME CachedInv, NEW q \in Requests, at[q] \in Using
  PROVE  /\ job[q] \in Jobs /\ job[q].on \in Workers /\ at[q] \in Inside /\ at[q] \notin {"new", "received", "done"}
         /\ ask[q].key \in Keys /\ ask[q].prefix \in Keys
         /\ job[q].entry.status = "quarantined" => ask[q].validate
         /\ ~shared => job[q].entry.content = ask[q].key
<1>1. at[q] \in Inside /\ at[q] \notin {"new", "received", "done"} /\ Of(q)
  BY DEF Using, Inside, CachedInv
<1>2. QED
  BY <1>1, Fields DEF CachedInv, Typed, TypeOK, Jobs, Of, HasWorker, Checked, Undisturbed

LEMMA QuarantineKeeps ==
  ASSUME CachedInv, NEW q \in Requests, ask[q].key \in Keys, Quarantine(q), UNCHANGED shared
  PROVE  entry' \in [Keys -> Entries] /\ FiledUnderOwnPrefix'
<1> DEFINE k == ask[q].key
           row == IF entry[k] = NoEntry THEN entry[k] ELSE [entry[k] EXCEPT !.status = "quarantined"]
<1>1. entry \in [Keys -> Entries]
  BY StoreIsTyped DEF StoreTyped
<1>2. entry' = [entry EXCEPT ![k] = row]
  BY DEF Quarantine
<1>3. row \in Entries /\ row.status \in {"none", "quarantined"}
  BY <1>1 DEF Entries, NoEntry
<1>4. QED
  BY <1>1, <1>2, <1>3 DEF CachedInv, FiledUnderOwnPrefix

LEMMA NextCandidateKeeps ==
  ASSUME CachedInv, NEW q \in Requests, at[q] \in Using, UNCHANGED <<ask, shared>>,
         NEW j \in Jobs, j.on \in Workers, NextCandidate(q, j),
         j.entry.status = "quarantined" => ask[q].validate, ~shared => j.entry.content = ask[q].key,
         StoreTyped', FiledUnderOwnPrefix'
  PROVE  CachedInv'
<1>1. at[q] \in Inside /\ at[q] \notin {"new", "received", "done"}
  BY UsingHas
<1>2. CASE Reply(q, "500")
  BY <1>1, <1>2, ReplyKeeps DEF Replies
<1> DEFINE next == [j EXCEPT !.tried = @ \union {j.on}, !.on = Free, !.context = "none"]
<1>3. CASE Goes(q, "candidate", next)
  <2>1. next \in Jobs /\ next.entry = j.entry /\ next.context = "none"
    BY <1>3 DEF Jobs
  <2>2. "candidate" \in (Inside \union Outside) \ {"done"}
    BY DEF Inside
  <2>3. at'[q] = "candidate" /\ job'[q] = next
    BY <1>3, <2>1, <2>2, GoesFrame DEF CachedInv
  <2>4. HasWorker(q)' /\ Checked(q)' /\ ForeignIsCareless(q)' /\ Undisturbed(q)'
    BY <2>1, <2>3 DEF HasWorker, Checked, ForeignIsCareless, Undisturbed, Building, Using
  <2>5. QED
    BY <1>1, <1>3, <2>1, <2>2, <2>4, GoesKeep
<1>4. QED
  BY <1>2, <1>3 DEF NextCandidate

LEMMA EnsureKeeps ==
  ASSUME CachedInv, NEW q \in Requests, Ensure(q)
  PROVE  CachedInv'
<1>1. at[q] = "use" /\ at[q] \in Inside /\ UNCHANGED <<ask, store, shared>>
  BY DEF Ensure, Inside
<1>2. ask[q].key \in Keys /\ entry \in [Keys -> Entries]
  BY <1>1, Fields, StoreIsTyped DEF CachedInv, StoreTyped
<1>3. ASSUME NEW a \in Replies, Fails(q, a) \/ Reply(q, a) PROVE CachedInv'
  BY <1>1, <1>3, SameStore, FailsKeeps, ReplyKeeps
<1> DEFINE j == [NoJob EXCEPT !.entry = entry[ask[q].key]]
<1>4. CASE Usable(entry[ask[q].key]) /\ Goes(q, "candidate", j)
  <2>1. j \in Jobs /\ j.entry = entry[ask[q].key] /\ j.context = "none"
    BY <1>2, NoJobTyped DEF NoJob, Jobs
  <2>2. "candidate" \in (Inside \union Outside) \ {"done"}
    BY DEF Inside
  <2>3. at'[q] = "candidate" /\ job'[q] = j
    BY <1>4, <2>1, <2>2, GoesFrame DEF CachedInv
  <2>4. j.entry.status = "validated" /\ (~shared => j.entry.content = ask[q].key)
    BY <1>2, <1>4, <2>1 DEF Usable, CachedInv, FiledUnderOwnPrefix
  <2>5. HasWorker(q)' /\ Checked(q)' /\ ForeignIsCareless(q)' /\ Undisturbed(q)'
    BY <1>1, <2>1, <2>3, <2>4 DEF HasWorker, Checked, ForeignIsCareless, Undisturbed, Building, Using
  <2>6. QED
    BY <1>1, <1>4, <2>1, <2>2, <2>5, SameStore, GoesKeep
<1>5. (\E a \in Replies : Fails(q, a) \/ Reply(q, a)) \/ (Usable(entry[ask[q].key]) /\ Goes(q, "candidate", j))
  <2>1. PICK found \in Lookup(ask[q].key) :
          CASE found = "miss" -> Reply(q, "404")
            [] found = "mismatch" -> Fails(q, "404")
            [] found = "quarantined" -> Fails(q, "500")
            [] found = "found" -> Goes(q, "candidate", j)
    BY DEF Ensure
  <2>2. found = "found" => Usable(entry[ask[q].key])
    BY DEF Lookup
  <2>3. found \in {"miss", "mismatch", "quarantined", "found"}
    BY DEF Lookup
  <2>4. QED
    BY <2>1, <2>2, <2>3 DEF Replies
<1>6. QED
  BY <1>3, <1>4, <1>5

LEMMA CandidateKeeps ==
  ASSUME CachedInv, NEW q \in Requests, LeaseForUse(q) \/ OutOfCandidates(q)
  PROVE  CachedInv'
<1>1. at[q] = "candidate" /\ at[q] \in Inside /\ UNCHANGED <<ask, store, shared>>
  BY DEF LeaseForUse, OutOfCandidates, Inside
<1>2. ASSUME NEW a \in Replies, Fails(q, a) \/ Reply(q, a) PROVE CachedInv'
  BY <1>1, <1>2, SameStore, FailsKeeps, ReplyKeeps
<1>3. ASSUME NEW w \in Workers, Goes(q, "hydrate", [job[q] EXCEPT !.on = w]) PROVE CachedInv'
  <2> DEFINE j == [job[q] EXCEPT !.on = w]
  <2>1. j \in Jobs /\ j.on = w /\ j.entry = job[q].entry
    BY DEF CachedInv, Typed, TypeOK, Jobs
  <2>2. "hydrate" \in (Inside \union Outside) \ {"done"}
    BY DEF Inside, Using
  <2>3. at'[q] = "hydrate" /\ job'[q] = j
    BY <1>3, <2>1, <2>2, GoesFrame DEF CachedInv
  <2>4. Checked(q) /\ Undisturbed(q)
    BY DEF CachedInv, Of
  <2>5. HasWorker(q)' /\ Checked(q)' /\ ForeignIsCareless(q)' /\ Undisturbed(q)'
    BY <1>1, <2>1, <2>3, <2>4 DEF HasWorker, Checked, ForeignIsCareless, Undisturbed, Building, Using
  <2>6. QED
    BY <1>1, <1>3, <2>1, <2>2, <2>5, SameStore, GoesKeep
<1>4. CASE LeaseForUse(q)
  <2>1. Reply(q, "503") \/ \E w \in Workers : Goes(q, "hydrate", [job[q] EXCEPT !.on = w])
    BY <1>4 DEF LeaseForUse
  <2>2. QED
    BY <1>2, <1>3, <2>1 DEF Replies
<1>5. CASE OutOfCandidates(q)
  BY <1>2, <1>5 DEF OutOfCandidates, Replies
<1>6. QED
  BY <1>4, <1>5

LEMMA CandidateFailsKeeps ==
  ASSUME CachedInv, NEW q \in Requests, CandidateFails(q)
  PROVE  CachedInv'
<1>1. at[q] \in Using /\ NextCandidate(q, job[q]) /\ UNCHANGED <<ask, store, shared>>
  BY DEF CandidateFails, Using
<1>2. QED
  BY <1>1, UsingHas, SameStore, NextCandidateKeeps

LEMMA HydrateKeeps ==
  ASSUME CachedInv, NEW q \in Requests, Hydrate(q)
  PROVE  CachedInv'
<1> DEFINE w == job[q].on
           k == ask[q].key
           c == job[q].entry.content
<1>1. /\ at[q] = "hydrate" /\ at[q] \in Using /\ ask[q].prefix = k
      /\ file' = [file EXCEPT ![w][k] = c]
      /\ Goes(q, "restore", job[q]) /\ UNCHANGED <<ask, slot, blob, entry, shared>>
  BY DEF Hydrate, Using
<1>2. /\ job[q] \in Jobs /\ w \in Workers /\ at[q] \in Inside /\ at[q] \notin {"new", "received", "done"} /\ k \in Keys
      /\ job[q].entry.status = "quarantined" => ask[q].validate
      /\ ~shared => c = k
  BY <1>1, UsingHas
<1>3. c \in Contents /\ StoreTyped
  BY <1>2, StoreIsTyped DEF Jobs, Entries
<1>4. StoreTyped' /\ file'[w][k] = c
  BY <1>1, <1>2, <1>3 DEF StoreTyped
<1>5. "restore" \in (Inside \union Outside) \ {"done"}
  BY DEF Inside, Using
<1>6. at'[q] = "restore" /\ job'[q] = job[q]
  BY <1>1, <1>2, <1>5, GoesFrame DEF CachedInv
<1>7. HasWorker(q)' /\ Checked(q)' /\ ForeignIsCareless(q)' /\ Undisturbed(q)'
  BY <1>1, <1>2, <1>4, <1>6 DEF HasWorker, Checked, ForeignIsCareless, Undisturbed, Building, Using
<1>8. FiledUnderOwnPrefix'
  BY <1>1 DEF CachedInv, FiledUnderOwnPrefix
<1>9. QED
  BY <1>1, <1>2, <1>4, <1>5, <1>7, <1>8, GoesKeep

LEMMA FindCorruptKeeps ==
  ASSUME CachedInv, NEW q \in Requests, FindCorrupt(q)
  PROVE  CachedInv'
<1>1. at[q] \in Using /\ Quarantine(q) /\ Fails(q, "500") /\ UNCHANGED <<ask, slot, file, blob, shared>>
  BY DEF FindCorrupt, Using
<1>2. entry' \in [Keys -> Entries] /\ FiledUnderOwnPrefix' /\ StoreTyped
  BY <1>1, UsingHas, QuarantineKeeps, StoreIsTyped
<1>3. StoreTyped'
  BY <1>1, <1>2 DEF StoreTyped
<1>4. QED
  BY <1>1, <1>2, <1>3, UsingHas, FailsKeeps DEF Replies

LEMMA RestoreKeeps ==
  ASSUME CachedInv, NEW q \in Requests, Restore(q)
  PROVE  CachedInv'
<1> DEFINE w == job[q].on
           k == ask[q].key
<1>1. /\ at[q] = "restore" /\ at[q] \in Using
      /\ slot' = [slot EXCEPT ![w] = file[w][k]]
      /\ Goes(q, "generate", job[q]) /\ UNCHANGED <<ask, file, blob, entry, shared>>
  BY DEF Restore, Using
<1>2. /\ job[q] \in Jobs /\ w \in Workers /\ at[q] \in Inside /\ at[q] \notin {"new", "received", "done"} /\ k \in Keys
      /\ job[q].entry.status = "quarantined" => ask[q].validate
      /\ ~shared => job[q].entry.content = k
  BY <1>1, UsingHas
<1>3. ~shared => file[w][k] = k /\ ask[q].prefix = k
  BY <1>1 DEF CachedInv, Of, Undisturbed
<1>4. StoreTyped
  BY StoreIsTyped
<1>5. StoreTyped' /\ slot'[w] = file[w][k]
  BY <1>1, <1>2, <1>4 DEF StoreTyped
<1>6. "generate" \in (Inside \union Outside) \ {"done"}
  BY DEF Inside, Using
<1>7. at'[q] = "generate" /\ job'[q] = job[q]
  BY <1>1, <1>2, <1>6, GoesFrame DEF CachedInv
<1>8. HasWorker(q)' /\ Checked(q)' /\ ForeignIsCareless(q)' /\ Undisturbed(q)'
  BY <1>1, <1>2, <1>3, <1>5, <1>7 DEF HasWorker, Checked, ForeignIsCareless, Undisturbed, Building, Using
<1>9. FiledUnderOwnPrefix'
  BY <1>1 DEF CachedInv, FiledUnderOwnPrefix
<1>10. QED
  BY <1>1, <1>2, <1>5, <1>6, <1>8, <1>9, GoesKeep

\* A slot with other content: the completion or the check has used it.
LEMMA SlotTaken ==
  ASSUME CachedInv, NEW w, slot' = [slot EXCEPT ![w] = "foreign"], UNCHANGED <<file, blob>>
  PROVE  entry' \in [Keys -> Entries] => StoreTyped'
<1>1. StoreTyped /\ "foreign" \in Contents
  BY StoreIsTyped DEF Contents
<1>2. QED
  BY <1>1 DEF StoreTyped

LEMMA GenerateKeeps ==
  ASSUME CachedInv, NEW q \in Requests, Generate(q)
  PROVE  CachedInv'
<1> DEFINE own == ~ask[q].suffixOnly \/ (Appends /\ slot[job[q].on] = ask[q].prefix)
           s == IF ask[q].validate THEN "validate" ELSE "finish"
           j == [job[q] EXCEPT !.context = IF own THEN "own" ELSE "foreign"]
<1>1. /\ at[q] = "generate" /\ at[q] \in Using /\ Goes(q, s, j)
      /\ slot' = [slot EXCEPT ![job[q].on] = "foreign"] /\ UNCHANGED <<ask, file, blob, entry, shared>>
  BY DEF Generate, Using
<1>2. /\ job[q] \in Jobs /\ job[q].on \in Workers /\ at[q] \in Inside /\ at[q] \notin {"new", "received", "done"}
      /\ job[q].entry.status = "quarantined" => ask[q].validate
      /\ ~shared => job[q].entry.content = ask[q].key
  BY <1>1, UsingHas
<1>3. /\ j \in Jobs /\ j.on = job[q].on /\ j.entry = job[q].entry
      /\ j.context = IF own THEN "own" ELSE "foreign"
  BY <1>2 DEF Jobs
<1>4. s \in (Inside \union Outside) \ {"done"}
  BY DEF Inside, Using
<1>5. at'[q] = s /\ job'[q] = j
  BY <1>1, <1>3, <1>4, GoesFrame DEF CachedInv
<1>6. ~ask[q].validate /\ ~own => ~Careful(q)
  <2>1. ~shared => slot[job[q].on] = ask[q].prefix
    BY <1>1 DEF CachedInv, Of, Undisturbed
  <2>2. QED
    BY <2>1 DEF Careful
<1>7. HasWorker(q)' /\ Checked(q)' /\ ForeignIsCareless(q)' /\ Undisturbed(q)'
  BY <1>1, <1>2, <1>3, <1>5, <1>6
     DEF HasWorker, Checked, ForeignIsCareless, Undisturbed, Building, Using, Careful
<1>8. StoreTyped' /\ FiledUnderOwnPrefix'
  BY <1>1, StoreIsTyped, SlotTaken DEF CachedInv, FiledUnderOwnPrefix, StoreTyped
<1>9. QED
  BY <1>1, <1>2, <1>3, <1>4, <1>7, <1>8, GoesKeep

LEMMA ValidateKeeps ==
  ASSUME CachedInv, NEW q \in Requests, Validate(q)
  PROVE  CachedInv'
<1>1. /\ at[q] = "validate" /\ at[q] \in Using /\ job[q].context = "own" /\ Goes(q, "finish", job[q])
      /\ slot' = [slot EXCEPT ![job[q].on] = "foreign"] /\ UNCHANGED <<ask, file, blob, entry, shared>>
  BY DEF Validate, Using
<1>2. /\ job[q] \in Jobs /\ job[q].on \in Workers /\ at[q] \in Inside /\ at[q] \notin {"new", "received", "done"}
      /\ job[q].entry.status = "quarantined" => ask[q].validate
      /\ ~shared => job[q].entry.content = ask[q].key
  BY <1>1, UsingHas
<1>3. "finish" \in (Inside \union Outside) \ {"done"}
  BY DEF Inside, Using
<1>4. at'[q] = "finish" /\ job'[q] = job[q]
  BY <1>1, <1>2, <1>3, GoesFrame DEF CachedInv
<1>5. HasWorker(q)' /\ Checked(q)' /\ ForeignIsCareless(q)' /\ Undisturbed(q)'
  BY <1>1, <1>2, <1>4 DEF HasWorker, Checked, ForeignIsCareless, Undisturbed, Building, Using
<1>6. StoreTyped' /\ FiledUnderOwnPrefix'
  BY <1>1, StoreIsTyped, SlotTaken DEF CachedInv, FiledUnderOwnPrefix, StoreTyped
<1>7. QED
  BY <1>1, <1>2, <1>3, <1>5, <1>6, GoesKeep

LEMMA MismatchKeeps ==
  ASSUME CachedInv, NEW q \in Requests, Mismatch(q)
  PROVE  CachedInv'
<1>1. /\ at[q] = "validate" /\ at[q] \in Using /\ Quarantine(q)
      /\ slot' = [slot EXCEPT ![job[q].on] = "foreign"] /\ UNCHANGED <<ask, file, blob, shared>>
  BY DEF Mismatch, Using
<1>2. /\ job[q] \in Jobs /\ job[q].on \in Workers /\ at[q] \in Inside /\ at[q] \notin {"new", "received", "done"}
      /\ ask[q].key \in Keys
      /\ ~shared => job[q].entry.content = ask[q].key
  BY <1>1, UsingHas
<1>3. StoreTyped' /\ FiledUnderOwnPrefix'
  BY <1>1, <1>2, QuarantineKeeps, SlotTaken
<1>4. CASE Leaves(q, "sending", [NoJob EXCEPT !.context = "own"])
  <2>1. [NoJob EXCEPT !.context = "own"] \in Jobs /\ [NoJob EXCEPT !.context = "own"].context = "own"
    BY NoJobTyped DEF NoJob, Jobs
  <2>2. QED
    BY <1>1, <1>2, <1>3, <1>4, <2>1, LeavesKeep
<1> DEFINE j == [job[q] EXCEPT !.entry.status = "quarantined"]
<1>5. CASE NextCandidate(q, j)
  <2>1. j \in Jobs /\ j.entry.content = job[q].entry.content /\ j.on \in Workers
    BY <1>2 DEF Jobs, Entries
  <2>2. ask[q].validate
    BY <1>1 DEF CachedInv, Of, Checked
  <2>3. QED
    BY <1>1, <1>2, <1>3, <1>5, <2>1, <2>2, NextCandidateKeeps
<1>6. QED
  BY <1>4, <1>5 DEF Mismatch

LEMMA FinishKeeps ==
  ASSUME CachedInv, NEW q \in Requests, Finish(q)
  PROVE  CachedInv'
<1> DEFINE j == [NoJob EXCEPT !.context = job[q].context]
<1>1. at[q] = "finish" /\ at[q] \in Using /\ Leaves(q, "sending", j) /\ UNCHANGED <<ask, store, shared>>
  BY DEF Finish, Using
<1>2. at[q] \in Inside /\ at[q] \notin {"new", "received", "done"} /\ job[q] \in Jobs
  BY <1>1, UsingHas
<1>3. j \in Jobs /\ j.context = job[q].context
  BY <1>2, NoJobTyped DEF NoJob, Jobs
<1>4. j.context = "foreign" => ~Careful(q)
  BY <1>1, <1>3 DEF CachedInv, Of, ForeignIsCareless
<1>5. QED
  BY <1>1, <1>2, <1>3, <1>4, SameStore, LeavesKeep

-----------------------------------------------------------------------------
(* Init, and any step *)

LEMMA InitHolds == Init => CachedInv
<1> SUFFICES ASSUME Init PROVE CachedInv
  OBVIOUS
<1>1. entry \in [Keys -> Entries] /\ \A k \in Keys : entry[k] = NoEntry \/ entry[k] = Stored(k)
  BY DEF Init, Stored, NoEntry, Entries, Contents
<1>2. slot \in [Workers -> Contents] /\ file \in [Workers -> [Keys -> Contents]]
  BY DEF Init, Contents
<1>3. blob \in [Contents -> {"absent", "good", "damaged"}]
  <2>1. PICK b \in {"good", "damaged"} :
          blob = [c \in Contents |-> IF \E k \in Keys : entry[k] = Stored(c) THEN b ELSE "absent"]
    BY DEF Init
  <2>2. QED
    BY <2>1
<1>4. Typed
  BY <1>1, <1>2, <1>3, NoJobTyped DEF Init, Typed, TypeOK, Jobs, Outside, Replies, Free
<1>5. FiledUnderOwnPrefix
  BY <1>1 DEF FiledUnderOwnPrefix, Stored, NoEntry
<1>6. \A q \in Requests : Of(q)
  BY DEF Init, Of, LockHeld, HasWorker, Checked, ForeignIsCareless, Undisturbed, Counted, Early, Inside, Building, Using
<1>7. QED
  BY <1>4, <1>5, <1>6 DEF Init, CachedInv, OneRouter

LEMMA HandleKeeps ==
  ASSUME CachedInv, NEW q \in Requests, Handle(q)
  PROVE  CachedInv'
<1>1. CASE Build(q)
  BY <1>1, BeginBuildKeeps, BuildStepKeeps, PublishKeeps, BuildFailsKeeps DEF Build
<1>2. CASE Use(q)
  BY <1>2, EnsureKeeps, CandidateKeeps, CandidateFailsKeeps, HydrateKeeps, FindCorruptKeeps, RestoreKeeps,
     GenerateKeeps, ValidateKeeps, MismatchKeeps, FinishKeeps DEF Use
<1>3. QED
  BY <1>1, <1>2, BeforeBeginKeeps, HandlerKeeps DEF Handle

LEMMA StutterKeeps ==
  ASSUME CachedInv, UNCHANGED vars
  PROVE  CachedInv'
<1>1. UNCHANGED <<at, ask, lock, job, reply, begun, counted, slot, file, blob, entry, shared>>
  BY DEF vars, store
<1>2. \A q \in Requests : Of(q)'
  BY <1>1 DEF CachedInv, Of, LockHeld, HasWorker, Checked, ForeignIsCareless, Undisturbed, Counted, Early, Careful
<1>3. QED
  BY <1>1, <1>2 DEF CachedInv, Typed, TypeOK, OneRouter, FiledUnderOwnPrefix

LEMMA CachedStep ==
  ASSUME CachedInv, [Next]_vars
  PROVE  CachedInv'
  BY ArriveKeeps, HandleKeeps, StutterKeeps DEF Next

\* The types, who is alone on the slots, what a stage has left for the next one and what
\* has been counted, in every state of every instance.
THEOREM CachedInvariant == Spec => []CachedInv
  BY InitHolds, CachedStep, PTL DEF Spec

\* The variables of a cached completion have their types (CacheRouterState, CacheEntry).
THEOREM CachedTyped == Spec => []TypeOK
<1>1. CachedInv => TypeOK
  BY DEF CachedInv, Typed
<1>2. QED
  BY <1>1, CachedInvariant, PTL

\* build_cache erases, prefills, saves and uploads in steps of its own; what publish_manifest
\* files under a key is nevertheless that key's prefix, while only this router's cached
\* requests reach the slots.
THEOREM FiledUnderOwn == Spec => []FiledUnderOwnPrefix
<1>1. CachedInv => FiledUnderOwnPrefix
  BY DEF CachedInv
<1>2. QED
  BY <1>1, CachedInvariant, PTL

\* use_cache goes on with the entry it has in memory after quarantining it: only with the
\* same validation, and only after that succeeded.
THEOREM OnlyCheckedAfterQuarantine == Spec => []QuarantinedOnlyChecked
<1>1. CachedInv => QuarantinedOnlyChecked
  BY DEF CachedInv, Of, Checked, QuarantinedOnlyChecked, Using
<1>2. QED
  BY <1>1, CachedInvariant, PTL

\* begin_request and finish_request run in pairs: once each for a request that is not
\* malformed, on each of its ways out, and never for one that is.
THEOREM EachCountedOnce == Spec => []CountedOnce
<1>1. CachedInv => CountedOnce
  <2>1. ASSUME NEW q \in Requests, Counted(q)
        PROVE  begun[q] <= 1 /\ counted[q] = IF at[q] = "done" THEN begun[q] ELSE 0
    BY <2>1 DEF Counted
  <2>2. QED
    BY <2>1 DEF CachedInv, Of, CountedOnce
<1>2. QED
  BY <1>1, CachedInvariant, PTL

-----------------------------------------------------------------------------
(* What the client sees *)

Continuing(q) ==
  \E s \in (Inside \union Outside) \ {"new", "done"} : at' = [at EXCEPT ![q] = s] /\ UNCHANGED reply
Answering(q) ==
  \E a \in Replies : /\ at' = [at EXCEPT ![q] = "done"] /\ reply' = [reply EXCEPT ![q] = a]
                     /\ a = "foreign" => ~Careful(q)

LEMMA StepsOn ==
  ASSUME NEW q \in Requests, NEW s \in (Inside \union Outside) \ {"new", "done"}, NEW j,
         Goes(q, s, j) \/ Leaves(q, s, j)
  PROVE  Continuing(q)
  BY DEF Goes, Leaves, Continuing

LEMMA FailsShape ==
  ASSUME NEW q \in Requests, NEW a \in Replies \ {"foreign"}, Fails(q, a) \/ Reply(q, a)
  PROVE  Continuing(q) \/ Answering(q)
<1>1. "proxied" \in (Inside \union Outside) \ {"new", "done"}
  BY DEF Outside
<1>2. QED
  BY <1>1, StepsOn DEF Fails, ColdPrompt, Reply, Answering

\* Every step of a handler: on to another stage, or an answer; another prompt's is one
\* the request has not asked to be protected from.
LEMMA HandleShape ==
  ASSUME CachedInv, NEW q \in Requests, Handle(q)
  PROVE  at[q] \notin {"new", "done"} /\ UNCHANGED <<ask, shared>> /\ (Continuing(q) \/ Answering(q))
<1> DEFINE Stages == (Inside \union Outside) \ {"new", "done"}
<1>0. /\ {"begun", "proxied", "wait build", "wait use", "sending", "build", "use", "candidate"} \subseteq Stages
      /\ Building \subseteq Stages /\ Using \subseteq Stages
  BY DEF Inside, Outside, Building, Using
<1>1. CASE Refuse(q) \/ Underived(q)
  BY <1>1, FailsShape DEF Refuse, Underived, Replies, store
<1>2. CASE Dispatch(q)
  <2>1. PICK s \in {"proxied", "wait build", "wait use"} : Goes(q, s, NoJob)
    BY <1>2 DEF Dispatch
  <2>2. QED
    BY <1>0, <1>2, <2>1, StepsOn DEF Dispatch
<1>3. CASE TakeLock(q)
  <2>1. PICK s \in {"build", "use"} : at' = [at EXCEPT ![q] = s] /\ UNCHANGED reply
    BY <1>3 DEF TakeLock
  <2>2. QED
    BY <1>0, <1>3, <2>1 DEF TakeLock, Continuing
<1>4. CASE Send(q)
  <2>1. job[q].context \in Replies /\ at[q] = "sending" /\ UNCHANGED <<ask, shared>>
    BY <1>4 DEF Send, CachedInv, Typed, TypeOK, Replies
  <2>2. job[q].context = "foreign" => ~Careful(q)
    BY <2>1 DEF CachedInv, Of, ForeignIsCareless
  <2>3. QED
    BY <1>4, <2>1, <2>2, FailsShape DEF Send, Reply, Answering, Replies
<1>5. CASE Proxied(q)
  BY <1>5, FailsShape DEF Proxied, Replies
<1>6. CASE Build(q)
  <2>1. at[q] \in {"build"} \union Building /\ UNCHANGED <<ask, shared>>
    BY <1>6 DEF Build, BeginBuild, Erase, Prefill, Save, Upload, Publish, BuildFails, Building, store
  <2>2. Built(q) => Continuing(q)
    BY <1>0, StepsOn DEF Built
  <2>3. \/ \E a \in Replies \ {"foreign"} : Fails(q, a) \/ Reply(q, a)
        \/ Built(q)
        \/ \E s \in Building : \E j : Goes(q, s, j)
    BY <1>6 DEF Build, BeginBuild, Erase, Prefill, Save, Upload, Publish, BuildFails, Building, Replies
  <2>4. QED
    BY <1>0, <2>1, <2>2, <2>3, FailsShape, StepsOn
<1>7. CASE Use(q)
  <2>1. at[q] \in {"use", "candidate"} \union Using /\ UNCHANGED <<ask, shared>>
    BY <1>7 DEF Use, Ensure, LeaseForUse, OutOfCandidates, CandidateFails, Hydrate, FindCorrupt, Restore, Generate,
                Validate, Mismatch, Finish, Using, store
  <2>2. \/ \E a \in Replies \ {"foreign"} : Fails(q, a) \/ Reply(q, a)
        \/ \E s \in {"candidate", "sending"} \union Using : \E j : Goes(q, s, j) \/ Leaves(q, s, j)
    <3>1. CASE Ensure(q)
      <4>1. PICK found \in Lookup(ask[q].key) :
              CASE found = "miss" -> Reply(q, "404")
                [] found = "mismatch" -> Fails(q, "404")
                [] found = "quarantined" -> Fails(q, "500")
                [] found = "found" -> Goes(q, "candidate", [NoJob EXCEPT !.entry = entry[ask[q].key]])
        BY <3>1 DEF Ensure
      <4>2. found \in {"miss", "mismatch", "quarantined", "found"}
        BY DEF Lookup
      <4>3. QED
        BY <4>1, <4>2 DEF Replies
    <3>2. CASE CandidateFails(q) \/ Mismatch(q)
      BY <3>2 DEF CandidateFails, Mismatch, NextCandidate, Replies
    <3>3. CASE LeaseForUse(q) \/ OutOfCandidates(q) \/ FindCorrupt(q)
      BY <3>3 DEF LeaseForUse, OutOfCandidates, FindCorrupt, Using, Replies
    <3>4. CASE Hydrate(q) \/ Restore(q) \/ Generate(q) \/ Validate(q) \/ Finish(q)
      BY <3>4 DEF Hydrate, Restore, Generate, Validate, Finish, Using
    <3>5. QED
      BY <1>7, <3>1, <3>2, <3>3, <3>4 DEF Use
  <2>3. QED
    BY <1>0, <2>1, <2>2, FailsShape, StepsOn
<1>8. CASE Malformed(q)
  BY <1>8 DEF Malformed, Answering, Replies
<1>9. CASE Begin(q)
  <2>1. PICK s \in {"proxied", "begun"} : at' = [at EXCEPT ![q] = s] /\ UNCHANGED reply
    BY <1>9 DEF Begin
  <2>2. QED
    BY <1>0, <1>9, <2>1 DEF Begin, Continuing
<1>10. QED
  BY <1>1, <1>2, <1>3, <1>4, <1>5, <1>6, <1>7, <1>8, <1>9 DEF Handle

outcomes == [q \in Requests |-> Outcome(q)]
carefuls == [q \in Requests |-> Careful(q)]

LEMMA AnswerStep ==
  ASSUME CachedInv, [Next]_vars
  PROVE  [Answers!Next]_<<outcomes, carefuls>>
<1>1. at \in [Requests -> Inside \union Outside] /\ reply \in [Requests -> Replies]
  BY DEF CachedInv, Typed
<1>2. ASSUME NEW q \in Requests, Arrive(q) PROVE Answers!Ask(q)
  <2>1. /\ at[q] = "new" /\ at' = [at EXCEPT ![q] = "received"] /\ UNCHANGED <<reply, shared>>
        /\ \E a \in Asks[q] : ask' = [ask EXCEPT ![q] = a]
    BY <1>2 DEF Arrive, Goes, store
  <2>2. \A p \in Requests : Outcome(p)' = IF p = q THEN "asked" ELSE Outcome(p)
    BY <1>1, <2>1 DEF Outcome
  <2>3. outcomes' = [outcomes EXCEPT ![q] = "asked"] /\ outcomes[q] = "none"
    BY <2>1, <2>2 DEF outcomes, Outcome
  <2>4. DOMAIN ask = Requests
    BY DEF CachedInv, Typed
  <2>5. \A p \in Requests \ {q} : Careful(p)' = Careful(p)
    BY <2>1, <2>4 DEF Careful
  <2>6. Careful(q)' \in BOOLEAN
    BY DEF Careful
  <2>7. carefuls' = [carefuls EXCEPT ![q] = Careful(q)']
    BY <2>5 DEF carefuls
  <2>8. QED
    BY <2>3, <2>6, <2>7 DEF Answers!Ask, outcomes, carefuls
<1>3. ASSUME NEW q \in Requests, Handle(q) PROVE Answers!Answer(q) \/ UNCHANGED <<outcomes, carefuls>>
  <2>1. at[q] \notin {"new", "done"} /\ UNCHANGED <<ask, shared>> /\ (Continuing(q) \/ Answering(q))
    BY <1>3, HandleShape
  <2>2. carefuls' = carefuls
    BY <2>1 DEF carefuls, Careful
  <2>3. outcomes[q] = "asked"
    BY <2>1 DEF outcomes, Outcome
  <2>4. CASE Continuing(q)
    <3>1. \A p \in Requests : Outcome(p)' = Outcome(p)
      BY <1>1, <2>1, <2>4 DEF Continuing, Outcome
    <3>2. QED
      BY <2>2, <3>1 DEF outcomes
  <2>5. CASE Answering(q)
    <3>1. PICK a \in Replies : /\ at' = [at EXCEPT ![q] = "done"] /\ reply' = [reply EXCEPT ![q] = a]
                               /\ a = "foreign" => ~Careful(q)
      BY <2>5 DEF Answering
    <3>2. at' = [at EXCEPT ![q] = "done"] /\ reply' = [reply EXCEPT ![q] = a]
      BY <3>1
    <3> DEFINE o == IF a \in {"own", "foreign"} THEN a ELSE "refused"
    <3>3. \A p \in Requests : Outcome(p)' = IF p = q THEN o ELSE Outcome(p)
      BY <1>1, <3>2 DEF Outcome
    <3>4. outcomes' = [outcomes EXCEPT ![q] = o]
      BY <3>3 DEF outcomes
    <3>5. o \in {"own", "refused"} \union (IF carefuls[q] THEN {} ELSE {"foreign"})
      BY <3>1 DEF carefuls
    <3>6. QED
      BY <2>2, <2>3, <3>4, <3>5 DEF Answers!Answer, outcomes, carefuls
  <2>6. QED
    BY <2>1, <2>4, <2>5
<1>4. CASE UNCHANGED vars
  BY <1>4 DEF vars, outcomes, carefuls, Outcome, Careful
<1>5. QED
  BY <1>2, <1>3, <1>4 DEF Next, Answers!Next

\* Whatever handle_cached_completion does, its client sees one answer or one refusal, and
\* a careful one never an answer to another prompt: the safety part of AnswersRefined.
THEOREM AnswersImplemented == Spec => Answers!Init /\ [][Answers!Next]_(Answers!vars)
<1>1. Init => Answers!Init
  <2>1. ASSUME Init, NEW q \in Requests PROVE Outcome(q) = "none" /\ Careful(q) = TRUE
    <3>1. at[q] = "new" /\ ask[q] = NoAsk
      BY <2>1 DEF Init
    <3>2. ask[q].suffixOnly = FALSE
      BY <3>1 DEF NoAsk
    <3>3. QED
      BY <3>1, <3>2 DEF Outcome, Careful
  <2>2. QED
    BY <2>1 DEF Answers!Init
<1>2. CachedInv /\ [Next]_vars => [Answers!Next]_(Answers!vars)
  BY AnswerStep DEF Answers!vars, outcomes, carefuls
<1>3. QED
  BY <1>1, <1>2, CachedInvariant, PTL DEF Spec
=============================================================================
