------------------------ MODULE StackLifecycle_proofs ------------------------
(***************************************************************************)
(* What the commands promise of the processes of a host, for any number of *)
(* PIDs and workers, whatever dies and whoever gets its PID.               *)
(*                                                                         *)
(* The promises are about states between commands, or after the endpoint   *)
(* test; they hold because of the order of the calls in a program.  So the *)
(* argument has three parts: what is true of every program (Sound), that   *)
(* it stays true of what is left of it, and what the head of the rest says *)
(* of processes and PID files.                                             *)
(***************************************************************************)
EXTENDS StackLifecycle, SequenceTheorems, TLAPS

Ops == [op : Operations, of : Services \union {Legacy}]

\* The operations that are about a process of the stack.
ServiceOps == {"replace", "stop", "check", "start", "save", "build", "owned", "use", "judge"}

\* What only the endpoint test does.
TestOps == {"build", "owned", "use", "judge"}

Clears(o, s) == o.op \in {"replace", "stop"} /\ File(o.of) = File(s)
Starts(o, s) == o.op = "start" /\ File(o.of) = File(s)

\* Between the i-th call and the last one that clears the file of s, nothing starts there.
ClearedBefore(p, i, s) ==
  \E k \in 1..Len(p) : k < i /\ Clears(p[k], s) /\ \A j \in 1..Len(p) : k < j /\ j < i => ~Starts(p[j], s)

Sound(p) ==
  \A i \in 1..Len(p) :
    /\ p[i].op = "start" =>
         /\ i + 1 \in 1..Len(p) /\ p[i + 1] = Do("save", p[i].of)
         /\ ClearedBefore(p, i, p[i].of)
    /\ p[i].op = "save" => i > 1 /\ p[i - 1] = Do("start", p[i].of)
    /\ p[i].op = "halt" => i > 1 /\ p[i - 1].op = "record"
    /\ p[i].op \in ServiceOps => p[i].of \in Services

\* Of the rest of a program.
RestSound ==
  \A i \in 1..Len(ctl.todo) :
    /\ ctl.todo[i].op = "start" => i + 1 \in 1..Len(ctl.todo) /\ ctl.todo[i + 1] = Do("save", ctl.todo[i].of)
    /\ ctl.todo[i].op = "save" /\ i > 1 => ctl.todo[i - 1] = Do("start", ctl.todo[i].of)
    /\ ctl.todo[i].op = "halt" /\ i > 1 => ctl.todo[i - 1].op = "record"
    /\ ctl.todo[i].op \in ServiceOps => ctl.todo[i].of \in Services
    /\ ctl.todo[i].op \in TestOps => ctl.cmd = "test"

\* Who runs where the PID file of s is kept.
Occupants(s) == {p \in Pids : proc[p] \in Services /\ File(proc[p]) = File(s)}

\* The command starts no sidecar, s among them.
Bare(s) == ctl.bare /\ s.role = "sidecar"

\* Nothing is started beside a process of the same file.
RoomToStart ==
  \A i \in 1..Len(ctl.todo) : ctl.todo[i].op = "start" /\ ~Bare(ctl.todo[i].of) =>
    \/ ClearedBefore(ctl.todo, i, ctl.todo[i].of)
    \/ /\ Occupants(ctl.todo[i].of) = {}
       /\ \A j \in 1..Len(ctl.todo) : j < i => ~Starts(ctl.todo[j], ctl.todo[i].of)

\* A process that has been started and not yet filed.
Unfiled(p) == At("save") /\ p = ctl.pid

FiledOrNew ==
  \A s \in Services : \A p \in Running(s) :
    \/ pidfile[File(s)] = p
    \/ Unfiled(p) /\ File(s) = File(Of)

NewIsAlone == At("save") => \A p \in Occupants(Of) : p = ctl.pid

\* As long as nothing is on record, no PID that is in a file or in a command's hands is
\* the legacy process's.
LegacyApart ==
  ~record => \A p \in Running(Legacy) : ctl.pid # p /\ \A f \in Files : pidfile[f] # p

\* What is about to be halted is on record.
HaltsWhatIsRecorded == At("halt") /\ ctl.legacy # {} => record

\* What the endpoint test knows when n of its calls are left.
Remains(w, n) == \A i \in 1..n : ctl.todo[i] = EndpointTest(w)[24 - n + i]
WorkerFile == [role |-> "worker", of |-> "host"]
TestKnows(n) ==
  /\ n >= 8 => proof = NoTest
  /\ n > 0 => proof.status = "none"
  /\ n \in 1..7 => proof.built \in Pids
  /\ n = 7 => pidfile[WorkerFile] = proof.built
  /\ n \in 1..6 => proof.old = proof.built
  /\ n \in 1..4 => (proof.replaced <=> ctl.pid # proof.built)
  /\ n \in {2, 3} => pidfile[WorkerFile] = ctl.pid
  /\ n = 1 => proof.used = ctl.pid

TestInv ==
  /\ ctl.cmd = "test" =>
       Len(ctl.todo) \in 0..24 /\ (\E w \in Ids : Remains(w, Len(ctl.todo))) /\ TestKnows(Len(ctl.todo))
  /\ ctl.cmd \notin {"test", None} => proof.status = "none"
  /\ proof.status = "success" => proof.used # proof.built

IdleInv ==
  /\ ctl.cmd = None => ctl.todo = <<>>
  /\ ctl.workers # <<>> => ctl.cmd \in Looping

UncutInv == RoomToStart /\ FiledOrNew /\ NewIsAlone /\ TestInv

StackInv ==
  /\ TypeOK
  /\ IdleInv
  /\ RestSound
  /\ LegacyApart
  /\ HaltsWhatIsRecorded
  /\ ~cut => UncutInv

-----------------------------------------------------------------------------
(* The programs *)

LEMMA DoTyped ==
  ASSUME NEW op \in Operations, NEW s \in Services \union {Legacy}
  PROVE  Do(op, s) \in Ops /\ Do(op, s).op = op /\ Do(op, s).of = s
  BY DEF Do, Ops

LEMMA DoIs == \A op, s : Do(op, s).op = op /\ Do(op, s).of = s
  BY DEF Do

LEMMA ServicesAre ==
  ASSUME NEW w \in Ids
  PROVE  Router \in Services /\ Worker(w) \in Services /\ Sidecar(w) \in Services
  BY DEF Services

LEMMA FilesDiffer ==
  ASSUME NEW w \in Ids
  PROVE  /\ File(Worker(w)) = WorkerFile
         /\ File(Router) # WorkerFile /\ File(Sidecar(w)) # WorkerFile /\ File(Router) # File(Sidecar(w))
  BY DEF File, Router, Worker, Sidecar, WorkerFile

LEMMA Concatenated ==
  ASSUME NEW s \in Seq(Ops), NEW t \in Seq(Ops), NEW x, x = s \o t
  PROVE  /\ x \in Seq(Ops)
         /\ Len(x) = Len(s) + Len(t)
         /\ \A i \in 1..Len(s) : x[i] = s[i]
         /\ \A i \in 1..Len(t) : x[Len(s) + i] = t[i]
  BY ConcatProperties

LEMMA ProcessProgram ==
  ASSUME NEW s \in Services, NEW p, p = StartProcess(s)
  PROVE  /\ p \in Seq(Ops) /\ Len(p) = 3
         /\ p[1] = Do("start", s) /\ p[2] = Do("save", s) /\ p[3] = Do("ready", s)
  BY DoTyped DEF StartProcess, Operations

Then(a, b, s) == <<a, b>> \o StartProcess(s)

LEMMA TwoThenProcess ==
  ASSUME NEW s \in Services, NEW a \in Ops, NEW b \in Ops,
         NEW p, p = Then(a, b, s)
  PROVE  /\ p \in Seq(Ops) /\ Len(p) = 5
         /\ p[1] = a /\ p[2] = b
         /\ p[3] = Do("start", s) /\ p[4] = Do("save", s) /\ p[5] = Do("ready", s)
<1> DEFINE head == <<a, b>>
           tail == StartProcess(s)
<1>1. head \in Seq(Ops) /\ Len(head) = 2 /\ head[1] = a /\ head[2] = b
  OBVIOUS
<1>2. /\ tail \in Seq(Ops) /\ Len(tail) = 3
      /\ tail[1] = Do("start", s) /\ tail[2] = Do("save", s) /\ tail[3] = Do("ready", s)
  BY ProcessProgram
<1>3. p = head \o tail /\ head \in Seq(Ops) /\ tail \in Seq(Ops)
  BY <1>1, <1>2 DEF Then
<1> HIDE DEF head, tail
<1>4. /\ p \in Seq(Ops) /\ Len(p) = Len(head) + Len(tail)
      /\ \A i \in 1..Len(head) : p[i] = head[i]
      /\ \A i \in 1..Len(tail) : p[Len(head) + i] = tail[i]
  BY <1>3, Concatenated
<1> QED
  BY <1>1, <1>2, <1>4

LEMMA SidecarProgram ==
  ASSUME NEW w \in Ids, NEW p, p = StartSidecar(w)
  PROVE  /\ p \in Seq(Ops) /\ Len(p) = 5
         /\ p[1] = Do("replace", Sidecar(w)) /\ p[2] = Do("check", Sidecar(w))
         /\ p[3] = Do("start", Sidecar(w)) /\ p[4] = Do("save", Sidecar(w)) /\ p[5] = Do("ready", Sidecar(w))
<1>1. /\ Sidecar(w) \in Services
      /\ Do("replace", Sidecar(w)) \in Ops /\ Do("check", Sidecar(w)) \in Ops
  BY DoTyped, ServicesAre DEF Operations
<1>2. p = Then(Do("replace", Sidecar(w)), Do("check", Sidecar(w)), Sidecar(w))
  BY DEF StartSidecar, Then
<1> QED
  BY <1>1, <1>2, TwoThenProcess

LEMMA StackProgram ==
  ASSUME NEW w \in Ids, NEW p, p = StartStack(w)
  PROVE  /\ p \in Seq(Ops) /\ Len(p) = 16
         /\ p[1] = Do("snapshot", Legacy) /\ p[2] = Do("record", Legacy) /\ p[3] = Do("halt", Legacy)
         /\ p[4] = Do("replace", Router) /\ p[5] = Do("replace", Worker(w))
         /\ p[6] = Do("start", Worker(w)) /\ p[7] = Do("save", Worker(w)) /\ p[8] = Do("ready", Worker(w))
         /\ p[9] = Do("replace", Sidecar(w)) /\ p[10] = Do("check", Sidecar(w))
         /\ p[11] = Do("start", Sidecar(w)) /\ p[12] = Do("save", Sidecar(w)) /\ p[13] = Do("ready", Sidecar(w))
         /\ p[14] = Do("start", Router) /\ p[15] = Do("save", Router) /\ p[16] = Do("ready", Router)
<1> DEFINE a == <<Do("snapshot", Legacy), Do("record", Legacy), Do("halt", Legacy),
                  Do("replace", Router), Do("replace", Worker(w))>>
           b == StartProcess(Worker(w))
           c == StartSidecar(w)
           d == StartProcess(Router)
           ab == a \o b
           abc == ab \o c
<1>1. /\ a \in Seq(Ops) /\ Len(a) = 5
      /\ a[1] = Do("snapshot", Legacy) /\ a[2] = Do("record", Legacy) /\ a[3] = Do("halt", Legacy)
      /\ a[4] = Do("replace", Router) /\ a[5] = Do("replace", Worker(w))
  BY DoTyped, ServicesAre DEF Operations
<1>2. /\ b \in Seq(Ops) /\ Len(b) = 3
      /\ b[1] = Do("start", Worker(w)) /\ b[2] = Do("save", Worker(w)) /\ b[3] = Do("ready", Worker(w))
  BY ProcessProgram, ServicesAre
<1>3. /\ c \in Seq(Ops) /\ Len(c) = 5
      /\ c[1] = Do("replace", Sidecar(w)) /\ c[2] = Do("check", Sidecar(w))
      /\ c[3] = Do("start", Sidecar(w)) /\ c[4] = Do("save", Sidecar(w)) /\ c[5] = Do("ready", Sidecar(w))
  BY SidecarProgram
<1>4. /\ d \in Seq(Ops) /\ Len(d) = 3
      /\ d[1] = Do("start", Router) /\ d[2] = Do("save", Router) /\ d[3] = Do("ready", Router)
  BY ProcessProgram, ServicesAre
<1>5. p = abc \o d
  BY DEF StartStack
<1>6. a \in Seq(Ops) /\ b \in Seq(Ops) /\ c \in Seq(Ops) /\ d \in Seq(Ops)
  BY <1>1, <1>2, <1>3, <1>4
<1> HIDE DEF a, b, c, d
<1>7. /\ ab \in Seq(Ops) /\ Len(ab) = Len(a) + Len(b)
      /\ \A i \in 1..Len(a) : ab[i] = a[i]
      /\ \A i \in 1..Len(b) : ab[Len(a) + i] = b[i]
  BY <1>6, Concatenated
<1> HIDE DEF ab
<1>8. /\ abc \in Seq(Ops) /\ Len(abc) = Len(ab) + Len(c)
      /\ \A i \in 1..Len(ab) : abc[i] = ab[i]
      /\ \A i \in 1..Len(c) : abc[Len(ab) + i] = c[i]
  <2>1. ab \in Seq(Ops) /\ c \in Seq(Ops)
    BY <1>6, <1>7
  <2> QED
    BY <2>1, Concatenated
<1> HIDE DEF abc
<1>9. /\ p \in Seq(Ops) /\ Len(p) = Len(abc) + Len(d)
      /\ \A i \in 1..Len(abc) : p[i] = abc[i]
      /\ \A i \in 1..Len(d) : p[Len(abc) + i] = d[i]
  <2>1. abc \in Seq(Ops) /\ d \in Seq(Ops)
    BY <1>6, <1>8
  <2> QED
    BY <2>1, <1>5, Concatenated
<1>10. /\ Len(ab) = 8 /\ \A i \in 1..5 : ab[i] = a[i]
       /\ ab[6] = b[1] /\ ab[7] = b[2] /\ ab[8] = b[3]
  BY <1>1, <1>2, <1>7
<1>11. /\ Len(abc) = 13 /\ \A i \in 1..8 : abc[i] = ab[i]
       /\ abc[9] = c[1] /\ abc[10] = c[2] /\ abc[11] = c[3] /\ abc[12] = c[4] /\ abc[13] = c[5]
  BY <1>3, <1>8, <1>10
<1>12. /\ Len(p) = 16 /\ \A i \in 1..13 : p[i] = abc[i]
       /\ p[14] = d[1] /\ p[15] = d[2] /\ p[16] = d[3]
  BY <1>4, <1>9, <1>11
<1> QED
  BY <1>1, <1>2, <1>3, <1>4, <1>9, <1>10, <1>11, <1>12

LEMMA WorkerOnlyProgram ==
  ASSUME NEW w \in Ids
  PROVE  \E p \in Seq(Ops) :
           /\ StartWorkerOnly(w) = p \o StartSidecar(w)
           /\ Len(p) = 5
           /\ p[1] = Do("replace", Worker(w)) /\ p[2] = Do("check", Worker(w))
           /\ p[3] = Do("start", Worker(w)) /\ p[4] = Do("save", Worker(w)) /\ p[5] = Do("ready", Worker(w))
<1>1. /\ Worker(w) \in Services
      /\ Do("replace", Worker(w)) \in Ops /\ Do("check", Worker(w)) \in Ops
  BY DoTyped, ServicesAre DEF Operations
<1>2. StartWorkerOnly(w) = Then(Do("replace", Worker(w)), Do("check", Worker(w)), Worker(w)) \o StartSidecar(w)
  BY DEF StartWorkerOnly, Then
<1> DEFINE p == Then(Do("replace", Worker(w)), Do("check", Worker(w)), Worker(w))
<1>3. /\ p \in Seq(Ops) /\ Len(p) = 5
      /\ p[1] = Do("replace", Worker(w)) /\ p[2] = Do("check", Worker(w))
      /\ p[3] = Do("start", Worker(w)) /\ p[4] = Do("save", Worker(w)) /\ p[5] = Do("ready", Worker(w))
  BY <1>1, TwoThenProcess
<1>4. StartWorkerOnly(w) = p \o StartSidecar(w)
  BY <1>2
<1> HIDE DEF p
<1> QED
  BY <1>3, <1>4

LEMMA LocalMissProgram ==
  ASSUME NEW w \in Ids, NEW p, p = LocalMiss(w)
  PROVE  /\ p \in Seq(Ops) /\ Len(p) = 5
         /\ p[1] = Do("owned", Worker(w)) /\ p[2] = Do("replace", Worker(w))
         /\ p[3] = Do("start", Worker(w)) /\ p[4] = Do("save", Worker(w)) /\ p[5] = Do("ready", Worker(w))
<1>1. /\ Worker(w) \in Services
      /\ Do("owned", Worker(w)) \in Ops /\ Do("replace", Worker(w)) \in Ops
  BY DoTyped, ServicesAre DEF Operations
<1>2. p = Then(Do("owned", Worker(w)), Do("replace", Worker(w)), Worker(w))
  BY DEF LocalMiss, Then
<1> QED
  BY <1>1, <1>2, TwoThenProcess

LEMMA RouterProgram ==
  ASSUME NEW p, p = RestartRouter
  PROVE  /\ p \in Seq(Ops) /\ Len(p) = 4 /\ p[1] = Do("replace", Router)
         /\ p[2] = Do("start", Router) /\ p[3] = Do("save", Router) /\ p[4] = Do("ready", Router)
<1> DEFINE head == <<Do("replace", Router)>>
           tail == StartProcess(Router)
<1>1. head \in Seq(Ops) /\ Len(head) = 1 /\ head[1] = Do("replace", Router)
  BY DoTyped DEF Operations, Services
<1>2. /\ tail \in Seq(Ops) /\ Len(tail) = 3
      /\ tail[1] = Do("start", Router) /\ tail[2] = Do("save", Router) /\ tail[3] = Do("ready", Router)
  BY ProcessProgram DEF Services
<1>3. p = head \o tail /\ head \in Seq(Ops) /\ tail \in Seq(Ops)
  BY <1>1, <1>2 DEF RestartRouter
<1> HIDE DEF head, tail
<1>4. /\ p \in Seq(Ops) /\ Len(p) = Len(head) + Len(tail)
      /\ \A i \in 1..Len(head) : p[i] = head[i]
      /\ \A i \in 1..Len(tail) : p[Len(head) + i] = tail[i]
  BY <1>3, Concatenated
<1> QED
  BY <1>1, <1>2, <1>4

\* Programs without a call that only the endpoint test makes.
Plain(p) == \A i \in 1..Len(p) : p[i].op \notin TestOps

LEMMA StackPlain ==
  ASSUME NEW w \in Ids
  PROVE  Plain(StartStack(w))
<1> DEFINE a == StartStack(w)
<1>1. /\ Len(a) = 16
      /\ a[1] = Do("snapshot", Legacy) /\ a[2] = Do("record", Legacy) /\ a[3] = Do("halt", Legacy)
      /\ a[4] = Do("replace", Router) /\ a[5] = Do("replace", Worker(w)) /\ a[6] = Do("start", Worker(w))
      /\ a[7] = Do("save", Worker(w)) /\ a[8] = Do("ready", Worker(w))
  BY StackProgram
<1>2. /\ a[9] = Do("replace", Sidecar(w)) /\ a[10] = Do("check", Sidecar(w)) /\ a[11] = Do("start", Sidecar(w))
      /\ a[12] = Do("save", Sidecar(w)) /\ a[13] = Do("ready", Sidecar(w))
      /\ a[14] = Do("start", Router) /\ a[15] = Do("save", Router) /\ a[16] = Do("ready", Router)
  BY StackProgram
<1> HIDE DEF a
<1>3. ASSUME NEW i \in 1..16
      PROVE  a[i].op \notin TestOps
  <2>1. \/ i = 1 \/ i = 2 \/ i = 3 \/ i = 4 \/ i = 5 \/ i = 6 \/ i = 7 \/ i = 8
        \/ i = 9 \/ i = 10 \/ i = 11 \/ i = 12 \/ i = 13 \/ i = 14 \/ i = 15 \/ i = 16
    OBVIOUS
  <2> QED
    BY <1>1, <1>2, <2>1, DoIs DEF TestOps
<1> QED
  BY <1>1, <1>3 DEF Plain, a

\* The calls of the endpoint test after the stack is up; before, none is of its own.
LEMMA TestProgram ==
  ASSUME NEW w \in Ids, NEW p, p = EndpointTest(w)
  PROVE  /\ p \in Seq(Ops) /\ Len(p) = 24
         /\ \A i \in 1..16 : p[i] \in Ops /\ p[i].op \notin TestOps
         /\ p[17] = Do("build", Worker(w)) /\ p[18] = Do("owned", Worker(w))
         /\ p[19] = Do("replace", Worker(w)) /\ p[20] = Do("start", Worker(w))
         /\ p[21] = Do("save", Worker(w)) /\ p[22] = Do("ready", Worker(w))
         /\ p[23] = Do("use", Worker(w)) /\ p[24] = Do("judge", Worker(w))
<1> DEFINE a == StartStack(w)
           b == <<Do("build", Worker(w))>>
           c == LocalMiss(w)
           d == <<Do("use", Worker(w)), Do("judge", Worker(w))>>
           ab == a \o b
           abc == ab \o c
<1>1. a \in Seq(Ops) /\ Len(a) = 16 /\ \A i \in 1..16 : a[i] \in Ops /\ a[i].op \notin TestOps
  BY StackProgram, StackPlain, ElementOfSeq DEF Plain
<1>2. b \in Seq(Ops) /\ Len(b) = 1 /\ b[1] = Do("build", Worker(w))
  BY DoTyped, ServicesAre DEF Operations
<1>3. /\ c \in Seq(Ops) /\ Len(c) = 5
      /\ c[1] = Do("owned", Worker(w)) /\ c[2] = Do("replace", Worker(w))
      /\ c[3] = Do("start", Worker(w)) /\ c[4] = Do("save", Worker(w)) /\ c[5] = Do("ready", Worker(w))
  BY LocalMissProgram
<1>4. d \in Seq(Ops) /\ Len(d) = 2 /\ d[1] = Do("use", Worker(w)) /\ d[2] = Do("judge", Worker(w))
  BY DoTyped, ServicesAre DEF Operations
<1>5. p = abc \o d
  BY DEF EndpointTest
<1>6. a \in Seq(Ops) /\ b \in Seq(Ops) /\ c \in Seq(Ops) /\ d \in Seq(Ops)
  BY <1>1, <1>2, <1>3, <1>4
<1> HIDE DEF a, b, c, d
<1>7. /\ ab \in Seq(Ops) /\ Len(ab) = Len(a) + Len(b)
      /\ \A i \in 1..Len(a) : ab[i] = a[i]
      /\ \A i \in 1..Len(b) : ab[Len(a) + i] = b[i]
  BY <1>6, Concatenated
<1> HIDE DEF ab
<1>8. /\ abc \in Seq(Ops) /\ Len(abc) = Len(ab) + Len(c)
      /\ \A i \in 1..Len(ab) : abc[i] = ab[i]
      /\ \A i \in 1..Len(c) : abc[Len(ab) + i] = c[i]
  <2>1. ab \in Seq(Ops) /\ c \in Seq(Ops)
    BY <1>6, <1>7
  <2> QED
    BY <2>1, Concatenated
<1> HIDE DEF abc
<1>9. /\ p \in Seq(Ops) /\ Len(p) = Len(abc) + Len(d)
      /\ \A i \in 1..Len(abc) : p[i] = abc[i]
      /\ \A i \in 1..Len(d) : p[Len(abc) + i] = d[i]
  <2>1. abc \in Seq(Ops) /\ d \in Seq(Ops)
    BY <1>6, <1>8
  <2> QED
    BY <2>1, <1>5, Concatenated
<1>10. Len(ab) = 17 /\ (\A i \in 1..16 : ab[i] = a[i]) /\ ab[17] = b[1]
  BY <1>1, <1>2, <1>7
<1>11. /\ Len(abc) = 22 /\ \A i \in 1..17 : abc[i] = ab[i]
       /\ abc[18] = c[1] /\ abc[19] = c[2] /\ abc[20] = c[3] /\ abc[21] = c[4] /\ abc[22] = c[5]
  BY <1>3, <1>8, <1>10
<1>12. p \in Seq(Ops) /\ Len(p) = 24 /\ (\A i \in 1..22 : p[i] = abc[i]) /\ p[23] = d[1] /\ p[24] = d[2]
  BY <1>4, <1>9, <1>11
<1>13. \A i \in 1..16 : p[i] = a[i]
  BY <1>10, <1>11, <1>12
<1>14. p[17] = b[1] /\ p[18] = c[1] /\ p[19] = c[2] /\ p[20] = c[3] /\ p[21] = c[4] /\ p[22] = c[5]
  BY <1>10, <1>11, <1>12
<1> QED
  BY <1>1, <1>2, <1>3, <1>4, <1>12, <1>13, <1>14

-----------------------------------------------------------------------------
(* Every program is sound *)

LEMMA EmptySound == Sound(<<>>)
  BY DEF Sound

LEMMA SoundConcatenation ==
  ASSUME NEW s \in Seq(Ops), NEW t \in Seq(Ops), NEW x, x = s \o t, Sound(s), Sound(t)
  PROVE  x \in Seq(Ops) /\ Sound(x)
<1>1. /\ x \in Seq(Ops)
      /\ Len(x) = Len(s) + Len(t)
      /\ \A i \in 1..Len(s) : x[i] = s[i]
      /\ \A i \in 1..Len(t) : x[Len(s) + i] = t[i]
  BY Concatenated
<1>2. Len(s) \in Nat /\ Len(t) \in Nat
  OBVIOUS
<1> DEFINE m == Len(s)
           n == Len(t)
<1>3. ASSUME NEW i \in 1..Len(x)
      PROVE  /\ x[i].op = "start" =>
                  /\ i + 1 \in 1..Len(x) /\ x[i + 1] = Do("save", x[i].of)
                  /\ ClearedBefore(x, i, x[i].of)
             /\ x[i].op = "save" => i > 1 /\ x[i - 1] = Do("start", x[i].of)
             /\ x[i].op = "halt" => i > 1 /\ x[i - 1].op = "record"
             /\ x[i].op \in ServiceOps => x[i].of \in Services
  <2>1. CASE i \in 1..m
    <3>1. x[i] = s[i] /\ (i + 1 \in 1..m => x[i + 1] = s[i + 1]) /\ (i > 1 => x[i - 1] = s[i - 1])
      BY <1>1, <1>2, <2>1
    <3>2. ClearedBefore(s, i, s[i].of) => ClearedBefore(x, i, s[i].of)
      BY <1>1, <1>2, <2>1 DEF ClearedBefore
    <3> QED
      BY <1>1, <1>2, <2>1, <3>1, <3>2 DEF Sound
  <2>2. CASE i \notin 1..m
    <3> DEFINE h == i - m
    <3>1. h \in 1..n /\ i = m + h
      BY <1>1, <1>2, <2>2
    <3>2. x[i] = t[h] /\ (h + 1 \in 1..n => x[i + 1] = t[h + 1]) /\ (h > 1 => x[i - 1] = t[h - 1])
      <4>1. x[m + h] = t[h]
        BY <1>1, <3>1
      <4>2. h + 1 \in 1..n => x[m + (h + 1)] = t[h + 1]
        BY <1>1
      <4>3. h > 1 => x[m + (h - 1)] = t[h - 1]
        BY <1>1, <1>2, <3>1
      <4>4. m + (h + 1) = i + 1 /\ m + (h - 1) = i - 1
        BY <1>1, <1>2, <3>1
      <4> QED
        BY <3>1, <4>1, <4>2, <4>3, <4>4
    <3>3. ASSUME ClearedBefore(t, h, t[h].of)
          PROVE  ClearedBefore(x, i, t[h].of)
      <4>1. PICK k \in 1..n : /\ k < h /\ Clears(t[k], t[h].of)
                              /\ \A j \in 1..n : k < j /\ j < h => ~Starts(t[j], t[h].of)
        BY <3>3 DEF ClearedBefore
      <4>2. m + k \in 1..Len(x) /\ m + k < i /\ x[m + k] = t[k]
        BY <1>1, <1>2, <3>1, <4>1
      <4>3. ASSUME NEW j \in 1..Len(x), m + k < j, j < i
            PROVE  ~Starts(x[j], t[h].of)
        <5>1. j - m \in 1..n /\ k < j - m /\ j - m < h /\ m + (j - m) = j
          BY <1>1, <1>2, <3>1, <4>1, <4>3
        <5>2. x[m + (j - m)] = t[j - m]
          BY <1>1, <5>1
        <5> QED
          BY <4>1, <5>1, <5>2
      <4> QED
        BY <4>1, <4>2, <4>3 DEF ClearedBefore
    <3> HIDE DEF h
    <3>4. /\ t[h].op = "start" =>
                /\ h + 1 \in 1..n /\ t[h + 1] = Do("save", t[h].of)
                /\ ClearedBefore(t, h, t[h].of)
          /\ t[h].op = "save" => h > 1 /\ t[h - 1] = Do("start", t[h].of)
          /\ t[h].op = "halt" => h > 1 /\ t[h - 1].op = "record"
          /\ t[h].op \in ServiceOps => t[h].of \in Services
      BY <3>1 DEF Sound
    <3>5. (h + 1 \in 1..n => i + 1 \in 1..Len(x)) /\ (h > 1 => i > 1)
      BY <1>1, <1>2, <3>1
    <3> QED
      BY <3>2, <3>3, <3>4, <3>5
  <2> QED
    BY <2>1, <2>2
<1> QED
  BY <1>1, <1>3 DEF Sound

LEMMA RouterSound == RestartRouter \in Seq(Ops) /\ Sound(RestartRouter)
<1> DEFINE p == RestartRouter
<1>1. /\ p \in Seq(Ops) /\ Len(p) = 4 /\ p[1] = Do("replace", Router)
      /\ p[2] = Do("start", Router) /\ p[3] = Do("save", Router) /\ p[4] = Do("ready", Router)
  BY RouterProgram
<1> HIDE DEF p
<1>2. ClearedBefore(p, 2, Router)
  BY <1>1, DoIs DEF ClearedBefore, Clears, Starts
<1>3. ASSUME NEW i \in 1..4
      PROVE  /\ p[i].op = "start" =>
                  /\ i + 1 \in 1..4 /\ p[i + 1] = Do("save", p[i].of)
                  /\ ClearedBefore(p, i, p[i].of)
             /\ p[i].op = "save" => i > 1 /\ p[i - 1] = Do("start", p[i].of)
             /\ p[i].op = "halt" => i > 1 /\ p[i - 1].op = "record"
             /\ p[i].op \in ServiceOps => p[i].of \in Services
  <2>1. i = 1 \/ i = 2 \/ i = 3 \/ i = 4
    OBVIOUS
  <2> QED
    BY <1>1, <1>2, <2>1, DoIs DEF ServiceOps, Services
<1> QED
  BY <1>1, <1>3 DEF Sound, p

LEMMA ReplacedSound ==
  ASSUME NEW s \in Services, NEW a \in Ops, NEW b \in Ops, a.of = s, b.of = s,
         a.op \in {"replace", "owned"}, b.op \in {"check", "replace"}, "replace" \in {a.op, b.op}
  PROVE  Then(a, b, s) \in Seq(Ops) /\ Sound(Then(a, b, s))
<1> DEFINE p == Then(a, b, s)
<1>1. /\ p \in Seq(Ops) /\ Len(p) = 5
      /\ p[1] = a /\ p[2] = b
      /\ p[3] = Do("start", s) /\ p[4] = Do("save", s) /\ p[5] = Do("ready", s)
  BY TwoThenProcess
<1> HIDE DEF p
<1>2. ClearedBefore(p, 3, s)
  <2>1. ~Starts(p[2], s) /\ ~Starts(p[1], s)
    BY <1>1 DEF Starts
  <2>2. Clears(p[1], s) \/ Clears(p[2], s)
    BY <1>1 DEF Clears
  <2> QED
    BY <1>1, <2>1, <2>2 DEF ClearedBefore
<1>3. ASSUME NEW i \in 1..5
      PROVE  /\ p[i].op = "start" =>
                  /\ i + 1 \in 1..5 /\ p[i + 1] = Do("save", p[i].of)
                  /\ ClearedBefore(p, i, p[i].of)
             /\ p[i].op = "save" => i > 1 /\ p[i - 1] = Do("start", p[i].of)
             /\ p[i].op = "halt" => i > 1 /\ p[i - 1].op = "record"
             /\ p[i].op \in ServiceOps => p[i].of \in Services
  <2>1. i = 1 \/ i = 2 \/ i = 3 \/ i = 4 \/ i = 5
    OBVIOUS
  <2> QED
    BY <1>1, <1>2, <2>1, DoIs DEF ServiceOps
<1> QED
  BY <1>1, <1>3 DEF Sound, p

LEMMA StackSound ==
  ASSUME NEW w \in Ids
  PROVE  StartStack(w) \in Seq(Ops) /\ Sound(StartStack(w))
<1> DEFINE p == StartStack(w)
<1>1. p \in Seq(Ops) /\ Len(p) = 16
  BY StackProgram
<1>2. /\ p[1] = Do("snapshot", Legacy) /\ p[2] = Do("record", Legacy) /\ p[3] = Do("halt", Legacy)
      /\ p[4] = Do("replace", Router) /\ p[5] = Do("replace", Worker(w))
      /\ p[6] = Do("start", Worker(w)) /\ p[7] = Do("save", Worker(w)) /\ p[8] = Do("ready", Worker(w))
  BY StackProgram
<1>3. /\ p[9] = Do("replace", Sidecar(w)) /\ p[10] = Do("check", Sidecar(w))
      /\ p[11] = Do("start", Sidecar(w)) /\ p[12] = Do("save", Sidecar(w)) /\ p[13] = Do("ready", Sidecar(w))
      /\ p[14] = Do("start", Router) /\ p[15] = Do("save", Router) /\ p[16] = Do("ready", Router)
  BY StackProgram
<1> HIDE DEF p
<1>4. /\ ClearedBefore(p, 6, Worker(w)) /\ ClearedBefore(p, 11, Sidecar(w)) /\ ClearedBefore(p, 14, Router)
  <2>1. ClearedBefore(p, 6, Worker(w))
    <3>1. 5 \in 1..Len(p) /\ Clears(p[5], Worker(w)) /\ \A j \in 1..Len(p) : ~(5 < j /\ j < 6)
      BY <1>1, <1>2, DoIs DEF Clears
    <3> QED
      BY <3>1 DEF ClearedBefore
  <2>2. ClearedBefore(p, 11, Sidecar(w))
    <3>1. 9 \in 1..Len(p) /\ Clears(p[9], Sidecar(w)) /\ \A j \in 1..Len(p) : 9 < j /\ j < 11 => j = 10
      BY <1>1, <1>3, DoIs DEF Clears
    <3>2. ~Starts(p[10], Sidecar(w))
      BY <1>3, DoIs DEF Starts
    <3> QED
      BY <3>1, <3>2 DEF ClearedBefore
  <2>3. ClearedBefore(p, 14, Router)
    <3>1. 4 \in 1..Len(p) /\ Clears(p[4], Router)
      BY <1>1, <1>2, DoIs DEF Clears
    <3>2. ASSUME NEW j \in 1..Len(p), 4 < j, j < 14
          PROVE  ~Starts(p[j], Router)
      <4>1. j = 5 \/ j = 6 \/ j = 7 \/ j = 8 \/ j = 9 \/ j = 10 \/ j = 11 \/ j = 12 \/ j = 13
        BY <1>1, <3>2
      <4> QED
        BY <4>1, <1>2, <1>3, DoIs, FilesDiffer DEF Starts
    <3> QED
      BY <3>1, <3>2 DEF ClearedBefore
  <2> QED
    BY <2>1, <2>2, <2>3
<1>5. Router \in Services /\ Worker(w) \in Services /\ Sidecar(w) \in Services
  BY ServicesAre
<1>6. ASSUME NEW i \in 1..16
      PROVE  /\ p[i].op = "start" =>
                  /\ i + 1 \in 1..16 /\ p[i + 1] = Do("save", p[i].of)
                  /\ ClearedBefore(p, i, p[i].of)
             /\ p[i].op = "save" => i > 1 /\ p[i - 1] = Do("start", p[i].of)
             /\ p[i].op = "halt" => i > 1 /\ p[i - 1].op = "record"
             /\ p[i].op \in ServiceOps => p[i].of \in Services
  <2>1. CASE i \in 1..8
    <3>1. i = 1 \/ i = 2 \/ i = 3 \/ i = 4 \/ i = 5 \/ i = 6 \/ i = 7 \/ i = 8
      BY <2>1
    <3> QED
      BY <1>2, <1>4, <1>5, <3>1, DoIs DEF ServiceOps
  <2>2. CASE i \in 9..16
    <3>1. i = 9 \/ i = 10 \/ i = 11 \/ i = 12 \/ i = 13 \/ i = 14 \/ i = 15 \/ i = 16
      BY <2>2
    <3> QED
      BY <1>3, <1>4, <1>5, <3>1, DoIs DEF ServiceOps
  <2> QED
    BY <2>1, <2>2
<1> QED
  BY <1>1, <1>6 DEF Sound, p

LEMMA StopSound ==
  ASSUME NEW w \in Ids
  PROVE  /\ StopStack(w) \in Seq(Ops) /\ Sound(StopStack(w))
         /\ StopWorkerOnly(w) \in Seq(Ops) /\ Sound(StopWorkerOnly(w))
         /\ RestoreLegacy \in Seq(Ops) /\ Sound(RestoreLegacy)
<1>1. /\ Do("stop", Router) \in Ops /\ Do("stop", Worker(w)) \in Ops /\ Do("stop", Sidecar(w)) \in Ops
      /\ Do("restore", Legacy) \in Ops /\ Do("ready", Legacy) \in Ops
      /\ Router \in Services /\ Worker(w) \in Services /\ Sidecar(w) \in Services
  BY DoTyped, ServicesAre DEF Operations
<1>2. ASSUME NEW p \in Seq(Ops), \A i \in 1..Len(p) : p[i].op \in {"stop", "restore", "ready"}
                                  /\ (p[i].op = "stop" => p[i].of \in Services)
      PROVE  Sound(p)
  BY <1>2 DEF Sound, ServiceOps
<1>3. /\ StopStack(w) \in Seq(Ops)
      /\ \A i \in 1..Len(StopStack(w)) : StopStack(w)[i].op = "stop" /\ StopStack(w)[i].of \in Services
  BY <1>1, DoIs DEF StopStack
<1>4. /\ StopWorkerOnly(w) \in Seq(Ops)
      /\ \A i \in 1..Len(StopWorkerOnly(w)) :
           StopWorkerOnly(w)[i].op = "stop" /\ StopWorkerOnly(w)[i].of \in Services
  BY <1>1, DoIs DEF StopWorkerOnly
<1>5. /\ RestoreLegacy \in Seq(Ops)
      /\ \A i \in 1..Len(RestoreLegacy) : RestoreLegacy[i].op \in {"restore", "ready"}
  BY <1>1, DoIs DEF RestoreLegacy
<1> QED
  BY <1>2, <1>3, <1>4, <1>5

LEMMA WorkerOnlySound ==
  ASSUME NEW w \in Ids
  PROVE  StartWorkerOnly(w) \in Seq(Ops) /\ Sound(StartWorkerOnly(w))
<1> DEFINE a == Do("replace", Worker(w))
           b == Do("check", Worker(w))
           c == Do("replace", Sidecar(w))
           d == Do("check", Sidecar(w))
<1>1. /\ Worker(w) \in Services /\ Sidecar(w) \in Services
      /\ a \in Ops /\ b \in Ops /\ a.of = Worker(w) /\ b.of = Worker(w) /\ a.op = "replace" /\ b.op = "check"
      /\ c \in Ops /\ d \in Ops /\ c.of = Sidecar(w) /\ d.of = Sidecar(w) /\ c.op = "replace" /\ d.op = "check"
  BY DoTyped, ServicesAre DEF Operations
<1>2. StartWorkerOnly(w) = Then(a, b, Worker(w)) \o Then(c, d, Sidecar(w))
  BY DEF StartWorkerOnly, StartSidecar, Then
<1> HIDE DEF a, b, c, d
<1>3. Then(a, b, Worker(w)) \in Seq(Ops) /\ Sound(Then(a, b, Worker(w)))
  BY <1>1, ReplacedSound
<1>4. Then(c, d, Sidecar(w)) \in Seq(Ops) /\ Sound(Then(c, d, Sidecar(w)))
  BY <1>1, ReplacedSound
<1> QED
  BY <1>2, <1>3, <1>4, SoundConcatenation

LEMMA TestSound ==
  ASSUME NEW w \in Ids
  PROVE  EndpointTest(w) \in Seq(Ops) /\ Sound(EndpointTest(w))
<1> DEFINE a == Do("owned", Worker(w))
           b == Do("replace", Worker(w))
           s == StartStack(w)
           t == <<Do("build", Worker(w))>>
           u == LocalMiss(w)
           v == <<Do("use", Worker(w)), Do("judge", Worker(w))>>
           st == s \o t
           stu == st \o u
<1>1. /\ Worker(w) \in Services
      /\ a \in Ops /\ b \in Ops /\ a.of = Worker(w) /\ b.of = Worker(w) /\ a.op = "owned" /\ b.op = "replace"
      /\ Do("build", Worker(w)) \in Ops /\ Do("use", Worker(w)) \in Ops /\ Do("judge", Worker(w)) \in Ops
  BY DoTyped, ServicesAre DEF Operations
<1>2. u = Then(a, b, Worker(w))
  BY DEF LocalMiss, Then
<1> HIDE DEF a, b
<1>3. u \in Seq(Ops) /\ Sound(u)
  BY <1>1, <1>2, ReplacedSound
<1>4. ASSUME NEW p \in Seq(Ops), \A i \in 1..Len(p) : p[i].op \in TestOps /\ p[i].of \in Services
      PROVE  Sound(p)
  BY <1>4 DEF Sound, ServiceOps, TestOps
<1>5. t \in Seq(Ops) /\ v \in Seq(Ops)
  BY <1>1
<1>6. /\ \A i \in 1..Len(t) : t[i].op \in TestOps /\ t[i].of \in Services
      /\ \A i \in 1..Len(v) : v[i].op \in TestOps /\ v[i].of \in Services
  BY <1>1, DoIs DEF TestOps
<1>7. Sound(t) /\ Sound(v)
  BY <1>4, <1>5, <1>6
<1>8. s \in Seq(Ops) /\ Sound(s)
  BY StackSound
<1>9. EndpointTest(w) = stu \o v
  BY DEF EndpointTest
<1> HIDE DEF s, t, u, v
<1>10. st \in Seq(Ops) /\ Sound(st)
  BY <1>5, <1>7, <1>8, SoundConcatenation
<1> HIDE DEF st
<1>11. stu \in Seq(Ops) /\ Sound(stu)
  BY <1>3, <1>10, SoundConcatenation
<1> HIDE DEF stu
<1> QED
  BY <1>5, <1>7, <1>9, <1>11, SoundConcatenation

LEMMA MainSound ==
  ASSUME NEW cmd \in Commands, NEW w \in Ids
  PROVE  Main(cmd, w) \in Seq(Ops) /\ Sound(Main(cmd, w))
<1>1. /\ StopStack(w) \o RestoreLegacy \in Seq(Ops) /\ Sound(StopStack(w) \o RestoreLegacy)
      /\ StopStack(w) \o StartStack(w) \in Seq(Ops) /\ Sound(StopStack(w) \o StartStack(w))
  BY StopSound, StackSound, SoundConcatenation
<1>2. <<>> \in Seq(Ops)
  OBVIOUS
<1>3. cmd = "start" => Main(cmd, w) = StartStack(w)
  BY DEF Main, Looping
<1>4. cmd = "stop" => Main(cmd, w) = StopStack(w) \o RestoreLegacy
  BY DEF Main, Looping
<1>5. cmd = "restart" => Main(cmd, w) = StopStack(w) \o StartStack(w)
  BY DEF Main, Looping
<1>6. cmd = "restart-router" => Main(cmd, w) = RestartRouter
  BY DEF Main, Looping
<1>7. cmd = "test" => Main(cmd, w) = EndpointTest(w)
  BY DEF Main, Looping
<1>8. cmd = "start-worker" => Main(cmd, w) = StartWorkerOnly(w)
  BY DEF Main, Looping
<1>9. cmd = "stop-worker" => Main(cmd, w) = StopWorkerOnly(w)
  BY DEF Main, Looping
<1>10. cmd \in Looping => Main(cmd, w) = <<>>
  BY DEF Main, Looping
<1> QED
  BY <1>1, <1>2, <1>3, <1>4, <1>5, <1>6, <1>7, <1>8, <1>9, <1>10,
     StackSound, RouterSound, TestSound, WorkerOnlySound, StopSound, EmptySound DEF Commands

LEMMA PlainConcatenation ==
  ASSUME NEW s \in Seq(Ops), NEW t \in Seq(Ops), NEW x, x = s \o t, Plain(s), Plain(t)
  PROVE  Plain(x)
<1>1. /\ Len(x) = Len(s) + Len(t)
      /\ \A i \in 1..Len(s) : x[i] = s[i]
      /\ \A i \in 1..Len(t) : x[Len(s) + i] = t[i]
  BY Concatenated
<1>2. Len(s) \in Nat /\ Len(t) \in Nat
  OBVIOUS
<1>3. ASSUME NEW i \in 1..Len(x), i \notin 1..Len(s)
      PROVE  i - Len(s) \in 1..Len(t) /\ x[i] = t[i - Len(s)]
  <2>1. i - Len(s) \in 1..Len(t) /\ Len(s) + (i - Len(s)) = i
    BY <1>1, <1>2, <1>3
  <2> QED
    BY <1>1, <2>1
<1> QED
  BY <1>1, <1>3 DEF Plain

LEMMA ThenPlain ==
  ASSUME NEW s \in Services, NEW a \in Ops, NEW b \in Ops, a.op \notin TestOps, b.op \notin TestOps
  PROVE  Plain(Then(a, b, s))
<1> DEFINE p == Then(a, b, s)
<1>1. /\ Len(p) = 5
      /\ p[1] = a /\ p[2] = b
      /\ p[3] = Do("start", s) /\ p[4] = Do("save", s) /\ p[5] = Do("ready", s)
  BY TwoThenProcess
<1> HIDE DEF p
<1>2. ASSUME NEW i \in 1..5
      PROVE  p[i].op \notin TestOps
  <2>1. i = 1 \/ i = 2 \/ i = 3 \/ i = 4 \/ i = 5
    OBVIOUS
  <2> QED
    BY <1>1, <2>1, DoIs DEF TestOps
<1> QED
  BY <1>1, <1>2 DEF Plain, p

LEMMA WorkerOnlyPlain ==
  ASSUME NEW w \in Ids
  PROVE  Plain(StartWorkerOnly(w)) /\ Plain(StopWorkerOnly(w))
<1> DEFINE a == Do("replace", Worker(w))
           b == Do("check", Worker(w))
           c == Do("replace", Sidecar(w))
           d == Do("check", Sidecar(w))
<1>1. /\ Worker(w) \in Services /\ Sidecar(w) \in Services
      /\ a \in Ops /\ b \in Ops /\ c \in Ops /\ d \in Ops
  BY DoTyped, ServicesAre DEF Operations
<1>2. a.op \notin TestOps /\ b.op \notin TestOps /\ c.op \notin TestOps /\ d.op \notin TestOps
  BY DoIs DEF TestOps
<1>3. StartWorkerOnly(w) = Then(a, b, Worker(w)) \o Then(c, d, Sidecar(w))
  BY DEF StartWorkerOnly, StartSidecar, Then
<1> HIDE DEF a, b, c, d
<1>4. /\ Then(a, b, Worker(w)) \in Seq(Ops) /\ Plain(Then(a, b, Worker(w)))
      /\ Then(c, d, Sidecar(w)) \in Seq(Ops) /\ Plain(Then(c, d, Sidecar(w)))
  BY <1>1, <1>2, TwoThenProcess, ThenPlain
<1>5. Plain(StopWorkerOnly(w))
  BY DoIs DEF Plain, StopWorkerOnly, TestOps
<1> QED
  BY <1>3, <1>4, <1>5, PlainConcatenation

LEMMA MainPlain ==
  ASSUME NEW cmd \in Commands \ {"test"}, NEW w \in Ids
  PROVE  Plain(Main(cmd, w))
<1>1. Plain(StopStack(w)) /\ Plain(RestoreLegacy)
  BY DoIs DEF Plain, StopStack, RestoreLegacy, TestOps
<1>2. /\ Plain(StopStack(w) \o RestoreLegacy)
      /\ Plain(StopStack(w) \o StartStack(w))
  BY <1>1, StackPlain, StopSound, StackSound, PlainConcatenation
<1>3. Plain(RestartRouter)
  <2> DEFINE p == RestartRouter
  <2>1. /\ Len(p) = 4 /\ p[1] = Do("replace", Router)
        /\ p[2] = Do("start", Router) /\ p[3] = Do("save", Router) /\ p[4] = Do("ready", Router)
    BY RouterProgram
  <2> HIDE DEF p
  <2>2. ASSUME NEW i \in 1..4
        PROVE  p[i].op \notin TestOps
    <3>1. i = 1 \/ i = 2 \/ i = 3 \/ i = 4
      OBVIOUS
    <3> QED
      BY <2>1, <3>1, DoIs DEF TestOps
  <2> QED
    BY <2>1, <2>2 DEF Plain, p
<1>4. Plain(<<>>)
  BY DEF Plain
<1>5. cmd = "start" => Main(cmd, w) = StartStack(w)
  BY DEF Main, Looping
<1>6. cmd = "stop" => Main(cmd, w) = StopStack(w) \o RestoreLegacy
  BY DEF Main, Looping
<1>7. cmd = "restart" => Main(cmd, w) = StopStack(w) \o StartStack(w)
  BY DEF Main, Looping
<1>8. cmd = "restart-router" => Main(cmd, w) = RestartRouter
  BY DEF Main, Looping
<1>9. cmd = "start-worker" => Main(cmd, w) = StartWorkerOnly(w)
  BY DEF Main, Looping
<1>10. cmd = "stop-worker" => Main(cmd, w) = StopWorkerOnly(w)
  BY DEF Main, Looping
<1>11. cmd \in Looping => Main(cmd, w) = <<>>
  BY DEF Main, Looping
<1> QED
  BY <1>2, <1>3, <1>4, <1>5, <1>6, <1>7, <1>8, <1>9, <1>10, <1>11, StackPlain, WorkerOnlyPlain DEF Commands

-----------------------------------------------------------------------------
(* What is left of a program *)

Call ==
  \/ Snapshot \/ Record \/ Halt \/ Stop \/ Check \/ Start \/ Save \/ Ready
  \/ Restore \/ Build \/ NeedOwned \/ Use \/ Judge

LEMMA StepKinds ==
  ASSUME [Next]_vars
  PROVE  Begin \/ NextWorker \/ End \/ Cut \/ Call \/ SkipSidecar \/ Die \/ Arise \/ UNCHANGED vars
  BY DEF Next, Command, Call

LEMMA CallTakesHead ==
  ASSUME TypeOK, Call \/ SkipSidecar
  PROVE  /\ ctl.todo # <<>>
         /\ ctl'.todo = Tail(ctl.todo)
         /\ ctl'.cmd = ctl.cmd /\ ctl'.workers = ctl.workers /\ ctl'.bare = ctl.bare /\ cut' = cut
<1>1. ctl \in [cmd : Commands \union {None}, todo : Seq([op : Operations, of : Services \union {Legacy}]),
                workers : Seq(Ids), pid : Pids \union {None}, legacy : SUBSET Pids, bare : BOOLEAN]
  BY DEF TypeOK, Controls
<1>2. ctl.todo # <<>> /\ cut' = cut
  BY DEF Call, At, SkipSidecar, Snapshot, Record, Halt, Stop, Check, Start, Save, Ready, Restore, Build, NeedOwned, Use, Judge
<1>3. \E p, l : ctl' = [[[ctl EXCEPT !.todo = Tail(@)] EXCEPT !.pid = p] EXCEPT !.legacy = l]
  <2>1. Rest(ctl) = [[Rest(ctl) EXCEPT !.pid = ctl.pid] EXCEPT !.legacy = ctl.legacy]
    BY <1>1 DEF Rest
  <2>2. CASE ctl' = Rest(ctl)
    BY <2>1, <2>2 DEF Rest
  <2>3. ASSUME NEW p, ctl' = [Rest(ctl) EXCEPT !.pid = p]
        PROVE  ctl' = [[Rest(ctl) EXCEPT !.pid = p] EXCEPT !.legacy = ctl.legacy]
    BY <1>1, <2>3 DEF Rest
  <2>4. CASE Snapshot
    <3>1. ctl' = [[Rest(ctl) EXCEPT !.pid = ctl.pid] EXCEPT !.legacy = Running(Legacy)]
      BY <1>1, <2>4 DEF Snapshot, Rest
    <3> QED
      BY <3>1 DEF Rest
  <2>5. CASE ~Snapshot
    <3>1. ctl' = Rest(ctl) \/ \E p : ctl' = [Rest(ctl) EXCEPT !.pid = p]
      BY <2>5 DEF Call, SkipSidecar, Record, Halt, Stop, Check, Start, Save, Ready, Restore, Build, NeedOwned, Use, Judge
    <3> QED
      BY <2>2, <2>3, <3>1 DEF Rest
  <2> QED
    BY <2>4, <2>5
<1> QED
  BY <1>1, <1>2, <1>3

LEMMA RestShape ==
  ASSUME TypeOK, Call \/ SkipSidecar
  PROVE  /\ ctl.todo \in Seq(Ops) /\ ctl'.todo \in Seq(Ops)
         /\ Len(ctl.todo) \in Nat /\ Len(ctl.todo) >= 1 /\ Len(ctl'.todo) = Len(ctl.todo) - 1
         /\ \A i \in 1..Len(ctl'.todo) : i + 1 \in 1..Len(ctl.todo) /\ ctl'.todo[i] = ctl.todo[i + 1]
         /\ Head(ctl.todo) = ctl.todo[1]
<1>1. ctl.todo \in Seq(Ops) /\ ctl.todo # <<>> /\ ctl'.todo = Tail(ctl.todo)
  BY CallTakesHead DEF TypeOK, Controls, Ops
<1> DEFINE t == ctl.todo
           u == ctl'.todo
<1>2. t \in Seq(Ops) /\ t # <<>> /\ u = Tail(t)
  BY <1>1
<1> HIDE DEF t, u
<1>3. /\ u \in Seq(Ops) /\ Len(t) \in Nat /\ Len(t) >= 1 /\ Len(u) = Len(t) - 1
      /\ \A i \in 1..Len(u) : i + 1 \in 1..Len(t) /\ u[i] = t[i + 1]
      /\ Head(t) = t[1]
  BY <1>2, HeadTailProperties
<1> QED
  BY <1>2, <1>3 DEF t, u

\* The head of what is left decides which call is made.
LEMMA CallByHead ==
  ASSUME TypeOK, Call
  PROVE  /\ ctl.todo[1].op = "snapshot" => Snapshot
         /\ ctl.todo[1].op = "record" => Record
         /\ ctl.todo[1].op = "halt" => Halt
         /\ ctl.todo[1].op \in {"replace", "stop"} => Stop
         /\ ctl.todo[1].op = "start" => Start
         /\ ctl.todo[1].op = "save" => Save
         /\ ctl.todo[1].op = "restore" => Restore
         /\ ctl.todo[1].op = "build" => Build
         /\ ctl.todo[1].op = "owned" => NeedOwned
         /\ ctl.todo[1].op = "use" => Use
         /\ ctl.todo[1].op = "judge" => Judge
         /\ ctl.todo[1].op \in {"check", "ready"} => Check \/ Ready
         /\ Of = ctl.todo[1].of
         /\ \A op : At(op) <=> ctl.todo[1].op = op
<1>1. Head(ctl.todo) = ctl.todo[1] /\ ctl.todo # <<>>
  BY RestShape, CallTakesHead
<1>2. ~Skipped
  BY DEF Call, At, Snapshot, Record, Halt, Stop, Check, Start, Save, Ready, Restore, Build, NeedOwned, Use, Judge
<1>3. \A op : At(op) <=> ctl.todo[1].op = op
  BY <1>1, <1>2 DEF At
<1> QED
  BY <1>1, <1>3 DEF Of, Call, Snapshot, Record, Halt, Stop, Check, Start, Save, Ready, Restore, Build, NeedOwned, Use, Judge

LEMMA ControlStep ==
  ASSUME TypeOK, [Next]_vars
  PROVE  ctl' \in Controls
<1> USE StackAssumption
<1>1. CASE Begin
  <2>1. PICK cmd \in Commands, w \in Ids, bare \in BOOLEAN :
          ctl' = [Idle EXCEPT !.cmd = cmd, !.todo = Main(cmd, w), !.bare = bare,
                              !.workers = IF cmd \in Looping THEN Inventory ELSE <<>>]
    BY <1>1 DEF Begin
  <2>2. Main(cmd, w) \in Seq(Ops)
    BY MainSound
  <2>3. ctl'.todo = Main(cmd, w) /\ ctl'.workers \in Seq(Ids) /\ ctl'.cmd = cmd
    BY <2>1 DEF Idle
  <2> QED
    BY <2>1, <2>2, <2>3 DEF Idle, Ops, Controls
<1>2. CASE NextWorker
  <2>1. ctl.workers \in Seq(Ids) /\ ctl.workers # <<>>
    BY <1>2 DEF NextWorker, TypeOK, Controls
  <2>2. Head(ctl.workers) \in Ids /\ Tail(ctl.workers) \in Seq(Ids)
    BY <2>1
  <2>3. \A w \in Ids : StartWorkerOnly(w) \in Seq(Ops) /\ StopWorkerOnly(w) \in Seq(Ops)
    BY WorkerOnlySound, StopSound
  <2> QED
    BY <1>2, <2>2, <2>3 DEF NextWorker, TypeOK, Controls, Ops
<1>3. CASE End \/ Cut
  <2>1. Idle \in Controls
    BY DEF Idle, Controls
  <2> QED
    BY <1>3, <2>1 DEF End, Cut
<1>4. CASE Call \/ SkipSidecar
  <2>1. ctl'.todo \in Seq(Ops)
    BY <1>4, RestShape
  <2>2. ctl \in [cmd : Commands \union {None}, todo : Seq(Ops), workers : Seq(Ids),
                  pid : Pids \union {None}, legacy : SUBSET Pids, bare : BOOLEAN]
    BY DEF TypeOK, Controls, Ops
  <2>3. ctl'.todo = Tail(ctl.todo)
    BY <1>4, CallTakesHead
  <2>4. CASE Snapshot
    BY <2>1, <2>2, <2>3, <2>4 DEF Snapshot, Running, Rest, Controls, Ops
  <2>5. CASE Start \/ Restore
    <3>1. ctl' = Rest(ctl) \/ \E p \in Pids : ctl' = [Rest(ctl) EXCEPT !.pid = p]
      BY <2>5 DEF Start, Restore
    <3> QED
      BY <2>1, <2>2, <2>3, <3>1 DEF Rest, Controls, Ops
  <2>6. CASE ~Snapshot /\ ~Start /\ ~Restore
    <3>1. ctl' = Rest(ctl)
      BY <1>4, <2>6 DEF Call, SkipSidecar, Record, Halt, Stop, Check, Save, Ready, Build, NeedOwned, Use, Judge
    <3> QED
      BY <2>1, <2>2, <2>3, <3>1 DEF Rest, Controls, Ops
  <2> QED
    BY <2>4, <2>5, <2>6
<1>5. CASE Die \/ Arise \/ UNCHANGED vars
  BY <1>5 DEF Die, Arise, TypeOK, vars
<1> QED
  BY <1>1, <1>2, <1>3, <1>4, <1>5, StepKinds

LEMMA TestTyped ==
  ASSUME TypeOK, [Next]_vars
  PROVE  proof' \in Tests
<1>1. proof \in Tests
  BY DEF TypeOK
<1>2. CASE Begin
  BY <1>2 DEF Begin, NoTest, Tests
<1>3. CASE Start
  <2>1. PICK r \in BOOLEAN : proof' = [proof EXCEPT !.replaced = r]
    BY <1>3 DEF Start
  <2> QED
    BY <1>1, <2>1 DEF Tests
<1>4. CASE Build
  <2>1. PICK p \in Pids : proof' = [proof EXCEPT !.built = p]
    BY <1>4 DEF Build, Running
  <2> QED
    BY <1>1, <2>1 DEF Tests
<1>5. CASE NeedOwned
  <2>1. PICK p \in Pids : proof' = [proof EXCEPT !.old = p]
    BY <1>5 DEF NeedOwned, Alive
  <2> QED
    BY <1>1, <2>1 DEF Tests
<1>6. CASE Use
  <2>1. PICK p \in Pids : proof' = [proof EXCEPT !.used = p]
    BY <1>6 DEF Use, Running
  <2> QED
    BY <1>1, <2>1 DEF Tests
<1>7. CASE Judge
  <2>1. PICK st \in {"success", "diagnostic_failure"} : proof' = [proof EXCEPT !.status = st]
    BY <1>7 DEF Judge
  <2> QED
    BY <1>1, <2>1 DEF Tests
<1>8. CASE ~Begin /\ ~Start /\ ~Build /\ ~NeedOwned /\ ~Use /\ ~Judge
  BY <1>1, <1>8, StepKinds
     DEF NextWorker, End, Cut, SkipSidecar, Call, Snapshot, Record, Halt, Stop, Check, Save, Ready, Restore, Die, Arise, vars
<1> QED
  BY <1>2, <1>3, <1>4, <1>5, <1>6, <1>7, <1>8

LEMMA TypeStep ==
  ASSUME TypeOK, RestSound, [Next]_vars
  PROVE  TypeOK'
<1>1. ctl' \in Controls /\ proof' \in Tests
  BY ControlStep, TestTyped
<1>2. CASE Start
  <2>1. Of \in Services
    <3>1. Call
      BY <1>2 DEF Call
    <3>2. 1 \in 1..Len(ctl.todo) /\ ctl.todo[1].op = "start" /\ Of = ctl.todo[1].of
      BY <1>2, <3>1, RestShape, CallByHead DEF Start
    <3> QED
      BY <3>2 DEF RestSound, ServiceOps
  <2> QED
    BY <1>1, <1>2, <2>1 DEF Start, TypeOK
<1>3. CASE Call /\ ~Start
  <2>1. pidfile' \in [Files -> Pids \union {None}]
    <3>1. ctl.pid \in Pids \union {None}
      BY DEF TypeOK, Controls
    <3> QED
      BY <1>3, <3>1
         DEF Call, Snapshot, Record, Halt, Stop, Check, Save, Ready, Restore, Build, NeedOwned, Use, Judge, TypeOK
  <2>2. proc' \in [Pids -> Services \union {Legacy, Stranger, Nothing}]
    BY <1>3 DEF Call, Snapshot, Record, Halt, Stop, Check, Save, Ready, Restore, Build, NeedOwned, Use, Judge, TypeOK
  <2>3. {record', cut'} \subseteq BOOLEAN
    BY <1>3 DEF Call, Snapshot, Record, Halt, Stop, Check, Save, Ready, Restore, Build, NeedOwned, Use, Judge, TypeOK
  <2> QED
    BY <1>1, <2>1, <2>2, <2>3 DEF TypeOK
<1>4. CASE Begin \/ NextWorker \/ End \/ Cut
  BY <1>1, <1>4 DEF Begin, NextWorker, End, Cut, TypeOK
<1>6. CASE SkipSidecar
  BY <1>1, <1>6 DEF SkipSidecar, TypeOK
<1>5. CASE Die \/ Arise \/ UNCHANGED vars
  BY <1>1, <1>5 DEF Die, Arise, vars, TypeOK
<1> QED
  BY <1>2, <1>3, <1>4, <1>5, <1>6, StepKinds

LEMMA RestSoundOf ==
  ASSUME NEW p \in Seq(Ops), Sound(p), ctl'.todo = p, ctl'.cmd = "test" \/ Plain(p)
  PROVE  RestSound'
  BY DEF RestSound, Sound, Plain

LEMMA NoMoreSteps ==
  ASSUME ctl'.todo = <<>>
  PROVE  /\ RestSound' /\ RoomToStart' /\ ~At("save")' /\ ~At("halt")'
  BY DEF RestSound, RoomToStart, At

LEMMA RestSoundStep ==
  ASSUME TypeOK, IdleInv, RestSound, [Next]_vars
  PROVE  RestSound'
<1>1. CASE Begin
  <2>1. PICK cmd \in Commands, w \in Ids, bare \in BOOLEAN :
          ctl' = [Idle EXCEPT !.cmd = cmd, !.todo = Main(cmd, w), !.bare = bare,
                              !.workers = IF cmd \in Looping THEN Inventory ELSE <<>>]
    BY <1>1 DEF Begin
  <2>2. ctl'.todo = Main(cmd, w) /\ ctl'.cmd = cmd
    BY <2>1 DEF Idle
  <2> QED
    BY <2>2, MainSound, MainPlain, RestSoundOf
<1>2. CASE NextWorker
  <2>1. PICK w \in Ids : ctl'.todo \in {StartWorkerOnly(w), StopWorkerOnly(w)}
    BY <1>2 DEF NextWorker, TypeOK, Controls
  <2> QED
    BY <2>1, WorkerOnlySound, StopSound, WorkerOnlyPlain, RestSoundOf
<1>3. CASE End \/ Cut
  BY <1>3, NoMoreSteps DEF End, Cut, Idle
<1>4. CASE Call \/ SkipSidecar
  <2>1. /\ Len(ctl.todo) \in Nat /\ Len(ctl.todo) >= 1 /\ Len(ctl'.todo) = Len(ctl.todo) - 1
        /\ \A i \in 1..Len(ctl'.todo) : i + 1 \in 1..Len(ctl.todo) /\ ctl'.todo[i] = ctl.todo[i + 1]
        /\ ctl'.cmd = ctl.cmd
    BY <1>4, RestShape, CallTakesHead
  <2>2. ASSUME NEW i \in 1..Len(ctl'.todo)
        PROVE  /\ ctl'.todo[i].op = "start" => i + 1 \in 1..Len(ctl'.todo) /\ ctl'.todo[i + 1] = Do("save", ctl'.todo[i].of)
               /\ ctl'.todo[i].op = "save" /\ i > 1 => ctl'.todo[i - 1] = Do("start", ctl'.todo[i].of)
               /\ ctl'.todo[i].op = "halt" /\ i > 1 => ctl'.todo[i - 1].op = "record"
               /\ ctl'.todo[i].op \in ServiceOps => ctl'.todo[i].of \in Services
               /\ ctl'.todo[i].op \in TestOps => ctl'.cmd = "test"
    <3>1. i + 1 \in 1..Len(ctl.todo) /\ ctl'.todo[i] = ctl.todo[i + 1] /\ i + 1 > 1 /\ (i + 1) - 1 = i
      BY <2>1
    <3>2. /\ ctl.todo[i + 1].op = "start" => (i + 1) + 1 \in 1..Len(ctl.todo) /\ ctl.todo[(i + 1) + 1] = Do("save", ctl.todo[i + 1].of)
          /\ ctl.todo[i + 1].op = "save" => ctl.todo[i] = Do("start", ctl.todo[i + 1].of)
          /\ ctl.todo[i + 1].op = "halt" => ctl.todo[i].op = "record"
          /\ ctl.todo[i + 1].op \in ServiceOps => ctl.todo[i + 1].of \in Services
          /\ ctl.todo[i + 1].op \in TestOps => ctl.cmd = "test"
      BY <3>1 DEF RestSound
    <3>3. (i + 1) + 1 \in 1..Len(ctl.todo) => i + 1 \in 1..Len(ctl'.todo) /\ ctl'.todo[i + 1] = ctl.todo[(i + 1) + 1]
      BY <2>1
    <3>4. i > 1 => ctl'.todo[i - 1] = ctl.todo[i]
      <4>1. i > 1 => i - 1 \in 1..Len(ctl'.todo) /\ (i - 1) + 1 = i
        BY <2>1
      <4> QED
        BY <2>1, <4>1
    <3> QED
      BY <2>1, <3>1, <3>2, <3>3, <3>4
  <2> QED
    BY <2>2 DEF RestSound
<1>5. CASE Die \/ Arise \/ UNCHANGED vars
  BY <1>5 DEF Die, Arise, vars, RestSound
<1> QED
  BY <1>1, <1>2, <1>3, <1>4, <1>5, StepKinds

-----------------------------------------------------------------------------
(* Who runs where, as long as no command was cut *)

\* The head of what is left, and a start or save at the head.
LEMMA AtStart ==
  ASSUME TypeOK, RestSound, RoomToStart, Call, Start
  PROVE  /\ Of \in Services /\ Occupants(Of) = {} /\ ~At("save")
         /\ At("save")' /\ Of' = Of
<1>1. /\ ctl.todo[1].op = "start" /\ Of = ctl.todo[1].of /\ ~At("save") /\ 1 \in 1..Len(ctl.todo)
      /\ Len(ctl.todo) \in Nat
  BY CallByHead, RestShape DEF Start
<1>2. /\ Of \in Services
      /\ 1 + 1 \in 1..Len(ctl.todo) /\ ctl.todo[1 + 1] = Do("save", Of)
  BY <1>1 DEF RestSound, ServiceOps
<1>3. ~ClearedBefore(ctl.todo, 1, Of)
  BY <1>1 DEF ClearedBefore
<1>7. ~Bare(Of) /\ ctl'.bare = ctl.bare
  <2>1. ~Skipped /\ Head(ctl.todo) = ctl.todo[1]
    BY RestShape DEF Start, At
  <2> QED
    BY <1>1, <2>1, CallTakesHead DEF Skipped, Bare
<1>4. Occupants(Of) = {}
  BY <1>1, <1>3, <1>7 DEF RoomToStart
<1>5. 1 \in 1..Len(ctl'.todo) /\ ctl'.todo[1] = Do("save", Of) /\ ctl'.todo \in Seq(Ops)
  BY <1>1, <1>2, RestShape
<1>6. ctl'.todo # <<>> /\ Head(ctl'.todo) = ctl'.todo[1]
  BY <1>5
<1> QED
  BY <1>1, <1>2, <1>4, <1>5, <1>6, <1>7, DoIs DEF At, Of, Skipped, Bare

\* A call puts nobody anywhere unless it starts a process, and clears what it stops.
LEMMA CallMoves ==
  ASSUME TypeOK, RestSound, RoomToStart, FiledOrNew, Call, NEW s \in Services
  PROVE  /\ ~Starts(ctl.todo[1], s) => Occupants(s)' \subseteq Occupants(s)
         /\ Clears(ctl.todo[1], s) => Occupants(s)' = {}
<1>1. CASE Start
  <2>1. ctl.todo[1].op = "start" /\ Of = ctl.todo[1].of
    BY <1>1, CallByHead DEF Start
  <2>2. PICK p \in Pids : proc' = [proc EXCEPT ![p] = IF Running(Of) = {} THEN Of ELSE Nothing] /\ proc[p] = Nothing
    BY <1>1 DEF Start
  <2>3. Nothing \notin Services
    BY DEF Nothing, Services, Router, Worker, Sidecar
  <2>4. ASSUME ~Starts(ctl.todo[1], s), NEW q \in Occupants(s)'
        PROVE  q \in Occupants(s)
    <3>1. q \in Pids /\ proc'[q] \in Services /\ File(proc'[q]) = File(s)
      BY DEF Occupants
    <3>2. q # p
      BY <2>1, <2>2, <2>3, <2>4, <3>1 DEF Starts, TypeOK
    <3> QED
      BY <2>2, <3>1, <3>2 DEF Occupants, TypeOK
  <2> QED
    BY <2>1, <2>4 DEF Clears
<1>2. CASE Stop
  <2>1. ctl.todo[1].op \in {"replace", "stop"} /\ Of = ctl.todo[1].of /\ ~At("save")
    BY <1>2, CallByHead DEF Stop
  <2>2. proc' = [p \in Pids |-> IF p \in Alive(Of) THEN Nothing ELSE proc[p]]
    BY <1>2 DEF Stop
  <2>3. Nothing \notin Services
    BY DEF Nothing, Services, Router, Worker, Sidecar
  <2>4. Occupants(s)' \subseteq Occupants(s)
    BY <2>2, <2>3 DEF Occupants
  <2>5. ASSUME File(Of) = File(s), NEW q \in Occupants(s)'
        PROVE  FALSE
    <3>1. q \in Pids /\ proc[q] \in Services /\ File(proc[q]) = File(s) /\ q \notin Alive(Of)
      BY <2>2, <2>3 DEF Occupants
    <3>2. pidfile[File(s)] = q
      BY <2>1, <3>1 DEF FiledOrNew, Running, Unfiled
    <3>3. proc[q] # Nothing
      BY <2>3, <3>1
    <3> QED
      BY <2>5, <3>1, <3>2, <3>3 DEF Alive
  <2> QED
    BY <2>1, <2>4, <2>5 DEF Clears
<1>3. CASE ~Start /\ ~Stop
  <2>1. ctl.todo[1].op \notin {"replace", "stop"}
    BY <1>3, CallByHead
  <2>2. Nothing \notin Services /\ Legacy \notin Services
    BY DEF Nothing, Legacy, Services, Router, Worker, Sidecar
  <2>3. \A q \in Pids : proc'[q] = proc[q] \/ proc'[q] \in {Nothing, Legacy}
    BY <1>3 DEF Call, Snapshot, Record, Halt, Check, Save, Ready, Restore, Build, NeedOwned, Use, Judge, TypeOK
  <2> QED
    BY <2>1, <2>2, <2>3 DEF Occupants, Clears
<1> QED
  BY <1>1, <1>2, <1>3

LEMMA SkipMoves ==
  ASSUME TypeOK, SkipSidecar, NEW s \in Services, ~Bare(s)
  PROVE  Occupants(s)' = Occupants(s) /\ ~Clears(ctl.todo[1], s)
<1>1. proc' = proc /\ ctl.todo[1].of.role = "sidecar" /\ ctl.bare
  BY RestShape DEF SkipSidecar, Skipped
<1> QED
  BY <1>1 DEF Occupants, Clears, File, Bare

LEMMA RoomStep ==
  ASSUME TypeOK, RestSound, RoomToStart, FiledOrNew, Call \/ SkipSidecar
  PROVE  RoomToStart'
<1> DEFINE t == ctl.todo
           u == ctl'.todo
<1>1. /\ Len(t) \in Nat /\ Len(t) >= 1 /\ Len(u) = Len(t) - 1
      /\ \A i \in 1..Len(u) : i + 1 \in 1..Len(t) /\ u[i] = t[i + 1]
  BY RestShape
<1>2. \A i \in 1..Len(t) : t[i].op = "start" /\ ~Bare(t[i].of) =>
        /\ t[i].of \in Services
        /\ \/ ClearedBefore(t, i, t[i].of)
           \/ Occupants(t[i].of) = {} /\ \A j \in 1..Len(t) : j < i => ~Starts(t[j], t[i].of)
  BY DEF RestSound, RoomToStart, ServiceOps
<1> HIDE DEF t, u
<1>3. ASSUME NEW i \in 1..Len(u), u[i].op = "start", NEW s \in Services, u[i].of = s, ~Bare(s)
      PROVE  \/ ClearedBefore(u, i, s)
             \/ Occupants(s)' = {} /\ \A j \in 1..Len(u) : j < i => ~Starts(u[j], s)
  <2>1. i + 1 \in 1..Len(t) /\ t[i + 1] = u[i]
    BY <1>1, <1>3
  <2>2. /\ ~Starts(t[1], s) => Occupants(s)' \subseteq Occupants(s)
        /\ Clears(t[1], s) => Occupants(s)' = {}
    BY <1>3, CallMoves, SkipMoves DEF t
  <2>3. CASE ClearedBefore(t, i + 1, s)
    <3>1. PICK k \in 1..Len(t) : /\ k < i + 1 /\ Clears(t[k], s)
                                 /\ \A j \in 1..Len(t) : k < j /\ j < i + 1 => ~Starts(t[j], s)
      BY <2>3 DEF ClearedBefore
    <3>2. ASSUME NEW j \in 1..Len(u), j < i, k < j + 1
          PROVE  ~Starts(u[j], s)
      <4>1. j + 1 \in 1..Len(t) /\ u[j] = t[j + 1]
        BY <1>1, <3>2
      <4>2. k < j + 1 /\ j + 1 < i + 1
        BY <3>2, <4>1
      <4>3. ~Starts(t[j + 1], s)
        BY <3>1, <4>1, <4>2
      <4> QED
        BY <4>1, <4>3
    <3>3. CASE k = 1
      <4>1. Occupants(s)' = {}
        BY <2>2, <3>1, <3>3
      <4> QED
        BY <1>1, <3>2, <3>3, <4>1
    <3>4. CASE k # 1
      <4>1. k - 1 \in 1..Len(u) /\ (k - 1) + 1 = k /\ k - 1 < i
        BY <1>1, <3>1, <3>4
      <4>2. Clears(u[k - 1], s)
        BY <1>1, <3>1, <4>1
      <4>3. \A j \in 1..Len(u) : k - 1 < j /\ j < i => ~Starts(u[j], s)
        BY <1>1, <3>1, <3>2
      <4> QED
        BY <4>1, <4>2, <4>3 DEF ClearedBefore
    <3> QED
      BY <3>3, <3>4
  <2>4. CASE /\ Occupants(s) = {}
             /\ \A j \in 1..Len(t) : j < i + 1 => ~Starts(t[j], s)
    <3>1. ~Starts(t[1], s) /\ \A j \in 1..Len(u) : j < i => ~Starts(u[j], s)
      BY <1>1, <2>4
    <3>2. Occupants(s)' = {}
      BY <2>4, <2>2, <3>1
    <3> QED
      BY <3>1, <3>2
  <2> QED
    BY <1>2, <1>3, <2>1, <2>3, <2>4
<1>4. \A i \in 1..Len(u) : u[i].op = "start" /\ ~Bare(u[i].of) => u[i].of \in Services
  BY <1>1, <1>2
<1>5. \A s : Bare(s)' <=> Bare(s)
  BY CallTakesHead DEF Bare
<1> QED
  BY <1>3, <1>4, <1>5 DEF RoomToStart, Occupants, u

LEMMA FiledStep ==
  ASSUME TypeOK, RestSound, RoomToStart, FiledOrNew, NewIsAlone, Call
  PROVE  FiledOrNew' /\ NewIsAlone'
<1>1. Nothing \notin Services /\ Legacy \notin Services
  BY DEF Nothing, Legacy, Services, Router, Worker, Sidecar
<1>2. CASE Start
  <2>1. /\ Of \in Services /\ Occupants(Of) = {} /\ ~At("save") /\ At("save")' /\ Of' = Of
    BY <1>2, AtStart
  <2>2. PICK p \in Pids : /\ proc' = [proc EXCEPT ![p] = IF Running(Of) = {} THEN Of ELSE Nothing]
                          /\ ctl' = [Rest(ctl) EXCEPT !.pid = p]
    BY <1>2 DEF Start
  <2>3. ctl'.pid = p /\ pidfile' = pidfile
    BY <1>2, <2>2 DEF Rest, TypeOK, Controls, Start
  <2>4. ASSUME NEW s \in Services, NEW q \in Running(s)'
        PROVE  pidfile'[File(s)] = q \/ (q = p /\ s = Of)
    <3>1. CASE q = p
      BY <1>1, <2>2, <3>1 DEF Running, TypeOK
    <3>2. CASE q # p
      <4>1. q \in Running(s)
        BY <2>2, <3>2 DEF Running, TypeOK
      <4> QED
        BY <2>1, <2>3, <4>1 DEF FiledOrNew, Unfiled
    <3> QED
      BY <3>1, <3>2
  <2>5. ASSUME NEW q \in Pids, proc'[q] \in Services, File(proc'[q]) = File(Of)
        PROVE  q = p
    <3>1. q # p => q \in Occupants(Of)
      BY <2>2, <2>5 DEF Occupants, TypeOK
    <3> QED
      BY <2>1, <3>1
  <2>6. FiledOrNew'
    BY <2>1, <2>3, <2>4 DEF FiledOrNew, Unfiled
  <2>7. NewIsAlone'
    BY <2>1, <2>3, <2>5 DEF NewIsAlone, Occupants
  <2> QED
    BY <2>6, <2>7
<1>3. ASSUME ~Start
      PROVE  ~At("save")'
  <2>1. ctl.todo[1].op # "start"
    BY <1>3, CallByHead
  <2>2. /\ ctl.todo \in Seq(Ops) /\ ctl'.todo \in Seq(Ops) /\ Len(ctl.todo) \in Nat
        /\ \A i \in 1..Len(ctl'.todo) : i + 1 \in 1..Len(ctl.todo) /\ ctl'.todo[i] = ctl.todo[i + 1]
    BY RestShape
  <2>3. \A i \in 1..Len(ctl.todo) : ctl.todo[i].op = "save" /\ i > 1 => ctl.todo[i - 1] = Do("start", ctl.todo[i].of)
    BY DEF RestSound
  <2>4. ASSUME ctl'.todo # <<>>, Head(ctl'.todo).op = "save"
        PROVE  FALSE
    <3>1. 1 \in 1..Len(ctl'.todo) /\ Head(ctl'.todo) = ctl'.todo[1]
      BY <2>2, <2>4
    <3>2. 1 + 1 \in 1..Len(ctl.todo) /\ ctl.todo[1 + 1].op = "save"
      BY <2>2, <2>4, <3>1
    <3>3. ctl.todo[(1 + 1) - 1] = Do("start", ctl.todo[1 + 1].of)
      BY <2>3, <3>2
    <3> QED
      BY <2>1, <3>3, DoIs
  <2> QED
    BY <2>4 DEF At
<1>4. CASE Stop
  <2>1. ~At("save") /\ ~Start
    BY <1>4, CallByHead DEF Stop, Start
  <2>2. /\ proc' = [p \in Pids |-> IF p \in Alive(Of) THEN Nothing ELSE proc[p]]
        /\ \A f : f # File(Of) /\ f \in Files => pidfile'[f] = pidfile[f]
    BY <1>4 DEF Stop, TypeOK
  <2>3. ASSUME NEW s \in Services, NEW q \in Running(s)'
        PROVE  pidfile'[File(s)] = q
    <3>1. q \in Running(s) /\ q \notin Alive(Of)
      BY <1>1, <2>2 DEF Running
    <3>2. pidfile[File(s)] = q
      BY <2>1, <3>1 DEF FiledOrNew, Unfiled
    <3>3. File(s) # File(Of)
      BY <1>1, <3>1, <3>2 DEF Alive, Running
    <3>4. File(s) \in Files
      BY DEF Files
    <3> QED
      BY <2>2, <3>2, <3>3, <3>4
  <2> QED
    BY <1>3, <2>1, <2>3 DEF FiledOrNew, NewIsAlone
<1>5. CASE Save
  <2>1. At("save") /\ ~Start /\ proc' = proc
    BY <1>5, CallByHead DEF Save, Start
  <2>2. /\ pidfile' = [pidfile EXCEPT ![File(Of)] = ctl.pid]
    BY <1>5 DEF Save
  <2>3. ASSUME NEW s \in Services, NEW q \in Running(s)'
        PROVE  pidfile'[File(s)] = q
    <3>1. q \in Running(s) /\ File(s) \in Files
      BY <2>1 DEF Running, Files
    <3>2. CASE File(s) = File(Of)
      <4>1. q \in Occupants(Of)
        BY <3>1, <3>2 DEF Occupants, Running
      <4>2. q = ctl.pid
        BY <2>1, <4>1 DEF NewIsAlone
      <4> QED
        BY <2>2, <3>1, <3>2, <4>2 DEF TypeOK, Controls
    <3>3. CASE File(s) # File(Of)
      BY <2>2, <3>1, <3>3 DEF FiledOrNew, TypeOK
    <3> QED
      BY <3>2, <3>3
  <2> QED
    BY <1>3, <2>1, <2>3 DEF FiledOrNew, NewIsAlone
<1>6. CASE ~Start /\ ~Stop /\ ~Save
  <2>1. ~At("save")
    BY <1>6, CallByHead
  <2>2. /\ pidfile' = pidfile
        /\ \A q \in Pids : proc'[q] = proc[q] \/ proc'[q] \in {Nothing, Legacy}
    BY <1>6 DEF Call, Snapshot, Record, Halt, Check, Ready, Restore, Build, NeedOwned, Use, Judge, TypeOK
  <2>3. ASSUME NEW s \in Services, NEW q \in Running(s)'
        PROVE  pidfile'[File(s)] = q
    <3>1. q \in Running(s)
      BY <1>1, <2>2 DEF Running
    <3> QED
      BY <2>1, <2>2, <3>1 DEF FiledOrNew, Unfiled
  <2> QED
    BY <1>3, <1>6, <2>3 DEF FiledOrNew, NewIsAlone
<1> QED
  BY <1>2, <1>4, <1>5, <1>6

\* A call that is skipped has no save after it that is made.
LEMMA SkipFiles ==
  ASSUME TypeOK, RestSound, FiledOrNew, SkipSidecar
  PROVE  FiledOrNew' /\ NewIsAlone'
<1>1. /\ ctl.todo \in Seq(Ops) /\ ctl'.todo \in Seq(Ops) /\ Len(ctl.todo) \in Nat
      /\ \A i \in 1..Len(ctl'.todo) : i + 1 \in 1..Len(ctl.todo) /\ ctl'.todo[i] = ctl.todo[i + 1]
      /\ ctl.todo[1].of.role = "sidecar" /\ ctl'.bare /\ ~At("save")
  BY RestShape, CallTakesHead DEF SkipSidecar, Skipped, At
<1>2. ASSUME At("save")'
      PROVE  FALSE
  <2>1. 1 \in 1..Len(ctl'.todo) /\ Head(ctl'.todo) = ctl'.todo[1] /\ ctl'.todo[1].op = "save" /\ ~Skipped'
    BY <1>1, <1>2 DEF At
  <2>2. 1 + 1 \in 1..Len(ctl.todo) /\ ctl.todo[1 + 1] = ctl'.todo[1]
    BY <1>1, <2>1
  <2>3. ctl.todo[(1 + 1) - 1] = Do("start", ctl.todo[1 + 1].of)
    BY <2>1, <2>2 DEF RestSound
  <2>4. ctl'.todo[1].of.role = "sidecar"
    BY <1>1, <2>2, <2>3, DoIs
  <2> QED
    BY <1>1, <2>1, <2>4 DEF Skipped
<1> QED
  BY <1>1, <1>2 DEF SkipSidecar, FiledOrNew, NewIsAlone, Unfiled, Running

-----------------------------------------------------------------------------
(* The legacy process *)

LEMMA LegacyIsNoService == Legacy \notin Services /\ Legacy # Stranger /\ Legacy # Nothing
  BY DEF Nothing, Legacy, Stranger, Services, Router, Worker, Sidecar

LEMMA LegacyStep ==
  ASSUME TypeOK, RestSound, LegacyApart, [Next]_vars
  PROVE  LegacyApart'
<1> USE StackAssumption
<1> SUFFICES ASSUME ~record', NEW q \in Running(Legacy)'
             PROVE  ctl'.pid # q /\ \A f \in Files : pidfile'[f] # q
  BY DEF LegacyApart
<1>1. CASE Begin \/ End \/ Cut
  <2>1. ctl'.pid = None /\ pidfile' = pidfile /\ q \in Running(Legacy) /\ ~record /\ q \in Pids
    <3>1. ctl'.pid = None
      <4>1. CASE Begin
        <5>1. PICK cmd, t, v, bare : ctl' = [Idle EXCEPT !.cmd = cmd, !.todo = t, !.bare = bare, !.workers = v]
          BY <4>1 DEF Begin
        <5> QED
          BY <5>1 DEF Idle
      <4>2. CASE End \/ Cut
        BY <4>2 DEF End, Cut, Idle
      <4> QED
        BY <1>1, <4>1, <4>2
    <3>2. pidfile' = pidfile /\ proc' = proc /\ record' = record
      BY <1>1 DEF Begin, End, Cut
    <3> QED
      BY <3>1, <3>2 DEF Running
  <2> QED
    BY <2>1 DEF LegacyApart
<1>2. CASE NextWorker
  <2>1. ctl'.pid = ctl.pid /\ pidfile' = pidfile /\ q \in Running(Legacy) /\ ~record
    BY <1>2 DEF NextWorker, Running, TypeOK, Controls
  <2> QED
    BY <2>1 DEF LegacyApart
<1>3. CASE Call
  <2>1. ~record
    BY <1>3 DEF Call, Snapshot, Record, Halt, Stop, Check, Start, Save, Ready, Restore, Build, NeedOwned, Use, Judge
  <2>2. CASE Start
    <3>1. Of \in Services
      BY <1>3, <2>2, CallByHead, RestShape DEF RestSound, ServiceOps, Start
    <3>2. PICK p \in Pids : /\ proc[p] = Nothing
                            /\ proc' = [proc EXCEPT ![p] = IF Running(Of) = {} THEN Of ELSE Nothing]
                            /\ ctl' = [Rest(ctl) EXCEPT !.pid = p]
      BY <2>2 DEF Start
    <3>3. ctl'.pid = p /\ pidfile' = pidfile
      BY <2>2, <3>2 DEF Start, Rest, TypeOK, Controls
    <3>4. q # p /\ q \in Running(Legacy)
      BY <3>1, <3>2, LegacyIsNoService DEF Running, TypeOK
    <3> QED
      BY <2>1, <3>3, <3>4 DEF LegacyApart
  <2>3. CASE ~Start
    <3>1. q \in Running(Legacy) /\ q \in Pids
      BY <1>3, <2>1, <2>3, LegacyIsNoService
         DEF Call, Snapshot, Record, Halt, Stop, Check, Save, Ready, Restore, Build, NeedOwned, Use, Judge, Running
    <3>2. ctl'.pid = ctl.pid
      BY <1>3, <2>1, <2>3 DEF Call, Snapshot, Record, Halt, Stop, Check, Save, Ready, Restore, Build, NeedOwned, Use, Judge, Rest, TypeOK, Controls
    <3>3. \A f \in Files : pidfile'[f] \in {pidfile[f], ctl.pid, None}
      <4>1. CASE Stop
        BY <4>1 DEF Stop, TypeOK
      <4>2. CASE Save
        BY <4>2 DEF Save, TypeOK
      <4>3. CASE ~Stop /\ ~Save
        BY <1>3, <2>3, <4>3 DEF Call, Snapshot, Record, Halt, Check, Ready, Restore, Build, NeedOwned, Use, Judge
      <4> QED
        BY <4>1, <4>2, <4>3
    <3> QED
      BY <2>1, <3>1, <3>2, <3>3 DEF LegacyApart
  <2> QED
    BY <2>2, <2>3
<1>5. CASE SkipSidecar
  <2>1. q \in Running(Legacy) /\ ctl'.pid = ctl.pid /\ pidfile' = pidfile /\ ~record
    BY <1>5 DEF SkipSidecar, Rest, Running, TypeOK, Controls
  <2> QED
    BY <2>1 DEF LegacyApart
<1>4. CASE Die \/ Arise \/ UNCHANGED vars
  <2>1. q \in Running(Legacy) /\ ctl' = ctl /\ pidfile' = pidfile /\ ~record
    BY <1>4, LegacyIsNoService DEF Die, Arise, vars, Running, TypeOK
  <2> QED
    BY <2>1 DEF LegacyApart
<1> QED
  BY <1>1, <1>2, <1>3, <1>4, <1>5, StepKinds

\* No program begins with a halt or a save.
LEMMA FirstCall ==
  ASSUME NEW p \in Seq(Ops), Sound(p), ctl'.todo = p
  PROVE  ~At("halt")' /\ ~At("save")'
<1>1. \A i \in 1..Len(p) : p[i].op \in {"save", "halt"} => i > 1
  BY DEF Sound
<1>2. p # <<>> => 1 \in 1..Len(p) /\ Head(p) = p[1]
  OBVIOUS
<1> QED
  BY <1>1, <1>2 DEF At

LEMMA BeginsSound ==
  ASSUME TypeOK, Begin \/ NextWorker
  PROVE  \E p \in Seq(Ops) : Sound(p) /\ ctl'.todo = p
<1>1. CASE Begin
  <2>1. PICK cmd \in Commands, w \in Ids, bare \in BOOLEAN :
          ctl' = [Idle EXCEPT !.cmd = cmd, !.todo = Main(cmd, w), !.bare = bare,
                              !.workers = IF cmd \in Looping THEN Inventory ELSE <<>>]
    BY <1>1 DEF Begin
  <2>2. ctl'.todo = Main(cmd, w)
    BY <2>1 DEF Idle
  <2> QED
    BY <2>2, MainSound
<1>2. CASE NextWorker
  <2>1. PICK w \in Ids : ctl'.todo \in {StartWorkerOnly(w), StopWorkerOnly(w)}
    BY <1>2 DEF NextWorker, TypeOK, Controls
  <2> QED
    BY <2>1, WorkerOnlySound, StopSound
<1> QED
  BY <1>1, <1>2

LEMMA HaltStep ==
  ASSUME TypeOK, RestSound, HaltsWhatIsRecorded, [Next]_vars
  PROVE  HaltsWhatIsRecorded'
<1>1. CASE Begin \/ NextWorker
  BY <1>1, BeginsSound, FirstCall DEF HaltsWhatIsRecorded
<1>2. CASE End \/ Cut
  BY <1>2, NoMoreSteps DEF End, Cut, Idle, HaltsWhatIsRecorded
<1>3. CASE Call \/ SkipSidecar
  <2> SUFFICES ASSUME At("halt")'
               PROVE  ctl'.legacy # {} => record'
    BY DEF HaltsWhatIsRecorded
  <2>1. /\ ctl.todo \in Seq(Ops) /\ ctl'.todo \in Seq(Ops) /\ Len(ctl.todo) \in Nat
        /\ \A i \in 1..Len(ctl'.todo) : i + 1 \in 1..Len(ctl.todo) /\ ctl'.todo[i] = ctl.todo[i + 1]
    BY <1>3, RestShape
  <2>2. 1 \in 1..Len(ctl'.todo) /\ ctl'.todo[1].op = "halt"
    BY <2>1 DEF At
  <2>3. 1 + 1 \in 1..Len(ctl.todo) /\ ctl.todo[1 + 1].op = "halt"
    BY <2>1, <2>2
  <2>4. ctl.todo[(1 + 1) - 1].op = "record"
    BY <2>3 DEF RestSound
  <2>5. Record
    <3>1. ~SkipSidecar
      BY <1>3, <2>4, RestShape DEF SkipSidecar, Skipped
    <3> QED
      BY <1>3, <2>4, <3>1, CallByHead
  <2>6. ctl'.legacy = ctl.legacy /\ record' = (record \/ ctl.legacy # {})
    BY <2>5 DEF Record, Rest, TypeOK, Controls
  <2> QED
    BY <2>6
<1>4. CASE Die \/ Arise \/ UNCHANGED vars
  BY <1>4 DEF Die, Arise, vars, HaltsWhatIsRecorded, At, Skipped
<1> QED
  BY <1>1, <1>2, <1>3, <1>4, StepKinds

-----------------------------------------------------------------------------
(* The endpoint test *)

\* The calls before the last eight are those of StartStack.
LEMMA Position ==
  ASSUME NEW w \in Ids, NEW n \in 1..24, Remains(w, n)
  PROVE  /\ n >= 9 => ctl.todo[1].op \notin TestOps
         /\ n = 8 => ctl.todo[1] = Do("build", Worker(w))
         /\ n = 7 => ctl.todo[1] = Do("owned", Worker(w))
         /\ n = 6 => ctl.todo[1] = Do("replace", Worker(w))
         /\ n = 5 => ctl.todo[1] = Do("start", Worker(w))
         /\ n = 4 => ctl.todo[1] = Do("save", Worker(w))
         /\ n = 3 => ctl.todo[1] = Do("ready", Worker(w))
         /\ n = 2 => ctl.todo[1] = Do("use", Worker(w))
         /\ n = 1 => ctl.todo[1] = Do("judge", Worker(w))
<1> DEFINE p == EndpointTest(w)
<1>1. /\ \A i \in 1..16 : p[i].op \notin TestOps
      /\ p[17] = Do("build", Worker(w)) /\ p[18] = Do("owned", Worker(w))
      /\ p[19] = Do("replace", Worker(w)) /\ p[20] = Do("start", Worker(w))
      /\ p[21] = Do("save", Worker(w)) /\ p[22] = Do("ready", Worker(w))
      /\ p[23] = Do("use", Worker(w)) /\ p[24] = Do("judge", Worker(w))
  BY TestProgram
<1>2. ctl.todo[1] = p[24 - n + 1]
  BY DEF Remains
<1> HIDE DEF p
<1>3. n >= 9 => 24 - n + 1 \in 1..16
  OBVIOUS
<1> QED
  BY <1>1, <1>2, <1>3

LEMMA RemainsStep ==
  ASSUME TypeOK, Call \/ SkipSidecar, NEW w \in Ids, Len(ctl.todo) \in 0..24, Remains(w, Len(ctl.todo))
  PROVE  Len(ctl'.todo) \in 0..24 /\ Remains(w, Len(ctl.todo))'
<1>1. /\ Len(ctl.todo) \in 1..24 /\ Len(ctl'.todo) = Len(ctl.todo) - 1
      /\ \A i \in 1..Len(ctl'.todo) : i + 1 \in 1..Len(ctl.todo) /\ ctl'.todo[i] = ctl.todo[i + 1]
  BY RestShape
<1>2. ASSUME NEW i \in 1..Len(ctl'.todo)
      PROVE  ctl'.todo[i] = EndpointTest(w)[24 - Len(ctl'.todo) + i]
  <2>1. ctl.todo[i + 1] = EndpointTest(w)[24 - Len(ctl.todo) + (i + 1)]
    BY <1>1 DEF Remains
  <2>2. 24 - Len(ctl.todo) + (i + 1) = 24 - Len(ctl'.todo) + i
    BY <1>1
  <2> QED
    BY <1>1, <2>1, <2>2
<1>3. Remains(w, Len(ctl.todo))'
  BY <1>2 DEF Remains
<1> QED
  BY <1>1, <1>3

LEMMA CallsLeft ==
  ASSUME NEW n \in 1..24
  PROVE  /\ n = 1 \/ n = 2 \/ n = 3 \/ n = 4 \/ n = 5 \/ n = 6 \/ n = 7 \/ n = 8 \/ n >= 9
         /\ n >= 9 => /\ n - 1 \notin 1..7 /\ n - 1 # 7 /\ n - 1 \notin 1..6
                      /\ n - 1 \notin 1..4 /\ n - 1 \notin {2, 3} /\ n - 1 # 1
  OBVIOUS

\* What a call of the test finds and leaves, by the number of calls that are left.
LEMMA TestCall ==
  ASSUME TypeOK, RestSound, FiledOrNew, Call, NEW w \in Ids, NEW n \in 1..24, n = Len(ctl.todo),
         Remains(w, n), TestKnows(n)
  PROVE  TestKnows(n - 1)' /\ (proof'.status = "success" => proof'.used # proof'.built)
<1> USE StackAssumption
<1>1. /\ Worker(w) \in Services /\ File(Worker(w)) = WorkerFile
      /\ Of = ctl.todo[1].of
  BY ServicesAre, FilesDiffer, CallByHead
<1>2. proof \in Tests /\ WorkerFile \in Files /\ pidfile \in [Files -> Pids \union {None}]
  BY <1>1 DEF TypeOK, Files
<1>3. n - 1 \in 0..23
  OBVIOUS
<1>4. CASE n >= 9
  <2>1. ctl.todo[1].op \notin TestOps
    BY <1>4, Position
  <2>2. ~Build /\ ~NeedOwned /\ ~Use /\ ~Judge
    BY <2>1, CallByHead DEF Build, NeedOwned, Use, Judge, TestOps
  <2>3. proof = NoTest /\ proof.old = None
    BY <1>4 DEF TestKnows, NoTest
  <2>4. proof' = NoTest
    <3>1. CASE Start
      <4>1. PICK p : proof' = [proof EXCEPT !.replaced = proof.old # None /\ p # proof.old]
        BY <3>1 DEF Start
      <4>2. proof' = [proof EXCEPT !.replaced = FALSE]
        BY <2>3, <4>1
      <4> QED
        BY <2>3, <4>2 DEF NoTest
    <3>2. CASE ~Start
      BY <2>2, <2>3, <3>2 DEF Call, Snapshot, Record, Halt, Stop, Check, Save, Ready, Restore
    <3> QED
      BY <3>1, <3>2
  <2>5. /\ n - 1 \notin 1..7 /\ n - 1 # 7 /\ n - 1 \notin 1..6
        /\ n - 1 \notin 1..4 /\ n - 1 \notin {2, 3} /\ n - 1 # 1
    BY <1>4, CallsLeft
  <2>6. proof'.status = "none"
    BY <2>4 DEF NoTest
  <2> QED
    BY <2>4, <2>5, <2>6, Zenon DEF TestKnows
<1>5. CASE n = 8
  <2>1. Build /\ Of = Worker(w) /\ ~At("save")
    BY <1>1, <1>5, Position, CallByHead, DoIs DEF Build
  <2>2. proof.status = "none"
    BY <1>5 DEF TestKnows
  <2>3. PICK p \in Running(Worker(w)) : proof' = [proof EXCEPT !.built = p]
    BY <2>1 DEF Build
  <2>4. pidfile[WorkerFile] = p /\ p \in Pids
    BY <1>1, <2>1, <2>3 DEF FiledOrNew, Unfiled, Running
  <2>5. proof'.built = p /\ proof'.status = "none" /\ pidfile' = pidfile
    BY <1>2, <2>1, <2>2, <2>3 DEF Tests, Build
  <2> QED
    BY <1>5, <2>4, <2>5 DEF TestKnows
<1>6. CASE n = 7
  <2>1. NeedOwned /\ Of = Worker(w)
    BY <1>1, <1>6, Position, CallByHead, DoIs DEF NeedOwned
  <2>2. pidfile[WorkerFile] = proof.built /\ proof.built \in Pids /\ proof.status = "none"
    BY <1>6 DEF TestKnows
  <2>3. PICK p \in Alive(Worker(w)) : proof' = [proof EXCEPT !.old = p]
    BY <2>1 DEF NeedOwned
  <2>4. p = proof.built
    BY <1>1, <2>2, <2>3 DEF Alive
  <2>5. proof'.old = proof.built /\ proof'.built = proof.built /\ proof'.status = "none"
    BY <1>2, <2>2, <2>3, <2>4 DEF Tests
  <2> QED
    BY <1>6, <2>2, <2>5 DEF TestKnows
<1>7. CASE n = 6
  <2>1. Stop
    BY <1>7, Position, CallByHead, DoIs
  <2>2. proof' = proof
    BY <2>1 DEF Stop
  <2> QED
    BY <1>7, <2>2 DEF TestKnows
<1>8. CASE n = 5
  <2>1. Start
    BY <1>8, Position, CallByHead, DoIs
  <2>2. proof.old = proof.built /\ proof.built \in Pids /\ proof.status = "none"
    BY <1>8 DEF TestKnows
  <2>3. PICK p \in Pids : /\ ctl' = [Rest(ctl) EXCEPT !.pid = p]
                          /\ proof' = [proof EXCEPT !.replaced = proof.old # None /\ p # proof.old]
    BY <2>1 DEF Start
  <2>4. ctl'.pid = p
    BY <2>3 DEF Rest, TypeOK, Controls
  <2>5. /\ proof'.old = proof.built /\ proof'.built = proof.built /\ proof'.status = "none"
        /\ proof'.replaced <=> p # proof.built
    BY <1>2, <2>2, <2>3 DEF Tests
  <2> QED
    BY <1>8, <2>2, <2>4, <2>5 DEF TestKnows
<1>9. CASE n = 4
  <2>1. Save /\ Of = Worker(w)
    BY <1>1, <1>9, Position, CallByHead, DoIs
  <2>2. proof' = proof /\ ctl'.pid = ctl.pid /\ pidfile'[WorkerFile] = ctl.pid
    BY <1>1, <1>2, <2>1 DEF Save, Rest, TypeOK, Controls
  <2> QED
    BY <1>9, <2>2 DEF TestKnows
<1>10. CASE n = 3
  <2>1. Check \/ Ready
    BY <1>10, Position, CallByHead, DoIs
  <2>2. proof' = proof /\ ctl'.pid = ctl.pid /\ pidfile' = pidfile
    BY <2>1 DEF Check, Ready, Rest, TypeOK, Controls
  <2> QED
    BY <1>10, <2>2 DEF TestKnows
<1>11. CASE n = 2
  <2>1. Use /\ Of = Worker(w) /\ ~At("save")
    BY <1>1, <1>11, Position, CallByHead, DoIs DEF Use
  <2>2. /\ pidfile[WorkerFile] = ctl.pid /\ (proof.replaced <=> ctl.pid # proof.built)
        /\ proof.old = proof.built /\ proof.built \in Pids /\ proof.status = "none"
    BY <1>11 DEF TestKnows
  <2>3. PICK p \in Running(Worker(w)) : proof' = [proof EXCEPT !.used = p]
    BY <2>1 DEF Use
  <2>4. p = ctl.pid
    BY <1>1, <2>1, <2>2, <2>3 DEF FiledOrNew, Unfiled
  <2>5. ctl'.pid = ctl.pid
    BY <2>1 DEF Use, Rest, TypeOK, Controls
  <2>6. /\ proof'.used = ctl.pid /\ proof'.built = proof.built /\ proof'.old = proof.old
        /\ proof'.replaced = proof.replaced /\ proof'.status = "none"
    BY <1>2, <2>2, <2>3, <2>4 DEF Tests
  <2> QED
    BY <1>11, <2>2, <2>5, <2>6 DEF TestKnows
<1>12. CASE n = 1
  <2>1. Judge
    BY <1>12, Position, CallByHead, DoIs
  <2>2. proof.used = ctl.pid /\ (proof.replaced <=> ctl.pid # proof.built)
    BY <1>12 DEF TestKnows
  <2>3. PICK ok \in BOOLEAN :
          proof' = [proof EXCEPT !.status = IF ok /\ proof.replaced THEN "success" ELSE "diagnostic_failure"]
    BY <2>1 DEF Judge
  <2>4. /\ proof'.used = ctl.pid /\ proof'.built = proof.built
        /\ proof'.status = "success" => proof.replaced
    BY <1>2, <2>2, <2>3 DEF Tests
  <2> QED
    BY <1>12, <2>2, <2>4 DEF TestKnows
<1>13. n = 1 \/ n = 2 \/ n = 3 \/ n = 4 \/ n = 5 \/ n = 6 \/ n = 7 \/ n = 8 \/ n >= 9
  BY CallsLeft
<1> QED
  BY <1>4, <1>5, <1>6, <1>7, <1>8, <1>9, <1>10, <1>11, <1>12, <1>13

\* The sidecar's calls come before the last eight of the test.
LEMMA TestSkip ==
  ASSUME TypeOK, SkipSidecar, NEW w \in Ids, NEW n \in 1..24, n = Len(ctl.todo), Remains(w, n), TestKnows(n)
  PROVE  TestKnows(n - 1)' /\ proof' = proof /\ proof.status = "none"
<1>1. ctl.todo[1].of.role = "sidecar" /\ proof' = proof
  BY RestShape DEF SkipSidecar, Skipped
<1>2. n >= 9
  <2>1. \A op : Do(op, Worker(w)).of.role # "sidecar"
    BY DoIs DEF Worker
  <2> QED
    BY <1>1, <2>1, Position, CallsLeft
<1>3. proof = NoTest /\ proof.status = "none"
  BY <1>2 DEF TestKnows, NoTest
<1>4. /\ n - 1 \notin 1..7 /\ n - 1 # 7 /\ n - 1 \notin 1..6
      /\ n - 1 \notin 1..4 /\ n - 1 \notin {2, 3} /\ n - 1 # 1
  BY <1>2, CallsLeft
<1> QED
  BY <1>1, <1>3, <1>4, Zenon DEF TestKnows

LEMMA TestStep ==
  ASSUME TypeOK, IdleInv, RestSound, FiledOrNew, TestInv, [Next]_vars
  PROVE  TestInv'
<1>1. CASE Begin
  <2>1. PICK cmd \in Commands, w \in Ids, bare \in BOOLEAN :
          ctl' = [Idle EXCEPT !.cmd = cmd, !.todo = Main(cmd, w), !.bare = bare,
                              !.workers = IF cmd \in Looping THEN Inventory ELSE <<>>]
    BY <1>1 DEF Begin
  <2>2. ctl'.todo = Main(cmd, w) /\ ctl'.cmd = cmd /\ proof' = NoTest /\ proof'.status = "none"
    BY <1>1, <2>1 DEF Begin, Idle, NoTest
  <2>3. CASE cmd = "test"
    <3>1. ctl'.todo = EndpointTest(w) /\ Len(ctl'.todo) = 24
      BY <2>2, <2>3, TestProgram DEF Main, Looping
    <3>2. Remains(w, Len(ctl.todo))'
      BY <3>1 DEF Remains
    <3>3. TestKnows(Len(ctl.todo))'
      BY <2>2, <3>1 DEF TestKnows
    <3> QED
      BY <2>2, <3>1, <3>2, <3>3 DEF TestInv
  <2>4. CASE cmd # "test"
    BY <2>2, <2>4 DEF TestInv
  <2> QED
    BY <2>3, <2>4
<1>2. CASE NextWorker
  <2>1. ctl.cmd \in Looping /\ ctl'.cmd = ctl.cmd /\ proof' = proof
    BY <1>2 DEF NextWorker, IdleInv, TypeOK, Controls
  <2> QED
    BY <2>1 DEF TestInv, Looping, None
<1>3. CASE End \/ Cut
  BY <1>3 DEF End, Cut, Idle, TestInv, None
<1>4. CASE Call \/ SkipSidecar
  <2>1. /\ ctl'.cmd = ctl.cmd /\ ctl.cmd # None
        /\ Len(ctl.todo) \in Nat /\ Len(ctl.todo) >= 1 /\ Len(ctl'.todo) = Len(ctl.todo) - 1
    BY <1>4, CallTakesHead, RestShape DEF IdleInv
  <2>2. CASE ctl.cmd = "test"
    <3>1. PICK w \in Ids : Remains(w, Len(ctl.todo))
      BY <2>2 DEF TestInv
    <3>2. PICK n \in 1..24 : n = Len(ctl.todo)
      BY <2>1, <2>2 DEF TestInv
    <3>3. TestKnows(n)
      BY <2>2, <3>2 DEF TestInv
    <3>4. TestKnows(n - 1)' /\ (proof'.status = "success" => proof'.used # proof'.built)
      BY <1>4, <2>2, <3>1, <3>2, <3>3, TestCall, TestSkip
    <3>5. Len(ctl'.todo) \in 0..24 /\ Remains(w, Len(ctl.todo))'
      BY <1>4, <2>2, <3>1, RemainsStep DEF TestInv
    <3>6. TestKnows(Len(ctl.todo))'
      <4>1. Len(ctl'.todo) = n - 1
        BY <2>1, <3>2
      <4> QED
        BY <3>4, <4>1 DEF TestKnows
    <3> QED
      BY <2>1, <2>2, <3>4, <3>5, <3>6 DEF TestInv
  <2>3. CASE ctl.cmd # "test"
    <3>1. ctl.todo[1].op \notin TestOps /\ proof.status = "none" /\ proof \in Tests
      BY <2>1, <2>3 DEF RestSound, TestInv, TypeOK
    <3>2. ~Build /\ ~NeedOwned /\ ~Use /\ ~Judge
      <4>1. CASE Call
        BY <3>1, <4>1, CallByHead DEF Build, NeedOwned, Use, Judge, TestOps
      <4>2. CASE SkipSidecar
        BY <4>2 DEF SkipSidecar, Build, NeedOwned, Use, Judge, At
      <4> QED
        BY <1>4, <4>1, <4>2
    <3>3. proof'.status = "none"
      <4>1. CASE Start
        <5>1. PICK r : proof' = [proof EXCEPT !.replaced = r]
          BY <4>1 DEF Start
        <5> QED
          BY <3>1, <5>1 DEF Tests
      <4>2. CASE ~Start
        BY <1>4, <3>1, <3>2, <4>2 DEF Call, SkipSidecar, Snapshot, Record, Halt, Stop, Check, Save, Ready, Restore
      <4> QED
        BY <4>1, <4>2
    <3> QED
      BY <2>1, <2>3, <3>3 DEF TestInv
  <2> QED
    BY <2>2, <2>3
<1>5. CASE Die \/ Arise \/ UNCHANGED vars
  <2>1. ctl' = ctl /\ proof' = proof /\ pidfile' = pidfile
    BY <1>5 DEF Die, Arise, vars
  <2> QED
    BY <2>1 DEF TestInv, Remains, TestKnows
<1> QED
  BY <1>1, <1>2, <1>3, <1>4, <1>5, StepKinds

-----------------------------------------------------------------------------
(* The invariant *)

LEMMA IdleStep ==
  ASSUME TypeOK, IdleInv, [Next]_vars
  PROVE  IdleInv'
<1>1. CASE Begin
  <2>1. PICK cmd \in Commands, w \in Ids, bare \in BOOLEAN :
          ctl' = [Idle EXCEPT !.cmd = cmd, !.todo = Main(cmd, w), !.bare = bare,
                              !.workers = IF cmd \in Looping THEN Inventory ELSE <<>>]
    BY <1>1 DEF Begin
  <2>2. ctl'.cmd = cmd /\ (cmd \notin Looping => ctl'.workers = <<>>)
    BY <2>1 DEF Idle
  <2> QED
    BY <2>2 DEF IdleInv, Commands, Looping, None
<1>2. CASE NextWorker
  BY <1>2 DEF NextWorker, IdleInv, TypeOK, Controls, Looping, None
<1>3. CASE End \/ Cut
  BY <1>3 DEF End, Cut, Idle, IdleInv
<1>4. CASE Call \/ SkipSidecar
  BY <1>4, CallTakesHead DEF IdleInv
<1>5. CASE Die \/ Arise \/ UNCHANGED vars
  BY <1>5 DEF Die, Arise, vars, IdleInv
<1> QED
  BY <1>1, <1>2, <1>3, <1>4, <1>5, StepKinds

\* Between two programs every process of the stack is in its file, and a program
\* clears a file before it starts a process there.
LEMMA ProgramStep ==
  ASSUME TypeOK, IdleInv, UncutInv, Begin \/ NextWorker
  PROVE  RoomToStart' /\ FiledOrNew' /\ NewIsAlone'
<1>1. PICK p \in Seq(Ops) : Sound(p) /\ ctl'.todo = p
  BY BeginsSound
<1>2. ~At("save") /\ ~At("save")'
  <2>1. ctl.todo = <<>>
    BY DEF Begin, NextWorker, IdleInv
  <2> QED
    BY <1>1, <2>1, FirstCall DEF At
<1>3. proc' = proc /\ pidfile' = pidfile
  BY DEF Begin, NextWorker
<1>4. RoomToStart'
  BY <1>1 DEF RoomToStart, Sound
<1>5. FiledOrNew' /\ NewIsAlone'
  BY <1>2, <1>3 DEF UncutInv, FiledOrNew, NewIsAlone, Running, Unfiled
<1> QED
  BY <1>4, <1>5

LEMMA HostStep ==
  ASSUME TypeOK, UncutInv, Die \/ Arise \/ UNCHANGED vars
  PROVE  RoomToStart' /\ FiledOrNew' /\ NewIsAlone'
<1>1. Nothing \notin Services /\ Stranger \notin Services
  BY DEF Nothing, Stranger, Services, Router, Worker, Sidecar
<1>2. ctl' = ctl /\ pidfile' = pidfile
  BY DEF Die, Arise, vars
<1>3. \A q \in Pids : proc'[q] = proc[q] \/ proc'[q] \in {Nothing, Stranger}
  BY DEF Die, Arise, vars, TypeOK
<1>4. \A s : Occupants(s)' \subseteq Occupants(s)
  BY <1>1, <1>3 DEF Occupants
<1>5. \A s \in Services : Running(s)' \subseteq Running(s)
  BY <1>1, <1>3 DEF Running
<1>6. (At("save") <=> At("save")') /\ Of' = Of
  BY <1>2 DEF At, Of, Skipped
<1>7. RoomToStart'
  <2>1. ASSUME NEW i \in 1..Len(ctl.todo), Occupants(ctl.todo[i].of) = {}
        PROVE  Occupants(ctl.todo[i].of)' = {}
    BY <1>1, <1>2, <1>3, <2>1 DEF Occupants
  <2> QED
    BY <1>2, <2>1 DEF UncutInv, RoomToStart, Bare
<1>8. FiledOrNew' /\ NewIsAlone'
  BY <1>2, <1>4, <1>5, <1>6 DEF UncutInv, FiledOrNew, NewIsAlone, Unfiled
<1> QED
  BY <1>7, <1>8

LEMMA UncutStep ==
  ASSUME StackInv, [Next]_vars, ~cut'
  PROVE  UncutInv'
<1>1. TypeOK /\ IdleInv /\ RestSound
  BY DEF StackInv
<1>2. UncutInv /\ ~Cut
  <2>1. ~Cut
    BY DEF Cut
  <2>2. cut' = cut
    BY <1>1, <2>1, StepKinds, CallTakesHead DEF Begin, NextWorker, End, Die, Arise, vars
  <2> QED
    BY <2>1, <2>2 DEF StackInv
<1>3. TestInv'
  BY <1>1, <1>2, TestStep DEF UncutInv
<1>4. RoomToStart' /\ FiledOrNew' /\ NewIsAlone'
  <2>1. CASE Begin \/ NextWorker
    BY <1>1, <1>2, <2>1, ProgramStep
  <2>2. CASE End
    <3>1. ctl.todo = <<>> /\ ctl'.todo = <<>> /\ proc' = proc /\ pidfile' = pidfile
      BY <2>2 DEF End, Idle
    <3>2. ~At("save") /\ RoomToStart' /\ ~At("save")'
      BY <3>1, NoMoreSteps DEF At
    <3> QED
      BY <1>2, <3>1, <3>2 DEF UncutInv, FiledOrNew, NewIsAlone, Running, Unfiled
  <2>3. CASE Call
    BY <1>1, <1>2, <2>3, RoomStep, FiledStep DEF UncutInv
  <2>5. CASE SkipSidecar
    BY <1>1, <1>2, <2>5, RoomStep, SkipFiles DEF UncutInv
  <2>4. CASE Die \/ Arise \/ UNCHANGED vars
    BY <1>1, <1>2, <2>4, HostStep
  <2> QED
    BY <1>2, <2>1, <2>2, <2>3, <2>4, <2>5, StepKinds
<1> QED
  BY <1>3, <1>4 DEF UncutInv

LEMMA StackInit == Init => StackInv
<1> SUFFICES ASSUME Init
             PROVE  StackInv
  OBVIOUS
<1> USE StackAssumption
<1>1. ctl = Idle /\ ctl.todo = <<>> /\ ctl.workers = <<>> /\ ctl.cmd = None /\ ctl.pid = None
  BY DEF Init, Idle
<1>2. proc \in [Pids -> {Nothing, Legacy}]
  BY DEF Init
<1>3. TypeOK
  <2>1. Idle \in Controls /\ NoTest \in Tests
    BY DEF Idle, Controls, NoTest, Tests
  <2> QED
    BY <1>2, <2>1 DEF Init, TypeOK
<1>4. IdleInv /\ RestSound /\ HaltsWhatIsRecorded /\ RoomToStart /\ NewIsAlone
  BY <1>1 DEF IdleInv, RestSound, HaltsWhatIsRecorded, RoomToStart, NewIsAlone, At
<1>5. LegacyApart
  BY <1>1 DEF LegacyApart, Init, Running
<1>6. FiledOrNew
  <2>1. Nothing \notin Services /\ Legacy \notin Services
    BY DEF Nothing, Legacy, Services, Router, Worker, Sidecar
  <2> QED
    BY <1>2, <2>1 DEF FiledOrNew, Running
<1>7. TestInv
  BY <1>1 DEF TestInv, Init, NoTest, None
<1> QED
  BY <1>3, <1>4, <1>5, <1>6, <1>7 DEF StackInv, UncutInv

LEMMA StackStep ==
  ASSUME StackInv, [Next]_vars
  PROVE  StackInv'
<1>1. TypeOK /\ IdleInv /\ RestSound /\ LegacyApart /\ HaltsWhatIsRecorded
  BY DEF StackInv
<1>2. TypeOK' /\ IdleInv' /\ RestSound' /\ LegacyApart' /\ HaltsWhatIsRecorded'
  BY <1>1, TypeStep, IdleStep, RestSoundStep, LegacyStep, HaltStep
<1>3. ~cut' => UncutInv'
  BY UncutStep
<1> QED
  BY <1>2, <1>3 DEF StackInv

\* What the commands keep true of processes, PID files and their own program, whoever
\* dies and whoever gets a PID: the record of the legacy process always, the files and
\* the endpoint test as long as no command was cut.
THEOREM StackInvariant == Spec => []StackInv
<1>1. Init => StackInv
  BY StackInit
<1>2. StackInv /\ [Next]_vars => StackInv'
  BY StackStep
<1> QED
  BY <1>1, <1>2, PTL DEF Spec

\* Every value has its type: what runs under a PID is of the stack, legacy or foreign,
\* and a file names a PID or nothing.
THEOREM StackTyped == Spec => []TypeOK
<1>1. StackInv => TypeOK
  BY DEF StackInv
<1> QED
  BY <1>1, StackInvariant, PTL

\* Between commands that all came to their end, the PID file of every process of the
\* stack names it, on a host with any number of workers: start, save and the next stop
\* of stop_owned_pid work on the same process.
THEOREM OwnedAlways == Spec => []Owned
<1>1. StackInv => Owned
  BY DEF StackInv, UncutInv, FiledOrNew, IdleInv, Owned, Unfiled, At
<1> QED
  BY <1>1, StackInvariant, PTL

\* An endpoint test that succeeds had its cache built by one worker process and used by
\* another, as long as no command was cut: restart_worker_for_local_miss replaces it.
THEOREM FreshWorkerProves == Spec => []ProvedByFreshWorker
<1>1. StackInv => ProvedByFreshWorker
  BY DEF StackInv, UncutInv, TestInv, ProvedByFreshWorker
<1> QED
  BY <1>1, StackInvariant, PTL

\* No command ends the legacy process before legacy-8081.json names one, whatever it
\* finds in its files and whoever got a PID again: halt comes after record, and no file
\* names a process that is not on record.
THEOREM LegacyStaysOnRecord == Spec => LegacyOnRecord
<1>1. ASSUME StackInv, [Next]_vars, NEW p \in Running(Legacy), ctl # ctl', proc'[p] # Legacy
      PROVE  record
  <2>1. TypeOK /\ RestSound /\ LegacyApart /\ HaltsWhatIsRecorded /\ p \in Pids /\ proc[p] = Legacy
    BY <1>1 DEF StackInv, Running
  <2>2. Call
    BY <1>1, <2>1, StepKinds DEF Begin, NextWorker, End, Cut, SkipSidecar, Die, Arise, vars
  <2>3. CASE Halt
    <3>1. At("halt") /\ ctl.legacy # {}
      BY <1>1, <2>1, <2>3 DEF Halt
    <3> QED
      BY <2>1, <3>1 DEF HaltsWhatIsRecorded
  <2>4. CASE Stop
    <3>1. p \in Alive(Of) /\ Of \in Services
      <4>1. ctl.todo[1].op \in {"replace", "stop"} /\ Of = ctl.todo[1].of /\ 1 \in 1..Len(ctl.todo)
        BY <2>1, <2>2, <2>4, CallByHead, RestShape DEF Stop
      <4> QED
        BY <1>1, <2>1, <2>4, <4>1 DEF Stop, RestSound, ServiceOps
    <3>2. File(Of) \in Files /\ pidfile[File(Of)] = p
      BY <3>1 DEF Alive, Files
    <3> QED
      BY <1>1, <2>1, <3>2 DEF LegacyApart
  <2>5. CASE Start \/ Restore
    BY <1>1, <2>1, <2>5, LegacyIsNoService DEF Start, Restore, TypeOK
  <2>6. CASE ~Halt /\ ~Stop /\ ~Start /\ ~Restore
    BY <1>1, <2>1, <2>2, <2>6 DEF Call, Snapshot, Record, Check, Save, Ready, Build, NeedOwned, Use, Judge
  <2> QED
    BY <2>3, <2>4, <2>5, <2>6
<1>2. StackInv /\ [Next]_vars => [\A p \in Running(Legacy) : ctl # ctl' /\ proc'[p] # Legacy => record]_vars
  BY <1>1
<1> QED
  BY <1>2, StackInvariant, PTL DEF Spec, LegacyOnRecord
=============================================================================
