---------------------------- MODULE StackLifecycle ----------------------------
(***************************************************************************)
(* scripts/cache_router_remote_stack.py: the commands that start, stop and *)
(* restart the processes of one host over SSH.  A command is the sequence  *)
(* of the remote calls it makes; each of them may be the last one, since   *)
(* SSH fails, a check raises or the operator interrupts.  Processes die on *)
(* their own, and the system gives their PIDs to others.                   *)
(*                                                                         *)
(* Two commands at the same time, and the commands that only read, are     *)
(* left out.  So are the files that are staged: a failure there cuts the   *)
(* command like any other.                                                 *)
(***************************************************************************)
EXTENDS Sequences, Naturals

CONSTANTS
  Pids,
  Inventory,     \* the worker_ids of this host in the order of --workers-file
  Reuse          \* whether another program may get the PID of a process that ended

VARIABLES
  proc,          \* what runs under a PID
  pidfile,       \* router/pid/*.pid
  record,        \* legacy-8081.json names a process
  ctl,           \* the command: what is left of it, of this worker and of others,
                 \* and what it has in memory
  cut,           \* some command did not come to its end
  proof          \* test: which processes were worker at build and use, and its status

vars == <<proc, pidfile, record, ctl, cut, proof>>

None == "none"
Ids == {Inventory[i] : i \in DOMAIN Inventory}

ASSUME StackAssumption ==
  Reuse \in BOOLEAN /\ None \notin Pids /\ Inventory \in Seq(Ids) /\ Inventory # <<>>

Router == [role |-> "router", of |-> "stack"]
Worker(w) == [role |-> "worker", of |-> w]
Sidecar(w) == [role |-> "sidecar", of |-> w]
Legacy == [role |-> "legacy", of |-> "host"]
Stranger == [role |-> "stranger", of |-> "host"]
Nothing == [role |-> "none", of |-> "none"]

\* What a command starts as its own.
Services == {Router} \union {Worker(w) : w \in Ids} \union {Sidecar(w) : w \in Ids}

\* remote_paths: a sidecar's file has the worker's name in it, a worker's has not.
File(s) == [role |-> s.role, of |-> IF s.role = "sidecar" THEN s.of ELSE "host"]

Files == {File(s) : s \in Services}
Running(s) == {p \in Pids : proc[p] = s}

NoTest == [built |-> None, old |-> None, used |-> None, replaced |-> FALSE, status |-> "none"]
Idle == [cmd |-> None, todo |-> <<>>, workers |-> <<>>, pid |-> None, legacy |-> {}, bare |-> FALSE]

Init ==
  /\ proc \in {[p \in Pids |-> Nothing]} \union {[[p \in Pids |-> Nothing] EXCEPT ![q] = Legacy] : q \in Pids}
  /\ pidfile = [f \in Files |-> None]
  /\ record = FALSE
  /\ ctl = Idle
  /\ cut = FALSE
  /\ proof = NoTest

-----------------------------------------------------------------------------
(* The commands *)

Operations == {"snapshot", "record", "halt", "replace", "stop", "check", "start", "save", "ready",
               "restore", "build", "owned", "use", "judge"}

Do(op, s) == [op |-> op, of |-> s]

StartProcess(s) == <<Do("start", s), Do("save", s), Do("ready", s)>>
StartSidecar(w) == <<Do("replace", Sidecar(w)), Do("check", Sidecar(w))>> \o StartProcess(Sidecar(w))
StartWorkerOnly(w) ==
  <<Do("replace", Worker(w)), Do("check", Worker(w))>> \o StartProcess(Worker(w)) \o StartSidecar(w)
StopWorkerOnly(w) == <<Do("stop", Worker(w)), Do("stop", Sidecar(w))>>

\* The legacy process is halted before it is recorded.
FaultyStartStack(w) ==
  <<Do("snapshot", Legacy), Do("halt", Legacy), Do("record", Legacy),
    Do("replace", Router), Do("replace", Worker(w))>>
    \o StartProcess(Worker(w)) \o StartSidecar(w) \o StartProcess(Router)
\* The worker of before is not stopped.
ForgetfulStartStack(w) ==
  <<Do("snapshot", Legacy), Do("record", Legacy), Do("halt", Legacy), Do("replace", Router)>>
    \o StartProcess(Worker(w)) \o StartSidecar(w) \o StartProcess(Router)
StartStack(w) ==
  <<Do("snapshot", Legacy), Do("record", Legacy), Do("halt", Legacy),
    Do("replace", Router), Do("replace", Worker(w))>>
    \o StartProcess(Worker(w)) \o StartSidecar(w) \o StartProcess(Router)

StopStack(w) == <<Do("stop", Router), Do("stop", Worker(w)), Do("stop", Sidecar(w))>>
RestoreLegacy == <<Do("restore", Legacy), Do("ready", Legacy)>>
RestartRouter == <<Do("replace", Router)>> \o StartProcess(Router)

\* The worker is not stopped.
FaultyLocalMiss(w) == <<Do("owned", Worker(w))>> \o StartProcess(Worker(w))
\* restart_worker_for_local_miss, for the worker that has built: it must be there.
LocalMiss(w) == <<Do("owned", Worker(w)), Do("replace", Worker(w))>> \o StartProcess(Worker(w))
EndpointTest(w) ==
  StartStack(w) \o <<Do("build", Worker(w))>> \o LocalMiss(w) \o <<Do("use", Worker(w)), Do("judge", Worker(w))>>

Looping == {"start-workers", "stop-workers"}

Main(cmd, w) ==
  CASE cmd = "start" -> StartStack(w)
    [] cmd = "stop" -> StopStack(w) \o RestoreLegacy
    [] cmd = "restart" -> StopStack(w) \o StartStack(w)
    [] cmd = "restart-router" -> RestartRouter
    [] cmd = "test" -> EndpointTest(w)
    [] cmd = "start-worker" -> StartWorkerOnly(w)
    [] cmd = "stop-worker" -> StopWorkerOnly(w)
    [] cmd \in Looping -> <<>>

Commands ==
  {"start", "stop", "restart", "restart-router", "test", "start-worker", "stop-worker"} \union Looping

Begin ==
  /\ ctl.cmd = None
  /\ \E cmd \in Commands, w \in Ids, bare \in BOOLEAN :
       ctl' = [Idle EXCEPT !.cmd = cmd, !.todo = Main(cmd, w), !.bare = bare,
                           !.workers = IF cmd \in Looping THEN Inventory ELSE <<>>]
  /\ proof' = NoTest
  /\ UNCHANGED <<proc, pidfile, record, cut>>

\* start-workers and stop-workers do one worker of the inventory after the other.
NextWorker ==
  /\ ctl.todo = <<>> /\ ctl.workers # <<>>
  /\ LET w == Head(ctl.workers) IN
     ctl' = [ctl EXCEPT !.workers = Tail(@),
                        !.todo = IF ctl.cmd = "start-workers" THEN StartWorkerOnly(w) ELSE StopWorkerOnly(w)]
  /\ UNCHANGED <<proc, pidfile, record, cut, proof>>

End ==
  /\ ctl.cmd # None
  /\ ctl.todo = <<>> /\ ctl.workers = <<>>
  /\ ctl' = Idle
  /\ UNCHANGED <<proc, pidfile, record, cut, proof>>

\* An exception, a failed or timed out SSH call, or the controller is killed.
Cut ==
  /\ ctl.todo # <<>>
  /\ ctl' = Idle
  /\ cut' = TRUE
  /\ UNCHANGED <<proc, pidfile, record, proof>>

-----------------------------------------------------------------------------
(* The remote calls *)

\* A call that starts a sidecar, in a command that does not: --no-start-sidecar, or another transport.
Skipped ==
  ctl.bare /\ Head(ctl.todo).of.role = "sidecar" /\ Head(ctl.todo).op \in {"replace", "check", "start", "save", "ready"}
At(op) == ctl.todo # <<>> /\ Head(ctl.todo).op = op /\ ~Skipped
Of == Head(ctl.todo).of
Rest(c) == [c EXCEPT !.todo = Tail(@)]

SkipSidecar ==
  /\ ctl.todo # <<>> /\ Skipped
  /\ ctl' = Rest(ctl)
  /\ UNCHANGED <<proc, pidfile, record, cut, proof>>

Snapshot ==
  /\ At("snapshot")
  /\ ctl' = [Rest(ctl) EXCEPT !.legacy = Running(Legacy)]
  /\ UNCHANGED <<proc, pidfile, record, cut, proof>>

Record ==
  /\ At("record")
  /\ record' = (record \/ ctl.legacy # {})
  /\ ctl' = Rest(ctl)
  /\ UNCHANGED <<proc, pidfile, cut, proof>>

\* remote_stop_pid of what is under the PID by now.
Halt ==
  /\ At("halt")
  /\ proc' = [p \in Pids |-> IF p \in ctl.legacy THEN Nothing ELSE proc[p]]
  /\ ctl' = Rest(ctl)
  /\ UNCHANGED <<pidfile, record, cut, proof>>

\* remote_pid_from_file: the PID, if some process runs under it.
Alive(s) == {p \in Pids : pidfile[File(s)] = p /\ proc[p] # Nothing}

\* Stopped and its file removed; stop_owned_pid removes the file in any case.
Stop ==
  /\ At("replace") \/ At("stop")
  /\ proc' = [p \in Pids |-> IF p \in Alive(Of) THEN Nothing ELSE proc[p]]
  /\ pidfile' = [pidfile EXCEPT ![File(Of)] = IF At("stop") \/ Alive(Of) # {} THEN None ELSE @]
  /\ ctl' = Rest(ctl)
  /\ UNCHANGED <<record, cut, proof>>

\* remote_find_server_by_port only finds a llama-server.
Check ==
  /\ At("check")
  /\ Of.role = "worker" => Running(Of) = {}
  /\ ctl' = Rest(ctl)
  /\ UNCHANGED <<proc, pidfile, record, cut, proof>>

\* remote_start_process; a process that finds its port taken ends at once.
Start ==
  /\ At("start")
  /\ \E p \in {p \in Pids : proc[p] = Nothing} :
       /\ proc' = [proc EXCEPT ![p] = IF Running(Of) = {} THEN Of ELSE Nothing]
       /\ ctl' = [Rest(ctl) EXCEPT !.pid = p]
       /\ proof' = [proof EXCEPT !.replaced = proof.old # None /\ p # proof.old]
  /\ UNCHANGED <<pidfile, record, cut>>

Save ==
  /\ At("save")
  /\ pidfile' = [pidfile EXCEPT ![File(Of)] = ctl.pid]
  /\ ctl' = Rest(ctl)
  /\ UNCHANGED <<proc, record, cut, proof>>

\* wait_remote_health asks the port, whoever has it.
Ready ==
  /\ At("ready")
  /\ Running(Of) # {} \/ (Of = Legacy /\ ctl.pid = None)
  /\ ctl' = Rest(ctl)
  /\ UNCHANGED <<proc, pidfile, record, cut, proof>>

\* restore_legacy_if_needed: nothing without a record, or with a llama-server on 8081.
Restore ==
  /\ At("restore")
  /\ IF record /\ Running(Legacy) = {}
     THEN \E p \in {p \in Pids : proc[p] = Nothing} :
            /\ proc' = [proc EXCEPT ![p] = Legacy]
            /\ ctl' = [Rest(ctl) EXCEPT !.pid = p]
     ELSE ctl' = Rest(ctl) /\ UNCHANGED proc
  /\ UNCHANGED <<pidfile, record, cut, proof>>

\* The cache is built through the router on the worker.
Build ==
  /\ At("build")
  /\ Running(Router) # {}
  /\ \E p \in Running(Of) : proof' = [proof EXCEPT !.built = p]
  /\ ctl' = Rest(ctl)
  /\ UNCHANGED <<proc, pidfile, record, cut>>

NeedOwned ==
  /\ At("owned")
  /\ \E p \in Alive(Of) : proof' = [proof EXCEPT !.old = p]
  /\ ctl' = Rest(ctl)
  /\ UNCHANGED <<proc, pidfile, record, cut>>

Use ==
  /\ At("use")
  /\ Running(Router) # {}
  /\ \E p \in Running(Of) : proof' = [proof EXCEPT !.used = p]
  /\ ctl' = Rest(ctl)
  /\ UNCHANGED <<proc, pidfile, record, cut>>

\* success needs old_new_pid_differ, besides the hydration and the times.
Judge ==
  /\ At("judge")
  /\ \E ok \in BOOLEAN :
       proof' = [proof EXCEPT !.status = IF ok /\ proof.replaced THEN "success" ELSE "diagnostic_failure"]
  /\ ctl' = Rest(ctl)
  /\ UNCHANGED <<proc, pidfile, record, cut>>

-----------------------------------------------------------------------------
(* The host *)

Die ==
  /\ \E p \in Pids : proc[p] # Nothing /\ proc' = [proc EXCEPT ![p] = Nothing]
  /\ UNCHANGED <<pidfile, record, ctl, cut, proof>>

\* Another program starts.
Arise ==
  /\ Reuse
  /\ \E p \in Pids : proc[p] = Nothing /\ proc' = [proc EXCEPT ![p] = Stranger]
  /\ UNCHANGED <<pidfile, record, ctl, cut, proof>>

Command ==
  \/ Begin \/ NextWorker \/ End \/ Cut \/ SkipSidecar \/ Snapshot \/ Record \/ Halt \/ Stop \/ Check \/ Start \/ Save \/ Ready
  \/ Restore \/ Build \/ NeedOwned \/ Use \/ Judge

Next == Command \/ Die \/ Arise

Spec == Init /\ [][Next]_vars

-----------------------------------------------------------------------------
(* Properties *)

Controls ==
  [cmd : Commands \union {None}, todo : Seq([op : Operations, of : Services \union {Legacy}]),
   workers : Seq(Ids), pid : Pids \union {None}, legacy : SUBSET Pids,
   bare : BOOLEAN]

Tests ==
  [built : Pids \union {None}, old : Pids \union {None}, used : Pids \union {None},
   replaced : BOOLEAN, status : {"none", "success", "diagnostic_failure"}]

TypeOK ==
  /\ proc \in [Pids -> Services \union {Legacy, Stranger, Nothing}]
  /\ pidfile \in [Files -> Pids \union {None}]
  /\ {record, cut} \subseteq BOOLEAN
  /\ ctl \in Controls
  /\ proof \in Tests

\* As long as every command came to its end, no process of the stack is lost: between
\* commands the PID file of each one that runs names it, so that stop finds it.
Owned ==
  ctl.cmd = None /\ ~cut => \A s \in Services : \A p \in Running(s) : pidfile[File(s)] = p

\* "it records the original argv": the legacy process is recorded before a command
\* stops it, so that a command that is cut right after has lost nothing.
LegacyOnRecord ==
  [][\A p \in Running(Legacy) : ctl # ctl' /\ proc'[p] # Legacy => record]_vars

\* The endpoint test only succeeds when the process that used the cache is not the one
\* that built it, unless a command was cut before: its worker may still have the port.
ProvedByFreshWorker == proof.status = "success" /\ ~cut => proof.used # proof.built

\* "It intentionally owns only the PID files it writes": no command stops a program
\* it has not started.
StrangersSpared ==
  [][\A p \in Running(Stranger) : ctl # ctl' => proc'[p] = Stranger]_vars

\* start-workers, "start every router-managed worker in --workers-file": no worker is
\* stopped for another one.
WorkersCoexist ==
  [][\A w \in Ids : \A p \in Running(Worker(w)) :
       At("replace") /\ Of # Worker(w) => proc'[p] = Worker(w)]_vars
=============================================================================
