---------------------------- MODULE Server_proofs ----------------------------
(***************************************************************************)
(* Theorems about Server for any number of processes, workers and tasks    *)
(* and for every scenario: that a task is performed by one process at      *)
(* most, that the server knows every process it should know, that a killed *)
(* worker stays dead, and that no ongoing task is lost with a process.     *)
(***************************************************************************)
EXTENDS Server, TaskStore_proofs

ProcStates == [step : ProcSteps, key : Workers \cup {NoWorker}, task : Tasks,
               request : {"finished", "failed"}, seen : Statuses]

ServerStates == [at : ServerSteps, op : ServerOps, todo : SUBSET Workers,
                 worker : Workers \cup {NoWorker}, task : Tasks, active : BOOLEAN]

Commands == [op : CommandOps, workers : SUBSET Workers]

\* The steps at which the server is occupied with the worker server.worker.
Busy == {"crashed", "current", "fail", "kill", "sigterm", "start", "wait", "pid",
         "status", "adopt"}

\* Who runs as a worker, and whom the server is occupied with, is a worker.
Keyed ==
  /\ \A p \in Procs : proc[p].step # "unused" => proc[p].key \in Workers
  /\ server.at \in Busy => server.worker \in Workers

HashTypes ==
  /\ workerStatus \in [Workers -> {"none", "starting", "active", "restart", "dead"}]
  /\ currentTask \in [Workers -> Tasks \cup {None}]
  /\ pid \in [Workers -> Procs \cup {NoProc}]
  /\ available \subseteq Workers
  /\ enlisted \subseteq Workers

ServerTypes ==
  /\ server \in ServerStates
  /\ workers \subseteq Workers
  /\ handles \in [Workers -> Procs \cup {NoProc}]

AuxTypes ==
  /\ missed \subseteq Procs
  /\ scenario \in Scenarios
  /\ {asked, crashes, deaths} \subseteq Nat
  /\ asked <= scenario.commands /\ crashes <= scenario.crashes /\ deaths <= scenario.deaths

Types ==
  /\ TaskTypeOK
  /\ proc \in [Procs -> ProcStates]
  /\ HashTypes
  /\ cmds \in Seq(Commands)
  /\ ServerTypes
  /\ AuxTypes
  /\ Keyed

-----------------------------------------------------------------------------
(* Why no task is performed twice: it waits at one place of one list at most, and
   once popped it never waits again, whoever names it later. *)

Begun == {"ongoing", "finished", "failed"}
Settled == {"finished", "failed"}
Working == {"run", "read", "exec", "release", "clear"}

Waits(t) == In("pending", t) \/ In("pre_pending", t)

WaitsOnce ==
  \A t \in Tasks :
    /\ Single("pending", t) /\ Single("pre_pending", t)
    /\ ~(In("pending", t) /\ In("pre_pending", t))
    /\ Waits(t) => t <= tasksCount /\ ~startedOn[t]

StartedHasBegun == \A t \in Tasks : startedOn[t] => t <= tasksCount /\ status[t] \in Begun

\* What a process works on has started, and it is settled once it was marked.
WorkOn(p) ==
  /\ p.step \in Working => startedOn[p.task]
  /\ p.step = "exec" => p.seen \in Begun
  /\ p.step \in {"release", "clear"} => status[p.task] \in Settled

NamedHasStarted ==
  /\ \A p \in Procs : WorkOn(proc[p])
  /\ \A w \in Workers : currentTask[w] # None => startedOn[currentTask[w]]
  /\ server.at = "fail" => startedOn[server.task]

RunsInv == WaitsOnce /\ StartedHasBegun /\ NamedHasStarted /\ OneProcessPerTask

\* What has started stays so, and what is settled stays settled.
Progress ==
  \A t \in Tasks : startedOn[t] =>
    startedOn'[t] /\ (status[t] \in Settled => status'[t] \in Settled)

-----------------------------------------------------------------------------
(* Why the server knows its processes, while it does not die itself and no process
   is late: between any two of its steps the processes are where it left them. *)

Launched(p) == proc[p].step = "launched"
Joined(p) == Live(p) /\ ~Launched(p)

\* A worker has one process at most, and a hash.
OneEach == \A p, q \in Procs : Live(p) /\ Live(q) /\ proc[p].key = proc[q].key => p = q
HasHash == \A p \in Procs : Live(p) => workerStatus[proc[p].key] # "none"

\* Only while the server waits for it a process has not joined ...
LaunchedIsAwaited ==
  \A p \in Procs : Launched(p) =>
    /\ server.worker = proc[p].key /\ server.at = "wait"
    /\ workerStatus[proc[p].key] = "starting"

\* ... and once it joined, the hash is its own.
JoinedHasHash ==
  \A p \in Procs : Joined(p) =>
    /\ pid[proc[p].key] = p
    /\ server.at = "wait" /\ server.worker = proc[p].key => workerStatus[proc[p].key] = "active"
    /\ workerStatus[proc[p].key] = "dead" => server.worker = proc[p].key /\ server.at = "sigterm"

\* The server knows the process of every worker in its list, ...
Handled ==
  \A p \in Procs : Live(p) /\ proc[p].key \in workers =>
    handles[proc[p].key] = p \/ (server.worker = proc[p].key /\ server.at \in {"wait", "pid"})

\* ... and of the one that it has just read and is to end;
Doomed ==
  server.op = "join" /\ server.at \in {"kill", "sigterm"} =>
    \A p \in Procs : Live(p) /\ proc[p].key = server.worker => handles[server.worker] = p

\* it starts a process for nobody who has one.
NoneToStart ==
  (server.at = "start" \/ (server.op = "scan" /\ server.at \in {"crashed", "current", "fail"})) =>
    \A p \in Procs : Live(p) => proc[p].key # server.worker

\* Every process is in the list or on the way to it.
Found ==
  \A p \in Procs : Live(p) =>
    \/ p \in missed
    \/ server.at = "boot"
    \/ /\ server.op = "join" /\ server.at \in {"each", "status", "adopt", "kill", "sigterm"}
       /\ proc[p].key \in server.todo
    \/ /\ server.op = "join" /\ server.at \in {"status", "adopt", "kill", "sigterm"}
       /\ server.worker = proc[p].key
    \/ server.at \in {"wait", "pid"} /\ server.worker = proc[p].key
    \/ proc[p].key \in workers

\* A worker in the list is dead only until the command that killed it goes on.
DeadLeaves ==
  \A w \in workers : workerStatus[w] = "dead" =>
    \/ server.worker = w /\ server.at = "sigterm" /\ server.op \in {"restart", "kill"}
    \/ server.worker = w /\ server.at = "start" /\ server.op = "restart"
    \/ server.op = "shutdown"

ListOps == {"restart", "kill", "shutdown", "scan"}

\* At which step which command can be, ...
StepOfOp ==
  /\ server.at = "crashed" => server.op = "scan"
  /\ server.at \in {"current", "fail"} => server.op \in ListOps
  /\ server.at \in {"kill", "sigterm"} => server.op \in {"restart", "kill", "shutdown", "join"}
  /\ server.at \in {"start", "wait", "pid"} => server.op \in {"restart", "scan", "new"}
  /\ server.at \in {"status", "adopt"} => server.op = "join"
  /\ server.op = "new" => server.at \in {"start", "wait", "pid"}
  /\ server.op = "shutdown" =>
       server.at \in {"each", "current", "fail", "kill", "sigterm", "down", "boot"}
  /\ server.at = "down" => server.op = "shutdown"

\* ... and what it walks through.
Walk ==
  /\ server.op \in ListOps /\ server.at \notin {"loop", "boot"} => server.todo \subseteq workers
  /\ server.op \in ListOps /\ server.at \in {"crashed", "current", "fail", "kill", "sigterm", "start"} =>
       server.worker \in workers
  /\ server.op = "kill" /\ server.at \in {"current", "fail", "kill", "sigterm"} =>
       server.worker \notin server.todo
  /\ server.op = "join" /\ server.at # "loop" => server.todo \cap workers = {}
  /\ server.op = "join" /\ server.at \in {"status", "adopt", "kill", "sigterm"} =>
       server.worker \notin workers /\ server.worker \notin server.todo
  /\ server.at = "boot" => workers = {}

\* The status of the worker that is started or adopted.
StatusOfWorker ==
  /\ server.at = "wait" => workerStatus[server.worker] \in {"starting", "active"}
  /\ server.at = "pid" => workerStatus[server.worker] = "active"
  /\ server.op = "new" /\ server.at = "start" => workerStatus[server.worker] = "none"
  /\ server.at = "adopt" => workerStatus[server.worker] # "dead"

Watch ==
  /\ OneEach /\ HasHash /\ LaunchedIsAwaited /\ JoinedHasHash
  /\ Handled /\ Doomed /\ NoneToStart /\ Found /\ DeadLeaves
  /\ StepOfOp /\ Walk /\ StatusOfWorker

WatchInv == ServerStays => Watch

-----------------------------------------------------------------------------
(* Why no task is lost with its process, when nobody commands the server: the hash of
   a worker names what its process works on until the server has failed it. *)

\* What the server does then: it starts its workers and looks after them.
Uncommanded ==
  /\ \A i \in 1..Len(cmds) : cmds[i].op = "new"
  /\ server.at \in {"boot", "loop", "each", "crashed", "current", "fail", "start", "wait", "pid"}
  /\ server.op \in {"new", "scan", "join"}
  /\ server.op = "join" => server.todo = {} /\ server.at \in {"boot", "each", "loop"}
  /\ server.at = "boot" => enlisted = {} /\ \A p \in Procs : ~Live(p)
  /\ missed = {}

TaskOf(p) == IF p.step \in Working THEN p.task ELSE None

HashNamesTask ==
  /\ \A p \in Procs : Live(p) => currentTask[proc[p].key] = TaskOf(proc[p])
  /\ server.at = "start" => currentTask[server.worker] = None
  /\ server.at = "fail" => currentTask[server.worker] = server.task
  /\ \A w \in Workers : workerStatus[w] = "none" => currentTask[w] = None

\* The server will come to worker w.
InCare(w) == w \in workers \/ Starting(w)

PerformedBy(p, t) == Performs(p, t) /\ proc[p].key = runner[t]

\* OngoingIsAccounted without its condition.
Accounted ==
  \A t \in Tasks : status[t] = "ongoing" =>
    \/ \E p \in Procs : PerformedBy(p, t)
    \/ currentTask[runner[t]] = t /\ InCare(runner[t])

LivesInv == ServerLives => Uncommanded /\ HashNamesTask /\ Accounted

-----------------------------------------------------------------------------
(* Types. *)

\* The server's steps only change where it is, ...
LEMMA ServerTo ==
  ASSUME server \in ServerStates, NEW at \in ServerSteps, At(at)
  PROVE  /\ server' \in ServerStates
         /\ server'.at = at /\ server'.op = server.op /\ server'.todo = server.todo
         /\ server'.worker = server.worker /\ server'.task = server.task
BY DEF At, ServerStates

\* ... and the same holds for a process.
LEMMA ProcTo ==
  ASSUME proc \in [Procs -> ProcStates], NEW p \in Procs, NEW step \in ProcSteps,
         ProcGoto(p, step)
  PROVE  /\ proc' \in [Procs -> ProcStates]
         /\ proc'[p].step = step /\ proc'[p].key = proc[p].key /\ proc'[p].task = proc[p].task
         /\ proc'[p].seen = proc[p].seen
         /\ \A q \in Procs : q # p => proc'[q] = proc[q]
BY DEF ProcGoto, ProcStates

\* The server walks through its list.
LEMMA ScanFacts ==
  ASSUME server \in ServerStates, workers \subseteq Workers, server' = Scan
  PROVE  /\ server' \in ServerStates
         /\ server'.at = "each" /\ server'.op = "scan" /\ server'.todo = workers
         /\ server'.worker = server.worker /\ server'.task = server.task
BY DEF Scan, ServerStates, ServerSteps, ServerOps

\* What a process notes together with its step.
LEMMA ProcNotes ==
  ASSUME proc \in [Procs -> ProcStates], NEW p \in Procs, NEW step \in ProcSteps
  PROVE  /\ \A t \in Tasks :
              [proc EXCEPT ![p].step = step, ![p].task = t] \in [Procs -> ProcStates]
         /\ \A w \in Workers :
              [proc EXCEPT ![p].step = step, ![p].key = w] \in [Procs -> ProcStates]
         /\ \A o \in {"finished", "failed"} :
              [proc EXCEPT ![p].step = step, ![p].request = o] \in [Procs -> ProcStates]
<1>1. proc[p] \in ProcStates OBVIOUS
<1>2. ASSUME NEW t \in Tasks
      PROVE  [proc EXCEPT ![p].step = step, ![p].task = t] \in [Procs -> ProcStates]
  <2> DEFINE r == [proc[p] EXCEPT !.step = step, !.task = t]
  <2>1. r \in ProcStates BY <1>1 DEF ProcStates
  <2>2. [proc EXCEPT ![p].step = step, ![p].task = t] = [proc EXCEPT ![p] = r]
    BY <1>1 DEF ProcStates
  <2> QED BY <2>1, <2>2
<1>3. ASSUME NEW w \in Workers
      PROVE  [proc EXCEPT ![p].step = step, ![p].key = w] \in [Procs -> ProcStates]
  <2> DEFINE r == [proc[p] EXCEPT !.step = step, !.key = w]
  <2>1. r \in ProcStates BY <1>1 DEF ProcStates
  <2>2. [proc EXCEPT ![p].step = step, ![p].key = w] = [proc EXCEPT ![p] = r]
    BY <1>1 DEF ProcStates
  <2> QED BY <2>1, <2>2
<1>4. ASSUME NEW o \in {"finished", "failed"}
      PROVE  [proc EXCEPT ![p].step = step, ![p].request = o] \in [Procs -> ProcStates]
  <2> DEFINE r == [proc[p] EXCEPT !.step = step, !.request = o]
  <2>1. r \in ProcStates BY <1>1 DEF ProcStates
  <2>2. [proc EXCEPT ![p].step = step, ![p].request = o] = [proc EXCEPT ![p] = r]
    BY <1>1 DEF ProcStates
  <2> QED BY <2>1, <2>2
<1> QED BY <1>2, <1>3, <1>4

LEMMA ProcSees ==
  ASSUME proc \in [Procs -> ProcStates], NEW p \in Procs, NEW l \in Statuses,
         NEW step \in ProcSteps, proc' = [proc EXCEPT ![p].seen = l, ![p].step = step]
  PROVE  proc' \in [Procs -> ProcStates]
<1> DEFINE r == [proc[p] EXCEPT !.seen = l, !.step = step]
<1>1. proc[p] \in ProcStates OBVIOUS
<1>2. r \in ProcStates BY <1>1 DEF ProcStates
<1>3. proc' = [proc EXCEPT ![p] = r] BY <1>1 DEF ProcStates
<1> QED BY <1>2, <1>3

LEMMA TypesInit == Init => Types
<1> SUFFICES ASSUME Init PROVE Types OBVIOUS
<1>1. TaskTypeOK BY TaskInitFacts DEF Init
<1>2. Cardinality(Workers) \in Nat BY WorkersAssumption, FS_CardinalityType
<1>3. cmds \in Seq(Commands)
  <2>1. [op |-> "new", workers |-> {}] \in Commands BY DEF Commands, CommandOps
  <2> DEFINE c == [op |-> "new", workers |-> {}]
             n == Cardinality(Workers)
  <2>2. c \in Commands /\ n \in Nat BY <1>2, <2>1
  <2>3. cmds = [i \in 1..n |-> c] BY DEF Init
  <2> HIDE DEF c, n
  <2> QED BY <2>2, <2>3
<1>4. /\ proc \in [Procs -> ProcStates] /\ server \in ServerStates
  BY TasksFacts
  DEF Init, ProcStates, ProcSteps, Statuses, ListNames, ServerStates, ServerSteps, ServerOps
<1>5. {asked, crashes, deaths} \subseteq Nat
      /\ asked <= scenario.commands /\ crashes <= scenario.crashes /\ deaths <= scenario.deaths
  BY ScenariosAssumption DEF Init
<1>6. /\ workerStatus \in [Workers -> {"none", "starting", "active", "restart", "dead"}]
      /\ currentTask \in [Workers -> Tasks \cup {None}]
      /\ pid \in [Workers -> Procs \cup {NoProc}] /\ handles \in [Workers -> Procs \cup {NoProc}]
      /\ available \subseteq Workers /\ enlisted \subseteq Workers /\ workers \subseteq Workers
      /\ missed \subseteq Procs /\ scenario \in Scenarios
  BY DEF Init
<1>7. Keyed BY DEF Init, Keyed, Busy
<1> QED BY <1>1, <1>3, <1>4, <1>5, <1>6, <1>7 DEF Types, HashTypes, ServerTypes, AuxTypes

LEMMA TypesImply == Types => TypeOK
BY DEF Types, HashTypes, ServerTypes, AuxTypes, TypeOK, ProcStates, ServerStates, Commands

\* A step of a Matlab process.
LEMMA TypesWorker ==
  ASSUME Types, NEW p \in Procs, WorkerProcess(p)
  PROVE  Types'
<1> USE DEF Types, ProcSteps, Keyed, Busy
<1> DEFINE Rest == cmds' = cmds /\ UNCHANGED serverVars /\ UNCHANGED auxVars
<1>1. Rest => cmds' \in Seq(Commands) /\ ServerTypes' /\ AuxTypes'
  BY DEF ServerTypes, AuxTypes, serverVars, auxVars
<1>2. UNCHANGED hashVars => HashTypes' BY DEF HashTypes, hashVars
<1>3. UNCHANGED taskVars => TaskTypeOK' BY DEF TaskTypeOK, taskVars
<1>4. CASE Join(p)
  <2>1. HashTypes' BY <1>4 DEF Join, HashTypes, ProcStates
  <2>2. ProcGoto(p, "advertise") /\ Rest /\ UNCHANGED taskVars BY <1>4 DEF Join
  <2> QED BY <1>1, <1>3, <2>1, <2>2, ProcTo, <1>4 DEF serverVars, Join
<1>5. CASE Advertise(p)
  <2>1. HashTypes' BY <1>5 DEF Advertise, HashTypes
  <2>2. ProcGoto(p, "enlist") /\ Rest /\ UNCHANGED taskVars BY <1>5 DEF Advertise
  <2> QED BY <1>1, <1>3, <2>1, <2>2, ProcTo, <1>5 DEF serverVars, Advertise
<1>6. CASE Enlist(p)
  <2>1. HashTypes' BY <1>6 DEF Enlist, HashTypes
  <2>2. ProcGoto(p, "check") /\ Rest /\ UNCHANGED taskVars BY <1>6 DEF Enlist
  <2> QED BY <1>1, <1>3, <2>1, <2>2, ProcTo, <1>6 DEF serverVars, Enlist
<1>7. CASE CheckStatus(p) \/ PollNothing(p)
  <2>1. PICK to \in ProcSteps : ProcGoto(p, to) BY <1>7 DEF CheckStatus, PollNothing
  <2>2. Rest /\ UNCHANGED taskVars /\ UNCHANGED hashVars BY <1>7 DEF CheckStatus, PollNothing
  <2>3. proc[p].step # "unused" BY <1>7 DEF CheckStatus, PollNothing
  <2> QED BY <1>1, <1>2, <1>3, <2>1, <2>2, <2>3, ProcTo DEF serverVars
<1>8. ASSUME NEW t \in Tasks, Pop(p, t) PROVE Types'
  <2>1. HashTypes' BY <1>8 DEF Pop, HashTypes
  <2>2. proc[p].step = "poll" /\ PopPending(proc[p].key, t) /\ Rest BY <1>8 DEF Pop
  <2>3. TaskTypeOK' BY <2>2, PopPendingFacts
  <2>4. proc' \in [Procs -> ProcStates] BY <1>8, ProcNotes DEF Pop
  <2>5. \A q \in Procs : proc'[q].key = proc[q].key /\ (q # p => proc'[q] = proc[q])
    BY <1>8 DEF Pop, ProcStates
  <2> QED BY <1>1, <2>1, <2>2, <2>3, <2>4, <2>5 DEF serverVars
<1>9. ASSUME NEW outcome \in {"finished", "failed"}, RunEnds(p, outcome) PROVE Types'
  <2>1. proc[p].step = "run" /\ Rest /\ UNCHANGED taskVars /\ UNCHANGED hashVars
    BY <1>9 DEF RunEnds
  <2>2. proc' \in [Procs -> ProcStates] BY <1>9, ProcNotes DEF RunEnds
  <2>3. \A q \in Procs : proc'[q].key = proc[q].key /\ (q # p => proc'[q] = proc[q])
    BY <1>9 DEF RunEnds, ProcStates
  <2> QED BY <1>1, <1>2, <1>3, <2>1, <2>2, <2>3 DEF serverVars
<1>10. CASE ReadTask(p)
  <2>1. proc[p].step = "read" /\ Rest /\ UNCHANGED taskVars /\ UNCHANGED hashVars
    BY <1>10 DEF ReadTask
  <2>2. proc[p].task \in Tasks BY DEF ProcStates
  <2>3. status[proc[p].task] \in Statuses BY <2>2 DEF TaskTypeOK
  <2>4. PICK l \in Statuses, to \in ProcSteps : proc' = [proc EXCEPT ![p].seen = l, ![p].step = to]
    BY <1>10, <2>3 DEF ReadTask
  <2>5. proc' \in [Procs -> ProcStates] BY <2>4, ProcSees
  <2>6. \A q \in Procs : proc'[q].key = proc[q].key /\ (q # p => proc'[q] = proc[q])
    BY <1>10 DEF ReadTask, ProcStates
  <2> QED BY <1>1, <1>2, <1>3, <2>1, <2>5, <2>6 DEF serverVars
<1>11. CASE MarkTask(p)
  <2>1. PICK to \in ProcSteps : ProcGoto(p, to) BY <1>11 DEF MarkTask
  <2>2. /\ proc[p].step = "exec" /\ Rest /\ UNCHANGED hashVars
        /\ Relist(proc[p].task, proc[p].seen, proc[p].request)
    BY <1>11 DEF MarkTask
  <2>3. proc[p].task \in Tasks /\ proc[p].seen \in Statuses /\ proc[p].request \in ListNames
    BY DEF ProcStates, ListNames
  <2>4. TaskTypeOK' BY <2>2, <2>3, RelistFacts
  <2> QED BY <1>1, <1>2, <2>1, <2>2, <2>4, ProcTo DEF serverVars
<1>12. CASE Release(p)
  <2>1. /\ proc[p].step = "release" /\ Rest /\ UNCHANGED hashVars /\ ProcGoto(p, "clear")
        /\ UpdateDependentTasks(proc[p].task) /\ proc[p].task \in Tasks
    BY <1>12 DEF Release, ProcStates
  <2>2. TaskTypeOK' BY <2>1, UpdateFacts
  <2> QED BY <1>1, <1>2, <2>1, <2>2, ProcTo DEF serverVars
<1>13. CASE ClearCurrentTask(p)
  <2>1. HashTypes' BY <1>13 DEF ClearCurrentTask, HashTypes
  <2>2. /\ proc[p].step = "clear" /\ Rest /\ UNCHANGED taskVars /\ ProcGoto(p, "check")
    BY <1>13 DEF ClearCurrentTask
  <2> QED BY <1>1, <1>3, <2>1, <2>2, ProcTo DEF serverVars
<1> QED BY <1>4, <1>5, <1>6, <1>7, <1>8, <1>9, <1>10, <1>11, <1>12, <1>13 DEF WorkerProcess

\* A step of the server.
LEMMA TypesServer ==
  ASSUME Types, ServerProcess
  PROVE  Types'
<1> USE DEF Types
<1>1. UNCHANGED hashVars => HashTypes' BY DEF HashTypes, hashVars
<1>2. UNCHANGED taskVars => TaskTypeOK' BY DEF TaskTypeOK, taskVars
<1>3. UNCHANGED auxVars => AuxTypes' BY DEF AuxTypes, auxVars
<1>4. /\ server \in ServerStates /\ workers \subseteq Workers
      /\ handles \in [Workers -> Procs \cup {NoProc}]
  BY DEF ServerTypes
<1>5. /\ UNCHANGED workers => workers' \subseteq Workers
      /\ UNCHANGED handles => handles' \in [Workers -> Procs \cup {NoProc}]
  BY <1>4
<1>6. CASE TakeCommand
  <2>1. cmds' \in Seq(Commands)
    <3>1. cmds # <<>> /\ cmds' = Tail(cmds) BY <1>6 DEF TakeCommand, Named
    <3> QED BY <3>1, LPopFacts
  <2>2. /\ server' \in ServerStates /\ workers' \subseteq Workers
        /\ server'.at \in Busy => server'.worker \in Workers
    <3> DEFINE c == Head(cmds)
    <3>1. CASE /\ c.op \in {"restart", "kill", "shutdown"} /\ UNCHANGED workers
               /\ server' = [server EXCEPT !.at = "each", !.op = c.op,
                                           !.todo = c.workers \cap workers]
      <4> c.op \in ServerOps BY <3>1 DEF ServerOps
      <4> QED BY <1>4, <3>1 DEF ServerStates, ServerSteps, Busy
    <3>2. ASSUME NEW w \in Workers, UNCHANGED workers,
                 server' = [server EXCEPT !.at = "start", !.op = "new", !.worker = w]
          PROVE  /\ server' \in ServerStates /\ workers' \subseteq Workers
                 /\ server'.worker \in Workers
      BY <1>4, <3>2 DEF ServerStates, ServerSteps, ServerOps
    <3>3. CASE At("boot") /\ workers' = {}
      BY <1>4, <3>3, ServerTo DEF ServerSteps, Busy
    <3> QED BY <1>6, <3>1, <3>2, <3>3 DEF TakeCommand, Named
  <2>3. UNCHANGED <<taskVars, proc, hashVars, handles, auxVars>> BY <1>6 DEF TakeCommand, Named
  <2> QED BY <1>1, <1>2, <1>3, <1>5, <2>1, <2>2, <2>3 DEF ServerTypes, Keyed
<1>7. CASE NoCommand
  <2>1. server' = Scan /\ UNCHANGED <<taskVars, proc, hashVars, cmds, workers, handles, auxVars>>
    BY <1>7 DEF NoCommand
  <2>2. server' \in ServerStates /\ server'.at \notin Busy BY <2>1, <1>4, ScanFacts DEF Busy
  <2> QED BY <1>1, <1>2, <1>3, <1>5, <2>1, <2>2 DEF ServerTypes, Keyed
<1>8. CASE EndLoop
  <2>1. UNCHANGED <<taskVars, proc, hashVars, cmds, workers, handles, auxVars>>
        /\ (At("loop") \/ At("down") \/ server' = Scan)
    BY <1>8 DEF EndLoop
  <2>2. server' \in ServerStates /\ server'.at \notin Busy
    BY <2>1, <1>4, ScanFacts, ServerTo DEF Busy, ServerSteps
  <2> QED BY <1>1, <1>2, <1>3, <1>5, <2>1, <2>2 DEF ServerTypes, Keyed
<1>9. CASE NoteCrash \/ NoteKill
  <2>1. UNCHANGED <<taskVars, proc, cmds, workers, handles, auxVars>>
        /\ (At("current") \/ At("sigterm")) /\ server.at \in Busy
    BY <1>9 DEF NoteCrash, NoteKill, Busy
  <2>2. HashTypes' BY <1>9 DEF NoteCrash, NoteKill, HashTypes
  <2>3. server' \in ServerStates /\ server'.worker = server.worker
    BY <2>1, <1>4, ServerTo DEF ServerSteps
  <2> QED BY <1>2, <1>3, <1>5, <2>1, <2>2, <2>3 DEF ServerTypes, Keyed
<1>10. CASE ReadCurrentTask
  <2>1. UNCHANGED <<taskVars, proc, hashVars, cmds, workers, handles, auxVars>>
        /\ server.at = "current"
    BY <1>10 DEF ReadCurrentTask
  <2>2. server.worker \in Workers BY <2>1 DEF Keyed, Busy
  <2>3. currentTask[server.worker] \in Tasks \cup {None} BY <2>2 DEF HashTypes
  <2>4. server' \in ServerStates /\ server'.worker = server.worker
    <3>1. CASE currentTask[server.worker] = None
      <4>1. PICK at \in ServerSteps : At(at) BY <1>10, <3>1 DEF ReadCurrentTask, ServerSteps
      <4> QED BY <1>4, <4>1, ServerTo
    <3>2. CASE currentTask[server.worker] # None
      <4>1. PICK t \in Tasks : server' = [server EXCEPT !.at = "fail", !.task = t]
        BY <1>10, <2>3, <3>2 DEF ReadCurrentTask
      <4> QED BY <1>4, <4>1 DEF ServerStates, ServerSteps
    <3> QED BY <3>1, <3>2
  <2> QED BY <1>1, <1>2, <1>3, <1>5, <2>1, <2>2, <2>4 DEF ServerTypes, Keyed
<1>11. CASE FailTask
  <2>1. UNCHANGED <<proc, cmds, workers, handles, auxVars>> /\ server.at = "fail"
        /\ Relist(server.task, "ongoing", "failed") /\ server.task \in Tasks
    BY <1>11, <1>4 DEF FailTask, ServerStates
  <2>2. TaskTypeOK' BY <2>1, RelistFacts DEF Statuses, ListNames
  <2>3. HashTypes' BY <1>11 DEF FailTask, HashTypes
  <2>4. PICK to \in ServerSteps : At(to) BY <1>11 DEF FailTask, ServerSteps
  <2>5. server' \in ServerStates /\ server'.worker = server.worker BY <2>4, <1>4, ServerTo
  <2> QED BY <1>3, <1>5, <2>1, <2>2, <2>3, <2>5 DEF ServerTypes, Keyed, Busy
<1>12. CASE Terminate
  <2>1. UNCHANGED <<taskVars, hashVars, cmds, handles, auxVars>> /\ server.at = "sigterm"
    BY <1>12 DEF Terminate
  <2>2. workers' \subseteq Workers BY <1>12, <1>4 DEF Terminate
  <2>3. PICK to \in ServerSteps : At(to) BY <1>12 DEF Terminate, ServerSteps
  <2>4. server' \in ServerStates /\ server'.worker = server.worker BY <2>3, <1>4, ServerTo
  <2>5. handles[server.worker] \in Procs \cup {NoProc} BY <1>4, <2>1 DEF Keyed, Busy
  <2>6. /\ proc' \in [Procs -> ProcStates]
        /\ \A p \in Procs : proc'[p].step # "unused" => proc[p].step # "unused"
        /\ \A p \in Procs : proc'[p].key = proc[p].key
    <3>1. CASE IsAlive(server.worker)
      <4>1. handles[server.worker] \in Procs /\ ProcGoto(handles[server.worker], "gone")
            /\ proc[handles[server.worker]].step # "unused"
        BY <3>1, <2>5, <1>12 DEF IsAlive, Live, Terminate
      <4> QED BY <4>1, ProcTo DEF ProcSteps
    <3>2. CASE ~IsAlive(server.worker) BY <3>2, <1>12 DEF Terminate
    <3> QED BY <3>1, <3>2
  <2> QED BY <1>1, <1>2, <1>3, <2>1, <2>2, <2>4, <2>6 DEF ServerTypes, Keyed, Busy
<1>13. CASE SeeActive
  <2>1. UNCHANGED <<taskVars, proc, hashVars, cmds, workers, handles, auxVars>>
        /\ At("pid") /\ server.at = "wait"
    BY <1>13 DEF SeeActive
  <2>2. server' \in ServerStates /\ server'.worker = server.worker
    BY <2>1, <1>4, ServerTo DEF ServerSteps
  <2> QED BY <1>1, <1>2, <1>3, <1>5, <2>1, <2>2 DEF ServerTypes, Keyed, Busy
<1>14. CASE TakePid \/ GiveUp
  <2>1. PICK p \in Procs \cup {NoProc} : Started(p)
    <3>1. CASE TakePid
      <4>1. server.worker \in Workers BY <3>1 DEF TakePid, Keyed, Busy
      <4>2. pid[server.worker] \in Procs \cup {NoProc} BY <4>1 DEF HashTypes
      <4> QED BY <3>1, <4>2 DEF TakePid
    <3>2. CASE GiveUp BY <3>2 DEF GiveUp
    <3> QED BY <1>14, <3>1, <3>2
  <2>2. server.worker \in Workers BY <1>14 DEF TakePid, GiveUp, Keyed, Busy
  <2>3. UNCHANGED <<taskVars, proc, hashVars, cmds, auxVars>> BY <2>1 DEF Started
  <2>4. ServerTypes' /\ server'.at = "each"
    BY <2>1, <2>2, <1>4 DEF Started, ServerTypes, ServerStates, ServerSteps, ServerOps
  <2> QED BY <1>1, <1>2, <1>3, <2>3, <2>4 DEF Keyed, Busy
<1>15. CASE Boot
  <2>1. UNCHANGED <<taskVars, proc, hashVars, cmds, workers, handles, scenario, asked, crashes, deaths>>
        /\ missed' = missed \cup {p \in Procs : Live(p) /\ proc[p].key \notin enlisted}
    BY <1>15 DEF Boot
  <2>2. AuxTypes' BY <2>1 DEF AuxTypes
  <2>3. server' \in ServerStates /\ server'.at = "each"
    BY <1>15, <1>4 DEF Boot, ServerStates, ServerSteps, ServerOps, HashTypes
  <2> QED BY <1>1, <1>2, <1>5, <2>1, <2>2, <2>3 DEF ServerTypes, Keyed, Busy
<1>16. CASE ReadStatus
  <2>1. UNCHANGED <<taskVars, proc, hashVars, cmds, workers, handles, auxVars>>
        /\ server.at = "status"
    BY <1>16 DEF ReadStatus
  <2>2. server' \in ServerStates /\ server'.worker = server.worker
    BY <1>16, <1>4 DEF ReadStatus, ServerStates, ServerSteps
  <2> QED BY <1>1, <1>2, <1>3, <1>5, <2>1, <2>2 DEF ServerTypes, Keyed, Busy
<1>17. CASE Adopt
  <2>1. UNCHANGED <<taskVars, proc, hashVars, cmds, auxVars>> /\ server.at = "adopt"
    BY <1>17 DEF Adopt
  <2>2. server.worker \in Workers BY <2>1 DEF Keyed, Busy
  <2>3. handles' \in [Workers -> Procs \cup {NoProc}] /\ workers' \subseteq Workers
    BY <1>17, <1>4, <2>2 DEF Adopt, HashTypes
  <2>4. At("each") \/ At("kill") BY <1>17 DEF Adopt
  <2>5. server' \in ServerStates /\ server'.worker = server.worker
    BY <2>4, <1>4, ServerTo DEF ServerSteps
  <2> QED BY <1>1, <1>2, <1>3, <2>1, <2>2, <2>3, <2>5 DEF ServerTypes, Keyed
<1>18. ASSUME NEW w \in Workers, Visit(w) PROVE Types'
  <2>1. UNCHANGED <<taskVars, proc, hashVars, cmds, workers, handles, auxVars>>
    BY <1>18 DEF Visit
  <2>2. server' \in ServerStates /\ server'.worker = w
    BY <1>18, <1>4 DEF Visit, ServerStates, ServerSteps
  <2> QED BY <1>1, <1>2, <1>3, <1>5, <2>1, <2>2 DEF ServerTypes, Keyed
<1>19. ASSUME NEW p \in Procs, Start(p) PROVE Types'
  <2>1. UNCHANGED <<taskVars, currentTask, pid, available, enlisted, cmds, workers, handles, auxVars>>
        /\ server.at = "start" /\ At("wait")
    BY <1>19 DEF Start
  <2>2. server.worker \in Workers BY <2>1 DEF Keyed, Busy
  <2>3. HashTypes' BY <1>19 DEF Start, HashTypes
  <2>4. server' \in ServerStates /\ server'.worker = server.worker
    BY <2>1, <1>4, ServerTo DEF ServerSteps
  <2>5. proc' \in [Procs -> ProcStates] BY <1>19, <2>2, ProcNotes DEF Start, ProcSteps
  <2>6. \A q \in Procs : IF q = p THEN proc'[q].key = server.worker ELSE proc'[q] = proc[q]
    BY <1>19 DEF Start, ProcStates
  <2> QED BY <1>2, <1>3, <1>5, <2>1, <2>2, <2>3, <2>4, <2>5, <2>6 DEF ServerTypes, Keyed
<1> QED BY <1>6, <1>7, <1>8, <1>9, <1>10, <1>11, <1>12, <1>13, <1>14, <1>15, <1>16, <1>17,
           <1>18, <1>19 DEF ServerProcess

LEMMA TypesNext == Types /\ [Next]_vars => Types'
<1> SUFFICES ASSUME Types, [Next]_vars PROVE Types' OBVIOUS
<1> USE DEF Types
<1>1. UNCHANGED hashVars => HashTypes' BY DEF HashTypes, hashVars
<1>2. UNCHANGED taskVars => TaskTypeOK' BY DEF TaskTypeOK, taskVars
<1>3. UNCHANGED serverVars => ServerTypes' BY DEF ServerTypes, serverVars
<1>4. UNCHANGED auxVars => AuxTypes' BY DEF AuxTypes, auxVars
<1>5. ASSUME NEW t \in Tasks, NEW D \in SUBSET Created, NEW f \in Policies, Submit(t, D, f)
      PROVE  Types'
  <2>1. UNCHANGED <<proc, hashVars, cmds, serverVars, auxVars>> /\ AddTask(t, D, f)
    BY <1>5 DEF Submit
  <2>2. TaskTypeOK' BY <2>1, AddTaskFacts
  <2> QED BY <1>1, <1>3, <1>4, <2>1, <2>2 DEF Keyed, serverVars
<1>6. ASSUME NEW p \in Procs, Crash(p) PROVE Types'
  <2>1. UNCHANGED <<taskVars, hashVars, cmds, serverVars, scenario, asked, deaths, missed>>
        /\ ProcGoto(p, "gone") /\ proc[p].step # "unused"
    BY <1>6 DEF Crash, Live
  <2>2. AuxTypes'
    <3>1. scenario.crashes \in Nat BY ScenariosAssumption DEF AuxTypes
    <3> QED BY <1>6, <2>1, <3>1 DEF AuxTypes, Crash
  <2>3. /\ proc' \in [Procs -> ProcStates] /\ proc'[p].key = proc[p].key
        /\ \A q \in Procs : q # p => proc'[q] = proc[q]
    BY <2>1, ProcTo DEF ProcSteps
  <2> QED BY <1>1, <1>2, <1>3, <2>1, <2>2, <2>3 DEF Keyed, serverVars
<1>7. CASE Die
  <2>1. UNCHANGED <<taskVars, proc, hashVars, cmds, workers, handles, scenario, asked, crashes, missed>>
        /\ At("down")
    BY <1>7 DEF Die
  <2>2. AuxTypes'
    <3>1. scenario.deaths \in Nat BY ScenariosAssumption DEF AuxTypes
    <3> QED BY <1>7, <2>1, <3>1 DEF AuxTypes, Die
  <2>3. server' \in ServerStates /\ server'.at = "down"
    BY <2>1, ServerTo DEF ServerSteps, ServerTypes
  <2> QED BY <1>1, <1>2, <2>1, <2>2, <2>3 DEF Keyed, Busy, ServerTypes
<1>8. CASE StartServer
  <2>1. UNCHANGED <<taskVars, proc, hashVars, cmds, handles, auxVars>> /\ At("boot") /\ workers' = {}
    BY <1>8 DEF StartServer
  <2>2. server' \in ServerStates /\ server'.at = "boot"
    BY <2>1, ServerTo DEF ServerSteps, ServerTypes
  <2> QED BY <1>1, <1>2, <1>4, <2>1, <2>2 DEF Keyed, Busy, ServerTypes
<1>9. ASSUME NEW op \in scenario.operations, NEW W \in Targets(op), Send(op, W) PROVE Types'
  <2>1. UNCHANGED <<taskVars, proc, hashVars, serverVars, scenario, crashes, deaths, missed>>
        /\ cmds' = LPush(cmds, [op |-> op, workers |-> W])
    BY <1>9 DEF Send
  <2>2. AuxTypes'
    <3>1. scenario.commands \in Nat BY ScenariosAssumption DEF AuxTypes
    <3> QED BY <1>9, <2>1, <3>1 DEF AuxTypes, Send
  <2>3. [op |-> op, workers |-> W] \in Commands
    <3>1. op \in CommandOps BY ScenariosAssumption DEF AuxTypes, CommandOps
    <3>2. W \subseteq Workers BY DEF Targets, HashTypes
    <3> QED BY <3>1, <3>2 DEF Commands
  <2>4. cmds' \in Seq(Commands) BY <2>1, <2>3, LPushFacts
  <2> QED BY <1>1, <1>2, <1>3, <2>1, <2>2, <2>4 DEF Keyed, serverVars
<1>10. CASE UNCHANGED vars
  BY <1>1, <1>2, <1>3, <1>4, <1>10 DEF vars, Keyed, serverVars
<1> QED BY <1>5, <1>6, <1>7, <1>8, <1>9, <1>10, TypesWorker, TypesServer DEF Next

LEMMA AlwaysTypes == Spec => []Types
<1> QED BY TypesInit, TypesNext, PTL DEF Spec

\* The program only writes what the types say, whoever dies and when.
THEOREM ServerTypeCorrect == Spec => []TypeOK
<1> QED BY AlwaysTypes, TypesImply, PTL

-----------------------------------------------------------------------------
(* One process per task. *)

LEMMA RunsInit == Init => RunsInv
<1> SUFFICES ASSUME Init PROVE RunsInv OBVIOUS
<1>1. \A l \in ListNames : \A x : ~In(l, x) /\ Single(l, x) BY TaskInitFacts DEF Init
<1>2. \A t \in Tasks : ~startedOn[t] BY DEF Init, TaskInit
<1>3. WaitsOnce BY <1>1 DEF WaitsOnce, Waits, ListNames
<1>4. NamedHasStarted BY DEF Init, NamedHasStarted, WorkOn, Working
<1>5. OneProcessPerTask BY DEF Init, OneProcessPerTask, Performs
<1> QED BY <1>2, <1>3, <1>4, <1>5 DEF RunsInv, StartedHasBegun

\* The blocks of the store.
LEMMA RunsAdd ==
  ASSUME TaskTypeOK, WaitsOnce, StartedHasBegun,
         NEW t \in Tasks, NEW D \in SUBSET Created, NEW f \in Policies, AddTask(t, D, f)
  PROVE  WaitsOnce' /\ StartedHasBegun' /\ Progress
<1>1. /\ status'[t] \in {"pending", "pre_pending"}
      /\ \A l \in ListNames : \A x : InNext(l, x) <=> In(l, x) \/ (x = t /\ l = status'[t])
      /\ \A l \in ListNames : \A x : Single(l, x) /\ ~In(l, t) => SingleNext(l, x)
  BY AddTaskFacts
<1>2. /\ tasksCount \in Nat /\ t = tasksCount + 1 /\ tasksCount' = t /\ startedOn' = startedOn
      /\ \A u \in Tasks : u # t => status'[u] = status[u]
  BY DEF AddTask, TaskTypeOK
<1>3. ~Waits(t) /\ ~startedOn[t]
  <2>1. ~(t <= tasksCount) BY <1>2
  <2> QED BY <2>1 DEF WaitsOnce, StartedHasBegun
<1>4. \A u \in Tasks : u <= tasksCount => u <= tasksCount' BY <1>2, TasksFacts
<1>5. t <= tasksCount' BY <1>2
<1>6. ASSUME NEW u \in Tasks
      PROVE  /\ SingleNext("pending", u) /\ SingleNext("pre_pending", u)
             /\ ~(InNext("pending", u) /\ InNext("pre_pending", u))
             /\ InNext("pending", u) \/ InNext("pre_pending", u) => u <= tasksCount' /\ ~startedOn'[u]
  <2>1. "pending" \in ListNames /\ "pre_pending" \in ListNames BY DEF ListNames
  <2>2. SingleNext("pending", u) /\ SingleNext("pre_pending", u)
    BY <1>1, <1>3, <2>1 DEF WaitsOnce, Waits
  <2>3. ~(InNext("pending", u) /\ InNext("pre_pending", u))
    BY <1>1, <1>3, <2>1 DEF WaitsOnce, Waits
  <2>4. InNext("pending", u) \/ InNext("pre_pending", u) => Waits(u) \/ u = t
    BY <1>1, <2>1 DEF Waits
  <2>5. Waits(u) => u <= tasksCount' /\ ~startedOn'[u] BY <1>2, <1>4 DEF WaitsOnce
  <2> QED BY <2>2, <2>3, <2>4, <2>5, <1>2, <1>3, <1>5
<1>7. WaitsOnce' BY <1>6 DEF WaitsOnce, Waits, InNext, SingleNext, In, Single
<1>8. StartedHasBegun' /\ Progress
  BY <1>2, <1>3, <1>4 DEF StartedHasBegun, Progress
<1> QED BY <1>7, <1>8

LEMMA RunsPop ==
  ASSUME TaskTypeOK, WaitsOnce, StartedHasBegun,
         NEW w \in Workers, NEW t \in Tasks, PopPending(w, t)
  PROVE  /\ WaitsOnce' /\ StartedHasBegun' /\ Progress
         /\ ~startedOn[t] /\ startedOn'[t]
<1>1. /\ In("pending", t)
      /\ \A x : In("pending", x) <=> InNext("pending", x) \/ x = t
      /\ Single("pending", t) => ~InNext("pending", t)
      /\ \A l \in ListNames \ {"pending", "ongoing"} : lists'[l] = lists[l]
      /\ \A l \in ListNames : \A x :
           Single(l, x) /\ ~(x = t /\ In("ongoing", t)) => SingleNext(l, x)
  BY PopPendingFacts
<1>2. /\ tasksCount' = tasksCount /\ startedOn'[t]
      /\ \A u \in Tasks : u # t => status'[u] = status[u] /\ startedOn'[u] = startedOn[u]
      /\ status'[t] = "ongoing"
  BY DEF PopPending, TaskTypeOK
<1>3. /\ ~startedOn[t] /\ t <= tasksCount /\ ~In("pre_pending", t) /\ ~InNext("pending", t)
      /\ Single("pending", t)
  BY <1>1 DEF WaitsOnce, Waits
<1>4. lists'["pre_pending"] = lists["pre_pending"] BY <1>1 DEF ListNames
<1>5. ASSUME NEW u \in Tasks
      PROVE  /\ SingleNext("pending", u) /\ SingleNext("pre_pending", u)
             /\ ~(InNext("pending", u) /\ InNext("pre_pending", u))
             /\ InNext("pending", u) \/ InNext("pre_pending", u) => u <= tasksCount' /\ ~startedOn'[u]
  <2>1. "pending" \in ListNames BY DEF ListNames
  <2>2. SingleNext("pending", u)
    <3>1. CASE u = t BY <3>1, <1>3, RangeOfSeq, PopPendingFacts DEF SingleNext, InNext, AtMostOnce, TaskTypeOK, ListNames
    <3>2. CASE u # t BY <3>2, <1>1, <2>1 DEF WaitsOnce
    <3> QED BY <3>1, <3>2
  <2>3. SingleNext("pre_pending", u) /\ (InNext("pre_pending", u) <=> In("pre_pending", u))
    BY <1>4 DEF SingleNext, Single, InNext, In, WaitsOnce
  <2>4. InNext("pending", u) => In("pending", u) /\ u # t BY <1>1, <1>3
  <2>5. InNext("pre_pending", u) => u # t BY <2>3, <1>3
  <2> QED BY <2>2, <2>3, <2>4, <2>5, <1>2 DEF WaitsOnce, Waits
<1>6. WaitsOnce' BY <1>5 DEF WaitsOnce, Waits, InNext, SingleNext, In, Single
<1>7. StartedHasBegun' BY <1>2, <1>3 DEF StartedHasBegun, Begun
<1>8. Progress BY <1>2, <1>3 DEF Progress
<1> QED BY <1>2, <1>3, <1>6, <1>7, <1>8

LEMMA RunsRelist ==
  ASSUME TaskTypeOK, WaitsOnce, StartedHasBegun,
         NEW t \in Tasks, startedOn[t], NEW from \in Begun, NEW to \in Settled, Relist(t, from, to)
  PROVE  /\ WaitsOnce' /\ StartedHasBegun' /\ Progress
         /\ status'[t] = to
<1>1. from \in Statuses /\ to \in ListNames BY DEF Begun, Settled, Statuses, ListNames
<1>2. /\ \A l \in ListNames : \A x :
           InNext(l, x) <=> (l = to /\ x = t) \/ (In(l, x) /\ ~(l = from /\ x = t))
      /\ \A l \in ListNames : \A x :
           Single(l, x) /\ ~(x = t /\ l = to /\ from # to /\ In(to, t)) => SingleNext(l, x)
  BY <1>1, RelistFacts
<1>3. /\ tasksCount' = tasksCount /\ startedOn' = startedOn /\ status'[t] = to
      /\ \A u \in Tasks : u # t => status'[u] = status[u]
  BY DEF Relist, TaskTypeOK
<1>4. \A l \in {"pending", "pre_pending"} : \A x :
        (InNext(l, x) <=> In(l, x)) /\ (Single(l, x) => SingleNext(l, x))
  BY <1>2 DEF Begun, Settled, ListNames
<1>5. WaitsOnce'
  BY <1>3, <1>4 DEF WaitsOnce, Waits, InNext, SingleNext, In, Single
<1>6. StartedHasBegun' /\ Progress
  BY <1>3 DEF StartedHasBegun, Progress, Begun, Settled
<1> QED BY <1>3, <1>5, <1>6

LEMMA RunsRelease ==
  ASSUME TaskTypeOK, WaitsOnce, StartedHasBegun, NEW d \in Tasks, UpdateDependentTasks(d)
  PROVE  WaitsOnce' /\ StartedHasBegun' /\ Progress
<1>1. /\ \A x : x \in Released(d) <=>
                  x \in Unblocked(d) /\ In("pre_pending", x) /\ Single("pre_pending", x)
      /\ \A x : InNext("pre_pending", x) <=> In("pre_pending", x) /\ x \notin Unblocked(d)
      /\ \A x : InNext("pending", x) <=> In("pending", x) \/ x \in Released(d)
      /\ \A l \in ListNames : \A x :
           Single(l, x) /\ ~(x \in Released(d) /\ In("pending", x)) => SingleNext(l, x)
  BY UpdateFacts
<1>2. /\ tasksCount' = tasksCount /\ startedOn' = startedOn
      /\ \A u \in Tasks : u \notin Released(d) => status'[u] = status[u]
  BY DEF UpdateDependentTasks
<1>3. \A u \in Tasks : startedOn[u] => u \notin Released(d) BY <1>1 DEF WaitsOnce, Waits
<1>4. \A u \in Tasks : SingleNext("pending", u) /\ SingleNext("pre_pending", u)
  BY <1>1 DEF WaitsOnce, ListNames
<1>5. \A u \in Tasks : ~(InNext("pending", u) /\ InNext("pre_pending", u))
  BY <1>1 DEF WaitsOnce
<1>6. \A u \in Tasks : InNext("pending", u) \/ InNext("pre_pending", u) => Waits(u)
  BY <1>1 DEF Waits
<1>7. WaitsOnce'
  <2>1. \A u \in Tasks : Waits(u) => u <= tasksCount' /\ ~startedOn'[u] BY <1>2 DEF WaitsOnce
  <2>2. \A u \in Tasks :
          InNext("pending", u) \/ InNext("pre_pending", u) => u <= tasksCount' /\ ~startedOn'[u]
    BY <1>6, <2>1
  <2> QED BY <1>4, <1>5, <2>2 DEF WaitsOnce, Waits, InNext, SingleNext, In, Single
<1>8. StartedHasBegun' /\ Progress BY <1>2, <1>3 DEF StartedHasBegun, Progress
<1> QED BY <1>7, <1>8

LEMMA RunsSame ==
  ASSUME WaitsOnce, StartedHasBegun, UNCHANGED taskVars
  PROVE  WaitsOnce' /\ StartedHasBegun' /\ Progress
BY DEF WaitsOnce, Waits, In, Single, StartedHasBegun, Progress, taskVars

\* A step in which a process is as it was or works on nothing.
LEMMA NamedStays ==
  ASSUME Types, Types', NamedHasStarted, OneProcessPerTask, Progress,
         \A p \in Procs : proc'[p] = proc[p] \/ proc'[p].step \notin Working,
         \A w \in Workers : currentTask'[w] \in {currentTask[w], None},
         server'.at = "fail" => server.at = "fail" /\ server'.task = server.task
  PROVE  NamedHasStarted' /\ OneProcessPerTask'
<1>1. \A p \in Procs : proc[p].task \in Tasks BY DEF Types, ProcStates
<1>2. \A p \in Procs : WorkOn(proc[p])' BY <1>1 DEF NamedHasStarted, WorkOn, Progress, Working
<1>3. \A w \in Workers : currentTask'[w] # None => startedOn'[currentTask'[w]]
  BY DEF NamedHasStarted, Progress, Types, HashTypes
<1>4. server'.at = "fail" => startedOn'[server'.task]
  BY DEF NamedHasStarted, Progress, Types, ServerTypes, ServerStates
<1>5. OneProcessPerTask' BY DEF OneProcessPerTask, Performs, Working
<1> QED BY <1>2, <1>3, <1>4, <1>5 DEF NamedHasStarted

\* A process that goes on with the task it works on.
LEMMA NamedGoesOn ==
  ASSUME Types, Types', NamedHasStarted, OneProcessPerTask, Progress, NEW p \in Procs,
         \A q \in Procs : q # p => proc'[q] = proc[q],
         Performs(p, proc[p].task) \/ proc[p].step \in {"release", "clear"},
         proc'[p].task = proc[p].task, WorkOn(proc[p])',
         proc'[p].step \in {"run", "read", "exec"} => proc[p].step \in {"run", "read", "exec"},
         UNCHANGED <<currentTask, server>>
  PROVE  NamedHasStarted' /\ OneProcessPerTask'
<1>1. \A q \in Procs : proc[q].task \in Tasks BY DEF Types, ProcStates
<1>2. \A q \in Procs : q # p => WorkOn(proc[q])'
  BY <1>1 DEF NamedHasStarted, WorkOn, Progress, Working
<1>3. \A w \in Workers : currentTask'[w] # None => startedOn'[currentTask'[w]]
  BY DEF NamedHasStarted, Progress, Types, HashTypes
<1>4. server'.at = "fail" => startedOn'[server'.task]
  BY DEF NamedHasStarted, Progress, Types, ServerTypes, ServerStates
<1>5. OneProcessPerTask' BY DEF OneProcessPerTask, Performs
<1> QED BY <1>2, <1>3, <1>4, <1>5 DEF NamedHasStarted

LEMMA RunsWorker ==
  ASSUME Types, Types', RunsInv, NEW p \in Procs, WorkerProcess(p)
  PROVE  RunsInv'
<1> USE DEF RunsInv
<1>1. TaskTypeOK /\ proc \in [Procs -> ProcStates] BY DEF Types
<1>2. proc[p].task \in Tasks /\ proc[p].request \in Settled BY <1>1 DEF ProcStates, Settled
<1>3. WorkOn(proc[p]) BY DEF NamedHasStarted
<1>4. CASE Join(p) \/ Advertise(p) \/ Enlist(p) \/ CheckStatus(p) \/ PollNothing(p) \/ ClearCurrentTask(p)
  <2>1. UNCHANGED taskVars /\ server' = server
    BY <1>4 DEF Join, Advertise, Enlist, CheckStatus, PollNothing, ClearCurrentTask, serverVars
  <2>2. \A w \in Workers : currentTask'[w] \in {currentTask[w], None}
    BY <1>4 DEF Join, Advertise, Enlist, CheckStatus, PollNothing, ClearCurrentTask, hashVars, Types, HashTypes
  <2>3. PICK to \in ProcSteps \ Working : ProcGoto(p, to)
    BY <1>4 DEF Join, Advertise, Enlist, CheckStatus, PollNothing, ClearCurrentTask, Working, ProcSteps
  <2>4. \A q \in Procs : proc'[q] = proc[q] \/ proc'[q].step \notin Working
    BY <2>3, <1>1, ProcTo
  <2> QED BY <2>1, <2>2, <2>4, RunsSame, NamedStays
<1>5. ASSUME NEW t \in Tasks, Pop(p, t) PROVE RunsInv'
  <2>1. /\ PopPending(proc[p].key, t) /\ server' = server /\ proc[p].step = "poll"
        /\ currentTask' = [currentTask EXCEPT ![proc[p].key] = t]
    BY <1>5 DEF Pop, serverVars
  <2>2. proc[p].key \in Workers BY <2>1 DEF Types, Keyed
  <2>3. WaitsOnce' /\ StartedHasBegun' /\ Progress /\ ~startedOn[t] /\ startedOn'[t]
    BY <1>1, <2>1, <2>2, RunsPop
  <2>4. /\ proc'[p].step = "run" /\ proc'[p].task = t
        /\ \A q \in Procs : q # p => proc'[q] = proc[q]
    BY <1>1, <1>5 DEF Pop, ProcStates
  <2>5. \A q \in Procs : WorkOn(proc[q])'
    <3>1. \A q \in Procs : q # p => WorkOn(proc[q])'
      BY <1>1, <2>3, <2>4 DEF NamedHasStarted, WorkOn, Progress, Working, ProcStates
    <3> QED BY <3>1, <2>3, <2>4 DEF WorkOn
  <2>6. \A w \in Workers : currentTask'[w] # None => startedOn'[currentTask'[w]]
    BY <2>1, <2>3 DEF NamedHasStarted, Progress, Types, HashTypes
  <2>7. server'.at = "fail" => startedOn'[server'.task]
    BY <2>1, <2>3 DEF NamedHasStarted, Progress, Types, ServerTypes, ServerStates
  <2>8. \A q \in Procs : ~Performs(q, t) BY <2>3 DEF NamedHasStarted, WorkOn, Performs, Working
  <2>9. \A u \in Tasks, q \in Procs : Performs(q, u)' => (Performs(q, u) /\ q # p) \/ (q = p /\ u = t)
    BY <2>4 DEF Performs
  <2>10. OneProcessPerTask'
    <3> SUFFICES ASSUME NEW u \in Tasks, NEW q \in Procs, NEW r \in Procs,
                        Performs(q, u)', Performs(r, u)'
                 PROVE  q = r
      BY DEF OneProcessPerTask
    <3> QED BY <2>8, <2>9 DEF OneProcessPerTask
  <2> QED BY <2>3, <2>5, <2>6, <2>7, <2>10 DEF NamedHasStarted
<1>6. ASSUME NEW outcome \in {"finished", "failed"}, RunEnds(p, outcome) PROVE RunsInv'
  <2>1. UNCHANGED taskVars /\ UNCHANGED <<currentTask, server>> /\ proc[p].step = "run"
    BY <1>6 DEF RunEnds, hashVars, serverVars
  <2>2. /\ proc'[p].step = "read" /\ proc'[p].task = proc[p].task
        /\ \A q \in Procs : q # p => proc'[q] = proc[q]
    BY <1>1, <1>6 DEF RunEnds, ProcStates
  <2>3. WaitsOnce' /\ StartedHasBegun' /\ Progress BY <2>1, RunsSame
  <2>4. WorkOn(proc[p])' BY <1>2, <1>3, <2>1, <2>2, <2>3 DEF WorkOn, Progress, Working
  <2> QED BY <2>1, <2>2, <2>3, <2>4, NamedGoesOn DEF Performs
<1>7. CASE ReadTask(p)
  <2>1. UNCHANGED taskVars /\ UNCHANGED <<currentTask, server>> /\ proc[p].step = "read"
    BY <1>7 DEF ReadTask, hashVars, serverVars
  <2>2. /\ proc'[p].step \in {"exec", "clear"} /\ proc'[p].task = proc[p].task
        /\ proc'[p].step = "clear" => status[proc[p].task] = "finished"
        /\ proc'[p].seen = status[proc[p].task]
        /\ \A q \in Procs : q # p => proc'[q] = proc[q]
    BY <1>1, <1>7 DEF ReadTask, ProcStates
  <2>3. WaitsOnce' /\ StartedHasBegun' /\ Progress BY <2>1, RunsSame
  <2>4. startedOn[proc[p].task] /\ status[proc[p].task] \in Begun
    BY <1>2, <1>3, <2>1 DEF WorkOn, Working, StartedHasBegun
  <2>5. WorkOn(proc[p])' BY <1>2, <2>2, <2>3, <2>4 DEF WorkOn, Progress, Settled
  <2> QED BY <2>1, <2>2, <2>3, <2>5, NamedGoesOn DEF Performs
<1>8. CASE MarkTask(p)
  <2>1. /\ Relist(proc[p].task, proc[p].seen, proc[p].request) /\ proc[p].step = "exec"
        /\ UNCHANGED <<currentTask, server>>
    BY <1>8 DEF MarkTask, hashVars, serverVars
  <2>2. PICK to \in {"release", "clear"} : ProcGoto(p, to) BY <1>8 DEF MarkTask
  <2>3. /\ proc'[p].step = to /\ proc'[p].task = proc[p].task
        /\ \A q \in Procs : q # p => proc'[q] = proc[q]
    BY <1>1, <2>2, ProcTo DEF ProcSteps
  <2>4. startedOn[proc[p].task] /\ proc[p].seen \in Begun BY <1>3, <2>1 DEF WorkOn, Working
  <2>5. WaitsOnce' /\ StartedHasBegun' /\ Progress /\ status'[proc[p].task] \in Settled
    BY <1>1, <1>2, <2>1, <2>4, RunsRelist
  <2>6. WorkOn(proc[p])' BY <1>2, <2>3, <2>4, <2>5 DEF WorkOn, Progress
  <2> QED BY <2>1, <2>3, <2>5, <2>6, NamedGoesOn DEF Performs
<1>9. CASE Release(p)
  <2>1. /\ UpdateDependentTasks(proc[p].task) /\ proc[p].step = "release" /\ ProcGoto(p, "clear")
        /\ UNCHANGED <<currentTask, server>>
    BY <1>9 DEF Release, hashVars, serverVars
  <2>2. /\ proc'[p].step = "clear" /\ proc'[p].task = proc[p].task
        /\ \A q \in Procs : q # p => proc'[q] = proc[q]
    BY <1>1, <2>1, ProcTo DEF ProcSteps
  <2>3. WaitsOnce' /\ StartedHasBegun' /\ Progress BY <1>1, <1>2, <2>1, RunsRelease
  <2>4. WorkOn(proc[p])' BY <1>2, <1>3, <2>1, <2>2, <2>3 DEF WorkOn, Progress, Working
  <2> QED BY <2>1, <2>2, <2>3, <2>4, NamedGoesOn
<1> QED BY <1>4, <1>5, <1>6, <1>7, <1>8, <1>9 DEF WorkerProcess

LEMMA RunsServer ==
  ASSUME Types, Types', RunsInv, ServerProcess
  PROVE  RunsInv'
<1> USE DEF RunsInv
<1>1. TaskTypeOK /\ proc \in [Procs -> ProcStates] /\ server \in ServerStates /\ HashTypes
  BY DEF Types, ServerTypes
<1>2. CASE ReadCurrentTask
  <2>1. UNCHANGED <<taskVars, proc, currentTask>> /\ server.at = "current"
    BY <1>2 DEF ReadCurrentTask, hashVars
  <2>2. server.worker \in Workers BY <2>1 DEF Types, Keyed, Busy
  <2>3. server'.at = "fail" => currentTask[server.worker] # None /\ server'.task = currentTask[server.worker]
    BY <1>1, <1>2 DEF ReadCurrentTask, At, ServerStates
  <2>4. server'.at = "fail" => startedOn[server'.task]
    BY <2>2, <2>3 DEF NamedHasStarted
  <2> QED BY <2>1, <2>4, RunsSame DEF NamedHasStarted, WorkOn, OneProcessPerTask, Performs, taskVars
<1>3. CASE FailTask
  <2>1. /\ server.at = "fail" /\ Relist(server.task, "ongoing", "failed") /\ UNCHANGED proc
        /\ currentTask' = [currentTask EXCEPT ![server.worker] = None]
    BY <1>3 DEF FailTask
  <2>2. PICK to \in {"start", "kill"} : At(to) BY <1>3 DEF FailTask
  <2>3. server'.at = to BY <1>1, <2>2, ServerTo DEF ServerSteps
  <2>4. startedOn[server.task] /\ server.task \in Tasks
    BY <1>1, <2>1 DEF NamedHasStarted, ServerStates
  <2>5. WaitsOnce' /\ StartedHasBegun' /\ Progress
    BY <1>1, <2>1, <2>4, RunsRelist DEF Begun, Settled
  <2>6. \A w \in Workers : currentTask'[w] \in {currentTask[w], None}
    BY <1>1, <2>1 DEF HashTypes
  <2> QED BY <2>1, <2>3, <2>5, <2>6, NamedStays
<1>4. CASE Terminate
  <2>1. UNCHANGED taskVars /\ currentTask' = currentTask BY <1>4 DEF Terminate, hashVars
  <2>2. PICK to \in {"start", "each"} : At(to) BY <1>4 DEF Terminate
  <2>3. server'.at # "fail" BY <1>1, <2>2, ServerTo DEF ServerSteps
  <2>4. \A p \in Procs : proc'[p] = proc[p] \/ proc'[p].step \notin Working
    BY <1>1, <1>4 DEF Terminate, ProcGoto, ProcStates, Working
  <2> QED BY <2>1, <2>3, <2>4, RunsSame, NamedStays
<1>5. ASSUME NEW p \in Procs, Start(p) PROVE RunsInv'
  <2>1. UNCHANGED taskVars /\ currentTask' = currentTask /\ At("wait") BY <1>5 DEF Start
  <2>2. server'.at # "fail" BY <1>1, <2>1, ServerTo DEF ServerSteps
  <2>3. \A q \in Procs : proc'[q] = proc[q] \/ proc'[q].step \notin Working
    BY <1>1, <1>5 DEF Start, ProcStates, Working
  <2> QED BY <2>1, <2>2, <2>3, RunsSame, NamedStays
<1>6. CASE \/ TakeCommand \/ NoCommand \/ EndLoop \/ NoteCrash \/ NoteKill \/ SeeActive
           \/ TakePid \/ GiveUp \/ Boot \/ ReadStatus \/ Adopt
           \/ \E w \in Workers : Visit(w)
  <2>1. UNCHANGED <<taskVars, proc, currentTask>>
    BY <1>6 DEF TakeCommand, Named, NoCommand, EndLoop, NoteCrash, NoteKill, SeeActive, TakePid, GiveUp,
                Started, Boot, ReadStatus, Adopt, Visit, hashVars
  <2>2. server'.at # "fail"
    BY <1>1, <1>6 DEF TakeCommand, Named, NoCommand, EndLoop, NoteCrash, NoteKill, SeeActive, TakePid, GiveUp,
                Started, Boot, ReadStatus, Adopt, Visit, At, Scan, ServerStates
  <2> QED BY <2>1, <2>2, RunsSame, NamedStays
<1> QED BY <1>2, <1>3, <1>4, <1>5, <1>6 DEF ServerProcess

LEMMA RunsNext == Types /\ Types' /\ RunsInv /\ [Next]_vars => RunsInv'
<1> SUFFICES ASSUME Types, Types', RunsInv, [Next]_vars PROVE RunsInv' OBVIOUS
<1> USE DEF RunsInv
<1>1. TaskTypeOK /\ proc \in [Procs -> ProcStates] /\ server \in ServerStates
  BY DEF Types, ServerTypes
<1>2. ASSUME NEW t \in Tasks, NEW D \in SUBSET Created, NEW f \in Policies, Submit(t, D, f)
      PROVE  RunsInv'
  <2>1. AddTask(t, D, f) /\ UNCHANGED <<proc, currentTask, server>>
    BY <1>2 DEF Submit, hashVars, serverVars
  <2>2. WaitsOnce' /\ StartedHasBegun' /\ Progress BY <1>1, <2>1, RunsAdd
  <2> QED BY <2>1, <2>2, NamedStays
<1>3. ASSUME NEW p \in Procs, Crash(p) PROVE RunsInv'
  <2>1. UNCHANGED taskVars /\ UNCHANGED <<currentTask, server>> /\ ProcGoto(p, "gone")
    BY <1>3 DEF Crash, hashVars, serverVars
  <2>2. \A q \in Procs : proc'[q] = proc[q] \/ proc'[q].step \notin Working
    BY <1>1, <2>1, ProcTo DEF ProcSteps, Working
  <2> QED BY <2>1, <2>2, RunsSame, NamedStays
<1>4. CASE Die \/ StartServer
  <2>1. UNCHANGED taskVars /\ UNCHANGED <<proc, currentTask>> /\ (At("down") \/ At("boot"))
    BY <1>4 DEF Die, StartServer, hashVars
  <2>2. server'.at # "fail" BY <1>1, <2>1, ServerTo DEF ServerSteps
  <2> QED BY <2>1, <2>2, RunsSame, NamedStays
<1>5. CASE (\E op \in scenario.operations : \E W \in Targets(op) : Send(op, W)) \/ UNCHANGED vars
  <2>1. UNCHANGED taskVars /\ UNCHANGED <<proc, currentTask, server>>
    BY <1>5 DEF Send, hashVars, serverVars, vars
  <2> QED BY <2>1, RunsSame, NamedStays
<1> QED BY <1>2, <1>3, <1>4, <1>5, RunsWorker, RunsServer DEF Next

LEMMA AlwaysRuns == Spec => [](Types /\ RunsInv)
<1>1. Init => Types /\ RunsInv BY TypesInit, RunsInit
<1>2. Types /\ RunsInv /\ [Next]_vars => (Types /\ RunsInv)' BY TypesNext, RunsNext
<1> QED BY <1>1, <1>2, PTL DEF Spec

\* Whatever crashes, is killed, restarted or late: a task is performed by one process at
\* most, even while two processes run as the same worker.
THEOREM TaskPerformedOnce == Spec => []OneProcessPerTask
<1>1. Types /\ RunsInv => OneProcessPerTask BY DEF RunsInv
<1> QED BY AlwaysRuns, <1>1, PTL

-----------------------------------------------------------------------------
(* Every process is watched. *)

LEMMA WatchInit == Init => Watch
<1> SUFFICES ASSUME Init PROVE Watch OBVIOUS
<1>1. \A p \in Procs : ~Live(p) /\ ~Launched(p) BY DEF Init, Live, Launched
<1>2. server.at = "boot" /\ server.op = "join" /\ server.todo = {} /\ workers = {} BY DEF Init
<1>3. OneEach /\ HasHash /\ LaunchedIsAwaited /\ JoinedHasHash /\ Handled /\ Found
  BY <1>1 DEF OneEach, HasHash, LaunchedIsAwaited, JoinedHasHash, Joined, Handled, Found
<1>4. Doomed /\ NoneToStart /\ DeadLeaves BY <1>2 DEF Doomed, NoneToStart, DeadLeaves
<1>5. StepOfOp /\ Walk /\ StatusOfWorker BY <1>2 DEF StepOfOp, Walk, StatusOfWorker, ListOps
<1> QED BY <1>3, <1>4, <1>5 DEF Watch

\* A step that starts no process and touches nothing of the server's.
WatchedGoOn ==
  /\ \A p \in Procs : /\ proc'[p].key = proc[p].key
                      /\ Live(p)' => Live(p)
                      /\ Launched(p)' => Launched(p)
                      /\ Joined(p)' => Joined(p)
  /\ UNCHANGED <<workerStatus, pid, server, workers, handles, missed>>

LEMMA WatchGoesOn ==
  ASSUME Watch, WatchedGoOn
  PROVE  Watch'
<1> USE DEF Watch, WatchedGoOn
<1>1. OneEach' /\ HasHash' BY DEF OneEach, HasHash
<1>2. LaunchedIsAwaited' BY DEF LaunchedIsAwaited
<1>3. JoinedHasHash' BY DEF JoinedHasHash
<1>4. Handled' BY DEF Handled
<1>5. Doomed' /\ NoneToStart' BY DEF Doomed, NoneToStart
<1>6. Found' BY DEF Found
<1>7. DeadLeaves' /\ StepOfOp' /\ Walk' /\ StatusOfWorker'
  BY DEF DeadLeaves, StepOfOp, Walk, StatusOfWorker
<1> QED BY <1>1, <1>2, <1>3, <1>4, <1>5, <1>6, <1>7

\* A process that joins finds the hash and the server waiting for it.
LEMMA WatchJoin ==
  ASSUME Types, Watch, NEW p \in Procs, Join(p)
  PROVE  Watch'
<1> USE DEF Watch
<1>1. proc \in [Procs -> ProcStates] /\ HashTypes BY DEF Types
<1>2. /\ proc[p].step = "launched" /\ ProcGoto(p, "advertise")
      /\ workerStatus' = [workerStatus EXCEPT ![proc[p].key] = "active"]
      /\ pid' = [pid EXCEPT ![proc[p].key] = p]
      /\ UNCHANGED <<server, workers, handles, missed>>
  BY DEF Join, serverVars, auxVars
<1>3. \A q \in Procs : /\ proc'[q].key = proc[q].key /\ (Live(q)' <=> Live(q))
                       /\ Launched(q)' <=> Launched(q) /\ q # p
                       /\ Joined(q)' <=> Joined(q) \/ q = p
  BY <1>1, <1>2, ProcTo DEF Live, Launched, Joined, ProcSteps
<1>4. /\ Live(p) /\ Launched(p) /\ proc[p].key \in Workers
      /\ server.worker = proc[p].key /\ server.at = "wait"
  BY <1>2 DEF Live, Launched, Types, Keyed, LaunchedIsAwaited
<1>5. /\ workerStatus'[proc[p].key] = "active" /\ pid'[proc[p].key] = p
      /\ \A w \in Workers : w # proc[p].key => workerStatus'[w] = workerStatus[w] /\ pid'[w] = pid[w]
  BY <1>1, <1>2, <1>4 DEF HashTypes
<1>6. \A q \in Procs : Live(q) => proc[q].key \in Workers BY DEF Types, Keyed, Live
<1>7. \A q \in Procs : Live(q) /\ q # p => proc[q].key # proc[p].key BY <1>4 DEF OneEach
<1>8. OneEach' /\ HasHash' BY <1>3, <1>5, <1>6 DEF OneEach, HasHash
<1>9. LaunchedIsAwaited' BY <1>2, <1>3, <1>4, <1>7 DEF LaunchedIsAwaited, Live, Launched
<1>10. JoinedHasHash'
  <2> SUFFICES ASSUME NEW q \in Procs, Joined(q)'
               PROVE  /\ pid'[proc'[q].key] = q
                      /\ workerStatus'[proc'[q].key] = "active"
                         \/ (q # p /\ server.worker # proc[q].key
                             /\ workerStatus'[proc'[q].key] = workerStatus[proc[q].key])
    BY <1>2, <1>3, <1>4 DEF JoinedHasHash
  <2>1. CASE q = p BY <2>1, <1>3, <1>5
  <2>2. CASE q # p
    <3>1. Joined(q) /\ Live(q) BY <2>2, <1>3 DEF Joined
    <3> QED BY <2>2, <3>1, <1>3, <1>4, <1>5, <1>6, <1>7 DEF JoinedHasHash
  <2> QED BY <2>1, <2>2
<1>11. Handled' /\ Found' BY <1>2, <1>3 DEF Handled, Found
<1>12. Doomed' /\ NoneToStart' BY <1>2, <1>3 DEF Doomed, NoneToStart
<1>13. DeadLeaves'
  BY <1>2, <1>4, <1>5 DEF DeadLeaves, Types, ServerTypes
<1>14. StepOfOp' /\ Walk' /\ StatusOfWorker'
  BY <1>2, <1>4, <1>5 DEF StepOfOp, Walk, StatusOfWorker
<1> QED BY <1>8, <1>9, <1>10, <1>11, <1>12, <1>13, <1>14

\* The other steps of a process, and its end.
LEMMA WatchWorker ==
  ASSUME Types, Watch, NEW p \in Procs, WorkerProcess(p) \/ Crash(p)
  PROVE  Watch'
<1>1. proc \in [Procs -> ProcStates] BY DEF Types
<1>2. CASE Join(p) BY <1>2, WatchJoin
<1>3. ASSUME NEW from \in ProcSteps, NEW to \in ProcSteps,
             proc[p].step = from, from \notin {"unused", "gone"},
             to \notin {"unused", "launched"}, from # "launched" \/ to = "gone",
             proc'[p].step = to, \A q \in Procs : proc'[q].key = proc[q].key,
             \A q \in Procs : q # p => proc'[q] = proc[q],
             UNCHANGED <<workerStatus, pid, server, workers, handles, missed>>
      PROVE  Watch'
  <2>1. WatchedGoOn BY <1>3 DEF WatchedGoOn, Live, Launched, Joined
  <2> QED BY <2>1, WatchGoesOn
<1>4. CASE Crash(p)
  <2>1. proc[p].step \in ProcSteps /\ proc[p].step \notin {"unused", "gone"}
    BY <1>1, <1>4 DEF Crash, Live, ProcStates
  <2>2. ProcGoto(p, "gone") /\ UNCHANGED <<workerStatus, pid, server, workers, handles, missed>>
    BY <1>4 DEF Crash, hashVars, serverVars
  <2> QED BY <1>1, <1>3, <2>1, <2>2, ProcTo DEF ProcSteps
<1>5. CASE WorkerProcess(p) /\ ~Join(p)
  <2>1. UNCHANGED <<workerStatus, pid, server, workers, handles, missed>>
    BY <1>5 DEF WorkerProcess, Advertise, Enlist, CheckStatus, PollNothing, Pop, RunEnds, ReadTask,
                MarkTask, Release, ClearCurrentTask, hashVars, serverVars, auxVars
  <2>2. /\ proc[p].step \in {"advertise", "enlist", "check", "poll", "run", "read", "exec",
                             "release", "clear"}
        /\ proc'[p].step \in {"enlist", "check", "poll", "stopped", "run", "read", "exec",
                              "release", "clear"}
        /\ \A q \in Procs : proc'[q].key = proc[q].key /\ (q # p => proc'[q] = proc[q])
    <3>1. CASE Advertise(p) \/ Enlist(p) \/ CheckStatus(p) \/ PollNothing(p)
               \/ MarkTask(p) \/ Release(p) \/ ClearCurrentTask(p)
      <4>1. PICK to \in {"enlist", "check", "poll", "stopped", "release", "clear"} : ProcGoto(p, to)
        BY <3>1 DEF Advertise, Enlist, CheckStatus, PollNothing, MarkTask, Release, ClearCurrentTask
      <4>2. proc'[p].step = to
            /\ \A q \in Procs : proc'[q].key = proc[q].key /\ (q # p => proc'[q] = proc[q])
        BY <4>1, <1>1, ProcTo DEF ProcSteps
      <4> QED BY <3>1, <4>2 DEF Advertise, Enlist, CheckStatus, PollNothing, MarkTask, Release,
                                ClearCurrentTask
    <3>2. ASSUME NEW t \in Tasks, Pop(p, t)
          PROVE  /\ proc[p].step = "poll" /\ proc'[p].step = "run"
                 /\ \A q \in Procs : proc'[q].key = proc[q].key /\ (q # p => proc'[q] = proc[q])
      BY <1>1, <3>2 DEF Pop, ProcStates
    <3>3. ASSUME NEW outcome \in {"finished", "failed"}, RunEnds(p, outcome)
          PROVE  /\ proc[p].step = "run" /\ proc'[p].step = "read"
                 /\ \A q \in Procs : proc'[q].key = proc[q].key /\ (q # p => proc'[q] = proc[q])
      BY <1>1, <3>3 DEF RunEnds, ProcStates
    <3>4. CASE ReadTask(p)
      BY <1>1, <3>4 DEF ReadTask, ProcStates
    <3> QED BY <1>5, <3>1, <3>2, <3>3, <3>4 DEF WorkerProcess
  <2> QED BY <1>3, <2>1, <2>2 DEF ProcSteps
<1> QED BY <1>2, <1>4, <1>5

\* When the processes and the hashes' pids stay, what is left is the server's part.
ProcsStay == UNCHANGED <<proc, missed, pid>>

LEMMA ProcsStayFacts ==
  ASSUME ProcsStay
  PROVE  \A p \in Procs : /\ proc'[p] = proc[p] /\ (p \in missed' <=> p \in missed)
                          /\ Live(p)' <=> Live(p)
                          /\ Launched(p)' <=> Launched(p)
                          /\ Joined(p)' <=> Joined(p)
BY DEF ProcsStay, Live, Launched, Joined

\* A step that leaves the hashes and the lists alone.
LEMMA WatchMoves ==
  ASSUME Watch, ProcsStay, UNCHANGED <<workerStatus, workers, handles>>,
         server.at # "wait", server.at # "boot", server'.at # "wait",
         server.at # "sigterm", server.at = "pid" => server'.at = "pid",
         server.op = "shutdown" => server'.op = "shutdown",
         server.at = "start" => server'.at = "start" /\ server'.op = server.op,
         server.worker = server'.worker \/ server.at \in {"each", "loop"},
         Doomed', NoneToStart', Found', StepOfOp', Walk', StatusOfWorker'
  PROVE  Watch'
<1> USE DEF Watch
<1>1. \A p \in Procs : /\ proc'[p] = proc[p] /\ (Live(p)' <=> Live(p))
                       /\ Launched(p)' <=> Launched(p)
                       /\ Joined(p)' <=> Joined(p)
  BY ProcsStayFacts
<1>2. OneEach' /\ HasHash' BY <1>1 DEF OneEach, HasHash
<1>3. LaunchedIsAwaited' BY <1>1 DEF LaunchedIsAwaited
<1>4. JoinedHasHash' BY <1>1 DEF JoinedHasHash, ProcsStay
<1>5. Handled' BY <1>1 DEF Handled
<1>6. DeadLeaves' BY DEF DeadLeaves
<1> QED BY <1>2, <1>3, <1>4, <1>5, <1>6

\* The server takes a command, or none comes.
LEMMA WatchCommand ==
  ASSUME Types, Watch, TakeCommand \/ NoCommand
  PROVE  Watch'
<1>1. server \in ServerStates BY DEF Types, ServerTypes
<1>2. server.at = "loop" /\ UNCHANGED <<workerStatus, handles>> /\ ProcsStay
  BY DEF TakeCommand, Named, NoCommand, hashVars, auxVars, ProcsStay
<1>3. \A p \in Procs : proc'[p] = proc[p] /\ (p \in missed' <=> p \in missed) /\ (Live(p)' <=> Live(p))
  BY <1>2, ProcsStayFacts
<1>4. \A p \in Procs : Live(p) => p \in missed \/ proc[p].key \in workers
  BY <1>2 DEF Watch, Found
<1>5. server.op # "shutdown" /\ server.op # "new" BY <1>2 DEF Watch, StepOfOp
<1>6. ASSUME server'.at = "each", server'.op \in ListOps, server'.todo \subseteq workers, workers' = workers
      PROVE  Watch'
  <2>1. Found' BY <1>3, <1>4, <1>6 DEF Found
  <2>2. Doomed' /\ NoneToStart' /\ StepOfOp' /\ Walk' /\ StatusOfWorker'
    BY <1>6 DEF Doomed, NoneToStart, StepOfOp, Walk, StatusOfWorker, ListOps
  <2> QED BY <1>2, <1>5, <1>6, <2>1, <2>2, WatchMoves
<1>7. ASSUME NEW w \in Workers, workerStatus[w] = "none",
             server' = [server EXCEPT !.at = "start", !.op = "new", !.worker = w], workers' = workers
      PROVE  Watch'
  <2>1. server'.at = "start" /\ server'.op = "new" /\ server'.worker = w
    BY <1>1, <1>7 DEF ServerStates
  <2>2. NoneToStart' BY <1>3, <1>7, <2>1 DEF Watch, HasHash, NoneToStart
  <2>3. Found' BY <1>3, <1>4, <1>7 DEF Found
  <2>4. Doomed' /\ StepOfOp' /\ Walk' /\ StatusOfWorker'
    BY <1>2, <1>7, <2>1 DEF Doomed, StepOfOp, Walk, StatusOfWorker, ListOps
  <2> QED BY <1>2, <1>5, <1>7, <2>1, <2>2, <2>3, <2>4, WatchMoves
<1>8. ASSUME At("boot"), workers' = {}
      PROVE  Watch'
  <2>1. server'.at = "boot" /\ server'.op = server.op BY <1>1, <1>8, ServerTo DEF ServerSteps
  <2>2. \A p \in Procs : (Launched(p)' <=> Launched(p)) /\ (Joined(p)' <=> Joined(p))
    BY <1>2, ProcsStayFacts
  <2>3. OneEach' /\ HasHash' BY <1>2, <1>3 DEF Watch, OneEach, HasHash
  <2>4. LaunchedIsAwaited' /\ JoinedHasHash'
    BY <1>2, <1>3, <2>1, <2>2 DEF Watch, LaunchedIsAwaited, JoinedHasHash, ProcsStay
  <2>5. Handled' /\ Found' /\ DeadLeaves' BY <1>8, <2>1 DEF Handled, Found, DeadLeaves
  <2>6. Doomed' /\ NoneToStart' /\ StepOfOp' /\ Walk' /\ StatusOfWorker'
    BY <1>5, <1>8, <2>1 DEF Doomed, NoneToStart, StepOfOp, Walk, StatusOfWorker, ListOps
  <2> QED BY <2>3, <2>4, <2>5, <2>6 DEF Watch
<1>9. CASE NoCommand
  <2>1. server' = Scan /\ workers' = workers BY <1>9 DEF NoCommand
  <2>2. server'.at = "each" /\ server'.op = "scan" /\ server'.todo = workers
    BY <1>1, <2>1 DEF Scan, ServerStates
  <2> QED BY <1>6, <2>1, <2>2 DEF ListOps
<1>10. CASE TakeCommand
  <2>1. CASE /\ Head(cmds).op \in {"restart", "kill", "shutdown"}
             /\ server' = [server EXCEPT !.at = "each", !.op = Head(cmds).op,
                                         !.todo = Head(cmds).workers \cap workers]
             /\ UNCHANGED workers
    <3>1. /\ server'.at = "each" /\ server'.op = Head(cmds).op
          /\ server'.todo = Head(cmds).workers \cap workers
      BY <1>1, <2>1 DEF ServerStates
    <3> QED BY <1>6, <2>1, <3>1 DEF ListOps
  <2> QED BY <1>7, <1>8, <1>10, <2>1 DEF TakeCommand, Named
<1> QED BY <1>9, <1>10

LEMMA WatchVisit ==
  ASSUME Types, Watch, NEW w \in Workers, Visit(w)
  PROVE  Watch'
<1>1. server \in ServerStates /\ handles \in [Workers -> Procs \cup {NoProc}]
  BY DEF Types, ServerTypes
<1>2. /\ server.at = "each" /\ w \in server.todo
      /\ UNCHANGED <<workerStatus, workers, handles>> /\ ProcsStay
  BY DEF Visit, hashVars, auxVars, ProcsStay
<1>3. /\ server'.op = server.op /\ server'.todo = server.todo \ {w} /\ server'.worker = w
      /\ server'.at = IF server.op = "join" THEN "status"
                      ELSE IF server.op # "scan" THEN "current"
                      ELSE IF IsAlive(w) THEN "each" ELSE "crashed"
  BY <1>1 DEF Visit, ServerStates
<1>4. \A p \in Procs : proc'[p] = proc[p] /\ (p \in missed' <=> p \in missed) /\ (Live(p)' <=> Live(p))
  BY <1>2, ProcsStayFacts
<1>5. server.op \in {"join", "restart", "kill", "shutdown", "scan"}
  BY <1>1, <1>2 DEF Watch, StepOfOp, ServerStates, ServerOps
<1>6. server.op # "join" => w \in workers /\ server.todo \subseteq workers
  BY <1>2, <1>5 DEF Watch, Walk, ListOps
<1>7. server.op = "join" => w \notin workers /\ server.todo \cap workers = {}
  BY <1>2 DEF Watch, Walk
<1>8. Found'
  <2> SUFFICES ASSUME NEW p \in Procs, Live(p), p \notin missed, proc[p].key \notin workers
               PROVE  server.op = "join" /\ (proc[p].key \in server.todo \ {w} \/ proc[p].key = w)
    BY <1>2, <1>3, <1>4 DEF Found
  <2> QED BY <1>2 DEF Watch, Found
<1>9. NoneToStart'
  <2>1. CASE server'.at = "crashed"
    <3>1. server.op = "scan" /\ ~IsAlive(w) /\ w \in workers BY <1>3, <1>5, <1>6, <2>1
    <3>2. \A p \in Procs : Live(p) /\ proc[p].key = w => handles[w] = p
      BY <1>2, <3>1 DEF Watch, Handled
    <3>3. \A p \in Procs : Live(p) => proc[p].key # w
      BY <3>1, <3>2, NoProcAssumption DEF IsAlive
    <3> QED BY <1>3, <1>4, <3>3 DEF NoneToStart
  <2>2. CASE server'.at # "crashed" BY <1>3, <2>2 DEF NoneToStart
  <2> QED BY <2>1, <2>2
<1>10. Doomed' /\ StepOfOp' /\ StatusOfWorker'
  BY <1>3, <1>5 DEF Doomed, StepOfOp, StatusOfWorker, ListOps
<1>11. Walk' BY <1>2, <1>3, <1>5, <1>6, <1>7 DEF Walk, ListOps
<1> QED BY <1>2, <1>3, <1>8, <1>9, <1>10, <1>11, WatchMoves

LEMMA WatchEndLoop ==
  ASSUME Types, Watch, EndLoop
  PROVE  Watch'
<1>1. server \in ServerStates /\ workers \subseteq Workers BY DEF Types, ServerTypes
<1>2. /\ server.at = "each" /\ server.todo = {} /\ UNCHANGED <<workerStatus, workers, handles>> /\ ProcsStay
  BY DEF EndLoop, hashVars, auxVars, ProcsStay
<1>3. \A p \in Procs : proc'[p] = proc[p] /\ (p \in missed' <=> p \in missed) /\ (Live(p)' <=> Live(p))
  BY <1>2, ProcsStayFacts
<1>4. Found' BY <1>2, <1>3 DEF Watch, Found
<1>5. CASE server.op \in {"scan", "join"} /\ At("loop")
  <2>1. server'.at = "loop" /\ server'.op = server.op /\ server'.todo = server.todo
        /\ server'.worker = server.worker
    BY <1>1, <1>5, ServerTo DEF ServerSteps
  <2>2. Doomed' /\ NoneToStart' /\ StepOfOp' /\ Walk' /\ StatusOfWorker'
    BY <1>5, <2>1 DEF Doomed, NoneToStart, StepOfOp, Walk, StatusOfWorker, ListOps
  <2> QED BY <1>2, <1>4, <1>5, <2>1, <2>2, WatchMoves
<1>6. CASE server.op \in {"restart", "kill"} /\ server' = Scan
  <2>1. server'.at = "each" /\ server'.op = "scan" /\ server'.todo = workers
        /\ server'.worker = server.worker
    BY <1>1, <1>6, ScanFacts
  <2>2. Doomed' /\ NoneToStart' /\ StepOfOp' /\ Walk' /\ StatusOfWorker'
    BY <1>2, <2>1 DEF Doomed, NoneToStart, StepOfOp, Walk, StatusOfWorker, ListOps
  <2> QED BY <1>2, <1>4, <1>6, <2>1, <2>2, WatchMoves
<1>7. CASE server.op = "shutdown" /\ At("down")
  <2>1. server'.at = "down" /\ server'.op = server.op /\ server'.todo = server.todo
        /\ server'.worker = server.worker
    BY <1>1, <1>7, ServerTo DEF ServerSteps
  <2>2. Doomed' /\ NoneToStart' /\ StepOfOp' /\ Walk' /\ StatusOfWorker'
    BY <1>2, <1>7, <2>1 DEF Doomed, NoneToStart, StepOfOp, Walk, StatusOfWorker, ListOps
  <2> QED BY <1>2, <1>4, <1>7, <2>1, <2>2, WatchMoves
<1> QED BY <1>5, <1>6, <1>7 DEF EndLoop

\* The task of a worker is looked up and failed; its process stays what it is.
LEMMA WatchFail ==
  ASSUME Types, Watch, ReadCurrentTask \/ FailTask
  PROVE  Watch'
<1>1. server \in ServerStates BY DEF Types, ServerTypes
<1>2. /\ server.at \in {"current", "fail"}
      /\ UNCHANGED <<workerStatus, workers, handles>> /\ ProcsStay
  BY DEF ReadCurrentTask, FailTask, hashVars, auxVars, ProcsStay
<1>3. /\ server'.op = server.op /\ server'.todo = server.todo /\ server'.worker = server.worker
      /\ \/ server'.at = "fail"
         \/ server'.at = IF server.op = "scan" THEN "start" ELSE "kill"
  BY <1>1 DEF ReadCurrentTask, FailTask, At, ServerStates
<1>4. \A p \in Procs : proc'[p] = proc[p] /\ (p \in missed' <=> p \in missed) /\ (Live(p)' <=> Live(p))
  BY <1>2, ProcsStayFacts
<1>5. server.op \in ListOps BY <1>2 DEF Watch, StepOfOp
<1>6. Found' BY <1>2, <1>4, <1>5 DEF Watch, Found, ListOps
<1>7. NoneToStart' BY <1>2, <1>3, <1>4, <1>5 DEF Watch, NoneToStart
<1>8. Doomed' /\ StepOfOp' /\ StatusOfWorker'
  BY <1>3, <1>5 DEF Doomed, StepOfOp, StatusOfWorker, ListOps
<1>9. Walk' BY <1>2, <1>3, <1>5 DEF Watch, Walk, ListOps
<1> QED BY <1>2, <1>3, <1>6, <1>7, <1>8, <1>9, WatchMoves

LEMMA WatchReadStatus ==
  ASSUME Types, Watch, ReadStatus
  PROVE  Watch'
<1>1. server \in ServerStates BY DEF Types, ServerTypes
<1>2. /\ server.at = "status"
      /\ UNCHANGED <<workerStatus, workers, handles>> /\ ProcsStay
  BY DEF ReadStatus, hashVars, auxVars, ProcsStay
<1>3. /\ server'.op = server.op /\ server'.todo = server.todo /\ server'.worker = server.worker
      /\ server'.at = IF workerStatus[server.worker] = "dead" THEN "each" ELSE "adopt"
  BY <1>1 DEF ReadStatus, ServerStates
<1>4. \A p \in Procs : proc'[p] = proc[p] /\ (p \in missed' <=> p \in missed) /\ (Live(p)' <=> Live(p))
  BY <1>2, ProcsStayFacts
<1>5. server.op = "join" BY <1>2 DEF Watch, StepOfOp
<1>6. Found'
  <2>1. CASE server'.at = "adopt" BY <1>2, <1>3, <1>4, <1>5, <2>1 DEF Watch, Found
  <2>2. CASE server'.at = "each"
    <3>1. workerStatus[server.worker] = "dead" BY <1>3, <2>2
    <3>2. \A p \in Procs : Live(p) => proc[p].key # server.worker
      BY <1>2, <3>1 DEF Watch, LaunchedIsAwaited, JoinedHasHash, Joined
    <3> QED BY <1>2, <1>3, <1>4, <1>5, <2>2, <3>2 DEF Watch, Found
  <2> QED BY <1>3, <2>1, <2>2
<1>7. Doomed' /\ NoneToStart' /\ StepOfOp' /\ StatusOfWorker'
  BY <1>2, <1>3, <1>5 DEF Doomed, NoneToStart, StepOfOp, StatusOfWorker, ListOps
<1>8. Walk' BY <1>2, <1>3, <1>5 DEF Watch, Walk, ListOps
<1> QED BY <1>2, <1>3, <1>5, <1>6, <1>7, <1>8, WatchMoves

\* The status of the worker that the server is occupied with is written.
LEMMA WatchNotes ==
  ASSUME Types, Watch, NoteCrash \/ NoteKill
  PROVE  Watch'
<1>1. server \in ServerStates /\ HashTypes BY DEF Types, ServerTypes
<1>2. /\ UNCHANGED <<workers, handles>> /\ ProcsStay
      /\ \/ /\ server.at = "crashed" /\ At("current")
            /\ workerStatus' = [workerStatus EXCEPT ![server.worker] = "restart"]
         \/ /\ server.at = "kill" /\ At("sigterm")
            /\ workerStatus' = [workerStatus EXCEPT ![server.worker] = "dead"]
  BY DEF NoteCrash, NoteKill, auxVars, ProcsStay
<1>3. /\ server'.op = server.op /\ server'.todo = server.todo /\ server'.worker = server.worker
      /\ \/ server.at = "crashed" /\ server'.at = "current"
         \/ server.at = "kill" /\ server'.at = "sigterm"
  BY <1>1, <1>2, ServerTo DEF ServerSteps
<1>4. server.worker \in Workers BY <1>2 DEF Types, Keyed, Busy
<1>5. /\ workerStatus'[server.worker] = IF server.at = "kill" THEN "dead" ELSE "restart"
      /\ \A w \in Workers : w # server.worker => workerStatus'[w] = workerStatus[w]
  BY <1>1, <1>2, <1>4 DEF HashTypes
<1>6. \A p \in Procs : /\ proc'[p] = proc[p] /\ (p \in missed' <=> p \in missed) /\ (Live(p)' <=> Live(p))
                       /\ Launched(p)' <=> Launched(p)
                       /\ Joined(p)' <=> Joined(p)
                       /\ Live(p) => proc[p].key \in Workers
  BY <1>2, ProcsStayFacts DEF Types, Keyed, Live
<1>7. \A p \in Procs : ~Launched(p) BY <1>2 DEF Watch, LaunchedIsAwaited
<1>8. OneEach' BY <1>6 DEF Watch, OneEach
<1>9. HasHash' BY <1>5, <1>6 DEF Watch, HasHash
<1>10. LaunchedIsAwaited' BY <1>6, <1>7 DEF LaunchedIsAwaited
<1>11. JoinedHasHash'
  <2> SUFFICES ASSUME NEW p \in Procs, Joined(p)
               PROVE  /\ pid[proc[p].key] = p
                      /\ workerStatus'[proc[p].key] = "dead" =>
                           server.worker = proc[p].key /\ server'.at = "sigterm"
    BY <1>2, <1>3, <1>6 DEF JoinedHasHash, ProcsStay
  <2>1. Live(p) /\ proc[p].key \in Workers BY <1>6 DEF Joined
  <2>2. pid[proc[p].key] = p /\ (workerStatus[proc[p].key] = "dead" => server.at = "sigterm")
    BY DEF Watch, JoinedHasHash
  <2> QED BY <1>2, <1>3, <1>5, <2>1, <2>2
<1>12. Handled' BY <1>2, <1>3, <1>6 DEF Watch, Handled
<1>13. StepOfOp' BY <1>3 DEF Watch, StepOfOp, ListOps
<1>14. Doomed' BY <1>2, <1>3, <1>6 DEF Watch, Doomed
<1>15. NoneToStart' BY <1>3, <1>6, <1>13 DEF Watch, NoneToStart, StepOfOp
<1>16. Found' BY <1>2, <1>3, <1>6 DEF Watch, Found
<1>17. DeadLeaves'
  <2> SUFFICES ASSUME NEW w \in workers, workerStatus'[w] = "dead"
               PROVE  (server.worker = w /\ server'.at = "sigterm" /\ server.op \in {"restart", "kill"})
                      \/ server.op = "shutdown"
    BY <1>2, <1>3 DEF DeadLeaves
  <2>1. w \in Workers BY DEF Types, ServerTypes
  <2>2. CASE w # server.worker BY <1>2, <1>5, <2>1, <2>2 DEF Watch, DeadLeaves
  <2>3. CASE w = server.worker
    <3>1. server.at = "kill" BY <1>5, <2>3
    <3>2. server.op # "join" BY <2>3, <3>1 DEF Watch, Walk
    <3> QED BY <1>3, <2>3, <3>1, <3>2 DEF Watch, StepOfOp
  <2> QED BY <2>2, <2>3
<1>18. Walk' BY <1>2, <1>3 DEF Watch, Walk, StepOfOp, ListOps
<1>19. StatusOfWorker' BY <1>3, <1>13 DEF StatusOfWorker, StepOfOp
<1> QED BY <1>8, <1>9, <1>10, <1>11, <1>12, <1>13, <1>14, <1>15, <1>16, <1>17, <1>18, <1>19 DEF Watch

\* The process of the worker is ended.
LEMMA WatchTerminate ==
  ASSUME Types, Watch, Terminate
  PROVE  Watch'
<1> DEFINE w == server.worker
           p == handles[w]
<1>1. /\ server \in ServerStates /\ proc \in [Procs -> ProcStates]
      /\ handles \in [Workers -> Procs \cup {NoProc}] /\ workers \subseteq Workers
  BY DEF Types, ServerTypes
<1>2. /\ server.at = "sigterm" /\ UNCHANGED <<workerStatus, pid, handles, missed>>
      /\ workers' = IF server.op = "kill" THEN workers \ {w} ELSE workers
      /\ At(IF server.op = "restart" THEN "start" ELSE "each")
      /\ IF IsAlive(w) THEN ProcGoto(p, "gone") ELSE UNCHANGED proc
  BY DEF Terminate, hashVars, auxVars
<1>3. /\ server'.op = server.op /\ server'.todo = server.todo /\ server'.worker = w
      /\ server'.at = IF server.op = "restart" THEN "start" ELSE "each"
  BY <1>1, <1>2, ServerTo DEF ServerSteps
<1>4. w \in Workers BY <1>2 DEF Types, Keyed, Busy
<1>5. server.op \in {"restart", "kill", "shutdown", "join"} BY <1>2 DEF Watch, StepOfOp
<1>6. \A q \in Procs : Live(q) /\ proc[q].key = w => q = p
  <2>1. CASE server.op = "join" BY <1>2, <2>1 DEF Watch, Doomed
  <2>2. CASE server.op # "join"
    <3>1. w \in workers BY <1>2, <1>5, <2>2 DEF Watch, Walk, ListOps
    <3> QED BY <1>2, <3>1 DEF Watch, Handled
  <2> QED BY <2>1, <2>2
<1>7. \A q \in Procs : /\ proc'[q].key = proc[q].key
                       /\ Live(q)' => Live(q) /\ proc[q].key # w
                       /\ Launched(q)' => Launched(q)
                       /\ Joined(q)' => Joined(q) /\ proc[q].key # w
  <2>1. CASE IsAlive(w)
    <3>1. p \in Procs BY <1>1, <1>4, <2>1 DEF IsAlive
    <3>2. /\ proc'[p].step = "gone" /\ proc'[p].key = proc[p].key
          /\ \A q \in Procs : q # p => proc'[q] = proc[q]
      BY <1>1, <1>2, <2>1, <3>1, ProcTo DEF ProcSteps
    <3> QED BY <1>6, <3>2 DEF Live, Launched, Joined
  <2>2. CASE ~IsAlive(w)
    <3>1. \A q \in Procs : Live(q) => proc[q].key # w BY <1>6, <2>2, NoProcAssumption DEF IsAlive
    <3> QED BY <1>2, <2>2, <3>1 DEF Live, Launched, Joined
  <2> QED BY <2>1, <2>2
<1> HIDE DEF p
<1>8. OneEach' /\ HasHash' BY <1>2, <1>7 DEF Watch, OneEach, HasHash
<1>9. LaunchedIsAwaited' BY <1>2, <1>7 DEF Watch, LaunchedIsAwaited
<1>10. JoinedHasHash' BY <1>2, <1>3, <1>7 DEF Watch, JoinedHasHash
<1>11. Handled' BY <1>2, <1>7 DEF Watch, Handled
<1>12. NoneToStart' BY <1>3, <1>7 DEF NoneToStart
<1>13. Doomed' /\ StepOfOp' /\ StatusOfWorker'
  BY <1>3, <1>5 DEF Doomed, StepOfOp, StatusOfWorker
<1>14. Found'
  <2> SUFFICES ASSUME NEW q \in Procs, Live(q), proc[q].key # w, q \notin missed
               PROVE  proc[q].key \in workers \/ (server.op = "join" /\ proc[q].key \in server.todo)
    BY <1>2, <1>3, <1>5, <1>7 DEF Found
  <2> QED BY <1>2 DEF Watch, Found
<1>15. DeadLeaves'
  <2> SUFFICES ASSUME NEW v \in workers', workerStatus[v] = "dead"
               PROVE  (v = w /\ server.op = "restart") \/ server.op = "shutdown"
    BY <1>2, <1>3 DEF DeadLeaves
  <2>1. v \in workers /\ (server.op = "kill" => v # w) BY <1>2
  <2> QED BY <1>2, <2>1 DEF Watch, DeadLeaves
<1>16. Walk'
  <2>1. server.op # "join" => w \in workers /\ server.todo \subseteq workers
    BY <1>2, <1>5 DEF Watch, Walk, ListOps
  <2>2. server.op = "kill" => w \notin server.todo BY <1>2 DEF Watch, Walk
  <2>3. server.op = "join" => server.todo \cap workers = {} BY <1>2 DEF Watch, Walk
  <2> QED BY <1>2, <1>3, <1>5, <2>1, <2>2, <2>3 DEF Walk, ListOps
<1> QED BY <1>8, <1>9, <1>10, <1>11, <1>12, <1>13, <1>14, <1>15, <1>16 DEF Watch

\* A process is started.
LEMMA WatchStart ==
  ASSUME Types, Watch, NEW p \in Procs, Start(p)
  PROVE  Watch'
<1> DEFINE w == server.worker
<1>1. server \in ServerStates /\ proc \in [Procs -> ProcStates] /\ HashTypes
  BY DEF Types, ServerTypes
<1>2. /\ server.at = "start" /\ UNCHANGED <<pid, workers, handles, missed>> /\ At("wait") /\ Fresh(p)
      /\ workerStatus' = [workerStatus EXCEPT ![w] = "starting"]
      /\ proc' = [proc EXCEPT ![p].step = "launched", ![p].key = w]
  BY DEF Start, auxVars
<1>3. /\ server'.op = server.op /\ server'.todo = server.todo /\ server'.worker = w
      /\ server'.at = "wait"
  BY <1>1, <1>2, ServerTo DEF ServerSteps
<1>4. w \in Workers BY <1>2 DEF Types, Keyed, Busy
<1>5. server.op \in {"restart", "scan", "new"} BY <1>2 DEF Watch, StepOfOp
<1>6. /\ workerStatus'[w] = "starting"
      /\ \A v \in Workers : v # w => workerStatus'[v] = workerStatus[v]
  BY <1>1, <1>2, <1>4 DEF HashTypes
<1>7. proc[p].step = "unused"
  <2> DEFINE unused == {q \in Procs : proc[q].step = "unused"}
  <2>1. unused # {} /\ p = CHOOSE q \in unused : TRUE BY <1>2 DEF Fresh
  <2>2. (CHOOSE q \in unused : TRUE) \in unused BY <2>1
  <2> QED BY <2>1, <2>2
<1>8. /\ ~Live(p) /\ ~Launched(p) /\ proc'[p].key = w /\ Launched(p)' /\ ~Joined(p)' /\ Live(p)'
      /\ \A q \in Procs : q # p => proc'[q] = proc[q]
  BY <1>1, <1>2, <1>7 DEF ProcStates, Live, Launched, Joined
<1>9. \A q \in Procs : q # p => /\ proc'[q] = proc[q] /\ (Live(q)' <=> Live(q))
                                /\ Launched(q)' <=> Launched(q)
                                /\ Joined(q)' <=> Joined(q)
  BY <1>8 DEF Live, Launched, Joined
<1>10. \A q \in Procs : Live(q) => proc[q].key # w /\ proc[q].key \in Workers
  BY <1>2 DEF Watch, NoneToStart, Types, Keyed, Live
<1>11. \A q \in Procs : ~Launched(q) BY <1>2 DEF Watch, LaunchedIsAwaited
<1>12. OneEach' BY <1>8, <1>9, <1>10 DEF Watch, OneEach
<1>13. HasHash' BY <1>6, <1>8, <1>9, <1>10 DEF Watch, HasHash
<1>14. LaunchedIsAwaited' BY <1>3, <1>6, <1>8, <1>9, <1>11 DEF LaunchedIsAwaited
<1>15. server.at = "start" /\ workers' = workers /\ handles' = handles /\ missed' = missed /\ pid' = pid
  BY <1>2
<1>16. JoinedHasHash'
  <2> SUFFICES ASSUME NEW q \in Procs, Joined(q)'
               PROVE  /\ pid'[proc'[q].key] = q
                      /\ workerStatus'[proc'[q].key] # "dead" /\ proc'[q].key # w
    BY <1>3 DEF JoinedHasHash
  <2>1. q # p /\ Joined(q) /\ proc'[q] = proc[q] BY <1>8, <1>9
  <2>2. Live(q) BY <2>1 DEF Joined
  <2>3. proc[q].key # w /\ proc[q].key \in Workers BY <1>10, <2>2
  <2>4. pid[proc[q].key] = q /\ workerStatus[proc[q].key] # "dead"
    BY <1>15, <2>1 DEF Watch, JoinedHasHash
  <2> QED BY <1>6, <1>15, <2>1, <2>3, <2>4
<1>17. Handled'
  <2> SUFFICES ASSUME NEW q \in Procs, Live(q)', proc'[q].key \in workers, proc'[q].key # w
               PROVE  handles[proc'[q].key] = q
    BY <1>3, <1>15 DEF Handled
  <2>1. q # p /\ Live(q) /\ proc'[q] = proc[q] BY <1>8, <1>9
  <2> QED BY <1>15, <2>1 DEF Watch, Handled
<1>18. Doomed' /\ NoneToStart' /\ StepOfOp' BY <1>3, <1>5 DEF Doomed, NoneToStart, StepOfOp
<1>19. Found'
  <2> SUFFICES ASSUME NEW q \in Procs, Live(q)', proc'[q].key # w
               PROVE  q \in missed \/ proc'[q].key \in workers
    BY <1>3, <1>15 DEF Found
  <2>1. q # p /\ Live(q) /\ proc'[q] = proc[q] BY <1>8, <1>9
  <2> QED BY <1>5, <1>15, <2>1 DEF Watch, Found
<1>20. DeadLeaves'
  <2>1. \A v \in workers : workerStatus'[v] = "dead" => v # w /\ v \in Workers /\ workerStatus[v] = "dead"
    BY <1>6 DEF Types, ServerTypes
  <2> QED BY <1>2, <1>3, <2>1 DEF Watch, DeadLeaves
<1>21. Walk'
  BY <1>2, <1>3, <1>5 DEF Watch, Walk, ListOps
<1>22. StatusOfWorker' BY <1>3, <1>6 DEF StatusOfWorker
<1> QED BY <1>12, <1>13, <1>14, <1>16, <1>17, <1>18, <1>19, <1>20, <1>21, <1>22 DEF Watch

\* The server sees the process join, ...
LEMMA WatchSeeActive ==
  ASSUME Types, Watch, SeeActive
  PROVE  Watch'
<1>1. server \in ServerStates BY DEF Types, ServerTypes
<1>2. /\ server.at = "wait" /\ workerStatus[server.worker] = "active" /\ At("pid")
      /\ UNCHANGED <<workerStatus, workers, handles>> /\ ProcsStay
  BY DEF SeeActive, hashVars, auxVars, ProcsStay
<1>3. /\ server'.op = server.op /\ server'.todo = server.todo /\ server'.worker = server.worker
      /\ server'.at = "pid"
  BY <1>1, <1>2, ServerTo DEF ServerSteps
<1>4. \A p \in Procs : /\ proc'[p] = proc[p] /\ (p \in missed' <=> p \in missed) /\ (Live(p)' <=> Live(p))
                       /\ Launched(p)' <=> Launched(p)
                       /\ Joined(p)' <=> Joined(p)
  BY <1>2, ProcsStayFacts
<1>5. OneEach' /\ HasHash' BY <1>2, <1>4 DEF Watch, OneEach, HasHash
<1>6. LaunchedIsAwaited' BY <1>2, <1>4 DEF Watch, LaunchedIsAwaited
<1>7. JoinedHasHash' BY <1>2, <1>3, <1>4 DEF Watch, JoinedHasHash, ProcsStay
<1>8. Handled' BY <1>2, <1>3, <1>4 DEF Watch, Handled
<1>9. Found' BY <1>2, <1>3, <1>4 DEF Watch, Found
<1>10. DeadLeaves' BY <1>2, <1>3 DEF Watch, DeadLeaves
<1>11. StepOfOp' BY <1>2, <1>3 DEF Watch, StepOfOp
<1>12. Doomed' /\ NoneToStart' /\ StatusOfWorker'
  BY <1>2, <1>3 DEF Doomed, NoneToStart, StatusOfWorker
<1>13. Walk' BY <1>2, <1>3 DEF Watch, Walk, ListOps
<1> QED BY <1>5, <1>6, <1>7, <1>8, <1>9, <1>10, <1>11, <1>12, <1>13 DEF Watch

\* ... and takes the pid that it wrote, or gives up a worker that has no process.
LEMMA WatchStarted ==
  ASSUME Types, Watch, TakePid \/ GiveUp, ~scenario.late
  PROVE  Watch'
<1> DEFINE w == server.worker
<1>1. server \in ServerStates /\ handles \in [Workers -> Procs \cup {NoProc}] /\ workers \subseteq Workers
  BY DEF Types, ServerTypes
<1>2. PICK h : Started(h) /\ (h = pid[w] \/ h = NoProc)
             /\ \A p \in Procs : Live(p) /\ proc[p].key = w => h = p
  <2>1. CASE TakePid
    <3>1. server.at = "pid" /\ Started(pid[w]) BY <2>1 DEF TakePid
    <3>2. \A p \in Procs : Live(p) => Joined(p) BY <3>1 DEF Watch, LaunchedIsAwaited, Joined
    <3>3. \A p \in Procs : Live(p) /\ proc[p].key = w => pid[w] = p
      BY <3>2 DEF Watch, JoinedHasHash
    <3> QED BY <3>1, <3>3
  <2>2. CASE GiveUp
    <3>1. /\ server.at = "wait" /\ workerStatus[w] # "active" /\ Started(NoProc)
          /\ \A p \in Procs : Launched(p) => proc[p].key # w
      BY <2>2 DEF GiveUp, Launched
    <3>2. \A p \in Procs : Live(p) => proc[p].key # w
      BY <3>1 DEF Watch, JoinedHasHash, Joined
    <3> QED BY <3>1, <3>2
  <2> QED BY <2>1, <2>2
<1>3. server.at \in {"wait", "pid"} BY DEF TakePid, GiveUp
<1>4. w \in Workers BY <1>3 DEF Types, Keyed, Busy
<1>5. /\ handles'[w] = h /\ (\A v \in Workers : v # w => handles'[v] = handles[v])
      /\ workers' = workers \cup {w} /\ UNCHANGED workerStatus /\ ProcsStay
  BY <1>1, <1>2, <1>4 DEF Started, hashVars, auxVars, ProcsStay
<1>6. /\ server'.at = "each" /\ server'.worker = w
      /\ server.op = "new" => server'.op = "scan" /\ server'.todo = workers \cup {w}
      /\ server.op # "new" => server'.op = server.op /\ server'.todo = server.todo
  BY <1>1, <1>2 DEF Started, ServerStates
<1>7. server.op \in {"restart", "scan", "new"} BY <1>3 DEF Watch, StepOfOp
<1>8. \A p \in Procs : /\ proc'[p] = proc[p] /\ (p \in missed' <=> p \in missed) /\ (Live(p)' <=> Live(p))
                       /\ Launched(p)' <=> Launched(p)
                       /\ Joined(p)' <=> Joined(p)
                       /\ Live(p) => proc[p].key \in Workers
  BY <1>5, ProcsStayFacts DEF Types, Keyed, Live
<1>9. \A p \in Procs : ~Launched(p)
  BY <1>3 DEF Watch, LaunchedIsAwaited, TakePid, GiveUp, Launched
<1>10. OneEach' /\ HasHash' BY <1>5, <1>8 DEF Watch, OneEach, HasHash
<1>11. LaunchedIsAwaited' BY <1>8, <1>9 DEF LaunchedIsAwaited
<1>12. JoinedHasHash' BY <1>3, <1>5, <1>6, <1>8 DEF Watch, JoinedHasHash, ProcsStay
<1>13. Handled'
  <2> SUFFICES ASSUME NEW p \in Procs, Live(p), proc[p].key \in workers \cup {w}
               PROVE  handles'[proc[p].key] = p
    BY <1>5, <1>8 DEF Handled
  <2>1. CASE proc[p].key = w BY <1>2, <1>5, <2>1
  <2>2. CASE proc[p].key # w BY <1>5, <1>8, <2>2 DEF Watch, Handled
  <2> QED BY <2>1, <2>2
<1>14. Doomed' /\ NoneToStart' /\ StatusOfWorker'
  BY <1>6 DEF Doomed, NoneToStart, StatusOfWorker
<1>15. Found' BY <1>3, <1>5, <1>6, <1>7, <1>8 DEF Watch, Found
<1>16. DeadLeaves'
  <2>1. workerStatus[w] # "dead" BY <1>3 DEF Watch, StatusOfWorker
  <2>2. \A v \in workers : workerStatus[v] # "dead" BY <1>3, <1>7 DEF Watch, DeadLeaves
  <2> QED BY <1>5, <2>1, <2>2 DEF DeadLeaves
<1>17. StepOfOp' BY <1>6, <1>7 DEF StepOfOp
<1>18. Walk' BY <1>3, <1>5, <1>6, <1>7 DEF Watch, Walk, ListOps
<1> QED BY <1>10, <1>11, <1>12, <1>13, <1>14, <1>15, <1>16, <1>17, <1>18 DEF Watch

\* The server comes up and reads who is there.
LEMMA WatchBoot ==
  ASSUME Types, Watch, Boot
  PROVE  Watch'
<1>1. server \in ServerStates BY DEF Types, ServerTypes
<1>2. /\ server.at = "boot" /\ UNCHANGED <<proc, workerStatus, pid, workers, handles>>
      /\ missed' = missed \cup {p \in Procs : Live(p) /\ proc[p].key \notin enlisted}
  BY DEF Boot, hashVars
<1>3. /\ server'.at = "each" /\ server'.op = "join" /\ server'.todo = enlisted
      /\ server'.worker = server.worker
  BY <1>1 DEF Boot, ServerStates
<1>4. \A p \in Procs : /\ proc'[p] = proc[p] /\ (Live(p)' <=> Live(p))
                       /\ Launched(p)' <=> Launched(p)
                       /\ Joined(p)' <=> Joined(p)
  BY <1>2 DEF Live, Launched, Joined
<1>5. workers = {} BY <1>2 DEF Watch, Walk
<1>6. OneEach' /\ HasHash' BY <1>2, <1>4 DEF Watch, OneEach, HasHash
<1>7. LaunchedIsAwaited' BY <1>2, <1>4 DEF Watch, LaunchedIsAwaited
<1>8. JoinedHasHash' BY <1>2, <1>3, <1>4 DEF Watch, JoinedHasHash
<1>9. Handled' /\ DeadLeaves' BY <1>2, <1>5 DEF Handled, DeadLeaves
<1>10. Doomed' /\ NoneToStart' /\ StepOfOp' /\ StatusOfWorker'
  BY <1>3 DEF Doomed, NoneToStart, StepOfOp, StatusOfWorker
<1>11. Found'
  <2>1. \A p \in Procs : Live(p) => p \in missed' \/ proc[p].key \in enlisted BY <1>2
  <2> QED BY <1>3, <1>4, <2>1 DEF Found
<1>12. Walk' BY <1>2, <1>3, <1>5 DEF Walk, ListOps
<1> QED BY <1>6, <1>7, <1>8, <1>9, <1>10, <1>11, <1>12 DEF Watch

\* A worker that was found is taken into the list, or is to be ended.
LEMMA WatchAdopt ==
  ASSUME Types, Watch, Adopt
  PROVE  Watch'
<1> DEFINE w == server.worker
<1>1. server \in ServerStates /\ handles \in [Workers -> Procs \cup {NoProc}] /\ workers \subseteq Workers
  BY DEF Types, ServerTypes
<1>2. /\ server.at = "adopt" /\ UNCHANGED workerStatus /\ ProcsStay
      /\ handles' = [handles EXCEPT ![w] = pid[w]]
      /\ \/ workers' = workers \cup {w} /\ At("each")
         \/ workers' = workers /\ At("kill")
  BY DEF Adopt, hashVars, auxVars, ProcsStay
<1>3. server.op = "join" BY <1>2 DEF Watch, StepOfOp
<1>4. w \in Workers /\ w \notin workers /\ w \notin server.todo /\ server.todo \cap workers = {}
  BY <1>2, <1>3 DEF Types, Keyed, Busy, Watch, Walk
<1>5. /\ handles'[w] = pid[w] /\ (\A v \in Workers : v # w => handles'[v] = handles[v])
  BY <1>1, <1>2, <1>4
<1>6. /\ server'.op = "join" /\ server'.todo = server.todo /\ server'.worker = w
      /\ \/ workers' = workers \cup {w} /\ server'.at = "each"
         \/ workers' = workers /\ server'.at = "kill"
  BY <1>1, <1>2, <1>3, ServerTo DEF ServerSteps
<1>7. \A p \in Procs : /\ proc'[p] = proc[p] /\ (p \in missed' <=> p \in missed) /\ (Live(p)' <=> Live(p))
                       /\ Launched(p)' <=> Launched(p)
                       /\ Joined(p)' <=> Joined(p)
                       /\ Live(p) => proc[p].key \in Workers
  BY <1>2, ProcsStayFacts DEF Types, Keyed, Live
<1>8. \A p \in Procs : ~Launched(p) BY <1>2 DEF Watch, LaunchedIsAwaited
<1>9. \A p \in Procs : Live(p) /\ proc[p].key = w => pid[w] = p
  BY <1>8 DEF Watch, JoinedHasHash, Joined
<1>10. workerStatus' = workerStatus /\ pid' = pid /\ server.at = "adopt" BY <1>2 DEF ProcsStay
<1>11. OneEach' /\ HasHash' BY <1>7, <1>10 DEF Watch, OneEach, HasHash
<1>12. LaunchedIsAwaited' BY <1>7, <1>8 DEF LaunchedIsAwaited
<1>13. JoinedHasHash' BY <1>6, <1>7, <1>10 DEF Watch, JoinedHasHash
<1>14. Handled'
  <2> SUFFICES ASSUME NEW p \in Procs, Live(p), proc[p].key \in workers \cup {w}
               PROVE  handles'[proc[p].key] = p
    BY <1>6, <1>7 DEF Handled
  <2>1. CASE proc[p].key = w BY <1>5, <1>9, <2>1
  <2>2. CASE proc[p].key # w BY <1>5, <1>7, <1>10, <2>2 DEF Watch, Handled
  <2> QED BY <2>1, <2>2
<1>15. Doomed' BY <1>5, <1>6, <1>7, <1>9 DEF Doomed
<1>16. NoneToStart' /\ StepOfOp' /\ StatusOfWorker'
  BY <1>6 DEF NoneToStart, StepOfOp, StatusOfWorker
<1>17. Found'
  <2> SUFFICES ASSUME NEW p \in Procs, Live(p), p \notin missed, proc[p].key # w
               PROVE  proc[p].key \in workers \/ proc[p].key \in server.todo
    BY <1>6, <1>7 DEF Found
  <2> QED BY <1>3, <1>10 DEF Watch, Found
<1>18. DeadLeaves'
  <2> SUFFICES ASSUME NEW v \in workers', workerStatus[v] = "dead" PROVE FALSE
    BY <1>10 DEF DeadLeaves
  <2>1. CASE v \in workers BY <1>3, <1>10, <2>1 DEF Watch, DeadLeaves
  <2>2. CASE v = w BY <1>10, <2>2 DEF Watch, StatusOfWorker
  <2> QED BY <1>6, <2>1, <2>2
<1>19. Walk' BY <1>4, <1>6 DEF Walk, ListOps
<1> QED BY <1>11, <1>12, <1>13, <1>14, <1>15, <1>16, <1>17, <1>18, <1>19 DEF Watch


LEMMA WatchServer ==
  ASSUME Types, Watch, ServerProcess, ~scenario.late
  PROVE  Watch'
BY WatchCommand, WatchVisit, WatchEndLoop, WatchFail, WatchReadStatus, WatchNotes, WatchTerminate,
   WatchStart, WatchSeeActive, WatchStarted, WatchBoot, WatchAdopt DEF ServerProcess

\* After a shutdown the server comes up again.
LEMMA WatchStartServer ==
  ASSUME Types, Watch, StartServer
  PROVE  Watch'
<1>1. server \in ServerStates BY DEF Types, ServerTypes
<1>2. /\ server.at = "down" /\ workers' = {} /\ At("boot")
      /\ UNCHANGED <<proc, missed, pid, workerStatus, handles>>
  BY DEF StartServer, hashVars, auxVars
<1>3. server'.at = "boot" /\ server'.op = "shutdown" /\ server'.worker = server.worker
  BY <1>1, <1>2, ServerTo DEF ServerSteps, Watch, StepOfOp
<1>4. \A p \in Procs : /\ proc'[p] = proc[p] /\ (Live(p)' <=> Live(p))
                       /\ Launched(p)' <=> Launched(p)
                       /\ Joined(p)' <=> Joined(p)
  BY <1>2 DEF Live, Launched, Joined
<1>5. OneEach' /\ HasHash' BY <1>2, <1>4 DEF Watch, OneEach, HasHash
<1>6. LaunchedIsAwaited' BY <1>2, <1>4 DEF Watch, LaunchedIsAwaited
<1>7. JoinedHasHash' BY <1>2, <1>3, <1>4 DEF Watch, JoinedHasHash
<1>8. Handled' /\ Found' /\ DeadLeaves' BY <1>2, <1>3 DEF Handled, Found, DeadLeaves
<1>9. Doomed' /\ NoneToStart' /\ StepOfOp' /\ StatusOfWorker' /\ Walk'
  BY <1>2, <1>3 DEF Doomed, NoneToStart, StepOfOp, StatusOfWorker, Walk, ListOps
<1> QED BY <1>5, <1>6, <1>7, <1>8, <1>9 DEF Watch

\* The scenario is chosen once.
LEMMA ScenarioStays == [Next]_vars => scenario' = scenario
BY DEF Next, Submit, WorkerProcess, ServerProcess, Join, Advertise, Enlist, CheckStatus, PollNothing,
       Pop, RunEnds, ReadTask, MarkTask, Release, ClearCurrentTask, Crash, TakeCommand, NoCommand,
       EndLoop, NoteCrash, ReadCurrentTask, FailTask, NoteKill, Terminate, SeeActive, TakePid, GiveUp,
       Started, Boot, ReadStatus, Adopt, Visit, Start, Die, StartServer, Send, vars, auxVars

LEMMA WatchNext == Types /\ WatchInv /\ [Next]_vars => WatchInv'
<1> SUFFICES ASSUME Types, WatchInv, [Next]_vars PROVE WatchInv' OBVIOUS
<1>1. scenario' = scenario BY ScenarioStays
<1> SUFFICES ASSUME ServerStays PROVE Watch' BY <1>1 DEF WatchInv, ServerStays
<1>2. Watch /\ ~scenario.late /\ scenario.deaths = 0 BY DEF WatchInv, ServerStays
<1>3. CASE ServerProcess BY <1>2, <1>3, WatchServer
<1>4. ASSUME NEW p \in Procs, WorkerProcess(p) \/ Crash(p) PROVE Watch' BY <1>2, <1>4, WatchWorker
<1>5. CASE StartServer BY <1>2, <1>5, WatchStartServer
<1>6. ~Die
  <2>1. deaths \in Nat BY DEF Types, AuxTypes
  <2> QED BY <1>2, <2>1 DEF Die
<1>7. CASE \/ \E t \in Tasks, D \in SUBSET Created, f \in Policies : Submit(t, D, f)
           \/ \E op \in scenario.operations : \E W \in Targets(op) : Send(op, W)
           \/ UNCHANGED vars
  <2>1. UNCHANGED <<proc, workerStatus, pid, server, workers, handles, missed>>
    BY <1>7 DEF Submit, Send, vars, hashVars, serverVars, auxVars
  <2>2. WatchedGoOn BY <2>1 DEF WatchedGoOn, Live, Launched, Joined
  <2> QED BY <1>2, <2>2, WatchGoesOn
<1> QED BY <1>3, <1>4, <1>5, <1>6, <1>7 DEF Next

LEMMA AlwaysWatch == Spec => [](Types /\ WatchInv)
<1>1. Init => Types /\ WatchInv BY TypesInit, WatchInit DEF WatchInv
<1>2. Types /\ WatchInv /\ [Next]_vars => (Types /\ WatchInv)' BY TypesNext, WatchNext
<1> QED BY <1>1, <1>2, PTL DEF Spec

LEMMA WatchImplies == WatchInv => EveryProcessIsWatched
<1> SUFFICES ASSUME WatchInv, ServerStays, NEW p \in Procs, Live(p)
             PROVE  /\ \A q \in Procs : Live(q) /\ proc[p].key = proc[q].key => p = q
                    /\ \/ p \in missed
                       \/ Starting(proc[p].key) \/ Adopting(proc[p].key)
                       \/ proc[p].key \in workers /\ handles[proc[p].key] = p
  BY DEF EveryProcessIsWatched
<1>1. Watch BY DEF WatchInv
<1>2. \A q \in Procs : Live(q) /\ proc[p].key = proc[q].key => p = q BY <1>1 DEF Watch, OneEach
<1>3. CASE proc[p].key \in workers BY <1>1, <1>2, <1>3 DEF Watch, Handled, Starting
<1>4. CASE proc[p].key \notin workers BY <1>1, <1>2, <1>4 DEF Watch, Found, Starting, Adopting
<1> QED BY <1>2, <1>3, <1>4

\* While the server's own process does not die and no process is late, a worker has one
\* process at most, and the server has its pid or is about to read it.
THEOREM ProcessesWatched == Spec => []EveryProcessIsWatched
<1> QED BY AlwaysWatch, WatchImplies, PTL

\* Who leaves 'dead' is being restarted by command.
LEMMA WhoRevives ==
  ASSUME Types, Watch, ~scenario.late, [Next]_vars,
         NEW w \in Workers, workerStatus[w] = "dead", workerStatus'[w] # "dead"
  PROVE  server.op = "restart" /\ server.worker = w /\ w \in workers
<1>1. HashTypes BY DEF Types
<1>2. ASSUME NEW p \in Procs, Join(p) PROVE FALSE
  <2>1. workerStatus' = [workerStatus EXCEPT ![proc[p].key] = "active"] /\ Launched(p)
    BY <1>2 DEF Join, Launched
  <2>2. workerStatus[proc[p].key] = "starting" BY <2>1 DEF Watch, LaunchedIsAwaited
  <2> QED BY <1>1, <2>1, <2>2 DEF HashTypes
<1>3. CASE NoteCrash
  <2>1. server.at = "crashed" /\ workerStatus' = [workerStatus EXCEPT ![server.worker] = "restart"]
    BY <1>3 DEF NoteCrash
  <2>2. server.worker = w /\ w \in workers /\ server.op = "scan"
    BY <1>1, <2>1 DEF HashTypes, Watch, Walk, StepOfOp, ListOps
  <2> QED BY <2>1, <2>2 DEF Watch, DeadLeaves
<1>4. CASE NoteKill BY <1>1, <1>4 DEF NoteKill, HashTypes
<1>5. ASSUME NEW p \in Procs, Start(p) PROVE server.op = "restart" /\ server.worker = w /\ w \in workers
  <2>1. server.at = "start" /\ workerStatus' = [workerStatus EXCEPT ![server.worker] = "starting"]
    BY <1>5 DEF Start
  <2>2. server.worker = w BY <1>1, <2>1 DEF HashTypes
  <2>3. server.op \in {"restart", "scan", "new"} /\ (server.op = "new" => workerStatus[w] = "none")
    BY <2>1, <2>2 DEF Watch, StepOfOp, StatusOfWorker
  <2>4. w \in workers BY <2>1, <2>2, <2>3 DEF Watch, Walk, ListOps
  <2> QED BY <2>1, <2>2, <2>3, <2>4 DEF Watch, DeadLeaves
<1>6. \/ workerStatus' = workerStatus \/ (\E p \in Procs : Join(p) \/ Start(p)) \/ NoteCrash \/ NoteKill
  BY DEF Next, Submit, WorkerProcess, ServerProcess, Advertise, Enlist, CheckStatus, PollNothing,
         Pop, RunEnds, ReadTask, MarkTask, Release, ClearCurrentTask, Crash, TakeCommand, NoCommand,
         EndLoop, ReadCurrentTask, FailTask, Terminate, SeeActive, TakePid, GiveUp,
         Started, Boot, ReadStatus, Adopt, Visit, Die, StartServer, Send, vars, hashVars
<1> QED BY <1>2, <1>3, <1>4, <1>5, <1>6

\* A worker that was killed by command is not started again but by the command 'restart'
\* that has just killed it.
THEOREM KilledIsDead == Spec => KilledStaysDead
<1>1. Types /\ WatchInv /\ [Next]_vars =>
        [\A w \in Workers :
           ServerStays /\ workerStatus[w] = "dead" /\ workerStatus'[w] # "dead" =>
             server.op = "restart" /\ server.worker = w /\ w \in workers]_vars
  BY WhoRevives DEF WatchInv, ServerStays
<1> QED BY <1>1, AlwaysWatch, PTL DEF Spec, KilledStaysDead

-----------------------------------------------------------------------------
(* No ongoing task is lost. *)

LEMMA LivesInit == Init => LivesInv
<1> SUFFICES ASSUME Init PROVE Uncommanded /\ HashNamesTask /\ Accounted BY DEF LivesInv
<1>1. \A p \in Procs : ~Live(p) BY DEF Init, Live
<1>2. \A i \in 1..Len(cmds) : cmds[i].op = "new"
  <2> DEFINE c == [op |-> "new", workers |-> {}]
             n == Cardinality(Workers)
  <2>1. n \in Nat BY WorkersAssumption, FS_CardinalityType
  <2>2. c.op = "new" OBVIOUS
  <2>3. cmds = [i \in 1..n |-> c] BY DEF Init
  <2> HIDE DEF c, n
  <2>4. Len(cmds) = n BY <2>1, <2>3
  <2> QED BY <2>2, <2>3, <2>4
<1>3. Uncommanded BY <1>1, <1>2 DEF Init, Uncommanded
<1>4. HashNamesTask BY <1>1 DEF Init, HashNamesTask
<1>5. Accounted BY DEF Init, TaskInit, Accounted
<1> QED BY <1>3, <1>4, <1>5

\* What becomes ongoing was popped, and nobody else writes who runs it.
OngoingStays ==
  \A t \in Tasks : status'[t] = "ongoing" => status[t] = "ongoing" /\ runner'[t] = runner[t]

LEMMA OngoingByBlocks ==
  ASSUME TaskTypeOK
  PROVE  /\ \A t \in Tasks, D \in SUBSET Created, f \in Policies : AddTask(t, D, f) => OngoingStays
         /\ \A t \in Tasks : \A from, to : to # "ongoing" /\ Relist(t, from, to) => OngoingStays
         /\ \A d \in Tasks : UpdateDependentTasks(d) => OngoingStays
         /\ UNCHANGED taskVars => OngoingStays
<1>1. ASSUME NEW t \in Tasks, NEW D \in SUBSET Created, NEW f \in Policies, AddTask(t, D, f)
      PROVE  OngoingStays
  BY <1>1 DEF AddTask, OngoingStays, TaskTypeOK
<1>2. ASSUME NEW t \in Tasks, NEW from, NEW to, to # "ongoing", Relist(t, from, to)
      PROVE  OngoingStays
  BY <1>2 DEF Relist, OngoingStays, TaskTypeOK
<1>3. ASSUME NEW d \in Tasks, UpdateDependentTasks(d) PROVE OngoingStays
  BY <1>3 DEF UpdateDependentTasks, OngoingStays
<1> QED BY <1>1, <1>2, <1>3 DEF OngoingStays, taskVars

\* The server's care for a worker.
CareStays == \A w : InCare(w) => InCare(w)'

\* When the server moves on, and the processes and hashes stay as they are.
LEMMA AccountedMoves ==
  ASSUME Accounted, OngoingStays, CareStays, UNCHANGED <<proc, currentTask>>
  PROVE  Accounted'
<1> SUFFICES ASSUME NEW t \in Tasks, status'[t] = "ongoing"
             PROVE  \/ \E p \in Procs : PerformedBy(p, t)'
                    \/ currentTask'[runner'[t]] = t /\ InCare(runner[t])'
  BY DEF Accounted, OngoingStays
<1>1. status[t] = "ongoing" /\ runner'[t] = runner[t] BY DEF OngoingStays
<1>2. CASE \E p \in Procs : PerformedBy(p, t) BY <1>1, <1>2 DEF PerformedBy, Performs
<1>3. CASE currentTask[runner[t]] = t /\ InCare(runner[t]) BY <1>1, <1>3 DEF CareStays
<1> QED BY <1>1, <1>2, <1>3 DEF Accounted

\* A process goes on with the task that it performs.
LEMMA AccountedGoesOn ==
  ASSUME Accounted, OngoingStays, CareStays, UNCHANGED currentTask, NEW p \in Procs,
         \A q \in Procs : q # p => proc'[q] = proc[q],
         proc'[p].key = proc[p].key,
         \A t \in Tasks : Performs(p, t) /\ status'[t] = "ongoing" => Performs(p, t)'
  PROVE  Accounted'
<1> SUFFICES ASSUME NEW t \in Tasks, status'[t] = "ongoing"
             PROVE  \/ \E q \in Procs : PerformedBy(q, t)'
                    \/ currentTask'[runner'[t]] = t /\ InCare(runner[t])'
  BY DEF Accounted, OngoingStays
<1>1. status[t] = "ongoing" /\ runner'[t] = runner[t] BY DEF OngoingStays
<1>2. ASSUME NEW q \in Procs, PerformedBy(q, t) PROVE PerformedBy(q, t)'
  BY <1>1, <1>2 DEF PerformedBy, Performs
<1>3. CASE currentTask[runner[t]] = t /\ InCare(runner[t]) BY <1>1, <1>3 DEF CareStays
<1> QED BY <1>1, <1>2, <1>3 DEF Accounted

\* Who has a process is in the server's care.
LEMMA LiveInCare ==
  ASSUME Watch, Uncommanded, NEW p \in Procs, Live(p)
  PROVE  InCare(proc[p].key) /\ server.at # "boot"
<1>1. server.at # "boot" BY DEF Uncommanded
<1>2. \/ proc[p].key \in workers
      \/ server.at \in {"wait", "pid"} /\ server.worker = proc[p].key
  BY <1>1 DEF Watch, Found, Uncommanded
<1> QED BY <1>1, <1>2 DEF InCare, Starting

\* Who runs an ongoing task is a worker.
LEMMA RunnerIsWorker ==
  ASSUME Types, Accounted, NEW t \in Tasks, status[t] = "ongoing"
  PROVE  runner[t] \in Workers
<1>1. \A p \in Procs : Performs(p, t) => proc[p].key \in Workers BY DEF Performs, Types, Keyed
<1>2. \A w : InCare(w) => w \in Workers
  BY DEF InCare, Starting, Types, ServerTypes, Keyed, Busy
<1> QED BY <1>1, <1>2 DEF Accounted, PerformedBy

\* Steps of a process that change nothing but the process itself.
LEMMA LivesProcMoves ==
  ASSUME Types, Watch, Uncommanded, HashNamesTask, Accounted, OngoingStays, NEW p \in Procs,
         Live(p), \A q \in Procs : q # p => proc'[q] = proc[q], proc'[p].key = proc[p].key,
         UNCHANGED <<currentTask, workerStatus, cmds, server, workers, missed>>,
         proc'[p].step # "unused",
         Live(p)' => TaskOf(proc[p])' = TaskOf(proc[p]),
         \A t \in Tasks : Performs(p, t) /\ status'[t] = "ongoing" => Performs(p, t)'
  PROVE  (Uncommanded /\ HashNamesTask /\ Accounted)'
<1>1. server.at # "boot" BY LiveInCare
<1>2. Uncommanded' BY <1>1 DEF Uncommanded
<1>3. \A q \in Procs : Live(q)' => Live(q) /\ TaskOf(proc[q])' = TaskOf(proc[q]) /\ proc'[q].key = proc[q].key
  BY DEF Live, TaskOf
<1>4. HashNamesTask' BY <1>3 DEF HashNamesTask
<1>5. CareStays BY DEF CareStays, InCare, Starting
<1> QED BY <1>2, <1>4, <1>5, AccountedGoesOn

Lives == Uncommanded /\ HashNamesTask /\ Accounted

\* The process writes current_task, of which the other workers see nothing.
LEMMA LivesHashWritten ==
  ASSUME Types, Watch, Uncommanded, HashNamesTask, NEW p \in Procs, Live(p),
         NEW c, currentTask' = [currentTask EXCEPT ![proc[p].key] = c],
         \A q \in Procs : q # p => proc'[q] = proc[q], proc'[p].key = proc[p].key,
         UNCHANGED <<cmds, server, workers, missed>>,
         \A w \in Workers : workerStatus'[w] = "none" => workerStatus[w] = "none" /\ w # proc[p].key,
         server.worker = proc[p].key => server.at \notin {"start", "fail"},
         TaskOf(proc[p])' = c
  PROVE  (Uncommanded /\ HashNamesTask)'
<1>1. server.at # "boot" BY LiveInCare
<1>2. Uncommanded' BY <1>1 DEF Uncommanded
<1>3. proc[p].key \in Workers /\ currentTask \in [Workers -> Tasks \cup {None}]
  BY DEF Types, Keyed, Live, HashTypes
<1>4. currentTask'[proc[p].key] = c
      /\ \A w \in Workers : w # proc[p].key => currentTask'[w] = currentTask[w]
  BY <1>3
<1>5. \A q \in Procs : q # p /\ Live(q) => proc[q].key # proc[p].key /\ proc[q].key \in Workers
  BY DEF Watch, OneEach, Types, Keyed, Live
<1>6. \A q \in Procs : q # p => (Live(q)' <=> Live(q)) /\ TaskOf(proc[q])' = TaskOf(proc[q])
  BY DEF Live, TaskOf
<1>7. \A q \in Procs : Live(q)' => currentTask'[proc'[q].key] = TaskOf(proc[q])'
  <2> SUFFICES ASSUME NEW q \in Procs, Live(q)' PROVE currentTask'[proc'[q].key] = TaskOf(proc[q])'
    OBVIOUS
  <2>1. CASE q = p BY <1>4, <2>1
  <2>2. CASE q # p BY <1>4, <1>5, <1>6, <2>2 DEF HashNamesTask
  <2> QED BY <2>1, <2>2
<1>8. server.at \in {"start", "fail"} => server.worker \in Workers BY DEF Types, Keyed, Busy
<1>9. /\ server'.at = "start" => currentTask'[server'.worker] = None
      /\ server'.at = "fail" => currentTask'[server'.worker] = server'.task
  BY <1>4, <1>8 DEF HashNamesTask
<1>10. \A w \in Workers : workerStatus'[w] = "none" => currentTask'[w] = None
  BY <1>4 DEF HashNamesTask
<1> QED BY <1>2, <1>7, <1>9, <1>10 DEF HashNamesTask

\* Where the server is about to start a process or to fail a task there is no process.
LEMMA NobodyThere ==
  ASSUME Watch, Uncommanded, NEW p \in Procs, Live(p), server.worker = proc[p].key
  PROVE  server.at \notin {"start", "fail"}
<1>1. server.at = "fail" => server.op = "scan"
  BY DEF Watch, StepOfOp, Uncommanded, ListOps
<1> QED BY <1>1 DEF Watch, NoneToStart

\* After a write to the hash of its worker the other tasks are accounted for as before.
LEMMA AccountedHashWritten ==
  ASSUME Types, Accounted, NEW p \in Procs, Live(p),
         NEW c, currentTask' = [currentTask EXCEPT ![proc[p].key] = c],
         \A q \in Procs : q # p => proc'[q] = proc[q], proc'[p].key = proc[p].key,
         UNCHANGED <<server, workers>>,
         NEW t \in Tasks, status[t] = "ongoing", runner'[t] = runner[t],
         ~PerformedBy(p, t), currentTask[proc[p].key] # t
  PROVE  \/ \E q \in Procs : PerformedBy(q, t)'
         \/ currentTask'[runner'[t]] = t /\ InCare(runner[t])'
<1>1. runner[t] \in Workers BY RunnerIsWorker
<1>2. currentTask \in [Workers -> Tasks \cup {None}] BY DEF Types, HashTypes
<1>3. ASSUME NEW q \in Procs, PerformedBy(q, t) PROVE PerformedBy(q, t)'
  BY <1>3 DEF PerformedBy, Performs
<1>4. CASE currentTask[runner[t]] = t /\ InCare(runner[t])
  <2>1. runner[t] # proc[p].key BY <1>4
  <2>2. currentTask'[runner[t]] = t BY <1>1, <1>2, <1>4, <2>1
  <2> QED BY <1>4, <2>2 DEF InCare, Starting
<1> QED BY <1>3, <1>4 DEF Accounted

LEMMA LivesJoin ==
  ASSUME Types, Watch, Lives, NEW p \in Procs, Join(p)
  PROVE  Lives'
<1> USE DEF Lives
<1>1. proc \in [Procs -> ProcStates] /\ TaskTypeOK /\ HashTypes BY DEF Types
<1>2. /\ proc[p].step = "launched" /\ UNCHANGED <<taskVars, cmds, server, workers, missed>>
      /\ currentTask' = [currentTask EXCEPT ![proc[p].key] = None] /\ ProcGoto(p, "advertise")
      /\ workerStatus' = [workerStatus EXCEPT ![proc[p].key] = "active"]
  BY DEF Join, serverVars, auxVars
<1>3. Live(p) /\ proc[p].step \notin Working /\ proc[p].key \in Workers
  BY <1>2 DEF Live, Types, Keyed, Working
<1>4. /\ proc'[p].step = "advertise" /\ proc'[p].key = proc[p].key
      /\ \A q \in Procs : q # p => proc'[q] = proc[q]
  BY <1>1, <1>2, ProcTo DEF ProcSteps
<1>5. TaskOf(proc[p])' = None BY <1>4 DEF TaskOf, Working
<1>6. currentTask[proc[p].key] = None BY <1>3 DEF HashNamesTask, TaskOf
<1>7. \A w \in Workers : workerStatus'[w] = "none" => workerStatus[w] = "none" /\ w # proc[p].key
  BY <1>1, <1>2 DEF HashTypes
<1>8. server.worker = proc[p].key => server.at \notin {"start", "fail"} BY <1>3, NobodyThere
<1>9. (Uncommanded /\ HashNamesTask)'
  BY <1>2, <1>3, <1>4, <1>5, <1>7, <1>8, LivesHashWritten
<1>10. Accounted'
  <2> SUFFICES ASSUME NEW t \in Tasks, status'[t] = "ongoing"
               PROVE  \/ \E q \in Procs : PerformedBy(q, t)'
                      \/ currentTask'[runner'[t]] = t /\ InCare(runner[t])'
    BY DEF Accounted
  <2>1. status[t] = "ongoing" /\ runner'[t] = runner[t] BY <1>2 DEF taskVars
  <2>2. ~PerformedBy(p, t) BY <1>2 DEF PerformedBy, Performs
  <2>3. currentTask[proc[p].key] # t BY <1>6, TasksFacts DEF None, Tasks
  <2>4. UNCHANGED <<server, workers>> BY <1>2
  <2>5. currentTask' = [currentTask EXCEPT ![proc[p].key] = None] BY <1>2
  <2> QED BY <1>3, <1>4, <2>1, <2>2, <2>3, <2>4, <2>5, AccountedHashWritten
<1> QED BY <1>9, <1>10

LEMMA LivesPop ==
  ASSUME Types, RunsInv, Watch, Lives, NEW p \in Procs, NEW t \in Tasks, Pop(p, t)
  PROVE  Lives'
<1> USE DEF Lives
<1>1. proc \in [Procs -> ProcStates] /\ TaskTypeOK BY DEF Types
<1>2. /\ proc[p].step = "poll" /\ UNCHANGED <<workerStatus, cmds, server, workers, missed>>
      /\ currentTask' = [currentTask EXCEPT ![proc[p].key] = t] /\ PopPending(proc[p].key, t)
  BY DEF Pop, serverVars, auxVars
<1>3. Live(p) /\ proc[p].step \notin Working /\ proc[p].key \in Workers
  BY <1>2 DEF Live, Types, Keyed, Working
<1>4. /\ proc'[p].step = "run" /\ proc'[p].key = proc[p].key /\ proc'[p].task = t
      /\ \A q \in Procs : q # p => proc'[q] = proc[q]
  BY <1>1 DEF Pop, ProcStates
<1>5. TaskOf(proc[p])' = t BY <1>4 DEF TaskOf, Working
<1>6. currentTask[proc[p].key] = None BY <1>3 DEF HashNamesTask, TaskOf
<1>7. \A w \in Workers : workerStatus'[w] = "none" => workerStatus[w] = "none" /\ w # proc[p].key
  BY <1>2, <1>3 DEF Watch, HasHash
<1>8. server.worker = proc[p].key => server.at \notin {"start", "fail"} BY <1>3, NobodyThere
<1>9. (Uncommanded /\ HashNamesTask)'
  BY <1>2, <1>3, <1>4, <1>5, <1>7, <1>8, LivesHashWritten
<1>10. /\ status'[t] = "ongoing" /\ runner'[t] = proc[p].key
       /\ \A u \in Tasks : u # t => status'[u] = status[u] /\ runner'[u] = runner[u]
  BY <1>1, <1>2, <1>3 DEF PopPending, TaskTypeOK
<1>11. Accounted'
  <2> SUFFICES ASSUME NEW u \in Tasks, status'[u] = "ongoing"
               PROVE  \/ \E q \in Procs : PerformedBy(q, u)'
                      \/ currentTask'[runner'[u]] = u /\ InCare(runner[u])'
    BY DEF Accounted
  <2>1. CASE u = t
    <3>1. PerformedBy(p, u)' BY <1>4, <1>10, <2>1 DEF PerformedBy, Performs
    <3> QED BY <3>1
  <2>2. CASE u # t
    <3>1. status[u] = "ongoing" /\ runner'[u] = runner[u] BY <1>10, <2>2
    <3>2. ~PerformedBy(p, u) BY <1>2 DEF PerformedBy, Performs
    <3>3. currentTask[proc[p].key] # u BY <1>6, TasksFacts DEF None, Tasks
    <3>4. UNCHANGED <<server, workers>> BY <1>2
    <3>5. currentTask' = [currentTask EXCEPT ![proc[p].key] = t] BY <1>2
    <3> QED BY <1>3, <1>4, <3>1, <3>2, <3>3, <3>4, <3>5, AccountedHashWritten
  <2> QED BY <2>1, <2>2
<1> QED BY <1>9, <1>11

LEMMA LivesClear ==
  ASSUME Types, RunsInv, Watch, Lives, NEW p \in Procs, ClearCurrentTask(p)
  PROVE  Lives'
<1> USE DEF Lives
<1>1. proc \in [Procs -> ProcStates] /\ TaskTypeOK BY DEF Types
<1>2. /\ proc[p].step = "clear" /\ UNCHANGED <<taskVars, workerStatus, cmds, server, workers, missed>>
      /\ currentTask' = [currentTask EXCEPT ![proc[p].key] = None] /\ ProcGoto(p, "check")
  BY DEF ClearCurrentTask, serverVars, auxVars
<1>3. Live(p) /\ proc[p].step \in Working /\ proc[p].key \in Workers
  BY <1>2 DEF Live, Types, Keyed, Working
<1>4. /\ proc'[p].step = "check" /\ proc'[p].key = proc[p].key
      /\ \A q \in Procs : q # p => proc'[q] = proc[q]
  BY <1>1, <1>2, ProcTo DEF ProcSteps
<1>5. TaskOf(proc[p])' = None BY <1>4 DEF TaskOf, Working
<1>6. currentTask[proc[p].key] = proc[p].task BY <1>3 DEF HashNamesTask, TaskOf
<1>7. \A w \in Workers : workerStatus'[w] = "none" => workerStatus[w] = "none" /\ w # proc[p].key
  BY <1>2, <1>3 DEF Watch, HasHash
<1>8. server.worker = proc[p].key => server.at \notin {"start", "fail"} BY <1>3, NobodyThere
<1>9. (Uncommanded /\ HashNamesTask)'
  BY <1>2, <1>3, <1>4, <1>5, <1>7, <1>8, LivesHashWritten
<1>10. status[proc[p].task] # "ongoing"
  BY <1>2 DEF RunsInv, NamedHasStarted, WorkOn, Settled
<1>11. Accounted'
  <2> SUFFICES ASSUME NEW t \in Tasks, status'[t] = "ongoing"
               PROVE  \/ \E q \in Procs : PerformedBy(q, t)'
                      \/ currentTask'[runner'[t]] = t /\ InCare(runner[t])'
    BY DEF Accounted
  <2>1. status[t] = "ongoing" /\ runner'[t] = runner[t] BY <1>2 DEF taskVars
  <2>2. ~PerformedBy(p, t) BY <1>2 DEF PerformedBy, Performs
  <2>3. currentTask[proc[p].key] # t BY <1>6, <1>10, <2>1
  <2>4. UNCHANGED <<server, workers>> BY <1>2
  <2>5. currentTask' = [currentTask EXCEPT ![proc[p].key] = None] BY <1>2
  <2> QED BY <1>3, <1>4, <2>1, <2>2, <2>3, <2>4, <2>5, AccountedHashWritten
<1> QED BY <1>9, <1>11

LEMMA LivesWorker ==
  ASSUME Types, RunsInv, Watch, Lives, NEW p \in Procs, WorkerProcess(p)
  PROVE  Lives'
<1> USE DEF Lives
<1>1. proc \in [Procs -> ProcStates] /\ TaskTypeOK BY DEF Types
<1>2. proc[p].task \in Tasks /\ proc[p].request \in {"finished", "failed"}
  BY <1>1 DEF ProcStates
<1>3. CASE Advertise(p) \/ Enlist(p) \/ CheckStatus(p) \/ PollNothing(p)
  <2>1. /\ UNCHANGED taskVars /\ UNCHANGED <<currentTask, workerStatus, cmds, server, workers, missed>>
        /\ proc[p].step \in {"advertise", "enlist", "check", "poll"}
    BY <1>3 DEF Advertise, Enlist, CheckStatus, PollNothing, hashVars, serverVars, auxVars
  <2>2. PICK to \in {"enlist", "check", "poll", "stopped"} : ProcGoto(p, to)
    BY <1>3 DEF Advertise, Enlist, CheckStatus, PollNothing
  <2>3. /\ proc'[p].step = to /\ proc'[p].key = proc[p].key
        /\ \A q \in Procs : q # p => proc'[q] = proc[q]
    BY <1>1, <2>2, ProcTo DEF ProcSteps
  <2>4. Live(p) /\ TaskOf(proc[p])' = TaskOf(proc[p]) BY <2>1, <2>3 DEF Live, TaskOf, Working
  <2>5. \A t \in Tasks : ~Performs(p, t) BY <2>1 DEF Performs
  <2>6. OngoingStays BY <1>1, <2>1, OngoingByBlocks
  <2> QED BY <2>1, <2>3, <2>4, <2>5, <2>6, LivesProcMoves
<1>4. ASSUME NEW outcome \in {"finished", "failed"}, RunEnds(p, outcome) PROVE Lives'
  <2>1. /\ UNCHANGED taskVars /\ UNCHANGED <<currentTask, workerStatus, cmds, server, workers, missed>>
        /\ proc[p].step = "run"
    BY <1>4 DEF RunEnds, hashVars, serverVars, auxVars
  <2>2. /\ proc'[p].step = "read" /\ proc'[p].key = proc[p].key /\ proc'[p].task = proc[p].task
        /\ \A q \in Procs : q # p => proc'[q] = proc[q]
    BY <1>1, <1>4 DEF RunEnds, ProcStates
  <2>3. Live(p) /\ TaskOf(proc[p])' = TaskOf(proc[p]) BY <2>1, <2>2 DEF Live, TaskOf, Working
  <2>4. \A t \in Tasks : Performs(p, t) => Performs(p, t)' BY <2>2 DEF Performs
  <2>5. OngoingStays BY <1>1, <2>1, OngoingByBlocks
  <2> QED BY <2>1, <2>2, <2>3, <2>4, <2>5, LivesProcMoves
<1>5. CASE ReadTask(p)
  <2>1. /\ UNCHANGED taskVars /\ UNCHANGED <<currentTask, workerStatus, cmds, server, workers, missed>>
        /\ proc[p].step = "read"
    BY <1>5 DEF ReadTask, hashVars, serverVars, auxVars
  <2>2. /\ proc'[p].step \in {"exec", "clear"} /\ proc'[p].key = proc[p].key
        /\ proc'[p].task = proc[p].task
        /\ proc'[p].step = "clear" => status[proc[p].task] = "finished"
        /\ \A q \in Procs : q # p => proc'[q] = proc[q]
    BY <1>1, <1>5 DEF ReadTask, ProcStates
  <2>3. Live(p) /\ TaskOf(proc[p])' = TaskOf(proc[p]) BY <2>1, <2>2 DEF Live, TaskOf, Working
  <2>4. \A t \in Tasks : Performs(p, t) /\ status'[t] = "ongoing" => Performs(p, t)'
    BY <2>1, <2>2 DEF Performs, taskVars
  <2>5. OngoingStays BY <1>1, <2>1, OngoingByBlocks
  <2>6. proc'[p].step # "unused" BY <2>2
  <2> QED BY <2>1, <2>2, <2>3, <2>4, <2>5, <2>6, LivesProcMoves
<1>6. CASE MarkTask(p)
  <2>1. /\ UNCHANGED <<currentTask, workerStatus, cmds, server, workers, missed>>
        /\ proc[p].step = "exec" /\ Relist(proc[p].task, proc[p].seen, proc[p].request)
    BY <1>6 DEF MarkTask, hashVars, serverVars, auxVars
  <2>2. PICK to \in {"release", "clear"} : ProcGoto(p, to) BY <1>6 DEF MarkTask
  <2>3. /\ proc'[p].step = to /\ proc'[p].key = proc[p].key /\ proc'[p].task = proc[p].task
        /\ \A q \in Procs : q # p => proc'[q] = proc[q]
    BY <1>1, <2>2, ProcTo DEF ProcSteps
  <2>4. Live(p) /\ TaskOf(proc[p])' = TaskOf(proc[p]) BY <2>1, <2>3 DEF Live, TaskOf, Working
  <2>5. status'[proc[p].task] # "ongoing" BY <1>1, <1>2, <2>1 DEF Relist, TaskTypeOK
  <2>6. \A t \in Tasks : ~(Performs(p, t) /\ status'[t] = "ongoing") BY <2>5 DEF Performs
  <2>7. OngoingStays BY <1>1, <1>2, <2>1, OngoingByBlocks
  <2>8. proc'[p].step # "unused" BY <2>3
  <2> QED BY <2>1, <2>3, <2>4, <2>6, <2>7, <2>8, LivesProcMoves
<1>7. CASE Release(p)
  <2>1. /\ UNCHANGED <<currentTask, workerStatus, cmds, server, workers, missed>>
        /\ proc[p].step = "release" /\ UpdateDependentTasks(proc[p].task) /\ ProcGoto(p, "clear")
    BY <1>7 DEF Release, hashVars, serverVars, auxVars
  <2>2. /\ proc'[p].step = "clear" /\ proc'[p].key = proc[p].key /\ proc'[p].task = proc[p].task
        /\ \A q \in Procs : q # p => proc'[q] = proc[q]
    BY <1>1, <2>1, ProcTo DEF ProcSteps
  <2>3. Live(p) /\ TaskOf(proc[p])' = TaskOf(proc[p]) BY <2>1, <2>2 DEF Live, TaskOf, Working
  <2>4. \A t \in Tasks : ~Performs(p, t) BY <2>1 DEF Performs
  <2>5. OngoingStays BY <1>1, <1>2, <2>1, OngoingByBlocks
  <2> QED BY <2>1, <2>2, <2>3, <2>4, <2>5, LivesProcMoves
<1> QED BY <1>3, <1>4, <1>5, <1>6, <1>7, LivesJoin, LivesPop, LivesClear DEF WorkerProcess

\* A process dies: the hash of its worker names the task that it performed.
LEMMA LivesCrash ==
  ASSUME Types, Watch, Lives, NEW p \in Procs, Crash(p)
  PROVE  Lives'
<1> USE DEF Lives
<1>1. proc \in [Procs -> ProcStates] /\ TaskTypeOK BY DEF Types
<1>2. /\ UNCHANGED taskVars /\ UNCHANGED <<currentTask, workerStatus, cmds, server, workers, enlisted, missed>>
      /\ Live(p) /\ ProcGoto(p, "gone")
  BY DEF Crash, hashVars, serverVars
<1>3. /\ proc'[p].step = "gone" /\ proc'[p].key = proc[p].key
      /\ \A q \in Procs : q # p => proc'[q] = proc[q]
  BY <1>1, <1>2, ProcTo DEF ProcSteps
<1>4. \A q \in Procs : Live(q)' => Live(q) /\ proc'[q] = proc[q]
  BY <1>3 DEF Live
<1>5. Uncommanded' BY <1>2, <1>4 DEF Uncommanded
<1>6. HashNamesTask' BY <1>2, <1>4 DEF HashNamesTask, TaskOf
<1>7. Accounted'
  <2> SUFFICES ASSUME NEW t \in Tasks, status[t] = "ongoing"
               PROVE  \/ \E q \in Procs : PerformedBy(q, t)'
                      \/ currentTask[runner[t]] = t /\ InCare(runner[t])
    BY <1>2 DEF Accounted, InCare, Starting, taskVars
  <2>1. CASE PerformedBy(p, t)
    <3>1. currentTask[proc[p].key] = t
      BY <1>2, <2>1 DEF PerformedBy, Performs, HashNamesTask, TaskOf, Working
    <3>2. InCare(proc[p].key) BY <1>2, LiveInCare
    <3> QED BY <2>1, <3>1, <3>2 DEF PerformedBy
  <2>2. ASSUME NEW q \in Procs, q # p, PerformedBy(q, t) PROVE PerformedBy(q, t)'
    BY <1>2, <1>3, <2>2 DEF PerformedBy, Performs, taskVars
  <2> QED BY <2>1, <2>2 DEF Accounted
<1> QED BY <1>5, <1>6, <1>7

\* The server moves on and neither the processes nor the hashes change.
LEMMA LivesMoves ==
  ASSUME Types, Lives, OngoingStays, UNCHANGED <<proc, currentTask>>, CareStays, Uncommanded',
         \A w \in Workers : workerStatus'[w] = "none" => workerStatus[w] = "none",
         server'.at = "start" => currentTask[server'.worker] = None,
         server'.at = "fail" => currentTask[server'.worker] = server'.task
  PROVE  Lives'
<1> USE DEF Lives
<1>1. HashNamesTask' BY DEF HashNamesTask, Live, TaskOf
<1> QED BY <1>1, AccountedMoves

\* A new worker's hash names no task; the other commands are not sent.
LEMMA LivesCommand ==
  ASSUME Types, Watch, Lives, TakeCommand \/ NoCommand
  PROVE  Lives'
<1> USE DEF Lives
<1>1. server \in ServerStates /\ TaskTypeOK /\ cmds \in Seq(Commands) BY DEF Types, ServerTypes
<1>2. server.at = "loop" /\ UNCHANGED <<taskVars, proc, currentTask, workerStatus, enlisted, missed>>
  BY DEF TakeCommand, Named, NoCommand, hashVars, auxVars
<1>3. OngoingStays BY <1>1, <1>2, OngoingByBlocks
<1>4. CASE NoCommand
  <2>1. server' = Scan /\ workers' = workers /\ cmds' = cmds BY <1>4 DEF NoCommand
  <2>2. server'.at = "each" /\ server'.op = "scan" BY <1>1, <2>1 DEF Scan, ServerStates
  <2>3. Uncommanded' BY <1>2, <2>1, <2>2 DEF Uncommanded
  <2>4. CareStays BY <1>2, <2>1 DEF CareStays, InCare, Starting
  <2> QED BY <1>2, <1>3, <2>2, <2>3, <2>4, LivesMoves
<1>5. CASE TakeCommand
  <2>1. cmds # <<>> /\ cmds' = Tail(cmds) BY <1>5 DEF TakeCommand, Named
  <2>2. /\ Len(cmds) \in Nat \ {0} /\ Len(cmds') = Len(cmds) - 1 /\ Head(cmds) = cmds[1]
        /\ \A i \in 1..Len(cmds') : cmds'[i] = cmds[i + 1]
    BY <1>1, <2>1
  <2>3. \A i \in 1..Len(cmds') : i + 1 \in 1..Len(cmds) BY <2>2
  <2>4. (\A i \in 1..Len(cmds') : cmds'[i].op = "new") /\ Head(cmds).op = "new"
    BY <2>2, <2>3 DEF Uncommanded
  <2>5. PICK w \in Workers : /\ workerStatus[w] = "none" /\ workers' = workers
                             /\ server' = [server EXCEPT !.at = "start", !.op = "new", !.worker = w]
    BY <1>5, <2>4 DEF TakeCommand, Named
  <2>6. server'.at = "start" /\ server'.op = "new" /\ server'.worker = w
    BY <1>1, <2>5 DEF ServerStates
  <2>7. Uncommanded' BY <1>2, <2>4, <2>6 DEF Uncommanded
  <2>8. CareStays BY <1>2, <2>5 DEF CareStays, InCare, Starting
  <2>9. currentTask[w] = None BY <2>5 DEF HashNamesTask
  <2> QED BY <1>2, <1>3, <2>6, <2>7, <2>8, <2>9, LivesMoves
<1> QED BY <1>4, <1>5

\* The steps of the scan that write nothing.
LEMMA LivesScan ==
  ASSUME Types, Watch, Lives, (\E w \in Workers : Visit(w)) \/ EndLoop \/ NoteCrash \/ ReadCurrentTask
  PROVE  Lives'
<1> USE DEF Lives
<1>1. server \in ServerStates /\ TaskTypeOK /\ HashTypes BY DEF Types, ServerTypes
<1>2. /\ server.at \in {"each", "crashed", "current"}
      /\ UNCHANGED <<taskVars, proc, currentTask, enlisted, cmds, workers, missed>>
  BY DEF Visit, EndLoop, NoteCrash, ReadCurrentTask, hashVars, auxVars
<1>3. OngoingStays BY <1>1, <1>2, OngoingByBlocks
<1>4. CareStays BY <1>2 DEF CareStays, InCare, Starting
<1>5. ASSUME NEW w \in Workers, Visit(w) PROVE Lives'
  <2>1. server.at = "each" /\ w \in server.todo /\ workerStatus' = workerStatus
    BY <1>5 DEF Visit, hashVars
  <2>2. server.op = "scan" BY <2>1 DEF Uncommanded, Watch, StepOfOp
  <2>3. server'.op = "scan" /\ server'.at \in {"each", "crashed"}
    BY <1>1, <1>5, <2>2 DEF Visit, ServerStates
  <2>4. Uncommanded' BY <1>2, <2>3 DEF Uncommanded
  <2>5. server'.at # "start" /\ server'.at # "fail" BY <2>3
  <2> QED BY <1>2, <1>3, <1>4, <2>1, <2>4, <2>5, LivesMoves
<1>6. CASE EndLoop
  <2>1. At("loop") /\ workerStatus' = workerStatus
    BY <1>6 DEF EndLoop, Uncommanded, hashVars
  <2>2. server'.at = "loop" /\ server'.op = server.op /\ server'.todo = server.todo
    BY <1>1, <2>1, ServerTo DEF ServerSteps
  <2>3. Uncommanded' BY <1>2, <2>2 DEF Uncommanded
  <2> QED BY <1>2, <1>3, <1>4, <2>1, <2>2, <2>3, LivesMoves
<1>7. CASE NoteCrash
  <2>1. /\ server.at = "crashed" /\ At("current")
        /\ workerStatus' = [workerStatus EXCEPT ![server.worker] = "restart"]
    BY <1>7 DEF NoteCrash
  <2>2. server'.at = "current" /\ server'.op = server.op /\ server'.todo = server.todo
    BY <1>1, <2>1, ServerTo DEF ServerSteps
  <2>3. \A w \in Workers : workerStatus'[w] = "none" => workerStatus[w] = "none"
    BY <1>1, <2>1 DEF HashTypes
  <2>4. Uncommanded' BY <1>2, <2>1, <2>2 DEF Uncommanded
  <2> QED BY <1>2, <1>3, <1>4, <2>2, <2>3, <2>4, LivesMoves
<1>8. CASE ReadCurrentTask
  <2>1. server.at = "current" /\ workerStatus' = workerStatus BY <1>8 DEF ReadCurrentTask, hashVars
  <2>2. server.op = "scan" BY <2>1 DEF Watch, StepOfOp, ListOps, Uncommanded
  <2>3. server.worker \in Workers BY <2>1 DEF Types, Keyed, Busy
  <2>4. currentTask[server.worker] \in Tasks \cup {None} BY <1>1, <2>3 DEF HashTypes
  <2>5. /\ server'.op = "scan" /\ server'.worker = server.worker
        /\ \/ server'.at = "start" /\ currentTask[server.worker] = None
           \/ server'.at = "fail" /\ server'.task = currentTask[server.worker]
    BY <1>1, <1>8, <2>2 DEF ReadCurrentTask, At, ServerStates
  <2>6. Uncommanded' BY <1>2, <2>5 DEF Uncommanded
  <2> QED BY <1>2, <1>3, <1>4, <2>1, <2>5, <2>6, LivesMoves
<1> QED BY <1>5, <1>6, <1>7, <1>8

\* The task that the hash names is failed, and the hash names it no more.
LEMMA LivesFail ==
  ASSUME Types, Watch, Lives, FailTask
  PROVE  Lives'
<1> USE DEF Lives
<1>1. server \in ServerStates /\ TaskTypeOK /\ HashTypes BY DEF Types, ServerTypes
<1>2. /\ server.at = "fail" /\ UNCHANGED <<proc, workerStatus, enlisted, cmds, workers, missed>>
      /\ Relist(server.task, "ongoing", "failed")
      /\ currentTask' = [currentTask EXCEPT ![server.worker] = None]
      /\ At(IF server.op = "scan" THEN "start" ELSE "kill")
  BY DEF FailTask, auxVars
<1>3. server.op = "scan" BY <1>2 DEF Watch, StepOfOp, ListOps, Uncommanded
<1>4. server'.at = "start" /\ server'.op = "scan" /\ server'.worker = server.worker
  BY <1>1, <1>2, <1>3, ServerTo DEF ServerSteps
<1>5. server.worker \in Workers /\ server.task \in Tasks BY <1>1, <1>2 DEF Types, Keyed, Busy, ServerStates
<1>6. /\ currentTask'[server.worker] = None /\ currentTask[server.worker] = server.task
      /\ \A w \in Workers : w # server.worker => currentTask'[w] = currentTask[w]
  BY <1>1, <1>2, <1>5 DEF HashTypes, HashNamesTask
<1>7. status'[server.task] # "ongoing" BY <1>1, <1>2, <1>5 DEF Relist, TaskTypeOK
<1>8. OngoingStays BY <1>1, <1>2, <1>5, OngoingByBlocks
<1>9. Uncommanded' BY <1>2, <1>4 DEF Uncommanded
<1>10. \A p \in Procs : Live(p) => proc[p].key # server.worker /\ proc[p].key \in Workers
  BY <1>2, <1>3 DEF Watch, NoneToStart, Types, Keyed, Live
<1>11. HashNamesTask' BY <1>2, <1>4, <1>6, <1>10 DEF HashNamesTask, Live, TaskOf
<1>12. Accounted'
  <2> SUFFICES ASSUME NEW t \in Tasks, status'[t] = "ongoing"
               PROVE  \/ \E q \in Procs : PerformedBy(q, t)'
                      \/ currentTask'[runner'[t]] = t /\ InCare(runner[t])'
    BY DEF Accounted
  <2>1. status[t] = "ongoing" /\ runner'[t] = runner[t] /\ t # server.task
    BY <1>7, <1>8 DEF OngoingStays
  <2>2. runner[t] \in Workers BY <2>1, RunnerIsWorker
  <2>3. ASSUME NEW q \in Procs, PerformedBy(q, t) PROVE PerformedBy(q, t)'
    BY <1>2, <2>1, <2>3 DEF PerformedBy, Performs
  <2>4. CASE currentTask[runner[t]] = t /\ InCare(runner[t])
    <3>1. runner[t] # server.worker BY <1>6, <2>1, <2>4
    <3> QED BY <1>2, <1>4, <1>6, <2>1, <2>2, <2>4, <3>1 DEF InCare, Starting
  <2> QED BY <2>1, <2>3, <2>4 DEF Accounted
<1> QED BY <1>9, <1>11, <1>12

\* The new process works on nothing, and neither does the hash say so.
LEMMA LivesStart ==
  ASSUME Types, Watch, Lives, NEW p \in Procs, Start(p)
  PROVE  Lives'
<1> USE DEF Lives
<1>1. server \in ServerStates /\ TaskTypeOK /\ HashTypes /\ proc \in [Procs -> ProcStates]
  BY DEF Types, ServerTypes
<1>2. /\ server.at = "start" /\ UNCHANGED <<taskVars, currentTask, enlisted, cmds, workers, missed>>
      /\ At("wait")
      /\ workerStatus' = [workerStatus EXCEPT ![server.worker] = "starting"]
      /\ proc' = [proc EXCEPT ![p].step = "launched", ![p].key = server.worker]
  BY DEF Start, auxVars
<1>3. server'.at = "wait" /\ server'.op = server.op /\ server'.todo = server.todo
      /\ server'.worker = server.worker
  BY <1>1, <1>2, ServerTo DEF ServerSteps
<1>4. proc[p].step = "unused"
  <2> DEFINE unused == {q \in Procs : proc[q].step = "unused"}
  <2>1. unused # {} /\ p = CHOOSE q \in unused : TRUE BY DEF Start, Fresh
  <2>2. (CHOOSE q \in unused : TRUE) \in unused BY <2>1
  <2> QED BY <2>1, <2>2
<1>5. /\ proc'[p].key = server.worker /\ proc'[p].step = "launched"
      /\ \A q \in Procs : q # p => proc'[q] = proc[q]
  BY <1>1, <1>2 DEF ProcStates
<1>6. Uncommanded' BY <1>2, <1>3 DEF Uncommanded
<1>7. currentTask[server.worker] = None /\ TaskOf(proc[p])' = None
  BY <1>2, <1>5 DEF HashNamesTask, TaskOf, Working
<1>8. \A q \in Procs : q # p => (Live(q)' <=> Live(q)) /\ TaskOf(proc[q])' = TaskOf(proc[q])
  BY <1>5 DEF Live, TaskOf
<1>9. \A w \in Workers : workerStatus'[w] = "none" => workerStatus[w] = "none"
  BY <1>1, <1>2 DEF HashTypes
<1>10. \A q \in Procs : Live(q)' => currentTask'[proc'[q].key] = TaskOf(proc[q])'
  <2> SUFFICES ASSUME NEW q \in Procs, Live(q)' PROVE currentTask'[proc'[q].key] = TaskOf(proc[q])'
    OBVIOUS
  <2>1. CASE q = p BY <1>2, <1>5, <1>7, <2>1
  <2>2. CASE q # p BY <1>2, <1>5, <1>8, <2>2 DEF HashNamesTask
  <2> QED BY <2>1, <2>2
<1>11. HashNamesTask' BY <1>2, <1>3, <1>9, <1>10 DEF HashNamesTask
<1>12. Accounted'
  <2> SUFFICES ASSUME NEW t \in Tasks, status[t] = "ongoing"
               PROVE  \/ \E q \in Procs : PerformedBy(q, t)'
                      \/ currentTask[runner[t]] = t /\ InCare(runner[t])'
    BY <1>2 DEF Accounted, taskVars
  <2>1. ASSUME NEW q \in Procs, PerformedBy(q, t) PROVE PerformedBy(q, t)'
    <3>1. q # p BY <1>4, <2>1 DEF PerformedBy, Performs
    <3> QED BY <1>2, <1>5, <2>1, <3>1 DEF PerformedBy, Performs, taskVars
  <2>2. CASE currentTask[runner[t]] = t /\ InCare(runner[t])
    BY <1>2, <1>3, <2>2 DEF InCare, Starting, taskVars
  <2> QED BY <2>1, <2>2 DEF Accounted
<1> QED BY <1>6, <1>11, <1>12

\* The server has started the worker; it stays in its care.
LEMMA LivesStarted ==
  ASSUME Types, Watch, Lives, SeeActive \/ TakePid \/ GiveUp
  PROVE  Lives'
<1> USE DEF Lives
<1>1. server \in ServerStates /\ TaskTypeOK BY DEF Types, ServerTypes
<1>2. /\ server.at \in {"wait", "pid"}
      /\ UNCHANGED <<taskVars, proc, currentTask, workerStatus, enlisted, cmds, missed>>
  BY DEF SeeActive, TakePid, GiveUp, Started, hashVars, auxVars
<1>3. OngoingStays BY <1>1, <1>2, OngoingByBlocks
<1>4. server.op \in {"new", "scan"} BY <1>2 DEF Uncommanded
<1>5. CASE SeeActive
  <2>1. server'.at = "pid" /\ server'.op = server.op /\ server'.worker = server.worker /\ workers' = workers
    BY <1>1, <1>5, ServerTo DEF SeeActive, ServerSteps
  <2>2. Uncommanded' BY <1>2, <1>4, <2>1 DEF Uncommanded
  <2>3. CareStays BY <1>2, <2>1 DEF CareStays, InCare, Starting
  <2> QED BY <1>2, <1>3, <2>1, <2>2, <2>3, LivesMoves
<1>6. CASE TakePid \/ GiveUp
  <2>1. PICK h : Started(h) BY <1>6 DEF TakePid, GiveUp
  <2>2. server'.at = "each" /\ server'.op = "scan" /\ workers' = workers \cup {server.worker}
    BY <1>1, <1>4, <2>1 DEF Started, ServerStates
  <2>3. Uncommanded' BY <1>2, <2>2 DEF Uncommanded
  <2>4. CareStays BY <2>2 DEF CareStays, InCare, Starting
  <2> QED BY <1>2, <1>3, <2>2, <2>3, <2>4, LivesMoves
<1> QED BY <1>5, <1>6

\* The server comes up once, when there is nothing.
LEMMA LivesBoot ==
  ASSUME Types, Watch, Lives, Boot
  PROVE  Lives'
<1> USE DEF Lives
<1>1. server \in ServerStates /\ TaskTypeOK BY DEF Types, ServerTypes
<1>2. /\ server.at = "boot"
      /\ UNCHANGED <<taskVars, proc, currentTask, workerStatus, enlisted, cmds, workers>>
      /\ missed' = missed \cup {p \in Procs : Live(p) /\ proc[p].key \notin enlisted}
  BY DEF Boot, hashVars
<1>3. server'.at = "each" /\ server'.op = "join" /\ server'.todo = enlisted
  BY <1>1 DEF Boot, ServerStates
<1>4. OngoingStays BY <1>1, <1>2, OngoingByBlocks
<1>5. Uncommanded' BY <1>2, <1>3 DEF Uncommanded
<1>6. CareStays BY <1>2 DEF CareStays, InCare, Starting
<1> QED BY <1>2, <1>3, <1>4, <1>5, <1>6, LivesMoves

LEMMA LivesNext == Types /\ RunsInv /\ WatchInv /\ LivesInv /\ [Next]_vars => LivesInv'
<1> SUFFICES ASSUME Types, RunsInv, WatchInv, LivesInv, [Next]_vars PROVE LivesInv' OBVIOUS
<1>1. scenario' = scenario BY ScenarioStays
<1> SUFFICES ASSUME ServerLives PROVE Lives' BY <1>1 DEF LivesInv, Lives, ServerLives, ServerStays
<1>2. Watch /\ Lives /\ scenario.operations = {} /\ scenario.deaths = 0
  BY DEF WatchInv, LivesInv, Lives, ServerLives, ServerStays
<1>3. CASE ServerProcess
  <2>1. ~NoteKill /\ ~Terminate /\ ~ReadStatus /\ ~Adopt
    BY <1>2 DEF Lives, Uncommanded, NoteKill, Terminate, ReadStatus, Adopt
  <2> QED BY <1>2, <1>3, <2>1, LivesCommand, LivesScan, LivesFail, LivesStart, LivesStarted, LivesBoot
       DEF ServerProcess
<1>4. ASSUME NEW p \in Procs, WorkerProcess(p) PROVE Lives' BY <1>2, <1>4, LivesWorker
<1>5. ASSUME NEW p \in Procs, Crash(p) PROVE Lives' BY <1>2, <1>5, LivesCrash
<1>6. ~StartServer BY <1>2 DEF StartServer, Lives, Uncommanded
<1>7. ~Die
  <2>1. deaths \in Nat BY DEF Types, AuxTypes
  <2> QED BY <1>2, <2>1 DEF Die
<1>8. CASE (\E t \in Tasks, D \in SUBSET Created, f \in Policies : Submit(t, D, f)) \/ UNCHANGED vars
  <2>1. UNCHANGED <<proc, currentTask, workerStatus, enlisted, cmds, server, workers, missed>>
    BY <1>8 DEF Submit, vars, hashVars, serverVars, auxVars
  <2>2. OngoingStays BY <1>8, OngoingByBlocks DEF Submit, vars, Types
  <2>3. Uncommanded' BY <1>2, <2>1 DEF Lives, Uncommanded, Live
  <2>4. CareStays BY <2>1 DEF CareStays, InCare, Starting
  <2>5. server'.at = "start" => currentTask[server'.worker] = None
    BY <1>2, <2>1 DEF Lives, HashNamesTask
  <2>6. server'.at = "fail" => currentTask[server'.worker] = server'.task
    BY <1>2, <2>1 DEF Lives, HashNamesTask
  <2> QED BY <1>2, <2>1, <2>2, <2>3, <2>4, <2>5, <2>6, LivesMoves
<1> QED BY <1>2, <1>3, <1>4, <1>5, <1>6, <1>7, <1>8 DEF Next

LEMMA AccountedImplies == LivesInv => OngoingIsAccounted
BY DEF LivesInv, Accounted, OngoingIsAccounted, PerformedBy, InCare

\* When nobody commands the server and it lives, no task is lost with its process: one
\* that is ongoing is performed, or the hash of a worker names it that the server will visit.
THEOREM OngoingTasksAccounted == Spec => []OngoingIsAccounted
<1>1. Init => Types /\ RunsInv /\ WatchInv /\ LivesInv
  BY TypesInit, RunsInit, WatchInit, LivesInit DEF WatchInv
<1>2. Types /\ RunsInv /\ WatchInv /\ LivesInv /\ [Next]_vars
        => (Types /\ RunsInv /\ WatchInv /\ LivesInv)'
  BY TypesNext, RunsNext, WatchNext, LivesNext
<1> QED BY <1>1, <1>2, AccountedImplies, PTL DEF Spec
=============================================================================
