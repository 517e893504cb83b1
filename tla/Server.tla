------------------------------- MODULE Server -------------------------------
(***************************************************************************)
(* One host: server.py, the Matlab processes it starts, and the hashes of  *)
(* its workers.  A worker is a key; the server starts processes that join  *)
(* as that worker, kills them, and starts others in their place when they  *)
(* died.  The processes perform tasks as in Cluster, but may die at any    *)
(* step.  Every access to Redis is one step.                               *)
(***************************************************************************)
EXTENDS TaskStore

CONSTANTS Procs,        \* Matlab processes that can be started (a bound)
          NoProc,       \* 2000000, the pid of a worker that did not start
          Scenarios     \* what may happen, and how often

ASSUME NoProcAssumption == NoProc \notin Procs
ASSUME WorkersAssumption == IsFiniteSet(Workers)
ASSUME ScenariosAssumption ==
  \A s \in Scenarios :
    /\ s.operations \subseteq {"restart", "kill", "shutdown", "restart_server"}
    /\ {s.tasks, s.starts, s.commands, s.crashes, s.deaths} \subseteq Nat
    /\ s.late \in BOOLEAN

VARIABLES
  proc,          \* step and local variables of each Matlab process
  workerStatus,  \* HGET worker status ("none": no such hash)
  currentTask,   \* HGET worker current_task (0: 'None')
  pid,           \* HGET worker pid
  available,     \* the set available_workers
  enlisted,      \* the set server:workers
  cmds,          \* the list server:cmd, left end first
  server,        \* step and local variables of server.py
  workers,       \* its list of workers, walked in any order
  handles,       \* the pid of each of its MrcWorker objects
  scenario,      \* bounds: tasks; processes started; commands sent after the first
                 \* ones, of some operations; deaths of processes and of the server;
                 \* whether a start may take longer than its timeout
  asked, crashes, deaths,  \* counters of what is bounded
  \* History, read by no action:
  missed         \* processes that had not joined when the server came up

hashVars == <<workerStatus, currentTask, pid, available, enlisted>>
serverVars == <<server, workers, handles>>
auxVars == <<scenario, asked, crashes, deaths, missed>>
vars == <<taskVars, proc, hashVars, cmds, serverVars, auxVars>>

None == 0

ProcSteps == {"unused", "launched", "advertise", "enlist", "check", "poll", "run",
              "read", "exec", "release", "clear", "stopped", "gone"}
ServerSteps == {"boot", "loop", "each", "crashed", "current", "fail", "kill", "sigterm",
                "start", "wait", "pid", "status", "adopt", "down"}
ServerOps == {"restart", "kill", "shutdown", "new", "scan", "join"}
CommandOps == {"restart", "kill", "shutdown", "new", "restart_server"}

\* Processes, hashes and server hold what their code writes.
TypeOK ==
  /\ TaskTypeOK
  /\ proc \in [Procs -> [step : ProcSteps, key : Workers \cup {NoWorker}, task : Tasks,
                         request : {"finished", "failed"}, seen : Statuses]]
  /\ workerStatus \in [Workers -> {"none", "starting", "active", "restart", "dead"}]
  /\ currentTask \in [Workers -> Tasks \cup {None}]
  /\ pid \in [Workers -> Procs \cup {NoProc}]
  /\ available \subseteq Workers
  /\ enlisted \subseteq Workers
  /\ cmds \in Seq([op : CommandOps, workers : SUBSET Workers])
  /\ server \in [at : ServerSteps, op : ServerOps, todo : SUBSET Workers,
                 worker : Workers \cup {NoWorker}, task : Tasks, active : BOOLEAN]
  /\ workers \subseteq Workers
  /\ handles \in [Workers -> Procs \cup {NoProc}]
  /\ missed \subseteq Procs
  /\ scenario \in Scenarios
  /\ {asked, crashes, deaths} \subseteq Nat
  /\ asked <= scenario.commands /\ crashes <= scenario.crashes /\ deaths <= scenario.deaths

\* The server starts on an empty database, in which it finds one command
\* 'new' for each worker it may ever have.
Init ==
  /\ TaskInit
  /\ scenario \in Scenarios
  /\ proc = [p \in Procs |-> [step |-> "unused", key |-> NoWorker, task |-> 1,
                              request |-> "finished", seen |-> "none"]]
  /\ workerStatus = [w \in Workers |-> "none"]
  /\ currentTask = [w \in Workers |-> None]
  /\ pid = [w \in Workers |-> NoProc]
  /\ available = {}
  /\ enlisted = {}
  /\ cmds = [i \in 1..Cardinality(Workers) |-> [op |-> "new", workers |-> {}]]
  /\ server = [at |-> "boot", op |-> "join", todo |-> {},
               worker |-> NoWorker, task |-> 1, active |-> FALSE]
  /\ workers = {}
  /\ handles = [w \in Workers |-> NoProc]
  /\ missed = {}
  /\ asked = 0 /\ crashes = 0 /\ deaths = 0

Live(p) == proc[p].step \notin {"unused", "gone"}

\* Every pid that the server was told is taken for alive.
IsAlive_Known(w) == handles[w] # NoProc

\* check_pid; the pid of a failed start belongs to no process.
IsAlive(w) == handles[w] # NoProc /\ Live(handles[w])

-----------------------------------------------------------------------------
(* Submitters. *)

Submit(t, D, p) ==
  /\ t <= scenario.tasks
  /\ AddTask(t, D, p)
  /\ UNCHANGED <<proc, hashVars, cmds, serverVars, auxVars>>

-----------------------------------------------------------------------------
(* A Matlab process: join_as_worker.m. *)

ProcGoto(p, step) == proc' = [proc EXCEPT ![p].step = step]

\* The process writes its worker's hash, whatever another process wrote there,
Join(p) ==
  LET w == proc[p].key IN
  /\ proc[p].step = "launched"
  /\ workerStatus' = [workerStatus EXCEPT ![w] = "active"]
  /\ currentTask' = [currentTask EXCEPT ![w] = None]
  /\ pid' = [pid EXCEPT ![w] = p]
  /\ ProcGoto(p, "advertise")
  /\ UNCHANGED <<taskVars, available, enlisted, cmds, serverVars, auxVars>>

\* then joins available_workers,
Advertise(p) ==
  /\ proc[p].step = "advertise"
  /\ available' = available \cup {proc[p].key}
  /\ ProcGoto(p, "enlist")
  /\ UNCHANGED <<taskVars, workerStatus, currentTask, pid, enlisted, cmds, serverVars, auxVars>>

\* and the workers of its server.
Enlist(p) ==
  /\ proc[p].step = "enlist"
  /\ enlisted' = enlisted \cup {proc[p].key}
  /\ ProcGoto(p, "check")
  /\ UNCHANGED <<taskVars, workerStatus, currentTask, pid, available, cmds, serverVars, auxVars>>

\* A worker that is not active leaves its loop; Matlab stays.
CheckStatus(p) ==
  /\ proc[p].step = "check"
  /\ ProcGoto(p, IF workerStatus[proc[p].key] = "active" THEN "poll" ELSE "stopped")
  /\ UNCHANGED <<taskVars, hashVars, cmds, serverVars, auxVars>>

PollNothing(p) ==
  /\ proc[p].step = "poll" /\ lists["pending"] = <<>>
  /\ ProcGoto(p, "check")
  /\ UNCHANGED <<taskVars, hashVars, cmds, serverVars, auxVars>>

Pop(p, t) ==
  /\ proc[p].step = "poll"
  /\ PopPending(proc[p].key, t)
  /\ currentTask' = [currentTask EXCEPT ![proc[p].key] = t]
  /\ proc' = [proc EXCEPT ![p].step = "run", ![p].task = t]
  /\ UNCHANGED <<workerStatus, pid, available, enlisted, cmds, serverVars, auxVars>>

RunEnds(p, outcome) ==
  /\ proc[p].step = "run"
  /\ proc' = [proc EXCEPT ![p].step = "read", ![p].request = outcome]
  /\ UNCHANGED <<taskVars, hashVars, cmds, serverVars, auxVars>>

\* set_task_status reads the task; it has started, so the only early return is
\* that of a task that is finished already.
ReadTask(p) ==
  LET t == proc[p].task IN
  /\ proc[p].step = "read"
  /\ proc' = [proc EXCEPT ![p].seen = status[t],
                          ![p].step = IF proc[p].request = "finished" /\ status[t] = "finished"
                                      THEN "clear" ELSE "exec"]
  /\ UNCHANGED <<taskVars, hashVars, cmds, serverVars, auxVars>>

\* Its MULTI block for 'finished' or 'failed',
MarkTask(p) ==
  LET t == proc[p].task
      r == proc[p].request IN
  /\ proc[p].step = "exec"
  /\ Relist(t, proc[p].seen, r)
  /\ ProcGoto(p, IF r = "finished" \/ failPolicy[t] = "continue" THEN "release" ELSE "clear")
  /\ UNCHANGED <<hashVars, cmds, serverVars, auxVars>>

\* and update_dependent_tasks.
Release(p) ==
  /\ proc[p].step = "release"
  /\ UpdateDependentTasks(proc[p].task)
  /\ ProcGoto(p, "clear")
  /\ UNCHANGED <<hashVars, cmds, serverVars, auxVars>>

ClearCurrentTask(p) ==
  /\ proc[p].step = "clear"
  /\ currentTask' = [currentTask EXCEPT ![proc[p].key] = None]
  /\ ProcGoto(p, "check")
  /\ UNCHANGED <<taskVars, workerStatus, pid, available, enlisted, cmds, serverVars, auxVars>>

\* Matlab crashes or is closed.
Crash(p) ==
  /\ Live(p)
  /\ crashes < scenario.crashes /\ crashes' = crashes + 1
  /\ ProcGoto(p, "gone")
  /\ UNCHANGED <<taskVars, hashVars, cmds, serverVars, scenario, asked, deaths, missed>>

-----------------------------------------------------------------------------
(* server.py: the event loop. *)

At(step) == server' = [server EXCEPT !.at = step]

\* The liveness scan that follows every command.
Scan == [server EXCEPT !.at = "each", !.op = "scan", !.todo = workers]

\* Whoever is named is commanded, in the list of workers or not.
Named_Unlisted(c) == c.workers

\* A worker that a command names and that is not in the list of workers is
\* passed over.
Named(c) == c.workers \cap workers

\* blpop returns a command; 'new' draws a key that was never used.
TakeCommand ==
  /\ server.at = "loop" /\ cmds # <<>>
  /\ cmds' = Tail(cmds)
  /\ LET c == Head(cmds) IN
     \/ /\ c.op \in {"restart", "kill", "shutdown"}
        /\ server' = [server EXCEPT !.at = "each", !.op = c.op, !.todo = Named(c)]
        /\ UNCHANGED workers
     \/ /\ c.op = "new"
        /\ \E w \in Workers :
             /\ workerStatus[w] = "none"
             /\ server' = [server EXCEPT !.at = "start", !.op = "new", !.worker = w]
        /\ UNCHANGED workers
     \/ /\ c.op = "restart_server"
        /\ At("boot")
        /\ workers' = {}
  /\ UNCHANGED <<taskVars, proc, hashVars, handles, auxVars>>

\* blpop times out.
NoCommand ==
  /\ server.at = "loop" /\ cmds = <<>>
  /\ server' = Scan
  /\ UNCHANGED <<taskVars, proc, hashVars, cmds, workers, handles, auxVars>>

\* The next worker of a loop; the scan passes over those that are alive.
Visit(w) ==
  /\ server.at = "each" /\ w \in server.todo
  /\ server' = [server EXCEPT !.todo = @ \ {w}, !.worker = w,
                  !.at = IF server.op = "join" THEN "status"
                         ELSE IF server.op # "scan" THEN "current"
                         ELSE IF IsAlive(w) THEN "each" ELSE "crashed"]
  /\ UNCHANGED <<taskVars, proc, hashVars, cmds, workers, handles, auxVars>>

\* The end of a loop.
EndLoop ==
  /\ server.at = "each" /\ server.todo = {}
  /\ \/ server.op \in {"scan", "join"} /\ At("loop")
     \/ server.op \in {"restart", "kill"} /\ server' = Scan
     \/ server.op = "shutdown" /\ At("down")
  /\ UNCHANGED <<taskVars, proc, hashVars, cmds, workers, handles, auxVars>>

\* The scan found the process of the worker dead.
NoteCrash ==
  /\ server.at = "crashed"
  /\ workerStatus' = [workerStatus EXCEPT ![server.worker] = "restart"]
  /\ At("current")
  /\ UNCHANGED <<taskVars, proc, currentTask, pid, available, enlisted, cmds,
                 workers, handles, auxVars>>

\* The crash is noted, but the task of the dead worker is not looked at.
ReadCurrentTask_Skip ==
  /\ server.at = "current"
  /\ At(IF server.op = "scan" THEN "start" ELSE "kill")
  /\ UNCHANGED <<taskVars, proc, hashVars, cmds, workers, handles, auxVars>>

\* fail_current_task reads current_task,
ReadCurrentTask ==
  LET t == currentTask[server.worker] IN
  /\ server.at = "current"
  /\ IF t = None
     THEN At(IF server.op = "scan" THEN "start" ELSE "kill")
     ELSE server' = [server EXCEPT !.at = "fail", !.task = t]
  /\ UNCHANGED <<taskVars, proc, hashVars, cmds, workers, handles, auxVars>>

\* and fails that task by a pipeline, whatever became of it.
FailTask ==
  /\ server.at = "fail"
  /\ Relist(server.task, "ongoing", "failed")
  /\ currentTask' = [currentTask EXCEPT ![server.worker] = None]
  /\ At(IF server.op = "scan" THEN "start" ELSE "kill")
  /\ UNCHANGED <<proc, workerStatus, pid, available, enlisted, cmds, workers, handles, auxVars>>

\* kill() writes the status,
NoteKill ==
  /\ server.at = "kill"
  /\ workerStatus' = [workerStatus EXCEPT ![server.worker] = "dead"]
  /\ At("sigterm")
  /\ UNCHANGED <<taskVars, proc, currentTask, pid, available, enlisted, cmds,
                 workers, handles, auxVars>>

\* The killed workers stay in the list.
Terminate_Keep ==
  LET p == handles[server.worker] IN
  /\ server.at = "sigterm"
  /\ IF IsAlive(server.worker) THEN ProcGoto(p, "gone") ELSE UNCHANGED proc
  /\ workers' = workers
  /\ At(IF server.op = "restart" THEN "start" ELSE "each")
  /\ UNCHANGED <<taskVars, hashVars, cmds, handles, auxVars>>

\* and ends the process it knows, if there is one.  'kill' keeps the others
\* in the list of workers, 'restart' starts a new process.
Terminate ==
  LET p == handles[server.worker] IN
  /\ server.at = "sigterm"
  /\ IF IsAlive(server.worker) THEN ProcGoto(p, "gone") ELSE UNCHANGED proc
  /\ workers' = IF server.op = "kill" THEN workers \ {server.worker} ELSE workers
  /\ At(IF server.op = "restart" THEN "start" ELSE "each")
  /\ UNCHANGED <<taskVars, hashVars, cmds, handles, auxVars>>

\* Another process, if the bound allows one.
Fresh(p) ==
  LET unused == {q \in Procs : proc[q].step = "unused"} IN
  /\ Cardinality(Procs \ unused) < scenario.starts
  /\ unused # {} /\ p = CHOOSE q \in unused : TRUE

\* start() writes 'starting' and has start_matlab_worker open a process,
Start(p) ==
  /\ server.at = "start"
  /\ Fresh(p)
  /\ workerStatus' = [workerStatus EXCEPT ![server.worker] = "starting"]
  /\ proc' = [proc EXCEPT ![p].step = "launched", ![p].key = server.worker]
  /\ At("wait")
  /\ UNCHANGED <<taskVars, currentTask, pid, available, enlisted, cmds, workers, handles, auxVars>>

\* The status is not waited for: the pid is that of the process before.
SeeActive_Soon ==
  /\ server.at = "wait"
  /\ At("pid")
  /\ UNCHANGED <<taskVars, proc, hashVars, cmds, workers, handles, auxVars>>

\* which waits until the worker is active
SeeActive ==
  /\ server.at = "wait" /\ workerStatus[server.worker] = "active"
  /\ At("pid")
  /\ UNCHANGED <<taskVars, proc, hashVars, cmds, workers, handles, auxVars>>

\* The new worker is in the list from here on, and every start ends here.
Started(p) ==
  /\ handles' = [handles EXCEPT ![server.worker] = p]
  /\ workers' = workers \cup {server.worker}
  /\ server' = IF server.op = "new"
               THEN [server EXCEPT !.at = "each", !.op = "scan",
                                   !.todo = workers \cup {server.worker}]
               ELSE [server EXCEPT !.at = "each"]
  /\ UNCHANGED <<taskVars, proc, hashVars, cmds, auxVars>>

\* and reads its pid,
TakePid == server.at = "pid" /\ Started(pid[server.worker])

\* or gives up: the process died before it could join, or it is late.
GiveUp ==
  /\ server.at = "wait" /\ workerStatus[server.worker] # "active"
  /\ scenario.late \/ \A p \in Procs : proc[p].step = "launched" => proc[p].key # server.worker
  /\ Started(NoProc)

-----------------------------------------------------------------------------
(* server.py: start and end of the server. *)

\* server_join reads the workers of this host,
Boot ==
  /\ server.at = "boot"
  /\ server' = [server EXCEPT !.at = "each", !.op = "join", !.todo = enlisted]
  /\ missed' = missed \cup {p \in Procs : Live(p) /\ proc[p].key \notin enlisted}
  /\ UNCHANGED <<taskVars, proc, hashVars, cmds, workers, handles, scenario, asked, crashes, deaths>>

\* for each of them its status, to pass over the dead ones,
ReadStatus ==
  LET s == workerStatus[server.worker] IN
  /\ server.at = "status"
  /\ server' = [server EXCEPT !.at = IF s = "dead" THEN "each" ELSE "adopt",
                              !.active = (s = "active")]
  /\ UNCHANGED <<taskVars, proc, hashVars, cmds, workers, handles, auxVars>>

\* and its pid; the active ones are adopted, the others killed.
Adopt ==
  /\ server.at = "adopt"
  /\ handles' = [handles EXCEPT ![server.worker] = pid[server.worker]]
  /\ IF server.active
     THEN workers' = workers \cup {server.worker} /\ At("each")
     ELSE workers' = workers /\ At("kill")
  /\ UNCHANGED <<taskVars, proc, hashVars, cmds, auxVars>>

\* The server's process dies,
Die ==
  /\ server.at # "down"
  /\ deaths < scenario.deaths /\ deaths' = deaths + 1
  /\ At("down")
  /\ UNCHANGED <<taskVars, proc, hashVars, cmds, workers, handles, scenario, asked, crashes,
                 missed>>

\* and somebody runs start_server.bat again.
StartServer ==
  /\ server.at = "down"
  /\ At("boot")
  /\ workers' = {}
  /\ UNCHANGED <<taskVars, proc, hashVars, cmds, handles, auxVars>>

-----------------------------------------------------------------------------
\* A command of the GUI, for the selected workers or for the server; it is
\* pushed at the end from which blpop takes it.
Send(op, W) ==
  /\ asked < scenario.commands /\ asked' = asked + 1
  /\ cmds' = LPush(cmds, [op |-> op, workers |-> W])
  /\ UNCHANGED <<taskVars, proc, hashVars, serverVars, scenario, crashes, deaths, missed>>

Targets(op) == IF op \in {"restart", "kill"} THEN {{w} : w \in available} \cup {Workers}
               ELSE {Workers}

WorkerProcess(p) ==
  \/ Join(p) \/ Advertise(p) \/ Enlist(p) \/ CheckStatus(p) \/ PollNothing(p)
  \/ \E t \in Tasks : Pop(p, t)
  \/ \E outcome \in {"finished", "failed"} : RunEnds(p, outcome)
  \/ ReadTask(p) \/ MarkTask(p) \/ Release(p) \/ ClearCurrentTask(p)

ServerProcess ==
  \/ TakeCommand \/ NoCommand \/ EndLoop \/ NoteCrash \/ ReadCurrentTask \/ FailTask
  \/ NoteKill \/ Terminate \/ SeeActive \/ TakePid \/ GiveUp \/ Boot \/ ReadStatus \/ Adopt
  \/ \E w \in Workers : Visit(w)
  \/ \E p \in Procs : Start(p)

Next ==
  \/ \E t \in Tasks, D \in SUBSET Created, f \in Policies : Submit(t, D, f)
  \/ \E p \in Procs : WorkerProcess(p) \/ Crash(p)
  \/ ServerProcess \/ Die \/ StartServer
  \/ \E op \in scenario.operations : \E W \in Targets(op) : Send(op, W)

Spec == Init /\ [][Next]_vars

\* The server's loop and every Matlab process go on.
Fairness == WF_vars(ServerProcess) /\ \A p \in Procs : WF_vars(WorkerProcess(p))

FairSpec == Spec /\ Fairness

-----------------------------------------------------------------------------
(* Properties. *)

\* Process p performs t: it popped t and has not yet moved it on.
Performs(p, t) == proc[p].step \in {"run", "read", "exec"} /\ proc[p].task = t

\* A task is performed by one process at most, even while two processes run as
\* the same worker because the server gave up waiting for the first.
OneProcessPerTask ==
  \A t \in Tasks, p, q \in Procs : Performs(p, t) /\ Performs(q, t) => p = q

\* The server is to start a process for w or waits for it to join.
Starting(w) == server.worker = w /\ server.at \in {"start", "wait", "pid"}

\* The server that came up has still to look at worker w.
Adopting(w) ==
  \/ server.at = "boot"
  \/ server.op = "join" /\ (w \in server.todo \/ (server.worker = w /\ server.at # "loop"))

\* The server is restarted by command alone, and no process is late for it.
ServerStays == scenario.deaths = 0 /\ ~scenario.late

\* While the server's own process does not die and no process is late, a worker
\* has one process at most, and it is one that the server knows by its pid, so
\* that it can tell that the process died and can end it; the exception are
\* processes that had not entered server:workers when a restarted server read it.
EveryProcessIsWatched ==
  \A p \in Procs : ServerStays /\ Live(p) =>
    /\ \A q \in Procs : Live(q) /\ proc[p].key = proc[q].key => p = q
    /\ \/ p \in missed
       \/ Starting(proc[p].key) \/ Adopting(proc[p].key)
       \/ proc[p].key \in workers /\ handles[proc[p].key] = p

\* Only the processes die.
ServerLives == scenario.operations = {} /\ ServerStays

\* No task is lost with a process: one that is ongoing is performed by a live
\* process, or the hash of its worker names it and the server will come to it.
OngoingIsAccounted ==
  \A t \in Tasks : ServerLives /\ status[t] = "ongoing" =>
    \/ \E p \in Procs : Performs(p, t) /\ proc[p].key = runner[t]
    \/ /\ currentTask[runner[t]] = t
       /\ runner[t] \in workers \/ Starting(runner[t])

\* While the server's own process does not die and no process joins late, a worker
\* that was killed by command stays dead, whatever was sent before or after: only
\* the command 'restart' starts again what it has just killed.
KilledStaysDead ==
  [][\A w \in Workers :
       ServerStays /\ workerStatus[w] = "dead" /\ workerStatus'[w] # "dead" =>
         server.op = "restart" /\ server.worker = w /\ w \in workers]_vars

\* A command to kill w is still to be carried out.
KillIsQueued(w) == \E i \in DOMAIN cmds : cmds[i].op = "kill" /\ w \in cmds[i].workers

\* Although the newest command is carried out first, the order in which 'restart',
\* 'kill' and the others were sent for a worker does not matter: one that is to be
\* killed ends dead for good, also if a 'restart' that was sent before the 'kill'
\* is carried out after it.  The worker is one that a restarted server finds.
KillWins ==
  \A w \in Workers :
    (ServerStays /\ KillIsQueued(w) /\ w \in workers /\ w \in enlisted)
      ~> [](workerStatus[w] = "dead")

\* An ongoing task is finished or failed some time, though its process dies.
OngoingEnds ==
  \A t \in Tasks : ServerLives /\ status[t] = "ongoing" ~> status[t] \in {"finished", "failed"}

\* A worker whose process died gets another.
CrashedIsReplaced ==
  \A w \in Workers :
    (ServerLives /\ w \in workers /\ \A p \in Procs : Live(p) => proc[p].key # w)
      ~> \E p \in Procs : Live(p) /\ proc[p].key = w

\* README: with the policy 'continue' the dependents see a failed task as
\* finished; whoever marks it failed goes on to update_dependent_tasks.
ContinueReleases ==
  [][\A t \in Tasks :
       status[t] = "ongoing" /\ status'[t] = "failed" /\ failPolicy[t] = "continue" =>
         \E p \in Procs : proc'[p].step = "release" /\ proc'[p].task = t]_vars
=============================================================================
