------------------------------ MODULE Cluster -------------------------------
(***************************************************************************)
(* The processes that share the task store: workers (join_as_worker.m),    *)
(* operators (a GUI or a Matlab session that calls set_task_status.m and   *)
(* set_worker_status.m) and submitters (new_task.m), and what servers      *)
(* write of the workers meanwhile.  Every access to Redis is one step; a   *)
(* process may be overtaken between any two of them.                       *)
(***************************************************************************)
EXTENDS TaskStore

CONSTANTS Operators,    \* sessions that issue requests
          Requests,     \* what they may ask for
          MaxRequests   \* bound on the requests and on the servers' writes

ASSUME OperatorsAssumption == Operators \cap Workers = {}
ASSUME MaxRequestsAssumption == MaxRequests \in Nat

Clients == Workers \cup Operators

\* What set_task_status.m can be asked to make of a task ...
TaskRequests == {"pending", "finished", "failed", "deleted"}
\* ... set_worker_status('all', .) of the workers, and DEL of a whole list.
WorkerRequests == {"restart", "dead"}
ClearRequests == {"clear"}
ClearableLists == {"pre_pending", "pending", "finished", "failed"}

ASSUME RequestsAssumption ==
  Requests \subseteq TaskRequests \cup WorkerRequests \cup ClearRequests

VARIABLES
  pc,            \* next step of each client
  job,           \* local variables of each client's call
  workerStatus,  \* HGET worker status
  currentTask,   \* HGET worker current_task (0: 'None')
  available,     \* the set available_workers
  cmds,          \* the server's command list, left end first
  requests,      \* number of requests and of servers' writes so far (bounded)
  \* History, read by no action:
  required,      \* the requirements each task was added with
  settled,       \* tasks whose dependents were to be let go at some time
  touched,       \* tasks that an operator has moved or removed
  removed        \* tasks removed and not put in a list since

clientVars == <<pc, job>>
workerVars == <<workerStatus, currentTask, available, cmds>>
historyVars == <<required, settled, touched, removed>>
vars == <<taskVars, clientVars, workerVars, requests, historyVars>>

None == 0   \* no task number: INCR starts at 1

\* task: task_key; request: the status asked for; force: the 'force' flag;
\* seen, by: task.status and task.worker as read by get_redis_hash;
\* targets: workers that set_worker_status has still to visit.
Jobs == [task : Tasks, request : TaskRequests \cup WorkerRequests, force : BOOLEAN,
         seen : Statuses, by : Workers \cup {NoWorker}, targets : SUBSET Workers]
IdleJob == [task |-> 1, request |-> "finished", force |-> FALSE,
            seen |-> "none", by |-> NoWorker, targets |-> {}]

WorkerSteps == {"down", "advertise", "check", "poll", "run", "clear", "stopped"}
OperatorSteps == {"idle", "wcheck", "wsrem", "wcmd"}
CallSteps == {"read", "exec", "release"}

Commands == [op : WorkerRequests, worker : Workers]
WorkerStatuses == {"none", "starting", "active", "restart", "dead"}

\* Tasks, clients and workers hold what their code writes: each client is at a
\* step of its own program, with a task, a request and targets to act on.
TypeOK ==
  /\ TaskTypeOK
  /\ pc \in [Clients -> WorkerSteps \cup OperatorSteps \cup CallSteps]
  /\ job \in [Clients -> Jobs]
  /\ workerStatus \in [Workers -> WorkerStatuses]
  /\ currentTask \in [Workers -> Tasks \cup {None}]
  /\ available \subseteq Workers
  /\ cmds \in Seq(Commands)
  /\ requests \in 0..MaxRequests
  /\ required \in [Tasks -> SUBSET Tasks]
  /\ settled \subseteq Tasks
  /\ touched \subseteq Tasks
  /\ removed \subseteq Tasks

Init ==
  /\ TaskInit
  /\ pc = [c \in Clients |-> IF c \in Workers THEN "down" ELSE "idle"]
  /\ job = [c \in Clients |-> IdleJob]
  /\ workerStatus = [w \in Workers |-> "none"]
  /\ currentTask = [w \in Workers |-> None]
  /\ available = {}
  /\ cmds = <<>>
  /\ requests = 0
  /\ required = [t \in Tasks |-> {}]
  /\ settled = {}
  /\ touched = {}
  /\ removed = {}

Goto(c, step) == pc' = [pc EXCEPT ![c] = step]

-----------------------------------------------------------------------------
(* Submitters. *)

\* new_task.m adds its commands one by one, each by one run of add_task.lua;
\* the requirements are keys of tasks that exist already.
NewTask(t, D, p) ==
  /\ AddTask(t, D, p)
  /\ required' = [required EXCEPT ![t] = D]
  /\ UNCHANGED <<clientVars, workerVars, requests, settled, touched, removed>>

-----------------------------------------------------------------------------
(* Workers. *)

\* The worker writes its hash ...
Join(w) ==
  /\ pc[w] = "down"
  /\ workerStatus' = [workerStatus EXCEPT ![w] = "active"]
  /\ currentTask' = [currentTask EXCEPT ![w] = None]
  /\ Goto(w, "advertise")
  /\ UNCHANGED <<taskVars, job, available, cmds, requests, historyVars>>

\* ... and then joins available_workers.
Advertise(w) ==
  /\ pc[w] = "advertise"
  /\ available' = available \cup {w}
  /\ Goto(w, "check")
  /\ UNCHANGED <<taskVars, job, workerStatus, currentTask, cmds, requests, historyVars>>

\* The test of the work loop; a worker that is not active leaves it.
CheckStatus(w) ==
  /\ pc[w] = "check"
  /\ Goto(w, IF workerStatus[w] = "active" THEN "poll" ELSE "stopped")
  /\ UNCHANGED <<taskVars, job, workerVars, requests, historyVars>>

\* perform_task finds no pending task and pauses.
PollNothing(w) ==
  /\ pc[w] = "poll"
  /\ lists["pending"] = <<>>
  /\ Goto(w, "check")
  /\ UNCHANGED <<taskVars, job, workerVars, requests, historyVars>>

\* perform_task pops a pending task; the script also notes it in the worker.
Pop(w, t) ==
  /\ pc[w] = "poll"
  /\ PopPending(w, t)
  /\ currentTask' = [currentTask EXCEPT ![w] = t]
  /\ job' = [job EXCEPT ![w].task = t]
  /\ removed' = removed \ {t}
  /\ Goto(w, "run")
  /\ UNCHANGED <<workerStatus, available, cmds, requests, required, settled, touched>>

\* The command returns or throws, and set_task_status is called accordingly.
RunEnds(w, outcome) ==
  /\ pc[w] = "run"
  /\ job' = [job EXCEPT ![w].request = outcome]
  /\ Goto(w, "read")
  /\ UNCHANGED <<taskVars, workerVars, requests, historyVars>>

\* The worker is done with the task.
ClearCurrentTask(w) ==
  /\ pc[w] = "clear"
  /\ currentTask' = [currentTask EXCEPT ![w] = None]
  /\ job' = [job EXCEPT ![w] = IdleJob]
  /\ Goto(w, "check")
  /\ UNCHANGED <<taskVars, workerStatus, available, cmds, requests, historyVars>>

-----------------------------------------------------------------------------
(* set_task_status.m, run by a worker for the task it performed or by an   *)
(* operator for any task.                                                  *)

\* Where a call returns to.
After(c) == IF c \in Workers THEN "clear" ELSE "idle"
Return(c) ==
  /\ Goto(c, After(c))
  /\ job' = IF c \in Workers THEN job ELSE [job EXCEPT ![c] = IdleJob]

\* A task is moved whatever its status and history.
Refused_Never(r, t) == FALSE

\* The early returns, and the error that task.started_on raises when the task
\* never ran.
Refused(r, t) ==
  \/ r = "pending" /\ status[t] \in {"pending", "ongoing"}
  \/ r = "finished" /\ status[t] = "finished"
  \/ r \in {"finished", "failed"} /\ ~startedOn[t]

\* get_redis_hash reads the task.
ReadTask(c) ==
  LET t == job[c].task
      r == job[c].request IN
  /\ pc[c] = "read"
  /\ IF Refused(r, t)
     THEN Return(c)
     ELSE /\ job' = [job EXCEPT ![c] =
                       [@ EXCEPT !.seen = status[t], !.by = runner[t],
                                 !.targets = {runner[t]} \ {NoWorker}]]
          /\ Goto(c, IF r = "deleted" /\ status[t] = "ongoing" THEN "wcheck" ELSE "exec")
  /\ UNCHANGED <<taskVars, workerVars, requests, historyVars>>

\* The task is where the client put it, not removed; an operator touched it.
Placed(c) ==
  /\ removed' = removed \ {job[c].task}
  /\ touched' = IF c \in Operators THEN touched \cup {job[c].task} ELSE touched

\* MULTI ... EXEC of 'pending'.
SetPending(c) ==
  /\ pc[c] = "exec" /\ job[c].request = "pending"
  /\ Relist(job[c].task, job[c].seen, "pending")
  /\ Placed(c)
  /\ Return(c)
  /\ UNCHANGED <<workerVars, requests, required, settled>>

\* With 'force' the worker of a task seen ongoing is told to leave its loop.
StopWorker(c) ==
  /\ workerStatus' = [workerStatus EXCEPT ![job[c].by] = "restart"]
  /\ available' = available \ {job[c].by}

\* MULTI ... EXEC of 'finished'; the script that lets the dependents go is a
\* command of its own.
SetFinished(c) ==
  LET t == job[c].task IN
  /\ pc[c] = "exec" /\ job[c].request = "finished"
  /\ Relist(t, job[c].seen, "finished")
  /\ Placed(c)
  /\ settled' = settled \cup {t}
  /\ IF job[c].force /\ job[c].seen = "ongoing"
     THEN StopWorker(c)
     ELSE UNCHANGED <<workerStatus, available>>
  /\ Goto(c, "release")
  /\ UNCHANGED <<job, currentTask, cmds, requests, required>>

\* MULTI ... EXEC of 'failed'; dependents are let go if the policy says so.
SetFailed(c) ==
  LET t == job[c].task IN
  /\ pc[c] = "exec" /\ job[c].request = "failed"
  /\ Relist(t, job[c].seen, "failed")
  /\ Placed(c)
  /\ IF failPolicy[t] = "continue"
     THEN settled' = settled \cup {t} /\ Goto(c, "release") /\ UNCHANGED job
     ELSE settled' = settled /\ Return(c)
  /\ UNCHANGED <<workerVars, requests, required>>

\* LREM of 'deleted', for a task that was not seen ongoing.
SetDeleted(c) ==
  /\ pc[c] = "exec" /\ job[c].request = "deleted"
  /\ Unlist(job[c].task, job[c].seen)
  /\ removed' = removed \cup {job[c].task}
  /\ touched' = touched \cup {job[c].task}
  /\ Return(c)
  /\ UNCHANGED <<workerVars, requests, required, settled>>

\* update_dependent_tasks, after 'finished' or 'failed'.
Release(c) ==
  /\ pc[c] = "release"
  /\ UpdateDependentTasks(job[c].task)
  /\ removed' = removed \ Released(job[c].task)
  /\ Return(c)
  /\ UNCHANGED <<workerVars, requests, required, settled, touched>>

-----------------------------------------------------------------------------
(* set_worker_status.m, one worker of job.targets at a time. *)

\* set_task_status(t, 'deleted') asks for 'restart'.
WorkerRequest(o) == IF job[o].request = "deleted" THEN "restart" ELSE job[o].request

NextTarget(o, w) ==
  LET rest == job[o].targets \ {w} IN
  IF rest = {} THEN Return(o)
  ELSE job' = [job EXCEPT ![o].targets = rest] /\ Goto(o, "wcheck")

\* One that is not active (for 'restart') or is dead already (for 'dead').
LeftAlone(r, s) == IF r = "restart" THEN s # "active" ELSE s = "dead"

\* The worker's status is read, and the worker perhaps left alone.
CheckWorker(o, w) ==
  /\ pc[o] = "wcheck" /\ w \in job[o].targets
  /\ IF LeftAlone(WorkerRequest(o), workerStatus[w])
     THEN NextTarget(o, w)
     ELSE job' = [job EXCEPT ![o].by = w] /\ Goto(o, "wsrem")
  /\ UNCHANGED <<taskVars, workerVars, requests, historyVars>>

\* All workers are withdrawn before the first command is sent.
WithdrawWorker_All(o) ==
  /\ pc[o] = "wsrem"
  /\ available' = available \ job[o].targets
  /\ Goto(o, "wcmd")
  /\ UNCHANGED <<taskVars, job, workerStatus, currentTask, cmds, requests, historyVars>>

WithdrawWorker(o) ==
  /\ pc[o] = "wsrem"
  /\ available' = available \ {job[o].by}
  /\ Goto(o, "wcmd")
  /\ UNCHANGED <<taskVars, job, workerStatus, currentTask, cmds, requests, historyVars>>

\* The command goes to the worker's server, which takes it from the same end.
CommandServer(o, w) ==
  /\ pc[o] = "wcmd" /\ w = job[o].by
  /\ cmds' = LPush(cmds, [op |-> WorkerRequest(o), worker |-> w])
  /\ NextTarget(o, w)
  /\ UNCHANGED <<taskVars, workerStatus, currentTask, available, requests, historyVars>>

-----------------------------------------------------------------------------
(* Servers and operators.  What either of them begins is counted. *)

CountRequest == requests < MaxRequests /\ requests' = requests + 1

\* The server of w writes its status: 'dead' before it ends a process, 'starting'
\* before it opens one, 'restart' when it found one dead.  It does so for the
\* commands above, for those that the GUI sends it directly, and on its own, and
\* leaves available_workers alone.  What else it does is in Server.
ServerWrites(w, s) ==
  /\ CountRequest
  /\ workerStatus' = [workerStatus EXCEPT ![w] = s]
  /\ UNCHANGED <<taskVars, clientVars, currentTask, available, cmds, historyVars>>

\* The 'force' flag makes a difference to 'finished' only.
Forces(r) == IF r = "finished" THEN BOOLEAN ELSE {FALSE}

\* set_task_status(t, r): the operator picked t from a listing that may be old.
AskTask(o, t, r, force) ==
  /\ pc[o] = "idle" /\ CountRequest
  /\ job' = [job EXCEPT ![o] = [IdleJob EXCEPT !.task = t, !.request = r, !.force = force]]
  /\ Goto(o, "read")
  /\ UNCHANGED <<taskVars, workerVars, historyVars>>

\* set_worker_status('all', r).
AskWorkers(o, r) ==
  /\ pc[o] = "idle" /\ CountRequest /\ available # {}
  /\ job' = [job EXCEPT ![o] = [IdleJob EXCEPT !.request = r, !.targets = available]]
  /\ Goto(o, "wcheck")
  /\ UNCHANGED <<taskVars, workerVars, historyVars>>

\* set_task_status('all_X', 'deleted').
AskClear(o, l) ==
  /\ pc[o] = "idle" /\ CountRequest
  /\ ClearList(l)
  /\ touched' = touched \cup Range(lists[l])
  /\ removed' = removed \cup Range(lists[l])
  /\ UNCHANGED <<clientVars, workerVars, required, settled>>

-----------------------------------------------------------------------------
WorkerLoop(w) ==
  \/ Join(w) \/ Advertise(w) \/ CheckStatus(w) \/ PollNothing(w)
  \/ \E t \in Tasks : Pop(w, t)
  \/ \E outcome \in {"finished", "failed"} : RunEnds(w, outcome)
  \/ ClearCurrentTask(w)

SetTaskStatus(c) ==
  \/ ReadTask(c) \/ SetPending(c) \/ SetFinished(c) \/ SetFailed(c)
  \/ SetDeleted(c) \/ Release(c)

SetWorkerStatus(o) ==
  \/ WithdrawWorker(o)
  \/ \E w \in Workers : CheckWorker(o, w) \/ CommandServer(o, w)

Ask(o) ==
  \/ \E t \in Created, r \in Requests \cap TaskRequests :
       \E force \in Forces(r) : AskTask(o, t, r, force)
  \/ \E r \in Requests \cap WorkerRequests : AskWorkers(o, r)
  \/ \E l \in ClearableLists : Requests \cap ClearRequests # {} /\ AskClear(o, l)

\* Where nobody asks anything of workers, their servers leave them alone, too.
Serve ==
  /\ Requests \cap WorkerRequests # {}
  /\ \E w \in Workers, s \in {"starting", "restart", "dead"} : ServerWrites(w, s)

Submit == \E t \in Tasks, D \in SUBSET Created, p \in Policies : NewTask(t, D, p)

Next ==
  \/ Submit
  \/ \E w \in Workers : WorkerLoop(w)
  \/ \E c \in Clients : SetTaskStatus(c)
  \/ \E o \in Operators : SetWorkerStatus(o) \/ Ask(o)
  \/ Serve

Spec == Init /\ [][Next]_vars

\* A worker's loop and every call that has begun go on: Redis answers, and the
\* command of a task returns or throws.  Nobody has to submit or to ask.
Fairness ==
  /\ \A w \in Workers : WF_vars(WorkerLoop(w))
  /\ \A c \in Clients : WF_vars(SetTaskStatus(c))
  /\ \A o \in Operators : WF_vars(SetWorkerStatus(o))

FairSpec == Spec /\ Fairness

-----------------------------------------------------------------------------
(* Properties. *)

\* Some client has marked d and is about to let its dependents go.
Releasing(d) == \E c \in Clients : pc[c] = "release" /\ job[c].task = d

\* Worker w performs t: it popped t and has not yet moved it on.
Performs(w, t) == pc[w] \in {"run", "read", "exec"} /\ job[w].task = t

\* Worker w is between its pop of t and the end of perform_task.
BusyWith(w, t) == Performs(w, t) \/ (pc[w] \in {"release", "clear"} /\ job[w].task = t)

\* A finished task is waited for only while the client that marked it finished
\* is still to run update_dependent_tasks: whatever the interleaving of
\* add_task.lua with the two commands of set_task_status.m, no task is left
\* waiting for a requirement that is finished and has been released.
NoLostWakeup ==
  \A t \in Tasks : \A d \in dependencies[t] : status[d] = "finished" => Releasing(d)

\* A task in pre_pending_tasks has a requirement to wait for, and the
\* requirement's prior_to names it: update_dependent_tasks will find it.
PrePendingWaits ==
  \A t \in Range(lists["pre_pending"]) :
    dependencies[t] # {} /\ \A d \in dependencies[t] : t \in priorTo[d]

\* No task is forgotten: one that was not removed is in the list named by its
\* status, although set_task_status.m takes a task out of the list named by a
\* status that it read before and that may have changed since.
InListOfItsStatus ==
  \A t \in Created \ removed : t \in Range(lists[status[t]])

\* A task that no operator moved is started only after each of its
\* requirements has been finished, or has failed with the policy 'continue'.
RequirementsFirst ==
  \A t \in Tasks \ touched : startedOn[t] => required[t] \subseteq settled

\* A task that no operator moved is in no list but the one of its status, and
\* is there once; while it is ongoing the worker it names, and no other,
\* performs it.
SoleRunner ==
  \A t \in Created \ touched :
    /\ \A l \in ListNames :
         Occurrences(lists[l], t) = IF l = status[t] THEN 1 ELSE 0
    /\ status[t] = "ongoing" => Performs(runner[t], t)
    /\ \A v, w \in Workers : BusyWith(v, t) /\ BusyWith(w, t) => v = w

\* An active worker that was taken out of available_workers is known to its
\* server: the command that restarts or kills it is queued or about to be.
WithdrawnIsCommanded ==
  \A w \in Workers :
    workerStatus[w] = "active" /\ pc[w] \notin {"down", "advertise"} /\ w \notin available
      => \/ \E i \in DOMAIN cmds : cmds[i].worker = w
         \/ \E o \in Operators : pc[o] = "wcmd" /\ job[o].by = w

Lifecycle == {<<"none", "pre_pending">>, <<"none", "pending">>,
              <<"pre_pending", "pending">>, <<"pending", "ongoing">>,
              <<"ongoing", "finished">>, <<"ongoing", "failed">>}

\* The status of a task that no operator moved only goes forward: a finished
\* or failed task is never run again and a running one never queued again.
MovesForward ==
  [][\A t \in Tasks \ touched' :
       status'[t] # status[t] => <<status[t], status'[t]>> \in Lifecycle]_vars

\* The GUI offers 'Mark as finished' for pending tasks: an operator's request
\* to mark a pending task as finished goes through to its MULTI block.
MarkFinishedGoesThrough ==
  [][\A o \in Operators :
       /\ pc[o] = "read" /\ pc'[o] # "read"
       /\ job[o].request = "finished" /\ status[job[o].task] = "pending"
       => pc'[o] = "exec"]_vars

\* Once all the requirements of a task are finished the task is performed:
\* it is released, popped and marked, if there is a worker.
RunnableTaskSettles ==
  \A t \in Tasks :
    (status[t] # "none" /\ \A d \in required[t] : status[d] = "finished")
      ~> status[t] \in {"finished", "failed"}

-----------------------------------------------------------------------------
(* The gate that the cluster implements. *)

Gate == INSTANCE TaskGate WITH
          Task <- Tasks,
          MayOverride <- Requests # {},
          created <- Created,
          open <- {t \in Created : status[t] # "pre_pending"},
          started <- {t \in Tasks : startedOn[t]},
          overridden <- touched

\* The cluster is a gate: add_task.lua and update_dependent_tasks.lua let a
\* task past pre_pending when its requirements are settled, an operator when
\* he likes, and a worker starts nothing that is not past pre_pending.
GateSpec == Gate!Spec
=============================================================================
