--------------------------- MODULE Cluster_proofs ---------------------------
(***************************************************************************)
(* Theorems about Cluster for all values of its constants: any number of   *)
(* tasks, workers, operators and requests.  In this order: types; workers  *)
(* that are withdrawn; no wake-up lost, no task forgotten; the gate of     *)
(* TaskGate; the life of a task that no operator moved.                    *)
(***************************************************************************)
EXTENDS Cluster, TaskStore_proofs

-----------------------------------------------------------------------------
(* Type correctness.  CommandServer puts the request of the call into a    *)
(* command, so the type invariant needs to know which requests reach it.   *)

CallsOK ==
  /\ \A w \in Workers :
       /\ pc[w] \in WorkerSteps \cup CallSteps
       /\ job[w].request \in {"finished", "failed"}
  /\ \A o \in Operators :
       /\ pc[o] \in OperatorSteps \cup CallSteps
       /\ pc[o] \in {"wcheck", "wsrem", "wcmd"} => job[o].request \in {"deleted", "restart", "dead"}

TypeInv == TypeOK /\ CallsOK

LEMMA ClientsFacts ==
  /\ Workers \subseteq Clients /\ Operators \subseteq Clients
  /\ \A c \in Clients : c \in Workers \/ c \in Operators
  /\ \A c \in Clients : c \in Operators => c \notin Workers
BY OperatorsAssumption DEF Clients

LEMMA IdleJobType == IdleJob \in Jobs
BY TasksFacts DEF IdleJob, Jobs, TaskRequests, Statuses

LEMMA TypeInit == Init => TypeInv
<1> SUFFICES ASSUME Init PROVE TypeInv OBVIOUS
<1>1. TaskTypeOK BY TaskInitFacts DEF Init
<1>2. job \in [Clients -> Jobs] BY IdleJobType DEF Init
<1>3. pc \in [Clients -> WorkerSteps \cup OperatorSteps \cup CallSteps]
  BY DEF Init, WorkerSteps, OperatorSteps
<1>4. cmds \in Seq(Commands) BY DEF Init
<1>5. currentTask \in [Workers -> Tasks \cup {None}] BY DEF Init
<1>6. CallsOK
  BY ClientsFacts DEF Init, CallsOK, IdleJob, WorkerSteps, OperatorSteps
<1> QED
  BY <1>1, <1>2, <1>3, <1>4, <1>5, <1>6, MaxRequestsAssumption
     DEF Init, TypeInv, TypeOK, WorkerStatuses

\* A step that keeps the task store and moves one client on keeps the types.
LEMMA TypeNext == TypeInv /\ [Next]_vars => TypeInv'
<1> SUFFICES ASSUME TypeInv, [Next]_vars PROVE TypeInv' OBVIOUS
<1> USE DEF TypeInv, TypeOK
<1>1. ASSUME NEW t \in Tasks, NEW D \in SUBSET Created, NEW p \in Policies, NewTask(t, D, p)
      PROVE  TypeInv'
  <2>1. TaskTypeOK' BY <1>1, AddTaskFacts DEF NewTask
  <2>2. D \subseteq Tasks BY DEF Created
  <2> QED BY <1>1, <2>1, <2>2 DEF NewTask, CallsOK, clientVars, workerVars
<1>2. ASSUME NEW w \in Workers, WorkerLoop(w) PROVE TypeInv'
  <2> w \in Clients /\ w \notin Operators BY ClientsFacts
  <2>1. CASE Join(w)
    BY <2>1 DEF Join, Goto, CallsOK, WorkerSteps, WorkerStatuses, historyVars, TaskTypeOK, taskVars
  <2>2. CASE Advertise(w) BY <2>2 DEF Advertise, Goto, CallsOK, WorkerSteps, historyVars, TaskTypeOK, taskVars
  <2>3. CASE CheckStatus(w) BY <2>3 DEF CheckStatus, Goto, CallsOK, WorkerSteps, workerVars, historyVars, TaskTypeOK, taskVars
  <2>4. CASE PollNothing(w) BY <2>4 DEF PollNothing, Goto, CallsOK, WorkerSteps, workerVars, historyVars, TaskTypeOK, taskVars
  <2>5. ASSUME NEW t \in Tasks, Pop(w, t) PROVE TypeInv'
    <3>1. TaskTypeOK' BY <2>5, PopPendingFacts DEF Pop
    <3>2. job' \in [Clients -> Jobs] /\ \A c \in Clients : job'[c].request = job[c].request
      BY <2>5 DEF Pop, Jobs
    <3> QED BY <2>5, <3>1, <3>2, ClientsFacts DEF Pop, Goto, CallsOK, WorkerSteps
  <2>6. ASSUME NEW r \in {"finished", "failed"}, RunEnds(w, r) PROVE TypeInv'
    <3>1. /\ job' \in [Clients -> Jobs] /\ job'[w].request = r
          /\ \A c \in Clients \ {w} : job'[c] = job[c]
      BY <2>6 DEF RunEnds, Jobs, TaskRequests
    <3> QED BY <2>6, <3>1, ClientsFacts DEF RunEnds, Goto, CallsOK, CallSteps, workerVars, historyVars, TaskTypeOK, taskVars
  <2>7. CASE ClearCurrentTask(w)
    <3>1. /\ job' \in [Clients -> Jobs] /\ job'[w].request = "finished"
          /\ \A c \in Clients \ {w} : job'[c] = job[c]
      BY <2>7, IdleJobType DEF ClearCurrentTask, IdleJob
    <3> QED BY <2>7, <3>1, ClientsFacts DEF ClearCurrentTask, Goto, CallsOK, WorkerSteps, historyVars, TaskTypeOK, taskVars
  <2> QED BY <1>2, <2>1, <2>2, <2>3, <2>4, <2>5, <2>6, <2>7 DEF WorkerLoop
<1>3. ASSUME NEW c \in Clients, Return(c) 
      PROVE  /\ pc' \in [Clients -> WorkerSteps \cup OperatorSteps \cup CallSteps]
             /\ job' \in [Clients -> Jobs]
             /\ CallsOK'
  <2>1. After(c) \in {"clear", "idle"} /\ (c \in Workers <=> After(c) = "clear")
    BY DEF After
  <2>2. pc' = [pc EXCEPT ![c] = After(c)] BY <1>3 DEF Return, Goto
  <2>3. /\ job' \in [Clients -> Jobs]
        /\ \A d \in Clients : d \in Workers \/ d # c => job'[d] = job[d]
    BY <1>3, IdleJobType, ClientsFacts DEF Return
  <2>4. pc' \in [Clients -> WorkerSteps \cup OperatorSteps \cup CallSteps]
    BY <2>1, <2>2 DEF WorkerSteps, OperatorSteps
  <2>5. CallsOK'
    BY <2>1, <2>2, <2>3, ClientsFacts DEF CallsOK, WorkerSteps, OperatorSteps
  <2> QED BY <2>3, <2>4, <2>5
<1>4. ASSUME NEW c \in Clients, SetTaskStatus(c) PROVE TypeInv'
  <2>0. /\ job[c].task \in Tasks /\ job[c].seen \in Statuses
        /\ job[c].by \in Workers \cup {NoWorker}
    BY DEF Jobs
  <2>l. {"pending", "finished", "failed"} \subseteq ListNames BY DEF ListNames
  <2>1. CASE ReadTask(c)
    <3>1. CASE Refused(job[c].request, job[c].task)
      <4>1. Return(c) BY <2>1, <3>1 DEF ReadTask
      <4> QED BY <2>1, <4>1, <1>3 DEF ReadTask, workerVars, historyVars, TaskTypeOK, taskVars
    <3>2. CASE ~Refused(job[c].request, job[c].task)
      <4> DEFINE t == job[c].task
           step == IF job[c].request = "deleted" /\ status[t] = "ongoing"
                   THEN "wcheck" ELSE "exec"
           new == [job[c] EXCEPT !.seen = status[t], !.by = runner[t],
                                 !.targets = {runner[t]} \ {NoWorker}]
      <4>1. /\ job' = [job EXCEPT ![c] = new]
            /\ pc' = [pc EXCEPT ![c] = step]
        BY <2>1, <3>2 DEF ReadTask, Goto
      <4>2. status[t] \in Statuses /\ runner[t] \in Workers \cup {NoWorker}
        BY <2>0 DEF TaskTypeOK
      <4>n. new \in Jobs /\ new.request = job[c].request
        BY <4>2 DEF Jobs
      <4> HIDE DEF new
      <4>3. /\ job' \in [Clients -> Jobs]
            /\ \A d \in Clients : job'[d].request = job[d].request
        BY <4>1, <4>n
      <4>4. pc' \in [Clients -> WorkerSteps \cup OperatorSteps \cup CallSteps]
        BY <4>1 DEF OperatorSteps, CallSteps
      <4>5. CallsOK'
        BY <4>1, <4>3, ClientsFacts DEF CallsOK, OperatorSteps, CallSteps
      <4> QED BY <2>1, <4>3, <4>4, <4>5 DEF ReadTask, workerVars, historyVars, TaskTypeOK, taskVars
    <3> QED BY <3>1, <3>2
  <2>2. CASE SetPending(c)
    <3>1. TaskTypeOK' BY <2>0, <2>l, <2>2, RelistFacts DEF SetPending
    <3>2. Return(c) BY <2>2 DEF SetPending
    <3> QED BY <2>0, <2>2, <3>1, <3>2, <1>3 DEF SetPending, Placed, workerVars
  <2>3. CASE SetFinished(c)
    <3>1. TaskTypeOK' BY <2>0, <2>l, <2>3, RelistFacts DEF SetFinished
    <3>2. pc' \in [Clients -> WorkerSteps \cup OperatorSteps \cup CallSteps] /\ CallsOK'
      BY <2>3 DEF SetFinished, Goto, CallsOK, CallSteps
    <3>3. workerStatus' \in [Workers -> WorkerStatuses] /\ available' \subseteq Workers
      BY <2>3 DEF SetFinished, StopWorker, WorkerStatuses
    <3> QED BY <2>0, <2>3, <3>1, <3>2, <3>3 DEF SetFinished, Placed
  <2>4. CASE SetFailed(c)
    <3>1. TaskTypeOK' BY <2>0, <2>l, <2>4, RelistFacts DEF SetFailed
    <3>2. /\ pc' \in [Clients -> WorkerSteps \cup OperatorSteps \cup CallSteps]
          /\ job' \in [Clients -> Jobs] /\ CallsOK'
      <4>1. CASE failPolicy[job[c].task] = "continue"
        <5>1. pc' = [pc EXCEPT ![c] = "release"] /\ job' = job
          BY <2>4, <4>1 DEF SetFailed, Goto
        <5> QED BY <5>1 DEF CallsOK, CallSteps
      <4>2. CASE failPolicy[job[c].task] # "continue"
        BY <2>4, <4>2, <1>3 DEF SetFailed
      <4> QED BY <4>1, <4>2
    <3>3. settled' \subseteq Tasks BY <2>0, <2>4 DEF SetFailed
    <3> QED BY <2>0, <2>4, <3>1, <3>2, <3>3 DEF SetFailed, Placed, workerVars
  <2>5. CASE SetDeleted(c)
    <3>1. TaskTypeOK' BY <2>0, <2>5, UnlistFacts DEF SetDeleted
    <3>2. Return(c) BY <2>5 DEF SetDeleted
    <3> QED BY <2>0, <2>5, <3>1, <3>2, <1>3 DEF SetDeleted, workerVars
  <2>6. CASE Release(c)
    <3>1. TaskTypeOK' BY <2>0, <2>6, UpdateFacts DEF Release
    <3>2. Return(c) BY <2>6 DEF Release
    <3> QED BY <2>6, <3>1, <3>2, <1>3 DEF Release, workerVars
  <2> QED BY <1>4, <2>1, <2>2, <2>3, <2>4, <2>5, <2>6 DEF SetTaskStatus
<1>5. ASSUME NEW o \in Operators, NEW w \in Workers, NextTarget(o, w),
             pc[o] \in {"wcheck", "wcmd"}
      PROVE  /\ pc' \in [Clients -> WorkerSteps \cup OperatorSteps \cup CallSteps]
             /\ job' \in [Clients -> Jobs]
             /\ CallsOK'
  <2> o \in Clients BY ClientsFacts
  <2>1. CASE job[o].targets \ {w} = {}
    <3>1. Return(o) BY <1>5, <2>1 DEF NextTarget
    <3> QED BY <3>1, <1>3
  <2>2. CASE job[o].targets \ {w} # {}
    <3>1. /\ job' = [job EXCEPT ![o].targets = job[o].targets \ {w}]
          /\ pc' = [pc EXCEPT ![o] = "wcheck"]
      BY <1>5, <2>2 DEF NextTarget, Goto
    <3>2. /\ job' \in [Clients -> Jobs]
          /\ \A d \in Clients : job'[d].request = job[d].request
      BY <3>1 DEF Jobs
    <3> QED BY <1>5, <3>1, <3>2, ClientsFacts DEF CallsOK, OperatorSteps
  <2> QED BY <2>1, <2>2
<1>6. ASSUME NEW o \in Operators, SetWorkerStatus(o) PROVE TypeInv'
  <2> o \in Clients BY ClientsFacts
  <2>1. CASE WithdrawWorker(o)
    BY <2>1, ClientsFacts DEF WithdrawWorker, Goto, CallsOK, OperatorSteps, historyVars, TaskTypeOK, taskVars
  <2>2. ASSUME NEW w \in Workers, CheckWorker(o, w) PROVE TypeInv'
    <3>1. /\ pc' \in [Clients -> WorkerSteps \cup OperatorSteps \cup CallSteps]
          /\ job' \in [Clients -> Jobs]
          /\ CallsOK'
      <4>1. CASE NextTarget(o, w) BY <2>2, <4>1, <1>5 DEF CheckWorker
      <4>2. CASE job' = [job EXCEPT ![o].by = w] /\ Goto(o, "wsrem")
        <5>1. /\ job' \in [Clients -> Jobs]
              /\ \A d \in Clients : job'[d].request = job[d].request
          BY <4>2 DEF Jobs
        <5> QED BY <2>2, <4>2, <5>1, ClientsFacts DEF CheckWorker, Goto, CallsOK, OperatorSteps
      <4> QED BY <2>2, <4>1, <4>2 DEF CheckWorker
    <3> QED BY <2>2, <3>1 DEF CheckWorker, workerVars, historyVars, TaskTypeOK, taskVars
  <2>3. ASSUME NEW w \in Workers, CommandServer(o, w) PROVE TypeInv'
    <3>1. [op |-> WorkerRequest(o), worker |-> w] \in Commands
      BY <2>3 DEF CommandServer, CallsOK, WorkerRequest, Commands, WorkerRequests
    <3>2. cmds' \in Seq(Commands) BY <2>3, <3>1, LPushFacts DEF CommandServer
    <3>3. /\ pc' \in [Clients -> WorkerSteps \cup OperatorSteps \cup CallSteps]
          /\ job' \in [Clients -> Jobs]
          /\ CallsOK'
      BY <2>3, <1>5 DEF CommandServer
    <3> QED BY <2>3, <3>2, <3>3 DEF CommandServer, historyVars, TaskTypeOK, taskVars
  <2> QED BY <1>6, <2>1, <2>2, <2>3 DEF SetWorkerStatus
<1>7. ASSUME NEW o \in Operators, Ask(o) PROVE TypeInv'
  <2> o \in Clients /\ o \notin Workers BY ClientsFacts
  <2>0. ASSUME CountRequest PROVE requests' \in 0..MaxRequests
    BY <2>0, MaxRequestsAssumption DEF CountRequest
  <2>1. ASSUME NEW t \in Created, NEW r \in Requests \cap TaskRequests, NEW force \in BOOLEAN,
               AskTask(o, t, r, force)
        PROVE  TypeInv'
    <3>1. [IdleJob EXCEPT !.task = t, !.request = r, !.force = force] \in Jobs
      BY IdleJobType DEF Jobs, IdleJob, Created
    <3>2. job' \in [Clients -> Jobs] /\ \A c \in Clients \ {o} : job'[c] = job[c]
      BY <2>1, <3>1 DEF AskTask
    <3> QED BY <2>0, <2>1, <3>2, ClientsFacts
            DEF AskTask, Goto, CallsOK, CallSteps, workerVars, historyVars, TaskTypeOK, taskVars
  <2>2. ASSUME NEW r \in Requests \cap WorkerRequests, AskWorkers(o, r) PROVE TypeInv'
    <3>1. /\ [IdleJob EXCEPT !.request = r, !.targets = available] \in Jobs
          /\ [IdleJob EXCEPT !.request = r, !.targets = available].request = r
      BY IdleJobType DEF Jobs, IdleJob
    <3>2. /\ job' \in [Clients -> Jobs] /\ job'[o].request \in {"restart", "dead"}
          /\ \A c \in Clients \ {o} : job'[c] = job[c]
      BY <2>2, <3>1 DEF AskWorkers, WorkerRequests
    <3> QED BY <2>0, <2>2, <3>2, ClientsFacts
            DEF AskWorkers, Goto, CallsOK, OperatorSteps, workerVars, historyVars, TaskTypeOK, taskVars
  <2>3. ASSUME NEW l \in ClearableLists, AskClear(o, l) PROVE TypeInv'
    <3>1. l \in ListNames BY DEF ClearableLists, ListNames
    <3>2. TaskTypeOK' BY <2>3, <3>1, ClearListFacts DEF AskClear
    <3>3. Range(lists[l]) \subseteq Tasks BY <3>1, RangeOfSeq DEF TaskTypeOK
    <3> QED BY <2>0, <2>3, <3>2, <3>3 DEF AskClear, CallsOK, clientVars, workerVars
  <2>4. \A r : Forces(r) \subseteq BOOLEAN BY DEF Forces
  <2> QED BY <1>7, <2>1, <2>2, <2>3, <2>4 DEF Ask
<1>8. CASE UNCHANGED vars
  BY <1>8 DEF vars, taskVars, clientVars, workerVars, historyVars, TaskTypeOK, CallsOK
<1>9. ASSUME NEW w \in Workers, NEW s \in {"starting", "restart", "dead"}, ServerWrites(w, s)
      PROVE  TypeInv'
  <2>1. requests' \in 0..MaxRequests
    BY <1>9, MaxRequestsAssumption DEF ServerWrites, CountRequest
  <2>2. workerStatus' \in [Workers -> WorkerStatuses] BY <1>9 DEF ServerWrites, WorkerStatuses
  <2> QED BY <1>9, <2>1, <2>2 DEF ServerWrites, CallsOK, clientVars, historyVars, TaskTypeOK, taskVars
<1> QED BY <1>1, <1>2, <1>4, <1>6, <1>7, <1>8, <1>9 DEF Next, Submit, Serve

\* Every variable keeps its type, whatever the clients do and in whatever order.
THEOREM TypeCorrect == Spec => []TypeOK
<1>1. Spec => []TypeInv BY TypeInit, TypeNext, PTL DEF Spec
<1> QED BY <1>1, PTL DEF TypeInv

-----------------------------------------------------------------------------
(***************************************************************************)
(* The set available_workers, for all values of the constants: an active   *)
(* worker that is not in it is known to its server.                        *)
(*                                                                         *)
(* Three programs take a worker's status or place away: set_worker_status  *)
(* (SREM, then the command), the forced 'finished' of set_task_status      *)
(* (status and SREM in one block) and the server, which writes a status    *)
(* other than 'active'.  A worker that joins writes its status first.      *)
(***************************************************************************)

HasJoined(w) == pc[w] \notin {"down", "advertise"}

\* The server of w was sent a command or is about to be.
Commanded(w) ==
  \/ \E i \in DOMAIN cmds : cmds[i].worker = w
  \/ \E o \in Operators : pc[o] = "wcmd" /\ job[o].by = w

WithdrawnKnown ==
  \A w \in Workers :
    workerStatus[w] = "active" /\ HasJoined(w) /\ w \notin available => Commanded(w)

PoolInv == TypeInv /\ WithdrawnKnown

LEMMA PoolInit == Init => PoolInv
BY TypeInit DEF Init, PoolInv, WithdrawnKnown

\* A step of one client that withdraws nobody and makes nobody active; an
\* operator at that client has commanded nobody.
LEMMA PoolQuiet ==
  ASSUME PoolInv, TypeInv', NEW c \in Clients,
         UNCHANGED <<workerStatus, available, cmds>>,
         \A d \in Clients \ {c} : pc'[d] = pc[d] /\ job'[d] = job[d],
         pc[c] # "wcmd",
         c \in Workers => HasJoined(c)
  PROVE  PoolInv'
<1>1. \A w \in Workers : HasJoined(w)' => HasJoined(w)
  BY ClientsFacts DEF HasJoined
<1>2. WithdrawnKnown'
  <2> SUFFICES ASSUME NEW w \in Workers, workerStatus'[w] = "active", HasJoined(w)',
                      w \notin available'
               PROVE  Commanded(w)'
    BY DEF WithdrawnKnown
  <2>1. Commanded(w) BY <1>1 DEF PoolInv, WithdrawnKnown
  <2>2. ASSUME NEW o \in Operators, pc[o] = "wcmd", job[o].by = w PROVE Commanded(w)'
    <3>1. o \in Clients \ {c} BY <2>2, ClientsFacts
    <3> QED BY <2>2, <3>1 DEF Commanded
  <2> QED BY <2>1, <2>2 DEF Commanded
<1> QED BY <1>2 DEF PoolInv

\* A call that returns leaves a worker in its loop and an operator at rest.
LEMMA ReturnSteps ==
  ASSUME TypeInv, NEW c \in Clients, Return(c)
  PROVE  /\ pc'[c] = After(c) /\ After(c) \in {"clear", "idle"}
         /\ \A d \in Clients \ {c} : pc'[d] = pc[d] /\ job'[d] = job[d]
BY DEF TypeInv, TypeOK, Return, Goto, After

\* The worker's own steps.
LEMMA PoolWorker ==
  ASSUME PoolInv, TypeInv', NEW w \in Workers, WorkerLoop(w) PROVE PoolInv'
<1> w \in Clients /\ w \notin Operators BY ClientsFacts
<1>t. /\ pc \in [Clients -> WorkerSteps \cup OperatorSteps \cup CallSteps]
      /\ job \in [Clients -> Jobs]
      /\ workerStatus \in [Workers -> WorkerStatuses]
      /\ available \subseteq Workers
  BY DEF PoolInv, TypeInv, TypeOK
<1>1. CASE Join(w)
  <2>1. /\ workerStatus' = [workerStatus EXCEPT ![w] = "active"]
        /\ pc' = [pc EXCEPT ![w] = "advertise"] /\ pc[w] = "down"
        /\ UNCHANGED <<job, available, cmds>>
    BY <1>1 DEF Join, Goto
  <2>2. \A v \in Workers : HasJoined(v)' <=> HasJoined(v)
    BY <1>t, <2>1, ClientsFacts DEF HasJoined
  <2>3. \A v \in Workers : Commanded(v) => Commanded(v)'
    BY <1>t, <2>1, ClientsFacts DEF Commanded
  <2>4. \A v \in Workers : HasJoined(v)' => v # w
    BY <1>t, <2>1 DEF HasJoined
  <2> QED BY <1>t, <2>1, <2>2, <2>3, <2>4 DEF PoolInv, WithdrawnKnown
<1>2. CASE Advertise(w)
  <2>1. /\ available' = available \cup {w}
        /\ pc' = [pc EXCEPT ![w] = "check"] /\ pc[w] = "advertise"
        /\ UNCHANGED <<job, workerStatus, cmds>>
    BY <1>2 DEF Advertise, Goto
  <2>2. \A v \in Workers : HasJoined(v)' <=> HasJoined(v) \/ v = w
    BY <1>t, <2>1, ClientsFacts DEF HasJoined
  <2>3. \A v \in Workers : Commanded(v) => Commanded(v)'
    BY <1>t, <2>1, ClientsFacts DEF Commanded
  <2> QED BY <1>t, <2>1, <2>2, <2>3 DEF PoolInv, WithdrawnKnown
<1>3. CASE CheckStatus(w)
  <2>1. /\ pc[w] = "check"
        /\ \A d \in Clients \ {w} : pc'[d] = pc[d] /\ job'[d] = job[d]
        /\ UNCHANGED <<workerStatus, available, cmds>>
    BY <1>3, <1>t DEF CheckStatus, Goto, workerVars
  <2> QED BY <2>1, PoolQuiet DEF HasJoined
<1>4. CASE PollNothing(w)
  <2>1. /\ pc[w] = "poll"
        /\ \A d \in Clients \ {w} : pc'[d] = pc[d] /\ job'[d] = job[d]
        /\ UNCHANGED <<workerStatus, available, cmds>>
    BY <1>4, <1>t DEF PollNothing, Goto, workerVars
  <2> QED BY <2>1, PoolQuiet DEF HasJoined
<1>5. ASSUME NEW t \in Tasks, Pop(w, t) PROVE PoolInv'
  <2>1. /\ pc[w] = "poll"
        /\ \A d \in Clients \ {w} : pc'[d] = pc[d] /\ job'[d] = job[d]
        /\ UNCHANGED <<workerStatus, available, cmds>>
    BY <1>5, <1>t DEF Pop, Goto
  <2> QED BY <2>1, PoolQuiet DEF HasJoined
<1>6. ASSUME NEW r \in {"finished", "failed"}, RunEnds(w, r) PROVE PoolInv'
  <2>1. /\ pc[w] = "run"
        /\ \A d \in Clients \ {w} : pc'[d] = pc[d] /\ job'[d] = job[d]
        /\ UNCHANGED <<workerStatus, available, cmds>>
    BY <1>6, <1>t DEF RunEnds, Goto, workerVars
  <2> QED BY <2>1, PoolQuiet DEF HasJoined
<1>7. CASE ClearCurrentTask(w)
  <2>1. /\ pc[w] = "clear"
        /\ \A d \in Clients \ {w} : pc'[d] = pc[d] /\ job'[d] = job[d]
        /\ UNCHANGED <<workerStatus, available, cmds>>
    BY <1>7, <1>t DEF ClearCurrentTask, Goto
  <2> QED BY <2>1, PoolQuiet DEF HasJoined
<1> QED BY <1>1, <1>2, <1>3, <1>4, <1>5, <1>6, <1>7 DEF WorkerLoop

\* A worker that is withdrawn, or is to stop, with a status that is not active.
LEMMA PoolStops ==
  ASSUME PoolInv, TypeInv', UNCHANGED cmds,
         \A w \in Workers : HasJoined(w)' => HasJoined(w),
         \A o \in Operators : pc[o] = "wcmd" => pc'[o] = "wcmd" /\ job'[o] = job[o],
         NEW b,
         \A w \in Workers : w # b => workerStatus'[w] = workerStatus[w],
         b \in Workers => workerStatus'[b] # "active",
         available \subseteq available' \cup {b}
  PROVE  PoolInv'
<1>1. \A w \in Workers : Commanded(w) => Commanded(w)' BY DEF Commanded
<1>2. WithdrawnKnown' BY <1>1 DEF PoolInv, WithdrawnKnown
<1> QED BY <1>2 DEF PoolInv

\* set_task_status: all but the forced 'finished' leave the workers alone.
LEMMA PoolTaskStatus ==
  ASSUME PoolInv, TypeInv', NEW c \in Clients, SetTaskStatus(c) PROVE PoolInv'
<1>t. /\ pc \in [Clients -> WorkerSteps \cup OperatorSteps \cup CallSteps]
      /\ job \in [Clients -> Jobs]
      /\ workerStatus \in [Workers -> WorkerStatuses]
      /\ TypeInv
  BY DEF PoolInv, TypeInv, TypeOK
<1>1. CASE ReadTask(c)
  <2>1. pc[c] = "read" /\ UNCHANGED <<workerStatus, available, cmds>>
    BY <1>1 DEF ReadTask, workerVars
  <2>2. CASE Refused(job[c].request, job[c].task)
    <3>1. Return(c) BY <1>1, <2>2 DEF ReadTask
    <3> QED BY <1>t, <2>1, <3>1, ReturnSteps, PoolQuiet DEF HasJoined
  <2>3. CASE ~Refused(job[c].request, job[c].task)
    <3>1. \A d \in Clients \ {c} : pc'[d] = pc[d] /\ job'[d] = job[d]
      BY <1>1, <1>t, <2>3 DEF ReadTask, Goto
    <3> QED BY <2>1, <3>1, PoolQuiet DEF HasJoined
  <2> QED BY <2>2, <2>3
<1>2. CASE SetPending(c)
  <2>1. pc[c] = "exec" /\ Return(c) /\ UNCHANGED <<workerStatus, available, cmds>>
    BY <1>2 DEF SetPending, workerVars
  <2> QED BY <1>t, <2>1, ReturnSteps, PoolQuiet DEF HasJoined
<1>3. CASE SetFinished(c)
  <2>1. /\ pc[c] = "exec" /\ pc' = [pc EXCEPT ![c] = "release"]
        /\ UNCHANGED <<job, cmds>>
    BY <1>3 DEF SetFinished, Goto
  <2>2. \A d \in Clients \ {c} : pc'[d] = pc[d] /\ job'[d] = job[d] BY <1>t, <2>1
  <2>3. CASE UNCHANGED <<workerStatus, available>>
    BY <2>1, <2>2, <2>3, PoolQuiet DEF HasJoined
  <2>4. CASE StopWorker(c)
    <3> DEFINE b == job[c].by
    <3>1. /\ \A w \in Workers : w # b => workerStatus'[w] = workerStatus[w]
          /\ b \in Workers => workerStatus'[b] = "restart"
          /\ available' = available \ {b}
      BY <1>t, <2>4 DEF StopWorker
    <3> HIDE DEF b
    <3>2. \A w \in Workers : HasJoined(w)' => HasJoined(w)
      BY <2>1, <2>2, ClientsFacts DEF HasJoined
    <3>3. \A o \in Operators : pc[o] = "wcmd" => pc'[o] = "wcmd" /\ job'[o] = job[o]
      BY <2>1, <2>2, ClientsFacts
    <3>4. available \subseteq available' \cup {b} BY <3>1
    <3> QED BY <2>1, <3>1, <3>2, <3>3, <3>4, PoolStops
  <2> QED BY <1>3, <2>3, <2>4 DEF SetFinished
<1>4. CASE SetFailed(c)
  <2>1. pc[c] = "exec" /\ UNCHANGED <<workerStatus, available, cmds>>
    BY <1>4 DEF SetFailed, workerVars
  <2>2. CASE Return(c) BY <1>t, <2>1, <2>2, ReturnSteps, PoolQuiet DEF HasJoined
  <2>3. CASE Goto(c, "release") /\ UNCHANGED job
    <3>1. \A d \in Clients \ {c} : pc'[d] = pc[d] /\ job'[d] = job[d]
      BY <1>t, <2>3 DEF Goto
    <3> QED BY <2>1, <3>1, PoolQuiet DEF HasJoined
  <2> QED BY <1>4, <2>2, <2>3 DEF SetFailed
<1>5. CASE SetDeleted(c)
  <2>1. pc[c] = "exec" /\ Return(c) /\ UNCHANGED <<workerStatus, available, cmds>>
    BY <1>5 DEF SetDeleted, workerVars
  <2> QED BY <1>t, <2>1, ReturnSteps, PoolQuiet DEF HasJoined
<1>6. CASE Release(c)
  <2>1. pc[c] = "release" /\ Return(c) /\ UNCHANGED <<workerStatus, available, cmds>>
    BY <1>6 DEF Release, workerVars
  <2> QED BY <1>t, <2>1, ReturnSteps, PoolQuiet DEF HasJoined
<1> QED BY <1>1, <1>2, <1>3, <1>4, <1>5, <1>6 DEF SetTaskStatus

\* The next target, or the end of the call.
LEMMA NextTargetFacts ==
  ASSUME TypeInv, NEW o \in Operators, NEW w \in Workers, NextTarget(o, w)
  PROVE  \A d \in Clients \ {o} : pc'[d] = pc[d] /\ job'[d] = job[d]
<1> o \in Clients BY ClientsFacts
<1>1. CASE Return(o) BY <1>1, ReturnSteps
<1>2. CASE job' = [job EXCEPT ![o].targets = job[o].targets \ {w}] /\ Goto(o, "wcheck")
  BY <1>2 DEF TypeInv, TypeOK, Goto
<1> QED BY <1>1, <1>2 DEF NextTarget

\* set_worker_status: a worker is withdrawn by the step after which its server
\* is about to be told, and then is told.
LEMMA PoolWorkerStatus ==
  ASSUME PoolInv, TypeInv', NEW o \in Operators, SetWorkerStatus(o) PROVE PoolInv'
<1> o \in Clients /\ o \notin Workers BY ClientsFacts
<1>t. /\ pc \in [Clients -> WorkerSteps \cup OperatorSteps \cup CallSteps]
      /\ job \in [Clients -> Jobs]
      /\ cmds \in Seq(Commands)
      /\ available \subseteq Workers
      /\ TypeInv
  BY DEF PoolInv, TypeInv, TypeOK
<1>1. CASE WithdrawWorker(o)
  <2>1. /\ available' = available \ {job[o].by}
        /\ pc[o] = "wsrem" /\ pc' = [pc EXCEPT ![o] = "wcmd"]
        /\ UNCHANGED <<job, workerStatus, cmds>>
    BY <1>1 DEF WithdrawWorker, Goto
  <2>2. \A w \in Workers : pc'[w] = pc[w] BY <1>t, <2>1, ClientsFacts
  <2>3. \A w \in Workers : Commanded(w) => Commanded(w)'
    BY <1>t, <2>1, ClientsFacts DEF Commanded
  <2>4. pc'[o] = "wcmd" BY <1>t, <2>1
  <2>5. Commanded(job[o].by)' BY <2>1, <2>4 DEF Commanded
  <2> QED BY <2>1, <2>2, <2>3, <2>5 DEF PoolInv, WithdrawnKnown, HasJoined
<1>2. ASSUME NEW w \in Workers, CheckWorker(o, w) PROVE PoolInv'
  <2>1. pc[o] = "wcheck" /\ UNCHANGED <<workerStatus, available, cmds>>
    BY <1>2 DEF CheckWorker, workerVars
  <2>2. CASE NextTarget(o, w)
    BY <1>t, <2>1, <2>2, NextTargetFacts, PoolQuiet
  <2>3. CASE job' = [job EXCEPT ![o].by = w] /\ Goto(o, "wsrem")
    <3>1. \A d \in Clients \ {o} : pc'[d] = pc[d] /\ job'[d] = job[d]
      BY <1>t, <2>3 DEF Goto
    <3> QED BY <2>1, <3>1, PoolQuiet
  <2> QED BY <1>2, <2>2, <2>3 DEF CheckWorker
<1>3. ASSUME NEW w \in Workers, CommandServer(o, w) PROVE PoolInv'
  <2> DEFINE m == [op |-> WorkerRequest(o), worker |-> w]
  <2>1. /\ cmds' = LPush(cmds, m) /\ w = job[o].by
        /\ UNCHANGED <<workerStatus, available>>
        /\ NextTarget(o, w)
    BY <1>3 DEF CommandServer
  <2>2. \A d \in Clients \ {o} : pc'[d] = pc[d] /\ job'[d] = job[d]
    BY <1>t, <2>1, NextTargetFacts
  <2>3. \A v \in Workers : pc'[v] = pc[v] BY <2>2, ClientsFacts
  <2>4. m.worker = w OBVIOUS
  <2> HIDE DEF m
  <2>5. /\ cmds' = <<m>> \o cmds /\ Len(cmds) \in Nat
        /\ DOMAIN cmds = 1..Len(cmds)
    BY <1>t, <2>1 DEF LPush
  <2>6. /\ 1 \in DOMAIN cmds' /\ cmds'[1] = m
        /\ \A i \in DOMAIN cmds : i + 1 \in DOMAIN cmds' /\ cmds'[i + 1] = cmds[i]
    <3>1. <<m>> \o cmds = [i \in 1..(1 + Len(cmds)) |-> IF i = 1 THEN m ELSE cmds[i - 1]]
      BY <2>5
    <3> QED BY <2>5, <3>1
  <2>7. Commanded(w)' BY <2>4, <2>6 DEF Commanded
  <2>8. ASSUME NEW v \in Workers, Commanded(v) PROVE Commanded(v)'
    <3>1. ASSUME NEW i \in DOMAIN cmds, cmds[i].worker = v PROVE Commanded(v)'
      BY <2>6, <3>1 DEF Commanded
    <3>2. ASSUME NEW p \in Operators, pc[p] = "wcmd", job[p].by = v PROVE Commanded(v)'
      <4>1. CASE p = o BY <2>1, <2>7, <3>2, <4>1
      <4>2. CASE p # o BY <2>2, <3>2, <4>2, ClientsFacts DEF Commanded
      <4> QED BY <4>1, <4>2
    <3> QED BY <2>8, <3>1, <3>2 DEF Commanded
  <2> QED BY <2>1, <2>3, <2>8 DEF PoolInv, WithdrawnKnown, HasJoined
<1> QED BY <1>1, <1>2, <1>3 DEF SetWorkerStatus

LEMMA PoolNext == PoolInv /\ [Next]_vars => PoolInv'
<1> SUFFICES ASSUME PoolInv, [Next]_vars PROVE PoolInv' OBVIOUS
<1>t. TypeInv /\ TypeInv' BY TypeNext DEF PoolInv
<1>p. /\ pc \in [Clients -> WorkerSteps \cup OperatorSteps \cup CallSteps]
      /\ job \in [Clients -> Jobs]
      /\ workerStatus \in [Workers -> WorkerStatuses]
  BY <1>t DEF TypeInv, TypeOK
<1>u. ASSUME UNCHANGED <<pc, job, workerStatus, available, cmds>> PROVE PoolInv'
  BY <1>t, <1>u DEF PoolInv, WithdrawnKnown, HasJoined, Commanded
<1>1. CASE Submit
  BY <1>1, <1>u DEF Submit, NewTask, clientVars, workerVars
<1>2. ASSUME NEW w \in Workers, WorkerLoop(w) PROVE PoolInv' BY <1>t, <1>2, PoolWorker
<1>3. ASSUME NEW c \in Clients, SetTaskStatus(c) PROVE PoolInv' BY <1>t, <1>3, PoolTaskStatus
<1>4. ASSUME NEW o \in Operators, SetWorkerStatus(o) PROVE PoolInv'
  BY <1>t, <1>4, PoolWorkerStatus
<1>5. ASSUME NEW o \in Operators, Ask(o) PROVE PoolInv'
  <2> o \in Clients /\ o \notin Workers BY ClientsFacts
  <2>1. ASSUME NEW t, NEW r, NEW force, AskTask(o, t, r, force) PROVE PoolInv'
    <3>1. /\ pc[o] = "idle"
          /\ \A d \in Clients \ {o} : pc'[d] = pc[d] /\ job'[d] = job[d]
          /\ UNCHANGED <<workerStatus, available, cmds>>
      BY <1>p, <2>1 DEF AskTask, Goto, workerVars
    <3> QED BY <1>t, <3>1, PoolQuiet
  <2>2. ASSUME NEW r, AskWorkers(o, r) PROVE PoolInv'
    <3>1. /\ pc[o] = "idle"
          /\ \A d \in Clients \ {o} : pc'[d] = pc[d] /\ job'[d] = job[d]
          /\ UNCHANGED <<workerStatus, available, cmds>>
      BY <1>p, <2>2 DEF AskWorkers, Goto, workerVars
    <3> QED BY <1>t, <3>1, PoolQuiet
  <2>3. ASSUME NEW l, AskClear(o, l) PROVE PoolInv'
    BY <1>u, <2>3 DEF AskClear, clientVars, workerVars
  <2> QED BY <1>5, <2>1, <2>2, <2>3 DEF Ask
<1>6. ASSUME NEW w \in Workers, NEW s \in {"starting", "restart", "dead"}, ServerWrites(w, s)
      PROVE  PoolInv'
  <2>1. /\ workerStatus' = [workerStatus EXCEPT ![w] = s]
        /\ UNCHANGED <<pc, job, available, cmds>>
    BY <1>6 DEF ServerWrites, clientVars
  <2>2. /\ \A v \in Workers : v # w => workerStatus'[v] = workerStatus[v]
        /\ workerStatus'[w] # "active"
    BY <1>p, <2>1
  <2>3. \A v \in Workers : HasJoined(v)' => HasJoined(v) BY <2>1 DEF HasJoined
  <2> QED BY <1>t, <2>1, <2>2, <2>3, PoolStops
<1>7. CASE UNCHANGED vars BY <1>7, <1>u DEF vars, clientVars, workerVars
<1> QED BY <1>1, <1>2, <1>3, <1>4, <1>5, <1>6, <1>7 DEF Next, Serve

\* An active worker that was taken out of available_workers is known to its
\* server, however many operators withdraw it at once and whatever the server
\* writes of it meanwhile.
THEOREM WithdrawnCommanded == Spec => []WithdrawnIsCommanded
<1>1. Spec => []PoolInv BY PoolInit, PoolNext, PTL DEF Spec
<1>2. PoolInv => WithdrawnIsCommanded
  BY DEF PoolInv, WithdrawnKnown, WithdrawnIsCommanded, Commanded, HasJoined
<1> QED BY <1>1, <1>2, PTL

-----------------------------------------------------------------------------
(***************************************************************************)
(* No wake-up is lost and no task is forgotten, for all values of the      *)
(* constants of Cluster.                                                   *)
(*                                                                         *)
(* NoLostWakeup is not inductive: a Release only reaches the tasks that    *)
(* prior_to names, so the invariant says that whoever waits is named       *)
(* (Paired).  InListOfItsStatus is not either: update_dependent_tasks      *)
(* drops a task that LREM does not count exactly once, so the invariant    *)
(* says that pre_pending_tasks holds no task twice (SinglePre), which      *)
(* rests on new task numbers being in no list yet (ListedAreCreated).      *)
(***************************************************************************)
\* Steps of a call or a run that is about the task in the client's job.
TaskSteps == {"run"} \cup CallSteps

\* Steps at which a worker has a task that it has not marked yet.
Performing == {"run", "read", "exec"}

\* What a step that moves no task does to a worker: it may go on with its task,
\* note the task's status, or find that there is nothing to mark.
WorkerMoves(w) ==
  /\ pc'[w] \in Performing => pc[w] \in Performing
  /\ pc[w] \in Performing =>
       /\ job'[w].task = job[w].task
       /\ \/ pc'[w] \in Performing
          \/ /\ pc'[w] = "clear"
             /\ status[job[w].task] = "finished" \/ ~startedOn[job[w].task]
  /\ pc'[w] = "clear" =>
       pc[w] \in Performing \cup {"clear"} /\ job'[w].task = job[w].task
  /\ pc'[w] = "exec" =>
       \/ pc[w] = "exec" /\ job'[w] = job[w]
       \/ job'[w].seen = status[job[w].task]

\* A step that moves no task: it may start, advance or end a call, but it
\* neither begins nor ends a Release, and a MULTI block that needs started_on
\* is reached only by a client that saw it.  Operators start something only if
\* there is something they may ask for.
Quiet ==
  /\ UNCHANGED <<taskVars, historyVars>>
  /\ \A c \in Clients :
       /\ pc'[c] = "release" <=> pc[c] = "release"
       /\ pc[c] = "release" => job'[c].task = job[c].task
       /\ pc'[c] \in TaskSteps =>
            (pc[c] \in TaskSteps /\ job'[c].task = job[c].task) \/ job'[c].task \in Created
       /\ pc'[c] = "exec" /\ job'[c].request \in {"finished", "failed"} =>
            (pc[c] = "exec" /\ job'[c] = job[c]) \/ startedOn[job'[c].task]
       /\ c \in Operators /\ pc[c] = "idle" /\ pc'[c] # "idle" => Requests # {}
       /\ c \in Workers => WorkerMoves(c)

\* A call that returns touches no other client.
LEMMA ReturnFacts ==
  ASSUME TypeInv, NEW c \in Clients, Return(c)
  PROVE  /\ pc'[c] \notin TaskSteps
         /\ \A d \in Clients \ {c} : pc'[d] = pc[d] /\ job'[d] = job[d]
         /\ c \in Workers => pc'[c] = "clear" /\ job'[c] = job[c]
BY DEF TypeInv, TypeOK, Return, Goto, After, TaskSteps, CallSteps

\* A step of one client that moves no task and is not at its Release.
LEMMA QuietStep ==
  ASSUME TypeInv, UNCHANGED <<taskVars, historyVars>>, NEW c \in Clients,
         \A d \in Clients \ {c} : pc'[d] = pc[d] /\ job'[d] = job[d],
         pc[c] # "release", pc'[c] # "release",
         pc'[c] \in TaskSteps =>
            (pc[c] \in TaskSteps /\ job'[c].task = job[c].task) \/ job'[c].task \in Created,
         pc'[c] = "exec" /\ job'[c].request \in {"finished", "failed"} =>
            startedOn[job'[c].task],
         c \in Operators /\ pc[c] = "idle" => Requests # {},
         c \in Workers => WorkerMoves(c)
  PROVE  Quiet
BY DEF Quiet, WorkerMoves, Performing

\* The steps that move tasks, one by one; every other step is quiet.
LEMMA StepCases ==
  ASSUME TypeInv, [Next]_vars
  PROVE  \/ Quiet
         \/ \E t \in Tasks, D \in SUBSET Created, p \in Policies : NewTask(t, D, p)
         \/ \E w \in Workers, t \in Tasks : Pop(w, t)
         \/ \E c \in Clients : \/ SetPending(c) \/ SetFinished(c) \/ SetFailed(c)
                               \/ SetDeleted(c) \/ Release(c)
         \/ Requests # {} /\ \E o \in Operators, l \in ListNames : AskClear(o, l)
<1> USE DEF TypeInv, TypeOK, WorkerMoves, Performing
<1>1. ASSUME NEW w \in Workers, WorkerLoop(w), ~ \E t \in Tasks : Pop(w, t) PROVE Quiet
  <2> w \in Clients BY ClientsFacts
  <2>1. CASE Join(w) BY <2>1, QuietStep DEF Join, Goto, historyVars, TaskSteps, CallSteps
  <2>2. CASE Advertise(w) BY <2>2, QuietStep DEF Advertise, Goto, historyVars, TaskSteps, CallSteps
  <2>3. CASE CheckStatus(w)
    BY <2>3, QuietStep DEF CheckStatus, Goto, historyVars, TaskSteps, CallSteps
  <2>4. CASE PollNothing(w)
    BY <2>4, QuietStep DEF PollNothing, Goto, historyVars, TaskSteps, CallSteps
  <2>5. ASSUME NEW r \in {"finished", "failed"}, RunEnds(w, r) PROVE Quiet
    <3>1. job'[w].task = job[w].task /\ \A d \in Clients \ {w} : job'[d] = job[d]
      BY <2>5 DEF RunEnds, Jobs
    <3> QED BY <2>5, <3>1, QuietStep DEF RunEnds, Goto, historyVars, TaskSteps, CallSteps
  <2>6. CASE ClearCurrentTask(w)
    BY <2>6, QuietStep DEF ClearCurrentTask, Goto, historyVars, TaskSteps, CallSteps
  <2> QED BY <1>1, <2>1, <2>2, <2>3, <2>4, <2>5, <2>6 DEF WorkerLoop
<1>2. ASSUME NEW c \in Clients, ReadTask(c) PROVE Quiet
  <2>1. CASE Refused(job[c].request, job[c].task)
    <3>1. Return(c) BY <1>2, <2>1 DEF ReadTask
    <3>2. c \in Workers => status[job[c].task] = "finished" \/ ~startedOn[job[c].task]
      BY <2>1 DEF Refused, CallsOK
    <3>3. pc[c] = "read" /\ UNCHANGED <<taskVars, historyVars>> BY <1>2 DEF ReadTask
    <3>4. pc'[c] \notin TaskSteps /\ pc'[c] # "exec" /\ pc'[c] # "release"
      BY <3>1, ReturnFacts DEF TaskSteps, CallSteps
    <3>5. /\ \A d \in Clients \ {c} : pc'[d] = pc[d] /\ job'[d] = job[d]
          /\ c \in Workers => pc'[c] = "clear" /\ job'[c] = job[c]
      BY <3>1, ReturnFacts
    <3> QED BY <3>2, <3>3, <3>4, <3>5, QuietStep
  <2>2. CASE ~Refused(job[c].request, job[c].task)
    <3> DEFINE t == job[c].task
               new == [job[c] EXCEPT !.seen = status[t], !.by = runner[t],
                                     !.targets = {runner[t]} \ {NoWorker}]
    <3>1. /\ job' = [job EXCEPT ![c] = new]
          /\ pc' \in {[pc EXCEPT ![c] = "wcheck"], [pc EXCEPT ![c] = "exec"]}
      BY <1>2, <2>2 DEF ReadTask, Goto
    <3>2. new.task = t /\ new.request = job[c].request /\ new.seen = status[t]
      BY DEF Jobs
    <3>3. job[c].request \in {"finished", "failed"} => startedOn[t]
      BY <2>2 DEF Refused
    <3> HIDE DEF new
    <3>4. /\ job'[c].task = t /\ job'[c].request = job[c].request /\ job'[c].seen = status[t]
          /\ \A d \in Clients \ {c} : pc'[d] = pc[d] /\ job'[d] = job[d]
          /\ pc'[c] \in {"wcheck", "exec"} /\ pc[c] = "read"
      BY <1>2, <3>1, <3>2 DEF ReadTask
    <3>5. c \in Workers => pc'[c] = "exec"
      <4>1. c \in Workers => job[c].request # "deleted" BY DEF CallsOK
      <4> QED BY <1>2, <2>2, <4>1 DEF ReadTask, Goto
    <3>6. UNCHANGED <<taskVars, historyVars>> BY <1>2 DEF ReadTask
    <3> QED BY <3>3, <3>4, <3>5, <3>6, QuietStep DEF TaskSteps, CallSteps
  <2> QED BY <2>1, <2>2
<1>3. ASSUME NEW o \in Operators, NEW w \in Workers, NextTarget(o, w),
             pc[o] \in {"wcheck", "wcmd"}, UNCHANGED <<taskVars, historyVars>>
      PROVE  Quiet
  <2> o \in Clients /\ o \notin Workers BY ClientsFacts
  <2>1. CASE Return(o)
    BY <1>3, <2>1, ReturnFacts, QuietStep DEF TaskSteps, CallSteps
  <2>2. CASE ~Return(o)
    <3>1. /\ pc' = [pc EXCEPT ![o] = "wcheck"]
          /\ job' = [job EXCEPT ![o].targets = job[o].targets \ {w}]
      BY <1>3, <2>2 DEF NextTarget, Goto
    <3> QED BY <1>3, <3>1, QuietStep DEF TaskSteps, CallSteps
  <2> QED BY <2>1, <2>2
<1>4. ASSUME NEW o \in Operators, SetWorkerStatus(o) PROVE Quiet
  <2> o \in Clients /\ o \notin Workers BY ClientsFacts
  <2>1. CASE WithdrawWorker(o)
    BY <2>1, QuietStep DEF WithdrawWorker, Goto, TaskSteps, CallSteps
  <2>2. ASSUME NEW w \in Workers, CheckWorker(o, w) PROVE Quiet
    <3>1. CASE NextTarget(o, w) BY <2>2, <3>1, <1>3 DEF CheckWorker
    <3>2. CASE job' = [job EXCEPT ![o].by = w] /\ Goto(o, "wsrem")
      BY <2>2, <3>2, QuietStep DEF CheckWorker, Goto, TaskSteps, CallSteps
    <3> QED BY <2>2, <3>1, <3>2 DEF CheckWorker
  <2>3. ASSUME NEW w \in Workers, CommandServer(o, w) PROVE Quiet
    BY <2>3, <1>3 DEF CommandServer
  <2> QED BY <1>4, <2>1, <2>2, <2>3 DEF SetWorkerStatus
<1>5. ASSUME NEW o \in Operators, Ask(o)
      PROVE  Requests # {} /\ (Quiet \/ \E l \in ListNames : AskClear(o, l))
  <2> o \in Clients /\ o \notin Workers BY ClientsFacts
  <2>1. ASSUME NEW t \in Created, NEW r \in TaskRequests, NEW force \in BOOLEAN,
               AskTask(o, t, r, force), Requests # {}
        PROVE  Quiet
    <3>1. [IdleJob EXCEPT !.task = t, !.request = r, !.force = force].task = t
      BY DEF IdleJob
    <3>2. job'[o].task = t /\ \A d \in Clients \ {o} : job'[d] = job[d]
      BY <2>1, <3>1 DEF AskTask
    <3> QED BY <2>1, <3>2, QuietStep DEF AskTask, Goto, TaskSteps, CallSteps
  <2>2. ASSUME NEW r \in WorkerRequests, AskWorkers(o, r), Requests # {} PROVE Quiet
    BY <2>2, QuietStep DEF AskWorkers, Goto, TaskSteps, CallSteps
  <2>3. ClearableLists \subseteq ListNames BY DEF ClearableLists, ListNames
  <2>4. \A r : Forces(r) \subseteq BOOLEAN BY DEF Forces
  <2>5. Requests # {} BY <1>5 DEF Ask
  <2> QED BY <1>5, <2>1, <2>2, <2>3, <2>4, <2>5 DEF Ask
<1>6. CASE UNCHANGED vars
  BY <1>6 DEF vars, clientVars, Quiet
<1>7. ASSUME NEW w \in Workers, NEW s, ServerWrites(w, s) PROVE Quiet
  BY <1>7 DEF ServerWrites, clientVars, Quiet
<1> QED BY <1>1, <1>2, <1>4, <1>5, <1>6, <1>7 DEF Next, Serve, Submit, SetTaskStatus

-----------------------------------------------------------------------------
ListedAreCreated == \A l \in ListNames : \A x : In(l, x) => x \in Created
CreatedHaveStatus == \A t \in Created : status[t] \in ListNames
WorkIsOnCreated == \A c \in Clients : pc[c] \in TaskSteps => job[c].task \in Created
SinglePre == \A x : Single("pre_pending", x)
Paired == \A t \in Tasks : \A d \in dependencies[t] : t \in priorTo[d]

WakeupInv ==
  /\ TypeInv
  /\ ListedAreCreated
  /\ CreatedHaveStatus
  /\ WorkIsOnCreated
  /\ SinglePre
  /\ Paired
  /\ PrePendingWaits
  /\ NoLostWakeup
  /\ InListOfItsStatus

LEMMA WakeupInit == Init => WakeupInv
<1> SUFFICES ASSUME Init PROVE WakeupInv OBVIOUS
<1>1. TypeInv BY TypeInit
<1>2. "pre_pending" \in ListNames BY DEF ListNames
<1>3. \A l \in ListNames : \A x : ~In(l, x) /\ Single(l, x)
  BY TaskInitFacts DEF Init
<1>4. Created = {} BY DEF Init, TaskInit, Created, Tasks
<1>5. \A t \in Tasks : dependencies[t] = {} BY DEF Init, TaskInit
<1>6. WorkIsOnCreated
  BY DEF Init, WorkIsOnCreated, TaskSteps, CallSteps
<1> QED
  BY <1>1, <1>2, <1>3, <1>4, <1>5, <1>6
  DEF WakeupInv, ListedAreCreated, CreatedHaveStatus, SinglePre, Paired, PrePendingWaits,
      NoLostWakeup, InListOfItsStatus, In

\* A quiet step changes nothing the invariant is about.
LEMMA WakeupQuiet == ASSUME WakeupInv, TypeInv', Quiet PROVE WakeupInv'
<1>1. UNCHANGED <<tasksCount, lists, status, dependencies, priorTo, removed>>
  BY DEF Quiet, taskVars, historyVars
<1>2. Created' = Created BY <1>1 DEF Created
<1>3. WorkIsOnCreated' BY <1>2 DEF WakeupInv, WorkIsOnCreated, Quiet
<1>4. \A d \in Tasks : Releasing(d) => Releasing(d)'
  BY DEF Quiet, Releasing
<1>5. NoLostWakeup'
  BY <1>1, <1>4 DEF WakeupInv, NoLostWakeup, TypeInv, TypeOK, TaskTypeOK
<1> QED
  BY <1>1, <1>2, <1>3, <1>5
  DEF WakeupInv, ListedAreCreated, CreatedHaveStatus, SinglePre, Paired, PrePendingWaits,
      InListOfItsStatus, In, Single

\* add_task.lua: the new task waits for unfinished requirements only.
LEMMA WakeupNewTask ==
  ASSUME WakeupInv, TypeInv', NEW t \in Tasks, NEW D \in SUBSET Created, NEW p \in Policies,
         NewTask(t, D, p)
  PROVE  WakeupInv'
<1> USE DEF WakeupInv
<1>1. /\ TaskTypeOK /\ AddTask(t, D, p)
      /\ UNCHANGED <<pc, job, removed>>
  BY DEF NewTask, TypeInv, TypeOK, clientVars
<1>2. /\ status'[t] \in {"pending", "pre_pending"}
      /\ \A l \in ListNames : \A x : InNext(l, x) <=> In(l, x) \/ (x = t /\ l = status'[t])
      /\ \A l \in ListNames : \A x : Single(l, x) /\ ~In(l, t) => SingleNext(l, x)
  BY <1>1, AddTaskFacts
<1>3. t \notin Created /\ Created' = Created \cup {t} /\ Created \subseteq Tasks
  BY <1>1 DEF AddTask, Created, TaskTypeOK, Tasks
<1>4. /\ \A u \in Tasks \ {t} : status'[u] = status[u] /\ dependencies'[u] = dependencies[u]
      /\ dependencies'[t] = Unfinished(D)
      /\ status'[t] = IF Unfinished(D) = {} THEN "pending" ELSE "pre_pending"
      /\ \A d \in Tasks : priorTo'[d] = IF d \in Unfinished(D) THEN priorTo[d] \cup {t}
                                                               ELSE priorTo[d]
  BY <1>1 DEF AddTask, TaskTypeOK
<1>5. "pending" \in ListNames /\ "pre_pending" \in ListNames BY DEF ListNames
<1>6. Unfinished(D) \subseteq Created /\ \A d \in Unfinished(D) : status[d] # "finished"
  BY DEF Unfinished
<1>7. ListedAreCreated'
  BY <1>2, <1>3 DEF ListedAreCreated, In, InNext
<1>8. CreatedHaveStatus'
  BY <1>2, <1>3, <1>4, <1>5 DEF CreatedHaveStatus
<1>9. WorkIsOnCreated'
  BY <1>1, <1>3 DEF WorkIsOnCreated
<1>10. SinglePre'
  BY <1>2, <1>3, <1>5 DEF SinglePre, ListedAreCreated, Single, SingleNext
<1>11. Paired'
  <2> SUFFICES ASSUME NEW u \in Tasks, NEW d \in dependencies'[u] PROVE u \in priorTo'[d]
    BY DEF Paired
  <2>1. CASE u = t BY <2>1, <1>3, <1>4, <1>6
  <2>2. CASE u # t
    <3>1. d \in dependencies[u] /\ d \in Tasks BY <2>2, <1>1, <1>4 DEF TaskTypeOK
    <3> QED BY <3>1, <1>4 DEF Paired
  <2> QED BY <2>1, <2>2
<1>12. PrePendingWaits'
  <2> SUFFICES ASSUME NEW u \in Range(lists'["pre_pending"]) PROVE dependencies'[u] # {}
    <3>1. \A u \in Range(lists'["pre_pending"]) : u \in Tasks
      BY <1>3, <1>5, <1>7 DEF ListedAreCreated, In
    <3> QED BY <3>1, <1>11 DEF PrePendingWaits, Paired
  <2>1. u \in Created' BY <1>5, <1>7 DEF ListedAreCreated, In
  <2>2. In("pre_pending", u) \/ (u = t /\ status'[t] = "pre_pending")
    BY <1>2, <1>5 DEF InNext
  <2>3. CASE u = t
    BY <2>2, <2>3, <1>3, <1>4, <1>5 DEF ListedAreCreated
  <2>4. CASE u # t
    BY <2>1, <2>2, <2>4, <1>3, <1>4 DEF PrePendingWaits, In
  <2> QED BY <2>3, <2>4
<1>13. NoLostWakeup'
  <2> SUFFICES ASSUME NEW u \in Tasks, NEW d \in dependencies'[u], status'[d] = "finished"
               PROVE  Releasing(d)'
    BY DEF NoLostWakeup
  <2>1. d # t BY <1>2
  <2>2. CASE u = t BY <2>1, <2>2, <1>3, <1>4, <1>6
  <2>3. CASE u # t
    <3>1. d \in dependencies[u] /\ d \in Tasks BY <2>3, <1>1, <1>4 DEF TaskTypeOK
    <3>2. Releasing(d) BY <3>1, <2>1, <1>4 DEF NoLostWakeup
    <3> QED BY <3>2, <1>1 DEF Releasing
  <2> QED BY <2>2, <2>3
<1>14. InListOfItsStatus'
  <2> SUFFICES ASSUME NEW u \in Created', u \notin removed' PROVE InNext(status'[u], u)
    BY DEF InListOfItsStatus, InNext
  <2>1. CASE u = t BY <2>1, <1>2, <1>5
  <2>2. CASE u # t
    <3>1. u \in Created /\ status'[u] = status[u] /\ status[u] \in ListNames
      BY <2>2, <1>3, <1>4 DEF CreatedHaveStatus
    <3> QED BY <3>1, <1>1, <1>2 DEF InListOfItsStatus, In
  <2> QED BY <2>1, <2>2
<1> QED BY <1>7, <1>8, <1>9, <1>10, <1>11, <1>12, <1>13, <1>14

\* A worker's pop.
LEMMA WakeupPop ==
  ASSUME WakeupInv, TypeInv', NEW w \in Workers, NEW t \in Tasks, Pop(w, t)
  PROVE  WakeupInv'
<1> USE DEF WakeupInv
<1>1. /\ TaskTypeOK /\ PopPending(w, t) /\ w \in Clients
      /\ removed' = removed \ {t} /\ pc[w] = "poll"
      /\ pc' = [pc EXCEPT ![w] = "run"] /\ job' = [job EXCEPT ![w].task = t]
  BY ClientsFacts DEF Pop, Goto, TypeInv, TypeOK
<1>2. /\ In("pending", t)
      /\ \A x : In("pending", x) <=> InNext("pending", x) \/ x = t
      /\ \A x : InNext("ongoing", x) <=> In("ongoing", x) \/ x = t
      /\ \A l \in ListNames \ {"pending", "ongoing"} : lists'[l] = lists[l]
  BY <1>1, PopPendingFacts
<1>3. UNCHANGED <<tasksCount, dependencies, priorTo>> /\ Created' = Created
      /\ status' = [status EXCEPT ![t] = "ongoing"]
  BY <1>1 DEF PopPending, Created
<1>4. {"pending", "ongoing", "pre_pending"} \subseteq ListNames BY DEF ListNames
<1>5. ListedAreCreated'
  BY <1>2, <1>3, <1>4 DEF ListedAreCreated, In, InNext
<1>6. CreatedHaveStatus'
  BY <1>1, <1>3, <1>4 DEF CreatedHaveStatus, TaskTypeOK, Created
<1>7. WorkIsOnCreated'
  BY <1>1, <1>2, <1>3, <1>4 DEF WorkIsOnCreated, ListedAreCreated, TypeInv, TypeOK, Jobs
<1>8. lists'["pre_pending"] = lists["pre_pending"] BY <1>2, <1>4
<1>9. SinglePre' /\ Paired' /\ PrePendingWaits'
  BY <1>3, <1>8 DEF SinglePre, Single, Paired, PrePendingWaits
<1>10. \A d \in Tasks : Releasing(d) => Releasing(d)'
  BY <1>1 DEF Releasing, TypeInv, TypeOK
<1>11. NoLostWakeup'
  BY <1>1, <1>3, <1>10 DEF NoLostWakeup, TaskTypeOK
<1>12. InListOfItsStatus'
  <2> SUFFICES ASSUME NEW u \in Created, u \notin removed' PROVE InNext(status'[u], u)
    BY <1>3 DEF InListOfItsStatus, InNext
  <2>1. CASE u = t BY <2>1, <1>1, <1>2, <1>3 DEF TaskTypeOK
  <2>2. CASE u # t
    <3>1. u \notin removed /\ status'[u] = status[u] /\ status[u] \in ListNames
      BY <2>2, <1>1, <1>3 DEF CreatedHaveStatus, TaskTypeOK, Created
    <3>2. In(status[u], u) BY <3>1 DEF InListOfItsStatus, In
    <3>3. CASE status[u] \in {"pending", "ongoing"} BY <2>2, <3>1, <3>2, <3>3, <1>2
    <3>4. CASE status[u] \notin {"pending", "ongoing"}
      BY <3>1, <3>2, <3>4, <1>2 DEF In, InNext
    <3> QED BY <3>3, <3>4
  <2> QED BY <2>1, <2>2
<1> QED BY <1>5, <1>6, <1>7, <1>9, <1>11, <1>12

\* A MULTI block of set_task_status: what it does to the lists is the same for
\* all of them; what the client does next differs.
LEMMA WakeupRelist ==
  ASSUME WakeupInv, TypeInv', NEW c \in Clients, pc[c] = "exec",
         NEW to \in {"pending", "finished", "failed"},
         Relist(job[c].task, job[c].seen, to), removed' = removed \ {job[c].task},
         \A d \in Clients \ {c} : pc'[d] = pc[d] /\ job'[d] = job[d],
         pc'[c] \in TaskSteps => job'[c].task = job[c].task,
         to = "finished" => pc'[c] = "release" /\ job'[c].task = job[c].task
  PROVE  WakeupInv'
<1> USE DEF WakeupInv
<1> DEFINE t == job[c].task
           from == job[c].seen
<1>1. TaskTypeOK /\ t \in Tasks /\ from \in Statuses /\ to \in ListNames /\ t \in Created
      /\ "pre_pending" \in ListNames
  BY DEF TypeInv, TypeOK, Jobs, ListNames, WorkIsOnCreated, TaskSteps, CallSteps
<1>2. Relist(t, from, to) /\ removed' = removed \ {t} OBVIOUS
<1> HIDE DEF from
<1>3. /\ \A l \in ListNames : \A x :
           InNext(l, x) <=> (l = to /\ x = t) \/ (In(l, x) /\ ~(l = from /\ x = t))
      /\ \A l \in ListNames : \A x :
           Single(l, x) /\ ~(x = t /\ l = to /\ from # to /\ In(to, t)) => SingleNext(l, x)
  <2> HIDE DEF t
  <2> QED BY <1>1, <1>2, RelistFacts
<1>4. UNCHANGED <<tasksCount, dependencies, priorTo>> /\ Created' = Created
      /\ status' = [status EXCEPT ![t] = to]
  BY <1>2 DEF Relist, Created
<1>5. ListedAreCreated' BY <1>1, <1>3, <1>4 DEF ListedAreCreated, In, InNext
<1>6. CreatedHaveStatus' BY <1>1, <1>4 DEF CreatedHaveStatus, TaskTypeOK, Created
<1>7. WorkIsOnCreated' BY <1>1, <1>4 DEF WorkIsOnCreated
<1>8. SinglePre' BY <1>1, <1>3 DEF SinglePre, Single, SingleNext
<1>9. Paired' /\ PrePendingWaits'
  BY <1>1, <1>3, <1>4 DEF Paired, PrePendingWaits, In, InNext
<1>10. NoLostWakeup'
  <2> SUFFICES ASSUME NEW u \in Tasks, NEW d \in dependencies[u], status'[d] = "finished"
               PROVE  Releasing(d)'
    BY <1>4 DEF NoLostWakeup
  <2>1. CASE d = t
    <3>1. to = "finished" BY <2>1, <1>1, <1>4 DEF TaskTypeOK
    <3> QED BY <2>1, <3>1 DEF Releasing
  <2>2. CASE d # t
    <3>1. d \in Tasks /\ status[d] = "finished" BY <2>2, <1>1, <1>4 DEF TaskTypeOK
    <3>2. PICK e \in Clients : pc[e] = "release" /\ job[e].task = d
      BY <3>1 DEF NoLostWakeup, Releasing
    <3> QED BY <3>2 DEF Releasing
  <2> QED BY <2>1, <2>2
<1>11. InListOfItsStatus'
  <2> SUFFICES ASSUME NEW u \in Created, u \notin removed' PROVE InNext(status'[u], u)
    BY <1>4 DEF InListOfItsStatus, InNext
  <2>1. CASE u = t BY <2>1, <1>1, <1>3, <1>4 DEF TaskTypeOK
  <2>2. CASE u # t
    <3>1. u \notin removed /\ status'[u] = status[u] /\ status[u] \in ListNames
      BY <2>2, <1>1, <1>2, <1>4 DEF CreatedHaveStatus, TaskTypeOK, Created
    <3>2. In(status[u], u) BY <3>1 DEF InListOfItsStatus, In
    <3> QED BY <2>2, <3>1, <3>2, <1>3
  <2> QED BY <2>1, <2>2
<1> QED BY <1>5, <1>6, <1>7, <1>8, <1>9, <1>10, <1>11

\* update_dependent_tasks.lua: nobody waits for d afterwards.
LEMMA WakeupRelease ==
  ASSUME WakeupInv, TypeInv', NEW c \in Clients, Release(c)
  PROVE  WakeupInv'
<1> USE DEF WakeupInv
<1> DEFINE d == job[c].task
<1>1. /\ TaskTypeOK /\ d \in Tasks /\ UpdateDependentTasks(d)
      /\ removed' = removed \ Released(d)
      /\ pc'[c] \notin TaskSteps
      /\ \A e \in Clients \ {c} : pc'[e] = pc[e] /\ job'[e] = job[e]
  BY ReturnFacts DEF Release, TypeInv, TypeOK, Jobs
<1> HIDE DEF d
<1>2. /\ Released(d) \subseteq Unblocked(d) /\ Unblocked(d) \subseteq Tasks
      /\ \A x : x \in Released(d) <=>
                  x \in Unblocked(d) /\ In("pre_pending", x) /\ Single("pre_pending", x)
      /\ \A x : InNext("pre_pending", x) <=> In("pre_pending", x) /\ x \notin Unblocked(d)
      /\ \A x : InNext("pending", x) <=> In("pending", x) \/ x \in Released(d)
      /\ \A l \in ListNames \ {"pre_pending", "pending"} : lists'[l] = lists[l]
      /\ \A l \in ListNames : \A x :
           Single(l, x) /\ ~(x \in Released(d) /\ In("pending", x)) => SingleNext(l, x)
  BY <1>1, UpdateFacts
<1>3. /\ UNCHANGED <<tasksCount, priorTo>> /\ Created' = Created
      /\ \A t \in Tasks : status'[t] = IF t \in Released(d) THEN "pending" ELSE status[t]
      /\ \A t \in Tasks : dependencies'[t] = IF t \in priorTo[d] THEN dependencies[t] \ {d}
                                                                 ELSE dependencies[t]
  BY <1>1 DEF UpdateDependentTasks, Created
<1>4. "pre_pending" \in ListNames /\ "pending" \in ListNames BY DEF ListNames
<1>5. ListedAreCreated'
  BY <1>2, <1>3, <1>4 DEF ListedAreCreated, In, InNext
<1>6. CreatedHaveStatus' BY <1>3, <1>4 DEF CreatedHaveStatus, Created
<1>7. WorkIsOnCreated' BY <1>1, <1>3 DEF WorkIsOnCreated
<1>8. SinglePre'
  <2> SUFFICES ASSUME NEW x PROVE SingleNext("pre_pending", x)
    BY DEF SinglePre, Single, SingleNext
  <2>1. Single("pre_pending", x) BY DEF SinglePre
  <2>2. CASE x \in Released(d)
    <3>1. ~InNext("pre_pending", x) BY <2>2, <1>2
    <3>2. lists'["pre_pending"] \in Seq(Tasks) BY <1>4 DEF TypeInv, TypeOK, TaskTypeOK
    <3> QED BY <3>1, <3>2, RangeOfSeq DEF SingleNext, InNext, AtMostOnce
  <2>3. CASE x \notin Released(d) BY <2>1, <2>3, <1>2, <1>4
  <2> QED BY <2>2, <2>3
<1>9. Paired'
  BY <1>1, <1>3 DEF Paired, TaskTypeOK
<1>10. PrePendingWaits'
  <2> SUFFICES ASSUME NEW u \in Range(lists'["pre_pending"]) PROVE dependencies'[u] # {}
    <3>1. \A u \in Range(lists'["pre_pending"]) : u \in Tasks
      BY <1>4, <1>5 DEF ListedAreCreated, In, Created
    <3> QED BY <3>1, <1>9 DEF PrePendingWaits, Paired
  <2>1. In("pre_pending", u) /\ u \notin Unblocked(d) BY <1>2 DEF InNext
  <2>2. u \in Tasks /\ dependencies[u] # {}
    BY <2>1, <1>4 DEF PrePendingWaits, ListedAreCreated, Created, In
  <2> QED BY <2>1, <2>2, <1>3 DEF Unblocked
<1>11. NoLostWakeup'
  <2> SUFFICES ASSUME NEW u \in Tasks, NEW e \in dependencies'[u], status'[e] = "finished"
               PROVE  Releasing(e)'
    BY DEF NoLostWakeup
  <2>1. e \in dependencies[u] /\ e \in Tasks /\ e # d
    BY <1>1, <1>3 DEF Paired, TaskTypeOK
  <2>2. status[e] = "finished" BY <2>1, <1>3
  <2>3. PICK b \in Clients : pc[b] = "release" /\ job[b].task = e
    BY <2>1, <2>2 DEF NoLostWakeup, Releasing
  <2>4. b # c BY <2>1, <2>3 DEF d
  <2> QED BY <2>3, <2>4, <1>1 DEF Releasing
<1>12. InListOfItsStatus'
  <2> SUFFICES ASSUME NEW u \in Created, u \notin removed' PROVE InNext(status'[u], u)
    BY <1>3 DEF InListOfItsStatus, InNext
  <2> u \in Tasks BY DEF Created
  <2>1. CASE u \in Released(d) BY <2>1, <1>2, <1>3
  <2>2. CASE u \notin Released(d)
    <3>1. u \notin removed /\ status'[u] = status[u] /\ status[u] \in ListNames
      BY <2>2, <1>1, <1>3 DEF CreatedHaveStatus
    <3>2. In(status[u], u) BY <3>1 DEF InListOfItsStatus, In
    <3>3. CASE status[u] = "pre_pending"
      <4>1. u \notin Unblocked(d) BY <2>2, <3>2, <3>3, <1>2 DEF SinglePre
      <4> QED BY <4>1, <3>1, <3>2, <3>3, <1>2
    <3>4. CASE status[u] = "pending" BY <3>1, <3>2, <3>4, <1>2
    <3>5. CASE status[u] \notin {"pre_pending", "pending"}
      BY <3>1, <3>2, <3>5, <1>2 DEF In, InNext
    <3> QED BY <3>3, <3>4, <3>5
  <2> QED BY <2>1, <2>2
<1> QED BY <1>5, <1>6, <1>7, <1>8, <1>9, <1>10, <1>11, <1>12

\* 'deleted' of one task, and of a whole list.
LEMMA WakeupDeleted ==
  ASSUME WakeupInv, TypeInv', NEW c \in Clients, SetDeleted(c)
  PROVE  WakeupInv'
<1> USE DEF WakeupInv
<1> DEFINE t == job[c].task
           from == job[c].seen
<1>1. /\ TaskTypeOK /\ t \in Tasks /\ from \in Statuses
      /\ Unlist(t, from) /\ removed' = removed \cup {t} /\ pc[c] = "exec"
      /\ pc'[c] \notin TaskSteps
      /\ \A e \in Clients \ {c} : pc'[e] = pc[e] /\ job'[e] = job[e]
  BY ReturnFacts DEF SetDeleted, TypeInv, TypeOK, Jobs
<1> HIDE DEF t, from
<1>2. /\ \A l \in ListNames : \A x : InNext(l, x) <=> In(l, x) /\ ~(l = from /\ x = t)
      /\ \A l \in ListNames : \A x : Single(l, x) => SingleNext(l, x)
  BY <1>1, UnlistFacts
<1>3. UNCHANGED <<tasksCount, status, dependencies, priorTo>> /\ Created' = Created
  BY <1>1 DEF Unlist, Created
<1>4. "pre_pending" \in ListNames BY DEF ListNames
<1>5. WorkIsOnCreated' BY <1>1, <1>3 DEF WorkIsOnCreated
<1>6. \A d \in Tasks : Releasing(d) => Releasing(d)' BY <1>1 DEF Releasing
<1>7. NoLostWakeup' BY <1>1, <1>3, <1>6 DEF NoLostWakeup, TaskTypeOK
<1>8. ListedAreCreated' /\ CreatedHaveStatus' /\ SinglePre'
  BY <1>2, <1>3, <1>4
  DEF ListedAreCreated, CreatedHaveStatus, SinglePre, In, InNext, Single, SingleNext
<1>9. Paired' /\ PrePendingWaits'
  BY <1>2, <1>3, <1>4 DEF Paired, PrePendingWaits, In, InNext
<1>10. InListOfItsStatus'
  BY <1>1, <1>2, <1>3 DEF InListOfItsStatus, CreatedHaveStatus, In, InNext
<1> QED BY <1>5, <1>7, <1>8, <1>9, <1>10

LEMMA WakeupClear ==
  ASSUME WakeupInv, TypeInv', NEW o \in Operators, NEW k \in ListNames, AskClear(o, k)
  PROVE  WakeupInv'
<1> USE DEF WakeupInv
<1>1. /\ TaskTypeOK /\ ClearList(k) /\ removed' = removed \cup Range(lists[k])
      /\ UNCHANGED <<pc, job>>
  BY DEF AskClear, TypeInv, TypeOK, clientVars
<1>2. /\ \A l \in ListNames : \A x : InNext(l, x) <=> In(l, x) /\ l # k
      /\ \A l \in ListNames : \A x : Single(l, x) => SingleNext(l, x)
  BY <1>1, ClearListFacts
<1>3. UNCHANGED <<tasksCount, status, dependencies, priorTo>> /\ Created' = Created
  BY <1>1 DEF ClearList, Created
<1>4. "pre_pending" \in ListNames BY DEF ListNames
<1>5. WorkIsOnCreated' /\ NoLostWakeup'
  BY <1>1, <1>3 DEF WorkIsOnCreated, NoLostWakeup, Releasing
<1>6. ListedAreCreated' /\ CreatedHaveStatus' /\ SinglePre'
  BY <1>2, <1>3, <1>4
  DEF ListedAreCreated, CreatedHaveStatus, SinglePre, In, InNext, Single, SingleNext
<1>7. Paired' /\ PrePendingWaits'
  BY <1>2, <1>3, <1>4 DEF Paired, PrePendingWaits, In, InNext
<1>8. InListOfItsStatus'
  BY <1>1, <1>2, <1>3 DEF InListOfItsStatus, CreatedHaveStatus, In, InNext
<1> QED BY <1>5, <1>6, <1>7, <1>8

LEMMA WakeupNext == WakeupInv /\ [Next]_vars => WakeupInv'
<1> SUFFICES ASSUME WakeupInv, [Next]_vars PROVE WakeupInv' OBVIOUS
<1>1. TypeInv /\ TypeInv' BY TypeNext DEF WakeupInv
<1>2. ASSUME NEW c \in Clients, SetPending(c) PROVE WakeupInv'
  <2>1. Return(c) /\ pc[c] = "exec" /\ Relist(job[c].task, job[c].seen, "pending")
        /\ removed' = removed \ {job[c].task}
    BY <1>2 DEF SetPending, Placed
  <2>2. /\ pc'[c] \notin TaskSteps
        /\ \A d \in Clients \ {c} : pc'[d] = pc[d] /\ job'[d] = job[d]
    BY <2>1, <1>1, ReturnFacts
  <2> QED BY <2>1, <2>2, <1>1, WakeupRelist
<1>3. ASSUME NEW c \in Clients, SetFinished(c) PROVE WakeupInv'
  <2>1. pc[c] = "exec" /\ Relist(job[c].task, job[c].seen, "finished")
        /\ removed' = removed \ {job[c].task}
        /\ pc' = [pc EXCEPT ![c] = "release"] /\ job' = job
    BY <1>3 DEF SetFinished, Placed, Goto
  <2>2. pc'[c] = "release" /\ \A d \in Clients \ {c} : pc'[d] = pc[d] /\ job'[d] = job[d]
    BY <2>1, <1>1 DEF TypeInv, TypeOK
  <2> QED BY <2>1, <2>2, <1>1, WakeupRelist
<1>4. ASSUME NEW c \in Clients, SetFailed(c) PROVE WakeupInv'
  <2>1. pc[c] = "exec" /\ Relist(job[c].task, job[c].seen, "failed")
        /\ removed' = removed \ {job[c].task}
    BY <1>4 DEF SetFailed, Placed
  <2>2. /\ pc'[c] \in TaskSteps => job'[c].task = job[c].task
        /\ \A d \in Clients \ {c} : pc'[d] = pc[d] /\ job'[d] = job[d]
    <3>1. CASE Return(c) BY <3>1, <1>1, ReturnFacts
    <3>2. CASE ~Return(c)
      <4>1. pc' = [pc EXCEPT ![c] = "release"] /\ job' = job
        BY <3>2, <1>4 DEF SetFailed, Goto
      <4> QED BY <4>1, <1>1 DEF TypeInv, TypeOK
    <3> QED BY <3>1, <3>2
  <2> QED BY <2>1, <2>2, <1>1, WakeupRelist
<1> QED
  BY <1>1, <1>2, <1>3, <1>4, StepCases, WakeupQuiet, WakeupNewTask, WakeupPop,
     WakeupRelease, WakeupDeleted, WakeupClear

\* No task is left waiting for requirements that are finished and released: what
\* add_task.lua looks up once, update_dependent_tasks.lua never misses.
THEOREM WakeupSafe == Spec => []NoLostWakeup
<1>1. Spec => []WakeupInv BY WakeupInit, WakeupNext, PTL DEF Spec
<1> QED BY <1>1, PTL DEF WakeupInv

\* A task in pre_pending_tasks has a requirement to wait for, and the release of
\* that requirement will find it.
THEOREM PrePendingSafe == Spec => []PrePendingWaits
<1>1. Spec => []WakeupInv BY WakeupInit, WakeupNext, PTL DEF Spec
<1> QED BY <1>1, PTL DEF WakeupInv

\* A task that was not removed is in the list of its status, however many clients
\* move it at once on a status they read before.
THEOREM NoTaskForgotten == Spec => []InListOfItsStatus
<1>1. Spec => []WakeupInv BY WakeupInit, WakeupNext, PTL DEF Spec
<1> QED BY <1>1, PTL DEF WakeupInv

-----------------------------------------------------------------------------
(***************************************************************************)
(* The cluster implements the gate of TaskGate, for all values of the      *)
(* constants: no task starts before its requirements are settled, unless   *)
(* an operator decided so.                                                 *)
(*                                                                         *)
(* A release opens a task when nothing is left in its :dependencies, so    *)
(* the invariant says that these name every requirement that is not        *)
(* settled (WaitsForUnsettled).  A pop starts what is in pending_tasks and *)
(* looks at nothing else, so it says that this list holds open tasks only  *)
(* (PendingAreOpen).  A task is settled by a client whose MULTI block is   *)
(* still to come, so it says that such a client is right that the task has *)
(* been started (MarkedAreStarted).                                        *)
(***************************************************************************)
OpenTasks == {t \in Created : status[t] # "pre_pending"}

FinishedAreSettled == \A t \in Tasks : status[t] = "finished" => t \in settled
ReleasedAreSettled == \A c \in Clients : pc[c] = "release" => job[c].task \in settled
WaitsForUnsettled == \A t \in Created : required[t] \ settled \subseteq dependencies[t]
OpenJustified == \A t \in OpenTasks \ touched : required[t] \subseteq settled
PendingAreOpen == \A x : In("pending", x) => status[x] # "pre_pending"
StartedAreOpen == \A t \in Tasks : startedOn[t] => t \in OpenTasks
MarkedAreStarted ==
  \A c \in Clients :
    pc[c] = "exec" /\ job[c].request \in {"finished", "failed"} => startedOn[job[c].task]
AskedForSomething == \A o \in Operators : pc[o] # "idle" => Requests # {}

GateInv ==
  /\ WakeupInv
  /\ FinishedAreSettled
  /\ ReleasedAreSettled
  /\ WaitsForUnsettled
  /\ OpenJustified
  /\ PendingAreOpen
  /\ StartedAreOpen
  /\ MarkedAreStarted
  /\ AskedForSomething

LEMMA GateInit == Init => GateInv /\ Gate!Init
<1> SUFFICES ASSUME Init PROVE GateInv /\ Gate!Init OBVIOUS
<1>1. WakeupInv BY WakeupInit
<1>2. Created = {} BY DEF Init, TaskInit, Created, Tasks
<1>3. \A x : ~In("pending", x) BY TaskInitFacts DEF Init, ListNames
<1>4. \A c \in Clients : pc[c] \in {"down", "idle"} BY DEF Init
<1>5. \A o \in Operators : pc[o] = "idle" BY ClientsFacts DEF Init
<1>6. \A t \in Tasks : status[t] = "none" /\ startedOn[t] = FALSE BY DEF Init, TaskInit
<1>7. GateInv
  BY <1>1, <1>2, <1>3, <1>4, <1>5, <1>6
  DEF GateInv, FinishedAreSettled, ReleasedAreSettled, WaitsForUnsettled, OpenJustified,
      PendingAreOpen, StartedAreOpen, MarkedAreStarted, AskedForSomething, OpenTasks
<1>8. Gate!Init
  BY <1>2, <1>6 DEF Gate!Init, Init
<1> QED BY <1>7, <1>8

\* The gate's variables, by the names they have in Cluster.
GateSame == UNCHANGED <<required, Created, OpenTasks, settled, touched>>
            /\ \A t \in Tasks : startedOn'[t] = startedOn[t]

LEMMA GateStutter == ASSUME GateSame PROVE UNCHANGED Gate!vars
BY DEF GateSame, OpenTasks, Gate!vars

LEMMA GateQuiet ==
  ASSUME GateInv, WakeupInv', Quiet
  PROVE  GateInv' /\ UNCHANGED Gate!vars
<1> USE DEF GateInv
<1>1. UNCHANGED <<taskVars, required, settled, touched>> BY DEF Quiet, historyVars
<1>2. UNCHANGED <<tasksCount, lists, status, startedOn, dependencies>> BY <1>1 DEF taskVars
<1>3. Created' = Created /\ OpenTasks' = OpenTasks BY <1>2 DEF Created, OpenTasks
<1>4. UNCHANGED Gate!vars BY <1>1, <1>2, <1>3, GateStutter DEF GateSame
<1>5. ReleasedAreSettled' BY <1>1 DEF Quiet, ReleasedAreSettled
<1>6. MarkedAreStarted' BY <1>2 DEF Quiet, MarkedAreStarted
<1>7. AskedForSomething' BY ClientsFacts DEF Quiet, AskedForSomething
<1>8. FinishedAreSettled' /\ WaitsForUnsettled' /\ OpenJustified' /\ PendingAreOpen' /\ StartedAreOpen'
  BY <1>1, <1>2, <1>3
  DEF FinishedAreSettled, WaitsForUnsettled, OpenJustified, PendingAreOpen, StartedAreOpen, In
<1> QED BY <1>4, <1>5, <1>6, <1>7, <1>8

\* A new task: Create, at once open if add_task.lua found it pending.
LEMMA GateNewTask ==
  ASSUME GateInv, WakeupInv', NEW t \in Tasks, NEW D \in SUBSET Created, NEW p \in Policies,
         NewTask(t, D, p)
  PROVE  GateInv' /\ Gate!Next
<1> USE DEF GateInv, WakeupInv
<1>1. /\ TypeOK /\ TaskTypeOK /\ AddTask(t, D, p)
      /\ required' = [required EXCEPT ![t] = D]
      /\ UNCHANGED <<pc, job, settled, touched, startedOn>>
  BY DEF NewTask, AddTask, TypeInv, TypeOK, clientVars
<1>2. \A l \in ListNames : \A x : InNext(l, x) <=> In(l, x) \/ (x = t /\ l = status'[t])
  BY <1>1, AddTaskFacts
<1>3. t \notin Created /\ Created' = Created \cup {t} /\ Created \subseteq Tasks
  BY <1>1 DEF AddTask, Created, TaskTypeOK, Tasks
<1>4. /\ \A u \in Tasks \ {t} : status'[u] = status[u] /\ dependencies'[u] = dependencies[u]
      /\ dependencies'[t] = Unfinished(D)
      /\ status'[t] = IF Unfinished(D) = {} THEN "pending" ELSE "pre_pending"
      /\ \A u \in Tasks \ {t} : required'[u] = required[u]
      /\ required'[t] = D
  BY <1>1 DEF AddTask, TaskTypeOK, TypeOK
<1>5. D \ settled \subseteq Unfinished(D)
  BY <1>3 DEF Unfinished, FinishedAreSettled
<1>6. OpenTasks' = IF status'[t] = "pending" THEN OpenTasks \cup {t} ELSE OpenTasks
  BY <1>3, <1>4 DEF OpenTasks
<1>7. status'[t] = "pending" => D \subseteq settled BY <1>4, <1>5
<1>8. ASSUME NEW now \in BOOLEAN, now <=> status'[t] = "pending" PROVE Gate!Create(t, D, now)
  <2>1. {u \in Tasks : startedOn'[u]} = {u \in Tasks : startedOn[u]} BY <1>1
  <2> QED BY <1>1, <1>3, <1>6, <1>7, <1>8, <2>1 DEF Gate!Create, OpenTasks
<1>9. Gate!Next
  <2>1. CASE status'[t] = "pending"
    <3>1. Gate!Create(t, D, TRUE) BY <2>1, <1>8
    <3> QED BY <3>1 DEF Gate!Next
  <2>2. CASE status'[t] # "pending"
    <3>1. Gate!Create(t, D, FALSE) BY <2>2, <1>8
    <3> QED BY <3>1 DEF Gate!Next
  <2> QED BY <2>1, <2>2
<1>10. WaitsForUnsettled' /\ OpenJustified'
  BY <1>1, <1>3, <1>4, <1>5, <1>6, <1>7 DEF WaitsForUnsettled, OpenJustified, OpenTasks
<1>11. PendingAreOpen'
  <2> SUFFICES ASSUME NEW x, InNext("pending", x) PROVE status'[x] # "pre_pending"
    BY DEF PendingAreOpen, In, InNext
  <2>1. "pending" \in ListNames BY DEF ListNames
  <2>2. CASE x = t BY <2>2, <2>1, <1>2, <1>3, <1>4 DEF ListedAreCreated, In
  <2>3. CASE x # t
    <3>1. In("pending", x) /\ x \in Tasks
      BY <2>1, <2>3, <1>2, <1>3 DEF ListedAreCreated
    <3> QED BY <3>1, <2>3, <1>4 DEF PendingAreOpen
  <2> QED BY <2>2, <2>3
<1>12. FinishedAreSettled' /\ StartedAreOpen'
  BY <1>1, <1>3, <1>4, <1>6 DEF FinishedAreSettled, StartedAreOpen
<1>13. ReleasedAreSettled' /\ MarkedAreStarted' /\ AskedForSomething'
  BY <1>1 DEF ReleasedAreSettled, MarkedAreStarted, AskedForSomething
<1> QED BY <1>9, <1>10, <1>11, <1>12, <1>13

\* A pop starts a task, and what it pops is open.
LEMMA GatePop ==
  ASSUME GateInv, WakeupInv', NEW w \in Workers, NEW t \in Tasks, Pop(w, t)
  PROVE  GateInv' /\ Gate!Next
<1> USE DEF GateInv, WakeupInv
<1>1. /\ TypeOK /\ TaskTypeOK /\ PopPending(w, t) /\ w \in Clients /\ w \notin Operators
      /\ pc' = [pc EXCEPT ![w] = "run"] /\ job' = [job EXCEPT ![w].task = t]
      /\ UNCHANGED <<required, settled, touched>>
  BY ClientsFacts DEF Pop, Goto, TypeInv, TypeOK
<1>2. /\ In("pending", t)
      /\ \A x : In("pending", x) <=> InNext("pending", x) \/ x = t
  BY <1>1, PopPendingFacts
<1>3. UNCHANGED <<tasksCount, dependencies>> /\ Created' = Created
      /\ status' = [status EXCEPT ![t] = "ongoing"]
      /\ startedOn' = [startedOn EXCEPT ![t] = TRUE]
  BY <1>1 DEF PopPending, Created
<1>4. t \in OpenTasks
  BY <1>2 DEF PendingAreOpen, OpenTasks, ListedAreCreated, ListNames
<1>5. OpenTasks' = OpenTasks
  BY <1>1, <1>3, <1>4 DEF OpenTasks, TaskTypeOK, Created
<1>6. Gate!Start(t)
  <2>1. {u \in Tasks : startedOn'[u]} = {u \in Tasks : startedOn[u]} \cup {t}
    BY <1>1, <1>3 DEF TaskTypeOK
  <2> QED BY <1>1, <1>3, <1>4, <1>5, <2>1 DEF Gate!Start, OpenTasks
<1>7. Gate!Next BY <1>4, <1>6 DEF Gate!Next, OpenTasks
<1>8. \A c \in Clients : pc'[c] \in {"exec", "release"} =>
         pc[c] = pc'[c] /\ job'[c] = job[c]
  BY <1>1 DEF TypeOK
<1>9. ReleasedAreSettled'
  <2> SUFFICES ASSUME NEW c \in Clients, pc'[c] = "release" PROVE job'[c].task \in settled
    BY <1>1 DEF ReleasedAreSettled
  <2> QED BY <1>8 DEF ReleasedAreSettled
<1>10. MarkedAreStarted'
  <2>1. \A u \in Tasks : startedOn[u] => startedOn'[u] BY <1>1, <1>3 DEF TaskTypeOK
  <2>2. \A c \in Clients : job[c].task \in Tasks BY <1>1 DEF TypeOK, Jobs
  <2> QED BY <1>8, <2>1, <2>2 DEF MarkedAreStarted
<1>11. AskedForSomething' BY <1>1, ClientsFacts DEF AskedForSomething, TypeOK
<1>12. FinishedAreSettled' /\ WaitsForUnsettled' /\ OpenJustified' /\ StartedAreOpen'
  BY <1>1, <1>3, <1>4, <1>5
  DEF FinishedAreSettled, WaitsForUnsettled, OpenJustified, StartedAreOpen, TaskTypeOK
<1>13. PendingAreOpen'
  <2> SUFFICES ASSUME NEW x, InNext("pending", x) PROVE status'[x] # "pre_pending"
    BY DEF PendingAreOpen, In, InNext
  <2>1. In("pending", x) BY <1>2
  <2>2. x \in Tasks BY <2>1 DEF ListedAreCreated, ListNames, Created
  <2> QED BY <2>1, <2>2, <1>1, <1>3 DEF PendingAreOpen, TaskTypeOK
<1> QED BY <1>7, <1>9, <1>10, <1>11, <1>12, <1>13

\* A MULTI block of set_task_status: it opens the task, which was open before
\* unless the request is an operator's for 'pending'.
LEMMA GateRelist ==
  ASSUME GateInv, WakeupInv', NEW c \in Clients, pc[c] = "exec",
         NEW to \in {"pending", "finished", "failed"},
         Relist(job[c].task, job[c].seen, to),
         \A d \in Clients \ {c} : pc'[d] = pc[d] /\ job'[d] = job[d],
         pc'[c] # "exec",
         pc'[c] = "release" => job'[c].task = job[c].task /\ job[c].task \in settled',
         settled' = settled \/ settled' = settled \cup {job[c].task},
         required' = required,
         touched \subseteq touched',
         to = "pending" => job[c].task \in touched',
         to = "finished" => job[c].task \in settled',
         to # "pending" => startedOn[job[c].task]
  PROVE  /\ GateInv'
         /\ Created' = Created /\ startedOn' = startedOn
         /\ OpenTasks' = OpenTasks \cup {job[c].task}
         /\ to # "pending" => job[c].task \in OpenTasks
<1> USE DEF GateInv, WakeupInv
<1> DEFINE t == job[c].task
           from == job[c].seen
<1>1. /\ TypeOK /\ TaskTypeOK /\ Relist(t, from, to)
      /\ t \in Tasks /\ from \in Statuses /\ to \in ListNames /\ t \in Created
  BY DEF TypeInv, TypeOK, Jobs, ListNames, WorkIsOnCreated, TaskSteps, CallSteps
<1> HIDE DEF t, from
<1>2. \A l \in ListNames : \A x :
        InNext(l, x) <=> (l = to /\ x = t) \/ (In(l, x) /\ ~(l = from /\ x = t))
  BY <1>1, RelistFacts
<1>3. UNCHANGED <<tasksCount, dependencies, startedOn>> /\ Created' = Created
      /\ status'[t] = to /\ \A u \in Tasks \ {t} : status'[u] = status[u]
  BY <1>1 DEF Relist, Created, TaskTypeOK
<1>4. to # "pending" => t \in OpenTasks BY <1>1 DEF StartedAreOpen, t
<1>5. OpenTasks' = OpenTasks \cup {t} BY <1>1, <1>3 DEF OpenTasks, Created
<1>6. FinishedAreSettled' BY <1>3 DEF FinishedAreSettled, t
<1>7. ReleasedAreSettled'
  <2> SUFFICES ASSUME NEW d \in Clients, pc'[d] = "release" PROVE job'[d].task \in settled'
    BY DEF ReleasedAreSettled
  <2>1. CASE d = c BY <2>1
  <2>2. CASE d # c BY <2>2 DEF ReleasedAreSettled
  <2> QED BY <2>1, <2>2
<1>8. WaitsForUnsettled' BY <1>3 DEF WaitsForUnsettled
<1>9. OpenJustified'
  <2> SUFFICES ASSUME NEW u \in OpenTasks', u \notin touched' PROVE required[u] \subseteq settled'
    BY DEF OpenJustified
  <2>1. u \in OpenTasks
    BY <1>4, <1>5 DEF t
  <2> QED BY <2>1 DEF OpenJustified
<1>10. PendingAreOpen'
  <2> SUFFICES ASSUME NEW x, InNext("pending", x) PROVE status'[x] # "pre_pending"
    BY DEF PendingAreOpen, In, InNext
  <2>1. CASE x = t BY <2>1, <1>3
  <2>2. CASE x # t
    <3>1. In("pending", x) BY <2>2, <1>2 DEF ListNames
    <3>2. x \in Tasks BY <3>1 DEF ListedAreCreated, ListNames, Created
    <3> QED BY <2>2, <3>1, <3>2, <1>3 DEF PendingAreOpen
  <2> QED BY <2>1, <2>2
<1>11. StartedAreOpen' BY <1>3, <1>5 DEF StartedAreOpen
<1>12. MarkedAreStarted' BY <1>3 DEF MarkedAreStarted
<1>13. AskedForSomething' BY ClientsFacts DEF AskedForSomething
<1> QED BY <1>3, <1>4, <1>5, <1>6, <1>7, <1>8, <1>9, <1>10, <1>11, <1>12, <1>13 DEF t

\* An operator's step behind the gate's back: he decided about the tasks of T.
LEMMA GateOverride ==
  ASSUME Requests # {}, NEW T \in SUBSET Created, NEW O \in SUBSET T,
         Created' = Created, required' = required, settled' = settled,
         startedOn' = startedOn, touched' = touched \cup T, OpenTasks' = OpenTasks \cup O
  PROVE  Gate!Next
<1>1. Gate!Override(T, O) BY DEF Gate!Override, OpenTasks
<1> QED BY <1>1 DEF Gate!Next

LEMMA GatePending ==
  ASSUME GateInv, WakeupInv', NEW c \in Clients, SetPending(c)
  PROVE  GateInv' /\ Gate!Next
<1>1. TypeInv /\ c \in Operators /\ job[c].task \in Created /\ Requests # {}
  BY ClientsFacts
  DEF GateInv, WakeupInv, TypeInv, CallsOK, SetPending, WorkIsOnCreated, TaskSteps, CallSteps,
      AskedForSomething
<1>2. /\ pc[c] = "exec" /\ Relist(job[c].task, job[c].seen, "pending") /\ Return(c)
      /\ settled' = settled /\ required' = required /\ touched' = touched \cup {job[c].task}
  BY <1>1 DEF SetPending, Placed
<1>3. pc'[c] \notin TaskSteps /\ \A d \in Clients \ {c} : pc'[d] = pc[d] /\ job'[d] = job[d]
  BY <1>1, <1>2, ReturnFacts
<1>4. pc'[c] # "exec" /\ pc'[c] # "release" BY <1>3 DEF TaskSteps, CallSteps
<1>5. /\ GateInv' /\ Created' = Created /\ startedOn' = startedOn
      /\ OpenTasks' = OpenTasks \cup {job[c].task}
  BY <1>2, <1>3, <1>4, GateRelist
<1> QED BY <1>1, <1>2, <1>5, GateOverride

\* The steps that settle a task: it was started, hence open.
LEMMA GateSettle ==
  ASSUME GateInv, WakeupInv', NEW c \in Clients, SetFinished(c) \/ SetFailed(c)
  PROVE  GateInv' /\ [Gate!Next]_(Gate!vars)
<1> DEFINE t == job[c].task
<1>1. /\ TypeInv /\ t \in Created /\ t \in Tasks /\ startedOn[t] /\ pc[c] = "exec"
      /\ c \in Operators => Requests # {}
  BY DEF GateInv, WakeupInv, TypeInv, SetFinished, SetFailed, WorkIsOnCreated, TaskSteps, CallSteps,
         AskedForSomething, MarkedAreStarted, Created
<1>2. PICK to \in {"finished", "failed"} :
        /\ Relist(t, job[c].seen, to)
        /\ to = "finished" => t \in settled'
  BY DEF SetFinished, SetFailed
<1>3. /\ required' = required
      /\ touched' = IF c \in Operators THEN touched \cup {t} ELSE touched
      /\ settled' = settled \/ settled' = settled \cup {t}
  BY DEF SetFinished, SetFailed, Placed
<1>4. /\ pc'[c] # "exec"
      /\ \A d \in Clients \ {c} : pc'[d] = pc[d] /\ job'[d] = job[d]
      /\ pc'[c] = "release" => job'[c].task = t /\ t \in settled'
  <2>1. CASE Return(c)
    <3>1. pc'[c] \notin TaskSteps /\ \A d \in Clients \ {c} : pc'[d] = pc[d] /\ job'[d] = job[d]
      BY <2>1, <1>1, ReturnFacts
    <3> QED BY <3>1 DEF TaskSteps, CallSteps
  <2>2. CASE ~Return(c)
    <3>1. pc' = [pc EXCEPT ![c] = "release"] /\ job' = job /\ t \in settled'
      BY <2>2 DEF SetFinished, SetFailed, Goto
    <3> QED BY <3>1, <1>1 DEF TypeInv, TypeOK
  <2> QED BY <2>1, <2>2
<1>5. /\ GateInv' /\ Created' = Created /\ startedOn' = startedOn
      /\ OpenTasks' = OpenTasks /\ t \in OpenTasks
  <2>1. touched \subseteq touched' /\ to # "pending" /\ to \in {"pending", "finished", "failed"}
    BY <1>3
  <2>2. GateInv' /\ Created' = Created /\ startedOn' = startedOn
        /\ OpenTasks' = OpenTasks \cup {t} /\ t \in OpenTasks
    BY <1>1, <1>2, <1>3, <1>4, <2>1, GateRelist
  <2> QED BY <2>2
<1> HIDE DEF t
<1>6. CASE settled' = settled \cup {t}
  <2>1. ASSUME NEW override \in BOOLEAN, override <=> c \in Operators
        PROVE  Gate!Next
    <3>1. Gate!Settle(t, override)
      BY <1>1, <1>3, <1>5, <1>6, <2>1 DEF Gate!Settle, OpenTasks
    <3>2. t \in {u \in Tasks : startedOn[u]} BY <1>1
    <3> QED BY <3>1, <3>2 DEF Gate!Next
  <2>2. CASE c \in Operators BY <2>1, <2>2, <1>5
  <2>3. CASE c \notin Operators BY <2>1, <2>3, <1>5
  <2> QED BY <2>2, <2>3
<1>7. CASE settled' = settled
  <2>1. CASE c \in Operators
    <3>1. {t} \in SUBSET Created /\ {} \in SUBSET {t} /\ OpenTasks' = OpenTasks \cup {} BY <1>1, <1>5
    <3>2. Gate!Next BY <3>1, <2>1, <1>1, <1>3, <1>5, <1>7, GateOverride
    <3> QED BY <3>2, <1>5
  <2>2. CASE c \notin Operators
    <3>1. GateSame BY <2>2, <1>3, <1>5, <1>7 DEF GateSame
    <3> QED BY <3>1, <1>5, GateStutter
  <2> QED BY <2>1, <2>2
<1> QED BY <1>3, <1>6, <1>7

\* update_dependent_tasks.lua opens tasks that waited for a settled task only.
LEMMA GateRelease ==
  ASSUME GateInv, WakeupInv', NEW c \in Clients, Release(c)
  PROVE  GateInv' /\ Gate!Next
<1> USE DEF GateInv, WakeupInv
<1> DEFINE d == job[c].task
<1>1. /\ TaskTypeOK /\ d \in Tasks /\ UpdateDependentTasks(d) /\ d \in settled
      /\ UNCHANGED <<required, settled, touched>>
      /\ pc[c] = "release" /\ pc'[c] \notin TaskSteps
      /\ \A e \in Clients \ {c} : pc'[e] = pc[e] /\ job'[e] = job[e]
  BY ReturnFacts DEF Release, TypeInv, TypeOK, Jobs, ReleasedAreSettled
<1> HIDE DEF d
<1>2. /\ Released(d) \subseteq Unblocked(d) /\ Unblocked(d) \subseteq Tasks
      /\ \A x \in Released(d) : In("pre_pending", x)
      /\ \A x : InNext("pending", x) <=> In("pending", x) \/ x \in Released(d)
  BY <1>1, UpdateFacts
<1>3. /\ UNCHANGED <<tasksCount, startedOn>> /\ Created' = Created
      /\ \A t \in Tasks : status'[t] = IF t \in Released(d) THEN "pending" ELSE status[t]
      /\ \A t \in Tasks : dependencies'[t] = IF t \in priorTo[d] THEN dependencies[t] \ {d}
                                                                 ELSE dependencies[t]
  BY <1>1 DEF UpdateDependentTasks, Created
<1>4. Released(d) \subseteq Created
  BY <1>2 DEF ListedAreCreated, ListNames
<1>5. \A t \in Released(d) : required[t] \subseteq settled
  BY <1>1, <1>2, <1>4 DEF WaitsForUnsettled, Unblocked
<1>6. OpenTasks' = OpenTasks \cup Released(d)
  BY <1>3, <1>4 DEF OpenTasks, Created
<1>7. Gate!Next
  <2>1. PICK T \in SUBSET Created : T = Released(d) BY <1>4
  <2>2. Gate!Open(T)
    BY <2>1, <1>1, <1>3, <1>5, <1>6 DEF Gate!Open, OpenTasks
  <2> QED BY <2>2 DEF Gate!Next
<1>8. WaitsForUnsettled' BY <1>1, <1>3 DEF WaitsForUnsettled, Created
<1>9. OpenJustified' BY <1>1, <1>5, <1>6 DEF OpenJustified
<1>10. PendingAreOpen'
  <2> SUFFICES ASSUME NEW x, InNext("pending", x) PROVE status'[x] # "pre_pending"
    BY DEF PendingAreOpen, In, InNext
  <2>1. CASE x \in Released(d) BY <2>1, <1>2, <1>3
  <2>2. CASE x \notin Released(d)
    <3>1. In("pending", x) BY <2>2, <1>2
    <3>2. x \in Tasks BY <3>1 DEF ListedAreCreated, ListNames, Created
    <3> QED BY <2>2, <3>1, <3>2, <1>3 DEF PendingAreOpen
  <2> QED BY <2>1, <2>2
<1>11. FinishedAreSettled' /\ StartedAreOpen'
  BY <1>1, <1>3, <1>6 DEF FinishedAreSettled, StartedAreOpen
<1>12. ReleasedAreSettled' /\ MarkedAreStarted' /\ AskedForSomething'
  BY <1>1, <1>3, ClientsFacts
  DEF ReleasedAreSettled, MarkedAreStarted, AskedForSomething, TaskSteps, CallSteps
<1> QED BY <1>7, <1>8, <1>9, <1>10, <1>11, <1>12

\* Tasks that leave a list, by 'deleted' of one or of all of them.
LEMMA GateLeave ==
  ASSUME GateInv, WakeupInv', Requests # {}, NEW T \in SUBSET Created,
         \A x : InNext("pending", x) => In("pending", x),
         UNCHANGED <<tasksCount, status, startedOn, dependencies, required, settled>>,
         touched' = touched \cup T,
         \A e \in Clients : (pc'[e] = pc[e] /\ job'[e] = job[e]) \/ pc'[e] \notin TaskSteps
  PROVE  GateInv' /\ Gate!Next
<1> USE DEF GateInv
<1>1. Created' = Created /\ OpenTasks' = OpenTasks BY DEF Created, OpenTasks
<1>2. Gate!Next
  <2>1. {} \in SUBSET T /\ OpenTasks' = OpenTasks \cup {} BY <1>1
  <2> QED BY <1>1, <2>1, GateOverride
<1>3. /\ FinishedAreSettled' /\ WaitsForUnsettled' /\ OpenJustified'
      /\ PendingAreOpen' /\ StartedAreOpen'
  BY <1>1
  DEF FinishedAreSettled, WaitsForUnsettled, OpenJustified, PendingAreOpen, StartedAreOpen,
      In, InNext
<1>4. ReleasedAreSettled' /\ MarkedAreStarted' /\ AskedForSomething'
  BY DEF ReleasedAreSettled, MarkedAreStarted, AskedForSomething, TaskSteps, CallSteps
<1> QED BY <1>2, <1>3, <1>4

LEMMA GateDeleted ==
  ASSUME GateInv, WakeupInv', NEW c \in Clients, SetDeleted(c)
  PROVE  GateInv' /\ Gate!Next
<1> DEFINE t == job[c].task
<1>1. /\ TypeInv /\ TaskTypeOK /\ t \in Created /\ t \in Tasks /\ job[c].seen \in Statuses
      /\ c \in Operators /\ Requests # {}
  BY ClientsFacts
  DEF GateInv, WakeupInv, TypeInv, CallsOK, TypeOK, Jobs, SetDeleted, WorkIsOnCreated, TaskSteps,
      CallSteps, AskedForSomething, Created
<1>2. /\ Unlist(t, job[c].seen) /\ Return(c)
      /\ touched' = touched \cup {t} /\ UNCHANGED <<required, settled>>
  BY DEF SetDeleted
<1>3. \A e \in Clients : (pc'[e] = pc[e] /\ job'[e] = job[e]) \/ pc'[e] \notin TaskSteps
  BY <1>1, <1>2, ReturnFacts
<1>4. \A x : InNext("pending", x) => In("pending", x)
  <2> HIDE DEF t
  <2> QED BY <1>1, <1>2, UnlistFacts DEF ListNames
<1>5. {t} \in SUBSET Created /\ UNCHANGED <<tasksCount, status, startedOn, dependencies>>
  BY <1>1, <1>2 DEF Unlist
<1> QED BY <1>1, <1>2, <1>3, <1>4, <1>5, GateLeave

LEMMA GateClear ==
  ASSUME GateInv, WakeupInv', Requests # {}, NEW o \in Operators, NEW k \in ListNames,
         AskClear(o, k)
  PROVE  GateInv' /\ Gate!Next
<1>1. /\ TaskTypeOK /\ ClearList(k) /\ UNCHANGED <<pc, job, required, settled>>
      /\ touched' = touched \cup Range(lists[k])
  BY DEF AskClear, GateInv, WakeupInv, TypeInv, TypeOK, clientVars
<1>2. \A x : InNext("pending", x) => In("pending", x)
  BY <1>1, ClearListFacts DEF ListNames
<1>3. Range(lists[k]) \in SUBSET Created
  BY DEF GateInv, WakeupInv, ListedAreCreated, In
<1>4. UNCHANGED <<tasksCount, status, startedOn, dependencies>> BY <1>1 DEF ClearList
<1> QED BY <1>1, <1>2, <1>3, <1>4, GateLeave

LEMMA GateNext == GateInv /\ [Next]_vars => GateInv' /\ [Gate!Next]_(Gate!vars)
<1> SUFFICES ASSUME GateInv, [Next]_vars PROVE GateInv' /\ [Gate!Next]_(Gate!vars)
  OBVIOUS
<1>1. TypeInv /\ WakeupInv' BY WakeupNext DEF GateInv, WakeupInv
<1>2. ASSUME NEW c \in Clients,
             SetPending(c) \/ SetFinished(c) \/ SetFailed(c) \/ SetDeleted(c) \/ Release(c)
      PROVE  GateInv' /\ [Gate!Next]_(Gate!vars)
  BY <1>1, <1>2, GatePending, GateSettle, GateDeleted, GateRelease
<1> QED
  BY <1>1, <1>2, StepCases, GateQuiet, GateNewTask, GatePop, GateClear

-----------------------------------------------------------------------------
\* The cluster refines the gate: whatever it does, add_task.lua and
\* update_dependent_tasks.lua let a task past pre_pending only when its
\* requirements are settled, and a worker starts no other task.
THEOREM ClusterIsGate == Spec => GateSpec
<1>1. Spec => []GateInv BY GateInit, GateNext, PTL DEF Spec
<1>2. Init => Gate!Init BY GateInit
<1>3. GateInv /\ [Next]_vars => [Gate!Next]_(Gate!vars) BY GateNext
<1> QED BY <1>1, <1>2, <1>3, PTL DEF Spec, GateSpec, Gate!Spec

\* A task that no operator moved is started only after each of its
\* requirements has been finished, or has failed with the policy 'continue'.
THEOREM RequirementsComeFirst == Spec => []RequirementsFirst
<1>1. Spec => []GateInv BY GateInit, GateNext, PTL DEF Spec
<1>2. GateInv => RequirementsFirst
  BY DEF GateInv, StartedAreOpen, OpenJustified, RequirementsFirst
<1> QED BY <1>1, <1>2, PTL

-----------------------------------------------------------------------------
(***************************************************************************)
(* A task that no operator moved is in one list, once, and is performed by *)
(* one worker; its status only goes forward.  For all values of the        *)
(* constants of Cluster.                                                   *)
(*                                                                         *)
(* The MULTI block of a worker removes the task from the list of a status  *)
(* that the worker read earlier.  The invariant says that for such a task  *)
(* the status cannot have changed in between: a worker that is to mark it  *)
(* has seen it ongoing (SeenOngoing), and it is still ongoing and its own  *)
(* (PerformedIsOngoing), because whoever else marks or moves it is either  *)
(* an operator or has popped it, which only an entry of pending_tasks lets *)
(* him do (OnlyInItsList).                                                 *)
(***************************************************************************)
Untouched == Created \ touched

OnlyInItsList ==
  \A t \in Untouched : \A l \in ListNames : (In(l, t) <=> l = status[t]) /\ Single(l, t)
OngoingIsPerformed ==
  \A t \in Untouched : status[t] = "ongoing" =>
    startedOn[t] /\ runner[t] \in Workers /\ Performs(runner[t], t)
PerformedIsOngoing ==
  \A t \in Untouched, w \in Workers : Performs(w, t) => status[t] = "ongoing" /\ runner[t] = w
MarkedIsMarked ==
  \A t \in Untouched, w \in Workers :
    pc[w] \in {"release", "clear"} /\ job[w].task = t
      => status[t] \in {"finished", "failed"} /\ runner[t] = w
SeenOngoing ==
  \A w \in Workers : pc[w] = "exec" /\ job[w].task \notin touched => job[w].seen = "ongoing"
ClearedIsCreated == \A w \in Workers : pc[w] = "clear" => job[w].task \in Created
OthersHaveNoStatus == \A t \in Tasks \ Created : status[t] = "none"

SoleInv ==
  /\ WakeupInv
  /\ OnlyInItsList
  /\ OngoingIsPerformed
  /\ PerformedIsOngoing
  /\ MarkedIsMarked
  /\ SeenOngoing
  /\ ClearedIsCreated
  /\ OthersHaveNoStatus

\* What MovesForward says of one step.
Forward ==
  \A t \in Tasks \ touched' :
    status'[t] # status[t] => <<status[t], status'[t]>> \in Lifecycle

LEMMA SoleInit == Init => SoleInv
<1> SUFFICES ASSUME Init PROVE SoleInv OBVIOUS
<1>1. WakeupInv BY WakeupInit
<1>2. Created = {} BY DEF Init, TaskInit, Created, Tasks
<1>3. \A w \in Workers : pc[w] = "down" BY ClientsFacts DEF Init
<1>4. \A t \in Tasks : status[t] = "none" BY DEF Init, TaskInit
<1> QED
  BY <1>1, <1>2, <1>3, <1>4
  DEF SoleInv, Untouched, OnlyInItsList, OngoingIsPerformed, PerformedIsOngoing, MarkedIsMarked,
      SeenOngoing, ClearedIsCreated, OthersHaveNoStatus

LEMMA SoleQuiet == ASSUME SoleInv, WakeupInv', Quiet PROVE SoleInv' /\ Forward
<1> USE DEF SoleInv
<1>1. UNCHANGED <<tasksCount, lists, status, startedOn, runner, touched>>
  BY DEF Quiet, taskVars, historyVars
<1>2. Created' = Created /\ Untouched' = Untouched BY <1>1 DEF Created, Untouched
<1>3. \A w \in Workers : WorkerMoves(w) /\ w \in Clients BY ClientsFacts DEF Quiet
<1>4. \A w \in Workers : pc'[w] = "release" => pc[w] = "release" /\ job'[w].task = job[w].task
  BY <1>3 DEF Quiet
<1>5. \A w \in Workers : pc[w] \in Performing => job[w].task \in Created
  BY <1>3 DEF WakeupInv, WorkIsOnCreated, Performing, TaskSteps, CallSteps
<1>6. \A t \in Tasks, w \in Workers : Performs(w, t) <=> pc[w] \in Performing /\ job[w].task = t
  BY DEF Performs, Performing
<1>7. \A t \in Tasks, w \in Workers : Performs(w, t)' <=> pc'[w] \in Performing /\ job'[w].task = t
  BY DEF Performs, Performing
<1>8. Untouched \subseteq Tasks BY DEF Untouched, Created
<1>9. OnlyInItsList' /\ OthersHaveNoStatus' /\ Forward
  BY <1>1, <1>2 DEF OnlyInItsList, OthersHaveNoStatus, Forward, In, Single
<1>10. PerformedIsOngoing'
  BY <1>1, <1>2, <1>3, <1>6, <1>7, <1>8 DEF PerformedIsOngoing, WorkerMoves
<1>11. OngoingIsPerformed'
  <2> SUFFICES ASSUME NEW t \in Untouched, status[t] = "ongoing"
               PROVE  startedOn[t] /\ runner[t] \in Workers /\ Performs(runner[t], t)'
    BY <1>1, <1>2 DEF OngoingIsPerformed
  <2>1. startedOn[t] /\ runner[t] \in Workers /\ Performs(runner[t], t)
    BY DEF OngoingIsPerformed
  <2>2. pc'[runner[t]] \in Performing /\ job'[runner[t]].task = t
    BY <2>1, <1>3, <1>6, <1>8 DEF WorkerMoves
  <2> QED BY <2>1, <2>2, <1>1, <1>7, <1>8 DEF Performs, Performing
<1>12. MarkedIsMarked'
  <2> SUFFICES ASSUME NEW t \in Untouched, NEW w \in Workers,
                      pc'[w] \in {"release", "clear"}, job'[w].task = t
               PROVE  status[t] \in {"finished", "failed"} /\ runner[t] = w
    BY <1>1, <1>2 DEF MarkedIsMarked
  <2>1. CASE pc[w] \in {"release", "clear"} /\ job[w].task = t BY <2>1 DEF MarkedIsMarked
  <2>2. CASE pc[w] \in Performing /\ job[w].task = t /\ pc'[w] = "clear"
    <3>1. status[t] = "ongoing" /\ runner[t] = w BY <2>2, <1>6, <1>8 DEF PerformedIsOngoing
    <3>2. startedOn[t] BY <3>1 DEF OngoingIsPerformed
    <3>3. "clear" \notin Performing BY DEF Performing
    <3> QED BY <2>2, <3>1, <3>2, <3>3, <1>3 DEF WorkerMoves
  <2> QED BY <2>1, <2>2, <1>3, <1>4 DEF WorkerMoves
<1>13. SeenOngoing'
  <2> SUFFICES ASSUME NEW w \in Workers, pc'[w] = "exec", job'[w].task \notin touched
               PROVE  job'[w].seen = "ongoing"
    BY <1>1 DEF SeenOngoing
  <2>1. pc[w] \in Performing /\ job'[w].task = job[w].task
    BY <1>3 DEF WorkerMoves, Performing
  <2>2. CASE pc[w] = "exec" /\ job'[w] = job[w] BY <2>2 DEF SeenOngoing
  <2>3. CASE job'[w].seen = status[job[w].task]
    <3>1. job[w].task \in Untouched BY <2>1, <1>5 DEF Untouched
    <3> QED BY <2>1, <2>3, <3>1, <1>6, <1>8 DEF PerformedIsOngoing
  <2> QED BY <2>2, <2>3, <1>3 DEF WorkerMoves
<1>14. ClearedIsCreated'
  BY <1>2, <1>3, <1>5 DEF ClearedIsCreated, WorkerMoves
<1> QED BY <1>9, <1>10, <1>11, <1>12, <1>13, <1>14

\* A new task is in its list only, and nobody performs it.
LEMMA SoleNewTask ==
  ASSUME SoleInv, WakeupInv', NEW t \in Tasks, NEW D \in SUBSET Created, NEW p \in Policies,
         NewTask(t, D, p)
  PROVE  SoleInv' /\ Forward
<1> USE DEF SoleInv
<1>1. /\ TaskTypeOK /\ AddTask(t, D, p) /\ UNCHANGED <<pc, job, touched, startedOn, runner>>
      /\ ListedAreCreated /\ WorkIsOnCreated
  BY DEF NewTask, AddTask, WakeupInv, TypeInv, TypeOK, clientVars
<1>2. /\ status'[t] \in {"pending", "pre_pending"}
      /\ \A l \in ListNames : \A x : InNext(l, x) <=> In(l, x) \/ (x = t /\ l = status'[t])
      /\ \A l \in ListNames : \A x : Single(l, x) /\ ~In(l, t) => SingleNext(l, x)
  BY <1>1, AddTaskFacts
<1>3. t \notin Created /\ Created' = Created \cup {t} /\ Created \subseteq Tasks
  BY <1>1 DEF AddTask, Created, TaskTypeOK, Tasks
<1>4. \A u \in Tasks \ {t} : status'[u] = status[u]
  BY <1>1 DEF AddTask, TaskTypeOK
<1>5. \A l \in ListNames : ~In(l, t) /\ Single(l, t)
  <2> TAKE l \in ListNames
  <2>1. ~In(l, t) BY <1>1, <1>3 DEF ListedAreCreated
  <2>2. lists[l] \in Seq(Tasks) BY <1>1 DEF TaskTypeOK
  <2> QED BY <2>1, <2>2, RangeOfSeq DEF In, Single, AtMostOnce
<1>6. Untouched' \subseteq Untouched \cup {t} BY <1>1, <1>3 DEF Untouched
<1>7. OnlyInItsList'
  <2> SUFFICES ASSUME NEW u \in Untouched', NEW l \in ListNames
               PROVE  (InNext(l, u) <=> l = status'[u]) /\ SingleNext(l, u)
    BY DEF OnlyInItsList, In, InNext, Single, SingleNext
  <2>1. CASE u = t BY <2>1, <1>2, <1>5
  <2>2. CASE u # t
    <3>1. u \in Untouched /\ status'[u] = status[u]
      BY <2>2, <1>3, <1>4, <1>6 DEF Untouched
    <3> QED BY <2>2, <3>1, <1>2, <1>5 DEF OnlyInItsList
  <2> QED BY <2>1, <2>2
<1>8. \A w \in Workers : pc[w] \in {"run", "read", "exec", "release", "clear"} => job[w].task # t
  BY <1>1, <1>3, ClientsFacts DEF WorkIsOnCreated, ClearedIsCreated, TaskSteps, CallSteps
<1>9. OngoingIsPerformed' /\ PerformedIsOngoing' /\ MarkedIsMarked'
  BY <1>1, <1>2, <1>3, <1>4, <1>6, <1>8
  DEF OngoingIsPerformed, PerformedIsOngoing, MarkedIsMarked, Performs, Untouched
<1>10. SeenOngoing' /\ ClearedIsCreated' /\ OthersHaveNoStatus'
  BY <1>1, <1>3, <1>4 DEF SeenOngoing, ClearedIsCreated, OthersHaveNoStatus
<1>11. Forward
  BY <1>2, <1>3, <1>4 DEF Forward, OthersHaveNoStatus, Lifecycle
<1> QED BY <1>7, <1>9, <1>10, <1>11

\* A pop makes the worker the only one to perform the task.
LEMMA SolePop ==
  ASSUME SoleInv, WakeupInv', NEW w \in Workers, NEW t \in Tasks, Pop(w, t)
  PROVE  SoleInv' /\ Forward
<1> USE DEF SoleInv
<1>1. /\ TypeOK /\ TaskTypeOK /\ PopPending(w, t) /\ w \in Clients /\ Workers \subseteq Clients
      /\ pc[w] = "poll" /\ pc' = [pc EXCEPT ![w] = "run"] /\ job' = [job EXCEPT ![w].task = t]
      /\ touched' = touched /\ ListedAreCreated
  BY ClientsFacts DEF Pop, Goto, WakeupInv, TypeInv, TypeOK
<1>2. /\ In("pending", t)
      /\ \A x : In("pending", x) <=> InNext("pending", x) \/ x = t
      /\ Single("pending", t) => ~InNext("pending", t)
      /\ \A x : InNext("ongoing", x) <=> In("ongoing", x) \/ x = t
      /\ \A l \in ListNames \ {"pending", "ongoing"} : lists'[l] = lists[l]
      /\ \A l \in ListNames : \A x :
           Single(l, x) /\ ~(x = t /\ In("ongoing", t)) => SingleNext(l, x)
  BY <1>1, PopPendingFacts
<1>3. UNCHANGED tasksCount /\ Created' = Created /\ Untouched' = Untouched
      /\ status'[t] = "ongoing" /\ startedOn'[t] = TRUE /\ runner'[t] = w
      /\ \A u \in Tasks \ {t} :
           status'[u] = status[u] /\ startedOn'[u] = startedOn[u] /\ runner'[u] = runner[u]
  BY <1>1 DEF PopPending, Created, Untouched, TaskTypeOK
<1>4. t \in Created /\ Untouched \subseteq Tasks /\ "pending" \in ListNames /\ "ongoing" \in ListNames
  BY <1>1, <1>2 DEF ListedAreCreated, ListNames, Untouched, Created
<1>5. t \in Untouched => status[t] = "pending" /\ ~In("ongoing", t) /\ Single("pending", t)
  BY <1>2, <1>4 DEF OnlyInItsList
<1>6. /\ pc'[w] = "run" /\ job'[w].task = t
      /\ \A v \in Workers \ {w} : pc'[v] = pc[v] /\ job'[v] = job[v]
  BY <1>1 DEF TypeOK, Jobs
<1>7. OnlyInItsList'
  <2> SUFFICES ASSUME NEW u \in Untouched, NEW l \in ListNames
               PROVE  (InNext(l, u) <=> l = status'[u]) /\ SingleNext(l, u)
    BY <1>3 DEF OnlyInItsList, In, InNext, Single, SingleNext
  <2>1. (In(l, u) <=> l = status[u]) /\ Single(l, u) BY DEF OnlyInItsList
  <2>2. SingleNext(l, u) BY <2>1, <1>2, <1>5
  <2>3. InNext(l, u) <=> l = status'[u]
    <3>1. CASE l = "pending" BY <2>1, <3>1, <1>2, <1>3, <1>4, <1>5
    <3>2. CASE l = "ongoing" BY <2>1, <3>2, <1>2, <1>3, <1>4, <1>5
    <3>3. CASE l \notin {"pending", "ongoing"}
      <4>1. InNext(l, u) <=> In(l, u) BY <3>3, <1>2 DEF In, InNext
      <4> QED BY <2>1, <3>3, <4>1, <1>3, <1>4, <1>5
    <3> QED BY <3>1, <3>2, <3>3
  <2> QED BY <2>2, <2>3
<1>8. OngoingIsPerformed'
  <2>1. ASSUME NEW u \in Untouched, status'[u] = "ongoing"
        PROVE  /\ startedOn'[u] /\ runner'[u] \in Workers
               /\ pc'[runner'[u]] \in {"run", "read", "exec"} /\ job'[runner'[u]].task = u
    <3>1. CASE u = t BY <3>1, <1>3, <1>6
    <3>2. CASE u # t
      <4>1. status[u] = "ongoing" /\ u \in Tasks BY <2>1, <3>2, <1>3, <1>4
      <4>2. startedOn[u] /\ runner[u] \in Workers /\ Performs(runner[u], u)
        BY <4>1 DEF OngoingIsPerformed
      <4>3. runner[u] # w BY <4>2, <1>1 DEF Performs
      <4>4. startedOn'[u] BY <3>2, <4>1, <4>2, <1>3
      <4> QED BY <3>2, <4>1, <4>2, <4>3, <4>4, <1>3, <1>6 DEF Performs
    <3> QED BY <3>1, <3>2
  <2> QED BY <2>1, <1>3 DEF OngoingIsPerformed, Performs
<1>9. PerformedIsOngoing'
  <2> SUFFICES ASSUME NEW u \in Untouched, NEW v \in Workers,
                      pc'[v] \in {"run", "read", "exec"}, job'[v].task = u
               PROVE  status'[u] = "ongoing" /\ runner'[u] = v
    BY <1>3 DEF PerformedIsOngoing, Performs
  <2>1. CASE v = w BY <2>1, <1>3, <1>6
  <2>2. CASE v # w
    <3>1. status[u] = "ongoing" /\ runner[u] = v
      BY <2>2, <1>6 DEF PerformedIsOngoing, Performs
    <3> QED BY <3>1, <1>3, <1>4, <1>5
  <2> QED BY <2>1, <2>2
<1>10. MarkedIsMarked'
  <2> SUFFICES ASSUME NEW u \in Untouched, NEW v \in Workers,
                      pc'[v] \in {"release", "clear"}, job'[v].task = u
               PROVE  status'[u] \in {"finished", "failed"} /\ runner'[u] = v
    BY <1>3 DEF MarkedIsMarked
  <2>1. status[u] \in {"finished", "failed"} /\ runner[u] = v
    BY <1>6 DEF MarkedIsMarked
  <2> QED BY <2>1, <1>3, <1>4, <1>5
<1>11. SeenOngoing' /\ ClearedIsCreated'
  BY <1>1, <1>3, <1>6 DEF SeenOngoing, ClearedIsCreated
<1>12. OthersHaveNoStatus' BY <1>3, <1>4 DEF OthersHaveNoStatus
<1>13. Forward
  BY <1>1, <1>3, <1>4, <1>5 DEF Forward, Untouched, Lifecycle
<1> QED BY <1>7, <1>8, <1>9, <1>10, <1>11, <1>12, <1>13

\* A step of an operator leaves alone every task that is untouched after it.
LEMMA SoleOperator ==
  ASSUME SoleInv, WakeupInv', UNCHANGED <<tasksCount, startedOn, runner>>,
         touched \subseteq touched',
         \A w \in Workers : pc'[w] = pc[w] /\ job'[w] = job[w],
         \A u \in Tasks \ touched' : status'[u] = status[u],
         \A u \in Tasks \ Created : status'[u] = status[u],
         \A u \in Untouched' : \A l \in ListNames :
           (InNext(l, u) <=> In(l, u)) /\ (Single(l, u) => SingleNext(l, u))
  PROVE  SoleInv' /\ Forward
<1> USE DEF SoleInv
<1>1. Created' = Created /\ Untouched' \subseteq Untouched /\ Untouched' \subseteq Tasks \ touched'
  BY DEF Created, Untouched
<1>2. OnlyInItsList'
  <2> SUFFICES ASSUME NEW u \in Untouched', NEW l \in ListNames
               PROVE  (InNext(l, u) <=> l = status'[u]) /\ SingleNext(l, u)
    BY DEF OnlyInItsList, In, InNext, Single, SingleNext
  <2>1. (In(l, u) <=> l = status[u]) /\ Single(l, u) BY <1>1 DEF OnlyInItsList
  <2> QED BY <2>1, <1>1
<1>3. OngoingIsPerformed'
  <2>1. ASSUME NEW u \in Untouched', status'[u] = "ongoing"
        PROVE  /\ startedOn[u] /\ runner[u] \in Workers
               /\ pc[runner[u]] \in {"run", "read", "exec"} /\ job[runner[u]].task = u
    BY <2>1, <1>1 DEF OngoingIsPerformed, Performs
  <2> QED BY <2>1, <1>1 DEF OngoingIsPerformed, Performs
<1>4. PerformedIsOngoing' BY <1>1 DEF PerformedIsOngoing, Performs
<1>5. MarkedIsMarked' BY <1>1 DEF MarkedIsMarked
<1>6. SeenOngoing' /\ ClearedIsCreated' /\ OthersHaveNoStatus'
  BY <1>1 DEF SeenOngoing, ClearedIsCreated, OthersHaveNoStatus
<1>7. Forward BY DEF Forward
<1> QED BY <1>2, <1>3, <1>4, <1>5, <1>6, <1>7

\* The MULTI block of an operator.
LEMMA SoleOperatorMarks ==
  ASSUME SoleInv, WakeupInv', NEW o \in Operators,
         SetPending(o) \/ SetFinished(o) \/ SetFailed(o)
  PROVE  SoleInv' /\ Forward
<1> DEFINE t == job[o].task
           from == job[o].seen
<1>1. /\ TypeInv /\ TaskTypeOK /\ o \in Clients /\ o \notin Workers
      /\ t \in Created /\ t \in Tasks /\ from \in Statuses
  BY ClientsFacts
  DEF SoleInv, WakeupInv, TypeInv, TypeOK, Jobs, WorkIsOnCreated, TaskSteps, CallSteps,
      SetPending, SetFinished, SetFailed, Created
<1>2. PICK to \in {"pending", "finished", "failed"} : Relist(t, from, to)
  BY DEF SetPending, SetFinished, SetFailed
<1>3. touched' = touched \cup {t}
  BY DEF SetPending, SetFinished, SetFailed, Placed
<1>4. \A w \in Workers : pc'[w] = pc[w] /\ job'[w] = job[w]
  <2>1. CASE Return(o) BY <2>1, <1>1, ReturnFacts, ClientsFacts
  <2>2. CASE ~Return(o)
    <3>1. pc' = [pc EXCEPT ![o] = "release"] /\ job' = job
      BY <2>2 DEF SetPending, SetFinished, SetFailed, Goto
    <3> QED BY <3>1, <1>1, ClientsFacts DEF TypeInv, TypeOK
  <2> QED BY <2>1, <2>2
<1>5. to \in ListNames BY DEF ListNames
<1> HIDE DEF t, from
<1>6. /\ \A l \in ListNames : \A x :
           InNext(l, x) <=> (l = to /\ x = t) \/ (In(l, x) /\ ~(l = from /\ x = t))
      /\ \A l \in ListNames : \A x :
           Single(l, x) /\ ~(x = t /\ l = to /\ from # to /\ In(to, t)) => SingleNext(l, x)
  BY <1>1, <1>2, <1>5, RelistFacts
<1>7. UNCHANGED <<tasksCount, startedOn, runner>> /\ \A u \in Tasks \ {t} : status'[u] = status[u]
  BY <1>1, <1>2 DEF Relist, TaskTypeOK
<1>8. \A u \in Untouched' : u # t BY <1>3 DEF Untouched
<1> QED BY <1>1, <1>3, <1>4, <1>6, <1>7, <1>8, SoleOperator

\* 'deleted' of one task, and of a whole list.
LEMMA SoleDeleted ==
  ASSUME SoleInv, WakeupInv', NEW c \in Clients, SetDeleted(c)
  PROVE  SoleInv' /\ Forward
<1> DEFINE t == job[c].task
           from == job[c].seen
<1>1. /\ TypeInv /\ TaskTypeOK /\ c \in Operators /\ t \in Tasks /\ from \in Statuses
  BY ClientsFacts DEF SoleInv, WakeupInv, TypeInv, CallsOK, TypeOK, Jobs, SetDeleted
<1>2. /\ Unlist(t, from) /\ Return(c) /\ touched' = touched \cup {t}
  BY DEF SetDeleted
<1>3. \A w \in Workers : pc'[w] = pc[w] /\ job'[w] = job[w]
  BY <1>1, <1>2, ReturnFacts, ClientsFacts
<1> HIDE DEF t, from
<1>4. /\ \A l \in ListNames : \A x : InNext(l, x) <=> In(l, x) /\ ~(l = from /\ x = t)
      /\ \A l \in ListNames : \A x : Single(l, x) => SingleNext(l, x)
  BY <1>1, <1>2, UnlistFacts
<1>5. UNCHANGED <<tasksCount, status, startedOn, runner>> BY <1>2 DEF Unlist
<1>6. \A u \in Untouched' : u # t BY <1>2 DEF Untouched
<1> QED BY <1>2, <1>3, <1>4, <1>5, <1>6, SoleOperator

LEMMA SoleClear ==
  ASSUME SoleInv, WakeupInv', NEW o \in Operators, NEW k \in ListNames, AskClear(o, k)
  PROVE  SoleInv' /\ Forward
<1>1. /\ TaskTypeOK /\ ClearList(k) /\ UNCHANGED <<pc, job>>
      /\ touched' = touched \cup Range(lists[k])
  BY DEF AskClear, SoleInv, WakeupInv, TypeInv, TypeOK, clientVars
<1>2. /\ \A l \in ListNames : \A x : InNext(l, x) <=> In(l, x) /\ l # k
      /\ \A l \in ListNames : \A x : Single(l, x) => SingleNext(l, x)
  BY <1>1, ClearListFacts
<1>3. UNCHANGED <<tasksCount, status, startedOn, runner>> BY <1>1 DEF ClearList
<1>4. \A u \in Untouched' : ~In(k, u) BY <1>1 DEF Untouched, In
<1> QED BY <1>1, <1>2, <1>3, <1>4, SoleOperator

\* The MULTI block of a worker.
LEMMA SoleWorkerMarks ==
  ASSUME SoleInv, WakeupInv', NEW w \in Workers, SetFinished(w) \/ SetFailed(w)
  PROVE  SoleInv' /\ Forward
<1> USE DEF SoleInv
<1> DEFINE t == job[w].task
           from == job[w].seen
<1>1. /\ TypeInv /\ TypeOK /\ TaskTypeOK /\ w \in Clients /\ Workers \subseteq Clients
      /\ w \notin Operators
      /\ t \in Created /\ t \in Tasks /\ from \in Statuses /\ pc[w] = "exec"
  BY ClientsFacts
  DEF WakeupInv, TypeInv, TypeOK, Jobs, WorkIsOnCreated, TaskSteps, CallSteps,
      SetFinished, SetFailed, Created
<1>2. PICK to \in {"finished", "failed"} : Relist(t, from, to)
  BY DEF SetFinished, SetFailed
<1>3. touched' = touched
  BY <1>1 DEF SetFinished, SetFailed, Placed
<1>4. /\ pc'[w] \in {"release", "clear"} /\ job'[w] = job[w]
      /\ \A v \in Workers \ {w} : pc'[v] = pc[v] /\ job'[v] = job[v]
  <2>1. CASE Return(w) BY <2>1, <1>1, ReturnFacts
  <2>2. CASE ~Return(w)
    <3>1. pc' = [pc EXCEPT ![w] = "release"] /\ job' = job
      BY <2>2 DEF SetFinished, SetFailed, Goto
    <3> QED BY <3>1, <1>1 DEF TypeOK
  <2> QED BY <2>1, <2>2
<1>5. to \in ListNames BY DEF ListNames
<1>6. t \in Untouched => from = "ongoing" /\ status[t] = "ongoing" /\ runner[t] = w
  BY <1>1 DEF SeenOngoing, PerformedIsOngoing, Performs, Untouched
<1> HIDE DEF t, from
<1>7. /\ \A l \in ListNames : \A x :
           InNext(l, x) <=> (l = to /\ x = t) \/ (In(l, x) /\ ~(l = from /\ x = t))
      /\ \A l \in ListNames : \A x :
           Single(l, x) /\ ~(x = t /\ l = to /\ from # to /\ In(to, t)) => SingleNext(l, x)
  BY <1>1, <1>2, <1>5, RelistFacts
<1>8. /\ UNCHANGED <<tasksCount, startedOn, runner>> /\ Created' = Created /\ Untouched' = Untouched
      /\ status'[t] = to /\ \A u \in Tasks \ {t} : status'[u] = status[u]
  BY <1>1, <1>2, <1>3 DEF Relist, TaskTypeOK, Created, Untouched
<1>9. Untouched \subseteq Tasks BY DEF Untouched, Created
<1>10. OnlyInItsList'
  <2> SUFFICES ASSUME NEW u \in Untouched, NEW l \in ListNames
               PROVE  (InNext(l, u) <=> l = status'[u]) /\ SingleNext(l, u)
    BY <1>8 DEF OnlyInItsList, In, InNext, Single, SingleNext
  <2>1. (In(l, u) <=> l = status[u]) /\ Single(l, u) BY DEF OnlyInItsList
  <2>2. CASE u = t
    <3>1. ~In(to, t) BY <2>2, <1>5, <1>6 DEF OnlyInItsList
    <3> QED BY <2>1, <2>2, <3>1, <1>6, <1>7, <1>8
  <2>3. CASE u # t BY <2>1, <2>3, <1>7, <1>8, <1>9
  <2> QED BY <2>2, <2>3
<1>11. OngoingIsPerformed'
  <2>1. ASSUME NEW u \in Untouched, status'[u] = "ongoing"
        PROVE  /\ startedOn[u] /\ runner[u] \in Workers
               /\ pc'[runner[u]] \in {"run", "read", "exec"} /\ job'[runner[u]].task = u
    <3>1. u # t BY <2>1, <1>8
    <3>2. startedOn[u] /\ runner[u] \in Workers /\ Performs(runner[u], u)
      BY <2>1, <3>1, <1>8, <1>9 DEF OngoingIsPerformed
    <3>3. runner[u] # w BY <3>1, <3>2 DEF Performs, t
    <3> QED BY <3>2, <3>3, <1>4 DEF Performs
  <2> QED BY <2>1, <1>8 DEF OngoingIsPerformed, Performs
<1>12. PerformedIsOngoing'
  <2> SUFFICES ASSUME NEW u \in Untouched, NEW v \in Workers,
                      pc'[v] \in {"run", "read", "exec"}, job'[v].task = u
               PROVE  status'[u] = "ongoing" /\ runner[u] = v
    BY <1>8 DEF PerformedIsOngoing, Performs
  <2>1. v # w BY <1>4
  <2>2. status[u] = "ongoing" /\ runner[u] = v
    BY <2>1, <1>4 DEF PerformedIsOngoing, Performs
  <2>3. u # t BY <2>1, <2>2, <1>6
  <2> QED BY <2>2, <2>3, <1>8, <1>9
<1>13. MarkedIsMarked'
  <2> SUFFICES ASSUME NEW u \in Untouched, NEW v \in Workers,
                      pc'[v] \in {"release", "clear"}, job'[v].task = u
               PROVE  status'[u] \in {"finished", "failed"} /\ runner[u] = v
    BY <1>8 DEF MarkedIsMarked
  <2>1. CASE v = w BY <2>1, <1>4, <1>6, <1>8 DEF t
  <2>2. CASE v # w
    <3>1. status[u] \in {"finished", "failed"} /\ runner[u] = v
      BY <2>2, <1>4 DEF MarkedIsMarked
    <3>2. u # t BY <3>1, <1>6
    <3> QED BY <3>1, <3>2, <1>8, <1>9
  <2> QED BY <2>1, <2>2
<1>14. SeenOngoing' /\ ClearedIsCreated'
  BY <1>1, <1>3, <1>4, <1>8 DEF SeenOngoing, ClearedIsCreated, t
<1>15. OthersHaveNoStatus' BY <1>1, <1>8 DEF OthersHaveNoStatus
<1>16. Forward
  BY <1>1, <1>3, <1>6, <1>8 DEF Forward, Untouched, Lifecycle
<1> QED BY <1>10, <1>11, <1>12, <1>13, <1>14, <1>15, <1>16

\* update_dependent_tasks.lua moves an untouched task from pre_pending_tasks.
LEMMA SoleRelease ==
  ASSUME SoleInv, WakeupInv', NEW c \in Clients, Release(c)
  PROVE  SoleInv' /\ Forward
<1> USE DEF SoleInv
<1> DEFINE d == job[c].task
<1>1. /\ TypeInv /\ TaskTypeOK /\ d \in Tasks /\ UpdateDependentTasks(d) /\ touched' = touched
      /\ pc[c] = "release" /\ Return(c)
  BY DEF Release, WakeupInv, TypeInv, TypeOK, Jobs
<1>2. /\ pc'[c] \notin TaskSteps
      /\ \A e \in Clients \ {c} : pc'[e] = pc[e] /\ job'[e] = job[e]
      /\ c \in Workers => pc'[c] = "clear" /\ job'[c] = job[c]
  BY <1>1, ReturnFacts
<1>3. \A w \in Workers :
        \/ pc'[w] = pc[w] /\ job'[w] = job[w]
        \/ pc[w] = "release" /\ pc'[w] = "clear" /\ job'[w] = job[w]
  BY <1>1, <1>2, ClientsFacts
<1>4. \A w \in Workers : pc[w] = "release" => job[w].task \in Created
  BY ClientsFacts DEF WakeupInv, WorkIsOnCreated, TaskSteps, CallSteps
<1> HIDE DEF d
<1>5. /\ \A x : x \in Released(d) <=>
                  x \in Unblocked(d) /\ In("pre_pending", x) /\ Single("pre_pending", x)
      /\ \A x : InNext("pre_pending", x) <=> In("pre_pending", x) /\ x \notin Unblocked(d)
      /\ \A x : InNext("pending", x) <=> In("pending", x) \/ x \in Released(d)
      /\ \A l \in ListNames \ {"pre_pending", "pending"} : lists'[l] = lists[l]
      /\ \A l \in ListNames : \A x :
           Single(l, x) /\ ~(x \in Released(d) /\ In("pending", x)) => SingleNext(l, x)
  BY <1>1, UpdateFacts
<1>6. /\ UNCHANGED <<tasksCount, startedOn, runner>> /\ Created' = Created
      /\ Untouched' = Untouched
      /\ \A t \in Tasks : status'[t] = IF t \in Released(d) THEN "pending" ELSE status[t]
  BY <1>1 DEF UpdateDependentTasks, Created, Untouched
<1>7. /\ "pre_pending" \in ListNames /\ "pending" \in ListNames
      /\ Untouched \subseteq Tasks /\ Created \subseteq Tasks
  BY DEF ListNames, Untouched, Created
<1>8. \A u \in Untouched : u \in Released(d) => status[u] = "pre_pending" /\ ~In("pending", u)
  BY <1>5, <1>7 DEF OnlyInItsList
<1>9. \A u \in Untouched : status[u] \in {"ongoing", "finished", "failed"} => status'[u] = status[u]
  BY <1>6, <1>7, <1>8
<1>10. \A u \in Untouched : status'[u] = "ongoing" => status[u] = "ongoing"
  BY <1>6, <1>7
<1>11. OnlyInItsList'
  <2> SUFFICES ASSUME NEW u \in Untouched, NEW l \in ListNames
               PROVE  (InNext(l, u) <=> l = status'[u]) /\ SingleNext(l, u)
    BY <1>6 DEF OnlyInItsList, In, InNext, Single, SingleNext
  <2>1. \A k \in ListNames : (In(k, u) <=> k = status[u]) /\ Single(k, u) BY DEF OnlyInItsList
  <2>2. SingleNext(l, u) BY <2>1, <1>5, <1>8
  <2>3. CASE u \in Released(d)
    <3>1. status[u] = "pre_pending" /\ status'[u] = "pending" /\ u \in Unblocked(d)
      BY <2>3, <1>5, <1>6, <1>7, <1>8
    <3>2. CASE l = "pre_pending" BY <3>1, <3>2, <2>2, <1>5
    <3>3. CASE l = "pending" BY <3>1, <3>3, <2>2, <2>3, <1>5
    <3>4. CASE l \notin {"pre_pending", "pending"}
      <4>1. InNext(l, u) <=> In(l, u) BY <3>4, <1>5 DEF In, InNext
      <4> QED BY <4>1, <3>1, <3>4, <2>1, <2>2
    <3> QED BY <3>2, <3>3, <3>4
  <2>4. CASE u \notin Released(d)
    <3>1. status'[u] = status[u] BY <2>4, <1>6, <1>7
    <3>2. In("pre_pending", u) => u \notin Unblocked(d) BY <2>1, <2>4, <1>5, <1>7
    <3>3. InNext(l, u) <=> In(l, u)
      <4>1. CASE l \in {"pre_pending", "pending"} BY <4>1, <3>2, <2>4, <1>5
      <4>2. CASE l \notin {"pre_pending", "pending"} BY <4>2, <1>5 DEF In, InNext
      <4> QED BY <4>1, <4>2
    <3> QED BY <3>1, <3>3, <2>1, <2>2
  <2> QED BY <2>3, <2>4
<1>12. OngoingIsPerformed'
  <2>1. ASSUME NEW u \in Untouched, status'[u] = "ongoing"
        PROVE  /\ startedOn[u] /\ runner[u] \in Workers
               /\ pc'[runner[u]] \in {"run", "read", "exec"} /\ job'[runner[u]].task = u
    <3>1. startedOn[u] /\ runner[u] \in Workers /\ Performs(runner[u], u)
      BY <2>1, <1>10 DEF OngoingIsPerformed
    <3> QED BY <3>1, <1>3 DEF Performs
  <2> QED BY <2>1, <1>6 DEF OngoingIsPerformed, Performs
<1>13. PerformedIsOngoing'
  <2> SUFFICES ASSUME NEW u \in Untouched, NEW w \in Workers,
                      pc'[w] \in {"run", "read", "exec"}, job'[w].task = u
               PROVE  status'[u] = "ongoing" /\ runner[u] = w
    BY <1>6 DEF PerformedIsOngoing, Performs
  <2>1. status[u] = "ongoing" /\ runner[u] = w
    BY <1>3 DEF PerformedIsOngoing, Performs
  <2> QED BY <2>1, <1>9
<1>14. MarkedIsMarked'
  <2> SUFFICES ASSUME NEW u \in Untouched, NEW w \in Workers,
                      pc'[w] \in {"release", "clear"}, job'[w].task = u
               PROVE  status'[u] \in {"finished", "failed"} /\ runner[u] = w
    BY <1>6 DEF MarkedIsMarked
  <2>1. status[u] \in {"finished", "failed"} /\ runner[u] = w BY <1>3 DEF MarkedIsMarked
  <2> QED BY <2>1, <1>9
<1>15. SeenOngoing' BY <1>1, <1>3 DEF SeenOngoing
<1>16. ClearedIsCreated' BY <1>3, <1>4, <1>6 DEF ClearedIsCreated
<1>17. OthersHaveNoStatus'
  <2>1. \A t \in Released(d) : t \in Created
    BY <1>5, <1>7 DEF WakeupInv, ListedAreCreated
  <2> QED BY <2>1, <1>6 DEF OthersHaveNoStatus
<1>18. Forward
  <2> SUFFICES ASSUME NEW t \in Tasks, t \notin touched, status'[t] # status[t]
               PROVE  <<status[t], status'[t]>> \in Lifecycle
    BY <1>1 DEF Forward
  <2>1. t \in Released(d) /\ status'[t] = "pending" BY <1>6
  <2>2. t \in Untouched BY <2>1, <1>5, <1>7 DEF WakeupInv, ListedAreCreated, Untouched
  <2> QED BY <2>1, <2>2, <1>8 DEF Lifecycle
<1> QED BY <1>11, <1>12, <1>13, <1>14, <1>15, <1>16, <1>17, <1>18

LEMMA SoleNext == SoleInv /\ [Next]_vars => SoleInv' /\ Forward
<1> SUFFICES ASSUME SoleInv, [Next]_vars PROVE SoleInv' /\ Forward OBVIOUS
<1>1. WakeupInv /\ TypeInv BY DEF SoleInv, WakeupInv
<1>2. WakeupInv' BY <1>1, WakeupNext
<1>3. ASSUME NEW c \in Clients, SetPending(c) \/ SetFinished(c) \/ SetFailed(c)
      PROVE  SoleInv' /\ Forward
  <2>1. CASE c \in Operators BY <2>1, <1>2, <1>3, SoleOperatorMarks
  <2>2. CASE c \in Workers
    <3>1. ~SetPending(c) BY <2>2, <1>1 DEF TypeInv, CallsOK, SetPending
    <3> QED BY <2>2, <3>1, <1>2, <1>3, SoleWorkerMarks
  <2> QED BY <2>1, <2>2, ClientsFacts
<1> QED
  BY <1>1, <1>2, <1>3, StepCases, SoleQuiet, SoleNewTask, SolePop, SoleDeleted, SoleRelease,
     SoleClear

\* What the invariant says of the lists, in terms of the number of occurrences.
LEMMA SoleOccurrences ==
  ASSUME SoleInv, NEW t \in Untouched, NEW l \in ListNames
  PROVE  Occurrences(lists[l], t) = IF l = status[t] THEN 1 ELSE 0
<1>1. lists[l] \in Seq(Tasks) BY DEF SoleInv, WakeupInv, TypeInv, TypeOK, TaskTypeOK
<1>2. (In(l, t) <=> l = status[t]) /\ Single(l, t) BY DEF SoleInv, OnlyInItsList
<1> QED BY <1>1, <1>2, OccurrencesFacts DEF In, Single

LEMMA SoleInvImplies == SoleInv => SoleRunner
<1> SUFFICES ASSUME SoleInv, NEW t \in Untouched
             PROVE  /\ \A l \in ListNames :
                         Occurrences(lists[l], t) = IF l = status[t] THEN 1 ELSE 0
                    /\ status[t] = "ongoing" => Performs(runner[t], t)
                    /\ \A v, w \in Workers : BusyWith(v, t) /\ BusyWith(w, t) => v = w
  BY DEF SoleRunner, Untouched
<1>1. \A w \in Workers : BusyWith(w, t) => runner[t] = w
  BY DEF SoleInv, BusyWith, PerformedIsOngoing, MarkedIsMarked
<1>2. status[t] = "ongoing" => Performs(runner[t], t) BY DEF SoleInv, OngoingIsPerformed
<1> QED BY <1>1, <1>2, SoleOccurrences

\* A task that no operator moved is in the list of its status and in no other,
\* and one worker at most has it in hand: join_as_worker.m's pop and the blocks
\* of set_task_status.m never run or queue it twice.
THEOREM OneRunner == Spec => []SoleRunner
<1>1. Spec => []SoleInv BY SoleInit, SoleNext, PTL DEF Spec
<1> QED BY <1>1, SoleInvImplies, PTL

\* The status of a task that no operator moved only goes forward.
THEOREM OnlyForward == Spec => MovesForward
<1>1. Spec => []SoleInv BY SoleInit, SoleNext, PTL DEF Spec
<1>2. SoleInv /\ [Next]_vars =>
        [\A t \in Tasks \ touched' :
           status'[t] # status[t] => <<status[t], status'[t]>> \in Lifecycle]_vars
  BY SoleNext DEF Forward
<1> QED BY <1>1, <1>2, PTL DEF Spec, MovesForward
=============================================================================
