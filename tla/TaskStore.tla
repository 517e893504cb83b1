----------------------------- MODULE TaskStore ------------------------------
(***************************************************************************)
(* The tasks as Redis stores them, and the blocks of commands that Redis   *)
(* runs atomically on them: the Lua scripts of +mrc/private and the        *)
(* MULTI/EXEC blocks of +mrc/set_task_status.m.                            *)
(*                                                                         *)
(* Task n is the key 'task:n'.  A task's hash is the fields the control    *)
(* flow reads: status, fail_policy, worker and whether started_on is set.  *)
(* Its lists ':dependencies' and ':prior_to' are only pushed to, searched  *)
(* whole and tested for emptiness, so they are sets here; priorTo is       *)
(* walked newest first, that is by falling task number (INCR numbers the   *)
(* tasks in the order in which they are pushed).                           *)
(***************************************************************************)
EXTENDS RedisLists

CONSTANTS MaxTasks,   \* bound on the tasks ever added
          Workers,    \* worker keys
          NoWorker    \* the 'None' of a task that no worker popped yet

ASSUME MaxTasksAssumption == MaxTasks \in Nat \ {0}
ASSUME NoWorkerAssumption == NoWorker \notin Workers

VARIABLES tasksCount,    \* tasks_count
          lists,         \* pre_pending_tasks, pending_tasks, ...
          status,        \* HGET task status ("none": no such hash)
          failPolicy,    \* HGET task fail_policy
          startedOn,     \* whether the hash has a started_on
          runner,        \* HGET task worker
          dependencies,  \* task:dependencies
          priorTo        \* task:prior_to

taskVars == <<tasksCount, lists, status, failPolicy, startedOn, runner,
              dependencies, priorTo>>

Tasks == 1..MaxTasks
ListNames == {"pre_pending", "pending", "ongoing", "finished", "failed"}
Statuses == ListNames \cup {"none"}
Policies == {"halt", "continue"}

Created == {t \in Tasks : t <= tasksCount}

\* The store's keys hold what the scripts put there.
TaskTypeOK ==
  /\ tasksCount \in 0..MaxTasks
  /\ lists \in [ListNames -> Seq(Tasks)]
  /\ status \in [Tasks -> Statuses]
  /\ failPolicy \in [Tasks -> Policies]
  /\ startedOn \in [Tasks -> BOOLEAN]
  /\ runner \in [Tasks -> Workers \cup {NoWorker}]
  /\ dependencies \in [Tasks -> SUBSET Tasks]
  /\ priorTo \in [Tasks -> SUBSET Tasks]

TaskInit ==
  /\ tasksCount = 0
  /\ lists = [l \in ListNames |-> <<>>]
  /\ status = [t \in Tasks |-> "none"]
  /\ failPolicy = [t \in Tasks |-> "halt"]
  /\ startedOn = [t \in Tasks |-> FALSE]
  /\ runner = [t \in Tasks |-> NoWorker]
  /\ dependencies = [t \in Tasks |-> {}]
  /\ priorTo = [t \in Tasks |-> {}]

-----------------------------------------------------------------------------
(* An operator named X_Y is a broken form of X that some property refutes. *)

\* A requirement is waited for whatever its status.
Unfinished_Ignored(D) == D

\* The requirements of D that a new task has to wait for: those whose status
\* is not 'finished' when the task is added.
Unfinished(D) == {d \in D : status[d] # "finished"}

\* Where a new task with requirements D goes: behind the other pending tasks
\* if it has none, in front of them if all are finished, else to pre_pending.
ListsWithNew(t, D) ==
  IF D = {} THEN [lists EXCEPT !["pending"] = RPush(@, t)]
  ELSE IF Unfinished(D) = {} THEN [lists EXCEPT !["pending"] = LPush(@, t)]
  ELSE [lists EXCEPT !["pre_pending"] = RPush(@, t)]

\* add_task.lua: task t, whose number INCR has just returned.
AddTask(t, D, p) ==
  /\ t = tasksCount + 1
  /\ tasksCount' = t
  /\ dependencies' = [dependencies EXCEPT ![t] = Unfinished(D)]
  /\ priorTo' = [d \in Tasks |->
                   IF d \in Unfinished(D) THEN priorTo[d] \cup {t} ELSE priorTo[d]]
  /\ lists' = ListsWithNew(t, D)
  /\ status' = [status EXCEPT ![t] =
                  IF Unfinished(D) = {} THEN "pending" ELSE "pre_pending"]
  /\ failPolicy' = [failPolicy EXCEPT ![t] = p]
  /\ UNCHANGED <<startedOn, runner>>

\* The task is read off the list, not popped.
PopPending_Peek(w, t) ==
  /\ lists["pending"] # <<>>
  /\ t = Head(lists["pending"])
  /\ lists' = [lists EXCEPT !["ongoing"] = RPush(@, t)]
  /\ status' = [status EXCEPT ![t] = "ongoing"]
  /\ startedOn' = [startedOn EXCEPT ![t] = TRUE]
  /\ runner' = [runner EXCEPT ![t] = w]
  /\ UNCHANGED <<tasksCount, failPolicy, dependencies, priorTo>>

\* worker_pop_pendnig_task.lua, when pending_tasks is not empty.
PopPending(w, t) ==
  /\ lists["pending"] # <<>>
  /\ t = Head(lists["pending"])
  /\ lists' = [lists EXCEPT !["pending"] = Tail(@), !["ongoing"] = RPush(@, t)]
  /\ status' = [status EXCEPT ![t] = "ongoing"]
  /\ startedOn' = [startedOn EXCEPT ![t] = TRUE]
  /\ runner' = [runner EXCEPT ![t] = w]
  /\ UNCHANGED <<tasksCount, failPolicy, dependencies, priorTo>>

\* The LREM is forgotten.
Relist_Keep(t, from, to) ==
  /\ lists' = [lists EXCEPT ![to] = LPush(@, t)]
  /\ status' = [status EXCEPT ![t] = to]
  /\ UNCHANGED <<tasksCount, failPolicy, startedOn, runner, dependencies, priorTo>>

\* The LREM comes after the LPUSH.
Relist_Swapped(t, from, to) ==
  /\ lists' = [[lists EXCEPT ![to] = LPush(@, t)] EXCEPT ![from] = LRem(@, t)]
  /\ status' = [status EXCEPT ![t] = to]
  /\ UNCHANGED <<tasksCount, failPolicy, startedOn, runner, dependencies, priorTo>>

\* The LREM, LPUSH and HMSET of a MULTI block of set_task_status.m: t leaves
\* the list named by the status that the client read earlier, whatever the
\* status is by now, and enters list "to".
Relist(t, from, to) ==
  /\ lists' = [[lists EXCEPT ![from] = LRem(@, t)] EXCEPT ![to] = LPush(@, t)]
  /\ status' = [status EXCEPT ![t] = to]
  /\ UNCHANGED <<tasksCount, failPolicy, startedOn, runner, dependencies, priorTo>>

\* The LREM of set_task_status(t, 'deleted'): the hash keeps its status.
Unlist(t, from) ==
  /\ lists' = [lists EXCEPT ![from] = LRem(@, t)]
  /\ UNCHANGED <<tasksCount, status, failPolicy, startedOn, runner,
                 dependencies, priorTo>>

\* DEL X_tasks.
ClearList(l) ==
  /\ lists' = [lists EXCEPT ![l] = <<>>]
  /\ UNCHANGED <<tasksCount, status, failPolicy, startedOn, runner,
                 dependencies, priorTo>>

\* The length of :dependencies is read before the LREM.
Unblocked_Early(d) == {t \in priorTo[d] : dependencies[t] = {}}

\* The other requirements of a dependent are not looked at.
Unblocked_All(d) == priorTo[d]

\* The tasks of d's prior_to that wait for nothing but d ...
Unblocked(d) == {t \in priorTo[d] : dependencies[t] \subseteq {d}}

\* ... and those of them that LREM finds exactly once in pre_pending_tasks.
Released(d) == {t \in Unblocked(d) : Occurrences(lists["pre_pending"], t) = 1}

\* update_dependent_tasks.lua: every task that waited for d stops waiting for
\* it; those with nothing else to wait for become pending, in front of all
\* others.  A task LREM did not count once is in no list afterwards.
UpdateDependentTasks(d) ==
  /\ dependencies' = [t \in Tasks |->
                        IF t \in priorTo[d] THEN dependencies[t] \ {d}
                                            ELSE dependencies[t]]
  /\ \E q \in Ascending(Released(d)) :
       lists' = [lists EXCEPT !["pre_pending"] = Without(@, Unblocked(d)),
                              !["pending"] = q \o @]
  /\ status' = [t \in Tasks |-> IF t \in Released(d) THEN "pending" ELSE status[t]]
  /\ UNCHANGED <<tasksCount, failPolicy, startedOn, runner, priorTo>>
=============================================================================
