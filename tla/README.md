# Verification of MatlabRedisCluster

MatlabRedisCluster runs Matlab commands on a cluster of Matlab processes that
share one Redis database. This directory holds TLA+ models of its control: the
task store and the clients that change it concurrently, the host process that
starts and restarts workers and the election of that process, the Redis client
of Matlab, and the Redis client of Python, redis-py, of which the repository
carries a copy. With them are the instances on which TLC checks the models, and
theorems about them that TLAPS proves for every value of the constants.

To repeat a check: `tlc -config Dag.cfg MCCluster`. To repeat a proof:
`tlapm Cluster_proofs.tla`. `PROJECT.json` lists every run with its module and
properties, the source lines each definition models, and for each property a
plausible bug in the code (an operator named `X_Y`, the broken form of `X`) that
makes it fail.

## 1. Inventory

### State in Redis

| Key | Content |
|---|---|
| `tasks_count` | number of the newest task, by INCR |
| `pre_pending_tasks`, `pending_tasks`, `ongoing_tasks`, `finished_tasks`, `failed_tasks` | lists of task keys |
| `task:N` | hash: command, `status`, `fail_policy`, `worker`, `started_on`, ... |
| `task:N:dependencies`, `task:N:prior_to` | requirements still waited for, and the tasks that wait for this one |
| `worker:N` | hash: `status`, `current_task`, `pid`, `computer`, ... |
| `available_workers` | the set of workers that can be talked to |
| `server:N` | hash: `status`, `pid`, `last_ping` of the host's server |
| `server:N:cmd`, `server:N:workers` | the commands for a host's server, and its workers |
| `db_timetag` | the epoch of the database, new after every FLUSHALL |

### Components

| Component | State it keeps | Operations | Modelled by |
|---|---|---|---|
| Task store: `add_task.lua`, `worker_pop_pendnig_task.lua`, `update_dependent_tasks.lua` | lists, task hashes, dependencies | each script is atomic | `RedisLists`, `TaskStore` |
| `set_task_status.m` | none (the task's hash, read before) | move, abort, remove a task; clear a list | `TaskStore`, `Cluster` |
| `set_worker_status.m` | none | withdraw workers, command their servers | `Cluster` |
| Worker: `join_as_worker.m`, `perform_task` | its hash, its loop | join, poll, run, mark, clear | `Cluster`, `Server` |
| Submitter: `new_task.m` | none | one `add_task.lua` per command | `Cluster` |
| `server.py` | list of workers, one `MrcWorker` with a pid each | new, restart, kill, shutdown, restart_server; scan for dead processes; adoption | `Server` |
| Server election: `is_another_server_alive`, `server_join` | the host's hash | look, wait, join, ping, leave | `Election` |
| Matlab's Redis client: `@Redis`, `redis.m` | socket, read buffer, MULTI stack and counter | cmd, multi/exec, eval, reconnect | `RedisClient` |
| redis-py `Connection` | socket, options for retries and health checks | connect, send, read, check, disconnect | `Connection` |
| redis-py parsers, `SocketBuffer`, packing | bytes read ahead, a cached reply, chunks | pack, read_response, can_read | `Parser` |
| `BitFieldOperation` | operations, last overflow | overflow, get, set, incrby, execute | `BitField` |
| redis-py `Pipeline`, `transaction` | watching, staged commands, its connection | watch, execute, reset, retries | `Pipeline` |
| redis-py `PubSub` and its thread | channels, pending unsubscriptions, callback | subscribe, unsubscribe, poll, listen, close | `PubSub` |
| redis-py `ConnectionPool`, `BlockingConnectionPool` | idle and used connections, pid, fork lock | get, release, disconnect, reset after a fork | `Pool` |
| redis-py `Lock`, `Script` | token, perhaps per thread; the key | acquire, extend, reacquire, release | `Lock` |
| redis-py `Sentinel`, its pool | order of the sentinels, known master, round robin | discover, connect, release | `Sentinel` |
| GUI: `gui.m` | listing on screen, which may be old | asks for tasks, sends to servers | actions of `Cluster` and `Server` |
| Epochs: `flush_db.m`, `get_db_timetag.m` | `db_timetag` | FLUSHALL under running workers | not modelled |
| `wait.m`, `get_cluster_status.m`, plots, conversions, scripts, redis-py's command methods | none that the control depends on | | not modelled |

They interact in five ways. Sessions, workers and servers read and write the
shared keys. Redis runs a Lua script or a MULTI block atomically, and everything
between two of them can be overtaken. A session talks to a server through its
command list, and the server to a worker through `worker:N status` and by
ending its process. A worker's process answers the server by making the status
`active` and leaving its pid. And inside `server.py`, redis-py is a stack: a
pool lends connections, a connection packs, sends and parses on a socket, and
pipelines, subscribers and locks use what they borrowed.

### What is hard, and what makes each part correct

- **Requirements.** A task waits in `pre_pending_tasks` until the last of its
  requirements is finished. `add_task.lua` looks at the requirements once;
  `set_task_status.m` marks a task finished in one command and releases its
  dependents in another. Correct: nobody is left waiting, nobody runs early.
- **Moves on a status read before.** `set_task_status.m` reads a task's hash,
  and then removes the task from the list of *that* status, adds it to another
  and writes the new status. Two operators and a worker may do so at once.
  Correct: a task is never forgotten, and what operators do to one task does
  not disturb the others.
- **One queue, many workers.** Correct: each task is performed once, by one
  worker, and its status goes forward only.
- **Withdrawing a worker.** `SREM available_workers` and `LPUSH server:N:cmd`
  are two commands. Correct: who was withdrawn is commanded.
- **Processes that die.** A Matlab process may die at any step; only
  `current_task` tells what is lost. The server may die or be restarted, and
  knows then only what the hashes say. Correct: each ongoing task ends, each
  dead worker is replaced, each process is watched, and none that was killed
  comes back.
- **Several servers on one host.** Each looks at three fields, one after the
  other, and writes two. Correct: one of them serves, and when it is gone one
  that waits takes over.
- **Replies that come too late.** After a timeout the reply is still to come.
  Matlab's client keeps the socket: correct means that otherwise each call reads
  its own reply, and after `'reconnect'` again. redis-py leaves the socket:
  correct means that no user ever meets what an earlier one left on it.
- **Sockets that fail within a protocol.** A lost socket takes a WATCH or a
  subscription with it, and retries and health checks open another behind the
  caller's back. Correct: no update is overwritten, nothing counts as done that
  was not, and subscriptions come back.
- **Pieces.** What arrives on a socket is cut anywhere, read ahead, and asked
  about by `can_read`. Correct: every command has its own reply, and no reply
  lies in memory while the reader waits for the socket.
- **Threads and forks.** Threads share a pool; a child finds its parent's
  connections in it, and locks that nobody will release. Correct: a connection
  has one user, the count holds, a parent's sockets stay open, calls return.
- **Expiry.** A lock's key expires while its thread works, and its commands are
  sent twice or their replies lost. Correct: who holds a token that did not
  expire has the lock, and only he releases it.
- **Failover.** The master moves while connections to the old one are idle, in
  use or being released. Correct: idle ones lead to the known master, and
  writes end at the new one.

Section "hazards" of `PROJECT.json` has each of these at its line with the
properties that are about it.

## 2. Modules

    RedisLists <- TaskStore <- Cluster <- MCCluster                 (TLC)
                            <- Server  <- MCServer                  (TLC)
                  TaskGate, instantiated by Cluster
    Election, RedisClient, Pool, Lock                               (TLC)
    Sentinel <- MCSentinel                                          (TLC)
    Connection <- Pipeline, PubSub <- RedisPy                       (TLC)
    Parser <- BitField <- MCWire                                    (TLC)

    TaskStore_proofs <- Cluster_proofs, Server_proofs               (TLAPS)
    Lock, Election <- Exclusion_proofs                              (TLAPS)
    Pool, Sentinel <- Pool_proofs                                   (TLAPS)
    BitField <- Parser_proofs                                       (TLAPS)
    RedisClient_proofs, RedisPy_proofs                              (TLAPS)

**`RedisLists`**: LPUSH, RPUSH, LREM and its reply on sequences.

**`TaskStore`**: one operator per script or MULTI block. Task *n* is the number
*n*. Of the hash it keeps the fields that decide something: `status`,
`failPolicy`, whether `startedOn` is set, `runner` (the field `worker`).
`:dependencies` and `:prior_to` are sets: the code pushes to them, removes by
value and tests for emptiness. The one place where order shows is the walk over
`:prior_to` in `update_dependent_tasks.lua`, newest first, which is by falling
number because INCR numbers the tasks in the order they are pushed.
`UpdateDependentTasks` is that whole walk.

**`Cluster`**: workers and operators, each with a program counter `pc[c]` and the
local variables `job[c]` of its call; every access to Redis is one step. A
worker goes `down, advertise, check, poll, run, read, exec, release, clear` and
around to `check`; `stopped` is the end of its loop. `set_task_status.m` is
`read` (`get_redis_hash` and the early returns), `exec` (its MULTI block) and
`release`. It is one set of actions for workers and operators, as in the code.
`set_worker_status.m` is `wcheck, wsrem, wcmd` for each worker in turn. An
operator picks any task that exists, since his listing may be old: that is what
the GUI's menus let through to `set_task_status.m`. A submitter's
requirements are keys of existing tasks. Nobody takes commands off `cmds` here:
that is the server's side. What the server does to a worker's status on the way
is here: `ServerWrites`, at any time, because it does so on commands, on those that
the GUI pushes to it directly, and when it finds a process dead. It never touches
`available_workers`. Where a run asks nothing of workers (`Dag`) servers leave
them alone too.
History variables, which no action reads: `required` (requirements as
submitted), `settled` (tasks whose dependents were to be let go),
`touched` (tasks an operator moved or removed), `removed`.

**`TaskGate`**: the abstract promise, without lists, workers, clients or
statuses. A task is *open* when all its requirements are settled or an operator
says so, and only open tasks start. `Cluster` implements it under the mapping
`open` = created and not `pre_pending`, `started` = has a `started_on`,
`overridden` = `touched`.

`MCCluster` confines the run `Requests` by the action constraint `Confined`: at
any time there is one task, with two workers, or one worker that has joined, with
two tasks. Two tasks with two workers and every request are out of TLC's reach;
the theorems have no such bound.

**`Server`**: one host. `proc[p]` is a Matlab process, with the worker it
runs as; `server` is the program counter and local variables of `server.py`,
`workers` its list and `handles` the pid in each `MrcWorker`. Processes
perform tasks by the same store operators and the same steps as in `Cluster`, and
may die at any of them (`Crash`). `fail_current_task` is two steps, `kill` two,
`start` three (`starting` and a new process; `active` seen or given up; the pid
read). A worker's process and its key are different things here, since the
faults are about their coming apart. Choices:
 - the list of workers is walked in any order, which covers the order of the
   list and of SMEMBERS;
 - `Init` has one command `new` in the list for each worker there may be;
 - `scenario` says what may happen in a behaviour, and how often: `MCServer` has
   `Crashing` (processes die), `Commanded` (the GUI's commands, which it pushes
   to the server directly, `gui.m:301-316`, and a death) and `Late` (the server
   dies, and a process may join after the 60 s of `start_matlab_worker`, where
   in the others it joins or dies before);
 - a command that names a worker who is not in the server's list passes it over
   (`Named`), which is why `KillWins`: the newest command is carried out first, and a
   'restart' sent before a 'kill' finds nobody to restart;
 - history: `missed`, processes that had not entered `server:N:workers` when the
   server came up.

**`Election`**: processes that run `server.py` on one host. Each reads `status`,
`pid` and `last_ping` in a step of its own, and writes the first two in one
each; `age` is the time since `last_ping`, in ticks up to just above `PingTimeout`,
and what a server does between two pings takes any time, because it may start a
Matlab. History: `disturbed`, that an election began during another or before
the first ping of a server, or that a server was silent too long. All three do
let a second server in, so `OneServer` says that nothing else does.

**`RedisClient`**: one Matlab session. `Begin`, `Multi`, `Queue` and `Exec` are
`cmd.m`; `Reconnect` is `redis('reconnect')` with the constructor; `ReadReply`
and `Timeout` are what `read_response.m` can return; `Proceed` is what follows
the last reply, where `eval` goes from a NOSCRIPT to SCRIPT LOAD and EVALSHA.
Redis carries out what was written (`CarryOut`), on old connections too, and
learns and forgets the script by what other clients do (`OtherLoads`,
`OtherFlushes`).
A reply is the number of the call and the command it is the reply to, so that
the properties can tell whose it is. History: `late`, `ran`, and `forgot`, that the
script was flushed since the call began.

**`Connection`**: a connection of redis-py and its sockets. `call` is the call
under way of whoever holds it: `send` requests, a health check first if one is
due, then `want` replies. `inbox[s]` are the requests that Redis has still to
carry out on socket `s`, `outbox[s]` the replies that nobody has read. A socket
that is left keeps its writing requests in `inbox`: Redis may carry them out
later, or never (`Drop`). `conf` has the two options that decide something.
`NewSocket` is `connect` with the callbacks, whose requests are `greeting`. A health
check that reads something else than PONG counts as failed.

**`Pipeline`**: `Redis.transaction` with a function that reads a watched number
and sets it to the next one (mode `watch`), and a pipeline without MULTI that
increments it (mode `batch`); errors, retries, and `reset` with its UNWATCH.
**`PubSub`**: the object, its callback and the loop of `PubSubWorkerThread`; a
request of the user comes between two polls, and the health check is a PING with a message
of its own (`HealthCheck`), not the one of a `Connection`.
**`RedisPy`** composes them: they use the connection one after the other, as the
pool lends it, and Redis is at the other end, with a number `x` that other
clients change too, a watch per session and the subscriptions of the current
one. History: `writes`, `executed`, `returned`, `wanted`.

**`Pool`**: both pool classes for the threads of a process that forks. A fork
leaves the parent as it is, so the model follows the child: the thread that
forked goes on, with what it holds, and the others are gone. `_checkpid`,
with its comparison outside of the lock and the one inside, is a step each;
`pool.lock` is `inherited` when somebody held it at the fork. History: `foreign`
and `shut`, the sockets that this process has shut down.

**`Lock`**: threads with one `Lock` object (`thread_local` or not) and the
key with its time to live, in ticks. A command is carried out, and its reply
arrives, or is lost, or it is sent again by `retry_on_timeout`; a script that
Redis forgot is loaded and sent again. The timeout may be none, some, or 0, which
`acquire` takes for none and `reacquire` for a PEXPIRE of 0, which deletes the key
(`Deletes`). History: `expired`, tokens whose key expired.

**`Sentinel`**: threads on the pool of one service, for its master or its
slaves. `discover_master` asks the sentinels in the order of the list, and moves
the one that answered to its head in two writes (`Swap`); the pool notes a new
master and then disconnects what is idle; slaves are tried from a counter that
all threads share, and one that times out ends the search. A connection that
comes back to the pool of the master is dropped unless it was to the master that is
known. The service is outside the code: failovers, sentinels that fail, come back
and learn, and a demoted master.

**`Parser`**: `pack_command` and `pack_commands`, then `PythonParser` over
`SocketBuffer`, or `HiredisParser` over the reader of that library (modelled
by what the code expects of `gets`). A piece of the wire stands for some bytes:
a line has one with its type and length and one for CRLF, and what is received
is cut between any two. **`BitField`** composes it with the builder of BITFIELD
commands; a thread that builds a command sends no other meanwhile. History:
`asked`, `sent`, `returned`, `mode`, `wanted`. Texts are sequences of pieces whose
types are members of the constant `Types`, so that what a command or a reply is made
of is left open; `MCWire` gives the ones its texts have.

Every state machine has a `TypeOK` (`ElectionTypeOK` in `Election`, `SentinelTypeOK`
in `Sentinel`, whose names carry a prefix because one module of proofs extends
`Lock` as well, and another one `Pool`). It says what the state is; it is proved as a
theorem, and the runs spend themselves on other properties.

## 3. Runs

Bounds are constants in the `.cfg` files, named `Max...`, the numbers of tasks,
workers, processes, threads, servers, sentinels and nodes, and for `Server` the
fields of a scenario.

| Run | Instance | Checks |
|---|---|---|
| `Dag` | 3 tasks, every acyclic requirement graph and policy, 2 workers; fair | `RequirementsFirst`, `SoleRunner`, `MovesForward`, `RunnableTaskSettles` (liveness) |
| `Requests` | 2 operators with 2 requests of all kinds; 2 tasks and 1 worker, or 1 task and 2 workers; servers that write into hashes; 1,318,000 states | `NoLostWakeup`, `PrePendingWaits`, `InListOfItsStatus`, `WithdrawnIsCommanded`, `GateSpec` (refinement) |
| `Server` | 1 worker; 2 tasks and 2 crashes, or 2 commands and a crash, or a death of the server and late processes; fair; 286,000 states | `EveryProcessIsWatched`, `KilledStaysDead`, `OngoingIsAccounted`, `OneProcessPerTask`, `KillWins`, `OngoingEnds`, `CrashedIsReplaced` (liveness) |
| `Election` | 3 processes, 4 launches, timeout of 2 ticks; fair; 27,000 states | `OneServer`, `TakesOver` (liveness) |
| `Client` | 4 calls, 2 timeouts, 2 connections, blocks of 2, scripts loaded and flushed by others; 408,000 states | `RepliesOwed`, `OwnReply`, `EvalRunsOnce` |
| `RedisPy` | 2 sockets, 2 faults, 1 transaction or pipeline, 1 channel, 2 requests of the subscriber, 1 write by others, all options; fair; 503,000 states | `EveryIncrementCounts`, `ReturnedIsExecuted`, `ReleasedIsPlain`, `SettledIsKnown`, `Resubscribed` (liveness) |
| `Pool` | 2 threads, 1 or 2 connections, 2 forks, both classes; fair; 33,000 states | `Exclusive`, `Accounted`, `ParentKeepsItsSockets`, `CallsReturn` (liveness) |
| `Lock` | 2 threads, ttl of 1 and 1 more, 2 acquires, 1 extend, 2 faults, all options; fair; 443,000 states | `HeldIsLocked`, `ReleasedByOwner`, `AcquireEnds` (liveness) |
| `Sentinel` | 2 threads, 2 sentinels, 3 nodes, 1 failover, 1 fault; fair; 547,000 states | `IdleIsCurrent`, `WritesReachTheMaster`, `ConnectsAgain` (liveness) |
| `Wire` | 9 commands, 1 or 2 at a time or in a pipeline, cutoff of 6 pieces, BITFIELD with WRAP and SAT; fair; 158,000 states | `RepliesInOrder`, `ClosedForCause`, `NothingIsHidden`, `ReadsEnd` (liveness) |
| `ContinueCrash`, `MarkPending` | the smallest that shows it | see section 6 |

Why these bounds reach what matters.

- Three tasks give the graphs in which a dependent has two requirements, a
  requirement two dependents, and a chain has a middle; two workers make two of
  them finish at the same time. A stale read takes three parties at most (a
  reader, somebody who moves the task, and a worker or second reader).
- In `Requests` a write of a server into a worker's hash counts as one of the two
  requests: it meets an operator who has read the status before it or one to come.
- `Commanded` needs a process to start with and one for each of the crash and
  the two commands. In `Crashing` the second crash hits the process that was
  started for the first, at each of its steps.
- The election's fourth launch lets a server restart while two others look.
- `Client` has room for a block or an evaluated script on a connection, a late
  reply, a reconnect and another call.
- In `RedisPy` two faults are one that loses a socket and one more while it is
  replaced; two requests of the subscriber are one that a reconnect meets
  unconfirmed and one after it; a transaction that fails is tried again as often
  as it fails, so one begun covers several attempts.
- The second fork of `Pool` is that of a child which has not yet reset its pool.
- In `Lock` the second acquire is that of the other thread, after the key
  expired, or of the same thread again.
- `Sentinel` has three nodes so that slaves are two before the failover and
  two others after it, which is what breaks a shared counter.
- The cutoff of 6 pieces lies between the two lengths of argument in `MCWire`,
  and joined chunks pass it in both ways; its arrays are nested, empty, with a
  null, and with an error that stands for a lost connection at either place.

`Dag` and `ContinueCrash` check for deadlock. The others do not, because
there all may really be over: workers that were told to stop leave their loops,
operators, users and threads use up what they may ask for, a late process takes
the last that can be started. (`CallsReturn`, `AcquireEnds`, `ReadsEnd`,
`ConnectsAgain` and `TakesOver` say that nobody waits for ever in these.)

## 4. Fairness

Liveness is checked under weak fairness of loops and of calls that have begun;
nobody has to submit, ask, crash, fork or begin.

- `Cluster`, `Server`: each worker's loop, each call, the server's loop and each
  Matlab process. The loops poll without end, Redis answers, the command of a
  task is taken to return or throw, and the operating system runs each process.
  `RunnableTaskSettles` is checked where nobody asks for anything, since an
  operator may remove a task or stop all workers; `OngoingEnds` and
  `CrashedIsReplaced` where crashes are the only faults.
- `Election`: the steps of each process, and time.
- `RedisPy`: Redis, the steps of a call of the subscriber that has begun, and its
  polling thread; strong fairness for a poll at which a health check is due,
  because the clock makes one due again and again, and for the failure of
  writing to a socket that Redis has closed, because the kernel accepts such
  writes for a while only.
- `Pool`, `Lock`: the steps of each thread within a call, Redis, and time.
- `Sentinel`: the threads, and the service: sentinels come back and learn of the
  failover, and an old master is demoted.
- `Parser`: what was sent arrives, and a reader that has it goes on.

## 5. Proofs

The theorems hold for any number of tasks, workers, operators and requests
(`MaxTasks` in `Nat \ {0}`, `NoWorker` not a worker, no operator is a worker),
of calls, timeouts, connections and commands in a block of `RedisClient`, of
threads, acquires, extends and faults and for any times of `Lock`, of processes
and launches and for any timeout of `Election`, of sockets, transactions,
channels, requests, faults and increments by others of `RedisPy`, of threads, forks and
connections of `Pool` in both classes, of threads, sentinels, failovers and
faults and for any finite set of nodes of `Sentinel`, of commands, arguments,
replies and operations and for any cutoff of `Parser` and `BitField`, and for any
processes, workers, tasks and scenarios of `Server`, those with more crashes, commands
and deaths than a run has too.

What `Parser` assumes of its constants is that replies are finite: `RepliesAssumption`
says that a reply is a line, a text or an array of replies, and that its nesting has
a `Depth`; that no line is of a type that stands for something else; and that a
command is texts. `BitFieldAssumption` says that the replies to BITFIELD are among the
replies, up to the number of operations that there may be.

| Theorem | Module | Says |
|---|---|---|
| `TypeCorrect` | `Cluster_proofs` | `TypeOK` of `Cluster` |
| `WakeupSafe`, `PrePendingSafe`, `NoTaskForgotten` | `Cluster_proofs` | `NoLostWakeup`, `PrePendingWaits`, `InListOfItsStatus` |
| `ClusterIsGate`, `RequirementsComeFirst` | `Cluster_proofs` | `Cluster` implements `TaskGate`; `RequirementsFirst` |
| `OneRunner`, `OnlyForward` | `Cluster_proofs` | `SoleRunner`, `MovesForward` |
| `WithdrawnCommanded` | `Cluster_proofs` | `WithdrawnIsCommanded` |
| `ServerTypeCorrect` | `Server_proofs` | `TypeOK` of `Server` |
| `TaskPerformedOnce` | `Server_proofs` | `OneProcessPerTask` |
| `ProcessesWatched`, `KilledIsDead` | `Server_proofs` | `EveryProcessIsWatched`, `KilledStaysDead` |
| `OngoingTasksAccounted` | `Server_proofs` | `OngoingIsAccounted` |
| `ClientTypeCorrect`, `NoReplyIsLost` | `RedisClient_proofs` | `TypeOK` of `RedisClient`, `RepliesOwed` |
| `RepliesAreOwn`, `ScriptRunsOnce` | `RedisClient_proofs` | `OwnReply`, `EvalRunsOnce` |
| `LockTypeCorrect`, `LockHeld`, `LockReleasedByOwner` | `Exclusion_proofs` | `TypeOK` of `Lock`, `HeldIsLocked`, `ReleasedByOwner` |
| `ElectionTypeCorrect`, `OnlyOneServer` | `Exclusion_proofs` | `ElectionTypeOK`, `OneServer` |
| `RedisPyInvariant`, `RedisPyTypeCorrect` | `RedisPy_proofs` | `RedisPyInv`, `TypeOK` of `RedisPy` |
| `IncrementsCount`, `ReturnsWhatWasExecuted` | `RedisPy_proofs` | `EveryIncrementCounts`, `ReturnedIsExecuted` |
| `ReleasesPlain`, `KnowsWhatIsSettled` | `RedisPy_proofs` | `ReleasedIsPlain`, `SettledIsKnown` |
| `PoolTypeCorrect`, `ConnectionsExclusive` | `Pool_proofs` | `TypeOK` of `Pool`, `Exclusive` |
| `ConnectionsAccounted`, `ParentSocketsKept` | `Pool_proofs` | `Accounted`, `ParentKeepsItsSockets` |
| `SentinelTypeCorrect`, `IdleConnectionsCurrent` | `Pool_proofs` | `SentinelTypeOK`, `IdleIsCurrent` |
| `PackingIsFaithful` | `Parser_proofs` | Redis answers what is written as it does the commands, one by one |
| `WireInvariant`, `ParserTypeCorrect` | `Parser_proofs` | `WireInv`, `TypeOK` of `Parser` |
| `RepliesComeInOrder` | `Parser_proofs` | `RepliesInOrder` |
| `NothingHidden`, `ClosesForCause` | `Parser_proofs` | `NothingIsHidden`, `ClosedForCause` |

The argument:

- `TaskStore_proofs` says once what the list operators and scripts return: what
  LREM leaves, that a release moves exactly `Released(t)`, that each block keeps
  the types of the store.
- `TypeInv` is `TypeOK` with `CallsOK`: types are not inductive alone, because
  `set_worker_status` writes the worker it read into a command, so a client at
  such a step must have read one.
- `WakeupInv` adds what keeps the waiting in order. `Paired`: whoever waits for
  *d* is in `prior_to` of *d*. `SinglePre`: a waiting task is once in
  `pre_pending_tasks`, without which the release, which acts on an LREM that
  returned 1, would drop it. Then `NoLostWakeup` holds as it stands: `Unfinished`
  leaves out finished requirements, and a task becomes finished in the step
  after which the client is `Releasing` it.
- `GateInv` adds that finished tasks, and those being released, are settled; that
  a task waits for every requirement that is not; that pending tasks are open and
  started ones were. Under it each step is a step of `TaskGate` or a stutter.
- `SoleInv` adds for untouched tasks that they are in no list but their own,
  that an ongoing one is performed by the worker it names, that whoever performs
  a task finds it ongoing, and that a worker about to mark it saw it ongoing. So
  the LREM of its MULTI block hits.
- `PoolInv` of `Cluster_proofs` is `TypeInv` with `WithdrawnIsCommanded`, which is
  inductive on types alone. A worker becomes active only before it has
  entered the set; an operator who took it out is at `wcmd` until his command
  is queued (`Commanded`); a forced 'finished' takes it out and makes it
  inactive in one block; and a server only writes statuses that are not active.
- For `Server` there are four invariants, each on top of those before. `Types` is
  `TypeOK` with `Keyed`: who runs, and whom the server is occupied with, has a key.
- `RunsInv`, for `OneProcessPerTask`, holds whoever dies or is late. A task waits at
  one place of one list at most and has not started as long as it does
  (`WaitsOnce`); what has started is ongoing or settled (`StartedHasBegun`); and
  whatever a process works on, a hash names or the server is about to fail has
  started (`NamedHasStarted`). So no `fail_current_task` and no late mark, and they
  do come for tasks that others have settled, brings a task back into the queue,
  and a pop gives each process a task that nobody had.
- `Watch`, while the server stays: a worker has one process (`OneEach`). It has not
  joined only while the server waits for it (`LaunchedIsAwaited`); from then on
  the hash is its own (`JoinedHasHash`), so that the pid the server reads is that
  of the process. Who is in the list is known by its handle (`Handled`), who
  is not is still to be read or was missed by a restart (`Found`), and nobody is
  started who has a process (`NoneToStart`). Which steps a command consists of
  and which workers it has still to visit (`StepOfOp`, `Walk`, `StatusOfWorker`)
  tell why a kill leaves nobody in the list for the next scan to start
  again (`DeadLeaves`), which is `KilledStaysDead`.
- `LivesInv`, while Matlab processes alone die: an ongoing task's `worker` is the
  process that performs it, or that worker's `current_task` names it until the
  server has failed it (`HashNamesTask`, `Accounted`). The invariant knows where
  each of the steps of a pop, a clear and a `fail_current_task` leaves the
  field, because between two of them the process may die.
- `OwedInv` adds to the count of replies that a block's counter is the number of
  commands on the stack and that unopened connections are empty. For `OwnReply` and
  `EvalRunsOnce`, `AnyInv` says what holds after timeouts, too: commands on
  old connections are of earlier calls (`NumbersAscend`), and a call that came
  later has run nothing. `StepInv` says for a connection without one that all
  that is on it is of this call (`OfThisCall`), that the last of it is what the call
  waits for (`LastAwaited`), and what each of EVALSHA, SCRIPT LOAD and EVALSHA
  knows of the script and of its runs (`EvalRuns`): after SCRIPT LOAD the script is
  loaded unless it was flushed meanwhile (`LoadedOrForgot`), so a NOSCRIPT that the
  call returns names its cause.
- `LockInv`: `HeldIsLocked` alone is not inductive, because the thread that gets
  'yes' for its SET stores a token that somebody else might have used, given
  up or lost. The invariant adds where each token can be: that
  every token about was drawn (`AllDrawn`), and by its thread (`OwnTokens`); that
  an idle thread's call holds none (`IdleOrOwn`); that a token of a SET not
  yet carried out is nowhere else (`Unused`); that a SET that succeeded has the
  key or expired (`Granted`); and that a token sent for release is no thread's any
  more (`GivenUp`).
- `ElectionInv`: while nothing was disturbed, of two processes that are not off
  one is in its loop and the other still asks (`OneAsks`), and if one is in its
  loop the hash names it, is active, and its ping is young (`HashOfServer`). So
  whoever asks reads three fields that do not change under it, and waits.
- `RedisPyInv` is about what lies on the sockets. `Apart`: one that was left is
  silent, and has nothing to be carried out but what changes the number. `InTurn`:
  while a pipeline waits, the current socket has as many requests and answers of its
  kind as it still wants, and what it has got answers what it sent; else, when no
  subscriber has the connection, the socket is quiet. This is what a timeout would
  break if it did not disconnect. With it `Plain` follows the watch from the moment a
  request of the pipeline was answered, which gives `ReleasedIsPlain`; and `Returns`
  counts a transaction as soon as an answer other than that of an EXEC that failed is
  on its way, which gives `ReturnedIsExecuted`. `Guarded`, without health checks: an
  EXEC is alone on its socket and sets the number that follows the present one, or a
  watch on that socket is dirty (`Valid`); what a transaction has read is the present
  number as long as its watch is clean (`Reading`). An EXEC that was sent before the
  socket was lost may still be carried out, which is why `Valid` is about every
  socket. `Known`: a channel's fate on the current socket is decided by the last
  request there that names it (`Will`, `Coming`); what is wanted is coming, and what is
  coming is known, or about to be subscribed to or left. Old confirmations change
  `pending` only. Once nothing is on the socket, `Coming` is `subs`, and this is
  `SettledIsKnown`.
- `PoolInv` of `Pool_proofs`: the lock is with the one thread in its section
  (`Locking`); who is past `_checkpid` is in a pool of its process, and in `reset`
  in one that is not (`Current`); a pool of another process has served nobody in
  this one (`Stale`), and one of this process holds its own connections alone
  (`Own`); the thread that forked has the only connection of the parent, until it
  gives it back (`ForeignOnce`). With `Distinct`, `PlainCount` and `BlockingCount`
  these are inductive. `Exclusive` and `Accounted` alone are not: a reset by one
  thread while others compare the pid would be free to empty a pool that is in use.
- `SentinelInv` adds to `IdleIsCurrent` what a thread has found out where it uses
  it (`Found`: a sentinel that answered with its place in the list, slaves to rotate
  through) and that the shared counter is set and bounded. The pool notes a master
  and disconnects what is idle in two steps; a release in between is to a pool in
  which somebody is at `flush`, and any other compares the address first.
- `WireInv` is about what has not been read, in the buffer or on the wire: it is what
  Redis sends for the rest of its replies (`Coming`), or for the rest but one, when
  `can_read` of HiredisParser has taken that one (`ComingWhole`). Within arrays
  `PythonParser` keeps a stack of what it has got of each. There is, for each level, a
  sequence of replies still to be read and of what comes behind it (`Framed`,
  `Inside`). No variable of the code holds these, so the invariant says that they
  exist: the line of an array puts its items in front, and a reply that is complete
  goes to the level around it. In particular no part of an array is returned as a
  reply, and no reply as a part of one. Every item that was put on the stack is free of
  an error that stands for a lost connection, since `RaiseConnectionError` would have
  closed the connection; so is then the whole that is returned.
- `PackingIsFaithful`: `pack_command` breaks what it writes where it is over the
  cutoff, or where an argument is over it or is a memoryview, and `pack_commands`
  does it again with what that wrote. Both keep the concatenation of all that was
  written or is waiting equal to the encoding of the commands so far. So what Redis
  reads is what was asked, and `WireInv` can say `asked = sent`. For BITFIELD it says
  that Redis, at the end of the operations so far, is at the builder's
  `last_overflow` with the results that were `wanted` (`Carried`, a fold over the
  operations).

`Parser` is recursive functions, and induction over their data takes theorems about
operators that the installed provers cannot instantiate. `Parser_proofs` does without
them: the least number that is an exception to a claim (`LeastNumber`, from
`WFMin`) takes the place of induction, for replies with their depth as the number.
That the recursive functions exist, without which nothing is known of them, is
proved by building them step by step (`IterationForever`, `ReplyRecursion`,
`FoldExists`, `FlattensExists`).

Two properties turned out not to be invariant while they were being proved.
`EveryProcessIsWatched` and `KilledStaysDead` used to be stated for servers that die
as well, in instances too small to tell: a server that dies between starting a
process (`server.py:81`) and reading its pid (`:92`), or between the two halves of
`kill` (`:42`, `:45`), leaves a process that is in no server's list. They say so now
(`ServerStays`).

The proof of `RedisPyInv` corrected the model: the PING of a health check that is
written to a socket Redis has closed used to be put where Redis would still find it;
now `SendOut` gives it, like every other request, to the kernel alone.

Only model-checked is all liveness (`RunnableTaskSettles`, `OngoingEnds`,
`CrashedIsReplaced`, `KillWins`, `TakesOver`, `Resubscribed`, `CallsReturn`, `AcquireEnds`,
`WritesReachTheMaster`, `ConnectsAgain`, `ReadsEnd`), since fairness and ENABLED
are out of the prover's reach.

No safety property of a passing run is left to TLC alone.

## 6. Where the code and its documents disagree

With a run that shows it:

- `ContinueCrash`: README.md:30 says that with the policy `continue` dependents
  see a failed task as finished. When the process of such a task dies,
  `server.py:61` marks the task failed and releases nobody.
- `MarkPending`: `gui.m:108` offers 'Mark as finished' for pending tasks;
  `set_task_status.m:97` reads `started_on`, which a task that never ran does not
  have, and the call ends in an error before its MULTI block.

Seen while modelling, and in the models as the code does it:

- README.md:30 again: a task *added after* a requirement failed with `continue`
  waits for a release that has already happened (`add_task.lua:10`).
- README.md:65 says that a set, `available_workers`, keeps track of all active
  workers. The server's writes of a worker's status (`server.py:33`, `:42`, `:234`)
  leave the set alone, so that the GUI's 'Kill', which goes to the server directly
  (`gui.m:301-316`), leaves a dead worker in it, with nothing left to be done
  (`ServerWrites` in `Cluster`, `NoteKill` in `Server`). So no property says that who
  is in the set is active; `WithdrawnIsCommanded` is about who was taken out of it.
- `client.py:3985-3987` says that a connection lost while watching raises a
  WatchError. With health checks, `check_health` (`connection.py:676-689`)
  connects again and says nothing: the watch is gone and EXEC overwrites what
  another client wrote. `EveryIncrementCounts` is stated without health checks.
- `client.py:3567-3583`: an unsubscription that waits for its confirmation when
  the connection is lost is forgotten by `on_connect`, which subscribes to that
  channel again; `SettledIsKnown` says what holds all the same.
- `sentinel.py:214-218`: two threads that swap the first sentinel at once can
  leave one in the list twice and another one nowhere.
- `connection.py:458-462` returns a reply that `can_read` has cached without the
  check for a lost connection that the comment at 476-478 asks for, and that
  check looks at the first item of an array only: so `RepliesInOrder` promises
  for `PythonParser` alone that no such reply is returned.
- `client.py:4254-4271`: the doc of `incrby` says that the overflow is WRAP by
  default, the builder keeps the last one.
- `server.py:178` logs a wait of at most 60 s; the loop below ends when the
  other server has been silent that long. A hash that loses `last_ping` meanwhile
  makes it compare None.
- `set_worker_status.m` documents a status `suspended` and a menu of the GUI
  calls it with `kill`, neither of which it supports; `set_task_status.m:13` says
  that `force` restarts the worker, but the worker only leaves its loop, its
  process stays and so the server never starts it again.

Scopes that show what the code does *not* keep. `EveryProcessIsWatched` excepts
processes that were joining when a server restarted (`join_as_worker.m:21-22`).
It and `KilledStaysDead` are about servers that do not die and processes that
join in time, because a server that died at its work leaves processes nobody
knows, and one that joins late makes active what had been killed.
`OngoingIsAccounted` is about deaths of Matlab processes, because with a command
in between, or a server that dies between `server.py:234` and `server.py:235`, a
task can stay ongoing for good. `OwnReply` and `EvalRunsOnce` speak of
connections without a timeout, because after one every call reads the reply of
an earlier call, as `RepliesOwed` counts. `OneServer` excepts overlapping
elections and long silences. `Accounted` counts connections that came back
from another process, since a plain pool then subtracts them from a count that
never had them, and may lend more than `max_connections`. `Resubscribed` needs
health checks: without them a poll of a socket that Redis closed fails again and
again and nothing reconnects. `HeldIsLocked` with a token that threads
share is about the last one stored only. `AcquireEnds` needs a timeout of the
lock, since a token whose reply was lost is nobody's.

## 7. Not modelled

- **Epochs** (`join_as_worker.m:100`, `server.py:211-216`, `flush_db.m`): FLUSHALL
  takes every key away under all models at once, and the time tag that should
  tell is compared before each write and not together with it. Writes of an old
  epoch do land in the new database, and no property of the shared keys survives
  that; one that does was not found.
- An error of a Redis call *after* its EXEC inside `perform_task`'s `try`
  (`join_as_worker.m:105`), which would mark a finished task failed; a
  ConnectionError in the middle of a server's command (`server.py:223`), which
  loses the rest of it and may bring back killed workers.
- Parts of a reply, and the loss of a connection, in `RedisClient`.
- In redis-py: the command methods and response callbacks, each of which builds
  one command or converts one reply; Monitor, URLs, SSL, Unix sockets,
  encodings; `load_scripts`, UNWATCH by the caller and `raise_on_error` of a
  pipeline; one connection shared by threads (`single_connection_client`).
- `wait.m`: it changes nothing, and waits for ever for a task that failed with
  `halt` or was removed. Removing a requirement leaves its dependents waiting for
  good (`set_task_status.m:36`, `:128`): the models do this, and no property says
  otherwise.
- Conversions, formatting, plots, layout of the GUI, shell scripts: no control.

## 8. Plan

Done, in this order: `RedisLists`, `TaskStore`, `Cluster` with `TaskGate`, their
proofs, `Server`, `RedisClient` and its proof; then `Election` and `Lock` with
theirs, `Connection` with `Pipeline`, `PubSub` and `RedisPy`, `Pool`, `Sentinel`,
`Parser` and `BitField`; then the proofs of `Server`, `Pool`, `Sentinel`, the rest
of those of `Cluster` and `RedisClient`, and those of `RedisPy`, `Parser` and
`BitField`.

Next:

1. `Host`: `Cluster`'s operators and `Server` composed through `cmds`, with the
   SREM of `set_worker_status.m`. Questions: can the abort of a task restart a
   worker that performs another by then; what becomes of a worker after a forced
   'finished'.
2. Errors of Redis in the middle of a worker's call and of a server's command.
3. Parts of replies and lost connections in `RedisClient`.
