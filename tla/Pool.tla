-------------------------------- MODULE Pool --------------------------------
(***************************************************************************)
(* redis/connection.py: ConnectionPool and BlockingConnectionPool, used by *)
(* the threads of a process that may fork.  The child has a copy of the    *)
(* pool, with the connections of its parent in it, and only the thread     *)
(* that forked.  A fork does not change the parent, so the model follows   *)
(* the child.                                                              *)
(***************************************************************************)
EXTENDS Integers, Sequences, FiniteSets, Functions

CONSTANTS Threads,
          MaxConnections,    \* bound on max_connections
          MaxForks           \* bound on the forks

ASSUME PoolAssumption ==
  /\ MaxConnections \in Nat \ {0}
  /\ MaxForks \in Nat

VARIABLES
  kind,      \* class of the pool
  max,       \* max_connections
  getpid,    \* the process: os.getpid()
  pool,      \* attributes of its pool
  thread,    \* step of each of its threads, and the connection it holds
  foreign,   \* history: connections of another process that this one released
  shut       \* connections whose socket this process has shut down

vars == <<kind, max, getpid, pool, thread, foreign, shut>>

Kinds == {"plain", "blocking"}
Processes == 0..MaxForks

\* A connection has the pid of the process that made it; None stands in the
\* queue of the blocking pool for one that is still to be made.
Connections == [pid : Processes, n : 1..(MaxConnections + 2)]
None == [pid |-> -1, n |-> 0]

Locks == {"free", "held", "inherited"}
Operations == {"take", "put", "close"}
Steps == {"idle", "use", "verify", "checkpid", "fork_lock", "reset", "pid", "unlock"} \cup Operations

\* The pool and its threads hold what the code writes.
TypeOK ==
  /\ kind \in Kinds /\ max \in 1..MaxConnections
  /\ {getpid, pool.pid} \subseteq Processes
  /\ Range(pool.idle) \subseteq Connections \cup {None}
  /\ pool.used \subseteq Connections
  /\ pool.created \in Int
  /\ pool.lock \in Locks
  /\ pool.lock = "held" <=> \E t \in Threads : thread[t].at \in {"reset", "pid", "unlock"}
  /\ shut \subseteq Connections
  /\ thread \in [Threads -> [at : Steps, for : Operations, conn : Connections \cup {None}]]

Idle == [at |-> "idle", for |-> "take", conn |-> None]

NewPool(pid) ==
  [pid |-> pid, used |-> {}, created |-> 0, lock |-> "free",
   idle |-> IF kind = "blocking" THEN [i \in 1..max |-> None] ELSE <<>>]

Init ==
  /\ kind \in Kinds /\ max \in 1..MaxConnections
  /\ getpid = 0
  /\ pool = NewPool(0)
  /\ thread = [t \in Threads |-> Idle]
  /\ foreign = 0
  /\ shut = {}

-----------------------------------------------------------------------------
Goto(t, step) == thread' = [thread EXCEPT ![t].at = step]
Return(t) == thread' = [thread EXCEPT ![t] = Idle]
At(t, step) == thread[t].at = step
Held(t) == thread[t].conn

\* Connections that threads hold, and those that are known at all.
InUse == {Held(t) : t \in Threads} \ {None}
Pooled == (Range(pool.idle) \cup pool.used) \ {None}
Known == InUse \cup Pooled

\* Connections of this process that threads hold.
Lent == {c \in InUse : c.pid = getpid}

owns_connection(c) == c.pid = pool.pid

\* A connection is shut down whoever opened it.
ShutDown_Always(cs) == shut' = shut \cup cs

\* Connection.disconnect: a socket is shut down only by the process that opened
\* it; another one closes its own descriptor.
ShutDown(cs) == shut' = shut \cup {c \in cs : c.pid = getpid}

\* A thread calls a method of the pool, which begins with _checkpid.
Call(t, op) ==
  /\ IF op = "put" THEN At(t, "use") ELSE At(t, "idle")
  /\ thread' = [thread EXCEPT ![t].at = "checkpid", ![t].for = op]
  /\ UNCHANGED <<kind, max, getpid, pool, foreign, shut>>

Checkpid(t) ==
  /\ At(t, "checkpid")
  /\ Goto(t, IF pool.pid = getpid THEN thread[t].for ELSE "fork_lock")
  /\ UNCHANGED <<kind, max, getpid, pool, foreign, shut>>

\* Whoever gets the lock first resets the pool.
AcquireForkLock(t) ==
  /\ At(t, "fork_lock") /\ pool.lock = "free"
  /\ pool' = [pool EXCEPT !.lock = "held"]
  /\ Goto(t, IF pool.pid = getpid THEN "unlock" ELSE "reset")
  /\ UNCHANGED <<kind, max, getpid, foreign, shut>>

\* The thread waits for the lock as long as it takes.
ForkLockTimesOut_Never(t) == FALSE

\* A lock that was held when the process was forked is never released: after
\* five seconds ChildDeadlockedError is raised.
ForkLockTimesOut(t) ==
  /\ At(t, "fork_lock") /\ pool.lock = "inherited"
  /\ Return(t)
  /\ UNCHANGED <<kind, max, getpid, pool, foreign, shut>>

\* The connections of the parent stay in the pool.
Reset_Keeps(t) ==
  /\ At(t, "reset")
  /\ Goto(t, "pid")
  /\ UNCHANGED <<kind, max, getpid, pool, foreign, shut>>

\* reset() forgets the connections, whose __del__ disconnects them; it sets pid
\* last, since the other threads read it without the lock.
Reset(t) ==
  /\ At(t, "reset")
  /\ pool' = [NewPool(pool.pid) EXCEPT !.lock = "held"]
  /\ ShutDown(Pooled \ InUse)
  /\ foreign' = 0
  /\ Goto(t, "pid")
  /\ UNCHANGED <<kind, max, getpid>>

SetPid(t) ==
  /\ At(t, "pid")
  /\ pool' = [pool EXCEPT !.pid = getpid]
  /\ Goto(t, "unlock")
  /\ UNCHANGED <<kind, max, getpid, foreign, shut>>

ReleaseForkLock(t) ==
  /\ At(t, "unlock")
  /\ pool' = [pool EXCEPT !.lock = "free"]
  /\ Goto(t, thread[t].for)
  /\ UNCHANGED <<kind, max, getpid, foreign, shut>>

-----------------------------------------------------------------------------
(* get_connection. *)

Grant(t, c) == thread' = [thread EXCEPT ![t].at = "verify", ![t].conn = c]

\* The connection used last is provided again,
TakeIdle(t) ==
  LET idle == pool.idle IN
  /\ At(t, "take") /\ idle # <<>> /\ idle[Len(idle)] # None
  /\ pool' = [pool EXCEPT !.idle = SubSeq(idle, 1, Len(idle) - 1),
                          !.used = IF kind = "plain" THEN @ \cup {idle[Len(idle)]} ELSE @]
  /\ Grant(t, idle[Len(idle)])
  /\ UNCHANGED <<kind, max, getpid, foreign, shut>>

\* or a new one is made, if there may be another: the plain pool counts them,
\* the blocking one takes a placeholder out of its queue.
TakeNew(t) ==
  LET fresh == {c \in Connections : c.pid = getpid} \ Known
      c == CHOOSE c \in fresh : \A d \in fresh : c.n <= d.n IN
  /\ At(t, "take")
  /\ \/ /\ kind = "plain" /\ pool.idle = <<>> /\ pool.created < max
        /\ pool' = [pool EXCEPT !.created = @ + 1, !.used = @ \cup {c}]
     \/ /\ kind = "blocking" /\ pool.idle # <<>> /\ pool.idle[Len(pool.idle)] = None
        /\ pool' = [pool EXCEPT !.idle = SubSeq(@, 1, Len(@) - 1)]
  /\ Grant(t, c)
  /\ shut' = shut \ {c}
  /\ UNCHANGED <<kind, max, getpid, foreign>>

\* There are too many; the blocking pool raises after its timeout.
TakeFails(t) ==
  /\ At(t, "take") /\ pool.idle = <<>>
  /\ kind = "plain" => pool.created >= max
  /\ Return(t)
  /\ UNCHANGED <<kind, max, getpid, pool, foreign, shut>>

\* The connection connects, or connects again; if it cannot, it is released.
Verify(t) ==
  /\ At(t, "verify")
  /\ Goto(t, "use")
  /\ shut' = shut \ {Held(t)}
  /\ UNCHANGED <<kind, max, getpid, pool, foreign>>

\* The error is raised, and the connection is left where it is.
VerifyFails_Raises(t) ==
  /\ At(t, "verify")
  /\ Return(t)
  /\ UNCHANGED <<kind, max, getpid, pool, foreign, shut>>

VerifyFails(t) ==
  /\ At(t, "verify")
  /\ thread' = [thread EXCEPT ![t].at = "checkpid", ![t].for = "put"]
  /\ UNCHANGED <<kind, max, getpid, pool, foreign, shut>>

-----------------------------------------------------------------------------
(* release and disconnect. *)

\* What put_nowait leaves in the queue; it raises Full, or the connection is
\* dropped, if there is no room.
PutNowait(c) == IF Len(pool.idle) < max THEN Append(pool.idle, c) ELSE pool.idle

Put(t) ==
  LET c == Held(t) IN
  /\ At(t, "put") /\ owns_connection(c)
  /\ pool' = [pool EXCEPT !.used = @ \ {c},
                !.idle = IF kind = "plain" THEN Append(@, c) ELSE PutNowait(c)]
  /\ Return(t)
  /\ UNCHANGED <<kind, max, getpid, foreign, shut>>

\* A connection that belongs to another process is left; something takes its
\* place in the count.
PutForeign(t) ==
  LET c == Held(t) IN
  /\ At(t, "put") /\ ~owns_connection(c)
  /\ pool' = IF kind = "plain"
             THEN [pool EXCEPT !.used = @ \ {c}, !.created = @ - 1]
             ELSE [pool EXCEPT !.idle = PutNowait(None)]
  /\ foreign' = foreign + 1
  /\ ShutDown({c})
  /\ Return(t)
  /\ UNCHANGED <<kind, max, getpid>>

\* disconnect() of the pool closes every socket, also of those in use; the blocking
\* pool has a list of them.
DisconnectAll(t) ==
  /\ At(t, "close")
  /\ ShutDown(Pooled \cup IF kind = "blocking" THEN Lent ELSE {})
  /\ Return(t)
  /\ UNCHANGED <<kind, max, getpid, pool, foreign>>

-----------------------------------------------------------------------------
\* A thread that is in no method of the pool forks; other threads may be in one,
\* and the child has what they have done so far.
Fork(t) ==
  /\ getpid < MaxForks /\ getpid' = getpid + 1
  /\ thread[t].at \in {"idle", "use"}
  /\ pool' = [pool EXCEPT !.lock = IF @ = "free" THEN @ ELSE "inherited"]
  /\ thread' = [u \in Threads |-> IF u = t THEN thread[t] ELSE Idle]
  /\ shut' = {}
  /\ UNCHANGED <<kind, max, foreign>>

\* What a thread does within a method.
Step(t) ==
  \/ Checkpid(t) \/ AcquireForkLock(t) \/ ForkLockTimesOut(t)
  \/ Reset(t) \/ SetPid(t) \/ ReleaseForkLock(t)
  \/ TakeIdle(t) \/ TakeNew(t) \/ TakeFails(t)
  \/ Verify(t) \/ VerifyFails(t)
  \/ Put(t) \/ PutForeign(t) \/ DisconnectAll(t)

Next ==
  \/ \E t \in Threads : Step(t) \/ \E op \in Operations : Call(t, op)
  \/ \E t \in Threads : Fork(t)

\* Threads within a method go on.
Fairness == \A t \in Threads : WF_vars(Step(t))
Spec == Init /\ [][Next]_vars /\ Fairness

-----------------------------------------------------------------------------
\* No two threads hold the same connection, and what the pool provides was made
\* in this process.
Exclusive ==
  /\ \A t, u \in Threads : t # u /\ Held(t) # None => Held(t) # Held(u)
  /\ \A t \in Threads : At(t, "verify") => Held(t).pid = getpid

\* No connection is lost and none is in the pool twice: the plain pool's count is
\* that of the connections it lent and holds, but for what it was given back from
\* another process; the blocking pool has a place for each of max_connections.
\* As long as nothing came back from another process, neither lends and keeps more
\* than max_connections.
Accounted ==
  pool.pid = getpid =>
    /\ \A i, j \in DOMAIN pool.idle :
         i # j /\ pool.idle[i] # None => pool.idle[i] # pool.idle[j]
    /\ Range(pool.idle) \cap InUse = {}
    /\ kind = "plain" => /\ pool.used = Lent
                         /\ pool.created = Len(pool.idle) + Cardinality(Lent) - foreign
    /\ kind = "blocking" => /\ Len(pool.idle) <= max
                            /\ Len(pool.idle) + Cardinality(Lent) >= max
    /\ foreign = 0 => Cardinality(Lent \cup (Range(pool.idle) \ {None})) <= max

\* A child never shuts down a socket of its parent, which still uses it.
ParentKeepsItsSockets == \A c \in shut : c.pid = getpid

\* A method of the pool returns or raises, also in a child that inherited a lock
\* that nobody in it will release.
CallsReturn ==
  \A t \in Threads :
    thread[t].at \notin {"idle", "use"} ~> thread[t].at \in {"idle", "use"}
=============================================================================
