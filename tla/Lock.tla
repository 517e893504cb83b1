-------------------------------- MODULE Lock --------------------------------
(***************************************************************************)
(* redis/lock.py, with the Script objects of redis/client.py that it uses: *)
(* threads share one Lock object, or each has its own, which is the same   *)
(* as long as the token is in thread-local storage.  Redis carries out     *)
(* every command at once; its reply may be lost, and a command that timed  *)
(* out may be sent again.                                                  *)
(***************************************************************************)
EXTENDS Integers, FiniteSets

CONSTANTS Threads,
          Timeout,       \* timeout: the ttl of the key, in ticks of the model
          Additional,    \* additional_time of extend()
          MaxAcquires,   \* bound on the calls of acquire()
          MaxExtends,    \* bound on the calls of extend() and reacquire()
          MaxFaults      \* bound on commands or replies lost and scripts flushed

ASSUME LockAssumption ==
  /\ Threads # {}
  /\ {Timeout, Additional} \subseteq Nat \ {0}
  /\ {MaxAcquires, MaxExtends, MaxFaults} \subseteq Nat

VARIABLES
  conf,      \* thread_local and timeout of the Lock, retry_on_timeout of the client
  token,     \* local.token as each thread sees it
  call,      \* what each thread is doing
  key,       \* value of the key, None if there is none
  ttl,       \* what it has to live, Forever if it does not expire
  loaded,    \* whether Redis has the scripts in its cache
  expired,   \* history: the tokens whose key expired, by a PEXPIRE of 0 also
  acquires, extends, faults   \* counters of what is bounded

clientVars == <<conf, token, call, acquires, extends>>
redisVars == <<key, ttl, loaded, expired>>
vars == <<clientVars, redisVars, faults>>

None == <<>>
Forever == -1
Tokens == Threads \X (1..MaxAcquires)
Commands == {"set", "release", "extend", "replace", "reacquire", "load"}
Scripts == Commands \ {"set", "load"}
Replies == {"none", "yes", "no", "noscript"}
Steps == {"idle", "sleep", "sent", "replied"}

\* timeout: "zero" is not None, but no PX is sent for it.
Configurations == [thread_local : BOOLEAN, timeout : {"none", "zero", "set"}, retry : BOOLEAN]

\* The Lock and Redis hold what the code writes.
TypeOK ==
  /\ conf \in Configurations
  /\ token \in [Threads -> Tokens \cup {None}]
  /\ call \in [Threads -> [at : Steps, op : Commands, then : Scripts, token : Tokens \cup {None},
                           reply : Replies, again : BOOLEAN]]
  /\ key \in Tokens \cup {None}
  /\ ttl \in Nat \cup {Forever}
  /\ key = None => ttl = Forever
  /\ expired \subseteq Tokens

NoCall == [at |-> "idle", op |-> "set", then |-> "release", token |-> None, reply |-> "none", again |-> FALSE]

Init ==
  /\ conf \in Configurations
  /\ token = [t \in Threads |-> None]
  /\ call = [t \in Threads |-> NoCall]
  /\ key = None /\ ttl = Forever
  /\ loaded = FALSE
  /\ expired = {}
  /\ acquires = 0 /\ extends = 0 /\ faults = 0

-----------------------------------------------------------------------------
(* The Lock object. *)

At(t, step) == call[t].at = step

Send(t, op, tok) ==
  call' = [call EXCEPT ![t] = [NoCall EXCEPT !.at = "sent", !.op = op, !.then = IF op = "set" THEN @ ELSE op,
                                             !.token = tok]]
Return(t) == call' = [call EXCEPT ![t] = NoCall]

\* Thread-local storage or not, there is one token.
Store_Shared(t, tok) == token' = [u \in Threads |-> tok]

\* Storing a token in local: for this thread, or for all that share the object.
Store(t, tok) ==
  token' = IF conf.thread_local THEN [token EXCEPT ![t] = tok] ELSE [u \in Threads |-> tok]

\* acquire: SET NX PX with a token that nobody else has.
Acquire(t) ==
  /\ At(t, "idle")
  /\ acquires < MaxAcquires /\ acquires' = acquires + 1
  /\ Send(t, "set", <<t, acquires'>>)
  /\ UNCHANGED <<conf, token, extends>>

Acquired(t) ==
  /\ At(t, "replied") /\ call[t].op = "set" /\ call[t].reply = "yes"
  /\ Store(t, call[t].token)
  /\ Return(t)
  /\ UNCHANGED <<conf, acquires, extends>>

\* The lock is taken: the thread sleeps and tries again, or gives up when it does
\* not block or has no time left.
NotAcquired(t) ==
  /\ At(t, "replied") /\ call[t].op = "set" /\ call[t].reply = "no"
  /\ \/ call' = [call EXCEPT ![t].at = "sleep"]
     \/ Return(t)
  /\ UNCHANGED <<conf, token, acquires, extends>>

TryAgain(t) ==
  /\ At(t, "sleep")
  /\ Send(t, "set", call[t].token)
  /\ UNCHANGED <<conf, token, acquires, extends>>

\* release: the token goes before the script is sent.
Release(t) ==
  /\ At(t, "idle") /\ token[t] # None
  /\ Store(t, None)
  /\ Send(t, "release", token[t])
  /\ UNCHANGED <<conf, acquires, extends>>

\* extend, with replace_ttl or not, and reacquire.
Extend(t, op) ==
  /\ At(t, "idle") /\ token[t] # None /\ conf.timeout # "none"
  /\ extends < MaxExtends /\ extends' = extends + 1
  /\ Send(t, op, token[t])
  /\ UNCHANGED <<conf, token, acquires>>

-----------------------------------------------------------------------------
(* Script.__call__. *)

\* EVALSHA fails if Redis does not know the script, which is then loaded,
NoScript(t) ==
  /\ At(t, "replied") /\ call[t].op \in Scripts /\ call[t].reply = "noscript"
  /\ IF call[t].again THEN Return(t)
     ELSE call' = [call EXCEPT ![t].at = "sent", ![t].op = "load", ![t].reply = "none"]
  /\ UNCHANGED <<conf, token, acquires, extends>>

\* and called again.
Loaded(t) ==
  /\ At(t, "replied") /\ call[t].op = "load"
  /\ call' = [call EXCEPT ![t].at = "sent", ![t].op = call[t].then, ![t].reply = "none",
                          ![t].again = TRUE]
  /\ UNCHANGED <<conf, token, acquires, extends>>

\* The script returned 1, or 0, for which an error is raised.
Answered(t) ==
  /\ At(t, "replied") /\ call[t].op \in Scripts /\ call[t].reply \in {"yes", "no"}
  /\ Return(t)
  /\ UNCHANGED <<conf, token, acquires, extends>>

-----------------------------------------------------------------------------
(* Redis. *)

\* The reply arrives, or it is lost and the command fails: it is raised, or sent
\* again after a timeout if retry_on_timeout is set.
Reply(t, r) ==
  \/ call' = [call EXCEPT ![t].at = "replied", ![t].reply = r] /\ UNCHANGED faults
  \/ /\ faults < MaxFaults /\ faults' = faults + 1
     /\ Return(t) \/ (conf.retry /\ UNCHANGED call)

\* The command itself is lost.
CommandLost(t) ==
  /\ At(t, "sent")
  /\ faults < MaxFaults /\ faults' = faults + 1
  /\ Return(t) \/ (conf.retry /\ UNCHANGED call)
  /\ UNCHANGED <<conf, token, acquires, extends, redisVars>>

\* The key never expires.
Set_NoExpiry(t) ==
  /\ At(t, "sent") /\ call[t].op = "set"
  /\ IF key = None
     THEN /\ key' = call[t].token /\ ttl' = Forever
          /\ expired' = expired \ {key'}
          /\ Reply(t, "yes")
     ELSE UNCHANGED <<key, ttl, expired>> /\ Reply(t, "no")
  /\ UNCHANGED <<conf, token, acquires, extends, loaded>>

\* do_acquire: SET NX, with PX if there is a timeout.
Set(t) ==
  /\ At(t, "sent") /\ call[t].op = "set"
  /\ IF key = None
     THEN /\ key' = call[t].token /\ ttl' = IF conf.timeout = "set" THEN Timeout ELSE Forever
          /\ expired' = expired \ {key'}
          /\ Reply(t, "yes")
     ELSE UNCHANGED <<key, ttl, expired>> /\ Reply(t, "no")
  /\ UNCHANGED <<conf, token, acquires, extends, loaded>>

\* The key goes with DEL, and with a PEXPIRE of 0: reacquire() of timeout 0.
Deletes(op) == op = "release" \/ (op = "reacquire" /\ conf.timeout = "zero")

\* What a script that found its token makes of the key.
Run(op) ==
  IF Deletes(op)
  THEN /\ key' = None /\ ttl' = Forever
       /\ expired' = IF op = "release" THEN expired ELSE expired \cup {key}
  ELSE /\ ttl' = CASE op = "extend" -> ttl + Additional
                   [] op = "replace" -> Additional
                   [] op = "reacquire" -> Timeout
       /\ UNCHANGED <<key, expired>>

Matches_Any(t) == key # None

\* All three scripts compare the value of the key with their token first.
Matches(t) == key = call[t].token

\* extend does nothing, too, to a key that does not expire.
Applies(t) == Matches(t) /\ (call[t].op \in {"extend", "replace"} => ttl # Forever)

Evalsha(t) ==
  /\ At(t, "sent") /\ call[t].op \in Scripts
  /\ IF loaded /\ Applies(t) THEN Run(call[t].op) ELSE UNCHANGED <<key, ttl, expired>>
  /\ Reply(t, IF ~loaded THEN "noscript" ELSE IF Applies(t) THEN "yes" ELSE "no")
  /\ UNCHANGED <<conf, token, acquires, extends, loaded>>

ScriptLoad(t) ==
  /\ At(t, "sent") /\ call[t].op = "load"
  /\ loaded' = TRUE
  /\ Reply(t, "yes")
  /\ UNCHANGED <<conf, token, acquires, extends, key, ttl, expired>>

\* SCRIPT FLUSH, by anyone.
ScriptFlush ==
  /\ loaded /\ loaded' = FALSE
  /\ faults < MaxFaults /\ faults' = faults + 1
  /\ UNCHANGED <<clientVars, key, ttl, expired>>

\* Time passes, and the key expires.
Tick ==
  /\ ttl # Forever
  /\ IF ttl > 1 THEN ttl' = ttl - 1 /\ UNCHANGED <<key, expired>>
     ELSE key' = None /\ ttl' = Forever /\ expired' = expired \cup {key}
  /\ UNCHANGED <<clientVars, loaded, faults>>

-----------------------------------------------------------------------------
LockStep(t) ==
  \/ Acquired(t) \/ NotAcquired(t) \/ TryAgain(t)
  \/ NoScript(t) \/ Loaded(t) \/ Answered(t)

RedisStep(t) == Set(t) \/ Evalsha(t) \/ ScriptLoad(t)

Next ==
  \/ \E t \in Threads :
       \/ /\ LockStep(t) \/ Acquire(t) \/ Release(t)
             \/ \E op \in Scripts \ {"release"} : Extend(t, op)
          /\ UNCHANGED <<redisVars, faults>>
       \/ RedisStep(t) \/ CommandLost(t)
  \/ ScriptFlush \/ Tick

\* Threads go on with their calls, Redis answers, time passes.
Fairness ==
  /\ \A t \in Threads : /\ WF_vars(LockStep(t) /\ UNCHANGED <<redisVars, faults>>)
                        /\ WF_vars(RedisStep(t))
  /\ WF_vars(Tick)

Spec == Init /\ [][Next]_vars /\ Fairness

-----------------------------------------------------------------------------
\* Mutual exclusion, as far as a lock that expires can give it: a thread that
\* acquired the lock, and has not begun to release it, has it, unless the key
\* expired meanwhile.  With one token for all threads only the last one counts.
HeldIsLocked == \A t \in Threads : token[t] \notin {None} \cup expired => key = token[t]

\* With thread-local tokens a lock that does not expire is released by none but
\* the thread that acquired it: the time line in the doc of lock() cannot happen.
ReleasedByOwner ==
  [][conf.thread_local /\ key # None /\ key' = None /\ expired' = expired
       => At(key[1], "sent") /\ call[key[1]].op = "release"]_vars

\* If locks have a timeout, no acquire() waits for ever, also when the thread
\* that has the lock lost its token, or its reply, on the way.
AcquireEnds == \A t \in Threads : conf.timeout = "set" /\ At(t, "sleep") ~> At(t, "idle")
=============================================================================
