------------------------------ MODULE RedisPy -------------------------------
(***************************************************************************)
(* The users of one pooled connection, one after the other, and Redis at   *)
(* the other end of its sockets: a number that transactions change, by     *)
(* this client and by others, and the subscriptions of each socket.        *)
(***************************************************************************)
EXTENDS Pipeline, PubSub, FiniteSets

CONSTANT MaxWrites   \* bound on the increments by other clients

ASSUME WritesAssumption == MaxWrites \in Nat

VARIABLES
  x,          \* the number
  watch,      \* what each socket's session knows of it: "no", "clean", "dirty"
  subs,       \* channels that the current socket is subscribed to
  writes,     \* history: increments by others
  executed    \* history: increments carried out for this client

redisVars == <<x, watch, subs>>
vars == <<connectionVars, pipelineVars, pubsubVars, redisVars, writes, executed>>

\* Connection, users and Redis hold what the code writes.
TypeOK ==
  /\ conf \in Configurations
  /\ sock \in Sockets \cup {NoSock} /\ up \in BOOLEAN
  /\ up => sock # NoSock
  /\ call.at \in CallSteps
  /\ pipe.at \in PipeSteps /\ pipe.mode \in Modes
  /\ pubsub.at \in PubSubSteps
  /\ pending \cup channels \cup wanted \subseteq Channels
  /\ watch \in [Sockets -> {"no", "clean", "dirty"}]
  /\ subs \subseteq Channels

Init ==
  /\ ConnectionInit /\ PipelineInit /\ PubSubInit
  /\ x = 0
  /\ watch = [s \in Sockets |-> "no"]
  /\ subs = {}
  /\ writes = 0 /\ executed = 0

-----------------------------------------------------------------------------
(* Redis. *)

Answer(s, ms) == outbox' = IF s = sock THEN [outbox EXCEPT ![s] = @ \o ms] ELSE outbox

\* What every session knows once the number has changed.
Touched == [s \in Sockets |-> IF watch[s] = "clean" THEN "dirty" ELSE watch[s]]

\* A session ends with its socket.
EndSession(s) ==
  /\ watch' = [watch EXCEPT ![s] = "no"]
  /\ subs' = IF s = sock THEN {} ELSE subs

\* The next request of socket s.
Serve(s) ==
  LET r == Head(inbox[s]) IN
  /\ TakeRequest(s)
  /\ \/ /\ r.op = "PING"
        /\ Answer(s, <<r>>)
        /\ UNCHANGED <<redisVars, executed>>
     \/ /\ r.op = "GET"
        /\ Answer(s, <<Request("GET", x, {})>>)
        /\ UNCHANGED <<redisVars, executed>>
     \/ /\ r.op \in {"WATCH", "UNWATCH"}
        /\ watch' = [watch EXCEPT ![s] = IF r.op = "UNWATCH" THEN "no"
                                         ELSE IF @ = "no" THEN "clean" ELSE @]
        /\ Answer(s, <<r>>)
        /\ UNCHANGED <<x, subs, executed>>
     \/ /\ r.op = "EXEC" /\ watch[s] = "dirty"
        /\ watch' = [watch EXCEPT ![s] = "no"]
        /\ Answer(s, <<Request("NIL", 0, {})>>)
        /\ UNCHANGED <<x, subs, executed>>
     \/ /\ r.op \in {"EXEC", "INCR"} /\ watch[s] # "dirty"
        /\ x' = IF r.op = "EXEC" THEN r.n ELSE x + 1
        /\ watch' = [Touched EXCEPT ![s] = "no"]
        /\ executed' = executed + 1
        /\ Answer(s, <<r>>)
        /\ UNCHANGED subs
     \/ /\ r.op = "SUBSCRIBE"
        /\ subs' = subs \cup r.ch
        /\ Answer(s, <<r>>)
        /\ UNCHANGED <<x, watch, executed>>
     \/ /\ r.op = "UNSUBSCRIBE"
        /\ subs' = IF r.ch = {} THEN {} ELSE subs \ r.ch
        /\ Answer(s, <<Request(r.op, 0, IF r.ch = {} THEN subs ELSE r.ch)>>)
        /\ UNCHANGED <<x, watch, executed>>
  /\ UNCHANGED <<conf, sock, up, call, faults,
                 pipelineVars, pubsubVars, writes>>

\* Another client increments the number.
OtherWrites ==
  /\ writes < MaxWrites /\ writes' = writes + 1
  /\ x' = x + 1 /\ watch' = Touched
  /\ UNCHANGED <<connectionVars, pipelineVars, pubsubVars, subs, executed>>

-----------------------------------------------------------------------------
\* The connection is with the pool.
Pooled == ~Holding /\ pubsub.at = "closed"

\* Another socket is another session; one that is left ends with its requests.
NewSession ==
  /\ subs' = IF sock' = sock THEN subs ELSE {}
  /\ watch' = [s \in Sockets |-> IF s # sock' /\ inbox'[s] = <<>> THEN "no" ELSE watch[s]]

Next ==
  \/ /\ pubsub.at = "closed"
     /\ PipelineStep /\ NewSession
     /\ UNCHANGED <<conf, pubsubVars, x, writes, executed>>
  \/ /\ pipe.at = "idle"
     /\ PubSubStep /\ NewSession
     /\ UNCHANGED <<conf, pipelineVars, x, writes, executed>>
  \/ \E s \in Sockets : Serve(s)
  \/ /\ \E s \in Sockets : Drop(s) /\ EndSession(s)
     /\ UNCHANGED <<conf, pipelineVars, pubsubVars, x, writes, executed>>
  \/ OtherWrites

\* The thread that polls, a call and Redis go on; a health check falls due again
\* and again, and writing to a closed socket does not succeed for ever.
Fairness ==
  /\ WF_vars(\E s \in Sockets : Serve(s))
  /\ WF_vars(PubSubStep /\ pipe.at = "idle" /\ pubsub.at \notin {"closed", "idle"} /\ NewSession
             /\ UNCHANGED <<conf, pipelineVars, x, writes, executed>>)
  /\ WF_vars(/\ Poll(FALSE, FALSE)
             /\ UNCHANGED <<conf, pipelineVars, redisVars, writes, executed>>)
  /\ SF_vars(/\ Poll(FALSE, TRUE)
             /\ UNCHANGED <<conf, pipelineVars, redisVars, writes, executed>>)
  /\ SF_vars(/\ pipe.at = "idle" /\ pubsub.at # "closed"
             /\ WriteFails("ConnectionError") /\ NewSession
             /\ UNCHANGED <<conf, pipelineVars, pubsubVars, x, writes, executed>>)

Spec == Init /\ [][Next]_vars
FairSpec == Spec /\ Fairness

-----------------------------------------------------------------------------
\* Without health checks, every increment carried out counts: no transaction
\* overwrites the number another client has changed since it was read.
EveryIncrementCounts == ~conf.health => x = writes + executed

\* A transaction that returns, rather than raises, has been carried out.
ReturnedIsExecuted == returned <= executed

\* A connection that is with the pool, and still has its socket, watches
\* nothing, is subscribed to nothing and has no callback; no reply or message is
\* on its way to the next user.
ReleasedIsPlain ==
  Pooled => /\ ~callback
            /\ sock # NoSock => /\ watch[sock] = "no" /\ subs = {}
                                /\ inbox[sock] = <<>> /\ outbox[sock] = <<>>

\* Every request has been carried out and every answer read.
Settled == pubsub.at = "idle" /\ up /\ inbox[sock] = <<>> /\ outbox[sock] = <<>>

\* Whatever requests, answers and lost sockets there were: once everything has
\* settled, the object is subscribed to what the user wants, and knows of every
\* channel that Redis sends it.
SettledIsKnown == Settled => wanted \subseteq subs /\ subs \subseteq channels

\* With health checks and a thread that polls, whatever happens to its socket,
\* an object that is not closed is in the end subscribed to what is wanted.
Resubscribed == <>[](conf.health /\ pubsub.at # "closed" => up /\ wanted \subseteq subs)
=============================================================================
