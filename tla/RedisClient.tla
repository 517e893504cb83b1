---------------------------- MODULE RedisClient -----------------------------
(***************************************************************************)
(* The Redis client of a Matlab session: @Redis and redis.m.  A session    *)
(* makes one call after the other on its persistent connection; a call     *)
(* writes one command or a MULTI block and reads the replies, each within  *)
(* a timeout.  Redis carries out what was written, also on connections     *)
(* that the client has left.  A reply arrives as a whole.                  *)
(***************************************************************************)
EXTENDS Integers, Sequences

CONSTANTS MaxCalls,        \* bound on the calls of the session
          MaxTimeouts,     \* bound on the replies that come too late
          MaxConnections,  \* bound on the connections it opens
          MaxBlock         \* bound on the commands between MULTI and EXEC

ASSUME BoundsAssumption ==
  /\ {MaxCalls, MaxTimeouts, MaxConnections, MaxBlock} \subseteq Nat
  /\ MaxConnections >= 1

VARIABLES
  call,      \* number of the current or last call
  op,        \* what the call waits for ("idle": it has returned)
  want,      \* replies it has still to read
  result,    \* what the last reply read was the reply to
  stack,     \* obj.multi_stack, one entry for each command
  counter,   \* obj.multi_counter
  conn,      \* the current connection
  written,   \* commands of each connection that Redis has still to carry out
  replies,   \* replies of each connection that were not read
  loaded,    \* whether Redis knows the script that the session evaluates
  \* History, read by no action:
  late,      \* timeouts on the current connection
  ran,       \* how often each call has run the script
  forgot     \* whether Redis forgot the script since the current call began

clientVars == <<call, op, want, result, stack, counter, conn>>
redisVars == <<written, replies, loaded>>
historyVars == <<late, ran, forgot>>
vars == <<clientVars, redisVars, historyVars>>

Calls == 0..MaxCalls
Connections == 1..MaxConnections
Commands == {"single", "multi", "queued", "exec", "evalsha", "load", "auth", "select"}
Ops == {"idle", "single", "exec", "evalsha", "load", "again", "auth", "select"}

\* A reply names the call and the command that it replies to; known is FALSE in
\* the error NOSCRIPT.  NoReply is what read_response returns after a timeout.
Replies == [call : Calls, to : Commands, known : BOOLEAN]
NoReply == [call |-> 0, to |-> "single", known |-> TRUE]

\* Client and connections hold what the code writes; the commands of an open
\* block are counted, and a call waits as long as it has replies to read.
TypeOK ==
  /\ call \in Calls
  /\ op \in Ops
  /\ want \in 0..MaxBlock + 2 /\ (want = 0 <=> op = "idle")
  /\ result \in Replies
  /\ stack \in Seq(Commands)
  /\ stack # <<>> => counter = Len(stack)
  /\ conn \in Connections
  /\ written \in [Connections -> Seq([call : Calls, to : Commands])]
  /\ replies \in [Connections -> Seq(Replies)]
  /\ loaded \in BOOLEAN
  /\ late \in 0..MaxTimeouts
  /\ ran \in [Calls -> Nat]
  /\ forgot \in BOOLEAN

\* The session has a connection and has made no call yet.
Init ==
  /\ call = 0 /\ op = "idle" /\ want = 0 /\ result = NoReply
  /\ stack = <<>> /\ counter = 0
  /\ conn = 1
  /\ written = [c \in Connections |-> <<>>]
  /\ replies = [c \in Connections |-> <<>>]
  /\ loaded \in BOOLEAN
  /\ late = 0
  /\ ran = [n \in Calls |-> 0]
  /\ forgot = FALSE

-----------------------------------------------------------------------------
(* Calls. *)

\* The commands of cs are written to connection c on behalf of call n, which
\* waits for as many replies as it counted.
Write(c, n, cs, next, count) ==
  /\ written' = [written EXCEPT ![c] =
                   @ \o [i \in DOMAIN cs |-> [call |-> n, to |-> cs[i]]]]
  /\ op' = next
  /\ want' = count

BeginCall ==
  /\ op = "idle" /\ call < MaxCalls
  /\ call' = call + 1
  /\ forgot' = FALSE

\* A call of cmd outside a block by one of the wrappers (hget, lpush, ...), and
\* one of eval, which tries EVALSHA first.
Begin(next) ==
  /\ BeginCall /\ stack = <<>>
  /\ Write(conn, call + 1, <<next>>, next, 1)
  /\ UNCHANGED <<result, stack, counter, conn, replies, loaded, late, ran>>

\* The counter starts with the first command after MULTI.
Multi_Zero ==
  /\ op = "idle"
  /\ stack' = <<"multi">> /\ counter' = 0
  /\ UNCHANGED <<call, op, want, result, conn, redisVars, historyVars>>

\* multi begins a block; what was left of a block that an error had cut short
\* is dropped.
Multi ==
  /\ op = "idle"
  /\ stack' = <<"multi">> /\ counter' = 1
  /\ UNCHANGED <<call, op, want, result, conn, redisVars, historyVars>>

\* In a block nothing is written.
Queue ==
  /\ op = "idle" /\ stack # <<>> /\ Len(stack) <= MaxBlock
  /\ stack' = Append(stack, "queued")
  /\ counter' = counter + 1
  /\ UNCHANGED <<call, op, want, result, conn, redisVars, historyVars>>

\* exec writes the block; it stays on the stack until its replies are read.
Exec ==
  /\ BeginCall /\ stack # <<>>
  /\ stack' = Append(stack, "exec")
  /\ counter' = counter + 1
  /\ Write(conn, call + 1, stack', "exec", counter')
  /\ UNCHANGED <<result, conn, replies, loaded, late, ran>>

\* The old socket is used again.
Reconnect_Keep ==
  /\ BeginCall /\ conn < MaxConnections
  /\ conn' = conn
  /\ stack' = <<>> /\ counter' = 0
  /\ Write(conn', call + 1, <<"auth">>, "auth", 1)
  /\ late' = 0
  /\ UNCHANGED <<result, replies, loaded, ran>>

\* mrc.redis('reconnect') makes a new object, which authenticates and selects
\* its database.
Reconnect ==
  /\ BeginCall /\ conn < MaxConnections
  /\ conn' = conn + 1
  /\ stack' = <<>> /\ counter' = 0
  /\ Write(conn', call + 1, <<"auth">>, "auth", 1)
  /\ late' = 0
  /\ UNCHANGED <<result, replies, loaded, ran>>

-----------------------------------------------------------------------------
(* Replies. *)

Finish == op' = "idle" /\ want' = 0 /\ UNCHANGED written

\* eval returns what the first EVALSHA returned.
Proceed_Never(r) ==
  IF op = "auth" THEN Write(conn, call, <<"select">>, "select", 1) ELSE Finish

\* The last reply of a command: the constructor and eval go on to their next
\* command, eval only after NOSCRIPT and then only if SCRIPT LOAD returned the
\* digest; other calls return.
Proceed(r) ==
  CASE op = "auth" -> Write(conn, call, <<"select">>, "select", 1)
    [] op = "evalsha" /\ ~r.known -> Write(conn, call, <<"load">>, "load", 1)
    [] op = "load" /\ r.to = "load" -> Write(conn, call, <<"evalsha">>, "again", 1)
    [] OTHER -> Finish

\* read_response returned r.
Take(r) ==
  /\ result' = r
  /\ IF want > 1
     THEN want' = want - 1 /\ UNCHANGED <<op, written, stack>>
     ELSE Proceed(r) /\ stack' = <<>>
  /\ UNCHANGED <<call, counter, conn, loaded, ran, forgot>>

ReadReply ==
  /\ want > 0 /\ replies[conn] # <<>>
  /\ Take(Head(replies[conn]))
  /\ replies' = [replies EXCEPT ![conn] = Tail(@)]
  /\ UNCHANGED late

\* Nothing came within obj.timeout: a warning, and an empty reply.
Timeout ==
  /\ want > 0 /\ replies[conn] = <<>>
  /\ late < MaxTimeouts
  /\ Take(NoReply)
  /\ late' = late + 1
  /\ UNCHANGED replies

-----------------------------------------------------------------------------
(* Redis. *)

\* The next command of a connection is carried out and replied to.
CarryOut(c) ==
  /\ written[c] # <<>>
  /\ LET m == Head(written[c])
         runs == m.to = "evalsha" /\ loaded IN
     /\ written' = [written EXCEPT ![c] = Tail(@)]
     /\ replies' = [replies EXCEPT ![c] =
                      Append(@, [call |-> m.call, to |-> m.to,
                                 known |-> m.to = "evalsha" => loaded])]
     /\ loaded' = (loaded \/ m.to = "load")
     /\ ran' = IF runs THEN [ran EXCEPT ![m.call] = @ + 1] ELSE ran
  /\ UNCHANGED <<clientVars, late, forgot>>

\* Another client has loaded the same script,
OtherLoads ==
  /\ ~loaded /\ loaded' = TRUE
  /\ UNCHANGED <<clientVars, written, replies, historyVars>>

\* or has sent SCRIPT FLUSH, and no script is known any more.
OtherFlushes ==
  /\ loaded /\ loaded' = FALSE
  /\ forgot' = TRUE
  /\ UNCHANGED <<clientVars, written, replies, late, ran>>

Next ==
  \/ Begin("single") \/ Begin("evalsha") \/ Multi \/ Queue \/ Exec \/ Reconnect
  \/ ReadReply \/ Timeout
  \/ \E c \in Connections : CarryOut(c)
  \/ OtherLoads \/ OtherFlushes

Spec == Init /\ [][Next]_vars

-----------------------------------------------------------------------------
(* Properties. *)

\* Replies are never lost and never made up: as many are to come on the
\* connection as the client has still to read and has given up waiting for, so
\* every later call reads a reply that belongs to an earlier one.
RepliesOwed ==
  Len(written[conn]) + Len(replies[conn]) = want + late

\* On a connection without a timeout every call returns the reply to its own
\* last command, blocks and evaluated scripts included, whatever happened on
\* the connections before: 'reconnect' puts the session in step again.
OwnReply ==
  op = "idle" /\ late = 0 /\ call > 0 =>
    result.call = call /\ result.to \in {"single", "exec", "evalsha", "select"}

\* Without a timeout a script is run once by the call that evaluates it, whether
\* Redis knew it, did not, or learnt or forgot it meanwhile.  The one exception
\* is told to the caller: eval loads a script once only, and returns NOSCRIPT,
\* the script not run at all, when Redis forgot it again during the call.
EvalRunsOnce ==
  op = "idle" /\ late = 0 /\ result.call = call /\ result.to = "evalsha" =>
    /\ ran[call] = IF result.known THEN 1 ELSE 0
    /\ ~result.known => forgot
=============================================================================
