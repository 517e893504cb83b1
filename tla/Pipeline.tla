------------------------------ MODULE Pipeline ------------------------------
(***************************************************************************)
(* redis/client.py: Redis.transaction and class Pipeline.  The user reads  *)
(* a number that it watches and sets it to the next one in a block of      *)
(* MULTI and EXEC; or increments it in a pipeline without them.  An error  *)
(* while it watches is taken for a change of the number.                   *)
(***************************************************************************)
EXTENDS Connection

CONSTANT MaxTransactions  \* bound on the transactions

ASSUME TransactionsAssumption == MaxTransactions \in Nat

VARIABLES
  pipe,        \* step and attributes of the Pipeline object
  begun,       \* transactions begun
  returned     \* history: transactions that returned, not raised

pipelineVars == <<pipe, begun, returned>>

PipeSteps == {"idle", "begin", "watch", "get", "exec", "reset", "unwatch"}
Modes == {"watch", "batch"}

NoPipe == [at |-> "idle", mode |-> "watch", watching |-> FALSE,
           retried |-> FALSE, after |-> "return"]

PipelineInit ==
  /\ pipe = NoPipe
  /\ begun = 0 /\ returned = 0

Holding == pipe.at \notin {"idle", "begin"}

PipeSend(rs) == Begin(rs, TRUE, Len(rs))
Done == call.at = "ok"
Failed == call.at \in Errors
Reply == call.got[1]

Exec(n) == Request("EXEC", n, {})
Incr == Request("INCR", 0, {})

\* The user begins a transaction, which gets a pipeline object of its own,
BeginTransaction(mode) ==
  /\ pipe.at = "idle"
  /\ begun < MaxTransactions /\ begun' = begun + 1
  /\ pipe' = [pipe EXCEPT !.at = "begin", !.mode = mode]
  /\ UNCHANGED <<socketVars, call, faults, returned>>

\* and, for every attempt, a connection from the pool: to send WATCH at once, or
\* to send what was staged.
Attempt ==
  /\ pipe.at = "begin"
  /\ Provide
  /\ \/ pipe.mode = "watch" /\ PipeSend(<<Request("WATCH", 0, {})>>)
     \/ pipe.mode = "batch" /\ PipeSend(<<Incr, Incr>>)
  /\ pipe' = [pipe EXCEPT !.at = IF pipe.mode = "watch" THEN "watch" ELSE "exec",
                          !.retried = FALSE]
  /\ UNCHANGED <<faults, begun, returned>>

AttemptFails ==
  /\ pipe.at = "begin"
  /\ ProvideFails
  /\ pipe' = NoPipe
  /\ UNCHANGED <<call, begun, returned>>

\* parse_response notes the watch; the number is read at once,
Watched ==
  /\ pipe.at = "watch" /\ Done
  /\ pipe' = [pipe EXCEPT !.at = "get", !.watching = TRUE]
  /\ PipeSend(<<Request("GET", 0, {})>>)
  /\ UNCHANGED <<socketVars, faults, begun, returned>>

\* and set in the block that execute sends.
Got ==
  /\ pipe.at = "get" /\ Done
  /\ pipe' = [pipe EXCEPT !.at = "exec"]
  /\ PipeSend(<<Exec(Reply.n + 1)>>)
  /\ UNCHANGED <<socketVars, faults, begun, returned>>

\* reset() is called, and what comes after it.
Resetting(after) ==
  /\ pipe' = [pipe EXCEPT !.at = "reset", !.after = after]
  /\ call' = NoCall

\* An error is retried although the watch has gone with the socket.
AttemptError_Retry ==
  /\ pipe.at \in {"watch", "get", "exec"} /\ Failed
  /\ IF ~pipe.retried
     THEN pipe' = [pipe EXCEPT !.retried = TRUE] /\ PipeSend(call.send)
     ELSE Resetting(IF pipe.watching THEN "retry" ELSE "raise")
  /\ UNCHANGED <<socketVars, faults, begun, returned>>

\* An error in WATCH, GET or EXEC: a transaction that watches raises WatchError
\* and is tried again; else a timeout may be retried once.
AttemptError ==
  /\ pipe.at \in {"watch", "get", "exec"} /\ Failed
  /\ IF pipe.watching THEN Resetting("retry")
     ELSE IF conf.retry /\ call.at = "TimeoutError" /\ ~pipe.retried
     THEN pipe' = [pipe EXCEPT !.retried = TRUE] /\ PipeSend(call.send)
     ELSE Resetting("raise")
  /\ UNCHANGED <<socketVars, faults, begun, returned>>

\* The user's function raises, and the block of the pipeline ends.
UserRaises ==
  /\ pipe.at = "get" /\ Done
  /\ Resetting("raise")
  /\ UNCHANGED <<socketVars, faults, begun, returned>>

\* EXEC has been replied to, by NIL if the number had changed.
Executed ==
  /\ pipe.at = "exec" /\ Done
  /\ pipe' = [pipe EXCEPT !.at = "reset", !.watching = FALSE,
                          !.after = IF Reply.op = "NIL" THEN "retry" ELSE "return"]
  /\ call' = NoCall
  /\ UNCHANGED <<socketVars, faults, begun, returned>>

\* The end of reset(): the connection goes back to the pool, and transaction()
\* tries again, returns or raises.
Released ==
  /\ pipe' = IF pipe.after = "retry" THEN [pipe EXCEPT !.at = "begin", !.watching = FALSE]
             ELSE NoPipe
  /\ call' = NoCall
  /\ returned' = IF pipe.after = "return" THEN returned + 1 ELSE returned
  /\ UNCHANGED <<socketVars, faults, begun>>

\* The connection goes back with its watch.
Reset_Release == pipe.at = "reset" /\ Released

Reset ==
  /\ pipe.at = "reset"
  /\ IF ~pipe.watching THEN Released
     ELSE /\ PipeSend(<<Request("UNWATCH", 0, {})>>)
          /\ pipe' = [pipe EXCEPT !.at = "unwatch"]
          /\ UNCHANGED <<socketVars, faults, begun, returned>>

\* A lost connection watches nothing,
Unwatched == pipe.at = "unwatch" /\ call.at \in {"ok", "ConnectionError"} /\ Released

\* but a timeout gets out of reset(), which is called again when the block ends
\* or the object is collected.
UnwatchTimesOut ==
  /\ pipe.at = "unwatch" /\ call.at = "TimeoutError"
  /\ Resetting("raise")
  /\ UNCHANGED <<socketVars, faults, begun, returned>>

PipelineStep ==
  \/ \E mode \in Modes : BeginTransaction(mode)
  \/ Attempt \/ AttemptFails \/ Watched \/ Got \/ UserRaises \/ AttemptError \/ Executed
  \/ Reset \/ Unwatched \/ UnwatchTimesOut
  \/ Holding /\ ConnectionStep(<<>>) /\ UNCHANGED pipelineVars
=============================================================================
