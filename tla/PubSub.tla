------------------------------- MODULE PubSub -------------------------------
(***************************************************************************)
(* redis/client.py: class PubSub and the thread that polls it.  A pattern  *)
(* is treated as a channel is, by a copy of the same code; Channels are    *)
(* both.  The object holds a connection from its first subscription until  *)
(* it is closed; whenever that connection connects, a callback subscribes  *)
(* again.                                                                  *)
(***************************************************************************)
EXTENDS Connection, Functions

CONSTANTS Channels,
          MaxRequests   \* bound on the subscriptions and unsubscriptions

ASSUME RequestsAssumption == MaxRequests \in Nat

VARIABLES
  pubsub,     \* step of the object, and the request of the user
  channels,   \* channels: those it has subscribed to
  pending,    \* pending_unsubscribe_channels
  callback,   \* whether on_connect is registered with the connection
  asked,      \* counter of what is bounded
  wanted      \* history: what the user subscribed to last, and did not leave

pubsubVars == <<pubsub, channels, pending, callback, asked, wanted>>

PubSubSteps == {"closed", "idle", "subscribe", "unsubscribe", "poll", "read", "reread"}

PubSubInit ==
  /\ pubsub = [at |-> "closed", of |-> {}, block |-> FALSE, retried |-> FALSE]
  /\ channels = {} /\ pending = {}
  /\ callback = FALSE
  /\ asked = 0
  /\ wanted = {}

Subscription(C) == Request("SUBSCRIBE", 0, C)
Unsubscription(C) == Request("UNSUBSCRIBE", 0, C)

\* Nothing is sent when the connection connects again.
Greeting_None == <<>>

\* on_connect: what the callback sends,
Greeting == IF callback /\ channels # {} THEN <<Subscription(channels)>> ELSE <<>>

\* and what becomes of the unsubscriptions that were not confirmed.
OnConnect == pending' = IF callback THEN {} ELSE pending

PubSubSend(rs) == Begin(rs, channels = {}, 0)

NoRequest == [at |-> "idle", of |-> {}, block |-> FALSE, retried |-> FALSE]
Goto(step) == pubsub' = IF step = "idle" THEN NoRequest ELSE [pubsub EXCEPT !.at = step]
Sent == call.at = "ok"
NotSent == call.at \in Errors

\* The user subscribes to C; the first time, the object gets its connection.
Subscribe(C) ==
  /\ pubsub.at \in {"closed", "idle"}
  /\ asked < MaxRequests /\ asked' = asked + 1
  /\ IF pubsub.at = "closed" THEN Provide ELSE UNCHANGED socketVars
  /\ callback' = TRUE
  /\ pubsub' = [pubsub EXCEPT !.at = "subscribe", !.of = C, !.retried = FALSE]
  /\ PubSubSend(<<Subscription(C)>>)
  /\ UNCHANGED <<faults, channels, pending, wanted>>

\* The pool has no connection for a request that subscribes to C or, after it
\* was noted, for one that leaves C.
NoConnection(C) ==
  /\ pubsub.at = "closed"
  /\ asked < MaxRequests /\ asked' = asked + 1
  /\ ProvideFails
  /\ pending' \in {pending, pending \cup C}
  /\ UNCHANGED <<call, pubsub, channels, callback, wanted>>

\* A channel that is being left stays so.
Subscribed_Leaving ==
  /\ pubsub.at = "subscribe" /\ Sent
  /\ channels' = channels \cup pubsub.of
  /\ pending' = pending
  /\ wanted' = wanted \cup pubsub.of
  /\ Goto("idle") /\ call' = NoCall
  /\ UNCHANGED <<socketVars, faults, callback, asked>>

\* The names are kept once the request has been sent.
Subscribed ==
  /\ pubsub.at = "subscribe" /\ Sent
  /\ channels' = channels \cup pubsub.of
  /\ pending' = pending \ pubsub.of
  /\ wanted' = wanted \cup pubsub.of
  /\ Goto("idle") /\ call' = NoCall
  /\ UNCHANGED <<socketVars, faults, callback, asked>>

\* The user leaves C, or everything if it names nothing.
Unsubscribe(C) ==
  /\ pubsub.at \in {"closed", "idle"}
  /\ asked < MaxRequests /\ asked' = asked + 1
  /\ IF pubsub.at = "closed" THEN Provide ELSE UNCHANGED socketVars
  /\ callback' = TRUE
  /\ pending' = pending \cup (IF C = {} THEN channels ELSE C)
  /\ wanted' = IF C = {} THEN {} ELSE wanted \ C
  /\ pubsub' = [pubsub EXCEPT !.at = "unsubscribe", !.of = C, !.retried = FALSE]
  /\ PubSubSend(<<Unsubscription(C)>>)
  /\ UNCHANGED <<faults, channels>>

Unsubscribed ==
  /\ pubsub.at = "unsubscribe" /\ Sent
  /\ Goto("idle") /\ call' = NoCall
  /\ UNCHANGED <<socketVars, faults, channels, pending, callback, asked, wanted>>

\* _execute: a timeout is retried once, other errors are raised.
RequestFails ==
  /\ pubsub.at \in {"subscribe", "unsubscribe"} /\ NotSent
  /\ IF conf.retry /\ call.at = "TimeoutError" /\ ~pubsub.retried
     THEN pubsub' = [pubsub EXCEPT !.retried = TRUE] /\ PubSubSend(call.send)
     ELSE Goto("idle") /\ call' = NoCall
  /\ UNCHANGED <<socketVars, faults, channels, pending, callback, asked, wanted>>

\* The PING of a PubSub object carries HEALTH_CHECK_MESSAGE: its answer is known
\* from a PONG.
HealthCheck == Request("PING", 1, {})

\* The model sends no such PING before the last one has been read: a bound.
PingUnread == sock # NoSock /\ HealthCheck \in Range(inbox[sock]) \cup Range(outbox[sock])

\* get_message, or listen, which blocks: a PING if that is due.  Only the former
\* connects if there is no socket.
Poll(block, ping) ==
  /\ pubsub.at = "idle"
  /\ ping => conf.health /\ ~PingUnread
  /\ LET ready == ~ping /\ (block \/ sock # NoSock) IN
     /\ pubsub' = [pubsub EXCEPT !.at = IF ready THEN "read" ELSE "poll", !.block = block]
     /\ IF ready THEN UNCHANGED call
        ELSE Begin(IF ping THEN <<HealthCheck>> ELSE <<>>, FALSE, 0)
  /\ UNCHANGED <<socketVars, faults, channels, pending, callback, asked, wanted>>

Polled ==
  /\ pubsub.at = "poll" /\ call.at \in {"ok"} \cup Errors
  /\ Goto(IF Sent THEN "read" ELSE "idle") /\ call' = NoCall
  /\ UNCHANGED <<socketVars, faults, channels, pending, callback, asked, wanted>>

\* handle_message: the answer to an unsubscription that is still wanted removes
\* the channels; anything else is passed on.
Handle(m) ==
  LET left == IF m.op = "UNSUBSCRIBE" THEN m.ch \cap pending ELSE {} IN
  /\ pending' = pending \ left
  /\ channels' = channels \ left

ReadMessage ==
  /\ pubsub.at = "read" /\ CanRead
  /\ Handle(Head(outbox[sock]))
  /\ outbox' = [outbox EXCEPT ![sock] = Tail(@)]
  /\ Goto("idle")
  /\ UNCHANGED <<sock, up, inbox, call, faults, callback, asked, wanted>>

\* There is nothing; a closed socket makes can_read raise, and stays.
NothingToRead ==
  /\ pubsub.at = "read" /\ ~pubsub.block /\ ~CanRead
  /\ Goto("idle")
  /\ UNCHANGED <<socketVars, call, faults, channels, pending, callback, asked, wanted>>

\* read_response fails, on a message that comes in part or while it blocks; a
\* timeout is retried on a new socket.
ReadMessageFails(e) ==
  /\ pubsub.at = "read"
  /\ \/ sock = NoSock /\ e = "ConnectionError" /\ UNCHANGED faults
     \/ NoReply(e) /\ (pubsub.block \/ e = "TimeoutError")
  /\ Disconnect
  /\ IF conf.retry /\ e = "TimeoutError"
     THEN Goto("reread") /\ Begin(<<>>, FALSE, 1)
     ELSE Goto("idle") /\ UNCHANGED call
  /\ UNCHANGED <<channels, pending, callback, asked, wanted>>

Reread ==
  /\ pubsub.at = "reread" /\ call.at \in {"ok"} \cup Errors
  /\ IF Sent THEN Handle(call.got[1]) ELSE UNCHANGED <<channels, pending>>
  /\ Goto("idle") /\ call' = NoCall
  /\ UNCHANGED <<socketVars, faults, callback, asked, wanted>>

\* reset(), also at the end of PubSubWorkerThread: the connection goes back.
Close ==
  /\ pubsub.at = "idle"
  /\ Disconnect
  /\ channels' = {} /\ pending' = {} /\ wanted' = {}
  /\ callback' = FALSE
  /\ Goto("closed")
  /\ UNCHANGED <<call, faults, asked>>

PubSubStep ==
  \/ \E C \in SUBSET Channels \ {{}} : Subscribe(C)
  \/ \E C \in SUBSET Channels : Unsubscribe(C) \/ NoConnection(C)
  \/ Subscribed \/ Unsubscribed \/ RequestFails
  \/ \E block, ping \in BOOLEAN : Poll(block, ping)
  \/ Polled \/ ReadMessage \/ NothingToRead \/ Reread \/ Close
  \/ \E e \in Errors : ReadMessageFails(e)
  \/ /\ pubsub.at # "closed"
     /\ ConnectionStep(Greeting)
     /\ IF sock' \notin {sock, NoSock} THEN OnConnect ELSE UNCHANGED pending
     /\ UNCHANGED <<pubsub, channels, callback, asked, wanted>>
=============================================================================
