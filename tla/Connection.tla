----------------------------- MODULE Connection -----------------------------
(***************************************************************************)
(* redis/connection.py: one connection of the Python client, and the       *)
(* sockets it opens one after the other.  A user of the connection makes a *)
(* call: it sends requests, after a health check if one is due, and may    *)
(* wait for their replies.  Whatever goes wrong on a socket closes it; the *)
(* next call opens another.  Redis carries out what was written to a       *)
(* socket, also when the client has left it.                               *)
(***************************************************************************)
EXTENDS Naturals, Sequences

CONSTANTS MaxSockets,   \* bound on the current socket and those with requests left
          MaxFaults     \* bound on timeouts, drops and failures to connect

ASSUME SocketsAssumption ==
  {MaxSockets, MaxFaults} \subseteq Nat /\ MaxSockets > 1

VARIABLES
  conf,     \* health: health_check_interval is set; retry: retry_on_timeout is
  sock,     \* _sock: the current socket, NoSock if there is none
  up,       \* whether Redis has not closed the current socket
  inbox,    \* requests on each socket that Redis has still to carry out
  outbox,   \* replies and messages on each socket that were not read
  call,     \* the call under way
  faults    \* counter of what is bounded

socketVars == <<sock, up, inbox, outbox>>
connectionVars == <<conf, socketVars, call, faults>>

NoSock == 0
Sockets == 1..MaxSockets
Errors == {"ConnectionError", "TimeoutError"}
CallSteps == {"idle", "send", "pong", "again", "pong2", "write", "read", "ok"} \cup Errors

\* A request is an operation with a number and a set of channels.
Request(op, n, ch) == [op |-> op, n |-> n, ch |-> ch]
Ping == Request("PING", 0, {})
Writes(r) == r.op \in {"EXEC", "INCR"}

\* conf never changes; the actions below leave it to Next to say so.
Configurations == [health : BOOLEAN, retry : BOOLEAN]

NoCall == [at |-> "idle", send |-> <<>>, check |-> FALSE, want |-> 0, got |-> <<>>]

ConnectionInit ==
  /\ conf \in Configurations
  /\ sock = NoSock /\ up = FALSE
  /\ inbox = [s \in Sockets |-> <<>>] /\ outbox = [s \in Sockets |-> <<>>]
  /\ call = NoCall
  /\ faults = 0

\* A user sends rs, with a health check if it asks for one, and reads as many
\* replies as it wants.
Begin(rs, check, want) ==
  call' = [at |-> "send", send |-> rs, check |-> check, want |-> want, got |-> <<>>]

At(step) == call' = [call EXCEPT !.at = step]

Fault == faults < MaxFaults /\ faults' = faults + 1

-----------------------------------------------------------------------------
(* Sockets. *)

\* The requests of rs that write.
OnlyWrites(rs) ==
  LET kept[i \in 0..Len(rs)] ==
        IF i = 0 THEN <<>>
        ELSE IF Writes(rs[i]) THEN Append(kept[i-1], rs[i]) ELSE kept[i-1]
  IN  kept[Len(rs)]

\* The client leaves its socket: nobody reads what comes on it, but a request
\* that writes may still be carried out.
Leave(new, greeting) ==
  /\ sock' = new /\ up' = (new # NoSock)
  /\ outbox' = [s \in Sockets |-> IF s = sock THEN <<>> ELSE outbox[s]]
  /\ inbox' = [s \in Sockets |-> IF s = sock THEN OnlyWrites(inbox[s])
                                 ELSE IF s = new THEN greeting ELSE inbox[s]]

\* A new socket, on which greeting has been sent by the callbacks; it is set up
\* (AUTH, SELECT) before anybody sees it.
NewSocket(greeting) ==
  LET fresh == {s \in Sockets \ {sock} : inbox[s] = <<>>} IN
  fresh # {} /\ Leave(CHOOSE s \in fresh : TRUE, greeting)

Disconnect == Leave(NoSock, <<>>)

\* Redis or the network closes a socket: the requests not carried out are lost,
\* and the replies that the client did not read may be.
Drop(s) ==
  /\ IF s = sock THEN up ELSE inbox[s] # <<>>
  /\ Fault
  /\ up' = (up /\ s # sock)
  /\ inbox' = [inbox EXCEPT ![s] = <<>>]
  /\ outbox' \in {outbox, [outbox EXCEPT ![s] = <<>>]}
  /\ UNCHANGED <<sock, call>>

CanRead == sock # NoSock /\ outbox[sock] # <<>>

\* get_connection of the pool provides a connection that is connected and on
\* which nothing is to be read; if need be it connects again,
Provide ==
  \/ up /\ ~CanRead /\ UNCHANGED socketVars
  \/ (~up \/ CanRead) /\ NewSocket(<<>>)

\* or fails to.
ProvideFails ==
  /\ ~up \/ CanRead
  /\ Fault /\ Disconnect

\* The client sends rs; nobody gets them if Redis has closed the socket.
SendOut(rs) == inbox' = [inbox EXCEPT ![sock] = IF up THEN @ \o rs ELSE @]

\* Redis takes the next request of s.
TakeRequest(s) ==
  /\ inbox[s] # <<>>
  /\ inbox' = [inbox EXCEPT ![s] = Tail(@)]

-----------------------------------------------------------------------------
(* Calls. *)

\* send_packed_command connects if there is no socket,
Connect(greeting) ==
  /\ call.at \in {"send", "again"} /\ sock = NoSock
  /\ NewSocket(greeting)
  /\ UNCHANGED <<call, faults>>

\* in vain: there is no server, AUTH fails, or a callback does.
ConnectFails(e) ==
  /\ call.at \in {"send", "again"} /\ sock = NoSock
  /\ Fault /\ At(e)
  /\ UNCHANGED socketVars

\* and checks the health of the connection when that is due.
SendPing ==
  /\ conf.health /\ call.check /\ sock # NoSock
  /\ call.at \in {"send", "again"}
  /\ SendOut(<<Ping>>)
  /\ At(IF call.at = "send" THEN "pong" ELSE "pong2")
  /\ UNCHANGED <<sock, up, outbox, faults>>

ReadPong ==
  /\ call.at \in {"pong", "pong2"} /\ CanRead /\ Head(outbox[sock]) = Ping
  /\ outbox' = [outbox EXCEPT ![sock] = Tail(@)]
  /\ At("write")
  /\ UNCHANGED <<sock, up, inbox, faults>>

\* Nothing comes: Redis has closed the socket, or it takes too long.
NoReply(e) ==
  /\ sock # NoSock /\ outbox[sock] = <<>>
  /\ \/ e = "ConnectionError" /\ ~up /\ UNCHANGED faults
     \/ e = "TimeoutError" /\ Fault

\* Another reply was before it, or there is none.  The first PING is repeated on
\* a new socket, the second is not: whoever made the call disconnects.
NoPong(e) ==
  /\ call.at \in {"pong", "pong2"}
  /\ IF CanRead
     THEN Head(outbox[sock]) # Ping /\ e = "ConnectionError" /\ UNCHANGED faults
     ELSE NoReply(e)
  /\ Disconnect
  /\ At(IF call.at = "pong" THEN "again" ELSE e)

Write ==
  /\ call.at \in {"send", "write"} /\ sock # NoSock
  /\ SendOut(call.send)
  /\ At(IF call.want > 0 THEN "read" ELSE "ok")
  /\ UNCHANGED <<sock, up, outbox, faults>>

WriteFails(e) ==
  /\ call.at \in {"send", "write"} /\ sock # NoSock /\ call.send # <<>>
  /\ e = "ConnectionError" => ~up
  /\ IF e = "TimeoutError" THEN Fault ELSE UNCHANGED faults
  /\ Disconnect /\ At(e)

\* read_response: the next reply,
Read ==
  /\ call.at = "read" /\ CanRead
  /\ outbox' = [outbox EXCEPT ![sock] = Tail(@)]
  /\ call' = [call EXCEPT !.got = Append(@, Head(outbox[sock])), !.want = @ - 1,
                          !.at = IF call.want = 1 THEN "ok" ELSE "read"]
  /\ UNCHANGED <<sock, up, inbox, faults>>

\* A read that takes too long leaves the socket as it is.
ReadFails_Keep(e) ==
  /\ call.at = "read"
  /\ NoReply(e) /\ At(e)
  /\ IF e = "TimeoutError" THEN UNCHANGED socketVars ELSE Disconnect

\* or an error, after which no reply is left to be taken for another.
ReadFails(e) ==
  /\ call.at = "read"
  /\ NoReply(e) /\ Disconnect /\ At(e)

\* The connection's own steps in a call; greeting is what callbacks send.
ConnectionStep(greeting) ==
  \/ Connect(greeting) \/ SendPing \/ ReadPong \/ Write \/ Read
  \/ \E e \in Errors : ConnectFails(e) \/ NoPong(e) \/ WriteFails(e) \/ ReadFails(e)
=============================================================================
