------------------------------- MODULE Parser -------------------------------
(***************************************************************************)
(* redis/connection.py: how a connection packs commands into chunks for    *)
(* its socket, and takes the replies of Redis out of what arrives on it,   *)
(* which comes in pieces of any size.  The default parser is HiredisParser *)
(* if the library hiredis is installed, else PythonParser, which reads     *)
(* from a SocketBuffer.                                                    *)
(***************************************************************************)
EXTENDS Integers, SequencesExt

CONSTANTS Types,        \* types of lines, and parts of texts
          Replies,      \* replies that Redis may send, with the items of arrays
          Commands,     \* commands, with the reply that each has
          BufferCutoff, \* _buffer_cutoff of a connection
          MaxReplies    \* bound on the replies of one session

\* A piece is the head of a line, the end of one, or a part of a text; a chunk is
\* a text to send, and a memoryview is never copied.
Pieces == [t : Types, n : Nat]
Chunks == [text : Seq(Pieces), view : BOOLEAN]

\* How deep the arrays of a reply are nested.
Depth[v \in Replies] ==
  IF v.items = <<>> THEN 0 ELSE 1 + Max({Depth[v.items[i]] : i \in DOMAIN v.items})

\* Replies are finite, whatever their texts are made of; no type of line is CRLF.
ASSUME RepliesAssumption ==
  /\ {"CRLF", "bulk", "array"} \subseteq Types
  /\ \A v \in Replies :
       /\ v \in [t : Types, text : Seq(Pieces), items : Seq(Replies)]
       /\ v.t \notin {"CRLF", "False"}
       /\ v.t # "bulk" => v.text = <<>>
       /\ v.t # "array" => v.items = <<>>
       /\ Depth[v] \in Nat /\ \A i \in DOMAIN v.items : Depth[v.items[i]] < Depth[v]
  /\ Commands \subseteq [name : Seq(Seq(Pieces)), args : Seq(Chunks), reply : Replies]
  /\ {BufferCutoff, MaxReplies} \subseteq Nat

VARIABLES
  parser,         \* class of the parser
  wire,           \* what has not arrived yet
  buffer,         \* _buffer of SocketBuffer; what the hiredis reader was fed
  bytes_written,  \* up to here the buffer was written,
  bytes_read,     \* and up to here it was read
  at,             \* what read_response reads next, if it was called
  length,         \* length of the bulk that is read
  stack,          \* arrays that are being read, the outermost first
  next_response,  \* _next_response of HiredisParser
  ready,          \* what can_read said, if it was the last call
  \* History:
  asked,          \* replies that the commands of this session should have
  sent,           \* replies of this session, all of them
  returned        \* what read_response returned in this session

bufferVars == <<buffer, bytes_written, bytes_read>>
readVars == <<at, length, stack, next_response>>
sessionVars == <<asked, sent>>
vars == <<parser, wire, bufferVars, readVars, ready, sessionVars, returned>>

Steps == {"idle", "line", "body", "gets", "closed"}

\* A reply: its type, the text of a bulk, the items of an array.
Reply(t, text, items) == [t |-> t, text |-> text, items |-> items]
Null == Reply("null", <<>>, <<>>)
NoReply == Reply("False", <<>>, <<>>)
Array(items) == Reply("array", <<>>, items)

\* What is sent is a line with the type and a length, and a bulk's text or an
\* array's items after it.  Pieces of it stand for bytes.
CRLF == [t |-> "CRLF", n |-> 0]
Line(t, n) == <<[t |-> t, n |-> n], CRLF>>

Sent[v \in Replies] ==
  CASE v.t = "bulk" -> Line("bulk", Len(v.text)) \o v.text \o <<CRLF>>
    [] v.t = "array" -> Line("array", Len(v.items))
                          \o FlattenSeq([i \in DOMAIN v.items |-> Sent[v.items[i]]])
    [] OTHER -> Line(v.t, 0)

\* A command is sent as an array of bulks.
Encoded(args) ==
  Line("array", Len(args))
    \o FlattenSeq([i \in DOMAIN args |-> Line("bulk", Len(args[i].text)) \o args[i].text \o <<CRLF>>])

\* An error that the client takes for a lost connection: Redis is still loading,
\* or has too many clients.
IsConnectionError(v) == v.t = "down"

\* The buffer and the parser hold what the code writes.
TypeOK ==
  /\ parser \in {"python", "hiredis"}
  /\ wire \in Seq(Pieces) /\ buffer \in Seq(Pieces)
  /\ bytes_read \in 0..bytes_written /\ bytes_written = Len(buffer)
  /\ at \in Steps
  /\ length \in Nat
  /\ stack \in Seq([n : Nat, items : Seq(Replies)])
  /\ next_response \in Replies \cup {NoReply}
  /\ {asked, sent, returned} \subseteq Seq(Replies)
  /\ ready \in {"unknown", "yes", "no"}

\* A parser that was disconnected.
Init ==
  /\ parser \in {"python", "hiredis"}
  /\ wire = <<>> /\ asked = <<>> /\ sent = <<>> /\ returned = <<>>
  /\ buffer = <<>> /\ bytes_written = 0 /\ bytes_read = 0
  /\ at = "closed" /\ length = 0 /\ stack = <<>>
  /\ next_response = NoReply
  /\ ready = "unknown"

\* A new socket: on_connect.
Connect ==
  /\ at = "closed" /\ at' = "idle"
  /\ UNCHANGED <<parser, wire, bufferVars, length, stack, next_response, ready, sessionVars,
                 returned>>

\* SocketBuffer.close drops what was read, and on_disconnect what hiredis found.
CloseBuffer == buffer' = <<>> /\ bytes_written' = 0 /\ bytes_read' = 0
ForgetResponse == next_response' = NoReply

\* Whatever read_response raises but an error reply, the connection disconnects.
Disconnect ==
  /\ CloseBuffer /\ ForgetResponse
  /\ at' = "closed" /\ length' = 0 /\ stack' = <<>>
  /\ wire' = <<>> /\ asked' = <<>> /\ sent' = <<>> /\ returned' = <<>>
  /\ ready' = "unknown"
  /\ UNCHANGED parser

Reading == at \in {"line", "body", "gets"}

-----------------------------------------------------------------------------
(* Connection.pack_command and pack_commands. *)

\* An argument, or a chunk.
Chunk(text, view) == [text |-> text, view |-> view]
IsLarge(chunk) == Len(chunk.text) > BufferCutoff \/ chunk.view

\* The words of the name, as in CONFIG GET, are arguments too.
Arguments(cmd) == [i \in DOMAIN cmd.name |-> Chunk(cmd.name[i], FALSE)] \o cmd.args

\* A large argument is a chunk of its own, and so ends the one before it.
PackArgument(packed, arg) ==
  LET head == packed.buff \o Line("bulk", Len(arg.text)) IN
  IF Len(packed.buff) > BufferCutoff \/ IsLarge(arg)
  THEN [output |-> packed.output \o <<Chunk(head, FALSE), arg>>, buff |-> <<CRLF>>]
  ELSE [packed EXCEPT !.buff = head \o arg.text \o <<CRLF>>]

pack_command(cmd) ==
  LET args == Arguments(cmd)
      packed == FoldLeft(PackArgument, [output |-> <<>>, buff |-> Line("array", Len(args))], args) IN
  Append(packed.output, Chunk(packed.buff, FALSE))

\* A large chunk goes before the pieces that wait.
PackChunk_Overtakes(packed, chunk) ==
  IF IsLarge(chunk) THEN [packed EXCEPT !.output = Append(@, chunk.text)]
  ELSE [packed EXCEPT !.pieces = @ \o chunk.text, !.length = @ + Len(chunk.text)]

\* Small chunks are joined until they are more than the cutoff, a large one is left
\* alone.
PackChunk(packed, chunk) ==
  LET full == packed.length > BufferCutoff \/ IsLarge(chunk)
      output == IF full THEN Append(packed.output, packed.pieces) ELSE packed.output
      pieces == IF full THEN <<>> ELSE packed.pieces IN
  IF IsLarge(chunk)
  THEN [output |-> Append(output, chunk.text), pieces |-> pieces, length |-> Len(pieces)]
  ELSE [output |-> output, pieces |-> pieces \o chunk.text,
        length |-> Len(pieces \o chunk.text)]

pack_commands(cmds) ==
  LET chunks == FlattenSeq([i \in DOMAIN cmds |-> pack_command(cmds[i])])
      packed == FoldLeft(PackChunk, [output |-> <<>>, pieces |-> <<>>, length |-> 0], chunks) IN
  IF packed.pieces # <<>> THEN Append(packed.output, packed.pieces) ELSE packed.output

\* What is written for a pipeline, or for one command, whose chunks are written as
\* they are.
Written(cmds, pipelined) ==
  IF pipelined THEN FlattenSeq(pack_commands(cmds))
  ELSE FlattenSeq([i \in DOMAIN pack_command(cmds[1]) |-> pack_command(cmds[1])[i].text])

\* Redis carries out the commands if it reads them; otherwise it complains.
Answers(cmds, stream) ==
  IF stream = FlattenSeq([i \in DOMAIN cmds |-> Encoded(Arguments(cmds[i]))])
  THEN [i \in DOMAIN cmds |-> cmds[i].reply]
  ELSE <<Reply("error", <<>>, <<>>)>>

\* Nobody waits for a reply.
NothingOwed == at = "idle" /\ Len(returned) = Len(asked)

\* Commands are sent whose replies should be those given.
Send(cmds, replies, pipelined) ==
  /\ NothingOwed
  /\ Len(asked) + Len(cmds) <= MaxReplies
  /\ pipelined \/ Len(cmds) = 1
  /\ LET answers == Answers(cmds, Written(cmds, pipelined)) IN
     /\ asked' = asked \o replies
     /\ sent' = sent \o answers
     /\ wire' = wire \o FlattenSeq([i \in DOMAIN answers |-> Sent[answers[i]]])
  /\ UNCHANGED <<parser, bufferVars, readVars, ready, returned>>

-----------------------------------------------------------------------------
(* SocketBuffer. *)

Unread == bytes_written - bytes_read

\* recv returns some of what is on its way, which is written behind what was
\* written before.
Receive(k) ==
  /\ k \in 1..Len(wire)
  /\ wire' = SubSeq(wire, k + 1, Len(wire))
  /\ buffer' = SubSeq(buffer, 1, bytes_written) \o SubSeq(wire, 1, k)
                 \o SubSeq(buffer, bytes_written + k + 1, Len(buffer))
  /\ bytes_written' = bytes_written + k

\* n are read; a buffer that was read to its end is purged.
Consume(n) ==
  /\ buffer' = IF n = Unread THEN <<>> ELSE buffer
  /\ bytes_written' = IF n = Unread THEN 0 ELSE bytes_written
  /\ bytes_read' = IF n = Unread THEN 0 ELSE bytes_read + n

\* The line that comes next, as far as it is there.
RestOfLine == SelectInSeq(SubSeq(buffer, bytes_read + 1, Len(buffer)), LAMBDA b : b = CRLF)

\* A bulk without the CRLF behind it.
BodyLength_Short == length

\* A bulk is read with the CRLF behind it.
BodyLength == length + 1

\* readline and read go to the socket as long as something is missing.
ReadMore ==
  /\ \/ at = "line" /\ RestOfLine = 0
     \/ at = "body" /\ BodyLength > Unread
  /\ \E k \in 1..Len(wire) : Receive(k)
  /\ UNCHANGED <<parser, bytes_read, readVars, ready, sessionVars, returned>>

-----------------------------------------------------------------------------
(* PythonParser. *)

\* Connection.read_response is called.
ReadResponse ==
  /\ at = "idle" /\ Len(returned) < Len(asked)
  /\ at' = IF parser = "python" THEN "line" ELSE "gets"
  /\ ready' = "unknown"
  /\ UNCHANGED <<parser, wire, bufferVars, length, stack, next_response, sessionVars, returned>>

\* read_response returns v, to its caller or to the read_response of an array.
Return(v) ==
  IF stack = <<>>
  THEN /\ returned' = Append(returned, v)
       /\ at' = "idle"
       /\ UNCHANGED stack
  ELSE /\ stack' = [stack EXCEPT ![Len(stack)].items = Append(@, v)]
       /\ at' = "line"
       /\ UNCHANGED returned

\* An array has all its items.
Complete == stack # <<>> /\ Len(Last(stack).items) = Last(stack).n

EndArray ==
  /\ at = "line" /\ Complete
  /\ LET v == Reply("array", <<>>, Last(stack).items) IN
     IF Len(stack) = 1
     THEN returned' = Append(returned, v) /\ at' = "idle" /\ stack' = <<>>
     ELSE /\ stack' = [Front(stack) EXCEPT ![Len(stack) - 1].items = Append(@, v)]
          /\ UNCHANGED <<returned, at>>
  /\ UNCHANGED <<parser, wire, bufferVars, length, next_response, ready, sessionVars>>

\* A line says what follows: nothing, a text or items.
ReadLine ==
  LET first == buffer[bytes_read + 1] IN
  /\ at = "line" /\ ~Complete /\ RestOfLine > 1
  /\ ~IsConnectionError(first)
  /\ Consume(RestOfLine)
  /\ CASE first.t = "bulk" -> at' = "body" /\ length' = first.n /\ UNCHANGED <<stack, returned>>
       [] first.t = "array" -> /\ stack' = Append(stack, [n |-> first.n, items |-> <<>>])
                               /\ UNCHANGED <<at, length, returned>>
       [] OTHER -> Return(Reply(first.t, <<>>, <<>>)) /\ UNCHANGED length
  /\ UNCHANGED <<parser, wire, next_response, ready, sessionVars>>

\* A bulk has the length that was announced, whatever is in it.
ReadBody ==
  /\ at = "body" /\ BodyLength <= Unread
  /\ Consume(BodyLength)
  /\ Return(Reply("bulk", SubSeq(buffer, bytes_read + 1, bytes_read + length), <<>>))
  /\ length' = 0
  /\ UNCHANGED <<parser, wire, next_response, ready, sessionVars>>

\* An empty line, and an error that stands for a lost connection, are raised,
\* also out of an array.
RaiseConnectionError ==
  /\ at = "line" /\ ~Complete
  /\ \/ RestOfLine = 1
     \/ RestOfLine > 1 /\ IsConnectionError(buffer[bytes_read + 1])
  /\ Disconnect

-----------------------------------------------------------------------------
(* HiredisParser. *)

\* What the reader's gets() finds in what it was fed: the next reply, if all of
\* it is there.
Gets ==
  IF Len(returned) = Len(sent) THEN NoReply
  ELSE LET v == sent[Len(returned) + 1] IN
       IF IsPrefix(Sent[v], buffer) THEN v ELSE NoReply

Use(v) ==
  /\ buffer' = SubSeq(buffer, Len(Sent[v]) + 1, Len(buffer))
  /\ bytes_written' = Len(buffer')
  /\ UNCHANGED bytes_read

\* An error reply, or one that is first in an array, that stands for a lost
\* connection.
SomethingBad(v) == IsConnectionError(v) \/ (v.items # <<>> /\ IsConnectionError(v.items[1]))

\* What can_read has found is forgotten.
ReturnCached_Forgets ==
  /\ at = "gets" /\ next_response # NoReply
  /\ next_response' = NoReply
  /\ UNCHANGED <<parser, wire, bufferVars, at, length, stack, ready, sessionVars, returned>>

\* What can_read has found is returned as it is.
ReturnCached ==
  /\ at = "gets" /\ next_response # NoReply
  /\ returned' = Append(returned, next_response)
  /\ next_response' = NoReply
  /\ at' = "idle"
  /\ UNCHANGED <<parser, wire, bufferVars, length, stack, ready, sessionVars>>

GetsReply ==
  /\ at = "gets" /\ next_response = NoReply /\ Gets # NoReply
  /\ IF SomethingBad(Gets) THEN Disconnect
     ELSE /\ Use(Gets)
          /\ returned' = Append(returned, Gets)
          /\ at' = "idle"
          /\ UNCHANGED <<parser, wire, length, stack, next_response, ready, sessionVars>>

FeedMore ==
  /\ at = "gets" /\ next_response = NoReply /\ Gets = NoReply
  /\ \E k \in 1..Len(wire) : Receive(k)
  /\ UNCHANGED <<parser, bytes_read, readVars, ready, sessionVars, returned>>

\* recv times out, or Redis has closed the socket.
RecvFails ==
  /\ \/ at = "line" /\ ~Complete /\ RestOfLine = 0
     \/ at = "body" /\ BodyLength > Unread
     \/ at = "gets" /\ next_response = NoReply /\ Gets = NoReply
  /\ Disconnect

-----------------------------------------------------------------------------
(* can_read. *)

\* Only the socket is asked.
Buffered_Never == FALSE

\* Whether the parser need not ask the socket.
Buffered ==
  IF parser = "python" THEN Unread > 0
  ELSE next_response # NoReply \/ Gets # NoReply

\* hiredis keeps the reply that it finds;
CanRead ==
  /\ at = "idle" /\ Buffered
  /\ ready' = "yes"
  /\ IF parser = "python" \/ next_response # NoReply THEN UNCHANGED <<bufferVars, next_response>>
     ELSE next_response' = Gets /\ Use(Gets)
  /\ UNCHANGED <<parser, wire, at, length, stack, sessionVars, returned>>

\* otherwise what arrives within the timeout, in whatever part, is announced,
CanReadMore ==
  /\ at = "idle" /\ ~Buffered
  /\ \E k \in 1..Len(wire) : Receive(k)
  /\ ready' = "yes"
  /\ UNCHANGED <<parser, bytes_read, readVars, sessionVars, returned>>

\* or nothing is.
CannotRead ==
  /\ at = "idle" /\ ~Buffered
  /\ ready' = "no"
  /\ UNCHANGED <<parser, wire, bufferVars, readVars, sessionVars, returned>>

-----------------------------------------------------------------------------
ParserStep ==
  \/ ReadMore \/ ReadLine \/ ReadBody \/ EndArray \/ RaiseConnectionError
  \/ ReturnCached \/ GetsReply \/ FeedMore

Next ==
  \/ Connect
  \/ \E n \in 1..MaxReplies : \E cmds \in [1..n -> Commands], pipelined \in BOOLEAN :
       Send(cmds, [i \in 1..n |-> cmds[i].reply], pipelined)
  \/ ReadResponse \/ ParserStep \/ RecvFails
  \/ CanRead \/ CanReadMore \/ CannotRead

\* What was sent arrives, and read_response goes on.
Spec == Init /\ [][Next]_vars /\ WF_vars(ParserStep)

-----------------------------------------------------------------------------
\* A reply that has, at any depth, an error that stands for a lost connection.
Bad[v \in Replies] == IsConnectionError(v) \/ \E i \in DOMAIN v.items : Bad[v.items[i]]

\* However the commands were packed and the replies were cut, read_response returns
\* what Redis answers to each command, one after the other; PythonParser returns
\* none that is bad.
RepliesInOrder ==
  /\ IsPrefix(returned, asked)
  /\ parser = "python" => \A i \in DOMAIN returned : ~Bad[returned[i]]

\* A connection is given up only when recv failed or Redis sent an error that
\* stands for a lost connection, never because replies were taken apart wrongly.
ClosedForCause ==
  [][Reading /\ at' = "closed" => RecvFails \/ Bad[sent[Len(returned) + 1]]]_vars

\* The whole of the next reply is in memory.
InMemory ==
  \/ next_response # NoReply
  \/ /\ Len(returned) < Len(sent)
     /\ IsPrefix(Sent[sent[Len(returned) + 1]], SubSeq(buffer, bytes_read + 1, Len(buffer)))

\* can_read never says no while a reply is there for which nothing more will
\* arrive on the socket: who polls would wait for the next one.
NothingIsHidden == ready = "no" => ~InMemory

\* A call of read_response for a reply that Redis has sent returns or raises.
ReadsEnd == Reading ~> ~Reading
=============================================================================
