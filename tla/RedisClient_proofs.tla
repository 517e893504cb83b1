------------------------- MODULE RedisClient_proofs -------------------------
(***************************************************************************)
(* For any number of calls, timeouts and connections and blocks of any     *)
(* length: the replies that are to come are those the client reads or has  *)
(* given up; and on a connection without a timeout every call reads its    *)
(* own reply, and eval runs its script once.                               *)
(***************************************************************************)
EXTENDS RedisClient, SequenceTheorems, TLAPS

Msgs == Seq([call : Calls, to : Commands])

\* The parts of the state the counting rests on: the lengths that are compared
\* are those of sequences, the counter is that of the commands on the stack,
\* and connections that were not opened are empty.
OwedInv ==
  /\ op \in Ops /\ want \in Nat /\ (want = 0 <=> op = "idle")
  /\ late \in Nat
  /\ counter \in Nat
  /\ stack \in Seq(Commands)
  /\ stack # <<>> => counter = Len(stack)
  /\ conn \in Connections
  /\ written \in [Connections -> Msgs]
  /\ replies \in [Connections -> Seq(Replies)]
  /\ call \in Calls
  /\ \A c \in Connections : c > conn => written[c] = <<>> /\ replies[c] = <<>>
  /\ RepliesOwed

LEMMA OwedInit == Init => OwedInv
BY BoundsAssumption
   DEF Init, OwedInv, RepliesOwed, Connections, Calls, Ops, Commands, Replies, Msgs

\* Write adds its commands to the connection's and leaves the others alone.
LEMMA WriteAdds ==
  ASSUME NEW c \in Connections, NEW n \in Calls, NEW cs \in Seq(Commands),
         NEW next, NEW count \in Nat,
         written \in [Connections -> Msgs],
         Write(c, n, cs, next, count)
  PROVE  /\ written' \in [Connections -> Msgs]
         /\ Len(written'[c]) = Len(written[c]) + Len(cs)
         /\ \A d \in Connections \ {c} : written'[d] = written[d]
         /\ op' = next /\ want' = count
<1> DEFINE ms == [i \in DOMAIN cs |-> [call |-> n, to |-> cs[i]]]
<1>1. DOMAIN cs = 1..Len(cs) /\ Len(cs) \in Nat /\ \A i \in 1..Len(cs) : cs[i] \in Commands
  OBVIOUS
<1>2. ms \in [1..Len(cs) -> [call : Calls, to : Commands]]
  BY <1>1
<1>3. ms \in Msgs /\ Len(ms) = Len(cs)
  BY <1>1, <1>2, LenProperties, SeqDef DEF Msgs
<1> HIDE DEF ms
<1>4. written[c] \o ms \in Msgs /\ Len(written[c] \o ms) = Len(written[c]) + Len(ms)
  <2> DEFINE M == [call : Calls, to : Commands]
  <2>1. written[c] \in Seq(M) /\ ms \in Seq(M)
    BY <1>3 DEF Msgs
  <2> HIDE DEF M
  <2>2. written[c] \o ms \in Seq(M) /\ Len(written[c] \o ms) = Len(written[c]) + Len(ms)
    BY <2>1, ConcatProperties
  <2> QED BY <2>2 DEF M, Msgs
<1>5. written' = [written EXCEPT ![c] = written[c] \o ms] /\ op' = next /\ want' = count
  BY DEF Write, ms
<1> QED BY <1>3, <1>4, <1>5

\* A call that begins waits for the replies to what it writes.
LEMMA OwedBegin ==
  ASSUME OwedInv, NEW next \in {"single", "evalsha"}, Begin(next)
  PROVE  OwedInv'
<1>1. <<next>> \in Seq(Commands) /\ Len(<<next>>) = 1
  BY DEF Commands
<1>2. /\ written' \in [Connections -> Msgs]
      /\ Len(written'[conn]) = Len(written[conn]) + 1
      /\ \A d \in Connections \ {conn} : written'[d] = written[d]
      /\ op' = next /\ want' = 1
  <2>1. call + 1 \in Calls BY BoundsAssumption DEF OwedInv, Begin, BeginCall, Calls
  <2>2. Write(conn, call + 1, <<next>>, next, 1) /\ conn \in Connections
        /\ written \in [Connections -> Msgs]
    BY DEF OwedInv, Begin
  <2> QED BY <1>1, <2>1, <2>2, WriteAdds
<1>3. Len(written[conn]) \in Nat /\ Len(replies[conn]) \in Nat
  BY DEF OwedInv, Msgs
<1>4. call' \in Calls BY BoundsAssumption DEF OwedInv, Begin, BeginCall, Calls
<1>5. RepliesOwed' BY <1>2, <1>3 DEF OwedInv, Begin, BeginCall, RepliesOwed, historyVars
<1> QED
  BY <1>2, <1>4, <1>5 DEF OwedInv, Begin, BeginCall, Ops, historyVars, Connections

LEMMA OwedExec == ASSUME OwedInv, Exec PROVE OwedInv'
<1>1. /\ stack' \in Seq(Commands) /\ stack' # <<>>
      /\ counter' = Len(stack') /\ counter' \in Nat /\ counter' > 0
  BY DEF OwedInv, Exec, Commands
<1>2. /\ written' \in [Connections -> Msgs]
      /\ Len(written'[conn]) = Len(written[conn]) + Len(stack')
      /\ \A d \in Connections \ {conn} : written'[d] = written[d]
      /\ op' = "exec" /\ want' = counter'
  <2>1. call + 1 \in Calls BY BoundsAssumption DEF OwedInv, Exec, BeginCall, Calls
  <2>2. Write(conn, call + 1, stack', "exec", counter') /\ conn \in Connections
        /\ written \in [Connections -> Msgs]
    BY DEF OwedInv, Exec
  <2> QED BY <1>1, <2>1, <2>2, WriteAdds
<1>3. Len(written[conn]) \in Nat /\ Len(replies[conn]) \in Nat
  BY DEF OwedInv, Msgs
<1>4. call' \in Calls BY BoundsAssumption DEF OwedInv, Exec, BeginCall, Calls
<1>5. /\ Len(written[conn]) + Len(replies[conn]) = late /\ late \in Nat
      /\ late' = late /\ replies' = replies /\ conn' = conn
  BY <1>3 DEF OwedInv, Exec, BeginCall, RepliesOwed, historyVars
<1>6. RepliesOwed'
  <2>1. Len(written'[conn]) = Len(written[conn]) + want' /\ want' \in Nat
    BY <1>1, <1>2
  <2>2. PICK w \in Nat, q \in Nat, n \in Nat, l \in Nat :
          w = Len(written[conn]) /\ q = Len(replies[conn]) /\ n = want' /\ l = late
    BY <1>3, <1>5, <2>1
  <2>3. w + q = l BY <1>5, <2>2
  <2>4. (w + n) + q = n + l BY <2>3
  <2>5. Len(written'[conn]) = w + n /\ Len(replies'[conn]) = q /\ late' = l /\ conn' = conn
    BY <1>5, <2>1, <2>2
  <2>6. Len(written'[conn]) + Len(replies'[conn]) = want' + late'
    BY <2>2, <2>4, <2>5
  <2> QED BY <1>5, <2>6 DEF RepliesOwed
<1> QED
  BY <1>1, <1>2, <1>4, <1>6 DEF OwedInv, Exec, Ops, historyVars, Connections

LEMMA OwedReconnect == ASSUME OwedInv, Reconnect PROVE OwedInv'
<1>1. <<"auth">> \in Seq(Commands) /\ Len(<<"auth">>) = 1
  BY DEF Commands
<1>2. conn' \in Connections /\ conn' > conn /\ call' \in Calls
  BY BoundsAssumption DEF OwedInv, Reconnect, BeginCall, Calls, Connections
<1>3. /\ written' \in [Connections -> Msgs]
      /\ Len(written'[conn']) = Len(written[conn']) + 1
      /\ \A d \in Connections \ {conn'} : written'[d] = written[d]
      /\ op' = "auth" /\ want' = 1
  <2>1. call + 1 \in Calls BY BoundsAssumption DEF OwedInv, Reconnect, BeginCall, Calls
  <2>2. Write(conn', call + 1, <<"auth">>, "auth", 1) /\ written \in [Connections -> Msgs]
    BY DEF OwedInv, Reconnect
  <2> QED BY <1>1, <1>2, <2>1, <2>2, WriteAdds
<1>4. Len(written[conn']) = 0 /\ Len(replies[conn']) = 0
  BY <1>2 DEF OwedInv
<1>5. RepliesOwed' BY <1>3, <1>4 DEF Reconnect, RepliesOwed
<1> QED
  BY <1>2, <1>3, <1>5 DEF OwedInv, Reconnect, Ops, Commands, Connections

LEMMA OwedBlock == ASSUME OwedInv, Multi \/ Queue PROVE OwedInv'
<1>1. UNCHANGED <<call, op, want, conn, written, replies, late>>
  BY DEF Multi, Queue, redisVars, historyVars
<1>2. CASE Multi
  <2>1. <<"multi">> \in Seq(Commands) /\ Len(<<"multi">>) = 1
    BY DEF Commands
  <2>2. stack' = <<"multi">> /\ counter' = 1 BY <1>2 DEF Multi
  <2> QED BY <1>1, <2>1, <2>2 DEF OwedInv, RepliesOwed
<1>3. CASE Queue
  <2>1. stack' = Append(stack, "queued") /\ counter' = counter + 1
    BY <1>3 DEF Queue
  <2>2. stack \in Seq(Commands) /\ counter = Len(stack) /\ "queued" \in Commands
    BY <1>3 DEF Queue, OwedInv, Commands
  <2>3. stack' \in Seq(Commands) /\ counter' \in Nat /\ counter' = Len(stack')
    BY <2>1, <2>2
  <2> QED BY <1>1, <2>3 DEF OwedInv, RepliesOwed
<1> QED BY <1>2, <1>3

\* What a reply leads to: either one more command is written, with one reply,
\* or the call returns.
LEMMA ProceedCases ==
  ASSUME OwedInv, NEW r, Proceed(r)
  PROVE  /\ written' \in [Connections -> Msgs]
         /\ Len(written'[conn]) = Len(written[conn]) + want'
         /\ \A d \in Connections \ {conn} : written'[d] = written[d]
         /\ want' \in {0, 1} /\ op' \in Ops /\ (want' = 0 <=> op' = "idle")
<1>0. /\ conn \in Connections /\ call \in Calls
      /\ written \in [Connections -> Msgs]
  BY DEF OwedInv
<1>1. ASSUME NEW c \in Commands, NEW next \in Ops \ {"idle"}, Write(conn, call, <<c>>, next, 1)
      PROVE  /\ written' \in [Connections -> Msgs]
             /\ Len(written'[conn]) = Len(written[conn]) + 1
             /\ \A d \in Connections \ {conn} : written'[d] = written[d]
             /\ want' = 1 /\ op' = next
  <2>1. <<c>> \in Seq(Commands) /\ Len(<<c>>) = 1
    OBVIOUS
  <2>2. 1 \in Nat OBVIOUS
  <2> QED BY <1>0, <1>1, <2>1, <2>2, WriteAdds
<1>2. CASE op = "auth"
  <2>1. Write(conn, call, <<"select">>, "select", 1) BY <1>2 DEF Proceed
  <2> QED BY <1>1, <2>1 DEF Commands, Ops
<1>3. CASE op = "evalsha" /\ ~r.known
  <2>1. Write(conn, call, <<"load">>, "load", 1) BY <1>3 DEF Proceed
  <2> QED BY <1>1, <2>1 DEF Commands, Ops
<1>4. CASE op = "load" /\ r.to = "load"
  <2>1. Write(conn, call, <<"evalsha">>, "again", 1) BY <1>4 DEF Proceed
  <2> QED BY <1>1, <2>1 DEF Commands, Ops
<1>5. CASE Finish
  <2>1. Len(written[conn]) \in Nat BY <1>0 DEF Msgs
  <2> QED BY <1>0, <1>5, <2>1 DEF Finish, Ops
<1> QED BY <1>2, <1>3, <1>4, <1>5 DEF Proceed

\* A reply that is read, or given up, is one less to wait for.
LEMMA TakeFacts ==
  ASSUME OwedInv, want > 0, NEW r, Take(r)
  PROVE  /\ written' \in [Connections -> Msgs]
         /\ \/ Len(written'[conn]) = Len(written[conn]) /\ want' = want - 1
            \/ Len(written'[conn]) = Len(written[conn]) + want' /\ want = 1
         /\ \A d \in Connections \ {conn} : written'[d] = written[d]
         /\ want' \in Nat /\ op' \in Ops /\ (want' = 0 <=> op' = "idle")
         /\ counter' = counter /\ conn' = conn /\ call' = call
         /\ stack' \in Seq(Commands) /\ (stack' # <<>> => stack' = stack)
<1>1. Len(written[conn]) \in Nat BY DEF OwedInv, Msgs
<1>2. CASE want > 1 BY <1>1, <1>2 DEF Take, OwedInv
<1>3. CASE want = 1
  <2>1. Proceed(r) /\ stack' = <<>> BY <1>3 DEF Take
  <2> QED BY <1>1, <1>3, <2>1, ProceedCases DEF Take, OwedInv
<1> QED BY <1>2, <1>3 DEF OwedInv

LEMMA OwedReadReply == ASSUME OwedInv, ReadReply PROVE OwedInv'
<1> DEFINE r == Head(replies[conn])
<1>1. want > 0 /\ Take(r) BY DEF ReadReply
<1>2. /\ written' \in [Connections -> Msgs]
      /\ \/ Len(written'[conn]) = Len(written[conn]) /\ want' = want - 1
         \/ Len(written'[conn]) = Len(written[conn]) + want' /\ want = 1
      /\ \A d \in Connections \ {conn} : written'[d] = written[d]
      /\ want' \in Nat /\ op' \in Ops /\ (want' = 0 <=> op' = "idle")
      /\ counter' = counter /\ conn' = conn /\ call' = call
      /\ stack' \in Seq(Commands) /\ (stack' # <<>> => stack' = stack)
  BY <1>1, TakeFacts
<1>3. /\ replies' \in [Connections -> Seq(Replies)]
      /\ Len(replies'[conn]) = Len(replies[conn]) - 1
      /\ \A d \in Connections \ {conn} : replies'[d] = replies[d]
      /\ late' = late
  <2>1. replies[conn] \in Seq(Replies) /\ replies[conn] # <<>> BY DEF OwedInv, ReadReply
  <2>2. Tail(replies[conn]) \in Seq(Replies) /\ Len(Tail(replies[conn])) = Len(replies[conn]) - 1
    BY <2>1
  <2> QED BY <2>2 DEF OwedInv, ReadReply
<1>4. /\ Len(written[conn]) \in Nat /\ Len(replies[conn]) \in Nat
      /\ Len(written'[conn]) \in Nat
  BY <1>2 DEF OwedInv, Msgs
<1>5. Len(written[conn]) + Len(replies[conn]) = want + late /\ want \in Nat /\ late \in Nat
  BY DEF OwedInv, RepliesOwed
<1>6. Len(written'[conn]) + Len(replies'[conn]) = want' + late'
  <2>1. PICK w \in Nat, q \in Nat, n \in Nat, l \in Nat :
          w = Len(written[conn]) /\ q = Len(replies[conn]) /\ n = want /\ l = late
    BY <1>4, <1>5
  <2>2. PICK w1 \in Nat, n1 \in Nat : w1 = Len(written'[conn]) /\ n1 = want'
    BY <1>2, <1>4
  <2>3. w + q = n + l BY <1>5, <2>1
  <2>4. (w1 = w /\ n1 = n - 1) \/ (w1 = w + n1 /\ n = 1) BY <1>2, <2>1, <2>2
  <2>5. w1 + (q - 1) = n1 + l
    <3>1. CASE w1 = w /\ n1 = n - 1 BY <2>3, <3>1
    <3>2. CASE w1 = w + n1 /\ n = 1 BY <2>3, <3>2
    <3> QED BY <2>4, <3>1, <3>2
  <2>6. Len(replies'[conn]) = q - 1 /\ late' = l BY <1>3, <2>1
  <2> QED BY <2>2, <2>5, <2>6
<1>7. RepliesOwed' BY <1>2, <1>6 DEF RepliesOwed
<1> HIDE DEF r
<1> QED BY <1>2, <1>3, <1>5, <1>7 DEF OwedInv, Connections

LEMMA OwedTimeout == ASSUME OwedInv, Timeout PROVE OwedInv'
<1>1. want > 0 /\ Take(NoReply) BY DEF Timeout
<1>2. /\ written' \in [Connections -> Msgs]
      /\ \/ Len(written'[conn]) = Len(written[conn]) /\ want' = want - 1
         \/ Len(written'[conn]) = Len(written[conn]) + want' /\ want = 1
      /\ \A d \in Connections \ {conn} : written'[d] = written[d]
      /\ want' \in Nat /\ op' \in Ops /\ (want' = 0 <=> op' = "idle")
      /\ counter' = counter /\ conn' = conn /\ call' = call
      /\ stack' \in Seq(Commands) /\ (stack' # <<>> => stack' = stack)
  BY <1>1, TakeFacts
<1>3. replies' = replies /\ late' = late + 1 BY DEF Timeout
<1>4. /\ Len(written[conn]) \in Nat /\ Len(replies[conn]) \in Nat
      /\ Len(written'[conn]) \in Nat
  BY <1>2 DEF OwedInv, Msgs
<1>5. Len(written[conn]) + Len(replies[conn]) = want + late /\ want \in Nat /\ late \in Nat
  BY DEF OwedInv, RepliesOwed
<1>6. Len(written'[conn]) + Len(replies'[conn]) = want' + late'
  <2>1. PICK w \in Nat, q \in Nat, n \in Nat, l \in Nat :
          w = Len(written[conn]) /\ q = Len(replies[conn]) /\ n = want /\ l = late
    BY <1>4, <1>5
  <2>2. PICK w1 \in Nat, n1 \in Nat : w1 = Len(written'[conn]) /\ n1 = want'
    BY <1>2, <1>4
  <2>3. w + q = n + l BY <1>5, <2>1
  <2>4. (w1 = w /\ n1 = n - 1) \/ (w1 = w + n1 /\ n = 1) BY <1>2, <2>1, <2>2
  <2>5. w1 + q = n1 + (l + 1)
    <3>1. CASE w1 = w /\ n1 = n - 1 BY <2>3, <3>1
    <3>2. CASE w1 = w + n1 /\ n = 1 BY <2>3, <3>2
    <3> QED BY <2>4, <3>1, <3>2
  <2>6. Len(replies'[conn]) = q /\ late' = l + 1 BY <1>3, <2>1
  <2> QED BY <2>2, <2>5, <2>6
<1>7. RepliesOwed' BY <1>2, <1>6 DEF RepliesOwed
<1> QED BY <1>2, <1>3, <1>5, <1>7 DEF OwedInv, Connections

\* Redis turns a command into a reply.
LEMMA OwedCarryOut ==
  ASSUME OwedInv, NEW c \in Connections, CarryOut(c) PROVE OwedInv'
<1> DEFINE m == Head(written[c])
           r == [call |-> m.call, to |-> m.to, known |-> m.to = "evalsha" => loaded]
<1>1. written[c] \in Msgs /\ written[c] # <<>> BY DEF OwedInv, CarryOut
<1>2. m \in [call : Calls, to : Commands]
  <2> DEFINE M == [call : Calls, to : Commands]
  <2>1. written[c] \in Seq(M) /\ written[c] # <<>> BY <1>1 DEF Msgs
  <2> HIDE DEF M
  <2>2. m \in M BY <2>1
  <2> QED BY <2>2 DEF M
<1>3. r \in Replies BY <1>2 DEF Replies
<1>4. /\ Tail(written[c]) \in Msgs
      /\ Len(Tail(written[c])) = Len(written[c]) - 1
      /\ Len(written[c]) \in Nat
  BY <1>1 DEF Msgs
<1>5. /\ written' = [written EXCEPT ![c] = Tail(written[c])]
      /\ replies' = [replies EXCEPT ![c] = Append(replies[c], r)]
  BY DEF CarryOut
<1> HIDE DEF r
<1>6. /\ Append(replies[c], r) \in Seq(Replies)
      /\ Len(Append(replies[c], r)) = Len(replies[c]) + 1
      /\ Len(replies[c]) \in Nat
  BY <1>3 DEF OwedInv
<1>7. /\ written' \in [Connections -> Msgs] /\ replies' \in [Connections -> Seq(Replies)]
      /\ \A d \in Connections : Len(written'[d]) + Len(replies'[d]) =
                                 Len(written[d]) + Len(replies[d])
      /\ \A d \in Connections \ {c} : written'[d] = written[d] /\ replies'[d] = replies[d]
  <2> HIDE DEF m
  <2>1. written \in [Connections -> Msgs] /\ replies \in [Connections -> Seq(Replies)]
    BY DEF OwedInv
  <2>2. written'[c] = Tail(written[c]) /\ replies'[c] = Append(replies[c], r)
    BY <1>5, <2>1
  <2>3. \A d \in Connections \ {c} : written'[d] = written[d] /\ replies'[d] = replies[d]
    BY <1>5, <2>1
  <2>4. written' \in [Connections -> Msgs] /\ replies' \in [Connections -> Seq(Replies)]
    BY <1>4, <1>5, <1>6, <2>1
  <2>5. Len(written'[c]) + Len(replies'[c]) = Len(written[c]) + Len(replies[c])
    <3>1. PICK w \in Nat, q \in Nat : w = Len(written[c]) /\ q = Len(replies[c])
      BY <1>4, <1>6
    <3>2. (w - 1) + (q + 1) = w + q OBVIOUS
    <3>3. Len(written'[c]) = w - 1 /\ Len(replies'[c]) = q + 1
      BY <1>4, <1>6, <2>2, <3>1
    <3> QED BY <3>1, <3>2, <3>3
  <2> QED BY <2>3, <2>4, <2>5
<1>8. UNCHANGED <<clientVars, late>> BY DEF CarryOut
<1>9. c <= conn BY <1>1 DEF OwedInv, Connections
<1>10. RepliesOwed' BY <1>7, <1>8 DEF OwedInv, RepliesOwed, clientVars
<1> QED BY <1>7, <1>8, <1>9, <1>10 DEF OwedInv, clientVars, Connections

LEMMA OwedNext == OwedInv /\ [Next]_vars => OwedInv'
<1> SUFFICES ASSUME OwedInv, [Next]_vars PROVE OwedInv'
  OBVIOUS
<1>1. CASE Begin("single") \/ Begin("evalsha") BY <1>1, OwedBegin
<1>2. CASE Multi \/ Queue BY <1>2, OwedBlock
<1>3. CASE Exec BY <1>3, OwedExec
<1>4. CASE Reconnect BY <1>4, OwedReconnect
<1>5. CASE ReadReply BY <1>5, OwedReadReply
<1>6. CASE Timeout BY <1>6, OwedTimeout
<1>7. CASE \E c \in Connections : CarryOut(c) BY <1>7, OwedCarryOut
<1>8. CASE OtherLoads \/ OtherFlushes
  BY <1>8 DEF OtherLoads, OtherFlushes, OwedInv, RepliesOwed, clientVars, historyVars
<1>9. CASE UNCHANGED vars
  BY <1>9 DEF vars, OwedInv, RepliesOwed, clientVars, redisVars, historyVars
<1> QED BY <1>1, <1>2, <1>3, <1>4, <1>5, <1>6, <1>7, <1>8, <1>9 DEF Next

\* On every connection as many replies are to come as the client has still to
\* read and has given up: after k timeouts each call reads a reply k old.
THEOREM NoReplyIsLost == Spec => []RepliesOwed
<1>1. Spec => []OwedInv BY OwedInit, OwedNext, PTL DEF Spec
<1> QED BY <1>1, PTL DEF OwedInv

-----------------------------------------------------------------------------
(* Type correctness.  No call waits for more than the replies to a block,  *)
(* since a block that is not being executed has room for EXEC.             *)

Rest ==
  /\ result \in Replies
  /\ late <= MaxTimeouts
  /\ loaded \in BOOLEAN /\ forgot \in BOOLEAN
  /\ ran \in [Calls -> Nat]
  /\ op = "idle" => Len(stack) <= MaxBlock + 1
  /\ want <= MaxBlock + 2

LEMMA RestInit == Init => Rest
<1> SUFFICES ASSUME Init PROVE Rest OBVIOUS
<1>1. result \in Replies
  BY BoundsAssumption DEF Init, NoReply, Replies, Calls, Commands
<1>2. loaded \in BOOLEAN /\ forgot \in BOOLEAN BY DEF Init
<1>3. ran \in [Calls -> Nat] BY DEF Init
<1> QED BY <1>1, <1>2, <1>3, BoundsAssumption DEF Init, Rest

\* Reading a reply, or none, keeps the types.
LEMMA RestTake ==
  ASSUME OwedInv, Rest, NEW r \in Replies, want > 0, Take(r),
         late' <= MaxTimeouts, loaded' = loaded
  PROVE  Rest'
<1>1. /\ result' \in Replies /\ late' <= MaxTimeouts /\ loaded' \in BOOLEAN /\ forgot' \in BOOLEAN
      /\ ran' \in [Calls -> Nat]
  BY DEF Take, Rest
<1>2. CASE want > 1
  <2>1. want' = want - 1 /\ op' = op /\ stack' = stack BY <1>2 DEF Take
  <2>2. want \in Nat /\ want <= MaxBlock + 2 /\ MaxBlock \in Nat
    BY BoundsAssumption DEF Rest, OwedInv
  <2>3. want' <= MaxBlock + 2 BY <2>1, <2>2
  <2>4. op' = "idle" => Len(stack') <= MaxBlock + 1 BY <2>1 DEF Rest
  <2> QED BY <1>1, <2>3, <2>4 DEF Rest
<1>3. CASE ~(want > 1)
  <2>1. Proceed(r) /\ stack' = <<>> BY <1>3 DEF Take
  <2>2. want' \in {0, 1} BY <2>1 DEF Proceed, Write, Finish
  <2>3. Len(stack') = 0 BY <2>1
  <2> QED BY <1>1, <2>2, <2>3, BoundsAssumption DEF Rest
<1> QED BY <1>2, <1>3

LEMMA RestNext == OwedInv /\ Rest /\ [Next]_vars => Rest'
<1> SUFFICES ASSUME OwedInv, Rest, [Next]_vars PROVE Rest' OBVIOUS
<1>b. MaxBlock \in Nat BY BoundsAssumption
<1>1. ASSUME NEW next \in {"single", "evalsha"}, Begin(next) PROVE Rest'
  <2>1. want' = 1 /\ op' = next /\ forgot' = FALSE /\ UNCHANGED <<result, loaded, late, ran>>
    BY <1>1 DEF Begin, BeginCall, Write
  <2>2. 1 <= MaxBlock + 2 /\ op' # "idle" BY <1>b, <2>1
  <2> QED BY <2>1, <2>2 DEF Rest
<1>2. CASE Multi
  <2>1. Len(stack') = 1 BY <1>2 DEF Multi
  <2> QED BY <1>b, <1>2, <2>1 DEF Multi, Rest, historyVars, redisVars
<1>3. CASE Queue
  <2>1. Len(stack') = Len(stack) + 1 /\ Len(stack) <= MaxBlock
    BY <1>3 DEF Queue, OwedInv, Commands
  <2>2. Len(stack) \in Nat BY DEF OwedInv
  <2> QED BY <1>b, <1>3, <2>1, <2>2 DEF Queue, Rest, historyVars, redisVars
<1>4. CASE Exec
  <2>1. /\ op = "idle" /\ stack # <<>> /\ want' = counter + 1
        /\ op' = "exec" /\ UNCHANGED <<result, loaded, late, ran>>
        /\ forgot' = FALSE
    BY <1>4 DEF Exec, BeginCall, Write
  <2>2. want' <= MaxBlock + 2 BY <1>b, <2>1 DEF OwedInv, Rest
  <2> QED BY <2>1, <2>2 DEF Rest
<1>5. CASE Reconnect
  <2>1. want' = 1 /\ op' = "auth" /\ late' = 0 /\ UNCHANGED <<result, loaded, ran>>
        /\ forgot' = FALSE
    BY <1>5 DEF Reconnect, BeginCall, Write
  <2>2. 1 <= MaxBlock + 2 /\ 0 <= MaxTimeouts BY <1>b, BoundsAssumption
  <2> QED BY <2>1, <2>2 DEF Rest
<1>6. CASE ReadReply
  <2>1. replies[conn] \in Seq(Replies) /\ replies[conn] # <<>> BY <1>6 DEF ReadReply, OwedInv
  <2>2. Head(replies[conn]) \in Replies BY <2>1
  <2>3. want > 0 /\ Take(Head(replies[conn])) /\ late' = late BY <1>6 DEF ReadReply
  <2>4. loaded' = loaded BY <2>3 DEF Take
  <2> QED BY <2>2, <2>3, <2>4, RestTake DEF Rest
<1>7. CASE Timeout
  <2>1. NoReply \in Replies BY BoundsAssumption DEF NoReply, Replies, Calls, Commands
  <2>2. want > 0 /\ Take(NoReply) /\ late < MaxTimeouts /\ late' = late + 1
    BY <1>7 DEF Timeout
  <2>3. late' <= MaxTimeouts BY <2>2, BoundsAssumption DEF OwedInv
  <2>4. loaded' = loaded BY <2>2 DEF Take
  <2> QED BY <2>1, <2>2, <2>3, <2>4, RestTake
<1>8. ASSUME NEW c \in Connections, CarryOut(c) PROVE Rest'
  <2>1. UNCHANGED <<result, late, op, stack, want>> BY <1>8 DEF CarryOut, clientVars
  <2>2. loaded' \in BOOLEAN /\ forgot' = forgot BY <1>8 DEF CarryOut
  <2>3. ran' \in [Calls -> Nat]
    <3>1. ran' = ran \/ \E n \in Calls : ran' = [ran EXCEPT ![n] = @ + 1]
      <4>1. written[c] \in Msgs /\ written[c] # <<>> BY <1>8 DEF CarryOut, OwedInv
      <4>2. Head(written[c]).call \in Calls
        <5> DEFINE M == [call : Calls, to : Commands]
        <5>1. written[c] \in Seq(M) BY <4>1 DEF Msgs
        <5> HIDE DEF M
        <5>2. Head(written[c]) \in M BY <4>1, <5>1
        <5> QED BY <5>2 DEF M
      <4> QED BY <1>8, <4>2 DEF CarryOut
    <3> QED BY <3>1 DEF Rest
  <2> QED BY <2>1, <2>2, <2>3 DEF Rest
<1>9. CASE OtherLoads \/ OtherFlushes
  BY <1>9 DEF OtherLoads, OtherFlushes, Rest, clientVars, historyVars
<1>10. CASE UNCHANGED vars
  BY <1>10 DEF vars, Rest, clientVars, redisVars, historyVars
<1> QED BY <1>1, <1>2, <1>3, <1>4, <1>5, <1>6, <1>7, <1>8, <1>9, <1>10 DEF Next

\* Client and connections hold what the code writes, and no call waits for more
\* replies than the commands it wrote.
THEOREM ClientTypeCorrect == Spec => []TypeOK
<1>1. Spec => [](OwedInv /\ Rest)
  BY OwedInit, OwedNext, RestInit, RestNext, PTL DEF Spec
<1>2. ASSUME OwedInv, Rest PROVE TypeOK
  <2>1. want \in 0..MaxBlock + 2 /\ late \in 0..MaxTimeouts
    BY <1>2, BoundsAssumption DEF OwedInv, Rest
  <2>2. written \in [Connections -> Seq([call : Calls, to : Commands])] BY <1>2 DEF OwedInv, Msgs
  <2> QED BY <1>2, <2>1, <2>2 DEF OwedInv, Rest, TypeOK
<1> QED BY <1>1, <1>2, PTL

-----------------------------------------------------------------------------
(***************************************************************************)
(* Whose reply a call returns.  As long as no reply was late, what is on   *)
(* the connection belongs to this call (OfThisCall), and the last of it    *)
(* answers the command the call waits for (LastAwaited).  A call that      *)
(* evaluates a script writes up to three commands, so the invariant counts *)
(* how often the script has been run at each of them (EvalRuns).  Redis    *)
(* may still carry out commands on connections that the client left; these *)
(* are of earlier calls (NumbersAscend).                                   *)
(***************************************************************************)

\* The command whose reply the call waits for.
Awaited == IF op = "again" THEN "evalsha" ELSE op

KnownUnlessEval ==
  \A c \in Connections : \A i \in 1..Len(replies[c]) :
    replies[c][i].to # "evalsha" => replies[c][i].known
OneAtATime == op \notin {"idle", "exec"} => want = 1
NumbersAscend ==
  \A c \in Connections : \A i \in 1..Len(written[c]) :
    written[c][i].call <= call /\ (c # conn => written[c][i].call < call)
FutureNotRun == \A n \in Calls : n > call => ran[n] = 0

\* What holds after timeouts, too.
AnyInv == KnownUnlessEval /\ OneAtATime /\ NumbersAscend /\ FutureNotRun

OfThisCall ==
  op # "idle" /\ late = 0 =>
    /\ \A i \in 1..Len(written[conn]) : written[conn][i].call = call
    /\ \A i \in 1..Len(replies[conn]) : replies[conn][i].call = call
LastAwaited ==
  op # "idle" /\ late = 0 =>
    IF written[conn] # <<>> THEN written[conn][Len(written[conn])].to = Awaited
    ELSE replies[conn][Len(replies[conn])].to = Awaited
RunsOf(r) == IF r.known THEN 1 ELSE 0
LoadedOrForgot == loaded \/ forgot
EvalRuns ==
  late = 0 =>
    /\ op \in {"evalsha", "again"} =>
         ran[call] = IF replies[conn] = <<>> THEN 0 ELSE RunsOf(replies[conn][1])
    /\ op = "load" => ran[call] = 0 /\ (replies[conn] # <<>> => LoadedOrForgot)
    /\ op = "again" =>
         LoadedOrForgot /\ (replies[conn] # <<>> => replies[conn][1].known \/ forgot)

\* What holds as long as no reply was late.
StepInv == OfThisCall /\ LastAwaited /\ EvalRuns /\ OwnReply /\ EvalRunsOnce

LEMMA TailElements ==
  ASSUME NEW S, NEW s \in Seq(S), s # <<>>
  PROVE  /\ Tail(s) \in Seq(S) /\ Len(Tail(s)) = Len(s) - 1 /\ Len(s) \in Nat \ {0}
         /\ Head(s) = s[1] /\ Head(s) \in S
         /\ \A i \in 1..Len(Tail(s)) : i + 1 \in 1..Len(s) /\ Tail(s)[i] = s[i + 1]
OBVIOUS

LEMMA AppendElements ==
  ASSUME NEW S, NEW s \in Seq(S), NEW x \in S
  PROVE  /\ Append(s, x) \in Seq(S) /\ Len(Append(s, x)) = Len(s) + 1 /\ Len(s) \in Nat
         /\ \A i \in 1..Len(s) : Append(s, x)[i] = s[i]
         /\ Append(s, x)[Len(s) + 1] = x
OBVIOUS

\* The messages on a connection are messages.
LEMMA MsgElements ==
  ASSUME NEW s \in Msgs
  PROVE  \A i \in 1..Len(s) : s[i].call \in Calls /\ s[i].to \in Commands
<1> DEFINE M == [call : Calls, to : Commands]
<1>1. s \in Seq(M) BY DEF Msgs
<1> HIDE DEF M
<1>2. \A i \in 1..Len(s) : s[i] \in M BY <1>1
<1> QED BY <1>2 DEF M

\* What Write leaves on its connection.
LEMMA WriteElements ==
  ASSUME NEW c \in Connections, NEW n \in Calls, NEW cs \in Seq(Commands),
         NEW next, NEW count \in Nat,
         written \in [Connections -> Msgs],
         Write(c, n, cs, next, count)
  PROVE  /\ \A i \in 1..Len(written[c]) : written'[c][i] = written[c][i]
         /\ \A i \in 1..Len(cs) : written'[c][Len(written[c]) + i] = [call |-> n, to |-> cs[i]]
<1> DEFINE ms == [i \in DOMAIN cs |-> [call |-> n, to |-> cs[i]]]
<1>1. DOMAIN cs = 1..Len(cs) /\ Len(cs) \in Nat /\ \A i \in 1..Len(cs) : cs[i] \in Commands
  OBVIOUS
<1>2. ms \in [1..Len(cs) -> [call : Calls, to : Commands]]
  BY <1>1
<1>3. ms \in Msgs /\ Len(ms) = Len(cs)
  BY <1>1, <1>2, LenProperties, SeqDef DEF Msgs
<1>4. \A i \in 1..Len(cs) : ms[i] = [call |-> n, to |-> cs[i]]
  BY <1>1
<1>5. written' = [written EXCEPT ![c] = written[c] \o ms]
  BY DEF Write
<1> HIDE DEF ms
<1>6. /\ \A i \in 1..Len(written[c]) : (written[c] \o ms)[i] = written[c][i]
      /\ \A i \in 1..Len(ms) : (written[c] \o ms)[Len(written[c]) + i] = ms[i]
  <2> DEFINE M == [call : Calls, to : Commands]
  <2>1. written[c] \in Seq(M) /\ ms \in Seq(M)
    BY <1>3 DEF Msgs
  <2> HIDE DEF M
  <2>2. Len(written[c]) \in Nat /\ Len(ms) \in Nat
    BY <2>1
  <2>3. \A i \in 1..(Len(written[c]) + Len(ms)) :
           (written[c] \o ms)[i] = IF i <= Len(written[c]) THEN written[c][i]
                                   ELSE ms[i - Len(written[c])]
    BY <2>1, ConcatProperties
  <2>4. PICK a \in Nat, b \in Nat : a = Len(written[c]) /\ b = Len(ms)
    BY <2>2
  <2>5. \A i \in 1..b : a + i \in 1..(a + b) /\ ~(a + i <= a) /\ (a + i) - a = i
    OBVIOUS
  <2>6. \A i \in 1..a : i \in 1..(a + b) /\ i <= a
    OBVIOUS
  <2> QED BY <2>3, <2>4, <2>5, <2>6
<1> QED BY <1>3, <1>4, <1>5, <1>6

LEMMA StepInit == Init => AnyInv /\ StepInv
BY BoundsAssumption
   DEF Init, AnyInv, KnownUnlessEval, OneAtATime, NumbersAscend, FutureNotRun, StepInv,
       OfThisCall, LastAwaited, EvalRuns, OwnReply, EvalRunsOnce, NoReply, Connections, Calls

\* With nothing late and nothing to read, nothing is on the connection.
LEMMA NothingLeft ==
  ASSUME OwedInv, late = 0
  PROVE  /\ want = 0 => written[conn] = <<>> /\ replies[conn] = <<>>
         /\ want # 0 => written[conn] # <<>> \/ replies[conn] # <<>>
         /\ want = 1 => \/ written[conn] = <<>> /\ Len(replies[conn]) = 1
                        \/ replies[conn] = <<>> /\ Len(written[conn]) = 1
<1>1. /\ Len(written[conn]) \in Nat /\ Len(replies[conn]) \in Nat
      /\ Len(written[conn]) + Len(replies[conn]) = want
  BY DEF OwedInv, Msgs, RepliesOwed
<1>2. written[conn] \in Msgs /\ replies[conn] \in Seq(Replies)
  BY DEF OwedInv
<1>3. /\ written[conn] = <<>> <=> Len(written[conn]) = 0
      /\ replies[conn] = <<>> <=> Len(replies[conn]) = 0
  BY <1>2 DEF Msgs
<1>4. PICK w \in Nat, q \in Nat : w = Len(written[conn]) /\ q = Len(replies[conn])
  BY <1>1
<1>5. /\ w + q = 0 => w = 0 /\ q = 0
      /\ w + q = 1 => (w = 0 /\ q = 1) \/ (q = 0 /\ w = 1)
      /\ w + q # 0 => w # 0 \/ q # 0
  OBVIOUS
<1>6. w + q = want /\ (written[conn] = <<>> <=> w = 0) /\ (replies[conn] = <<>> <=> q = 0)
  BY <1>1, <1>3, <1>4
<1>7. want = 0 => written[conn] = <<>> /\ replies[conn] = <<>> BY <1>5, <1>6
<1>8. want # 0 => written[conn] # <<>> \/ replies[conn] # <<>> BY <1>5, <1>6
<1>9. want = 1 => \/ written[conn] = <<>> /\ Len(replies[conn]) = 1
                  \/ replies[conn] = <<>> /\ Len(written[conn]) = 1
  BY <1>4, <1>5, <1>6
<1> QED BY <1>7, <1>8, <1>9

\* A call that begins puts its commands on a connection on which, unless a reply
\* was late, there is nothing else.
LEMMA StepOpens ==
  ASSUME OwedInv, AnyInv, StepInv,
         NEW c \in Connections, NEW cs \in Seq(Commands), NEW next \in Ops, NEW count \in Nat,
         op = "idle", call' = call + 1, call' \in Calls, Write(c, call + 1, cs, next, count),
         cs # <<>>, cs[Len(cs)] = next, next \notin {"idle", "load", "again"},
         count = 1 \/ next = "exec",
         conn' = c, UNCHANGED <<replies, ran, result, loaded>>,
         \/ c = conn /\ late' = late
         \/ c # conn /\ written[c] = <<>> /\ replies[c] = <<>>
  PROVE  AnyInv' /\ StepInv'
<1>1. /\ call \in Nat /\ call + 1 \in Calls /\ call + 1 > call /\ conn \in Connections
      /\ written \in [Connections -> Msgs] /\ replies \in [Connections -> Seq(Replies)]
      /\ want = 0
  BY BoundsAssumption DEF OwedInv, Calls
<1>2. /\ \A i \in 1..Len(written[c]) : written'[c][i] = written[c][i]
      /\ \A i \in 1..Len(cs) : written'[c][Len(written[c]) + i] = [call |-> call + 1, to |-> cs[i]]
  BY <1>1, WriteElements
<1>3. /\ written' \in [Connections -> Msgs]
      /\ Len(written'[c]) = Len(written[c]) + Len(cs)
      /\ \A d \in Connections \ {c} : written'[d] = written[d]
      /\ op' = next /\ want' = count
  BY <1>1, WriteAdds
<1>4. PICK a \in Nat, b \in Nat \ {0} : a = Len(written[c]) /\ b = Len(cs)
  BY <1>1 DEF Msgs
<1>5. \A i \in 1..(a + b) : i \in 1..a \/ \E j \in 1..b : i = a + j
  <2> SUFFICES ASSUME NEW i \in 1..(a + b), i \notin 1..a PROVE \E j \in 1..b : i = a + j
    OBVIOUS
  <2>1. i - a \in 1..b /\ i = a + (i - a) OBVIOUS
  <2> QED BY <2>1
<1>6. ASSUME NEW d \in Connections, NEW i \in 1..Len(written'[d])
      PROVE  /\ written'[d][i].call <= call + 1
             /\ d # c => written'[d][i].call < call + 1
  <2>1. \A e \in Connections : \A k \in 1..Len(written[e]) : written[e][k].call \in Nat
    <3> SUFFICES ASSUME NEW e \in Connections, NEW k \in 1..Len(written[e])
                 PROVE  written[e][k].call \in Nat
      OBVIOUS
    <3>1. written[e] \in Msgs BY <1>1
    <3> QED BY <3>1, MsgElements, BoundsAssumption DEF Calls
  <2>2. \A e \in Connections : \A k \in 1..Len(written[e]) : written[e][k].call < call + 1
    BY <1>1, <2>1 DEF AnyInv, NumbersAscend
  <2>3. CASE d # c
    BY <1>1, <1>3, <2>1, <2>2, <2>3
  <2>4. CASE d = c /\ i \in 1..a
    BY <1>1, <1>2, <1>4, <2>1, <2>2, <2>4
  <2>5. CASE d = c /\ i \notin 1..a
    <3>0. i \in 1..(a + b) BY <1>3, <1>4, <2>5
    <3>1. PICK j \in 1..b : i = a + j BY <1>5, <2>5, <3>0
    <3>2. written'[d][i] = [call |-> call + 1, to |-> cs[j]] BY <1>2, <1>4, <2>5, <3>1
    <3> QED BY <1>1, <2>5, <3>2
  <2> QED BY <2>3, <2>4, <2>5
<1>7. NumbersAscend' BY <1>6 DEF NumbersAscend
<1>8. KnownUnlessEval' /\ OneAtATime' /\ FutureNotRun'
  BY <1>1, <1>3 DEF AnyInv, KnownUnlessEval, OneAtATime, FutureNotRun, Calls
<1>9. ASSUME late' = 0
      PROVE  a = 0 /\ replies[c] = <<>> /\ written'[c] # <<>>
  <2>1. written[c] = <<>> /\ replies[c] = <<>>
    BY <1>1, <1>9, NothingLeft
  <2>2. a = 0 BY <1>4, <2>1
  <2>3. Len(written'[c]) # 0 BY <1>3, <1>4, <2>2
  <2> QED BY <2>1, <2>2, <2>3
<1>10. OfThisCall'
  BY <1>1, <1>2, <1>3, <1>4, <1>9 DEF OfThisCall
<1>11. LastAwaited'
  BY <1>1, <1>2, <1>3, <1>4, <1>9 DEF LastAwaited, Awaited
<1>12. EvalRuns'
  BY <1>1, <1>3, <1>9 DEF EvalRuns, AnyInv, FutureNotRun
<1>13. OwnReply' /\ EvalRunsOnce'
  BY <1>3 DEF OwnReply, EvalRunsOnce
<1> QED BY <1>7, <1>8, <1>10, <1>11, <1>12, <1>13 DEF AnyInv, StepInv

LEMMA StepBegin ==
  ASSUME OwedInv, AnyInv, StepInv, NEW next \in {"single", "evalsha"}, Begin(next)
  PROVE  AnyInv' /\ StepInv'
<1> DEFINE cs == <<next>>
<1>1. cs \in Seq(Commands) /\ cs # <<>> /\ Len(cs) = 1 /\ cs[Len(cs)] = next
  BY DEF Commands
<1>2. /\ op = "idle" /\ call' = call + 1 /\ Write(conn, call + 1, cs, next, 1)
      /\ conn' = conn /\ UNCHANGED <<replies, ran, result, loaded>> /\ late' = late
  BY DEF Begin, BeginCall, historyVars
<1>3. call' \in Calls /\ conn \in Connections /\ next \in Ops /\ 1 \in Nat
  BY <1>2, BoundsAssumption DEF Begin, BeginCall, OwedInv, Calls, Ops
<1>4. next \notin {"idle", "load", "again"} OBVIOUS
<1> HIDE DEF cs
<1> QED BY <1>1, <1>2, <1>3, <1>4, StepOpens

LEMMA StepExec == ASSUME OwedInv, AnyInv, StepInv, Exec PROVE AnyInv' /\ StepInv'
<1>1. stack \in Seq(Commands) /\ stack # <<>> /\ "exec" \in Commands /\ stack' = Append(stack, "exec")
  BY DEF OwedInv, Exec, Commands
<1>2. stack' \in Seq(Commands) /\ stack' # <<>> /\ stack'[Len(stack')] = "exec"
  BY <1>1
<1>3. /\ op = "idle" /\ call' = call + 1 /\ Write(conn, call + 1, stack', "exec", counter')
      /\ conn' = conn /\ UNCHANGED <<replies, ran, result, loaded>> /\ late' = late
  BY DEF Exec, BeginCall, historyVars
<1>4. call' \in Calls /\ conn \in Connections /\ "exec" \in Ops /\ counter' \in Nat
  BY <1>3, BoundsAssumption DEF Exec, BeginCall, OwedInv, Calls, Ops
<1> QED BY <1>2, <1>3, <1>4, StepOpens

LEMMA StepReconnect == ASSUME OwedInv, AnyInv, StepInv, Reconnect PROVE AnyInv' /\ StepInv'
<1> DEFINE cs == <<"auth">>
<1>1. cs \in Seq(Commands) /\ cs # <<>> /\ Len(cs) = 1 /\ cs[Len(cs)] = "auth"
  BY DEF Commands
<1>2. /\ op = "idle" /\ call' = call + 1 /\ Write(conn', call + 1, cs, "auth", 1)
      /\ UNCHANGED <<replies, ran, result, loaded>>
  BY DEF Reconnect, BeginCall
<1>3. /\ call' \in Calls /\ conn' \in Connections /\ conn' > conn /\ "auth" \in Ops /\ 1 \in Nat
      /\ conn' # conn
  BY <1>2, BoundsAssumption DEF Reconnect, BeginCall, OwedInv, Calls, Connections, Ops
<1>4. written[conn'] = <<>> /\ replies[conn'] = <<>>
  BY <1>3 DEF OwedInv
<1> HIDE DEF cs
<1> QED BY <1>1, <1>2, <1>3, <1>4, StepOpens

\* Steps that change nothing the invariants speak of but the block, and what
\* other clients load or flush.
LEMMA StepRest ==
  ASSUME AnyInv, StepInv,
         UNCHANGED <<call, op, want, result, conn, written, replies, late, ran>>,
         LoadedOrForgot => LoadedOrForgot', forgot => forgot'
  PROVE  AnyInv' /\ StepInv'
<1>1. AnyInv'
  BY DEF AnyInv, KnownUnlessEval, OneAtATime, NumbersAscend, FutureNotRun
<1>2. StepInv'
  BY DEF StepInv, OfThisCall, LastAwaited, Awaited, EvalRuns, RunsOf, OwnReply, EvalRunsOnce
<1> QED BY <1>1, <1>2

\* A reply that is not the last of its call, and one that is late.
LEMMA AnyTake ==
  ASSUME OwedInv, AnyInv, want > 0, NEW r, Take(r),
         \/ replies' = [replies EXCEPT ![conn] = Tail(@)] /\ replies[conn] # <<>>
         \/ replies' = replies
  PROVE  AnyInv'
<1>0. /\ call \in Nat /\ conn \in Connections /\ call \in Calls
      /\ written \in [Connections -> Msgs] /\ replies \in [Connections -> Seq(Replies)]
      /\ UNCHANGED <<call, conn, ran>>
  BY BoundsAssumption DEF OwedInv, Calls, Take
<1>1. FutureNotRun' BY <1>0 DEF AnyInv, FutureNotRun
<1>2. KnownUnlessEval'
  <2>1. CASE replies' = replies BY <2>1 DEF AnyInv, KnownUnlessEval
  <2>2. CASE replies' = [replies EXCEPT ![conn] = Tail(@)] /\ replies[conn] # <<>>
    <3>1. \A i \in 1..Len(Tail(replies[conn])) :
             i + 1 \in 1..Len(replies[conn]) /\ Tail(replies[conn])[i] = replies[conn][i + 1]
      <4>1. replies[conn] \in Seq(Replies) /\ replies[conn] # <<>> BY <1>0, <2>2
      <4> QED BY <4>1, TailElements
    <3>2. \A d \in Connections \ {conn} : replies'[d] = replies[d] BY <1>0, <2>2
    <3>3. replies'[conn] = Tail(replies[conn]) BY <1>0, <2>2
    <3> SUFFICES ASSUME NEW d \in Connections, NEW i \in 1..Len(replies'[d]),
                        replies'[d][i].to # "evalsha"
                 PROVE  replies'[d][i].known
      BY DEF KnownUnlessEval
    <3>4. CASE d = conn
      <4>1. i \in 1..Len(Tail(replies[conn])) /\ replies'[d][i] = Tail(replies[conn])[i]
        BY <3>3, <3>4
      <4>2. i + 1 \in 1..Len(replies[conn]) /\ replies'[d][i] = replies[conn][i + 1]
        BY <3>1, <4>1
      <4>3. KnownUnlessEval BY DEF AnyInv
      <4> QED BY <1>0, <4>2, <4>3 DEF KnownUnlessEval
    <3>5. CASE d # conn BY <3>2, <3>5 DEF AnyInv, KnownUnlessEval
    <3> QED BY <3>4, <3>5
  <2> QED BY <2>1, <2>2
<1>3. CASE want > 1
  <2>1. UNCHANGED <<op, written>> /\ want' = want - 1 BY <1>3 DEF Take
  <2>2. NumbersAscend' BY <1>0, <2>1 DEF AnyInv, NumbersAscend
  <2>3. OneAtATime' BY <1>3, <2>1 DEF AnyInv, OneAtATime, OwedInv
  <2> QED BY <1>1, <1>2, <2>2, <2>3 DEF AnyInv
<1>4. CASE ~(want > 1)
  <2>1. Proceed(r) BY <1>4 DEF Take
  <2>2. \/ UNCHANGED written /\ want' = 0 /\ op' = "idle"
        \/ \E k \in Commands, next \in Ops : Write(conn, call, <<k>>, next, 1)
    BY <2>1 DEF Proceed, Finish, Commands, Ops
  <2>3. OneAtATime' BY <2>2 DEF OneAtATime, Write
  <2>4. NumbersAscend'
    <3>1. CASE UNCHANGED written BY <1>0, <3>1 DEF AnyInv, NumbersAscend
    <3>2. ASSUME NEW k \in Commands, NEW next \in Ops, Write(conn, call, <<k>>, next, 1)
          PROVE  NumbersAscend'
      <4> DEFINE cs == <<k>>
      <4>1. cs \in Seq(Commands) /\ Len(cs) = 1 /\ 1 \in Nat OBVIOUS
      <4>2. Write(conn, call, cs, next, 1) BY <3>2
      <4> HIDE DEF cs
      <4>3. /\ \A i \in 1..Len(written[conn]) : written'[conn][i] = written[conn][i]
            /\ \A i \in 1..Len(cs) : written'[conn][Len(written[conn]) + i] = [call |-> call, to |-> cs[i]]
        BY <1>0, <4>1, <4>2, WriteElements
      <4>4. /\ Len(written'[conn]) = Len(written[conn]) + Len(cs)
            /\ \A d \in Connections \ {conn} : written'[d] = written[d]
        BY <1>0, <4>1, <4>2, WriteAdds
      <4>5. PICK a \in Nat : a = Len(written[conn]) BY <1>0 DEF Msgs
      <4>6. \A i \in 1..(a + 1) : i \in 1..a \/ i = a + 1 OBVIOUS
      <4>7. written'[conn][a + 1].call = call /\ Len(written'[conn]) = a + 1
        BY <4>1, <4>3, <4>4, <4>5
      <4>8. \A i \in 1..Len(written'[conn]) : written'[conn][i].call <= call
        BY <1>0, <4>3, <4>5, <4>6, <4>7 DEF AnyInv, NumbersAscend
      <4> QED BY <1>0, <4>4, <4>8 DEF AnyInv, NumbersAscend
    <3> QED BY <2>2, <3>1, <3>2
  <2> QED BY <1>1, <1>2, <2>3, <2>4 DEF AnyInv
<1> QED BY <1>3, <1>4

\* After a timeout on the connection nothing is promised.
LEMMA StepLate == ASSUME late' # 0 PROVE StepInv'
BY DEF StepInv, OfThisCall, LastAwaited, EvalRuns, OwnReply, EvalRunsOnce

LEMMA StepTimeout == ASSUME OwedInv, AnyInv, StepInv, Timeout PROVE AnyInv' /\ StepInv'
<1>1. want > 0 /\ Take(NoReply) /\ replies' = replies /\ late' = late + 1
  BY DEF Timeout
<1>2. late' # 0 BY <1>1 DEF OwedInv
<1> QED BY <1>1, <1>2, AnyTake, StepLate

\* The last reply of a call that is in step is that to the command it waits for:
\* the call goes on to its next command, or returns this reply.
LEMMA StepReadLast ==
  ASSUME OwedInv, Rest, AnyInv, StepInv, late = 0, want = 1, ReadReply
  PROVE  StepInv'
<1> DEFINE r == Head(replies[conn])
<1>1. /\ conn \in Connections /\ call \in Calls /\ op # "idle" /\ op \in Ops
      /\ written \in [Connections -> Msgs] /\ replies \in [Connections -> Seq(Replies)]
  BY DEF OwedInv
<1>2. /\ replies[conn] # <<>> /\ replies' = [replies EXCEPT ![conn] = Tail(@)]
      /\ Take(r) /\ late' = late
  BY DEF ReadReply
<1>3. written[conn] = <<>> /\ Len(replies[conn]) = 1
  BY <1>2, NothingLeft
<1>4. /\ r = replies[conn][1] /\ r \in Replies
      /\ replies'[conn] = <<>>
  <2>1. /\ replies[conn] \in Seq(Replies) /\ Len(Tail(replies[conn])) = 0
        /\ Tail(replies[conn]) \in Seq(Replies)
    BY <1>1, <1>2, <1>3, TailElements
  <2>2. Tail(replies[conn]) = <<>> BY <2>1, EmptySeq
  <2>3. replies[conn] \in Seq(Replies) /\ replies[conn] # <<>> BY <1>1, <1>2
  <2>4. r = replies[conn][1] /\ r \in Replies BY <2>3, TailElements
  <2> QED BY <1>1, <1>2, <2>2, <2>4
<1> HIDE DEF r
<1>5. r.call = call /\ r.to = Awaited /\ (r.to # "evalsha" => r.known)
  <2>1. 1 \in 1..Len(replies[conn]) BY <1>3
  <2>2. r.call = call BY <1>1, <1>4, <2>1 DEF StepInv, OfThisCall
  <2>3. r.to = Awaited BY <1>1, <1>3, <1>4 DEF StepInv, LastAwaited
  <2>4. r.to # "evalsha" => r.known BY <1>1, <1>4, <2>1 DEF AnyInv, KnownUnlessEval
  <2> QED BY <2>2, <2>3, <2>4
<1>6. /\ op \in {"evalsha", "again"} => ran[call] = RunsOf(r)
      /\ op = "load" => ran[call] = 0 /\ LoadedOrForgot
      /\ op = "again" => r.known \/ forgot
  BY <1>2, <1>4 DEF StepInv, EvalRuns
<1>7. /\ Proceed(r) /\ UNCHANGED <<call, conn, loaded, ran, forgot>> /\ result' = r
  BY <1>2 DEF Take
<1>8. CASE Finish /\ op \notin {"auth", "load"} /\ ~(op = "evalsha" /\ ~r.known)
  <2>1. op' = "idle" BY <1>8 DEF Finish
  <2>2. OfThisCall' /\ LastAwaited' /\ EvalRuns' BY <2>1 DEF OfThisCall, LastAwaited, EvalRuns
  <2>3. OwnReply'
    BY <1>1, <1>5, <1>6, <1>7, <1>8 DEF OwnReply, Awaited, Ops
  <2>4. EvalRunsOnce'
    BY <1>1, <1>5, <1>6, <1>7, <1>8 DEF EvalRunsOnce, Awaited, Ops, RunsOf
  <2> QED BY <2>2, <2>3, <2>4 DEF StepInv
<1>9. ASSUME NEW k \in Commands, NEW next \in Ops \ {"idle"}, Write(conn, call, <<k>>, next, 1),
             k = IF next = "again" THEN "evalsha" ELSE next,
             next \in {"load", "again"} => ran[call] = 0,
             next = "again" => LoadedOrForgot,
             next # "evalsha"
      PROVE  StepInv'
  <2> DEFINE cs == <<k>>
  <2>1. cs \in Seq(Commands) /\ Len(cs) = 1 /\ cs[1] = k /\ 1 \in Nat OBVIOUS
  <2>2. Write(conn, call, cs, next, 1) BY <1>9
  <2> HIDE DEF cs
  <2>3. \A i \in 1..Len(cs) :
          written'[conn][Len(written[conn]) + i] = [call |-> call, to |-> cs[i]]
    BY <1>1, <2>1, <2>2, WriteElements
  <2>4. /\ Len(written'[conn]) = Len(written[conn]) + Len(cs)
        /\ written' \in [Connections -> Msgs]
        /\ op' = next
    BY <1>1, <2>1, <2>2, WriteAdds
  <2>5. 1 \in 1..Len(cs) BY <2>1
  <2>6. Len(written[conn]) = 0 BY <1>3
  <2>7. Len(written'[conn]) = 1 /\ written'[conn][1] = [call |-> call, to |-> k]
    BY <2>1, <2>3, <2>4, <2>5, <2>6
  <2>8. written'[conn] # <<>> BY <2>7
  <2>9. conn' = conn /\ call' = call BY <1>7
  <2>10. OfThisCall' BY <1>4, <2>7, <2>9 DEF OfThisCall
  <2>11. LastAwaited' BY <1>9, <2>4, <2>7, <2>8, <2>9 DEF LastAwaited, Awaited
  <2>12. EvalRuns' BY <1>4, <1>7, <1>9, <2>4 DEF EvalRuns, LoadedOrForgot
  <2>13. OwnReply' /\ EvalRunsOnce' BY <2>4 DEF OwnReply, EvalRunsOnce
  <2> QED BY <2>10, <2>11, <2>12, <2>13 DEF StepInv
<1>10. CASE op = "auth"
  <2>1. Write(conn, call, <<"select">>, "select", 1) BY <1>7, <1>10 DEF Proceed
  <2> QED BY <1>9, <2>1 DEF Commands, Ops
<1>11. CASE op = "evalsha" /\ ~r.known
  <2>1. Write(conn, call, <<"load">>, "load", 1) BY <1>7, <1>11 DEF Proceed
  <2>2. ran[call] = 0 BY <1>6, <1>11 DEF RunsOf
  <2> QED BY <1>9, <2>1, <2>2 DEF Commands, Ops
<1>12. CASE op = "load"
  <2>1. r.to = "load" BY <1>5, <1>12 DEF Awaited
  <2>2. Write(conn, call, <<"evalsha">>, "again", 1) BY <1>7, <1>12, <2>1 DEF Proceed
  <2> QED BY <1>6, <1>9, <1>12, <2>2 DEF Commands, Ops
<1>13. op \notin {"auth", "load"} /\ ~(op = "evalsha" /\ ~r.known) => Finish
  BY <1>7 DEF Proceed
<1> QED BY <1>8, <1>10, <1>11, <1>12, <1>13

LEMMA StepReadReply ==
  ASSUME OwedInv, Rest, AnyInv, StepInv, ReadReply PROVE AnyInv' /\ StepInv'
<1> DEFINE r == Head(replies[conn])
<1>1. /\ conn \in Connections /\ written \in [Connections -> Msgs] /\ want \in Nat
      /\ replies \in [Connections -> Seq(Replies)]
  BY DEF OwedInv
<1>2. /\ want > 0 /\ replies[conn] # <<>> /\ replies' = [replies EXCEPT ![conn] = Tail(@)]
      /\ Take(r) /\ late' = late
  BY DEF ReadReply
<1>3. AnyInv' BY <1>2, AnyTake
<1>4. CASE late # 0 BY <1>2, <1>3, <1>4, StepLate
<1>5. CASE late = 0 /\ want = 1 BY <1>3, <1>5, StepReadLast
<1>6. CASE late = 0 /\ want # 1
  <2>1. want > 1 BY <1>1, <1>2, <1>6
  <2>2. op = "exec" BY <1>1, <1>2, <1>6 DEF AnyInv, OneAtATime, OwedInv
  <2>3. UNCHANGED <<op, written, call, conn>> BY <1>2, <2>1 DEF Take
  <2>4. /\ Tail(replies[conn]) = replies'[conn]
        /\ Len(replies'[conn]) = Len(replies[conn]) - 1 /\ Len(replies[conn]) \in Nat
        /\ \A i \in 1..Len(replies'[conn]) :
             i + 1 \in 1..Len(replies[conn]) /\ replies'[conn][i] = replies[conn][i + 1]
    <3>1. replies[conn] \in Seq(Replies) BY <1>1
    <3>2. replies'[conn] = Tail(replies[conn]) BY <1>1, <1>2
    <3> QED BY <1>2, <3>1, <3>2, TailElements
  <2>5. OfThisCall' BY <1>6, <2>2, <2>3, <2>4 DEF StepInv, OfThisCall
  <2>6. LastAwaited'
    <3>1. CASE written[conn] # <<>> BY <1>6, <2>2, <2>3, <3>1 DEF StepInv, LastAwaited, Awaited
    <3>2. CASE written[conn] = <<>>
      <4>1. Len(replies[conn]) = want
        BY <1>1, <1>6, <2>4, <3>2 DEF OwedInv, RepliesOwed
      <4>2. Len(replies'[conn]) \in 1..Len(replies'[conn])
        BY <1>1, <2>1, <2>4, <4>1
      <4>3. replies'[conn][Len(replies'[conn])] = replies[conn][Len(replies[conn])]
        BY <2>4, <4>2
      <4> QED BY <1>6, <2>2, <2>3, <3>2, <4>3 DEF StepInv, LastAwaited, Awaited
    <3> QED BY <3>1, <3>2
  <2>7. EvalRuns' /\ OwnReply' /\ EvalRunsOnce'
    BY <2>2, <2>3 DEF EvalRuns, OwnReply, EvalRunsOnce
  <2> QED BY <1>3, <2>5, <2>6, <2>7 DEF StepInv
<1> QED BY <1>4, <1>5, <1>6

LEMMA StepCarryOut ==
  ASSUME OwedInv, Rest, AnyInv, StepInv, NEW c \in Connections, CarryOut(c)
  PROVE  AnyInv' /\ StepInv'
<1> DEFINE m == Head(written[c])
           k == m.to = "evalsha" => loaded
           r == [call |-> m.call, to |-> m.to, known |-> k]
<1>1. /\ conn \in Connections /\ call \in Nat /\ call \in Calls /\ want \in Nat
      /\ written \in [Connections -> Msgs] /\ replies \in [Connections -> Seq(Replies)]
      /\ late \in Nat /\ (want = 0 <=> op = "idle")
  BY BoundsAssumption DEF OwedInv, Calls
<1>2. /\ written[c] # <<>>
      /\ written' = [written EXCEPT ![c] = Tail(@)]
      /\ replies' = [replies EXCEPT ![c] = Append(@, r)]
      /\ loaded' = (loaded \/ m.to = "load")
      /\ ran' = IF m.to = "evalsha" /\ loaded THEN [ran EXCEPT ![m.call] = @ + 1] ELSE ran
      /\ UNCHANGED <<call, op, want, result, conn, late, forgot>>
  BY DEF CarryOut, clientVars
<1>3. /\ Len(written[c]) \in Nat \ {0} /\ Len(Tail(written[c])) = Len(written[c]) - 1
      /\ m = written[c][1]
      /\ \A i \in 1..Len(Tail(written[c])) :
           i + 1 \in 1..Len(written[c]) /\ Tail(written[c])[i] = written[c][i + 1]
  <2> DEFINE M == [call : Calls, to : Commands]
  <2>1. written[c] \in Seq(M) BY <1>1 DEF Msgs
  <2> HIDE DEF M
  <2> QED BY <1>2, <2>1, TailElements
<1>4. m.call \in Calls /\ m.to \in Commands /\ 1 \in 1..Len(written[c])
  <2>1. written[c] \in Msgs /\ 1 \in 1..Len(written[c]) BY <1>1, <1>3
  <2> QED BY <1>3, <2>1, MsgElements
<1> HIDE DEF m
<1>5. r \in Replies BY <1>4 DEF Replies
<1>6. r.call = m.call /\ r.to = m.to /\ r.known = k OBVIOUS
<1> HIDE DEF r
<1>7. /\ Len(Append(replies[c], r)) = Len(replies[c]) + 1 /\ Len(replies[c]) \in Nat
      /\ \A i \in 1..Len(replies[c]) : Append(replies[c], r)[i] = replies[c][i]
      /\ Append(replies[c], r)[Len(replies[c]) + 1] = r
      /\ Append(replies[c], r) \in Seq(Replies)
  <2>1. replies[c] \in Seq(Replies) BY <1>1
  <2> QED BY <1>5, <2>1, AppendElements
<1>8. /\ written'[c] = Tail(written[c]) /\ replies'[c] = Append(replies[c], r)
      /\ \A d \in Connections \ {c} : written'[d] = written[d] /\ replies'[d] = replies[d]
  BY <1>1, <1>2
<1>9. /\ Len(written'[c]) = Len(written[c]) - 1
       /\ \A i \in 1..Len(written'[c]) :
            i + 1 \in 1..Len(written[c]) /\ written'[c][i] = written[c][i + 1]
  <2>1. written'[c] = Tail(written[c]) BY <1>8
  <2>2. Len(written'[c]) = Len(Tail(written[c])) BY <2>1
  <2> QED BY <1>3, <2>1, <2>2
<1>10. PICK n \in Nat \ {0} : n = Len(written[c]) /\ n - 1 = Len(written'[c])
  BY <1>3, <1>9
<1>11. \A i \in 1..Len(replies'[c]) : i \in 1..Len(replies[c]) \/ i = Len(replies[c]) + 1
  BY <1>7, <1>8
<1>12. m.call <= call /\ (c # conn => m.call < call)
  BY <1>3, <1>4 DEF AnyInv, NumbersAscend
<1>13. AnyInv'
  <2>1. KnownUnlessEval'
    <3> SUFFICES ASSUME NEW d \in Connections, NEW i \in 1..Len(replies'[d]),
                        replies'[d][i].to # "evalsha"
                 PROVE  replies'[d][i].known
      BY DEF KnownUnlessEval
    <3>1. CASE d # c BY <1>8, <3>1 DEF AnyInv, KnownUnlessEval
    <3>2. CASE d = c /\ i \in 1..Len(replies[c])
      BY <1>7, <1>8, <3>2 DEF AnyInv, KnownUnlessEval
    <3>3. CASE d = c /\ i = Len(replies[c]) + 1
      BY <1>6, <1>7, <1>8, <3>3
    <3> QED BY <1>11, <3>1, <3>2, <3>3
  <2>2. OneAtATime' BY <1>2 DEF AnyInv, OneAtATime
  <2>3. NumbersAscend'
    <3> SUFFICES ASSUME NEW d \in Connections, NEW i \in 1..Len(written'[d])
                 PROVE  /\ written'[d][i].call <= call
                        /\ d # conn => written'[d][i].call < call
      BY <1>2 DEF NumbersAscend
    <3>1. CASE d # c BY <1>8, <3>1 DEF AnyInv, NumbersAscend
    <3>2. CASE d = c
      <4>1. i + 1 \in 1..Len(written[c]) /\ written'[c][i] = written[c][i + 1]
        BY <1>9, <3>2
      <4> QED BY <3>2, <4>1 DEF AnyInv, NumbersAscend
    <3> QED BY <3>1, <3>2
  <2>4. FutureNotRun'
    <3>1. \A later \in Calls : later > call => later # m.call /\ later \in Nat
      BY <1>1, <1>4, <1>12, BoundsAssumption DEF Calls
    <3>2. \A other \in Calls : other # m.call => ran'[other] = ran[other]
      BY <1>2, <1>4 DEF Rest
    <3> QED BY <1>2, <3>1, <3>2 DEF AnyInv, FutureNotRun
  <2> QED BY <2>1, <2>2, <2>3, <2>4 DEF AnyInv
<1>14. CASE late # 0 BY <1>2, <1>13, <1>14, StepLate
<1>15. CASE late = 0 /\ c # conn
  <2>1. m.call # call BY <1>1, <1>4, <1>12, <1>15, BoundsAssumption DEF Calls
  <2>2. ran'[call] = ran[call] BY <1>1, <1>2, <1>4, <2>1 DEF Rest
  <2>3. written'[conn] = written[conn] /\ replies'[conn] = replies[conn]
    BY <1>1, <1>8, <1>15
  <2>4. LoadedOrForgot => LoadedOrForgot' BY <1>2 DEF LoadedOrForgot
  <2>5. OfThisCall' /\ LastAwaited'
    BY <1>2, <2>3 DEF StepInv, OfThisCall, LastAwaited, Awaited
  <2>6. EvalRuns' BY <1>2, <2>2, <2>3, <2>4 DEF StepInv, EvalRuns, RunsOf
  <2>7. OwnReply' /\ EvalRunsOnce' BY <1>2, <2>2 DEF StepInv, OwnReply, EvalRunsOnce
  <2> QED BY <1>13, <2>5, <2>6, <2>7 DEF StepInv
<1>16. CASE late = 0 /\ c = conn
  <2>1. op # "idle" BY <1>1, <1>2, <1>16, NothingLeft
  <2>2. m.call = call BY <1>3, <1>4, <1>16, <2>1 DEF StepInv, OfThisCall
  <2>3. OfThisCall'
    <3>1. \A i \in 1..Len(written'[conn]) : written'[conn][i].call = call
      BY <1>16, <1>9, <2>1 DEF StepInv, OfThisCall
    <3>2. \A i \in 1..Len(replies'[conn]) : replies'[conn][i].call = call
      BY <1>6, <1>7, <1>8, <1>11, <1>16, <2>1, <2>2 DEF StepInv, OfThisCall
    <3> QED BY <1>2, <3>1, <3>2 DEF OfThisCall
  <2>4. written[conn][Len(written[conn])].to = Awaited
    BY <1>2, <1>16, <2>1 DEF StepInv, LastAwaited
  <2>5. LastAwaited'
    <3>1. CASE Len(written[c]) = 1
      <4>1. Len(written'[c]) = 0 /\ written'[c] = <<>>
        <5>1. written[c] \in Seq([call : Calls, to : Commands]) BY <1>1 DEF Msgs
        <5>2. Len(written'[c]) = 0 BY <1>10, <3>1
        <5>3. written' \in [Connections -> Msgs] BY <1>1, <1>2, <1>3, OwedCarryOut DEF OwedInv
        <5>4. written'[c] \in Seq([call : Calls, to : Commands]) BY <5>3 DEF Msgs
        <5> QED BY <5>2, <5>4, EmptySeq
      <4>2. replies'[c][Len(replies'[c])].to = m.to BY <1>6, <1>7, <1>8
      <4>3. m.to = Awaited BY <1>3, <1>16, <2>4, <3>1
      <4> QED BY <1>2, <1>16, <4>1, <4>2, <4>3 DEF LastAwaited, Awaited
    <3>2. CASE Len(written[c]) # 1
      <4>1. n # 1 BY <1>10, <3>2
      <4>2. n - 1 # 0 /\ n - 1 \in 1..(n - 1) /\ (n - 1) + 1 = n BY <4>1
      <4>3. written'[c] # <<>> BY <1>10, <4>2
      <4>4. Len(written'[c]) \in 1..Len(written'[c]) /\ Len(written'[c]) + 1 = Len(written[c])
        BY <1>10, <4>2
      <4>5. written'[c][Len(written'[c])] = written[c][Len(written[c])] BY <1>9, <4>4
      <4> QED BY <1>2, <1>16, <2>4, <4>3, <4>5 DEF LastAwaited, Awaited
    <3> QED BY <3>1, <3>2
  <2>6. EvalRuns'
    <3>1. CASE op \notin {"evalsha", "load", "again"} BY <1>2, <3>1 DEF EvalRuns
    <3>2. CASE op \in {"evalsha", "load", "again"}
      <4>1. want = 1 BY <3>2 DEF AnyInv, OneAtATime
      <4>2. replies[conn] = <<>> /\ Len(written[conn]) = 1 /\ Len(replies[conn]) = 0
        BY <1>2, <1>16, <4>1, NothingLeft
      <4>3. m.to = Awaited BY <1>3, <1>16, <2>4, <4>2
      <4>4. replies'[conn][1] = r /\ replies'[conn] # <<>> BY <1>7, <1>8, <1>16, <4>2
      <4>5. CASE op = "load"
        <5>1. m.to = "load" BY <4>3, <4>5 DEF Awaited
        <5> QED BY <1>2, <1>16, <4>5, <5>1 DEF StepInv, EvalRuns, LoadedOrForgot
      <4>6. CASE op \in {"evalsha", "again"}
        <5>1. m.to = "evalsha" BY <4>3, <4>6 DEF Awaited
        <5>2. ran[call] = 0 BY <1>16, <4>2, <4>6 DEF StepInv, EvalRuns
        <5>3. loaded \in BOOLEAN /\ (r.known <=> loaded) BY <1>6, <5>1 DEF Rest
        <5>4. ran'[call] = IF loaded THEN 1 ELSE 0 BY <1>1, <1>2, <2>2, <5>1, <5>2 DEF Rest
        <5>5. op = "again" => LoadedOrForgot' /\ (r.known \/ forgot')
          BY <1>2, <1>16, <5>3 DEF StepInv, EvalRuns, LoadedOrForgot
        <5>6. ran'[call] = RunsOf(r) BY <5>3, <5>4 DEF RunsOf
        <5> QED BY <1>2, <4>4, <4>6, <5>3, <5>5, <5>6 DEF EvalRuns, RunsOf
      <4> QED BY <3>2, <4>5, <4>6
    <3> QED BY <3>1, <3>2
  <2>7. OwnReply' /\ EvalRunsOnce' BY <1>2, <2>1 DEF OwnReply, EvalRunsOnce
  <2> QED BY <1>13, <2>3, <2>5, <2>6, <2>7 DEF StepInv
<1> QED BY <1>14, <1>15, <1>16

LEMMA StepNext == OwedInv /\ Rest /\ AnyInv /\ StepInv /\ [Next]_vars => AnyInv' /\ StepInv'
<1> SUFFICES ASSUME OwedInv, Rest, AnyInv, StepInv, [Next]_vars PROVE AnyInv' /\ StepInv'
  OBVIOUS
<1>1. CASE Begin("single") \/ Begin("evalsha") BY <1>1, StepBegin
<1>2. CASE Multi \/ Queue
  BY <1>2, StepRest DEF Multi, Queue, LoadedOrForgot, redisVars, historyVars
<1>3. CASE Exec BY <1>3, StepExec
<1>4. CASE Reconnect BY <1>4, StepReconnect
<1>5. CASE ReadReply BY <1>5, StepReadReply
<1>6. CASE Timeout BY <1>6, StepTimeout
<1>7. CASE \E c \in Connections : CarryOut(c) BY <1>7, StepCarryOut
<1>8. CASE OtherLoads \/ OtherFlushes
  BY <1>8, StepRest DEF OtherLoads, OtherFlushes, LoadedOrForgot, clientVars, historyVars
<1>9. CASE UNCHANGED vars
  BY <1>9, StepRest DEF vars, LoadedOrForgot, clientVars, redisVars, historyVars
<1> QED BY <1>1, <1>2, <1>3, <1>4, <1>5, <1>6, <1>7, <1>8, <1>9 DEF Next

LEMMA InStep == Spec => [](OwedInv /\ Rest /\ AnyInv /\ StepInv)
BY OwedInit, OwedNext, RestInit, RestNext, StepInit, StepNext, PTL DEF Spec

\* On a connection without a timeout every call of the session, blocks and evaluated
\* scripts included, returns the reply to its own last command.
THEOREM RepliesAreOwn == Spec => []OwnReply
BY InStep, PTL DEF StepInv

\* Without a timeout eval, which tries EVALSHA and loads the script only after
\* NOSCRIPT, runs the script once for the call, whatever other clients load and
\* flush; only when the script was flushed during the call may it return NOSCRIPT,
\* and then it has not run the script.
THEOREM ScriptRunsOnce == Spec => []EvalRunsOnce
BY InStep, PTL DEF StepInv
=============================================================================
