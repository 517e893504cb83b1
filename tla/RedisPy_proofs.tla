--------------------------- MODULE RedisPy_proofs ---------------------------
(***************************************************************************)
(* Theorems about RedisPy for any number of sockets, transactions,         *)
(* requests, channels, faults and increments by others.                    *)
(*                                                                         *)
(* Every socket but the current one is silent, and has nothing left to be  *)
(* carried out but requests that write (Apart).  A pipeline that waits for *)
(* replies has on its socket what it asked, and the answers to that        *)
(* (InTurn), so that one that releases the connection leaves it plain      *)
(* (Plain), and one that returns has been carried out (Confirmed).  An     *)
(* EXEC is alone on its socket and finds the number it was computed from,  *)
(* or a watch that knows of the change (Guarded).  The subscriptions that  *)
(* the current socket will have, once Redis has carried out what is on it, *)
(* are wanted and known ones (Known).                                      *)
(***************************************************************************)
EXTENDS RedisPy, TLAPS, WellFoundedInduction

Operations == {"PING", "GET", "WATCH", "UNWATCH", "EXEC", "INCR", "NIL", "SUBSCRIBE", "UNSUBSCRIBE"}
Requests == [op : Operations, n : Nat, ch : SUBSET Channels]

Calls == [at : CallSteps, send : Seq(Requests), check : BOOLEAN, want : Nat, got : Seq(Requests)]
Pipes == [at : PipeSteps, mode : Modes, watching : BOOLEAN, retried : BOOLEAN,
          after : {"return", "retry", "raise"}]
PubSubs == [at : PubSubSteps, of : SUBSET Channels, block : BOOLEAN, retried : BOOLEAN]
Marks == {"no", "clean", "dirty"}

SocketTypes ==
  /\ sock \in Sockets \cup {NoSock} /\ up \in BOOLEAN
  /\ inbox \in [Sockets -> Seq(Requests)] /\ outbox \in [Sockets -> Seq(Requests)]
  /\ watch \in [Sockets -> Marks] /\ subs \subseteq Channels
UserTypes ==
  /\ conf \in Configurations
  /\ call \in Calls /\ pipe \in Pipes /\ pubsub \in PubSubs
  /\ channels \cup pending \cup wanted \subseteq Channels /\ callback \in BOOLEAN
  /\ {x, writes, executed, returned} \subseteq Nat

Every(s, T) == \A i \in 1..Len(s) : s[i] \in T

Changes == {r \in Requests : Writes(r)}
Topics == {r \in Requests : r.op \in {"PING", "SUBSCRIBE", "UNSUBSCRIBE"}}

Apart ==
  /\ \A s \in Sockets \ {sock} :
       outbox[s] = <<>> /\ Every(inbox[s], Changes) /\ (inbox[s] = <<>> => watch[s] = "no")
  /\ ~up => subs = {} /\ (sock # NoSock => inbox[sock] = <<>> /\ watch[sock] = "no")
  /\ up => sock # NoSock

SocketInv == SocketTypes /\ Apart

-----------------------------------------------------------------------------
Quiet == sock # NoSock => inbox[sock] = <<>> /\ outbox[sock] = <<>>
Waiting == pipe.at \in {"watch", "get", "exec", "unwatch"}

\* Requests like the first that the call sends, and the answers to it.
Asked == {call.send[1]}
Answers ==
  {a \in Requests :
     \/ a = call.send[1]
     \/ a.op = "GET" /\ call.send[1].op = "GET"
     \/ a.op = "NIL" /\ call.send[1].op = "EXEC"}

\* What a pipeline sends at its steps.
Sends ==
  /\ Len(call.send) \in {1, 2} /\ Every(call.send, Asked)
  /\ pipe.at = "watch" => call.send[1].op = "WATCH" /\ ~pipe.watching
  /\ pipe.at = "get" => call.send[1].op = "GET" /\ pipe.watching
  /\ pipe.at = "unwatch" => call.send[1].op = "UNWATCH" /\ pipe.watching
  /\ pipe.at = "exec" =>
       IF pipe.watching THEN Len(call.send) = 1 /\ call.send[1].op = "EXEC"
       ELSE call.send[1].op = "INCR"

InTurn ==
  /\ call.at \in {"pong", "pong2", "write", "read", "ok"} => sock # NoSock
  /\ call.at \in Errors => sock = NoSock
  /\ pubsub.at = "closed" =>
       /\ ~Waiting => call = NoCall /\ Quiet
       /\ Waiting =>
            /\ Sends
            /\ call.at # "idle"
            /\ call.at \in {"send", "again", "write", "ok"} => Quiet
            /\ call.at \in {"send", "again", "pong", "pong2", "write"} =>
                 call.got = <<>> /\ call.want = Len(call.send)
            /\ call.at \in {"pong", "pong2"} =>
                 Len(inbox[sock]) + Len(outbox[sock]) <= 1 /\ inbox[sock] \in {<<>>, <<Ping>>}
            /\ call.at \in {"read", "ok"} =>
                 Len(call.got) + call.want = Len(call.send) /\ Every(call.got, Answers)
            /\ call.at = "ok" => call.want = 0
            /\ call.at = "read" =>
                 /\ call.want > 0 /\ Len(inbox[sock]) + Len(outbox[sock]) <= call.want
                 /\ Every(inbox[sock], Asked) /\ Every(outbox[sock], Answers)
  /\ pubsub.at # "closed" =>
       /\ pipe.at = "idle"
       /\ pubsub.at \in {"idle", "read"} => call = NoCall
       /\ call.at = "read" => call.want > 0
       /\ Every(call.send, Topics)
       /\ sock # NoSock => Every(inbox[sock], Topics)
  /\ pipe.at \in {"idle", "begin"} => ~pipe.watching

\* A request of the pipeline has been answered.
Answered ==
  /\ sock # NoSock /\ call.at \in {"read", "ok"}
  /\ call.got # <<>> \/ outbox[sock] # <<>>

\* The pipeline has not begun to watch, or has ended to.
Unwatching ==
  \/ pipe.at \in {"idle", "begin"}
  \/ pipe.at \in {"exec", "reset"} /\ ~pipe.watching
  \/ pipe.at \in {"exec", "unwatch"} /\ Answered

Plain ==
  /\ pubsub.at = "closed" => ~callback /\ subs = {}
  /\ Unwatching /\ sock # NoSock => watch[sock] = "no"

-----------------------------------------------------------------------------
Succeeded == {r \in Requests : r.op # "NIL"}
SomeIn(s, T) == \E i \in 1..Len(s) : s[i] \in T

Confirmed ==
  \/ pipe.at = "exec" /\ call.at \in {"read", "ok"}
       /\ (SomeIn(call.got, Succeeded) \/ (sock # NoSock /\ SomeIn(outbox[sock], Succeeded)))
  \/ pipe.at \in {"reset", "unwatch"} /\ pipe.after = "return"

Returns == returned + (IF Confirmed THEN 1 ELSE 0) <= executed

-----------------------------------------------------------------------------
\* An EXEC on socket s, or about to be sent on it, that sets the number to n.
Valid(s, n) == watch[s] # "no" /\ (watch[s] = "clean" => n = x + 1)

ExecsValid ==
  \A s \in Sockets : \A i \in 1..Len(inbox[s]) :
    inbox[s][i].op = "EXEC" => Len(inbox[s]) = 1 /\ Valid(s, inbox[s][i].n)
ReadsNow == {r \in Requests : r.op = "GET" => r.n = x}

Counted == x = writes + executed /\ ExecsValid

\* A transaction that watches goes on as long as its watch knows of the changes.
Reading ==
  /\ Waiting => call.at \notin {"pong", "again", "pong2", "write"}
  /\ pipe.at = "watch" /\ up /\ Answered => watch[sock] # "no"
  /\ pipe.at = "get" /\ call.at \in {"send", "read", "ok"} =>
       /\ sock # NoSock
       /\ up => watch[sock] # "no"
       /\ watch[sock] = "clean" => Every(outbox[sock], ReadsNow) /\ Every(call.got, ReadsNow)
  /\ pipe.at = "exec" /\ pipe.watching /\ call.at = "send" =>
       sock # NoSock /\ (up => Valid(sock, call.send[1].n))

Guarded == ~conf.health => Counted /\ Reading

-----------------------------------------------------------------------------
\* Whether c is among the subscriptions C after the requests of q.
Subscribes(r, c) == r.op = "SUBSCRIBE" /\ c \in r.ch
Leaves(r, c) == r.op = "UNSUBSCRIBE" /\ (r.ch = {} \/ c \in r.ch)
Will(q, C, c) ==
  \E i \in 0..Len(q) :
    /\ IF i = 0 THEN c \in C ELSE Subscribes(q[i], c)
    /\ \A j \in (i+1)..Len(q) : ~Leaves(q[j], c)

Coming(c) == Will(inbox[sock], subs, c)

\* What the object sends at its steps.
Requesting ==
  /\ pubsub.at = "subscribe" => call.send = <<Subscription(pubsub.of)>>
  /\ pubsub.at = "unsubscribe" =>
       /\ call.send = <<Unsubscription(pubsub.of)>>
       /\ IF pubsub.of = {} THEN wanted = {} ELSE wanted \cap pubsub.of = {}
  /\ pubsub.at = "poll" => call.send \in {<<>>, <<HealthCheck>>}
  /\ pubsub.at = "reread" => call.send = <<>>
  /\ pubsub.at \in {"subscribe", "unsubscribe"} => call.want = 0 /\ call.at # "read"

\* Redis will send what is wanted, and of what it will send the object knows, or
\* is about to subscribe to it, or to leave it.
Expected ==
  /\ \A c \in wanted : Coming(c)
  /\ pubsub.at = "subscribe" /\ call.at = "ok" => \A c \in pubsub.of : Coming(c)
  /\ \A c \in Channels : Coming(c) =>
       \/ c \in channels \ pending
       \/ pubsub.at = "subscribe" /\ c \in pubsub.of
       \/ /\ pubsub.at = "unsubscribe" /\ call.at # "ok"
          /\ c \in channels /\ (pubsub.of = {} \/ c \in pubsub.of)

Known ==
  IF pubsub.at = "closed" THEN channels = {} /\ wanted = {}
  ELSE /\ callback
       /\ wanted \subseteq channels \ pending
       /\ Requesting
       /\ up => Expected

RedisPyInv == SocketInv /\ UserTypes /\ InTurn /\ Plain /\ Returns /\ Guarded /\ Known

-----------------------------------------------------------------------------
(* Sequences. *)

LEMMA EmptyFacts ==
  ASSUME NEW S, NEW q \in Seq(S)
  PROVE  /\ Len(q) \in Nat
         /\ q = <<>> <=> Len(q) = 0
         /\ q # <<>> <=> Len(q) > 0
         /\ \A i \in 1..Len(q) : q[i] \in S
OBVIOUS

LEMMA NothingFacts ==
  ASSUME NEW S
  PROVE  <<>> \in Seq(S) /\ Len(<<>>) = 0
OBVIOUS

LEMMA SingleFacts ==
  ASSUME NEW S, NEW r \in S
  PROVE  <<r>> \in Seq(S) /\ Len(<<r>>) = 1 /\ <<r>>[1] = r
OBVIOUS

LEMMA TailFacts ==
  ASSUME NEW S, NEW q \in Seq(S), q # <<>>
  PROVE  /\ Len(q) \in Nat /\ Len(q) > 0
         /\ Head(q) \in S /\ Head(q) = q[1]
         /\ Tail(q) \in Seq(S) /\ Len(Tail(q)) = Len(q) - 1
         /\ \A i \in 1..Len(Tail(q)) : i + 1 \in 1..Len(q) /\ Tail(q)[i] = q[i+1]
OBVIOUS

LEMMA AppendFacts ==
  ASSUME NEW S, NEW q \in Seq(S), NEW r \in S
  PROVE  /\ Append(q, r) \in Seq(S) /\ Len(Append(q, r)) = Len(q) + 1
         /\ \A i \in 1..Len(q) : i \in 1..Len(Append(q, r)) /\ Append(q, r)[i] = q[i]
         /\ Append(q, r)[Len(q) + 1] = r
         /\ \A i \in 1..Len(Append(q, r)) : i \in 1..Len(q) \/ i = Len(q) + 1
OBVIOUS

LEMMA ConcatFacts ==
  ASSUME NEW S, NEW q \in Seq(S), NEW r \in Seq(S)
  PROVE  /\ q \o r \in Seq(S) /\ Len(q \o r) = Len(q) + Len(r)
         /\ \A i \in 1..Len(q) : i \in 1..Len(q \o r) /\ (q \o r)[i] = q[i]
         /\ \A i \in 1..Len(r) : Len(q) + i \in 1..Len(q \o r) /\ (q \o r)[Len(q) + i] = r[i]
         /\ \A i \in 1..Len(q \o r) : i \in 1..Len(q) \/ (i - Len(q) \in 1..Len(r) /\ (q \o r)[i] = r[i - Len(q)])
         /\ q = <<>> => q \o r = r
         /\ r = <<>> => q \o r = q
<1>1. Len(q) \in Nat /\ Len(r) \in Nat OBVIOUS
<1>2. q \o r \in Seq(S) /\ Len(q \o r) = Len(q) + Len(r) OBVIOUS
<1>3. \A i \in 1..Len(q) : (q \o r)[i] = q[i] OBVIOUS
<1>4. \A i \in 1..Len(r) : (q \o r)[Len(q) + i] = r[i] OBVIOUS
<1>5. \A i \in 1..Len(q \o r) : i \in 1..Len(q) \/ (i - Len(q) \in 1..Len(r) /\ i = Len(q) + (i - Len(q)))
  BY <1>1, <1>2
<1>6. q = <<>> => q \o r = r OBVIOUS
<1>7. r = <<>> => q \o r = q OBVIOUS
<1> QED BY <1>1, <1>2, <1>3, <1>4, <1>5, <1>6, <1>7

\* What every element of a sequence is in, of its tail and of what is appended.
LEMMA EveryFacts ==
  ASSUME NEW S, NEW q \in Seq(S), NEW T
  PROVE  /\ q = <<>> => Every(q, T)
         /\ Every(q, T) /\ q # <<>> => q[1] \in T /\ Every(Tail(q), T)
         /\ \A r \in S : Every(<<r>>, T) <=> r \in T
         /\ \A r \in S : Every(q, T) /\ r \in T => Every(Append(q, r), T)
         /\ \A p \in Seq(S) : Every(q, T) /\ Every(p, T) => Every(q \o p, T)
<1>1. q = <<>> => Every(q, T) BY DEF Every
<1>2. Every(q, T) /\ q # <<>> => q[1] \in T /\ Every(Tail(q), T)
  BY TailFacts DEF Every
<1>3. \A r \in S : Every(<<r>>, T) <=> r \in T BY DEF Every
<1>4. ASSUME NEW r \in S, Every(q, T), r \in T PROVE Every(Append(q, r), T)
  BY <1>4, AppendFacts DEF Every
<1>5. ASSUME NEW p \in Seq(S), Every(q, T), Every(p, T) PROVE Every(q \o p, T)
  BY <1>5, ConcatFacts DEF Every
<1> QED BY <1>1, <1>2, <1>3, <1>4, <1>5

\* The same of whether some element is in T.
LEMMA SomeFacts ==
  ASSUME NEW S, NEW q \in Seq(S), NEW T
  PROVE  /\ q = <<>> => ~SomeIn(q, T)
         /\ q # <<>> => (SomeIn(q, T) <=> q[1] \in T \/ SomeIn(Tail(q), T))
         /\ \A r \in S : SomeIn(Append(q, r), T) <=> SomeIn(q, T) \/ r \in T
<1>1. q = <<>> => ~SomeIn(q, T) BY DEF SomeIn
<1>2. ASSUME q # <<>> PROVE SomeIn(q, T) <=> q[1] \in T \/ SomeIn(Tail(q), T)
  <2>1. ASSUME NEW i \in 1..Len(q), q[i] \in T, i # 1 PROVE SomeIn(Tail(q), T)
    <3>1. i - 1 \in 1..Len(Tail(q)) /\ (i - 1) + 1 = i BY <1>2, <2>1, TailFacts
    <3>2. Tail(q)[i-1] = q[i] BY <1>2, <3>1, TailFacts
    <3> QED BY <2>1, <3>1, <3>2 DEF SomeIn
  <2>2. SomeIn(Tail(q), T) => SomeIn(q, T) BY <1>2, TailFacts DEF SomeIn
  <2>3. 1 \in 1..Len(q) BY <1>2
  <2> QED BY <2>1, <2>2, <2>3 DEF SomeIn
<1>3. ASSUME NEW r \in S PROVE SomeIn(Append(q, r), T) <=> SomeIn(q, T) \/ r \in T
  <2>1. Len(q) + 1 \in 1..Len(Append(q, r)) BY AppendFacts
  <2> QED BY <2>1, AppendFacts DEF SomeIn
<1> QED BY <1>1, <1>2, <1>3

-----------------------------------------------------------------------------
\* A set of numbers that is not empty has a least member.
LEMMA LeastNumber ==
  ASSUME NEW T, T \subseteq Nat, T # {}
  PROVE  \E n \in T : \A m \in T : ~(m < n)
<1>1. \E m \in T : \A n \in T : ~(<<n, m>> \in OpToRel(<, Nat))
  BY NatLessThanWellFounded, WFMin
<1>2. \A m, n \in Nat : <<n, m>> \in OpToRel(<, Nat) <=> n < m
  BY DEF OpToRel
<1> QED BY <1>1, <1>2

\* What OnlyWrites keeps of the first i requests, given what it keeps of fewer.
KeptStep(rs, g, i) ==
  IF i = 0 THEN <<>> ELSE IF Writes(rs[i]) THEN Append(g[i-1], rs[i]) ELSE g[i-1]

IsKept(rs, g, n) == g = [i \in 0..n |-> KeptStep(rs, g, i)]

Kept(rs) == CHOOSE g : IsKept(rs, g, Len(rs))

\* The recursion in OnlyWrites has a solution.
LEMMA KeptExists ==
  ASSUME NEW rs \in Seq(Requests)
  PROVE  \E g : IsKept(rs, g, Len(rs))
<1> DEFINE Bad == {n \in Nat : n <= Len(rs) /\ ~ \E g : IsKept(rs, g, n)}
<1>1. Len(rs) \in Nat OBVIOUS
<1>2. ASSUME Bad # {} PROVE FALSE
  <2>1. PICK n \in Bad : \A m \in Bad : ~(m < n)
    BY <1>2, LeastNumber
  <2>2. n \in Nat /\ n <= Len(rs) /\ ~ \E g : IsKept(rs, g, n)
    BY <2>1
  <2>3. n # 0
    <3>1. IsKept(rs, [j \in 0..0 |-> <<>>], 0)
      BY DEF IsKept, KeptStep
    <3> QED BY <3>1, <2>2
  <2>4. n - 1 \in Nat /\ n - 1 <= Len(rs) /\ n - 1 < n /\ n - 1 \notin Bad
    <3>1. n - 1 \in Nat /\ n - 1 <= Len(rs) /\ n - 1 < n BY <2>2, <2>3, <1>1
    <3> QED BY <3>1, <2>1
  <2>5. PICK g : IsKept(rs, g, n - 1)
    BY <2>4
  <2> DEFINE h == [i \in 0..n |-> IF i = n THEN KeptStep(rs, g, n) ELSE g[i]]
  <2>6. \A i \in 0..(n-1) : h[i] = g[i] /\ g[i] = KeptStep(rs, g, i)
    BY <2>2, <2>5 DEF IsKept
  <2>7. h[n] = KeptStep(rs, g, n) /\ n - 1 \in 0..(n-1)
    BY <2>2, <2>3
  <2>8. \A i \in 0..n : h[i] = KeptStep(rs, h, i)
    <3> HIDE DEF h
    <3> TAKE i \in 0..n
    <3>1. CASE i = n BY <3>1, <2>6, <2>7 DEF KeptStep
    <3>2. CASE i # n
      <4>1. i \in 0..(n-1) /\ (i # 0 => i - 1 \in 0..(n-1)) BY <3>2, <2>2
      <4> QED BY <4>1, <2>6 DEF KeptStep
    <3> QED BY <3>1, <3>2
  <2>9. IsKept(rs, h, n)
    BY <2>8 DEF IsKept
  <2> QED BY <2>9, <2>2
<1> QED BY <1>1, <1>2

\* OnlyWrites keeps requests of the sequence that write, no more than there are.
LEMMA OnlyWritesFacts ==
  ASSUME NEW rs \in Seq(Requests)
  PROVE  /\ OnlyWrites(rs) \in Seq(Requests)
         /\ Len(OnlyWrites(rs)) <= Len(rs)
         /\ Every(OnlyWrites(rs), Changes)
         /\ \A i \in 1..Len(OnlyWrites(rs)) : \E j \in 1..Len(rs) : OnlyWrites(rs)[i] = rs[j]
<1> DEFINE g == Kept(rs)
           Good(n) == /\ g[n] \in Seq(Requests)
                      /\ Len(g[n]) <= n
                      /\ Every(g[n], Changes)
                      /\ \A i \in 1..Len(g[n]) : \E j \in 1..Len(rs) : g[n][i] = rs[j]
           Wrong == {n \in Nat : n <= Len(rs) /\ ~Good(n)}
<1>1. Len(rs) \in Nat /\ \A i \in 1..Len(rs) : rs[i] \in Requests OBVIOUS
<1>2. IsKept(rs, g, Len(rs))
  BY KeptExists DEF Kept
<1>3. OnlyWrites(rs) = g[Len(rs)]
  BY DEF OnlyWrites, Kept, IsKept, KeptStep
<1> HIDE DEF g
<1>4. \A i \in 0..Len(rs) : g[i] = KeptStep(rs, g, i)
  BY <1>2 DEF IsKept
<1>5. Good(0)
  <2>1. g[0] = <<>> BY <1>1, <1>4 DEF KeptStep
  <2> QED BY <2>1 DEF Every
<1>6. ASSUME NEW n \in 1..Len(rs), Good(n - 1) PROVE Good(n)
  <2>1. n \in 0..Len(rs) /\ n # 0 /\ rs[n] \in Requests BY <1>1
  <2>2. g[n] = KeptStep(rs, g, n) BY <2>1, <1>4
  <2>3. CASE ~Writes(rs[n])
    <3>1. g[n] = g[n-1] BY <2>1, <2>2, <2>3 DEF KeptStep
    <3>2. Len(g[n-1]) \in Nat /\ Len(g[n-1]) <= n - 1 BY <1>6
    <3>3. Len(g[n-1]) <= n BY <3>2
    <3> QED BY <3>1, <3>3, <1>6
  <2>4. CASE Writes(rs[n])
    <3>1. g[n] = Append(g[n-1], rs[n]) BY <2>1, <2>2, <2>4 DEF KeptStep
    <3> DEFINE q == g[n-1]
    <3>2. /\ q \in Seq(Requests) /\ Len(q) <= n - 1 /\ Every(q, Changes)
          /\ \A i \in 1..Len(q) : \E j \in 1..Len(rs) : q[i] = rs[j]
      BY <1>6
    <3>3. rs[n] \in Changes BY <2>1, <2>4 DEF Changes
    <3> HIDE DEF q
    <3>4. Append(q, rs[n]) \in Seq(Requests) /\ Len(Append(q, rs[n])) <= n
      BY <3>2, <2>1, AppendFacts
    <3>5. Every(Append(q, rs[n]), Changes) BY <3>2, <3>3, <2>1, EveryFacts
    <3>6. \A i \in 1..Len(Append(q, rs[n])) : \E j \in 1..Len(rs) : Append(q, rs[n])[i] = rs[j]
      BY <3>2, <2>1, AppendFacts
    <3> QED BY <3>1, <3>4, <3>5, <3>6 DEF q
  <2> QED BY <2>3, <2>4
<1> HIDE DEF Good
<1>7. ASSUME Wrong # {} PROVE FALSE
  <2>1. PICK n \in Wrong : \A m \in Wrong : ~(m < n)
    BY <1>7, LeastNumber
  <2>2. n \in Nat /\ n <= Len(rs) /\ ~Good(n) /\ n # 0
    BY <2>1, <1>5
  <2>3. n - 1 \in Nat /\ n - 1 <= Len(rs) /\ n - 1 < n /\ n \in 1..Len(rs)
    BY <2>2, <1>1
  <2>4. Good(n - 1) BY <2>1, <2>3
  <2> QED BY <2>2, <2>3, <2>4, <1>6
<1>8. Good(Len(rs)) BY <1>1, <1>7
<1> QED BY <1>3, <1>8 DEF Good

-----------------------------------------------------------------------------
(* What becomes of the sockets. *)

LEMMA SocketsFacts == NoSock \notin Sockets /\ MaxSockets \in Nat
BY SocketsAssumption DEF NoSock, Sockets

\* A step that leaves the sockets alone leaves their sessions alone.
LEMMA StaysFacts ==
  ASSUME SocketInv, NewSession, sock' = sock, inbox' = inbox
  PROVE  watch' = watch /\ subs' = subs
<1>1. watch \in [Sockets -> Marks] BY DEF SocketInv, SocketTypes
<1>2. \A s \in Sockets : s # sock /\ inbox[s] = <<>> => watch[s] = "no"
  BY DEF SocketInv, Apart
<1>3. watch' = [s \in Sockets |-> IF s # sock /\ inbox[s] = <<>> THEN "no" ELSE watch[s]]
  BY DEF NewSession
<1>4. watch' = watch BY <1>1, <1>2, <1>3
<1> QED BY <1>4 DEF NewSession

LEMMA StillFacts ==
  ASSUME SocketInv, NewSession, UNCHANGED socketVars
  PROVE  SocketInv' /\ watch' = watch /\ subs' = subs
<1>1. watch' = watch /\ subs' = subs BY StaysFacts DEF socketVars
<1> QED BY <1>1 DEF SocketInv, SocketTypes, Apart, socketVars

\* What is left to be carried out on the sockets that are not the current one.
Leftovers ==
  \A s \in Sockets : s # sock' =>
    /\ Len(inbox'[s]) <= Len(inbox[s])
    /\ \A i \in 1..Len(inbox'[s]) : \E j \in 1..Len(inbox[s]) : inbox'[s][i] = inbox[s][j]
    /\ inbox'[s] # <<>> => watch'[s] = watch[s]

\* The current socket has nothing to be carried out or read but q.
Fresh(q) ==
  /\ sock' \in Sockets /\ up' /\ inbox'[sock'] = q /\ outbox'[sock'] = <<>>
  /\ watch'[sock'] = "no" /\ subs' = {}

LEMMA LeaveFacts ==
  ASSUME SocketInv, NEW new \in Sockets \cup {NoSock}, NEW q \in Seq(Requests),
         new # NoSock => new # sock /\ inbox[new] = <<>>,
         Leave(new, q), NewSession
  PROVE  /\ SocketInv' /\ Leftovers
         /\ sock' = new /\ (new # NoSock => Fresh(q)) /\ (new = NoSock => ~up' /\ subs' = {})
<1>1. /\ sock' = new /\ up' = (new # NoSock)
      /\ outbox' = [s \in Sockets |-> IF s = sock THEN <<>> ELSE outbox[s]]
      /\ inbox' = [s \in Sockets |-> IF s = sock THEN OnlyWrites(inbox[s])
                                     ELSE IF s = new THEN q ELSE inbox[s]]
  BY DEF Leave
<1>2. /\ subs' = IF sock' = sock THEN subs ELSE {}
      /\ watch' = [s \in Sockets |-> IF s # sock' /\ inbox'[s] = <<>> THEN "no" ELSE watch[s]]
  BY DEF NewSession
<1>3. /\ inbox \in [Sockets -> Seq(Requests)] /\ outbox \in [Sockets -> Seq(Requests)]
      /\ watch \in [Sockets -> Marks] /\ subs \subseteq Channels
      /\ sock \in Sockets \cup {NoSock} /\ up \in BOOLEAN
  BY DEF SocketInv, SocketTypes
<1>4. NoSock \notin Sockets BY SocketsFacts
<1>5. \A s \in Sockets :
        /\ s = sock => inbox'[s] = OnlyWrites(inbox[s])
        /\ s # sock /\ s = new => inbox'[s] = q
        /\ s # sock /\ s # new => inbox'[s] = inbox[s]
        /\ inbox[s] \in Seq(Requests)
  BY <1>1, <1>3
<1>6. \A s \in Sockets : outbox'[s] = <<>>
  BY <1>1 DEF SocketInv, Apart
<1>7. subs' = {}
  <2>1. CASE sock' # sock BY <1>2, <2>1
  <2>2. CASE sock' = sock
    <3>1. sock = NoSock BY <1>1, <2>2, <1>3
    <3>2. ~up BY <3>1 DEF SocketInv, Apart
    <3> QED BY <2>2, <3>2, <1>2 DEF SocketInv, Apart
  <2> QED BY <2>1, <2>2
<1>8. SocketTypes'
  <2>1. inbox' \in [Sockets -> Seq(Requests)]
    <3>1. \A s \in Sockets : OnlyWrites(inbox[s]) \in Seq(Requests)
      BY <1>3, OnlyWritesFacts
    <3> QED BY <1>1, <1>3, <3>1
  <2>2. outbox' \in [Sockets -> Seq(Requests)]
    BY <1>1, <1>3, NothingFacts
  <2>3. watch' \in [Sockets -> Marks] BY <1>2, <1>3 DEF Marks
  <2> QED BY <1>1, <1>7, <2>1, <2>2, <2>3 DEF SocketTypes
<1>9. \A s \in Sockets : s # new => Every(inbox'[s], Changes)
  <2> SUFFICES ASSUME NEW s \in Sockets, s # new PROVE Every(inbox'[s], Changes) OBVIOUS
  <2>1. CASE s = sock BY <2>1, <1>5, OnlyWritesFacts
  <2>2. CASE s # sock BY <2>2, <1>5 DEF SocketInv, Apart
  <2> QED BY <2>1, <2>2
<1>10. \A s \in Sockets : s # new /\ inbox'[s] = <<>> => watch'[s] = "no"
  BY <1>1, <1>2
<1>11. new # NoSock => new \in Sockets /\ watch'[new] = "no" /\ inbox'[new] = q
  <2> SUFFICES ASSUME new # NoSock PROVE watch'[new] = "no" /\ inbox'[new] = q /\ new \in Sockets OBVIOUS
  <2>1. new \in Sockets /\ new # sock /\ inbox[new] = <<>> OBVIOUS
  <2>2. watch'[new] = watch[new] /\ watch[new] = "no"
    BY <1>1, <1>2, <2>1 DEF SocketInv, Apart
  <2> QED BY <2>1, <2>2, <1>5
<1>12. Apart'
  <2>1. ~up' => sock' = NoSock BY <1>1
  <2>2. up' => sock' # NoSock BY <1>1
  <2> QED BY <2>1, <2>2, <1>1, <1>6, <1>7, <1>9, <1>10 DEF Apart
<1>13. Leftovers
  <2> SUFFICES ASSUME NEW s \in Sockets, s # new
               PROVE  /\ Len(inbox'[s]) <= Len(inbox[s])
                      /\ \A i \in 1..Len(inbox'[s]) : \E j \in 1..Len(inbox[s]) : inbox'[s][i] = inbox[s][j]
                      /\ inbox'[s] # <<>> => watch'[s] = watch[s]
    BY <1>1 DEF Leftovers
  <2>1. inbox[s] \in Seq(Requests) BY <1>3
  <2>2. inbox'[s] # <<>> => watch'[s] = watch[s] BY <1>2
  <2>3. CASE s = sock
    <3>1. inbox'[s] = OnlyWrites(inbox[s]) BY <2>3, <1>5
    <3>2. /\ Len(OnlyWrites(inbox[s])) <= Len(inbox[s])
          /\ \A i \in 1..Len(OnlyWrites(inbox[s])) :
                \E j \in 1..Len(inbox[s]) : OnlyWrites(inbox[s])[i] = inbox[s][j]
      BY <2>1, OnlyWritesFacts
    <3> QED BY ONLY <3>1, <3>2, <2>2
  <2>4. CASE s # sock
    <3>1. inbox'[s] = inbox[s] BY <2>4, <1>5
    <3>2. Len(inbox[s]) \in Nat BY <2>1
    <3> QED BY <3>1, <3>2, <2>2
  <2> QED BY <2>3, <2>4
<1> QED BY <1>1, <1>6, <1>7, <1>8, <1>11, <1>12, <1>13 DEF SocketInv, Fresh

LEMMA NewSocketFacts ==
  ASSUME SocketInv, NEW q \in Seq(Requests), NewSocket(q), NewSession
  PROVE  SocketInv' /\ Leftovers /\ Fresh(q) /\ sock' # sock
<1> DEFINE fresh == {s \in Sockets \ {sock} : inbox[s] = <<>>}
           new == CHOOSE s \in fresh : TRUE
<1>1. fresh # {} /\ Leave(new, q) BY DEF NewSocket
<1>2. new \in fresh BY <1>1
<1> HIDE DEF new
<1>3. new \in Sockets /\ new # sock /\ inbox[new] = <<>> /\ new # NoSock BY <1>2, SocketsFacts
<1> QED BY <1>1, <1>3, LeaveFacts

LEMMA DisconnectFacts ==
  ASSUME SocketInv, Disconnect, NewSession
  PROVE  SocketInv' /\ Leftovers /\ sock' = NoSock /\ ~up' /\ subs' = {}
BY LeaveFacts, NothingFacts DEF Disconnect

\* Another user gets a connection on which there is nothing.
LEMMA ProvideFacts ==
  ASSUME SocketInv, Quiet, sock # NoSock => watch[sock] = "no", subs = {}, Provide, NewSession
  PROVE  SocketInv' /\ Leftovers /\ Fresh(<<>>)
<1>1. CASE up /\ ~CanRead /\ UNCHANGED socketVars
  <2>1. SocketInv' /\ watch' = watch /\ subs' = subs BY <1>1, StillFacts
  <2>2. sock \in Sockets BY <1>1 DEF SocketInv, SocketTypes, Apart
  <2>3. Fresh(<<>>) BY <1>1, <2>1, <2>2, SocketsFacts DEF Fresh, Quiet, socketVars
  <2>4. Leftovers
    <3>1. \A s \in Sockets : Len(inbox[s]) \in Nat BY DEF SocketInv, SocketTypes
    <3> QED BY <1>1, <2>1, <3>1 DEF Leftovers, socketVars
  <2> QED BY <2>1, <2>3, <2>4
<1>2. CASE NewSocket(<<>>) BY <1>2, NewSocketFacts, NothingFacts
<1> QED BY <1>1, <1>2 DEF Provide

LEMMA SendOutFacts ==
  ASSUME SocketInv, sock # NoSock, NEW q \in Seq(Requests), SendOut(q), NewSession,
         UNCHANGED <<sock, up, outbox>>
  PROVE  /\ SocketInv' /\ watch' = watch /\ subs' = subs
         /\ inbox[sock] \in Seq(Requests) /\ sock \in Sockets
         /\ inbox'[sock] = IF up THEN inbox[sock] \o q ELSE <<>>
         /\ \A s \in Sockets \ {sock} : inbox'[s] = inbox[s]
<1>1. /\ inbox \in [Sockets -> Seq(Requests)] /\ watch \in [Sockets -> Marks] /\ sock \in Sockets
  BY DEF SocketInv, SocketTypes
<1>2. inbox[sock] \in Seq(Requests) BY <1>1
<1>3. inbox' = [inbox EXCEPT ![sock] = IF up THEN @ \o q ELSE @] BY DEF SendOut
<1>4. ~up => inbox[sock] = <<>> BY DEF SocketInv, Apart
<1>5. /\ inbox'[sock] = IF up THEN inbox[sock] \o q ELSE <<>>
      /\ \A s \in Sockets \ {sock} : inbox'[s] = inbox[s]
  BY <1>1, <1>3, <1>4
<1>6. inbox[sock] \o q \in Seq(Requests) BY <1>2, ConcatFacts
<1>7. inbox' \in [Sockets -> Seq(Requests)] BY <1>1, <1>3, <1>6
<1>8. watch' = watch /\ subs' = subs
  <2>1. \A s \in Sockets : s # sock /\ inbox'[s] = <<>> => watch[s] = "no"
    BY <1>5 DEF SocketInv, Apart
  <2>2. /\ watch' = [s \in Sockets |-> IF s # sock /\ inbox'[s] = <<>> THEN "no" ELSE watch[s]]
        /\ subs' = subs
    BY DEF NewSession
  <2>3. watch' = watch BY <1>1, <2>1, <2>2
  <2> QED BY <2>2, <2>3
<1>9. SocketTypes' BY <1>7, <1>8 DEF SocketInv, SocketTypes
<1>10. Apart' BY <1>5, <1>8, <1>1 DEF SocketInv, Apart
<1> QED BY <1>1, <1>2, <1>5, <1>8, <1>9, <1>10 DEF SocketInv

LEMMA PopFacts ==
  ASSUME SocketInv, CanRead, outbox' = [outbox EXCEPT ![sock] = Tail(@)], NewSession,
         UNCHANGED <<sock, up, inbox>>
  PROVE  /\ SocketInv' /\ watch' = watch /\ subs' = subs
         /\ sock \in Sockets /\ outbox[sock] \in Seq(Requests) /\ outbox[sock] # <<>>
         /\ outbox'[sock] = Tail(outbox[sock])
<1>1. outbox \in [Sockets -> Seq(Requests)] /\ sock \in Sockets /\ outbox[sock] # <<>>
  BY DEF SocketInv, SocketTypes, CanRead
<1>2. outbox[sock] \in Seq(Requests) BY <1>1
<1>3. Tail(outbox[sock]) \in Seq(Requests) BY <1>1, <1>2, TailFacts
<1>4. outbox' \in [Sockets -> Seq(Requests)] BY <1>1, <1>3
<1>5. watch' = watch /\ subs' = subs BY StaysFacts
<1>6. outbox'[sock] = Tail(outbox[sock]) /\ \A s \in Sockets \ {sock} : outbox'[s] = outbox[s]
  BY <1>1
<1>7. SocketTypes' BY <1>4, <1>5 DEF SocketInv, SocketTypes
<1>8. Apart' BY <1>5, <1>6 DEF SocketInv, Apart
<1> QED BY <1>1, <1>2, <1>5, <1>6, <1>7, <1>8 DEF SocketInv

\* Redis answers request r of socket s by a.
Served(s, r, a) ==
  \/ r.op = "PING" /\ a = r /\ UNCHANGED <<x, watch, subs, executed>>
  \/ r.op = "GET" /\ a = Request("GET", x, {}) /\ UNCHANGED <<x, watch, subs, executed>>
  \/ /\ r.op = "WATCH" /\ a = r
     /\ watch' = [watch EXCEPT ![s] = IF @ = "no" THEN "clean" ELSE @]
     /\ UNCHANGED <<x, subs, executed>>
  \/ r.op = "UNWATCH" /\ a = r /\ watch' = [watch EXCEPT ![s] = "no"] /\ UNCHANGED <<x, subs, executed>>
  \/ /\ r.op = "EXEC" /\ watch[s] = "dirty" /\ a = Request("NIL", 0, {})
     /\ watch' = [watch EXCEPT ![s] = "no"] /\ UNCHANGED <<x, subs, executed>>
  \/ /\ r.op \in {"EXEC", "INCR"} /\ watch[s] # "dirty" /\ a = r
     /\ x' = (IF r.op = "EXEC" THEN r.n ELSE x + 1) /\ executed' = executed + 1
     /\ watch' = [Touched EXCEPT ![s] = "no"] /\ UNCHANGED subs
  \/ r.op = "SUBSCRIBE" /\ a = r /\ subs' = subs \cup r.ch /\ UNCHANGED <<x, watch, executed>>
  \/ /\ r.op = "UNSUBSCRIBE" /\ a = Request(r.op, 0, IF r.ch = {} THEN subs ELSE r.ch)
     /\ subs' = (IF r.ch = {} THEN {} ELSE subs \ r.ch) /\ UNCHANGED <<x, watch, executed>>

LEMMA TouchedFacts ==
  ASSUME watch \in [Sockets -> Marks]
  PROVE  /\ Touched \in [Sockets -> Marks]
         /\ \A s \in Sockets : /\ Touched[s] # "clean"
                               /\ Touched[s] = "no" <=> watch[s] = "no"
BY DEF Touched, Marks

Taken(s, a) ==
  /\ inbox[s] \in Seq(Requests) /\ inbox[s] # <<>> /\ inbox[s][1] \in Requests
  /\ s # sock => Writes(inbox[s][1])
  /\ Served(s, inbox[s][1], a)
  /\ inbox' \in [Sockets -> Seq(Requests)] /\ inbox'[s] = Tail(inbox[s])
  /\ \A t \in Sockets \ {s} : inbox'[t] = inbox[t]
  /\ s # sock => outbox' = outbox
  /\ s = sock => /\ outbox[sock] \in Seq(Requests)
                 /\ outbox' \in [Sockets -> Seq(Requests)]
                 /\ outbox'[sock] = Append(outbox[sock], a)
                 /\ \A t \in Sockets \ {sock} : outbox'[t] = outbox[t]
  /\ UNCHANGED <<conf, sock, up, call, faults, pipelineVars, pubsubVars, writes>>

LEMMA ServeFacts ==
  ASSUME SocketInv, x \in Nat, NEW s \in Sockets, Serve(s)
  PROVE  \E a \in Requests : Taken(s, a)
<1> DEFINE r == Head(inbox[s])
<1>1. /\ inbox \in [Sockets -> Seq(Requests)] /\ outbox \in [Sockets -> Seq(Requests)]
      /\ subs \subseteq Channels
  BY DEF SocketInv, SocketTypes
<1>2. inbox[s] # <<>> /\ inbox' = [inbox EXCEPT ![s] = Tail(@)]
  BY DEF Serve, TakeRequest
<1>3. /\ inbox[s] \in Seq(Requests) /\ r \in Requests /\ r = inbox[s][1] /\ Tail(inbox[s]) \in Seq(Requests)
  BY <1>1, <1>2, TailFacts
<1>4. inbox' \in [Sockets -> Seq(Requests)] /\ inbox'[s] = Tail(inbox[s])
      /\ \A t \in Sockets \ {s} : inbox'[t] = inbox[t]
  BY <1>1, <1>2, <1>3
<1>5. \E a \in Requests : Served(s, r, a) /\ Answer(s, <<a>>)
  <2>1. r.n \in Nat /\ r.ch \subseteq Channels /\ r.op \in Operations BY <1>3 DEF Requests
  <2>2. /\ Request("GET", x, {}) \in Requests /\ Request("NIL", 0, {}) \in Requests
        /\ \A C \in SUBSET Channels : Request("UNSUBSCRIBE", 0, C) \in Requests
    BY DEF Request, Requests, Operations
  <2>3. (IF r.ch = {} THEN subs ELSE r.ch) \in SUBSET Channels BY <2>1, <1>1
  <2> HIDE DEF r
  <2>4. \/ r.op = "PING" /\ Answer(s, <<r>>) /\ UNCHANGED <<x, watch, subs, executed>>
        \/ r.op = "GET" /\ Answer(s, <<Request("GET", x, {})>>) /\ UNCHANGED <<x, watch, subs, executed>>
        \/ /\ r.op \in {"WATCH", "UNWATCH"} /\ Answer(s, <<r>>)
           /\ watch' = [watch EXCEPT ![s] = IF r.op = "UNWATCH" THEN "no"
                                            ELSE IF @ = "no" THEN "clean" ELSE @]
           /\ UNCHANGED <<x, subs, executed>>
        \/ /\ r.op = "EXEC" /\ watch[s] = "dirty" /\ Answer(s, <<Request("NIL", 0, {})>>)
           /\ watch' = [watch EXCEPT ![s] = "no"] /\ UNCHANGED <<x, subs, executed>>
        \/ /\ r.op \in {"EXEC", "INCR"} /\ watch[s] # "dirty" /\ Answer(s, <<r>>)
           /\ x' = (IF r.op = "EXEC" THEN r.n ELSE x + 1) /\ executed' = executed + 1
           /\ watch' = [Touched EXCEPT ![s] = "no"] /\ UNCHANGED subs
        \/ /\ r.op = "SUBSCRIBE" /\ Answer(s, <<r>>) /\ subs' = subs \cup r.ch
           /\ UNCHANGED <<x, watch, executed>>
        \/ /\ r.op = "UNSUBSCRIBE"
           /\ Answer(s, <<Request(r.op, 0, IF r.ch = {} THEN subs ELSE r.ch)>>)
           /\ subs' = (IF r.ch = {} THEN {} ELSE subs \ r.ch) /\ UNCHANGED <<x, watch, executed>>
    BY DEF Serve, redisVars, r
  <2>5. r \in Requests BY <1>3
  <2> QED BY <2>2, <2>3, <2>4, <2>5 DEF Served
<1>6. PICK a \in Requests : Served(s, r, a) /\ Answer(s, <<a>>) BY <1>5
<1>7. s # sock => outbox' = outbox BY <1>6 DEF Answer
<1>8. ASSUME s = sock
      PROVE  /\ outbox[sock] \in Seq(Requests) /\ outbox' \in [Sockets -> Seq(Requests)]
             /\ outbox'[sock] = Append(outbox[sock], a)
             /\ \A t \in Sockets \ {sock} : outbox'[t] = outbox[t]
  <2>1. outbox[sock] \in Seq(Requests) BY <1>1, <1>8
  <2>2. outbox[sock] \o <<a>> = Append(outbox[sock], a) BY <2>1
  <2>3. outbox' = [outbox EXCEPT ![sock] = Append(outbox[sock], a)] BY <1>6, <1>8, <2>2 DEF Answer
  <2>4. Append(outbox[sock], a) \in Seq(Requests) BY <2>1, AppendFacts
  <2> QED BY <1>1, <1>8, <2>1, <2>3, <2>4
<1>9. ASSUME s # sock PROVE Writes(r)
  <2>1. 1 \in 1..Len(inbox[s]) BY <1>2, <1>3
  <2>2. r \in Changes BY <1>3, <1>9, <2>1 DEF SocketInv, Apart, Every
  <2> QED BY <2>2 DEF Changes
<1>10. UNCHANGED <<conf, sock, up, call, faults, pipelineVars, pubsubVars, writes>>
  BY DEF Serve
<1> QED BY <1>2, <1>3, <1>4, <1>6, <1>7, <1>8, <1>9, <1>10 DEF Taken

LEMMA ServedTypes ==
  ASSUME SocketInv, {x, executed} \subseteq Nat, NEW s \in Sockets, NEW r \in Requests, NEW a, Served(s, r, a)
  PROVE  /\ watch' \in [Sockets -> Marks] /\ subs' \subseteq Channels /\ {x', executed'} \subseteq Nat
         /\ \A t \in Sockets \ {s} : watch'[t] = "no" <=> watch[t] = "no"
         /\ Writes(r) => watch'[s] = "no" /\ subs' = subs
<1>1. watch \in [Sockets -> Marks] /\ subs \subseteq Channels BY DEF SocketInv, SocketTypes
<1>2. r.n \in Nat /\ r.ch \subseteq Channels BY DEF Requests
<1>3. {x', executed'} \subseteq Nat BY <1>2 DEF Served
<1>4. subs' \subseteq Channels BY <1>1, <1>2 DEF Served
<1>5. \/ watch' = watch
      \/ \E m \in Marks : watch' = [watch EXCEPT ![s] = m]
      \/ watch' = [Touched EXCEPT ![s] = "no"]
  BY <1>1 DEF Served, Marks
<1>6. watch' \in [Sockets -> Marks] /\ \A t \in Sockets \ {s} : watch'[t] = "no" <=> watch[t] = "no"
  BY <1>1, <1>5, TouchedFacts DEF Marks
<1>7. Writes(r) => watch'[s] = "no" /\ subs' = subs
  BY <1>1, TouchedFacts DEF Served, Writes
<1> QED BY <1>3, <1>4, <1>6, <1>7

LEMMA ServeSockets ==
  ASSUME SocketInv, {x, executed} \subseteq Nat, NEW s \in Sockets, Serve(s)
  PROVE  SocketInv' /\ {x', executed'} \subseteq Nat
<1>1. PICK a \in Requests :
        /\ inbox[s] \in Seq(Requests) /\ inbox[s] # <<>> /\ inbox[s][1] \in Requests
        /\ s # sock => Writes(inbox[s][1])
        /\ Served(s, inbox[s][1], a)
        /\ inbox' \in [Sockets -> Seq(Requests)] /\ inbox'[s] = Tail(inbox[s])
        /\ \A t \in Sockets \ {s} : inbox'[t] = inbox[t]
        /\ s # sock => outbox' = outbox
        /\ s = sock => /\ outbox' \in [Sockets -> Seq(Requests)]
                       /\ \A t \in Sockets \ {sock} : outbox'[t] = outbox[t]
        /\ sock' = sock /\ up' = up
  BY ServeFacts DEF Taken
<1>2. /\ watch' \in [Sockets -> Marks] /\ subs' \subseteq Channels /\ {x', executed'} \subseteq Nat
      /\ \A t \in Sockets \ {s} : watch'[t] = "no" <=> watch[t] = "no"
      /\ Writes(inbox[s][1]) => watch'[s] = "no" /\ subs' = subs
  BY <1>1, ServedTypes
<1>3. SocketTypes' BY <1>1, <1>2 DEF SocketInv, SocketTypes
<1>4. \A t \in Sockets \ {sock} : outbox'[t] = <<>> BY <1>1 DEF SocketInv, Apart
<1>5. \A t \in Sockets \ {sock} : Every(inbox'[t], Changes)
  <2> SUFFICES ASSUME NEW t \in Sockets \ {sock} PROVE Every(inbox'[t], Changes) OBVIOUS
  <2>1. Every(inbox[t], Changes) BY DEF SocketInv, Apart
  <2>2. CASE t = s
    <3>1. Every(Tail(inbox[s]), Changes) BY <1>1, <2>1, <2>2, EveryFacts
    <3> QED BY <1>1, <2>2, <3>1
  <2>3. CASE t # s BY <1>1, <2>1, <2>3
  <2> QED BY <2>2, <2>3
<1>6. \A t \in Sockets \ {sock} : inbox'[t] = <<>> => watch'[t] = "no"
  <2> SUFFICES ASSUME NEW t \in Sockets \ {sock}, inbox'[t] = <<>> PROVE watch'[t] = "no" OBVIOUS
  <2>1. CASE t = s BY <1>1, <1>2, <2>1
  <2>2. CASE t # s BY <1>1, <1>2, <2>2 DEF SocketInv, Apart
  <2> QED BY <2>1, <2>2
<1>7. ASSUME ~up PROVE subs' = {} /\ (sock # NoSock => inbox'[sock] = <<>> /\ watch'[sock] = "no")
  <2>1. subs = {} /\ (sock # NoSock => inbox[sock] = <<>> /\ watch[sock] = "no")
    BY <1>7 DEF SocketInv, Apart
  <2>2. s # sock BY <2>1, <1>1, SocketsFacts
  <2>3. sock \in Sockets \cup {NoSock} BY DEF SocketInv, SocketTypes
  <2> QED BY <1>1, <1>2, <2>1, <2>2, <2>3
<1>8. Apart' BY <1>1, <1>4, <1>5, <1>6, <1>7 DEF SocketInv, Apart
<1> QED BY <1>2, <1>3, <1>8 DEF SocketInv

LEMMA DropFacts ==
  ASSUME SocketInv, NEW s \in Sockets, Drop(s), EndSession(s)
  PROVE  /\ SocketInv'
         /\ sock' = sock /\ up' = (up /\ s # sock) /\ call' = call
         /\ inbox'[s] = <<>> /\ watch'[s] = "no"
         /\ \A t \in Sockets \ {s} : inbox'[t] = inbox[t] /\ watch'[t] = watch[t]
         /\ \A t \in Sockets : outbox'[t] \in {outbox[t], <<>>}
         /\ \A t \in Sockets \ {s} : outbox'[t] = outbox[t]
         /\ s # sock => subs' = subs
<1>1. /\ inbox \in [Sockets -> Seq(Requests)] /\ outbox \in [Sockets -> Seq(Requests)]
      /\ watch \in [Sockets -> Marks] /\ subs \subseteq Channels /\ up \in BOOLEAN
  BY DEF SocketInv, SocketTypes
<1>2. /\ sock' = sock /\ up' = (up /\ s # sock) /\ call' = call
      /\ inbox' = [inbox EXCEPT ![s] = <<>>]
      /\ outbox' = outbox \/ outbox' = [outbox EXCEPT ![s] = <<>>]
  BY DEF Drop
<1>3. watch' = [watch EXCEPT ![s] = "no"] /\ subs' = IF s = sock THEN {} ELSE subs
  BY DEF EndSession
<1>4. inbox' \in [Sockets -> Seq(Requests)] /\ outbox' \in [Sockets -> Seq(Requests)]
  BY <1>1, <1>2, NothingFacts
<1>5. watch' \in [Sockets -> Marks] BY <1>1, <1>3 DEF Marks
<1>6. SocketTypes' BY <1>1, <1>2, <1>3, <1>4, <1>5 DEF SocketInv, SocketTypes
<1>7. /\ inbox'[s] = <<>> /\ watch'[s] = "no"
      /\ \A t \in Sockets \ {s} : inbox'[t] = inbox[t] /\ watch'[t] = watch[t]
      /\ \A t \in Sockets : outbox'[t] \in {outbox[t], <<>>}
      /\ \A t \in Sockets \ {s} : outbox'[t] = outbox[t]
  BY <1>1, <1>2, <1>3
<1>8. Apart'
  <2>1. \A t \in Sockets \ {sock} :
          outbox'[t] = <<>> /\ Every(inbox'[t], Changes) /\ (inbox'[t] = <<>> => watch'[t] = "no")
    <3>1. Every(<<>>, Changes) BY DEF Every
    <3> QED BY <1>7, <3>1 DEF SocketInv, Apart
  <2>2. ~up' => subs' = {} /\ (sock # NoSock => inbox'[sock] = <<>> /\ watch'[sock] = "no")
    <3>1. sock \in Sockets \cup {NoSock} BY DEF SocketInv, SocketTypes
    <3> QED BY <1>2, <1>3, <1>7, <3>1 DEF SocketInv, Apart
  <2> QED BY <1>2, <2>1, <2>2 DEF SocketInv, Apart
<1> QED BY <1>2, <1>3, <1>6, <1>7, <1>8 DEF SocketInv

LEMMA OtherWritesFacts ==
  ASSUME SocketInv, {x, writes} \subseteq Nat, OtherWrites
  PROVE  /\ SocketInv' /\ x' = x + 1 /\ writes' = writes + 1 /\ {x', writes'} \subseteq Nat
         /\ \A s \in Sockets : watch'[s] # "clean" /\ (watch'[s] = "no" <=> watch[s] = "no")
         /\ UNCHANGED <<connectionVars, pipelineVars, pubsubVars, subs, executed>>
<1>1. watch \in [Sockets -> Marks] BY DEF SocketInv, SocketTypes
<1>2. /\ x' = x + 1 /\ writes' = writes + 1 /\ watch' = Touched
      /\ UNCHANGED <<connectionVars, pipelineVars, pubsubVars, subs, executed>>
  BY DEF OtherWrites
<1>3. /\ watch' \in [Sockets -> Marks]
      /\ \A s \in Sockets : watch'[s] # "clean" /\ (watch'[s] = "no" <=> watch[s] = "no")
  BY <1>1, <1>2, TouchedFacts
<1>4. SocketTypes' BY <1>2, <1>3 DEF SocketInv, SocketTypes, connectionVars, socketVars
<1>5. Apart'
  <2>1. sock \in Sockets \cup {NoSock} BY DEF SocketInv, SocketTypes
  <2> QED BY <1>2, <1>3, <2>1 DEF SocketInv, Apart, connectionVars, socketVars
<1> QED BY <1>2, <1>3, <1>4, <1>5 DEF SocketInv

-----------------------------------------------------------------------------
(* What becomes of the call and of the pipeline. *)

LEMMA RequestFacts ==
  /\ Ping \in Requests /\ Ping.op = "PING"
  /\ HealthCheck \in Requests /\ HealthCheck.op = "PING"
  /\ Incr \in Requests /\ Incr.op = "INCR"
  /\ \A n \in Nat : Exec(n) \in Requests /\ Exec(n).op = "EXEC" /\ Exec(n).n = n
  /\ \A op \in Operations : Request(op, 0, {}) \in Requests /\ Request(op, 0, {}).op = op
  /\ \A C \in SUBSET Channels :
       /\ Subscription(C) \in Requests /\ Subscription(C).op = "SUBSCRIBE" /\ Subscription(C).ch = C
       /\ Unsubscription(C) \in Requests /\ Unsubscription(C).op = "UNSUBSCRIBE" /\ Unsubscription(C).ch = C
BY DEF Ping, HealthCheck, Incr, Exec, Request, Requests, Operations, Subscription, Unsubscription

LEMMA NoCallFacts ==
  NoCall \in Calls /\ NoCall.at = "idle" /\ NoCall.send = <<>> /\ NoCall.got = <<>>
BY NothingFacts DEF NoCall, Calls, CallSteps

LEMMA NoPipeFacts ==
  NoPipe \in Pipes /\ NoPipe.at = "idle" /\ ~NoPipe.watching
BY DEF NoPipe, Pipes, PipeSteps, Modes

LEMMA BeginFacts ==
  ASSUME NEW rs \in Seq(Requests), NEW check \in BOOLEAN, NEW want \in Nat, Begin(rs, check, want)
  PROVE  /\ call' \in Calls /\ call'.at = "send" /\ call'.send = rs /\ call'.check = check
         /\ call'.want = want /\ call'.got = <<>>
BY NothingFacts DEF Begin, Calls, CallSteps

LEMMA AtFacts ==
  ASSUME call \in Calls, NEW step \in CallSteps, At(step)
  PROVE  /\ call' \in Calls /\ call'.at = step /\ call'.send = call.send /\ call'.check = call.check
         /\ call'.want = call.want /\ call'.got = call.got
BY DEF At, Calls

LEMMA ResettingFacts ==
  ASSUME pipe \in Pipes, NEW after \in {"return", "retry", "raise"}, Resetting(after)
  PROVE  /\ pipe' \in Pipes /\ pipe'.at = "reset" /\ pipe'.watching = pipe.watching /\ pipe'.after = after
         /\ call' = NoCall
BY DEF Resetting, Pipes, PipeSteps

LEMMA ReleasedFacts ==
  ASSUME pipe \in Pipes, returned \in Nat, Released
  PROVE  /\ pipe' \in Pipes /\ pipe'.at \in {"idle", "begin"} /\ ~pipe'.watching
         /\ call' = NoCall
         /\ returned' = (IF pipe.after = "return" THEN returned + 1 ELSE returned) /\ returned' \in Nat
         /\ UNCHANGED socketVars
<1>1. pipe' = [pipe EXCEPT !.at = "begin", !.watching = FALSE] \/ pipe' = NoPipe BY DEF Released
<1>2. pipe' \in Pipes /\ pipe'.at \in {"idle", "begin"} /\ ~pipe'.watching
  <2>1. CASE pipe' = NoPipe BY <2>1, NoPipeFacts
  <2>2. CASE pipe' = [pipe EXCEPT !.at = "begin", !.watching = FALSE] BY <2>2 DEF Pipes, PipeSteps
  <2> QED BY <1>1, <2>1, <2>2
<1> QED BY <1>2 DEF Released

LEMMA AskedAlone ==
  ASSUME NEW q \in Seq(Requests), Len(q) = 1, call'.send = q
  PROVE  Len(call'.send) \in {1, 2} /\ Every(call.send, Asked)' /\ call'.send[1] = q[1]
<1>1. \A i \in 1..Len(q) : q[i] = q[1] OBVIOUS
<1> QED BY <1>1 DEF Every, Asked

\* A pipeline that begins to wait for replies is in turn,
LEMMA SendFacts ==
  ASSUME NEW rs \in Seq(Requests), PipeSend(rs), pubsub'.at = "closed", Quiet', Waiting', Sends'
  PROVE  /\ InTurn' /\ ~Answered'
         /\ call' \in Calls /\ call'.at = "send" /\ call'.send = rs /\ call'.got = <<>>
<1>1. Len(rs) \in Nat BY EmptyFacts
<1>2. /\ call' \in Calls /\ call'.at = "send" /\ call'.send = rs
      /\ call'.want = Len(rs) /\ call'.got = <<>>
  BY <1>1, BeginFacts DEF PipeSend
<1> QED BY <1>2 DEF InTurn, Waiting, Errors, Answered

\* and so is one that makes no call.
LEMMA RestFacts ==
  ASSUME call' = NoCall, pubsub'.at = "closed", Quiet', ~Waiting',
         pipe'.at \in {"idle", "begin"} => ~pipe'.watching
  PROVE  InTurn' /\ ~Answered'
BY NoCallFacts DEF InTurn, Errors, Answered

\* A step of the user that leaves the sockets alone.
LEMMA PipelineStays ==
  ASSUME RedisPyInv, pubsub.at = "closed", UNCHANGED socketVars, NewSession,
         UNCHANGED <<conf, pubsubVars, x, writes, executed>>,
         call' \in Calls, pipe' \in Pipes, returned' \in Nat, InTurn', Returns',
         Unwatching' /\ sock # NoSock => watch[sock] = "no",
         watch' = watch => (~conf.health => Reading')
  PROVE  RedisPyInv'
<1>1. SocketInv' /\ watch' = watch /\ subs' = subs BY StillFacts DEF RedisPyInv
<1>2. UserTypes' BY DEF RedisPyInv, UserTypes, pubsubVars
<1>3. Plain' BY <1>1 DEF RedisPyInv, Plain, pubsubVars, socketVars
<1>4. ~conf.health => Counted' BY <1>1 DEF RedisPyInv, Guarded, Counted, ExecsValid, Valid, socketVars
<1>5. Known' BY DEF RedisPyInv, Known, pubsubVars
<1> QED BY <1>1, <1>2, <1>3, <1>4, <1>5 DEF RedisPyInv, Guarded

\* The reply that a pipeline with nothing left to wait for has got.
LEMMA DoneFacts ==
  ASSUME RedisPyInv, pubsub.at = "closed", Waiting, Done
  PROVE  /\ Quiet /\ sock \in Sockets /\ Sends /\ Answered
         /\ call.got \in Seq(Requests) /\ Len(call.got) > 0 /\ 1 \in 1..Len(call.got)
         /\ call.got[1] \in Requests /\ call.got[1] \in Answers
<1>1. /\ call.got \in Seq(Requests) /\ Len(call.got) \in Nat /\ call.want \in Nat
      /\ sock \in Sockets \cup {NoSock}
  BY EmptyFacts DEF RedisPyInv, UserTypes, Calls, SocketInv, SocketTypes
<1>2. /\ sock # NoSock /\ Quiet /\ Sends /\ call.want = 0
      /\ Len(call.got) + call.want = Len(call.send) /\ Every(call.got, Answers)
  BY DEF RedisPyInv, InTurn, Done
<1>3. Len(call.got) > 0 /\ 1 \in 1..Len(call.got) BY <1>1, <1>2 DEF Sends
<1>4. call.got[1] \in Requests /\ call.got[1] \in Answers BY <1>1, <1>2, <1>3 DEF Every
<1>5. call.got # <<>> BY <1>1, <1>3
<1>6. Answered BY <1>2, <1>5 DEF Answered, Done
<1> QED BY <1>1, <1>2, <1>3, <1>4, <1>6

LEMMA FailedFacts ==
  ASSUME RedisPyInv, Failed
  PROVE  sock = NoSock /\ ~up
BY DEF RedisPyInv, InTurn, Failed, SocketInv, Apart, SocketTypes

-----------------------------------------------------------------------------
(* The steps of the user of a pipeline. *)

LEMMA BeginTransactionStep ==
  ASSUME RedisPyInv, pubsub.at = "closed", NEW mode \in Modes, BeginTransaction(mode), NewSession,
         UNCHANGED <<conf, pubsubVars, x, writes, executed>>
  PROVE  RedisPyInv'
<1>1. pipe \in Pipes /\ pipe.at = "idle" /\ pipe' = [pipe EXCEPT !.at = "begin", !.mode = mode]
      /\ UNCHANGED <<socketVars, call, returned>> /\ ~pipe.watching
      /\ call = NoCall /\ Quiet
  BY DEF BeginTransaction, RedisPyInv, UserTypes, InTurn, Waiting
<1>2. pipe' \in Pipes /\ pipe'.at = "begin" /\ ~pipe'.watching
  BY <1>1 DEF Pipes, PipeSteps
<1>3. Quiet' BY <1>1 DEF Quiet, socketVars
<1>4. InTurn' /\ ~Answered' BY <1>1, <1>2, <1>3, RestFacts DEF Waiting, pubsubVars
<1>5. Returns' BY <1>1, <1>2 DEF RedisPyInv, UserTypes, Returns, Confirmed
<1>6. Unwatching' /\ sock # NoSock => watch[sock] = "no"
  BY <1>1 DEF RedisPyInv, Plain, Unwatching
<1>7. Reading' BY <1>2 DEF Reading, Waiting
<1>8. call' \in Calls /\ returned' \in Nat BY <1>1 DEF RedisPyInv, UserTypes
<1> QED BY <1>1, <1>2, <1>4, <1>5, <1>6, <1>7, <1>8, PipelineStays

\* WATCH has been replied to, so that the session watches the number.
LEMMA WatchedStep ==
  ASSUME RedisPyInv, pubsub.at = "closed", Watched, NewSession,
         UNCHANGED <<conf, pubsubVars, x, writes, executed>>
  PROVE  RedisPyInv'
<1> DEFINE rs == <<Request("GET", 0, {})>>
<1>1. /\ pipe \in Pipes /\ pipe.at = "watch" /\ Done /\ Waiting
      /\ pipe' = [pipe EXCEPT !.at = "get", !.watching = TRUE]
      /\ PipeSend(rs) /\ UNCHANGED <<socketVars, returned>>
  BY DEF Watched, RedisPyInv, UserTypes, Waiting
<1>2. pipe' \in Pipes /\ pipe'.at = "get" /\ pipe'.watching
  BY <1>1 DEF Pipes, PipeSteps
<1>3. Quiet /\ sock \in Sockets /\ Answered BY <1>1, DoneFacts
<1>4. Request("GET", 0, {}) \in Requests /\ Request("GET", 0, {}).op = "GET"
  BY RequestFacts DEF Operations
<1>5. rs \in Seq(Requests) /\ Len(rs) = 1 /\ rs[1].op = "GET"
  BY <1>4, SingleFacts
<1> HIDE DEF rs
<1>6. call'.send = rs BY <1>1 DEF PipeSend, Begin
<1>7. Sends' BY <1>2, <1>5, <1>6, AskedAlone DEF Sends
<1>8. Quiet' BY <1>1, <1>3 DEF Quiet, socketVars
<1>9. /\ InTurn' /\ ~Answered'
      /\ call' \in Calls /\ call'.at = "send" /\ call'.send = rs /\ call'.got = <<>>
  BY <1>1, <1>2, <1>5, <1>7, <1>8, SendFacts DEF Waiting, pubsubVars
<1>10. Returns' BY <1>1, <1>2 DEF RedisPyInv, UserTypes, Returns, Confirmed
<1>11. ~Unwatching' BY <1>2, <1>9 DEF Unwatching
<1>12. ASSUME ~conf.health, watch' = watch PROVE Reading'
  <2>1. up => watch[sock] # "no"
    BY <1>1, <1>3, <1>12 DEF RedisPyInv, Guarded, Reading
  <2>2. Every(<<>>, ReadsNow') BY DEF Every
  <2>3. outbox'[sock'] = <<>> /\ sock' = sock /\ sock # NoSock /\ up' = up
    BY <1>1, <1>3, SocketsFacts DEF Quiet, socketVars
  <2> QED BY <1>2, <1>9, <1>12, <2>1, <2>2, <2>3 DEF Reading, Waiting
<1>13. returned' \in Nat BY <1>1 DEF RedisPyInv, UserTypes
<1> QED BY <1>1, <1>2, <1>9, <1>10, <1>11, <1>12, <1>13, PipelineStays

\* The number has been read: EXEC will set it to the next one.
LEMMA GotStep ==
  ASSUME RedisPyInv, pubsub.at = "closed", Got, NewSession,
         UNCHANGED <<conf, pubsubVars, x, writes, executed>>
  PROVE  RedisPyInv'
<1> DEFINE n == call.got[1].n
           rs == <<Exec(n + 1)>>
<1>1. /\ pipe \in Pipes /\ pipe.at = "get" /\ Done /\ Waiting
      /\ pipe' = [pipe EXCEPT !.at = "exec"]
      /\ PipeSend(rs) /\ UNCHANGED <<socketVars, returned>>
  BY DEF Got, RedisPyInv, UserTypes, Waiting, Reply
<1>2. /\ Quiet /\ sock \in Sockets /\ Sends /\ call.got[1] \in Requests /\ call.got[1] \in Answers
      /\ 1 \in 1..Len(call.got)
  BY <1>1, DoneFacts
<1>3. pipe.watching /\ call.got[1].op = "GET" BY <1>1, <1>2 DEF Sends, Answers
<1>4. pipe' \in Pipes /\ pipe'.at = "exec" /\ pipe'.watching
  BY <1>1, <1>3 DEF Pipes, PipeSteps
<1>5. n \in Nat BY <1>2 DEF Requests
<1> HIDE DEF n
<1>6. Exec(n + 1) \in Requests /\ Exec(n + 1).op = "EXEC" /\ Exec(n + 1).n = n + 1
  BY <1>5, RequestFacts
<1>7. rs \in Seq(Requests) /\ Len(rs) = 1 /\ rs[1].op = "EXEC" /\ rs[1].n = n + 1
  BY <1>6, SingleFacts
<1> HIDE DEF rs
<1>8. call'.send = rs BY <1>1 DEF PipeSend, Begin
<1>9. Sends' BY <1>4, <1>7, <1>8, AskedAlone DEF Sends
<1>10. Quiet' BY <1>1, <1>2 DEF Quiet, socketVars
<1>11. /\ InTurn' /\ ~Answered'
       /\ call' \in Calls /\ call'.at = "send" /\ call'.send = rs /\ call'.got = <<>>
  BY <1>1, <1>4, <1>7, <1>9, <1>10, SendFacts DEF Waiting, pubsubVars
<1>12. Returns' BY <1>1, <1>4, <1>11 DEF RedisPyInv, UserTypes, Returns, Confirmed
<1>13. ~Unwatching' BY <1>4, <1>11 DEF Unwatching
<1>14. ASSUME ~conf.health, watch' = watch PROVE Reading'
  <2>1. /\ up => watch[sock] # "no"
        /\ watch[sock] = "clean" => Every(call.got, ReadsNow)
    BY <1>1, <1>14 DEF RedisPyInv, Guarded, Reading, Done
  <2>2. watch[sock] = "clean" => n = x BY <1>2, <1>3, <2>1 DEF Every, ReadsNow, n
  <2>3. sock' = sock /\ up' = up /\ sock # NoSock BY <1>1, <1>2, SocketsFacts DEF socketVars
  <2>4. up' => Valid(sock, call.send[1].n)'
    BY <1>7, <1>8, <1>14, <2>1, <2>2, <2>3 DEF Valid
  <2> QED BY <1>4, <1>11, <2>3, <2>4 DEF Reading, Waiting
<1>15. returned' \in Nat BY <1>1 DEF RedisPyInv, UserTypes
<1> QED BY <1>1, <1>4, <1>11, <1>12, <1>13, <1>14, <1>15, PipelineStays

\* reset() begins, on a quiet connection or none.
LEMMA ResettingStep ==
  ASSUME RedisPyInv, pubsub.at = "closed", Waiting, Done \/ Failed,
         NEW after \in {"retry", "raise"}, Resetting(after), pipe.watching \/ Failed,
         NewSession, UNCHANGED <<socketVars, conf, pubsubVars, x, writes, executed, returned>>
  PROVE  RedisPyInv'
<1>1. /\ pipe' \in Pipes /\ pipe'.at = "reset" /\ pipe'.watching = pipe.watching
      /\ pipe'.after = after /\ call' = NoCall
  BY ResettingFacts DEF RedisPyInv, UserTypes
<1>2. Quiet BY DoneFacts, FailedFacts DEF Quiet
<1>3. Quiet' BY <1>2 DEF Quiet, socketVars
<1>4. InTurn' /\ ~Answered' BY <1>1, <1>3, RestFacts DEF Waiting, pubsubVars
<1>5. Returns' BY <1>1 DEF RedisPyInv, UserTypes, Returns, Confirmed
<1>6. Unwatching' /\ sock # NoSock => watch[sock] = "no" BY <1>1, FailedFacts DEF Unwatching
<1>7. Reading' BY <1>1 DEF Reading, Waiting
<1>8. call' \in Calls /\ returned' \in Nat BY <1>1, NoCallFacts DEF RedisPyInv, UserTypes
<1> QED BY <1>1, <1>4, <1>5, <1>6, <1>7, <1>8, PipelineStays

LEMMA UserRaisesStep ==
  ASSUME RedisPyInv, pubsub.at = "closed", UserRaises, NewSession,
         UNCHANGED <<conf, pubsubVars, x, writes, executed>>
  PROVE  RedisPyInv'
<1>1. /\ pipe.at = "get" /\ Done /\ Waiting /\ Resetting("raise") /\ UNCHANGED <<socketVars, returned>>
  BY DEF UserRaises, Waiting
<1>2. pipe.watching BY <1>1, DoneFacts DEF Sends
<1> QED BY <1>1, <1>2, ResettingStep

\* A transaction that does not watch yet is sent again.
LEMMA RetryStep ==
  ASSUME RedisPyInv, pubsub.at = "closed", pipe.at \in {"watch", "get", "exec"}, Failed,
         ~pipe.watching, pipe' = [pipe EXCEPT !.retried = TRUE], PipeSend(call.send), NewSession,
         UNCHANGED <<socketVars, conf, pubsubVars, x, writes, executed, returned>>
  PROVE  RedisPyInv'
<1>1. pipe \in Pipes /\ call.send \in Seq(Requests) /\ call \in Calls
  BY DEF RedisPyInv, UserTypes, Calls
<1>2. pipe' \in Pipes /\ pipe'.at = pipe.at /\ ~pipe'.watching
  BY <1>1 DEF Pipes
<1>3. Waiting /\ Waiting' BY <1>2 DEF Waiting
<1>4. Sends BY <1>3 DEF RedisPyInv, InTurn
<1>5. call'.send = call.send BY DEF PipeSend, Begin
<1>6. Sends' BY <1>2, <1>4, <1>5 DEF Sends, Every, Asked
<1>7. sock = NoSock /\ ~up BY FailedFacts
<1>8. Quiet' BY <1>7 DEF Quiet, socketVars
<1>9. /\ InTurn' /\ ~Answered'
      /\ call' \in Calls /\ call'.at = "send" /\ call'.got = <<>>
  BY <1>1, <1>3, <1>6, <1>8, SendFacts DEF pubsubVars
<1>10. Returns' BY <1>2, <1>9 DEF RedisPyInv, UserTypes, Returns, Confirmed
<1>11. pipe.at # "get" BY <1>4 DEF Sends
<1>12. Reading' BY <1>2, <1>9, <1>11 DEF Reading
<1>13. returned' \in Nat BY DEF RedisPyInv, UserTypes
<1> QED BY <1>2, <1>7, <1>9, <1>10, <1>12, <1>13, PipelineStays

LEMMA AttemptErrorStep ==
  ASSUME RedisPyInv, pubsub.at = "closed", AttemptError, NewSession,
         UNCHANGED <<conf, pubsubVars, x, writes, executed>>
  PROVE  RedisPyInv'
<1>1. pipe.at \in {"watch", "get", "exec"} /\ Failed /\ UNCHANGED <<socketVars, returned>> /\ Waiting
  BY DEF AttemptError, Waiting
<1>2. CASE pipe.watching BY <1>1, <1>2, ResettingStep DEF AttemptError
<1>3. CASE ~pipe.watching BY <1>1, <1>3, ResettingStep, RetryStep DEF AttemptError
<1> QED BY <1>2, <1>3

\* EXEC, or the pipeline, has been replied to: the session watches no more, and if
\* the transaction will return it has been carried out.
LEMMA ExecutedStep ==
  ASSUME RedisPyInv, pubsub.at = "closed", Executed, NewSession,
         UNCHANGED <<conf, pubsubVars, x, writes, executed>>
  PROVE  RedisPyInv'
<1> DEFINE after == IF call.got[1].op = "NIL" THEN "retry" ELSE "return"
<1>1. /\ pipe \in Pipes /\ pipe.at = "exec" /\ Done /\ Waiting
      /\ pipe' = [pipe EXCEPT !.at = "reset", !.watching = FALSE, !.after = after]
      /\ call' = NoCall /\ UNCHANGED <<socketVars, returned>>
  BY DEF Executed, RedisPyInv, UserTypes, Waiting, Reply
<1>2. after \in {"return", "retry"} OBVIOUS
<1>3. after = "return" => call.got[1].op # "NIL" OBVIOUS
<1> HIDE DEF after
<1>4. pipe' \in Pipes /\ pipe'.at = "reset" /\ ~pipe'.watching /\ pipe'.after = after
  BY <1>1, <1>2 DEF Pipes, PipeSteps
<1>5. /\ Quiet /\ sock \in Sockets /\ Answered /\ call.got[1] \in Requests /\ 1 \in 1..Len(call.got)
  BY <1>1, DoneFacts
<1>6. Quiet' BY <1>1, <1>5 DEF Quiet, socketVars
<1>7. InTurn' /\ ~Answered' BY <1>1, <1>4, <1>6, RestFacts DEF Waiting, pubsubVars
<1>8. watch[sock] = "no" BY <1>1, <1>5, SocketsFacts DEF RedisPyInv, Plain, Unwatching
<1>9. after = "return" => Confirmed
  BY <1>1, <1>3, <1>5 DEF Confirmed, SomeIn, Succeeded, Done
<1>10. Returns' BY <1>1, <1>4, <1>9 DEF RedisPyInv, UserTypes, Returns, Confirmed
<1>11. Reading' BY <1>4 DEF Reading, Waiting
<1>12. call' \in Calls /\ returned' \in Nat BY <1>1, NoCallFacts DEF RedisPyInv, UserTypes
<1> QED BY <1>1, <1>4, <1>7, <1>8, <1>10, <1>11, <1>12, PipelineStays

\* The connection goes back to the pool.
LEMMA ReleasedStep ==
  ASSUME RedisPyInv, pubsub.at = "closed", Released, Quiet, NewSession,
         sock # NoSock => watch[sock] = "no",
         pipe.after = "return" => Confirmed,
         UNCHANGED <<conf, pubsubVars, x, writes, executed>>
  PROVE  RedisPyInv'
<1>1. /\ pipe' \in Pipes /\ pipe'.at \in {"idle", "begin"} /\ ~pipe'.watching
      /\ call' = NoCall
      /\ returned' = (IF pipe.after = "return" THEN returned + 1 ELSE returned) /\ returned' \in Nat
      /\ UNCHANGED socketVars
  BY ReleasedFacts DEF RedisPyInv, UserTypes
<1>2. Quiet' BY <1>1 DEF Quiet, socketVars
<1>3. InTurn' /\ ~Answered' BY <1>1, <1>2, RestFacts DEF Waiting, pubsubVars
<1>4. Returns' BY <1>1 DEF RedisPyInv, UserTypes, Returns, Confirmed
<1>5. Reading' BY <1>1 DEF Reading, Waiting
<1>6. call' \in Calls BY <1>1, NoCallFacts
<1> QED BY <1>1, <1>3, <1>4, <1>5, <1>6, PipelineStays

LEMMA ResetStep ==
  ASSUME RedisPyInv, pubsub.at = "closed", Reset, NewSession,
         UNCHANGED <<conf, pubsubVars, x, writes, executed>>
  PROVE  RedisPyInv'
<1>1. pipe \in Pipes /\ pipe.at = "reset" /\ Quiet
  BY DEF Reset, RedisPyInv, UserTypes, InTurn, Waiting
<1>2. CASE ~pipe.watching
  <2>1. Released BY <1>2 DEF Reset
  <2>2. sock # NoSock => watch[sock] = "no" BY <1>1, <1>2 DEF RedisPyInv, Plain, Unwatching
  <2>3. pipe.after = "return" => Confirmed BY <1>1 DEF Confirmed
  <2> QED BY <1>1, <2>1, <2>2, <2>3, ReleasedStep
<1>3. CASE pipe.watching
  <2> DEFINE rs == <<Request("UNWATCH", 0, {})>>
  <2>1. PipeSend(rs) /\ pipe' = [pipe EXCEPT !.at = "unwatch"] /\ UNCHANGED <<socketVars, returned>>
    BY <1>3 DEF Reset
  <2>2. pipe' \in Pipes /\ pipe'.at = "unwatch" /\ pipe'.watching /\ pipe'.after = pipe.after
    BY <1>1, <1>3, <2>1 DEF Pipes, PipeSteps
  <2>3. Request("UNWATCH", 0, {}) \in Requests /\ Request("UNWATCH", 0, {}).op = "UNWATCH"
    BY RequestFacts DEF Operations
  <2>4. rs \in Seq(Requests) /\ Len(rs) = 1 /\ rs[1].op = "UNWATCH" BY <2>3, SingleFacts
  <2> HIDE DEF rs
  <2>5. call'.send = rs BY <2>1 DEF PipeSend, Begin
  <2>6. Sends' BY <2>2, <2>4, <2>5, AskedAlone DEF Sends
  <2>7. Quiet' BY <1>1, <2>1 DEF Quiet, socketVars
  <2>8. /\ InTurn' /\ ~Answered'
        /\ call' \in Calls /\ call'.at = "send" /\ call'.got = <<>>
    BY <2>1, <2>2, <2>4, <2>6, <2>7, SendFacts DEF Waiting, pubsubVars
  <2>9. Returns' BY <1>1, <2>1, <2>2 DEF RedisPyInv, UserTypes, Returns, Confirmed
  <2>10. ~Unwatching' BY <2>2, <2>8 DEF Unwatching
  <2>11. Reading' BY <2>2, <2>8 DEF Reading
  <2>12. returned' \in Nat BY <2>1 DEF RedisPyInv, UserTypes
  <2> QED BY <2>1, <2>2, <2>8, <2>9, <2>10, <2>11, <2>12, PipelineStays
<1> QED BY <1>2, <1>3

LEMMA UnwatchedStep ==
  ASSUME RedisPyInv, pubsub.at = "closed", Unwatched, NewSession,
         UNCHANGED <<conf, pubsubVars, x, writes, executed>>
  PROVE  RedisPyInv'
<1>1. pipe.at = "unwatch" /\ Waiting /\ Released /\ (Done \/ Failed)
  BY DEF Unwatched, Waiting, Done, Failed, Errors
<1>2. Quiet BY <1>1, DoneFacts, FailedFacts DEF Quiet
<1>3. sock # NoSock => watch[sock] = "no"
  BY <1>1, DoneFacts, FailedFacts DEF RedisPyInv, Plain, Unwatching
<1>4. pipe.after = "return" => Confirmed BY <1>1 DEF Confirmed
<1> QED BY <1>1, <1>2, <1>3, <1>4, ReleasedStep

LEMMA UnwatchTimesOutStep ==
  ASSUME RedisPyInv, pubsub.at = "closed", UnwatchTimesOut, NewSession,
         UNCHANGED <<conf, pubsubVars, x, writes, executed>>
  PROVE  RedisPyInv'
<1>1. /\ Waiting /\ Failed /\ Resetting("raise") /\ UNCHANGED <<socketVars, returned>>
  BY DEF UnwatchTimesOut, Waiting, Failed, Errors
<1> QED BY <1>1, ResettingStep

-----------------------------------------------------------------------------
(* The sockets of a pipeline. *)

\* What is left on other sockets is as valid as it was.
LEMMA CountedLeave ==
  ASSUME SocketInv, SocketInv', Leftovers, Counted, UNCHANGED <<x, writes, executed>>,
         sock' # NoSock => \A i \in 1..Len(inbox'[sock']) : inbox'[sock'][i].op # "EXEC"
  PROVE  Counted'
<1>1. \A s \in Sockets : inbox[s] \in Seq(Requests) /\ inbox'[s] \in Seq(Requests)
  BY DEF SocketInv, SocketTypes
<1>2. ASSUME NEW s \in Sockets, NEW i \in 1..Len(inbox'[s]), inbox'[s][i].op = "EXEC"
      PROVE  Len(inbox'[s]) = 1 /\ watch'[s] # "no" /\ (watch'[s] = "clean" => inbox'[s][i].n = x' + 1)
  <2>1. s # sock' BY <1>2, SocketsFacts
  <2>2. PICK j \in 1..Len(inbox[s]) : inbox'[s][i] = inbox[s][j] BY <1>2, <2>1 DEF Leftovers
  <2>3. Len(inbox[s]) = 1 /\ Valid(s, inbox'[s][i].n) BY <1>2, <2>2 DEF Counted, ExecsValid
  <2>4. Len(inbox'[s]) \in Nat /\ Len(inbox'[s]) > 0 /\ inbox'[s] # <<>>
    <3>1. inbox'[s] \in Seq(Requests) BY <1>1
    <3> QED BY <3>1
  <2>5. Len(inbox'[s]) <= 1 /\ watch'[s] = watch[s] BY <2>1, <2>3, <2>4 DEF Leftovers
  <2>6. Len(inbox'[s]) = 1
    <3>1. \A k \in Nat : k > 0 /\ k <= 1 => k = 1 OBVIOUS
    <3> QED BY <2>4, <2>5, <3>1
  <2>7. x' = x OBVIOUS
  <2>8. watch'[s] # "no" /\ (watch'[s] = "clean" => inbox'[s][i].n = x + 1) BY <2>3, <2>5 DEF Valid
  <2> QED BY <2>6, <2>7, <2>8
<1>3. ExecsValid' BY <1>2 DEF ExecsValid, Valid
<1> QED BY <1>3 DEF Counted

LEMMA AttemptStep ==
  ASSUME RedisPyInv, pubsub.at = "closed", Attempt, NewSession,
         UNCHANGED <<conf, pubsubVars, x, writes, executed>>
  PROVE  RedisPyInv'
<1>1. /\ pipe \in Pipes /\ pipe.at = "begin" /\ ~pipe.watching /\ Quiet /\ subs = {}
      /\ sock # NoSock => watch[sock] = "no"
      /\ Provide /\ returned' = returned
  BY DEF Attempt, RedisPyInv, UserTypes, InTurn, Plain, Unwatching, Waiting
<1>2. SocketInv' /\ Leftovers /\ Fresh(<<>>) BY <1>1, ProvideFacts DEF RedisPyInv
<1>3. pipe' \in Pipes /\ ~pipe'.watching /\ pipe'.at \in {"watch", "exec"}
      /\ pipe.mode \in Modes /\ pipe'.at = IF pipe.mode = "watch" THEN "watch" ELSE "exec"
  BY <1>1 DEF Attempt, Pipes, PipeSteps
<1>4. \E rs \in Seq(Requests) :
        /\ PipeSend(rs) /\ Len(rs) \in {1, 2} /\ \A i \in 1..Len(rs) : rs[i] = rs[1]
        /\ pipe'.at = "watch" => rs[1].op = "WATCH"
        /\ pipe'.at = "exec" => rs[1].op = "INCR"
  <2>1. Request("WATCH", 0, {}) \in Requests /\ Request("WATCH", 0, {}).op = "WATCH"
    BY RequestFacts DEF Operations
  <2>2. CASE pipe.mode = "watch"
    <3>1. <<Request("WATCH", 0, {})>> \in Seq(Requests) /\ PipeSend(<<Request("WATCH", 0, {})>>)
      BY <2>1, <2>2, SingleFacts DEF Attempt
    <3> DEFINE rs == <<Request("WATCH", 0, {})>>
    <3>2. Len(rs) = 1 /\ rs[1].op = "WATCH" BY <2>1, SingleFacts
    <3>3. pipe'.at = "watch" BY <1>3, <2>2
    <3> HIDE DEF rs
    <3>4. \A i \in 1..Len(rs) : rs[i] = rs[1] BY <3>2
    <3>5. rs \in Seq(Requests) /\ PipeSend(rs) BY <3>1 DEF rs
    <3> QED BY <3>2, <3>3, <3>4, <3>5
  <2>3. CASE pipe.mode # "watch"
    <3>1. PipeSend(<<Incr, Incr>>) BY <2>3 DEF Attempt
    <3>2. <<Incr, Incr>> \in Seq(Requests) /\ Len(<<Incr, Incr>>) = 2
          /\ \A i \in 1..2 : <<Incr, Incr>>[i] = Incr
      BY RequestFacts
    <3>3. <<Incr, Incr>>[1].op = "INCR" BY <3>2, RequestFacts
    <3>4. pipe'.at = "exec" BY <1>3, <2>3
    <3> QED BY <3>1, <3>2, <3>3, <3>4
  <2> QED BY <2>2, <2>3
<1>5. PICK rs \in Seq(Requests) :
        /\ PipeSend(rs) /\ Len(rs) \in {1, 2} /\ \A i \in 1..Len(rs) : rs[i] = rs[1]
        /\ pipe'.at = "watch" => rs[1].op = "WATCH"
        /\ pipe'.at = "exec" => rs[1].op = "INCR"
  BY <1>4
<1>6. call'.send = rs BY <1>5 DEF PipeSend, Begin
<1>7. Sends' BY <1>3, <1>5, <1>6 DEF Sends, Every, Asked
<1>8. Quiet' BY <1>2 DEF Fresh, Quiet
<1>9. /\ InTurn' /\ ~Answered'
      /\ call' \in Calls /\ call'.at = "send" /\ call'.got = <<>>
  BY <1>1, <1>3, <1>5, <1>7, <1>8, SendFacts DEF Waiting, pubsubVars
<1>10. Returns' BY <1>1, <1>3, <1>9 DEF RedisPyInv, UserTypes, Returns, Confirmed
<1>11. Plain' BY <1>2 DEF RedisPyInv, Plain, Fresh, pubsubVars
<1>12. UserTypes' BY <1>1, <1>3, <1>9 DEF RedisPyInv, UserTypes, pubsubVars
<1>13. ASSUME ~conf.health PROVE Counted' /\ Reading'
  <2>1. Counted BY <1>13 DEF RedisPyInv, Guarded
  <2>2. \A i \in 1..Len(inbox'[sock']) : inbox'[sock'][i].op # "EXEC" BY <1>2 DEF Fresh
  <2>3. Counted' BY <1>2, <2>1, <2>2, CountedLeave DEF RedisPyInv
  <2>4. Reading' BY <1>3, <1>9 DEF Reading
  <2> QED BY <2>3, <2>4
<1>14. Known' BY DEF RedisPyInv, Known, pubsubVars
<1> QED BY <1>2, <1>9, <1>10, <1>11, <1>12, <1>13, <1>14 DEF RedisPyInv, Guarded

LEMMA ProvideFailsFacts ==
  ASSUME RedisPyInv, ProvideFails, NewSession
  PROVE  SocketInv' /\ Leftovers /\ sock' = NoSock /\ ~up' /\ subs' = {}
BY DisconnectFacts DEF ProvideFails, RedisPyInv

LEMMA AttemptFailsStep ==
  ASSUME RedisPyInv, pubsub.at = "closed", AttemptFails, NewSession,
         UNCHANGED <<conf, pubsubVars, x, writes, executed>>
  PROVE  RedisPyInv'
<1>1. /\ pipe.at = "begin" /\ ProvideFails /\ pipe' = NoPipe /\ call' = call /\ returned' = returned
      /\ call = NoCall
  BY DEF AttemptFails, RedisPyInv, InTurn, Waiting
<1>2. SocketInv' /\ Leftovers /\ sock' = NoSock /\ ~up' /\ subs' = {} BY <1>1, ProvideFailsFacts
<1>3. pipe' \in Pipes /\ pipe'.at = "idle" /\ ~pipe'.watching BY <1>1, NoPipeFacts
<1>4. Quiet' BY <1>2 DEF Quiet
<1>5. InTurn' /\ ~Answered' BY <1>1, <1>3, <1>4, RestFacts DEF Waiting, pubsubVars
<1>6. Returns' BY <1>1, <1>3 DEF RedisPyInv, UserTypes, Returns, Confirmed
<1>7. Plain' BY <1>2 DEF RedisPyInv, Plain, pubsubVars
<1>8. UserTypes' BY <1>1, <1>3 DEF RedisPyInv, UserTypes, pubsubVars
<1>9. ~conf.health => Counted' BY <1>2, CountedLeave DEF RedisPyInv, Guarded
<1>10. Reading' BY <1>3 DEF Reading, Waiting
<1>11. Known' BY DEF RedisPyInv, Known, pubsubVars
<1> QED BY <1>2, <1>5, <1>6, <1>7, <1>8, <1>9, <1>10, <1>11 DEF RedisPyInv, Guarded

\* A step of the connection during a call of the pipeline.
PipelineCall ==
  /\ RedisPyInv /\ pubsub.at = "closed" /\ Waiting /\ NewSession
  /\ UNCHANGED <<conf, pubsubVars, pipelineVars, x, writes, executed>>

LEMMA PipelineCallFacts ==
  ASSUME PipelineCall
  PROVE  /\ call \in Calls /\ call.send \in Seq(Requests) /\ call.got \in Seq(Requests)
         /\ call.want \in Nat /\ Len(call.got) \in Nat /\ Len(call.send) > 0 /\ Len(call.send) \in Nat
         /\ sock \in Sockets \cup {NoSock} /\ SocketInv
         /\ Sends /\ Waiting' /\ subs = {} /\ ~callback
         /\ pubsub' = pubsub /\ pipe' = pipe /\ returned' = returned /\ callback' = callback
<1>1. call \in Calls /\ SocketInv /\ sock \in Sockets \cup {NoSock}
  BY DEF PipelineCall, RedisPyInv, UserTypes, SocketInv, SocketTypes
<1>2. call.send \in Seq(Requests) /\ call.got \in Seq(Requests) /\ call.want \in Nat
  BY <1>1 DEF Calls
<1>3. Sends /\ subs = {} /\ ~callback BY DEF PipelineCall, RedisPyInv, InTurn, Plain
<1>4. pubsub' = pubsub /\ pipe' = pipe /\ returned' = returned /\ callback' = callback
  BY DEF PipelineCall, pipelineVars, pubsubVars
<1>5. Waiting' BY <1>4 DEF PipelineCall, Waiting
<1>6. Len(call.got) \in Nat /\ Len(call.send) \in Nat BY <1>2
<1>7. Len(call.send) > 0 BY <1>3 DEF Sends
<1> QED BY <1>1, <1>2, <1>3, <1>4, <1>5, <1>6, <1>7

LEMMA PipelineCallStep ==
  ASSUME PipelineCall, SocketInv', call' \in Calls, InTurn', Plain',
         Confirmed' => Confirmed, ~conf.health => Counted' /\ Reading'
  PROVE  RedisPyInv'
<1>1. UserTypes' BY DEF PipelineCall, RedisPyInv, UserTypes, pipelineVars, pubsubVars
<1>2. Returns' BY DEF PipelineCall, RedisPyInv, UserTypes, Returns, pipelineVars
<1>3. Known' BY DEF PipelineCall, RedisPyInv, Known, pubsubVars
<1> QED BY <1>1, <1>2, <1>3 DEF PipelineCall, RedisPyInv, Guarded

\* A call that fails, or will be sent on another socket, has lost its own.
LEMMA LostStep ==
  ASSUME PipelineCall, NEW step \in Errors \cup {"again"}, At(step),
         SocketInv', Leftovers, sock' = NoSock, ~up', subs' = {},
         step = "again" => call.at = "pong"
  PROVE  RedisPyInv'
<1>1. /\ call' \in Calls /\ call'.at = step /\ call'.send = call.send
      /\ call'.want = call.want /\ call'.got = call.got
  BY PipelineCallFacts, AtFacts DEF CallSteps, Errors
<1>2. Sends' BY <1>1, PipelineCallFacts DEF Sends, Every, Asked
<1>3. Quiet' BY DEF Quiet
<1>4. step = "again" => call'.got = <<>> /\ call'.want = Len(call'.send)
  BY <1>1 DEF PipelineCall, RedisPyInv, InTurn
<1>5. pipe'.at \in {"idle", "begin"} => ~pipe'.watching
  BY PipelineCallFacts DEF PipelineCall, Waiting
<1>6. InTurn'
  BY <1>1, <1>2, <1>3, <1>4, <1>5, PipelineCallFacts DEF PipelineCall, InTurn, Waiting, Errors
<1>7. Plain' BY PipelineCallFacts DEF Plain
<1>8. Confirmed' => Confirmed BY <1>1, PipelineCallFacts DEF Confirmed, Errors
<1>9. ASSUME ~conf.health PROVE Counted' /\ Reading'
  <2>1. step # "again" BY <1>9 DEF PipelineCall, RedisPyInv, Guarded, Reading
  <2>2. Reading' BY <1>1, <2>1 DEF Reading, Errors, Answered
  <2>3. Counted' BY <1>9, CountedLeave DEF PipelineCall, RedisPyInv, Guarded
  <2> QED BY <2>2, <2>3
<1> QED BY <1>1, <1>6, <1>7, <1>8, <1>9, PipelineCallStep

LEMMA LostSteps ==
  ASSUME PipelineCall, NEW e \in Errors, ConnectFails(e) \/ NoPong(e) \/ WriteFails(e) \/ ReadFails(e)
  PROVE  RedisPyInv'
<1>1. CASE ConnectFails(e)
  <2>1. sock = NoSock /\ UNCHANGED socketVars /\ At(e) BY <1>1 DEF ConnectFails
  <2>2. SocketInv' /\ watch' = watch /\ subs' = subs
    BY <2>1, StillFacts, PipelineCallFacts DEF PipelineCall
  <2>3. Leftovers
    <3>1. \A s \in Sockets : Len(inbox[s]) \in Nat BY PipelineCallFacts DEF SocketInv, SocketTypes
    <3> QED BY <2>1, <2>2, <3>1 DEF Leftovers, socketVars
  <2>4. ~up BY <2>1, PipelineCallFacts DEF SocketInv, SocketTypes, Apart
  <2> QED BY <2>1, <2>2, <2>3, <2>4, LostStep, PipelineCallFacts DEF socketVars, Errors
<1>2. CASE NoPong(e) \/ WriteFails(e) \/ ReadFails(e)
  <2>1. Disconnect BY <1>2 DEF NoPong, WriteFails, ReadFails
  <2>2. SocketInv' /\ Leftovers /\ sock' = NoSock /\ ~up' /\ subs' = {}
    BY <2>1, DisconnectFacts, PipelineCallFacts DEF PipelineCall
  <2>3. \E step \in Errors \cup {"again"} : At(step) /\ (step = "again" => call.at = "pong")
    BY <1>2 DEF NoPong, WriteFails, ReadFails, Errors
  <2> QED BY <2>2, <2>3, LostStep
<1> QED BY <1>1, <1>2

LEMMA ConnectStep ==
  ASSUME PipelineCall, Connect(<<>>)
  PROVE  RedisPyInv'
<1>1. /\ call.at \in {"send", "again"} /\ sock = NoSock /\ NewSocket(<<>>) /\ call' = call
  BY DEF Connect
<1>2. SocketInv' /\ Leftovers /\ Fresh(<<>>)
  BY <1>1, NewSocketFacts, NothingFacts, PipelineCallFacts DEF PipelineCall
<1>3. Quiet' BY <1>2 DEF Quiet, Fresh
<1>4. Sends' BY <1>1, PipelineCallFacts DEF Sends, Every, Asked
<1>5. pipe'.at \in {"idle", "begin"} => ~pipe'.watching
  BY PipelineCallFacts DEF PipelineCall, Waiting
<1>6. InTurn'
  BY <1>1, <1>3, <1>4, <1>5, PipelineCallFacts DEF PipelineCall, RedisPyInv, InTurn, Errors
<1>7. Plain' BY <1>2, PipelineCallFacts DEF Plain, Fresh
<1>8. Confirmed' => Confirmed BY <1>1, PipelineCallFacts DEF Confirmed
<1>9. ASSUME ~conf.health PROVE Counted' /\ Reading'
  <2>1. call.at = "send" /\ pipe.at # "get" /\ ~(pipe.at = "exec" /\ pipe.watching)
    BY <1>1, <1>9 DEF PipelineCall, RedisPyInv, Guarded, Reading
  <2>2. Reading' BY <1>1, <2>1, PipelineCallFacts DEF Reading, Answered
  <2>3. \A i \in 1..Len(inbox'[sock']) : inbox'[sock'][i].op # "EXEC" BY <1>2 DEF Fresh
  <2>4. Counted' BY <1>2, <1>9, <2>3, CountedLeave, PipelineCallFacts DEF PipelineCall, RedisPyInv, Guarded
  <2> QED BY <2>2, <2>4
<1>10. call' \in Calls BY <1>1, PipelineCallFacts
<1> QED BY <1>2, <1>6, <1>7, <1>8, <1>9, <1>10, PipelineCallStep

LEMMA SendPingStep ==
  ASSUME PipelineCall, SendPing
  PROVE  RedisPyInv'
<1>1. /\ conf.health /\ sock # NoSock /\ call.at \in {"send", "again"}
      /\ SendOut(<<Ping>>) /\ UNCHANGED <<sock, up, outbox>>
      /\ At("pong") \/ At("pong2")
  BY DEF SendPing
<1>2. <<Ping>> \in Seq(Requests) /\ Len(<<Ping>>) = 1 BY RequestFacts, SingleFacts
<1>3. /\ SocketInv' /\ watch' = watch /\ subs' = subs
      /\ inbox[sock] \in Seq(Requests) /\ sock \in Sockets
      /\ inbox'[sock] = IF up THEN inbox[sock] \o <<Ping>> ELSE <<>>
  BY <1>1, <1>2, SendOutFacts, PipelineCallFacts DEF PipelineCall
<1>4. inbox[sock] = <<>> /\ outbox[sock] = <<>> /\ call.got = <<>> /\ call.want = Len(call.send)
  BY <1>1 DEF PipelineCall, RedisPyInv, InTurn, Quiet
<1>5. inbox'[sock] \in {<<>>, <<Ping>>} BY <1>2, <1>3, <1>4, ConcatFacts
<1>6. /\ call' \in Calls /\ call'.at \in {"pong", "pong2"} /\ call'.send = call.send
      /\ call'.want = call.want /\ call'.got = call.got
  BY <1>1, PipelineCallFacts, AtFacts DEF CallSteps
<1>7. Sends' BY <1>6, PipelineCallFacts DEF Sends, Every, Asked
<1>8. pipe'.at \in {"idle", "begin"} => ~pipe'.watching
  BY PipelineCallFacts DEF PipelineCall, Waiting
<1>9. Len(inbox'[sock]) + Len(outbox'[sock]) <= 1
  <2>1. Len(inbox'[sock]) \in {0, 1} /\ Len(outbox'[sock]) = 0 BY <1>1, <1>2, <1>4, <1>5, NothingFacts
  <2>2. \A k \in {0, 1} : k + 0 <= 1 OBVIOUS
  <2> QED BY <2>1, <2>2
<1>10. InTurn'
  BY <1>1, <1>4, <1>5, <1>6, <1>7, <1>8, <1>9, PipelineCallFacts DEF PipelineCall, InTurn, Errors
<1>11. ~Answered' BY <1>6 DEF Answered
<1>12. Plain'
  BY <1>1, <1>3, <1>11, PipelineCallFacts DEF PipelineCall, RedisPyInv, Plain, Unwatching
<1>13. Confirmed' => Confirmed BY <1>6, PipelineCallFacts DEF Confirmed
<1> QED BY <1>1, <1>3, <1>6, <1>10, <1>12, <1>13, PipelineCallStep

LEMMA ReadPongStep ==
  ASSUME PipelineCall, ReadPong
  PROVE  RedisPyInv'
<1>1. /\ call.at \in {"pong", "pong2"} /\ CanRead /\ outbox' = [outbox EXCEPT ![sock] = Tail(@)]
      /\ At("write") /\ UNCHANGED <<sock, up, inbox>>
  BY DEF ReadPong
<1>2. /\ SocketInv' /\ watch' = watch /\ subs' = subs
      /\ sock \in Sockets /\ outbox[sock] \in Seq(Requests) /\ outbox[sock] # <<>>
      /\ outbox'[sock] = Tail(outbox[sock])
  BY <1>1, PopFacts, PipelineCallFacts DEF PipelineCall
<1>3. /\ call' \in Calls /\ call'.at = "write" /\ call'.send = call.send
      /\ call'.want = call.want /\ call'.got = call.got
  BY <1>1, PipelineCallFacts, AtFacts DEF CallSteps
<1>4. /\ Len(inbox[sock]) + Len(outbox[sock]) <= 1 /\ call.got = <<>> /\ call.want = Len(call.send)
      /\ inbox[sock] \in Seq(Requests)
  BY <1>1, <1>2 DEF PipelineCall, RedisPyInv, InTurn, SocketInv, SocketTypes
<1>5. inbox[sock] = <<>> /\ outbox'[sock] = <<>>
  <2>1. Len(outbox[sock]) \in Nat /\ Len(outbox[sock]) > 0 /\ Len(inbox[sock]) \in Nat
    BY <1>2, <1>4, EmptyFacts
  <2>2. \A k, l \in Nat : k > 0 /\ l + k <= 1 => l = 0 /\ k - 1 = 0 OBVIOUS
  <2>3. Len(inbox[sock]) = 0 /\ Len(outbox[sock]) - 1 = 0 BY <1>4, <2>1, <2>2
  <2>4. Len(Tail(outbox[sock])) = 0 /\ Tail(outbox[sock]) \in Seq(Requests) BY <1>2, <2>3, TailFacts
  <2> QED BY <1>2, <1>4, <2>3, <2>4, EmptyFacts
<1>6. Quiet' BY <1>1, <1>5 DEF Quiet
<1>7. Sends' BY <1>3, PipelineCallFacts DEF Sends, Every, Asked
<1>8. pipe'.at \in {"idle", "begin"} => ~pipe'.watching
  BY PipelineCallFacts DEF PipelineCall, Waiting
<1>9. InTurn'
  BY <1>1, <1>2, <1>3, <1>4, <1>6, <1>7, <1>8, SocketsFacts, PipelineCallFacts DEF PipelineCall, InTurn, Errors
<1>10. ~Answered' BY <1>3 DEF Answered
<1>11. Plain'
  BY <1>1, <1>2, <1>10, PipelineCallFacts DEF PipelineCall, RedisPyInv, Plain, Unwatching
<1>12. Confirmed' => Confirmed BY <1>3, PipelineCallFacts DEF Confirmed
<1>13. conf.health BY <1>1 DEF PipelineCall, RedisPyInv, Guarded, Reading
<1> QED BY <1>2, <1>3, <1>9, <1>11, <1>12, <1>13, PipelineCallStep

\* The requests are written, on a quiet connection.
LEMMA WriteStep ==
  ASSUME PipelineCall, Write
  PROVE  RedisPyInv'
<1>1. /\ call.at \in {"send", "write"} /\ sock # NoSock /\ SendOut(call.send)
      /\ At(IF call.want > 0 THEN "read" ELSE "ok") /\ UNCHANGED <<sock, up, outbox>>
  BY DEF Write
<1>2. /\ SocketInv' /\ watch' = watch /\ subs' = subs
      /\ inbox[sock] \in Seq(Requests) /\ sock \in Sockets
      /\ inbox'[sock] = IF up THEN inbox[sock] \o call.send ELSE <<>>
      /\ \A s \in Sockets \ {sock} : inbox'[s] = inbox[s]
  BY <1>1, SendOutFacts, PipelineCallFacts DEF PipelineCall
<1>3. inbox[sock] = <<>> /\ outbox[sock] = <<>> /\ call.got = <<>> /\ call.want = Len(call.send)
  BY <1>1 DEF PipelineCall, RedisPyInv, InTurn, Quiet
<1>4. inbox'[sock] = IF up THEN call.send ELSE <<>>
  BY <1>2, <1>3, ConcatFacts, PipelineCallFacts
<1>5. call.want > 0 BY <1>3, PipelineCallFacts
<1>6. /\ call' \in Calls /\ call'.at = "read" /\ call'.send = call.send
      /\ call'.want = call.want /\ call'.got = <<>>
  BY <1>1, <1>3, <1>5, PipelineCallFacts, AtFacts DEF CallSteps
<1>7. Sends' BY <1>6, PipelineCallFacts DEF Sends, Every, Asked
<1>8. pipe'.at \in {"idle", "begin"} => ~pipe'.watching
  BY PipelineCallFacts DEF PipelineCall, Waiting
<1>9. outbox'[sock'] = <<>> /\ sock' = sock /\ Every(<<>>, Answers') /\ Every(<<>>, Asked')
  BY <1>1, <1>3 DEF Every
<1>10. Every(inbox'[sock], Asked')
  <2>1. Every(call.send, Asked) /\ Asked' = Asked BY <1>6, PipelineCallFacts DEF Sends, Asked
  <2> QED BY <1>4, <1>9, <2>1
<1>11. Len(call'.got) + call'.want = Len(call'.send)
  BY <1>3, <1>6, NothingFacts, PipelineCallFacts
<1>12. Len(inbox'[sock]) + Len(outbox'[sock]) <= call'.want
  <2>1. \A k \in Nat : k + 0 <= k /\ 0 + 0 <= k OBVIOUS
  <2>2. Len(inbox'[sock]) \in {0, Len(call.send)} /\ Len(outbox'[sock]) = 0
    BY <1>1, <1>3, <1>4, NothingFacts
  <2>3. call'.want = Len(call.send) /\ Len(call.send) \in Nat BY <1>3, <1>6, PipelineCallFacts
  <2> QED BY <2>1, <2>2, <2>3
<1>13. InTurn'
  BY <1>1, <1>5, <1>6, <1>7, <1>8, <1>9, <1>10, <1>11, <1>12, PipelineCallFacts
     DEF PipelineCall, InTurn, Errors
<1>14. ~Answered' BY <1>6, <1>9 DEF Answered
<1>15. Plain'
  BY <1>1, <1>2, <1>14, PipelineCallFacts DEF PipelineCall, RedisPyInv, Plain, Unwatching
<1>16. Confirmed' => Confirmed
  <2>1. ~SomeIn(<<>>, Succeeded) BY DEF SomeIn
  <2> QED BY <1>6, <1>9, <2>1, PipelineCallFacts DEF Confirmed
<1>17. ASSUME ~conf.health PROVE Counted' /\ Reading'
  <2>1. call.at = "send" /\ Counted /\ Reading
    BY <1>1, <1>17 DEF PipelineCall, RedisPyInv, Guarded, Reading
  <2>2. UNCHANGED <<x, writes, executed, pipe>> BY PipelineCallFacts DEF PipelineCall
  <2>3. \A i \in 1..Len(inbox'[sock]) :
          inbox'[sock][i].op = "EXEC" => Len(inbox'[sock]) = 1 /\ Valid(sock, inbox'[sock][i].n)
    <3> SUFFICES ASSUME NEW i \in 1..Len(inbox'[sock]), inbox'[sock][i].op = "EXEC"
                 PROVE  Len(inbox'[sock]) = 1 /\ Valid(sock, inbox'[sock][i].n)
      OBVIOUS
    <3>1. up /\ inbox'[sock] = call.send BY <1>4
    <3>2. call.send[i] = call.send[1] BY <3>1, PipelineCallFacts DEF Sends, Every, Asked
    <3>3. pipe.at = "exec" /\ pipe.watching /\ Len(call.send) = 1
      BY <3>1, <3>2, PipelineCallFacts DEF Sends, PipelineCall, Waiting
    <3>4. Valid(sock, call.send[1].n) BY <2>1, <3>1, <3>3 DEF Reading
    <3> QED BY <3>1, <3>2, <3>3, <3>4
  <2>4. ExecsValid'
    BY <1>2, <2>1, <2>2, <2>3 DEF Counted, ExecsValid, Valid
  <2>5. Every(<<>>, ReadsNow') BY DEF Every
  <2>6. Reading'
    BY <1>1, <1>2, <1>6, <1>9, <1>14, <2>1, <2>2, <2>5 DEF Reading
  <2> QED BY <2>1, <2>2, <2>4, <2>6 DEF Counted
<1> QED BY <1>2, <1>6, <1>13, <1>15, <1>16, <1>17, PipelineCallStep

\* The next reply is read.
LEMMA ReadStep ==
  ASSUME PipelineCall, Read
  PROVE  RedisPyInv'
<1> DEFINE a == Head(outbox[sock])
           step == IF call.want = 1 THEN "ok" ELSE "read"
<1>1. /\ call.at = "read" /\ CanRead /\ outbox' = [outbox EXCEPT ![sock] = Tail(@)]
      /\ call' = [call EXCEPT !.got = Append(@, a), !.want = @ - 1, !.at = step]
      /\ UNCHANGED <<sock, up, inbox>>
  BY DEF Read
<1>2. /\ SocketInv' /\ watch' = watch /\ subs' = subs
      /\ sock \in Sockets /\ outbox[sock] \in Seq(Requests) /\ outbox[sock] # <<>>
      /\ outbox'[sock] = Tail(outbox[sock])
  BY <1>1, PopFacts, PipelineCallFacts DEF PipelineCall
<1>3. /\ a \in Requests /\ a = outbox[sock][1] /\ Len(outbox[sock]) \in Nat /\ Len(outbox[sock]) > 0
      /\ Tail(outbox[sock]) \in Seq(Requests) /\ Len(Tail(outbox[sock])) = Len(outbox[sock]) - 1
  BY <1>2, TailFacts
<1>4. /\ call.want > 0 /\ Len(inbox[sock]) + Len(outbox[sock]) <= call.want
      /\ Every(inbox[sock], Asked) /\ Every(outbox[sock], Answers)
      /\ Len(call.got) + call.want = Len(call.send) /\ Every(call.got, Answers)
      /\ inbox[sock] \in Seq(Requests) /\ Len(inbox[sock]) \in Nat
  BY <1>1, <1>2, EmptyFacts DEF PipelineCall, RedisPyInv, InTurn, SocketInv, SocketTypes
<1>5. Append(call.got, a) \in Seq(Requests) /\ Len(Append(call.got, a)) = Len(call.got) + 1
  BY <1>3, AppendFacts, PipelineCallFacts
<1>6. call.want - 1 \in Nat BY <1>4, PipelineCallFacts
<1>7. step \in {"ok", "read"} /\ (step = "ok" <=> call.want - 1 = 0) BY <1>4, PipelineCallFacts
<1> HIDE DEF a, step
<1>8. /\ call' \in Calls /\ call'.at = step /\ call'.send = call.send
      /\ call'.want = call.want - 1 /\ call'.got = Append(call.got, a)
  BY <1>1, <1>5, <1>6, <1>7, PipelineCallFacts DEF Calls, CallSteps
<1>9. Sends' BY <1>8, PipelineCallFacts DEF Sends, Every, Asked
<1>10. pipe'.at \in {"idle", "begin"} => ~pipe'.watching
  BY PipelineCallFacts DEF PipelineCall, Waiting
<1>11. Answers' = Answers /\ Asked' = Asked BY <1>8 DEF Answers, Asked
<1>12. a \in Answers /\ Every(outbox'[sock], Answers) /\ Every(call'.got, Answers)
  <2>1. a \in Answers /\ Every(outbox'[sock], Answers) BY <1>2, <1>3, <1>4, EveryFacts
  <2>2. Every(call'.got, Answers) BY <1>3, <1>4, <1>8, <2>1, EveryFacts, PipelineCallFacts
  <2> QED BY <2>1, <2>2
<1>13. Len(call'.got) + call'.want = Len(call'.send)
  <2>1. \A k, l, m \in Nat : k + l = m => (k + 1) + (l - 1) = m OBVIOUS
  <2>2. /\ Len(call.got) \in Nat /\ call.want \in Nat /\ Len(call.send) \in Nat
        /\ Len(call.got) + call.want = Len(call.send)
    BY <1>4, PipelineCallFacts
  <2>3. (Len(call.got) + 1) + (call.want - 1) = Len(call.send) BY ONLY <2>1, <2>2
  <2> QED BY <1>5, <1>8, <2>3
<1>14. Len(inbox'[sock]) + Len(outbox'[sock]) <= call'.want
  <2>1. \A k, l, m \in Nat : k + l <= m => k + (l - 1) <= m - 1 OBVIOUS
  <2>2. Len(inbox[sock]) + (Len(outbox[sock]) - 1) <= call.want - 1
    BY <1>3, <1>4, <2>1, PipelineCallFacts
  <2>3. inbox'[sock] = inbox[sock] /\ Len(outbox'[sock]) = Len(outbox[sock]) - 1 BY <1>1, <1>2, <1>3
  <2> QED BY <1>8, <2>2, <2>3
<1>15. step = "ok" => Quiet'
  <2> SUFFICES ASSUME step = "ok" PROVE inbox[sock] = <<>> /\ outbox'[sock] = <<>>
    BY <1>1 DEF Quiet
  <2>1. Len(inbox[sock]) + Len(Tail(outbox[sock])) <= 0 /\ Len(Tail(outbox[sock])) \in Nat
    <3>1. call'.want = 0 BY <1>7, <1>8
    <3>2. inbox'[sock] = inbox[sock] /\ outbox'[sock] = Tail(outbox[sock]) BY <1>1, <1>2
    <3>3. Len(Tail(outbox[sock])) \in Nat BY <1>3, EmptyFacts
    <3> QED BY <1>14, <3>1, <3>2, <3>3
  <2>2. \A k, l \in Nat : k + l <= 0 => k = 0 /\ l = 0 OBVIOUS
  <2>3. Len(inbox[sock]) = 0 /\ Len(Tail(outbox[sock])) = 0 BY <1>4, <2>1, <2>2
  <2> QED BY <1>2, <1>3, <1>4, <2>3, EmptyFacts
<1>16. step = "read" => call'.want > 0
  <2>1. \A k \in Nat : k # 0 => k > 0 OBVIOUS
  <2> QED BY <1>6, <1>7, <1>8, <2>1
<1>17. InTurn'
  BY <1>1, <1>2, <1>4, <1>7, <1>8, <1>9, <1>10, <1>11, <1>12, <1>13, <1>14, <1>15, <1>16,
     SocketsFacts, PipelineCallFacts DEF PipelineCall, InTurn, Errors
<1>18. Answered BY <1>1, <1>2, SocketsFacts DEF Answered
<1>19. Plain'
  BY <1>1, <1>2, <1>18, PipelineCallFacts DEF PipelineCall, RedisPyInv, Plain, Unwatching
<1>20. Confirmed' => Confirmed
  <2>1. SomeIn(call'.got, Succeeded) <=> SomeIn(call.got, Succeeded) \/ a \in Succeeded
    BY <1>3, <1>8, SomeFacts, PipelineCallFacts
  <2>2. SomeIn(outbox[sock], Succeeded) <=> a \in Succeeded \/ SomeIn(outbox'[sock], Succeeded)
    BY <1>2, <1>3, SomeFacts
  <2> QED BY <1>1, <1>2, <2>1, <2>2, SocketsFacts, PipelineCallFacts DEF Confirmed
<1>21. ASSUME ~conf.health PROVE Counted' /\ Reading'
  <2>1. Counted /\ Reading BY <1>21 DEF PipelineCall, RedisPyInv, Guarded
  <2>2. UNCHANGED <<x, writes, executed, pipe>> BY PipelineCallFacts DEF PipelineCall
  <2>3. Counted' BY <1>1, <1>2, <2>1, <2>2 DEF Counted, ExecsValid, Valid
  <2>4. Every(outbox[sock], ReadsNow) => Every(outbox'[sock], ReadsNow) /\ a \in ReadsNow
    BY <1>2, <1>3, EveryFacts
  <2>5. Every(call.got, ReadsNow) /\ a \in ReadsNow => Every(call'.got, ReadsNow)
    BY <1>3, <1>8, EveryFacts, PipelineCallFacts
  <2>6. ReadsNow' = ReadsNow BY <2>2 DEF ReadsNow
  <2>7. Reading'
    BY <1>1, <1>2, <1>7, <1>8, <1>18, <2>1, <2>2, <2>4, <2>5, <2>6 DEF Reading, Waiting
  <2> QED BY <2>3, <2>7
<1> QED BY <1>2, <1>8, <1>17, <1>19, <1>20, <1>21, PipelineCallStep

-----------------------------------------------------------------------------
(* What Redis will be subscribed to. *)

LEMMA WillNothing ==
  ASSUME NEW C, NEW c
  PROVE  Will(<<>>, C, c) <=> c \in C
BY DEF Will

LEMMA WillAppend ==
  ASSUME NEW q \in Seq(Requests), NEW r \in Requests, NEW C, NEW c
  PROVE  Will(q \o <<r>>, C, c) <=> Subscribes(r, c) \/ (Will(q, C, c) /\ ~Leaves(r, c))
<1> DEFINE p == Append(q, r)
           n == Len(q)
           Sub(s, i) == IF i = 0 THEN c \in C ELSE Subscribes(s[i], c)
<1>1. q \o <<r>> = p OBVIOUS
<1>2. /\ n \in Nat /\ Len(p) = n + 1 /\ p[n + 1] = r /\ \A i \in 1..n : p[i] = q[i]
  BY AppendFacts
<1> HIDE DEF p, n
<1>3. \A i \in 0..n : Sub(p, i) <=> Sub(q, i) BY <1>2
<1>4. Sub(p, n + 1) <=> Subscribes(r, c) BY <1>2
<1>5. \A i \in 0..n : (\A j \in (i+1)..(n+1) : ~Leaves(p[j], c))
                        <=> (\A j \in (i+1)..n : ~Leaves(q[j], c)) /\ ~Leaves(r, c)
  <2> SUFFICES ASSUME NEW i \in 0..n
               PROVE  (\A j \in (i+1)..(n+1) : ~Leaves(p[j], c))
                        <=> (\A j \in (i+1)..n : ~Leaves(q[j], c)) /\ ~Leaves(r, c)
    OBVIOUS
  <2>1. \A j \in (i+1)..n : j \in 1..n /\ j \in (i+1)..(n+1) BY <1>2
  <2>2. n + 1 \in (i+1)..(n+1) BY <1>2
  <2>3. \A j \in (i+1)..(n+1) : j \in (i+1)..n \/ j = n + 1 BY <1>2
  <2> QED BY <1>2, <2>1, <2>2, <2>3
<1>6. \A j \in (n+2)..(n+1) : FALSE BY <1>2
<1> HIDE DEF Sub
<1>7. Will(p, C, c) <=> \E i \in 0..(n+1) : Sub(p, i) /\ \A j \in (i+1)..(n+1) : ~Leaves(p[j], c)
  BY <1>2 DEF Will, Sub
<1>8. Will(q, C, c) <=> \E i \in 0..n : Sub(q, i) /\ \A j \in (i+1)..n : ~Leaves(q[j], c)
  BY DEF Will, Sub, n
<1>9. ASSUME Will(p, C, c) PROVE Subscribes(r, c) \/ (Will(q, C, c) /\ ~Leaves(r, c))
  <2>1. PICK i \in 0..(n+1) : Sub(p, i) /\ \A j \in (i+1)..(n+1) : ~Leaves(p[j], c)
    BY <1>7, <1>9
  <2>2. CASE i = n + 1 BY <2>1, <2>2, <1>4
  <2>3. CASE i \in 0..n BY <2>1, <2>3, <1>3, <1>5, <1>8
  <2>4. i = n + 1 \/ i \in 0..n BY <1>2
  <2> QED BY <2>2, <2>3, <2>4
<1>10. ASSUME Subscribes(r, c) PROVE Will(p, C, c)
  <2>1. n + 1 \in 0..(n+1) BY <1>2
  <2>2. \A j \in ((n+1)+1)..(n+1) : FALSE BY <1>2
  <2> QED BY <1>4, <1>7, <1>10, <2>1, <2>2
<1>11. ASSUME Will(q, C, c), ~Leaves(r, c) PROVE Will(p, C, c)
  <2>1. PICK i \in 0..n : Sub(q, i) /\ \A j \in (i+1)..n : ~Leaves(q[j], c) BY <1>8, <1>11
  <2>2. i \in 0..(n+1) BY <1>2
  <2> QED BY <1>3, <1>5, <1>7, <1>11, <2>1, <2>2
<1> QED BY <1>1, <1>9, <1>10, <1>11

\* Nothing that is coming changes when Redis carries out the next request.
LEMMA WillTail ==
  ASSUME NEW q \in Seq(Requests), q # <<>>, NEW C, NEW D, NEW c,
         c \in D <=> Subscribes(q[1], c) \/ (c \in C /\ ~Leaves(q[1], c))
  PROVE  Will(Tail(q), D, c) <=> Will(q, C, c)
<1> DEFINE p == Tail(q)
           n == Len(p)
<1>1. /\ n \in Nat /\ Len(q) = n + 1 /\ \A i \in 1..n : p[i] = q[i+1]
  <2>1. p \in Seq(Requests) /\ Len(p) = Len(q) - 1 /\ \A i \in 1..Len(p) : p[i] = q[i+1]
    BY TailFacts
  <2>2. Len(q) \in Nat /\ Len(q) > 0 BY TailFacts
  <2> QED BY <2>1, <2>2
<1> HIDE DEF p, n
<1>2. Will(p, D, c) <=> \E i \in 0..n : /\ IF i = 0 THEN c \in D ELSE Subscribes(p[i], c)
                                       /\ \A j \in (i+1)..n : ~Leaves(p[j], c)
  BY DEF Will, n
<1>3. Will(q, C, c) <=> \E i \in 0..(n+1) : /\ IF i = 0 THEN c \in C ELSE Subscribes(q[i], c)
                                           /\ \A j \in (i+1)..(n+1) : ~Leaves(q[j], c)
  BY <1>1 DEF Will
<1>4. \A i \in 0..n : (\A j \in (i+1)..n : ~Leaves(p[j], c))
                        <=> (\A j \in (i+2)..(n+1) : ~Leaves(q[j], c))
  <2> SUFFICES ASSUME NEW i \in 0..n
               PROVE  (\A j \in (i+1)..n : ~Leaves(p[j], c)) <=> (\A j \in (i+2)..(n+1) : ~Leaves(q[j], c))
    OBVIOUS
  <2>1. \A j \in (i+1)..n : j \in 1..n /\ j + 1 \in (i+2)..(n+1) BY <1>1
  <2>2. \A j \in (i+2)..(n+1) : j - 1 \in (i+1)..n /\ j - 1 \in 1..n /\ (j - 1) + 1 = j BY <1>1
  <2>3. \A j \in 1..n : p[j] = q[j+1] BY <1>1
  <2>4. ASSUME \A j \in (i+1)..n : ~Leaves(p[j], c), NEW j \in (i+2)..(n+1) PROVE ~Leaves(q[j], c)
    <3>1. j - 1 \in (i+1)..n /\ p[j-1] = q[(j-1)+1] /\ (j - 1) + 1 = j BY <2>2, <2>3
    <3>2. p[j-1] = q[j] BY <3>1
    <3> QED BY <2>4, <3>1, <3>2
  <2>5. ASSUME \A j \in (i+2)..(n+1) : ~Leaves(q[j], c), NEW j \in (i+1)..n PROVE ~Leaves(p[j], c)
    BY <2>1, <2>3, <2>5
  <2> QED BY <2>4, <2>5
<1>5. ASSUME Will(p, D, c) PROVE Will(q, C, c)
  <2>1. PICK i \in 0..n : /\ IF i = 0 THEN c \in D ELSE Subscribes(p[i], c)
                          /\ \A j \in (i+2)..(n+1) : ~Leaves(q[j], c)
    BY <1>2, <1>4, <1>5
  <2>2. CASE i # 0
    <3>1. i + 1 \in 0..(n+1) /\ i + 1 # 0 /\ p[i] = q[i+1] /\ (i + 1) + 1 = i + 2 BY <1>1, <2>2
    <3> QED BY <1>3, <2>1, <2>2, <3>1
  <2>3. CASE i = 0 /\ Subscribes(q[1], c)
    <3>1. 1 \in 0..(n+1) /\ 1 + 1 = 0 + 2 BY <1>1
    <3> QED BY <1>3, <2>1, <2>3, <3>1
  <2>4. CASE i = 0 /\ c \in C /\ ~Leaves(q[1], c)
    <3>1. 0 \in 0..(n+1) /\ \A j \in (0+1)..(n+1) : j = 1 \/ j \in (0+2)..(n+1) BY <1>1
    <3> QED BY <1>3, <2>1, <2>4, <3>1
  <2> QED BY <2>1, <2>2, <2>3, <2>4
<1>6. ASSUME Will(q, C, c) PROVE Will(p, D, c)
  <2>1. PICK i \in 0..(n+1) : /\ IF i = 0 THEN c \in C ELSE Subscribes(q[i], c)
                              /\ \A j \in (i+1)..(n+1) : ~Leaves(q[j], c)
    BY <1>3, <1>6
  <2>2. CASE i = 0
    <3>1. 1 \in (0+1)..(n+1) /\ \A j \in (0+2)..(n+1) : j \in (0+1)..(n+1) BY <1>1
    <3>2. c \in D BY <2>1, <2>2, <3>1
    <3>3. \A j \in (0+1)..n : ~Leaves(p[j], c)
      <4>1. 0 \in 0..n BY <1>1
      <4> QED BY <1>4, <2>1, <2>2, <3>1, <4>1
    <3>4. 0 \in 0..n /\ (IF 0 = 0 THEN c \in D ELSE Subscribes(p[0], c)) BY <1>1, <3>2
    <3> QED BY <1>2, <3>3, <3>4
  <2>3. CASE i = 1
    <3>1. c \in D BY <2>1, <2>3
    <3>2. \A j \in (0+1)..n : ~Leaves(p[j], c)
      <4>1. 0 \in 0..n /\ 1 + 1 = 0 + 2 BY <1>1
      <4> QED BY <1>4, <2>1, <2>3, <4>1
    <3>3. 0 \in 0..n /\ (IF 0 = 0 THEN c \in D ELSE Subscribes(p[0], c)) BY <1>1, <3>1
    <3> QED BY <1>2, <3>2, <3>3
  <2>4. CASE i > 1
    <3>1. i - 1 \in 1..n /\ i - 1 \in 0..n /\ (i - 1) + 1 = i /\ (i - 1) + 2 = i + 1 /\ i - 1 # 0
      BY <1>1, <2>4
    <3>2. p[i-1] = q[i] BY <1>1, <3>1
    <3>3. \A j \in ((i-1)+1)..n : ~Leaves(p[j], c) BY <1>4, <2>1, <3>1
    <3> QED BY <1>2, <2>1, <2>4, <3>1, <3>2, <3>3
  <2>5. i = 0 \/ i = 1 \/ i > 1 BY <1>1
  <2> QED BY <2>2, <2>3, <2>4, <2>5
<1> QED BY <1>5, <1>6 DEF p

-----------------------------------------------------------------------------
(* The steps of the user of a PubSub object. *)

PubSubCall ==
  /\ RedisPyInv /\ pipe.at = "idle" /\ NewSession
  /\ UNCHANGED <<conf, pipelineVars, x, writes, executed>>

LEMMA PubSubCallFacts ==
  ASSUME PubSubCall
  PROVE  /\ SocketInv /\ call \in Calls /\ pubsub \in PubSubs
         /\ channels \cup pending \cup wanted \subseteq Channels
         /\ sock \in Sockets \cup {NoSock} /\ (up => sock # NoSock)
         /\ sock # NoSock => watch[sock] = "no"
         /\ ~conf.health => Counted
         /\ pipe' = pipe /\ ~Waiting /\ ~Waiting' /\ ~pipe.watching /\ pipe.at = "idle"
<1>1. /\ SocketInv /\ call \in Calls /\ pubsub \in PubSubs
      /\ channels \cup pending \cup wanted \subseteq Channels
      /\ sock \in Sockets \cup {NoSock} /\ (up => sock # NoSock)
  BY DEF PubSubCall, RedisPyInv, UserTypes, SocketInv, SocketTypes, Apart
<1>2. sock # NoSock => watch[sock] = "no" BY DEF PubSubCall, RedisPyInv, Plain, Unwatching
<1>3. ~conf.health => Counted BY DEF PubSubCall, RedisPyInv, Guarded
<1>4. pipe' = pipe /\ ~Waiting /\ ~Waiting' /\ ~pipe.watching /\ pipe.at = "idle"
  BY DEF PubSubCall, RedisPyInv, InTurn, Waiting, pipelineVars
<1> QED BY <1>1, <1>2, <1>3, <1>4

LEMMA OpenFacts ==
  ASSUME PubSubCall, pubsub.at # "closed"
  PROVE  /\ callback /\ wanted \subseteq channels \ pending /\ Requesting /\ (up => Expected)
         /\ Every(call.send, Topics) /\ (sock # NoSock => Every(inbox[sock], Topics))
         /\ pubsub.at \in {"idle", "read"} => call = NoCall
BY DEF PubSubCall, RedisPyInv, Known, InTurn

\* What a step keeps true that does not close the object.
LEMMA OpenStep ==
  ASSUME PubSubCall, SocketInv', call' \in Calls, pubsub' \in PubSubs, pubsub'.at # "closed",
         callback' = TRUE, channels' \cup pending' \cup wanted' \subseteq Channels,
         Every(call.send, Topics)',
         sock' # NoSock => Every(inbox[sock], Topics)' /\ watch'[sock'] = "no",
         pubsub'.at \in {"idle", "read"} => call' = NoCall,
         call'.at \in {"pong", "pong2", "write", "read", "ok"} => sock' # NoSock,
         call'.at \in Errors => sock' = NoSock,
         call'.at = "read" => call'.want > 0,
         ~conf.health => Counted',
         wanted' \subseteq channels' \ pending', Requesting', up' => Expected'
  PROVE  RedisPyInv'
<1>1. InTurn' BY PubSubCallFacts DEF InTurn
<1>2. Plain' BY PubSubCallFacts DEF Plain, Unwatching
<1>3. Returns'
  BY PubSubCallFacts DEF PubSubCall, RedisPyInv, UserTypes, Returns, Confirmed, pipelineVars
<1>4. Reading' BY PubSubCallFacts DEF Reading, Waiting
<1>5. Known' BY DEF Known
<1>6. UserTypes' BY DEF PubSubCall, RedisPyInv, UserTypes, pipelineVars
<1> QED BY <1>1, <1>2, <1>3, <1>4, <1>5, <1>6 DEF PubSubCall, RedisPyInv, Guarded

\* The same of one that leaves the sockets alone.
LEMMA OpenStays ==
  ASSUME PubSubCall, pubsub.at # "closed", UNCHANGED socketVars,
         call' \in Calls, pubsub' \in PubSubs, pubsub'.at # "closed",
         callback' = callback, channels' \cup pending' \cup wanted' \subseteq Channels,
         call' = NoCall \/ (call'.at = "send" /\ pubsub'.at \notin {"idle", "read"}),
         Every(call.send, Topics)',
         wanted' \subseteq channels' \ pending', Requesting',
         up /\ (\A c : Coming(c)' <=> Coming(c)) => Expected'
  PROVE  RedisPyInv'
<1>1. SocketInv' /\ watch' = watch /\ subs' = subs
  BY StillFacts, PubSubCallFacts DEF PubSubCall
<1>2. \A c : Coming(c)' <=> Coming(c) BY <1>1 DEF Coming, socketVars
<1>3. up' => Expected' BY <1>2 DEF socketVars
<1>4. ~conf.health => Counted'
  BY <1>1, PubSubCallFacts DEF PubSubCall, Counted, ExecsValid, Valid, socketVars
<1>5. sock' # NoSock => Every(inbox[sock], Topics)' /\ watch'[sock'] = "no"
  BY <1>1, OpenFacts, PubSubCallFacts DEF socketVars
<1>6. callback' = TRUE
  BY OpenFacts DEF PubSubCall, RedisPyInv, UserTypes
<1>7. /\ pubsub'.at \in {"idle", "read"} => call' = NoCall
      /\ call'.at \notin {"pong", "pong2", "write", "read", "ok"} \cup Errors
  BY NoCallFacts DEF Errors
<1> QED BY <1>1, <1>3, <1>4, <1>5, <1>6, <1>7, OpenStep

LEMMA GotoFacts ==
  ASSUME pubsub \in PubSubs, NEW step \in PubSubSteps, Goto(step)
  PROVE  /\ pubsub' \in PubSubs /\ pubsub'.at = step
         /\ step # "idle" => pubsub'.of = pubsub.of
BY DEF Goto, NoRequest, PubSubs, PubSubSteps

\* A request of the user finds nothing on the connection that it is given.
LEMMA AskFacts ==
  ASSUME PubSubCall, pubsub.at \in {"closed", "idle"},
         IF pubsub.at = "closed" THEN Provide ELSE UNCHANGED socketVars
  PROVE  /\ SocketInv' /\ (~conf.health => Counted') /\ wanted \subseteq channels \ pending
         /\ sock' # NoSock => Every(inbox[sock], Topics)' /\ watch'[sock'] = "no"
         /\ up' => /\ \A c \in wanted : Coming(c)'
                   /\ \A c \in Channels : Coming(c)' => c \in channels \ pending
<1>1. CASE pubsub.at = "closed"
  <2>1. Quiet /\ subs = {} /\ channels = {} /\ wanted = {}
    BY <1>1, PubSubCallFacts DEF PubSubCall, RedisPyInv, InTurn, Plain, Known
  <2>2. SocketInv' /\ Leftovers /\ Fresh(<<>>)
    BY <1>1, <2>1, ProvideFacts, PubSubCallFacts DEF PubSubCall
  <2>3. inbox'[sock'] = <<>> /\ watch'[sock'] = "no" /\ subs' = {} BY <2>2 DEF Fresh
  <2>4. \A i \in 1..Len(inbox'[sock']) : inbox'[sock'][i].op # "EXEC" BY <2>3
  <2>5. ~conf.health => Counted' BY <2>2, <2>4, CountedLeave, PubSubCallFacts DEF PubSubCall
  <2>6. Every(inbox[sock], Topics)' BY <2>3 DEF Every
  <2>7. \A c : ~Coming(c)'
    <3> TAKE c
    <3>1. ~Will(<<>>, {}, c) BY WillNothing
    <3> QED BY <2>3, <3>1 DEF Coming
  <2> QED BY <2>1, <2>2, <2>3, <2>5, <2>6, <2>7
<1>2. CASE pubsub.at = "idle"
  <2>1. UNCHANGED socketVars BY <1>2
  <2>2. SocketInv' /\ watch' = watch /\ subs' = subs
    BY <2>1, StillFacts, PubSubCallFacts DEF PubSubCall
  <2>3. \A c : Coming(c)' <=> Coming(c) BY <2>1, <2>2 DEF Coming, socketVars
  <2>4. ~conf.health => Counted'
    BY <2>1, <2>2, PubSubCallFacts DEF PubSubCall, Counted, ExecsValid, Valid, socketVars
  <2>5. up' => Expected BY <1>2, <2>1, OpenFacts DEF socketVars
  <2>6. sock' # NoSock => Every(inbox[sock], Topics)' /\ watch'[sock'] = "no"
    BY <1>2, <2>1, <2>2, OpenFacts, PubSubCallFacts DEF socketVars
  <2> QED BY <1>2, <2>2, <2>3, <2>4, <2>5, <2>6, OpenFacts DEF Expected
<1> QED BY <1>1, <1>2

LEMMA TopicFacts ==
  /\ Ping \in Topics /\ HealthCheck \in Topics
  /\ \A C \in SUBSET Channels : Subscription(C) \in Topics /\ Unsubscription(C) \in Topics
  /\ \A r \in Topics : <<r>> \in Seq(Requests) /\ Every(<<r>>, Topics)
  /\ Every(<<>>, Topics)
<1>1. Ping \in Topics /\ HealthCheck \in Topics BY RequestFacts DEF Topics
<1>2. \A C \in SUBSET Channels : Subscription(C) \in Topics /\ Unsubscription(C) \in Topics
  BY RequestFacts DEF Topics
<1>3. ASSUME NEW r \in Topics PROVE <<r>> \in Seq(Requests) /\ Every(<<r>>, Topics)
  <2>1. r \in Requests BY DEF Topics
  <2> QED BY <2>1, SingleFacts DEF Every
<1>4. Every(<<>>, Topics) BY DEF Every
<1> QED BY <1>1, <1>2, <1>3, <1>4

LEMMA SubscribeStep ==
  ASSUME PubSubCall, NEW C \in SUBSET Channels, Subscribe(C)
  PROVE  RedisPyInv'
<1> DEFINE rs == <<Subscription(C)>>
<1>1. /\ pubsub.at \in {"closed", "idle"}
      /\ IF pubsub.at = "closed" THEN Provide ELSE UNCHANGED socketVars
      /\ pubsub' = [pubsub EXCEPT !.at = "subscribe", !.of = C, !.retried = FALSE]
      /\ callback' = TRUE /\ Begin(rs, channels = {}, 0)
      /\ UNCHANGED <<channels, pending, wanted>>
  BY DEF Subscribe, PubSubSend
<1>2. pubsub' \in PubSubs /\ pubsub'.at = "subscribe" /\ pubsub'.of = C
  BY <1>1, PubSubCallFacts DEF PubSubs, PubSubSteps
<1>3. rs \in Seq(Requests) /\ Every(rs, Topics) BY TopicFacts
<1> HIDE DEF rs
<1>4. call' \in Calls /\ call'.at = "send" /\ call'.send = rs /\ call'.want = 0
  BY <1>1, <1>3, BeginFacts
<1>5. /\ SocketInv' /\ (~conf.health => Counted') /\ wanted \subseteq channels \ pending
      /\ sock' # NoSock => Every(inbox[sock], Topics)' /\ watch'[sock'] = "no"
      /\ up' => /\ \A c \in wanted : Coming(c)'
                /\ \A c \in Channels : Coming(c)' => c \in channels \ pending
  BY <1>1, AskFacts
<1>6. Requesting' BY <1>2, <1>4 DEF Requesting, rs
<1>7. up' => Expected' BY <1>1, <1>2, <1>4, <1>5 DEF Expected
<1>8. Every(call.send, Topics)' BY <1>3, <1>4
<1>9. call'.at \notin {"pong", "pong2", "write", "read", "ok"} \cup Errors BY <1>4 DEF Errors
<1>10. /\ channels' \cup pending' \cup wanted' \subseteq Channels
       /\ wanted' \subseteq channels' \ pending' /\ callback' = TRUE
  BY <1>1, <1>5, PubSubCallFacts
<1> HIDE DEF PubSubCall
<1> QED BY <1>2, <1>4, <1>5, <1>6, <1>7, <1>8, <1>9, <1>10, OpenStep

LEMMA UnsubscribeStep ==
  ASSUME PubSubCall, NEW C \in SUBSET Channels, Unsubscribe(C)
  PROVE  RedisPyInv'
<1> DEFINE rs == <<Unsubscription(C)>>
<1>1. /\ pubsub.at \in {"closed", "idle"}
      /\ IF pubsub.at = "closed" THEN Provide ELSE UNCHANGED socketVars
      /\ pubsub' = [pubsub EXCEPT !.at = "unsubscribe", !.of = C, !.retried = FALSE]
      /\ callback' = TRUE /\ Begin(rs, channels = {}, 0)
      /\ pending' = pending \cup (IF C = {} THEN channels ELSE C)
      /\ wanted' = (IF C = {} THEN {} ELSE wanted \ C)
      /\ channels' = channels
  BY DEF Unsubscribe, PubSubSend
<1>2. pubsub' \in PubSubs /\ pubsub'.at = "unsubscribe" /\ pubsub'.of = C
  BY <1>1, PubSubCallFacts DEF PubSubs, PubSubSteps
<1>3. rs \in Seq(Requests) /\ Every(rs, Topics) BY TopicFacts
<1> HIDE DEF rs
<1>4. call' \in Calls /\ call'.at = "send" /\ call'.send = rs /\ call'.want = 0
  BY <1>1, <1>3, BeginFacts
<1>5. /\ SocketInv' /\ (~conf.health => Counted') /\ wanted \subseteq channels \ pending
      /\ sock' # NoSock => Every(inbox[sock], Topics)' /\ watch'[sock'] = "no"
      /\ up' => /\ \A c \in wanted : Coming(c)'
                /\ \A c \in Channels : Coming(c)' => c \in channels \ pending
  BY <1>1, AskFacts
<1>6. /\ wanted' \subseteq wanted /\ wanted' \subseteq channels' \ pending'
      /\ IF C = {} THEN wanted' = {} ELSE wanted' \cap C = {}
      /\ \A c \in channels \ pending : c \in channels' /\ (c \notin pending' \/ C = {} \/ c \in C)
      /\ channels' \cup pending' \cup wanted' \subseteq Channels
  BY <1>1, <1>5, PubSubCallFacts
<1>7. Requesting' BY <1>2, <1>4, <1>6 DEF Requesting, rs
<1>8. up' => Expected' BY <1>2, <1>4, <1>5, <1>6 DEF Expected
<1>9. Every(call.send, Topics)' BY <1>3, <1>4
<1>10. call'.at \notin {"pong", "pong2", "write", "read", "ok"} \cup Errors BY <1>4 DEF Errors
<1>11. callback' = TRUE BY <1>1
<1> QED BY <1>2, <1>4, <1>5, <1>6, <1>7, <1>8, <1>9, <1>10, <1>11, OpenStep

LEMMA SubscribedStep ==
  ASSUME PubSubCall, Subscribed
  PROVE  RedisPyInv'
<1>1. /\ pubsub.at = "subscribe" /\ call.at = "ok"
      /\ channels' = channels \cup pubsub.of /\ pending' = pending \ pubsub.of
      /\ wanted' = wanted \cup pubsub.of
      /\ Goto("idle") /\ call' = NoCall /\ UNCHANGED socketVars /\ callback' = callback
  BY DEF Subscribed, Sent
<1>2. pubsub' \in PubSubs /\ pubsub'.at = "idle"
  BY <1>1, GotoFacts, PubSubCallFacts DEF PubSubSteps
<1>3. pubsub.of \subseteq Channels BY PubSubCallFacts DEF PubSubs
<1>4. channels' \cup pending' \cup wanted' \subseteq Channels /\ wanted' \subseteq channels' \ pending'
  BY <1>1, <1>3, OpenFacts, PubSubCallFacts
<1>5. up /\ (\A c : Coming(c)' <=> Coming(c)) => Expected'
  BY <1>1, <1>2, OpenFacts DEF Expected
<1>6. Requesting' BY <1>2 DEF Requesting
<1>7. call' \in Calls /\ Every(call.send, Topics)' BY <1>1, NoCallFacts, TopicFacts
<1> QED BY <1>1, <1>2, <1>4, <1>5, <1>6, <1>7, OpenStays

\* A step to another that changes nothing but the call, which is over.
LEMMA OverStep ==
  ASSUME PubSubCall, pubsub.at # "closed", NEW step \in {"idle", "read"}, Goto(step), call' = NoCall,
         \/ pubsub.at \notin {"subscribe", "unsubscribe"}
         \/ pubsub.at = "unsubscribe" /\ call.at = "ok"
         \/ ~up,
         UNCHANGED <<socketVars, channels, pending, callback, wanted>>
  PROVE  RedisPyInv'
<1>1. pubsub' \in PubSubs /\ pubsub'.at = step
  BY GotoFacts, PubSubCallFacts DEF PubSubSteps
<1>2. channels' \cup pending' \cup wanted' \subseteq Channels /\ wanted' \subseteq channels' \ pending'
  BY OpenFacts, PubSubCallFacts
<1>3. up /\ (\A c : Coming(c)' <=> Coming(c)) => Expected'
  BY <1>1, OpenFacts DEF Expected
<1>4. Requesting' BY <1>1 DEF Requesting
<1>5. call' \in Calls /\ Every(call.send, Topics)' BY NoCallFacts, TopicFacts
<1> QED BY <1>1, <1>2, <1>3, <1>4, <1>5, OpenStays

LEMMA UnsubscribedStep ==
  ASSUME PubSubCall, Unsubscribed
  PROVE  RedisPyInv'
BY OverStep DEF Unsubscribed, Sent

LEMMA NotSentFacts ==
  ASSUME PubSubCall, call.at \in Errors
  PROVE  ~up
BY PubSubCallFacts DEF PubSubCall, RedisPyInv, InTurn

LEMMA RequestFailsStep ==
  ASSUME PubSubCall, RequestFails
  PROVE  RedisPyInv'
<1>1. /\ pubsub.at \in {"subscribe", "unsubscribe"} /\ call.at \in Errors
      /\ UNCHANGED <<socketVars, channels, pending, callback, wanted>>
      /\ \/ pubsub' = [pubsub EXCEPT !.retried = TRUE] /\ Begin(call.send, channels = {}, 0)
         \/ Goto("idle") /\ call' = NoCall
  BY DEF RequestFails, NotSent, PubSubSend
<1>2. ~up BY <1>1, NotSentFacts
<1>3. CASE Goto("idle") /\ call' = NoCall
  <2>1. pubsub.at # "closed" BY <1>1
  <2> QED BY <1>1, <1>2, <1>3, <2>1, OverStep
<1>4. CASE pubsub' = [pubsub EXCEPT !.retried = TRUE] /\ Begin(call.send, channels = {}, 0)
  <2>1. pubsub' \in PubSubs /\ pubsub'.at = pubsub.at /\ pubsub'.of = pubsub.of
    BY <1>4, PubSubCallFacts DEF PubSubs
  <2>2. call.send \in Seq(Requests) BY PubSubCallFacts DEF Calls
  <2>3. call' \in Calls /\ call'.at = "send" /\ call'.send = call.send /\ call'.want = 0
    BY <1>4, <2>2, BeginFacts
  <2>4. Requesting' BY <1>1, <2>1, <2>3, OpenFacts DEF Requesting
  <2>5. channels' \cup pending' \cup wanted' \subseteq Channels /\ wanted' \subseteq channels' \ pending'
    BY <1>1, OpenFacts, PubSubCallFacts
  <2>6. Every(call.send, Topics)' BY <1>1, <2>3, OpenFacts
  <2> QED BY <1>1, <1>2, <2>1, <2>3, <2>4, <2>5, <2>6, OpenStays
<1> QED BY <1>1, <1>3, <1>4

LEMMA PollStep ==
  ASSUME PubSubCall, NEW block \in BOOLEAN, NEW ping \in BOOLEAN, Poll(block, ping)
  PROVE  RedisPyInv'
<1> DEFINE ready == ~ping /\ (block \/ sock # NoSock)
           rs == IF ping THEN <<HealthCheck>> ELSE <<>>
<1>1. /\ pubsub.at = "idle"
      /\ pubsub' = [pubsub EXCEPT !.at = IF ready THEN "read" ELSE "poll", !.block = block]
      /\ IF ready THEN UNCHANGED call ELSE Begin(rs, FALSE, 0)
      /\ UNCHANGED <<socketVars, channels, pending, callback, wanted>>
  BY DEF Poll
<1>2. pubsub' \in PubSubs /\ pubsub'.at = IF ready THEN "read" ELSE "poll"
  BY <1>1, PubSubCallFacts DEF PubSubs, PubSubSteps
<1>3. rs \in Seq(Requests) /\ Every(rs, Topics) /\ rs \in {<<>>, <<HealthCheck>>}
  BY TopicFacts, NothingFacts
<1>4. call = NoCall BY <1>1, OpenFacts
<1> HIDE DEF ready, rs
<1>5. /\ call' \in Calls /\ Every(call.send, Topics)'
      /\ ready => call' = NoCall
      /\ ~ready => call'.at = "send" /\ call'.send = rs
  <2>1. CASE ready BY <1>1, <1>4, <2>1, NoCallFacts, TopicFacts
  <2>2. CASE ~ready BY <1>1, <1>3, <2>2, BeginFacts
  <2> QED BY <2>1, <2>2
<1>6. Requesting' BY <1>2, <1>3, <1>5 DEF Requesting
<1>7. up /\ (\A c : Coming(c)' <=> Coming(c)) => Expected'
  BY <1>1, <1>2, OpenFacts DEF Expected
<1>8. channels' \cup pending' \cup wanted' \subseteq Channels /\ wanted' \subseteq channels' \ pending'
  BY <1>1, OpenFacts, PubSubCallFacts
<1> QED BY <1>1, <1>2, <1>5, <1>6, <1>7, <1>8, OpenStays

LEMMA PolledStep ==
  ASSUME PubSubCall, Polled \/ NothingToRead
  PROVE  RedisPyInv'
<1>1. /\ pubsub.at \in {"poll", "read"}
      /\ UNCHANGED <<socketVars, channels, pending, callback, wanted>>
      /\ \E step \in {"idle", "read"} : Goto(step)
  BY DEF Polled, NothingToRead
<1>2. call' = NoCall BY OpenFacts DEF Polled, NothingToRead
<1> QED BY <1>1, <1>2, OverStep

\* handle_message removes what is being left, and nothing else.
LEMMA HandleFacts ==
  ASSUME NEW m, Handle(m)
  PROVE  /\ channels' \subseteq channels /\ pending' \subseteq pending
         /\ channels' \ pending' = channels \ pending
BY DEF Handle

LEMMA RereadStep ==
  ASSUME PubSubCall, Reread
  PROVE  RedisPyInv'
<1>1. /\ pubsub.at = "reread" /\ Goto("idle") /\ call' = NoCall
      /\ UNCHANGED <<socketVars, callback, wanted>>
      /\ Handle(call.got[1]) \/ UNCHANGED <<channels, pending>>
  BY DEF Reread
<1>2. pubsub' \in PubSubs /\ pubsub'.at = "idle"
  BY <1>1, GotoFacts, PubSubCallFacts DEF PubSubSteps
<1>3. /\ channels' \subseteq channels /\ pending' \subseteq pending
      /\ channels' \ pending' = channels \ pending
  BY <1>1, HandleFacts
<1>4. channels' \cup pending' \cup wanted' \subseteq Channels /\ wanted' \subseteq channels' \ pending'
  BY <1>1, <1>3, OpenFacts, PubSubCallFacts
<1>5. up /\ (\A c : Coming(c)' <=> Coming(c)) => Expected'
  BY <1>1, <1>2, <1>3, OpenFacts DEF Expected
<1>6. Requesting' BY <1>2 DEF Requesting
<1>7. call' \in Calls /\ Every(call.send, Topics)' BY <1>1, NoCallFacts, TopicFacts
<1> QED BY <1>1, <1>2, <1>4, <1>5, <1>6, <1>7, OpenStays

LEMMA ReadMessageStep ==
  ASSUME PubSubCall, ReadMessage
  PROVE  RedisPyInv'
<1>1. /\ pubsub.at = "read" /\ CanRead /\ Handle(Head(outbox[sock]))
      /\ outbox' = [outbox EXCEPT ![sock] = Tail(@)] /\ Goto("idle")
      /\ UNCHANGED <<sock, up, inbox, call, callback, wanted>>
  BY DEF ReadMessage
<1>2. SocketInv' /\ watch' = watch /\ subs' = subs
  BY <1>1, PopFacts, PubSubCallFacts DEF PubSubCall
<1>3. pubsub' \in PubSubs /\ pubsub'.at = "idle"
  BY <1>1, GotoFacts, PubSubCallFacts DEF PubSubSteps
<1>4. /\ channels' \subseteq channels /\ pending' \subseteq pending
      /\ channels' \ pending' = channels \ pending
  BY <1>1, HandleFacts
<1>5. channels' \cup pending' \cup wanted' \subseteq Channels /\ wanted' \subseteq channels' \ pending'
  BY <1>1, <1>4, OpenFacts, PubSubCallFacts
<1>6. call' = NoCall /\ callback' = TRUE
  BY <1>1, OpenFacts DEF PubSubCall, RedisPyInv, UserTypes
<1>7. call' \in Calls /\ Every(call.send, Topics)' /\ call'.at = "idle"
  BY <1>6, NoCallFacts, TopicFacts
<1>8. \A c : Coming(c)' <=> Coming(c) BY <1>1, <1>2 DEF Coming
<1>9. up' => Expected' BY <1>1, <1>3, <1>4, <1>8, OpenFacts DEF Expected
<1>10. Requesting' BY <1>3 DEF Requesting
<1>11. ~conf.health => Counted'
  BY <1>1, <1>2, PubSubCallFacts DEF PubSubCall, Counted, ExecsValid, Valid
<1>12. sock' # NoSock => Every(inbox[sock], Topics)' /\ watch'[sock'] = "no"
  BY <1>1, <1>2, OpenFacts, PubSubCallFacts
<1>13. call'.at \notin {"pong", "pong2", "write", "read", "ok"} \cup Errors
  BY <1>7 DEF Errors
<1> QED BY <1>2, <1>3, <1>5, <1>6, <1>7, <1>9, <1>10, <1>11, <1>12, <1>13, OpenStep

\* What a step keeps true that loses the socket,
LEMMA OpenLost ==
  ASSUME PubSubCall, pubsub.at # "closed", SocketInv', Leftovers, sock' = NoSock, ~up',
         call' \in Calls, pubsub' \in PubSubs, pubsub'.at # "closed",
         Every(call.send, Topics)', Requesting',
         pubsub'.at \in {"idle", "read"} => call' = NoCall,
         call'.at \notin {"pong", "pong2", "write", "read", "ok"},
         UNCHANGED <<channels, pending, callback, wanted>>
  PROVE  RedisPyInv'
<1>1. ~conf.health => Counted' BY CountedLeave, PubSubCallFacts DEF PubSubCall
<1>2. channels' \cup pending' \cup wanted' \subseteq Channels /\ wanted' \subseteq channels' \ pending'
  BY OpenFacts, PubSubCallFacts
<1>3. callback' = TRUE BY OpenFacts DEF PubSubCall, RedisPyInv, UserTypes
<1> QED BY <1>1, <1>2, <1>3, OpenStep

LEMMA ReadMessageFailsStep ==
  ASSUME PubSubCall, NEW e \in Errors, ReadMessageFails(e)
  PROVE  RedisPyInv'
<1>1. /\ pubsub.at = "read" /\ Disconnect
      /\ \/ Goto("reread") /\ Begin(<<>>, FALSE, 1)
         \/ Goto("idle") /\ UNCHANGED call
      /\ UNCHANGED <<channels, pending, callback, wanted>>
  BY DEF ReadMessageFails
<1>2. SocketInv' /\ Leftovers /\ sock' = NoSock /\ ~up'
  BY <1>1, DisconnectFacts, PubSubCallFacts DEF PubSubCall
<1>3. CASE Goto("reread") /\ Begin(<<>>, FALSE, 1)
  <2>1. pubsub' \in PubSubs /\ pubsub'.at = "reread"
    BY <1>3, GotoFacts, PubSubCallFacts DEF PubSubSteps
  <2>2. call' \in Calls /\ call'.at = "send" /\ call'.send = <<>>
    BY <1>3, NothingFacts, BeginFacts
  <2>3. Requesting' BY <2>1, <2>2 DEF Requesting
  <2>4. Every(call.send, Topics)' BY <2>2, TopicFacts
  <2> QED BY <1>1, <1>2, <2>1, <2>2, <2>3, <2>4, OpenLost
<1>4. CASE Goto("idle") /\ UNCHANGED call
  <2>1. pubsub' \in PubSubs /\ pubsub'.at = "idle"
    BY <1>4, GotoFacts, PubSubCallFacts DEF PubSubSteps
  <2>2. call' = NoCall BY <1>1, <1>4, OpenFacts
  <2>3. call' \in Calls /\ Every(call.send, Topics)' /\ call'.at = "idle"
    BY <2>2, NoCallFacts, TopicFacts
  <2>4. Requesting' BY <2>1 DEF Requesting
  <2> QED BY <1>1, <1>2, <2>1, <2>2, <2>3, <2>4, OpenLost
<1> QED BY <1>1, <1>3, <1>4

\* and of one after which the object is closed, and has lost it too.
LEMMA ClosedStep ==
  ASSUME PubSubCall, Disconnect, call = NoCall, call' = call,
         pubsub' \in PubSubs, pubsub'.at = "closed", callback' = FALSE,
         channels' = {}, wanted' = {}, pending' \subseteq Channels
  PROVE  RedisPyInv'
<1>1. SocketInv' /\ Leftovers /\ sock' = NoSock /\ ~up' /\ subs' = {}
  BY DisconnectFacts, PubSubCallFacts DEF PubSubCall
<1>2. Quiet' BY <1>1 DEF Quiet
<1>3. InTurn' /\ ~Answered' BY <1>2, PubSubCallFacts, RestFacts
<1>4. Plain' BY <1>1 DEF Plain
<1>5. Returns'
  BY PubSubCallFacts DEF PubSubCall, RedisPyInv, UserTypes, Returns, Confirmed, pipelineVars
<1>6. ~conf.health => Counted' BY <1>1, CountedLeave, PubSubCallFacts DEF PubSubCall
<1>7. Reading' BY PubSubCallFacts DEF Reading, Waiting
<1>8. UserTypes' BY NoCallFacts DEF PubSubCall, RedisPyInv, UserTypes, pipelineVars
<1>9. Known' BY DEF Known
<1> QED BY <1>1, <1>3, <1>4, <1>5, <1>6, <1>7, <1>8, <1>9 DEF PubSubCall, RedisPyInv, Guarded

LEMMA CloseStep ==
  ASSUME PubSubCall, Close
  PROVE  RedisPyInv'
<1>1. pubsub.at = "idle" /\ Disconnect /\ Goto("closed") /\ call' = call
      /\ channels' = {} /\ pending' = {} /\ wanted' = {} /\ callback' = FALSE
  BY DEF Close
<1>2. pubsub' \in PubSubs /\ pubsub'.at = "closed"
  BY <1>1, GotoFacts, PubSubCallFacts DEF PubSubSteps
<1>3. call = NoCall BY <1>1, OpenFacts
<1> QED BY <1>1, <1>2, <1>3, ClosedStep

LEMMA NoConnectionStep ==
  ASSUME PubSubCall, NEW C \in SUBSET Channels, NoConnection(C)
  PROVE  RedisPyInv'
<1>1. /\ pubsub.at = "closed" /\ Disconnect /\ pending' \in {pending, pending \cup C}
      /\ UNCHANGED <<call, pubsub, channels, callback, wanted>>
  BY DEF NoConnection, ProvideFails
<1>2. call = NoCall /\ ~callback /\ channels = {} /\ wanted = {}
  BY <1>1, PubSubCallFacts DEF PubSubCall, RedisPyInv, InTurn, Plain, Known
<1>3. pending' \subseteq Channels BY <1>1, PubSubCallFacts
<1>4. callback' = FALSE BY <1>1, <1>2 DEF PubSubCall, RedisPyInv, UserTypes
<1> QED BY <1>1, <1>2, <1>3, <1>4, ClosedStep, PubSubCallFacts

LEMMA PubSubStepKeeps ==
  ASSUME PubSubCall, PubSubStep,
         ~(pubsub.at # "closed" /\ ConnectionStep(Greeting)
             /\ (IF sock' \notin {sock, NoSock} THEN OnConnect ELSE UNCHANGED pending)
             /\ UNCHANGED <<pubsub, channels, callback, asked, wanted>>)
  PROVE  RedisPyInv'
<1>1. CASE \E C \in SUBSET Channels \ {{}} : Subscribe(C) BY <1>1, SubscribeStep
<1>2. CASE \E C \in SUBSET Channels : Unsubscribe(C) \/ NoConnection(C)
  BY <1>2, UnsubscribeStep, NoConnectionStep
<1>3. CASE Subscribed \/ Unsubscribed \/ RequestFails
  BY <1>3, SubscribedStep, UnsubscribedStep, RequestFailsStep
<1>4. CASE \E block, ping \in BOOLEAN : Poll(block, ping) BY <1>4, PollStep
<1>5. CASE Polled \/ ReadMessage \/ NothingToRead \/ Reread \/ Close
  BY <1>5, PolledStep, ReadMessageStep, RereadStep, CloseStep
<1>6. CASE \E e \in Errors : ReadMessageFails(e) BY <1>6, ReadMessageFailsStep
<1> QED BY <1>1, <1>2, <1>3, <1>4, <1>5, <1>6 DEF PubSubStep

-----------------------------------------------------------------------------
(* The connection of a PubSub object. *)

GreetingCall ==
  /\ PubSubCall /\ pubsub.at # "closed"
  /\ IF sock' \notin {sock, NoSock} THEN OnConnect ELSE UNCHANGED pending
  /\ UNCHANGED <<pubsub, channels, callback, asked, wanted>>

LEMMA GreetingCallFacts ==
  ASSUME GreetingCall, call.at # "idle"
  PROVE  /\ PubSubCall /\ SocketInv /\ NewSession /\ call \in Calls /\ call.want \in Nat
         /\ call.send \in Seq(Requests) /\ call.got \in Seq(Requests)
         /\ callback = TRUE /\ Requesting /\ (up => Expected)
         /\ Every(call.send, Topics) /\ (sock # NoSock => Every(inbox[sock], Topics) /\ watch[sock] = "no")
         /\ pubsub.at \notin {"idle", "read"} /\ (call.at = "read" => call.want > 0)
         /\ (pubsub' = pubsub /\ pubsub \in PubSubs /\ channels' = channels /\ wanted' = wanted)
         /\ wanted \subseteq channels /\ channels \cup wanted \subseteq Channels
         /\ sock \in Sockets \cup {NoSock}
<1>1. PubSubCall /\ pubsub.at # "closed" BY DEF GreetingCall
<1>2. /\ SocketInv /\ NewSession /\ call \in Calls /\ pubsub \in PubSubs
      /\ channels \cup wanted \subseteq Channels /\ (sock # NoSock => watch[sock] = "no")
      /\ sock \in Sockets \cup {NoSock}
  BY <1>1, PubSubCallFacts DEF PubSubCall
<1>3. /\ callback /\ wanted \subseteq channels /\ Requesting /\ (up => Expected)
      /\ Every(call.send, Topics) /\ (sock # NoSock => Every(inbox[sock], Topics))
      /\ pubsub.at \in {"idle", "read"} => call = NoCall
  BY <1>1, OpenFacts
<1>4. callback \in BOOLEAN /\ (call.at = "read" => call.want > 0)
  BY <1>1 DEF PubSubCall, RedisPyInv, UserTypes, InTurn
<1>5. pubsub.at \notin {"idle", "read"} BY <1>3, NoCallFacts
<1>6. pubsub' = pubsub /\ channels' = channels /\ wanted' = wanted BY DEF GreetingCall
<1>7. call.want \in Nat /\ call.send \in Seq(Requests) /\ call.got \in Seq(Requests) BY <1>2 DEF Calls
<1> QED BY <1>1, <1>2, <1>3, <1>4, <1>5, <1>6, <1>7

\* What such a step keeps true: it has sent topics, if anything.
LEMMA GreetingStep ==
  ASSUME GreetingCall, call.at # "idle", SocketInv', call' \in Calls, call'.send = call.send,
         sock' # NoSock => Every(inbox[sock], Topics)' /\ watch'[sock'] = "no",
         call'.at \in {"pong", "pong2", "write", "read", "ok"} => sock' # NoSock,
         call'.at \in Errors => sock' = NoSock,
         call'.at = "read" => call'.want > 0,
         pubsub.at \in {"subscribe", "unsubscribe"} => call'.want = call.want /\ call'.at # "read",
         ~conf.health => Counted', up' => Expected'
  PROVE  RedisPyInv'
<1>1. /\ PubSubCall /\ callback = TRUE /\ Requesting /\ Every(call.send, Topics)
      /\ pubsub.at \notin {"idle", "read", "closed"}
      /\ pubsub' = pubsub /\ pubsub \in PubSubs
  BY GreetingCallFacts DEF GreetingCall
<1>2. pending' \subseteq pending BY DEF GreetingCall, OnConnect
<1>3. channels' \cup pending' \cup wanted' \subseteq Channels /\ wanted' \subseteq channels' \ pending'
  BY <1>1, <1>2, OpenFacts, PubSubCallFacts DEF GreetingCall
<1>4. callback' = TRUE BY <1>1 DEF GreetingCall
<1>5. Requesting' BY <1>1 DEF GreetingCall, Requesting
<1> QED BY <1>1, <1>3, <1>4, <1>5, OpenStep

\* On a socket that has only topics, nothing changes the number.
LEMMA CountedTopics ==
  ASSUME SocketInv, SocketInv', Counted, sock # NoSock, sock' = sock, watch' = watch,
         Every(inbox[sock], Topics)', \A s \in Sockets \ {sock} : inbox'[s] = inbox[s],
         UNCHANGED <<x, writes, executed>>
  PROVE  Counted'
<1>1. \A i \in 1..Len(inbox'[sock]) : inbox'[sock][i].op # "EXEC" BY DEF Every, Topics
<1>2. ExecsValid' BY <1>1 DEF Counted, ExecsValid, Valid
<1> QED BY <1>2 DEF Counted

LEMMA GreetingLost ==
  ASSUME GreetingCall, call.at # "idle", NEW step \in Errors \cup {"again"}, At(step),
         SocketInv', Leftovers, sock' = NoSock, ~up'
  PROVE  RedisPyInv'
<1>1. /\ call' \in Calls /\ call'.at = step /\ call'.send = call.send /\ call'.want = call.want
  BY GreetingCallFacts, AtFacts DEF CallSteps, Errors
<1>2. ~conf.health => Counted'
  BY GreetingCallFacts, PubSubCallFacts, CountedLeave DEF PubSubCall
<1> QED BY <1>1, <1>2, GreetingStep DEF Errors

LEMMA GreetingLostSteps ==
  ASSUME GreetingCall, NEW e \in Errors, ConnectFails(e) \/ NoPong(e) \/ WriteFails(e) \/ ReadFails(e)
  PROVE  RedisPyInv'
<1>1. CASE ConnectFails(e)
  <2>1. sock = NoSock /\ UNCHANGED socketVars /\ At(e) /\ call.at # "idle" BY <1>1 DEF ConnectFails
  <2>2. SocketInv' /\ watch' = watch /\ subs' = subs
    BY <2>1, StillFacts, GreetingCallFacts
  <2>3. Leftovers
    <3>1. \A s \in Sockets : Len(inbox[s]) \in Nat
      BY <2>1, GreetingCallFacts DEF SocketInv, SocketTypes
    <3> QED BY <2>1, <2>2, <3>1 DEF Leftovers, socketVars
  <2>4. ~up BY <2>1, GreetingCallFacts DEF SocketInv, SocketTypes, Apart
  <2> QED BY <2>1, <2>2, <2>3, <2>4, GreetingLost DEF socketVars, Errors
<1>2. CASE NoPong(e) \/ WriteFails(e) \/ ReadFails(e)
  <2>1. Disconnect /\ call.at # "idle" BY <1>2 DEF NoPong, WriteFails, ReadFails
  <2>2. SocketInv' /\ Leftovers /\ sock' = NoSock /\ ~up' /\ subs' = {}
    BY <2>1, DisconnectFacts, GreetingCallFacts
  <2>3. \E step \in Errors \cup {"again"} : At(step)
    BY <1>2 DEF NoPong, WriteFails, ReadFails, Errors
  <2> QED BY <2>1, <2>2, <2>3, GreetingLost
<1> QED BY <1>1, <1>2

\* on_connect subscribes to all the channels, and forgets what was being left.
LEMMA GreetingConnectStep ==
  ASSUME GreetingCall, Connect(Greeting)
  PROVE  RedisPyInv'
<1>1. /\ call.at \in {"send", "again"} /\ sock = NoSock /\ NewSocket(Greeting) /\ call' = call
  BY DEF Connect
<1>2. Greeting = IF channels # {} THEN <<Subscription(channels)>> ELSE <<>>
  BY <1>1, GreetingCallFacts DEF Greeting
<1>3. channels \in SUBSET Channels BY <1>1, GreetingCallFacts
<1>4. Greeting \in Seq(Requests) /\ Every(Greeting, Topics)
  BY <1>2, <1>3, TopicFacts, NothingFacts
<1>5. SocketInv' /\ Leftovers /\ Fresh(Greeting) /\ sock' # sock
  BY <1>1, <1>4, NewSocketFacts, GreetingCallFacts
<1>6. /\ sock' \in Sockets /\ up' /\ inbox'[sock'] = Greeting
      /\ watch'[sock'] = "no" /\ subs' = {}
  BY <1>5 DEF Fresh
<1>7. \A c : Coming(c)' <=> c \in channels
  <2> TAKE c
  <2>1. CASE channels = {}
    <3>1. ~Will(<<>>, {}, c) BY WillNothing
    <3> QED BY <1>2, <1>6, <2>1, <3>1 DEF Coming
  <2>2. CASE channels # {}
    <3> DEFINE r == Subscription(channels)
    <3>1. r \in Requests /\ r.op = "SUBSCRIBE" /\ r.ch = channels BY <1>3, RequestFacts
    <3>2. <<>> \in Seq(Requests) /\ <<r>> \in Seq(Requests) BY <3>1, NothingFacts, SingleFacts
    <3>3. Greeting = <<r>> BY <1>2, <2>2
    <3> HIDE DEF r
    <3>4. <<>> \o <<r>> = <<r>> BY <3>2, ConcatFacts
    <3>5. Will(<<>> \o <<r>>, {}, c) <=> Subscribes(r, c) \/ (Will(<<>>, {}, c) /\ ~Leaves(r, c))
      BY <3>1, <3>2, WillAppend
    <3>6. ~Will(<<>>, {}, c) BY WillNothing
    <3>7. Subscribes(r, c) <=> c \in channels BY <3>1 DEF Subscribes
    <3> QED BY <1>6, <3>3, <3>4, <3>5, <3>6, <3>7 DEF Coming
  <2> QED BY <2>1, <2>2
<1>8. pending' = {}
  BY <1>1, <1>5, <1>6, SocketsFacts, GreetingCallFacts DEF GreetingCall, OnConnect
<1>9. up' => Expected'
  BY <1>1, <1>7, <1>8, GreetingCallFacts DEF Expected
<1>10. Every(inbox[sock], Topics)' BY <1>4, <1>6
<1>11. \A i \in 1..Len(inbox'[sock']) : inbox'[sock'][i].op # "EXEC"
  BY <1>10 DEF Every, Topics
<1>12. ~conf.health => Counted'
  BY <1>1, <1>5, <1>11, CountedLeave, GreetingCallFacts, PubSubCallFacts DEF PubSubCall
<1> QED BY <1>1, <1>5, <1>6, <1>9, <1>10, <1>12, GreetingStep, GreetingCallFacts DEF Errors

LEMMA ComingFacts ==
  ASSUME SocketInv, sock \in Sockets, NEW r \in Requests, inbox'[sock] = inbox[sock] \o <<r>>,
         sock' = sock, subs' = subs
  PROVE  \A c : Coming(c)' <=> Subscribes(r, c) \/ (Coming(c) /\ ~Leaves(r, c))
<1>1. inbox[sock] \in Seq(Requests) BY DEF SocketInv, SocketTypes
<1> TAKE c
<1>2. Coming(c)' <=> Will(inbox[sock] \o <<r>>, subs, c) BY DEF Coming
<1>3. Will(inbox[sock] \o <<r>>, subs, c)
        <=> Subscribes(r, c) \/ (Will(inbox[sock], subs, c) /\ ~Leaves(r, c))
  BY <1>1, WillAppend
<1> QED BY <1>2, <1>3 DEF Coming

LEMMA GreetingPingStep ==
  ASSUME GreetingCall, SendPing
  PROVE  RedisPyInv'
<1>1. /\ sock # NoSock /\ call.at \in {"send", "again"}
      /\ SendOut(<<Ping>>) /\ UNCHANGED <<sock, up, outbox>>
      /\ At("pong") \/ At("pong2")
  BY DEF SendPing
<1>2. Ping \in Requests /\ Ping.op = "PING" /\ <<Ping>> \in Seq(Requests) /\ Every(<<Ping>>, Topics)
  BY RequestFacts, TopicFacts
<1>3. /\ SocketInv' /\ watch' = watch /\ subs' = subs
      /\ inbox[sock] \in Seq(Requests) /\ sock \in Sockets
      /\ inbox'[sock] = IF up THEN inbox[sock] \o <<Ping>> ELSE <<>>
      /\ \A s \in Sockets \ {sock} : inbox'[s] = inbox[s]
  BY <1>1, <1>2, SendOutFacts, GreetingCallFacts
<1>4. Every(inbox'[sock], Topics)
  <2>1. Every(inbox[sock], Topics) /\ Every(<<>>, Topics)
    BY <1>1, TopicFacts, GreetingCallFacts
  <2>2. inbox[sock] \in Seq(Requests) BY <1>3
  <2>3. \A p \in Seq(Requests) :
          Every(inbox[sock], Topics) /\ Every(p, Topics) => Every(inbox[sock] \o p, Topics)
    BY <2>2, EveryFacts
  <2>4. Every(inbox[sock] \o <<Ping>>, Topics) BY ONLY <1>2, <2>1, <2>3
  <2> QED BY <1>3, <2>1, <2>4
<1>5. /\ call' \in Calls /\ call'.at \in {"pong", "pong2"} /\ call'.send = call.send
      /\ call'.want = call.want
  BY <1>1, GreetingCallFacts, AtFacts DEF CallSteps
<1>6. up => \A c : Coming(c)' <=> Coming(c)
  <2> SUFFICES ASSUME up PROVE \A c : Coming(c)' <=> Coming(c) OBVIOUS
  <2>1. inbox'[sock] = inbox[sock] \o <<Ping>> BY <1>3
  <2>2. SocketInv /\ sock' = sock BY <1>1, GreetingCallFacts
  <2>3. \A c : Coming(c)' <=> Subscribes(Ping, c) \/ (Coming(c) /\ ~Leaves(Ping, c))
    BY <1>2, <1>3, <2>1, <2>2, ComingFacts
  <2> QED BY <1>2, <2>3 DEF Subscribes, Leaves
<1>7. pending' = pending BY <1>1 DEF GreetingCall
<1>8. up' => Expected' BY <1>1, <1>5, <1>6, <1>7, GreetingCallFacts DEF Expected
<1>9. ~conf.health => Counted'
  BY <1>1, <1>3, <1>4, CountedTopics, GreetingCallFacts, PubSubCallFacts DEF PubSubCall
<1> QED BY <1>1, <1>3, <1>4, <1>5, <1>8, <1>9, GreetingStep, GreetingCallFacts DEF Errors

\* A reply is read that is not the answer to a subscription.
LEMMA GreetingReadSteps ==
  ASSUME GreetingCall, ReadPong \/ Read
  PROVE  RedisPyInv'
<1>1. /\ call.at \in {"pong", "pong2", "read"} /\ CanRead /\ outbox' = [outbox EXCEPT ![sock] = Tail(@)]
      /\ UNCHANGED <<sock, up, inbox>>
  BY DEF ReadPong, Read
<1>2. /\ SocketInv' /\ watch' = watch /\ subs' = subs
      /\ sock \in Sockets /\ outbox[sock] \in Seq(Requests) /\ outbox[sock] # <<>>
  BY <1>1, PopFacts, GreetingCallFacts
<1>3. /\ call' \in Calls /\ call'.send = call.send
      /\ \/ call'.at = "write" /\ call'.want = call.want
         \/ pubsub.at \notin {"subscribe", "unsubscribe"} /\ call'.at \in {"read", "ok"}
            /\ (call'.at = "read" => call'.want > 0)
  <2>1. CASE ReadPong
    <3>1. At("write") BY <2>1 DEF ReadPong
    <3> QED BY <1>1, <3>1, GreetingCallFacts, AtFacts DEF CallSteps
  <2>2. CASE Read
    <3> DEFINE a == Head(outbox[sock])
               step == IF call.want = 1 THEN "ok" ELSE "read"
    <3>1. call.at = "read" /\ call' = [call EXCEPT !.got = Append(@, a), !.want = @ - 1, !.at = step]
      BY <2>2 DEF Read
    <3>2. a \in Requests BY <1>2, TailFacts
    <3>3. Append(call.got, a) \in Seq(Requests) BY <1>1, <3>2, AppendFacts, GreetingCallFacts
    <3>4. call.want \in Nat /\ call.want > 0 BY <1>1, <3>1, GreetingCallFacts
    <3>5. call.want - 1 \in Nat /\ step \in {"ok", "read"} /\ (step = "read" => call.want - 1 > 0)
      BY <3>4
    <3> HIDE DEF a, step
    <3>6. call' \in Calls /\ call'.at = step /\ call'.send = call.send /\ call'.want = call.want - 1
      BY <1>1, <3>1, <3>3, <3>5, GreetingCallFacts DEF Calls, CallSteps
    <3>7. pubsub.at \notin {"subscribe", "unsubscribe"}
      BY <1>1, <3>1, GreetingCallFacts DEF Requesting
    <3> QED BY <3>5, <3>6, <3>7
  <2> QED BY <2>1, <2>2
<1>4. \A c : Coming(c)' <=> Coming(c) BY <1>1, <1>2 DEF Coming
<1>5. pending' = pending BY <1>1 DEF GreetingCall
<1>6. up' => Expected' BY <1>1, <1>3, <1>4, <1>5, GreetingCallFacts DEF Expected
<1>7. Every(inbox'[sock], Topics) /\ sock # NoSock /\ watch'[sock] = "no"
  BY <1>1, <1>2, SocketsFacts, GreetingCallFacts
<1>8. ~conf.health => Counted'
  BY <1>1, <1>2, <1>7, CountedTopics, GreetingCallFacts, PubSubCallFacts DEF PubSubCall
<1> QED BY <1>1, <1>2, <1>3, <1>6, <1>7, <1>8, GreetingStep, GreetingCallFacts DEF Errors

\* The object's request is written: from then on it will be carried out.
LEMMA GreetingWriteStep ==
  ASSUME GreetingCall, Write
  PROVE  RedisPyInv'
<1> DEFINE step == IF call.want > 0 THEN "read" ELSE "ok"
<1>1. /\ call.at \in {"send", "write"} /\ sock # NoSock /\ SendOut(call.send)
      /\ At(step) /\ UNCHANGED <<sock, up, outbox>>
  BY DEF Write
<1>2. /\ SocketInv' /\ watch' = watch /\ subs' = subs
      /\ inbox[sock] \in Seq(Requests) /\ sock \in Sockets
      /\ inbox'[sock] = IF up THEN inbox[sock] \o call.send ELSE <<>>
      /\ \A s \in Sockets \ {sock} : inbox'[s] = inbox[s]
  BY <1>1, SendOutFacts, GreetingCallFacts
<1>3. Every(inbox'[sock], Topics)
  <2>1. /\ Every(inbox[sock], Topics) /\ Every(call.send, Topics) /\ Every(<<>>, Topics)
        /\ call.send \in Seq(Requests)
    BY <1>1, TopicFacts, GreetingCallFacts
  <2>2. Every(inbox[sock] \o call.send, Topics) BY <1>2, <2>1, EveryFacts
  <2> QED BY <1>2, <2>1, <2>2
<1>4. step \in {"read", "ok"} /\ (step = "read" => call.want > 0) OBVIOUS
<1>5. /\ call' \in Calls /\ call'.at = step /\ call'.send = call.send /\ call'.want = call.want
  BY <1>1, GreetingCallFacts, AtFacts DEF CallSteps
<1>6. pubsub.at \in {"subscribe", "unsubscribe"} => step = "ok"
  <2>1. Requesting BY <1>1, GreetingCallFacts
  <2>2. pubsub.at \in {"subscribe", "unsubscribe"} => call.want = 0 BY <2>1 DEF Requesting
  <2> QED BY <2>2
<1> HIDE DEF step
<1>7. pending' = pending /\ pubsub' = pubsub /\ channels' = channels /\ wanted' = wanted
  BY <1>1 DEF GreetingCall
<1>8. ASSUME up PROVE Expected'
  <2>1. Expected /\ pubsub.at \in {"subscribe", "unsubscribe", "poll", "reread"}
    BY <1>1, <1>8, GreetingCallFacts DEF GreetingCall, PubSubs, PubSubSteps
  <2>2. pubsub.of \in SUBSET Channels BY <1>1, GreetingCallFacts DEF PubSubs
  <2>3. CASE pubsub.at = "subscribe"
    <3>1. call.send = <<Subscription(pubsub.of)>> BY <1>1, <2>3, GreetingCallFacts DEF Requesting
    <3> DEFINE r == Subscription(pubsub.of)
    <3>2. r \in Requests /\ r.op = "SUBSCRIBE" /\ r.ch = pubsub.of BY <2>2, RequestFacts
    <3>3. inbox'[sock] = inbox[sock] \o <<r>> BY <1>2, <1>8, <3>1
    <3> HIDE DEF r
    <3>4. \A c : Coming(c)' <=> Subscribes(r, c) \/ (Coming(c) /\ ~Leaves(r, c))
      BY <1>1, <1>2, <3>2, <3>3, ComingFacts, GreetingCallFacts
    <3>5. \A c : Coming(c)' <=> c \in pubsub.of \/ Coming(c)
      BY <3>2, <3>4 DEF Subscribes, Leaves
    <3> QED BY <1>7, <2>1, <2>3, <3>5 DEF Expected
  <2>4. CASE pubsub.at = "unsubscribe"
    <3>1. /\ call.send = <<Unsubscription(pubsub.of)>>
          /\ IF pubsub.of = {} THEN wanted = {} ELSE wanted \cap pubsub.of = {}
      BY <1>1, <2>4, GreetingCallFacts DEF Requesting
    <3> DEFINE r == Unsubscription(pubsub.of)
    <3>2. r \in Requests /\ r.op = "UNSUBSCRIBE" /\ r.ch = pubsub.of BY <2>2, RequestFacts
    <3>3. inbox'[sock] = inbox[sock] \o <<r>> BY <1>2, <1>8, <3>1
    <3> HIDE DEF r
    <3>4. \A c : Coming(c)' <=> Subscribes(r, c) \/ (Coming(c) /\ ~Leaves(r, c))
      BY <1>1, <1>2, <3>2, <3>3, ComingFacts, GreetingCallFacts
    <3>5. \A c : Coming(c)' <=> Coming(c) /\ ~(pubsub.of = {} \/ c \in pubsub.of)
      BY <3>2, <3>4 DEF Subscribes, Leaves
    <3> QED BY <1>7, <2>1, <2>4, <3>1, <3>5 DEF Expected
  <2>5. CASE pubsub.at \in {"poll", "reread"}
    <3>1. call.send \in {<<>>, <<HealthCheck>>} BY <1>1, <2>5, GreetingCallFacts DEF Requesting
    <3>2. \A c : Coming(c)' <=> Coming(c)
      <4>1. CASE call.send = <<>>
        <5>1. inbox'[sock] = inbox[sock] BY <1>2, <1>8, <4>1, NothingFacts, ConcatFacts
        <5> QED BY <1>1, <1>2, <5>1 DEF Coming
      <4>2. CASE call.send = <<HealthCheck>>
        <5>1. HealthCheck \in Requests /\ HealthCheck.op = "PING" BY RequestFacts
        <5>2. inbox'[sock] = inbox[sock] \o <<HealthCheck>> BY <1>2, <1>8, <4>2
        <5>3. SocketInv /\ sock \in Sockets /\ sock' = sock /\ subs' = subs
          BY <1>1, <1>2, GreetingCallFacts
        <5>4. \A c : Coming(c)' <=> Subscribes(HealthCheck, c) \/ (Coming(c) /\ ~Leaves(HealthCheck, c))
          BY <5>1, <5>2, <5>3, ComingFacts
        <5> QED BY <5>1, <5>4 DEF Subscribes, Leaves
      <4> QED BY <3>1, <4>1, <4>2
    <3> QED BY <1>7, <2>1, <2>5, <3>2 DEF Expected
  <2> QED BY <2>1, <2>3, <2>4, <2>5
<1>9. ~conf.health => Counted'
  BY <1>1, <1>2, <1>3, CountedTopics, GreetingCallFacts, PubSubCallFacts DEF PubSubCall
<1> QED BY <1>1, <1>2, <1>3, <1>4, <1>5, <1>6, <1>8, <1>9, GreetingStep, GreetingCallFacts DEF Errors

LEMMA PubSubStepSteps ==
  ASSUME PubSubCall, PubSubStep
  PROVE  RedisPyInv'
<1>1. CASE GreetingCall /\ ConnectionStep(Greeting)
  BY <1>1, GreetingConnectStep, GreetingPingStep, GreetingReadSteps, GreetingWriteStep, GreetingLostSteps
     DEF ConnectionStep
<1>2. CASE ~(GreetingCall /\ ConnectionStep(Greeting))
  BY <1>2, PubSubStepKeeps DEF GreetingCall
<1> QED BY <1>1, <1>2

LEMMA PipelineStepSteps ==
  ASSUME RedisPyInv, pubsub.at = "closed", PipelineStep, NewSession,
         UNCHANGED <<conf, pubsubVars, x, writes, executed>>
  PROVE  RedisPyInv'
<1>1. CASE \E mode \in Modes : BeginTransaction(mode) BY <1>1, BeginTransactionStep
<1>2. CASE Attempt \/ AttemptFails \/ Watched \/ Got \/ UserRaises
  BY <1>2, AttemptStep, AttemptFailsStep, WatchedStep, GotStep, UserRaisesStep
<1>3. CASE AttemptError \/ Executed \/ Reset \/ Unwatched \/ UnwatchTimesOut
  BY <1>3, AttemptErrorStep, ExecutedStep, ResetStep, UnwatchedStep, UnwatchTimesOutStep
<1>4. CASE Holding /\ ConnectionStep(<<>>) /\ UNCHANGED pipelineVars
  <2>1. call.at # "idle"
    BY <1>4 DEF ConnectionStep, Connect, ConnectFails, SendPing, ReadPong, NoPong, Write, WriteFails,
                Read, ReadFails
  <2>2. Waiting BY <2>1, NoCallFacts DEF RedisPyInv, InTurn
  <2>3. PipelineCall BY <1>4, <2>2 DEF PipelineCall
  <2> QED BY <1>4, <2>3, ConnectStep, SendPingStep, ReadPongStep, WriteStep, ReadStep, LostSteps
          DEF ConnectionStep
<1> QED BY <1>1, <1>2, <1>3, <1>4 DEF PipelineStep

-----------------------------------------------------------------------------
(* The steps of Redis. *)

\* Other sessions watch what they watched, and know of a change of the number;
\* an EXEC that is carried out sets it to the next one.
LEMMA CountedServed ==
  ASSUME SocketInv, UserTypes, NEW s \in Sockets, NEW a \in Requests, Taken(s, a)
  PROVE  /\ \A t \in Sockets \ {s} :
              /\ watch'[t] = "no" <=> watch[t] = "no"
              /\ watch'[t] = "clean" => watch[t] = "clean" /\ x' = x
         /\ executed' \in {executed, executed + 1} /\ {x', executed'} \subseteq Nat
         /\ Counted => Counted'
<1> DEFINE r == inbox[s][1]
<1>1. /\ inbox[s] \in Seq(Requests) /\ inbox[s] # <<>> /\ r \in Requests
      /\ Served(s, r, a) /\ inbox'[s] = Tail(inbox[s])
      /\ \A t \in Sockets \ {s} : inbox'[t] = inbox[t]
      /\ writes' = writes
  BY DEF Taken
<1>2. watch \in [Sockets -> Marks] /\ {x, executed, writes} \subseteq Nat /\ r.n \in Nat
  BY <1>1 DEF SocketInv, SocketTypes, UserTypes, Requests
<1>3. 1 \in 1..Len(inbox[s]) BY <1>1
<1> HIDE DEF r
<1>4. /\ watch' \in [Sockets -> Marks] /\ {x', executed'} \subseteq Nat
      /\ \A t \in Sockets \ {s} : watch'[t] = "no" <=> watch[t] = "no"
  BY <1>1, <1>2, ServedTypes
<1>5. \/ x' = x /\ executed' = executed /\ \A t \in Sockets \ {s} : watch'[t] = watch[t]
      \/ /\ r.op \in {"EXEC", "INCR"} /\ watch[s] # "dirty"
         /\ x' = (IF r.op = "EXEC" THEN r.n ELSE x + 1) /\ executed' = executed + 1
         /\ \A t \in Sockets \ {s} : watch'[t] # "clean"
  BY <1>1, <1>2, TouchedFacts DEF Served
<1>6. ASSUME Counted PROVE Counted'
  <2>1. x' = writes' + executed'
    <3>1. CASE x' = x /\ executed' = executed BY <3>1, <1>1, <1>6 DEF Counted
    <3>2. CASE /\ r.op \in {"EXEC", "INCR"} /\ watch[s] # "dirty"
               /\ x' = (IF r.op = "EXEC" THEN r.n ELSE x + 1) /\ executed' = executed + 1
      <4>1. r.op = "EXEC" => r.n = x + 1
        BY <1>2, <1>3, <1>6, <3>2 DEF Counted, ExecsValid, Valid, Marks, r
      <4>2. x' = x + 1 /\ x = writes + executed BY <1>6, <3>2, <4>1 DEF Counted
      <4> QED BY <1>1, <1>2, <3>2, <4>2
    <3> QED BY <1>5, <3>1, <3>2
  <2>2. ASSUME NEW t \in Sockets, NEW i \in 1..Len(inbox'[t]), inbox'[t][i].op = "EXEC"
        PROVE  Len(inbox'[t]) = 1 /\ watch'[t] # "no" /\ (watch'[t] = "clean" => inbox'[t][i].n = x' + 1)
    <3>1. t # s
      <4> SUFFICES ASSUME t = s PROVE FALSE OBVIOUS
      <4>1. /\ i + 1 \in 1..Len(inbox[s]) /\ Tail(inbox[s])[i] = inbox[s][i+1]
            /\ Len(Tail(inbox[s])) = Len(inbox[s]) - 1 /\ Len(inbox[s]) \in Nat
        BY <1>1, <2>2, TailFacts
      <4>2. Len(inbox[s]) = 1 BY <1>1, <1>6, <2>2, <4>1 DEF Counted, ExecsValid
      <4> QED BY <1>1, <2>2, <4>1, <4>2
    <3>2. inbox'[t] = inbox[t] BY <1>1, <3>1
    <3>3. Len(inbox[t]) = 1 /\ watch[t] # "no" /\ (watch[t] = "clean" => inbox[t][i].n = x + 1)
      BY <1>6, <2>2, <3>2 DEF Counted, ExecsValid, Valid
    <3>4. watch'[t] # "no" /\ (watch'[t] = "clean" => watch[t] = "clean" /\ x' = x)
      BY <1>4, <1>5, <3>1, <3>3
    <3> QED BY <3>2, <3>3, <3>4
  <2>3. ExecsValid' BY <2>2 DEF ExecsValid, Valid
  <2> QED BY <2>1, <2>3 DEF Counted
<1> QED BY <1>4, <1>5, <1>6

\* A request on a socket that the client has left.
LEMMA ServeElsewhere ==
  ASSUME RedisPyInv, NEW s \in Sockets, s # sock, NEW a \in Requests, Taken(s, a), SocketInv'
  PROVE  RedisPyInv'
<1>1. /\ Writes(inbox[s][1]) /\ inbox[s][1] \in Requests /\ Served(s, inbox[s][1], a)
      /\ \A t \in Sockets \ {s} : inbox'[t] = inbox[t]
      /\ outbox' = outbox
      /\ UNCHANGED <<conf, sock, up, call, faults, pipelineVars, pubsubVars, writes>>
  BY DEF Taken
<1>2. /\ SocketInv /\ UserTypes /\ sock \in Sockets \cup {NoSock}
      /\ {x, executed} \subseteq Nat /\ returned \in Nat
  BY DEF RedisPyInv, SocketInv, SocketTypes, UserTypes
<1>3. /\ \A t \in Sockets \ {s} : /\ watch'[t] = "no" <=> watch[t] = "no"
                                  /\ watch'[t] = "clean" => watch[t] = "clean" /\ x' = x
      /\ executed' \in {executed, executed + 1} /\ {x', executed'} \subseteq Nat
      /\ Counted => Counted'
  BY <1>2, CountedServed
<1>4. subs' = subs BY <1>1, <1>2, ServedTypes
<1>5. sock # NoSock => /\ inbox'[sock] = inbox[sock]
                       /\ watch'[sock] = "no" <=> watch[sock] = "no"
                       /\ watch'[sock] = "clean" => watch[sock] = "clean" /\ x' = x
  BY <1>1, <1>2, <1>3
<1>6. UserTypes' BY <1>1, <1>3 DEF RedisPyInv, UserTypes, pipelineVars, pubsubVars
<1>7. pipe' = pipe /\ pubsub' = pubsub /\ callback' = callback /\ returned' = returned
  BY <1>1 DEF pipelineVars, pubsubVars
<1>8. InTurn'
  <2>1. InTurn BY DEF RedisPyInv
  <2>2. Quiet' <=> Quiet BY <1>1, <1>5 DEF Quiet
  <2>3. Sends' <=> Sends BY <1>1, <1>7 DEF Sends, Every, Asked
  <2>4. Waiting' <=> Waiting BY <1>7 DEF Waiting
  <2>5. Asked' = Asked /\ Answers' = Answers BY <1>1 DEF Asked, Answers
  <2>6. sock' = sock /\ call' = call /\ outbox' = outbox BY <1>1
  <2>7. pubsub.at # "closed" => Every(call.send, Topics)' BY <1>1, <2>1 DEF InTurn
  <2> QED BY <1>5, <1>7, <2>1, <2>2, <2>3, <2>4, <2>5, <2>6, <2>7 DEF InTurn
<1>9. Answered' <=> Answered BY <1>1 DEF Answered
<1>10. Plain' BY <1>1, <1>4, <1>5, <1>7, <1>9 DEF RedisPyInv, Plain, Unwatching
<1>11. Confirmed' <=> Confirmed BY <1>1, <1>7 DEF Confirmed
<1>12. Returns'
  <2>1. \A k, l \in Nat : k <= l => k <= l + 1 OBVIOUS
  <2> QED BY <1>2, <1>3, <1>7, <1>11, <2>1 DEF RedisPyInv, Returns
<1>13. ~conf.health => Reading'
  <2>1. Waiting' <=> Waiting BY <1>7 DEF Waiting
  <2>2. x' = x => ReadsNow' = ReadsNow BY DEF ReadsNow
  <2>3. sock' = sock /\ call' = call /\ outbox' = outbox /\ up' = up BY <1>1
  <2>4. (up => sock # NoSock) BY <1>2 DEF SocketInv, Apart
  <2>5. ASSUME ~conf.health PROVE Reading'
    <3>1. Reading BY <2>5 DEF RedisPyInv, Guarded
    <3> QED BY <1>5, <1>7, <1>9, <2>1, <2>2, <2>3, <2>4, <3>1 DEF Reading, Valid
  <2> QED BY <2>5
<1>14. Known'
  <2>1. up => sock # NoSock BY <1>2 DEF SocketInv, Apart
  <2>2. up => \A c : Coming(c)' <=> Coming(c) BY <1>1, <1>4, <1>5, <2>1 DEF Coming
  <2>3. UNCHANGED <<pubsub, channels, pending, callback, wanted, call, up>> BY <1>1 DEF pubsubVars
  <2>4. Requesting' <=> Requesting BY <2>3 DEF Requesting
  <2>5. up /\ Expected => Expected' BY <2>2, <2>3 DEF Expected
  <2> QED BY <2>3, <2>4, <2>5 DEF RedisPyInv, Known
<1> QED BY <1>1, <1>3, <1>6, <1>8, <1>10, <1>12, <1>13, <1>14 DEF RedisPyInv, Guarded

\* A request of a PubSub object.
LEMMA ServeTopic ==
  ASSUME RedisPyInv, pubsub.at # "closed", NEW a \in Requests, sock \in Sockets, Taken(sock, a), SocketInv'
  PROVE  RedisPyInv'
<1> DEFINE r == inbox[sock][1]
<1>1. /\ inbox[sock] \in Seq(Requests) /\ inbox[sock] # <<>> /\ r \in Requests
      /\ Served(sock, r, a) /\ inbox'[sock] = Tail(inbox[sock])
      /\ UNCHANGED <<conf, sock, up, call, faults, pipelineVars, pubsubVars, writes>>
  BY DEF Taken
<1>2. /\ SocketInv /\ UserTypes /\ pipe.at = "idle" /\ Every(inbox[sock], Topics)
      /\ watch[sock] = "no" /\ {x, executed} \subseteq Nat /\ returned \in Nat
  BY SocketsFacts DEF RedisPyInv, InTurn, Plain, Unwatching, UserTypes
<1>3. r \in Topics /\ Every(Tail(inbox[sock]), Topics) BY <1>1, <1>2, EveryFacts
<1> HIDE DEF r
<1>4. /\ r.op \in {"PING", "SUBSCRIBE", "UNSUBSCRIBE"} /\ UNCHANGED <<x, watch, executed>>
      /\ r.op = "PING" => subs' = subs
      /\ r.op = "SUBSCRIBE" => subs' = subs \cup r.ch
      /\ r.op = "UNSUBSCRIBE" => subs' = IF r.ch = {} THEN {} ELSE subs \ r.ch
  BY <1>1, <1>3 DEF Served, Topics
<1>5. \A c : Coming(c)' <=> Coming(c)
  <2> TAKE c
  <2>1. c \in subs' <=> Subscribes(r, c) \/ (c \in subs /\ ~Leaves(r, c))
    BY <1>4 DEF Subscribes, Leaves
  <2>2. Will(Tail(inbox[sock]), subs', c) <=> Will(inbox[sock], subs, c)
    BY <1>1, <2>1, WillTail DEF r
  <2>3. Coming(c)' <=> Will(inbox'[sock'], subs', c) BY DEF Coming
  <2> QED BY <1>1, <2>2, <2>3 DEF Coming
<1>6. /\ UNCHANGED <<pubsub, channels, pending, callback, wanted, call, up, pipe, returned>>
      /\ sock' = sock /\ conf' = conf
  BY <1>1 DEF pubsubVars, pipelineVars
<1>7. UserTypes' BY <1>1, <1>4 DEF RedisPyInv, UserTypes, pipelineVars, pubsubVars
<1>8. Every(inbox[sock], Topics)' BY <1>1, <1>3
<1>9. Every(call.send, Topics)' BY <1>6 DEF RedisPyInv, InTurn
<1>10. InTurn' BY <1>6, <1>8, <1>9 DEF RedisPyInv, InTurn
<1>11. Plain' BY <1>2, <1>4, <1>6 DEF RedisPyInv, Plain
<1>12. Returns' BY <1>2, <1>4, <1>6 DEF RedisPyInv, Returns, Confirmed
<1>13. Reading' BY <1>2, <1>6 DEF Reading, Waiting
<1>14. ~conf.health => Counted' BY <1>2, CountedServed DEF RedisPyInv, Guarded
<1>15. Requesting' <=> Requesting BY <1>6 DEF Requesting
<1>16. up /\ Expected => Expected' BY <1>5, <1>6 DEF Expected
<1>17. Known' BY <1>6, <1>15, <1>16 DEF RedisPyInv, Known
<1> QED BY <1>6, <1>7, <1>10, <1>11, <1>12, <1>13, <1>14, <1>17 DEF RedisPyInv, Guarded

\* A request of a pipeline, which waits for the answer.
LEMMA ServePipeline ==
  ASSUME RedisPyInv, pubsub.at = "closed", NEW a \in Requests, sock \in Sockets, Taken(sock, a), SocketInv'
  PROVE  RedisPyInv'
<1> DEFINE r == inbox[sock][1]
           p == inbox[sock]
           q == outbox[sock]
<1>1. /\ p \in Seq(Requests) /\ p # <<>> /\ r \in Requests
      /\ Served(sock, r, a) /\ inbox'[sock] = Tail(p)
      /\ q \in Seq(Requests) /\ outbox'[sock] = Append(q, a)
      /\ UNCHANGED <<conf, sock, up, call, faults, pipelineVars, pubsubVars, writes>>
  BY DEF Taken
<1>2. /\ UNCHANGED <<pubsub, channels, pending, callback, wanted, call, up, pipe, returned>>
      /\ sock' = sock /\ conf' = conf /\ sock # NoSock
  BY <1>1, SocketsFacts DEF pubsubVars, pipelineVars
<1>3. /\ SocketInv /\ UserTypes /\ InTurn /\ subs = {} /\ ~callback /\ call \in Calls
      /\ {x, executed} \subseteq Nat /\ returned \in Nat /\ watch \in [Sockets -> Marks]
  BY DEF RedisPyInv, Plain, UserTypes, SocketInv, SocketTypes
<1>4. Waiting /\ Sends /\ call.at \in {"pong", "pong2", "read"}
  <2>1. ~Quiet BY <1>1, <1>2 DEF Quiet
  <2>2. Waiting BY <1>3, <2>1 DEF InTurn
  <2>3. Sends /\ call.at \notin {"idle", "send", "again", "write", "ok"} \cup Errors
    BY <1>2, <1>3, <2>1, <2>2 DEF InTurn
  <2> QED BY <1>3, <2>2, <2>3 DEF Calls, CallSteps
<1>5. /\ Len(p) \in Nat /\ Len(p) > 0 /\ Len(q) \in Nat
      /\ Tail(p) \in Seq(Requests) /\ Len(Tail(p)) = Len(p) - 1
      /\ Append(q, a) \in Seq(Requests) /\ Len(Append(q, a)) = Len(q) + 1
  BY <1>1, TailFacts, AppendFacts
<1>6. Len(inbox'[sock]) + Len(outbox'[sock]) = Len(inbox[sock]) + Len(outbox[sock])
  <2>1. \A k, l \in Nat : (k - 1) + (l + 1) = k + l OBVIOUS
  <2>2. (Len(p) - 1) + (Len(q) + 1) = Len(p) + Len(q) BY <1>5, <2>1
  <2>3. Len(inbox'[sock]) = Len(p) - 1 /\ Len(outbox'[sock]) = Len(q) + 1 BY <1>1, <1>5
  <2> HIDE DEF p, q
  <2>4. Len(inbox'[sock]) + Len(outbox'[sock]) = Len(p) + Len(q) BY <2>2, <2>3
  <2> QED BY <2>4 DEF p, q
<1>7. Waiting' /\ Sends' /\ Asked' = Asked /\ Answers' = Answers
  BY <1>2, <1>4 DEF Waiting, Sends, Every, Asked, Answers
<1>8. UserTypes'
  <2>1. {x', executed'} \subseteq Nat BY <1>3, CountedServed
  <2> QED BY <1>1, <2>1 DEF RedisPyInv, UserTypes, pipelineVars, pubsubVars
<1>9. ~conf.health => Counted' BY <1>3, CountedServed DEF RedisPyInv, Guarded
<1>10. Known' BY <1>2 DEF RedisPyInv, Known
<1>11. CASE call.at \in {"pong", "pong2"}
  <2>1. p = <<Ping>> BY <1>1, <1>2, <1>3, <1>4, <1>11 DEF InTurn
  <2>2. r.op = "PING" /\ inbox'[sock] = <<>>
    <3>1. r = Ping BY <2>1
    <3>2. Tail(<<Ping>>) = <<>> OBVIOUS
    <3> QED BY <1>1, <2>1, <3>1, <3>2, RequestFacts
  <2>3. UNCHANGED <<x, watch, subs, executed>> BY <1>1, <2>2 DEF Served
  <2>4. InTurn' BY <1>2, <1>3, <1>4, <1>6, <1>7, <1>11, <2>2 DEF InTurn
  <2>5. ~Answered /\ ~Answered' BY <1>2, <1>11 DEF Answered
  <2>6. Plain' BY <1>2, <2>3, <2>5 DEF RedisPyInv, Plain, Unwatching
  <2>7. Confirmed' <=> Confirmed BY <1>2, <1>11 DEF Confirmed
  <2>8. Returns' BY <1>2, <2>3, <2>7 DEF RedisPyInv, Returns
  <2>9. conf.health BY <1>4, <1>11 DEF RedisPyInv, Guarded, Reading
  <2> QED BY <1>2, <1>8, <1>10, <2>4, <2>6, <2>8, <2>9 DEF RedisPyInv, Guarded
<1>12. CASE call.at = "read"
  <2>1. /\ Len(p) + Len(q) <= call.want /\ Every(p, Asked) /\ Every(q, Answers)
    BY <1>2, <1>3, <1>4, <1>12 DEF InTurn
  <2>2. r = call.send[1] /\ Every(Tail(p), Asked)
    BY <1>1, <2>1, EveryFacts DEF Asked
  <2> HIDE DEF p, q, r
  <2>3. /\ pipe.at = "watch" => r.op = "WATCH"
        /\ pipe.at = "get" => r.op = "GET"
        /\ pipe.at = "unwatch" => r.op = "UNWATCH"
        /\ pipe.at = "exec" => r.op = IF pipe.watching THEN "EXEC" ELSE "INCR"
        /\ pipe.at \in {"watch", "get", "exec", "unwatch"}
    BY <1>4, <2>2 DEF Sends, Waiting
  <2>4. a \in Answers
    BY <1>1, <2>2, <2>3 DEF Served, Answers, Request
  <2>5. Every(outbox'[sock], Answers) BY <1>1, <2>1, <2>4, EveryFacts
  <2>6. InTurn'
    BY <1>1, <1>2, <1>3, <1>4, <1>6, <1>7, <1>12, <2>2, <2>5 DEF InTurn
  <2>7. Answered' BY <1>1, <1>2, <1>5, <1>12, EmptyFacts DEF Answered
  <2>8. /\ r.op = "WATCH" => watch'[sock] # "no" /\ subs' = subs
        /\ r.op = "GET" => a.n = x /\ x' = x /\ watch' = watch /\ subs' = subs
        /\ r.op \in {"UNWATCH", "EXEC", "INCR"} => watch'[sock] = "no" /\ subs' = subs
        /\ r.op \in {"EXEC", "INCR"} /\ a.op # "NIL" => executed' = executed + 1
        /\ executed' \in {executed, executed + 1}
    BY <1>1, <1>3, TouchedFacts DEF Served, Request
  <2>9. Plain'
    BY <1>2, <1>3, <2>3, <2>8 DEF RedisPyInv, Plain, Unwatching
  <2>10. Confirmed' => Confirmed \/ executed' = executed + 1
    <3>1. SomeIn(outbox'[sock], Succeeded) => SomeIn(q, Succeeded) \/ a.op # "NIL"
      BY <1>1, SomeFacts DEF Succeeded
    <3> QED BY <1>2, <1>12, <2>3, <2>8, <3>1 DEF Confirmed, q
  <2>11. Returns'
    <3>1. \A k, l \in Nat : k + 1 <= l => k + 0 <= l /\ k + 1 <= l + 1 OBVIOUS
    <3>2. \A k, l \in Nat : k + 0 <= l => k + 0 <= l + 1 /\ k + 1 <= l + 1 OBVIOUS
    <3> QED BY <1>2, <1>3, <2>8, <2>10, <3>1, <3>2 DEF RedisPyInv, Returns
  <2>12. ASSUME ~conf.health PROVE Reading'
    <3>1. Reading BY <2>12 DEF RedisPyInv, Guarded
    <3>2. pipe.at = "get" /\ watch'[sock] = "clean" => Every(outbox[sock], ReadsNow)' /\ Every(call.got, ReadsNow)'
      <4> SUFFICES ASSUME pipe.at = "get", watch'[sock] = "clean"
                   PROVE  Every(outbox[sock], ReadsNow)' /\ Every(call.got, ReadsNow)'
        OBVIOUS
      <4>1. Every(q, ReadsNow) /\ Every(call.got, ReadsNow)
        BY <1>12, <2>3, <2>8, <3>1 DEF Reading, q
      <4>2. ReadsNow' = ReadsNow /\ a \in ReadsNow BY <2>3, <2>8 DEF ReadsNow
      <4>3. Every(Append(q, a), ReadsNow) BY <1>1, <4>1, <4>2, EveryFacts
      <4>4. Every(outbox'[sock], ReadsNow') /\ Every(call'.got, ReadsNow') BY <1>1, <1>2, <4>1, <4>2, <4>3
      <4> QED BY <1>2, <4>4
    <3> QED BY <1>2, <1>12, <2>3, <2>8, <3>1, <3>2 DEF Reading, Waiting
  <2> QED BY <1>2, <1>8, <1>9, <1>10, <2>6, <2>9, <2>11, <2>12 DEF RedisPyInv, Guarded
<1> QED BY <1>4, <1>11, <1>12

LEMMA ServeStep ==
  ASSUME RedisPyInv, NEW s \in Sockets, Serve(s)
  PROVE  RedisPyInv'
<1>1. SocketInv /\ {x, executed} \subseteq Nat BY DEF RedisPyInv, UserTypes
<1>2. SocketInv' BY <1>1, ServeSockets
<1>3. PICK a \in Requests : Taken(s, a) BY <1>1, ServeFacts
<1>4. CASE s # sock BY <1>2, <1>3, <1>4, ServeElsewhere
<1>5. CASE s = sock BY <1>2, <1>3, <1>5, ServeTopic, ServePipeline
<1> QED BY <1>4, <1>5

-----------------------------------------------------------------------------
(* Lost sockets, other clients, and the theorems. *)

\* A socket closes: what the client has read, or may read, stays true.
LEMMA DropStep ==
  ASSUME RedisPyInv, NEW s \in Sockets, Drop(s), EndSession(s),
         UNCHANGED <<conf, pipelineVars, pubsubVars, x, writes, executed>>
  PROVE  RedisPyInv'
<1>1. /\ SocketInv /\ UserTypes /\ InTurn /\ sock \in Sockets \cup {NoSock}
      /\ inbox \in [Sockets -> Seq(Requests)] /\ outbox \in [Sockets -> Seq(Requests)]
      /\ {x, executed, returned} \subseteq Nat
  BY DEF RedisPyInv, SocketInv, SocketTypes, UserTypes
<1>2. /\ SocketInv'
      /\ sock' = sock /\ up' = (up /\ s # sock) /\ call' = call
      /\ inbox'[s] = <<>> /\ watch'[s] = "no"
      /\ \A t \in Sockets \ {s} : inbox'[t] = inbox[t] /\ watch'[t] = watch[t]
      /\ \A t \in Sockets : outbox'[t] \in {outbox[t], <<>>}
      /\ \A t \in Sockets \ {s} : outbox'[t] = outbox[t]
      /\ s # sock => subs' = subs
  BY <1>1, DropFacts
<1>3. /\ UNCHANGED <<pipe, pubsub, channels, pending, callback, wanted, returned, call, x, writes, executed>>
      /\ conf' = conf
  BY <1>2 DEF pipelineVars, pubsubVars
<1>4. sock # NoSock => /\ inbox'[sock] \in {inbox[sock], <<>>}
                       /\ outbox'[sock] \in {outbox[sock], <<>>}
                       /\ watch'[sock] \in {watch[sock], "no"}
                       /\ up' => inbox'[sock] = inbox[sock] /\ watch'[sock] = watch[sock]
                                 /\ outbox'[sock] = outbox[sock]
                       /\ inbox[sock] \in Seq(Requests) /\ outbox[sock] \in Seq(Requests)
  BY <1>1, <1>2
<1>5. subs' \subseteq subs /\ (up' => subs' = subs)
  <2>1. subs' = IF s = sock THEN {} ELSE subs BY DEF EndSession
  <2> QED BY <1>2, <2>1
<1>6. UserTypes' BY <1>1, <1>3 DEF UserTypes
<1>7. Waiting' = Waiting /\ Asked' = Asked /\ Answers' = Answers /\ (Sends' <=> Sends)
  BY <1>3 DEF Waiting, Asked, Answers, Sends, Every
<1>8. \A T : Every(<<>>, T) /\ ~SomeIn(<<>>, T) BY DEF Every, SomeIn
<1>9. Quiet => Quiet' BY <1>2, <1>4 DEF Quiet
<1>10. ASSUME sock # NoSock, NEW n \in Nat, Len(inbox[sock]) + Len(outbox[sock]) <= n
       PROVE  Len(inbox'[sock]) + Len(outbox'[sock]) <= n
  <2>1. Len(inbox[sock]) \in Nat /\ Len(outbox[sock]) \in Nat BY <1>4, <1>10, EmptyFacts
  <2>2. Len(inbox'[sock]) \in {Len(inbox[sock]), 0} /\ Len(outbox'[sock]) \in {Len(outbox[sock]), 0}
    BY <1>4, <1>10
  <2>3. \A k, l \in Nat : k + l <= n => k + 0 <= n /\ 0 + l <= n /\ 0 + 0 <= n /\ k + l <= n OBVIOUS
  <2> QED BY <1>10, <2>1, <2>2, <2>3
<1>11. call.want \in Nat BY <1>1 DEF UserTypes, Calls
<1>12. InTurn'
  <2>1. ASSUME pubsub.at = "closed", Waiting, call.at \in {"pong", "pong2"}
        PROVE  Len(inbox'[sock]) + Len(outbox'[sock]) <= 1 /\ inbox'[sock] \in {<<>>, <<Ping>>}
    BY <1>1, <1>4, <1>10, <2>1 DEF InTurn
  <2>2. ASSUME pubsub.at = "closed", Waiting, call.at = "read"
        PROVE  /\ Len(inbox'[sock]) + Len(outbox'[sock]) <= call.want
               /\ Every(inbox'[sock], Asked) /\ Every(outbox'[sock], Answers)
    BY <1>1, <1>4, <1>8, <1>10, <1>11, <2>2 DEF InTurn
  <2>3. ASSUME pubsub.at # "closed", sock # NoSock PROVE Every(inbox'[sock], Topics)
    BY <1>1, <1>4, <1>8, <2>3 DEF InTurn
  <2>4. pubsub.at # "closed" => Every(call.send, Topics)' BY <1>1, <1>3 DEF InTurn
  <2> QED BY <1>1, <1>2, <1>3, <1>7, <1>9, <2>1, <2>2, <2>3, <2>4 DEF InTurn
<1>13. Answered' => Answered
  BY <1>2, <1>3, <1>4 DEF Answered
<1>14. Plain'
  BY <1>2, <1>3, <1>4, <1>5, <1>13 DEF RedisPyInv, Plain, Unwatching
<1>15. Confirmed' => Confirmed
  BY <1>2, <1>3, <1>4, <1>8 DEF Confirmed
<1>16. Returns'
  <2>1. \A k, l \in Nat : k + 1 <= l => k + 0 <= l OBVIOUS
  <2> QED BY <1>1, <1>3, <1>15, <2>1 DEF RedisPyInv, Returns
<1>17. ASSUME ~conf.health PROVE Counted' /\ Reading'
  <2>1. Counted /\ Reading BY <1>17 DEF RedisPyInv, Guarded
  <2>2. ASSUME NEW t \in Sockets, NEW i \in 1..Len(inbox'[t]), inbox'[t][i].op = "EXEC"
        PROVE  Len(inbox'[t]) = 1 /\ watch'[t] # "no" /\ (watch'[t] = "clean" => inbox'[t][i].n = x' + 1)
    <3>1. t # s BY <1>2, <2>2
    <3>2. inbox'[t] = inbox[t] /\ watch'[t] = watch[t] BY <1>2, <3>1
    <3> QED BY <1>3, <2>1, <2>2, <3>2 DEF Counted, ExecsValid, Valid
  <2>3. Counted' BY <1>3, <2>1, <2>2 DEF Counted, ExecsValid, Valid
  <2>4. ReadsNow' = ReadsNow BY <1>3 DEF ReadsNow
  <2>5. up' => up /\ sock # NoSock BY <1>1, <1>2 DEF SocketInv, Apart
  <2>6. Reading'
    BY <1>2, <1>3, <1>4, <1>7, <1>8, <1>13, <2>1, <2>4, <2>5 DEF Reading, Valid
  <2> QED BY <2>3, <2>6
<1>18. Known'
  <2>1. up' => up /\ sock # NoSock BY <1>1, <1>2 DEF SocketInv, Apart
  <2>2. up' => \A c : Coming(c)' <=> Coming(c) BY <1>2, <1>4, <1>5, <2>1 DEF Coming
  <2>3. Requesting' <=> Requesting BY <1>3 DEF Requesting
  <2>4. up' /\ Expected => Expected' BY <1>3, <2>2 DEF Expected
  <2> QED BY <1>3, <2>1, <2>3, <2>4 DEF RedisPyInv, Known
<1> QED BY <1>2, <1>3, <1>6, <1>12, <1>14, <1>16, <1>17, <1>18 DEF RedisPyInv, Guarded

LEMMA OtherWritesStep ==
  ASSUME RedisPyInv, OtherWrites
  PROVE  RedisPyInv'
<1>1. /\ SocketInv /\ UserTypes /\ {x, writes, executed} \subseteq Nat /\ sock \in Sockets \cup {NoSock}
      /\ up => sock # NoSock
  BY DEF RedisPyInv, UserTypes, SocketInv, SocketTypes, Apart
<1>2. /\ SocketInv' /\ x' = x + 1 /\ writes' = writes + 1 /\ {x', writes'} \subseteq Nat
      /\ \A s \in Sockets : watch'[s] # "clean" /\ (watch'[s] = "no" <=> watch[s] = "no")
      /\ UNCHANGED <<conf, sock, up, inbox, outbox, call, pipelineVars, pubsubVars, subs, executed>>
  BY <1>1, OtherWritesFacts DEF connectionVars, socketVars
<1>3. UNCHANGED <<pipe, pubsub, channels, pending, callback, wanted, returned>>
  BY <1>2 DEF pipelineVars, pubsubVars
<1>4. UserTypes' BY <1>1, <1>2, <1>3 DEF UserTypes
<1>5. InTurn'
  <2>1. /\ Quiet' <=> Quiet
        /\ Waiting' <=> Waiting
        /\ Sends' <=> Sends
    BY <1>2, <1>3 DEF Quiet, Waiting, Sends, Every, Asked
  <2>2. Asked' = Asked /\ Answers' = Answers BY <1>2 DEF Asked, Answers
  <2>3. pubsub.at # "closed" => /\ Every(call.send, Topics)'
                                /\ sock # NoSock => Every(inbox[sock], Topics)'
    BY <1>2 DEF RedisPyInv, InTurn
  <2> QED BY <1>2, <1>3, <2>1, <2>2, <2>3 DEF RedisPyInv, InTurn
<1>6. Answered' <=> Answered BY <1>2 DEF Answered
<1>7. Plain' BY <1>1, <1>2, <1>3, <1>6 DEF RedisPyInv, Plain, Unwatching
<1>8. Confirmed' <=> Confirmed BY <1>2, <1>3 DEF Confirmed
<1>9. Returns' BY <1>2, <1>3, <1>8 DEF RedisPyInv, Returns
<1>10. ASSUME ~conf.health PROVE Counted' /\ Reading'
  <2>1. Counted /\ Reading BY <1>10 DEF RedisPyInv, Guarded
  <2>2. x' = writes' + executed' BY <1>1, <1>2, <2>1 DEF Counted
  <2>3. ExecsValid' BY <1>2, <2>1 DEF Counted, ExecsValid, Valid
  <2>4. Waiting' <=> Waiting BY <1>3 DEF Waiting
  <2>5. Reading' BY <1>1, <1>2, <1>3, <1>6, <2>1, <2>4 DEF Reading, Valid
  <2> QED BY <2>2, <2>3, <2>5 DEF Counted
<1>11. \A c : Coming(c)' <=> Coming(c) BY <1>2 DEF Coming
<1>12. Requesting' <=> Requesting BY <1>2, <1>3 DEF Requesting
<1>13. Expected => Expected' BY <1>2, <1>3, <1>11 DEF Expected
<1>14. Known' BY <1>2, <1>3, <1>12, <1>13 DEF RedisPyInv, Known
<1> QED BY <1>2, <1>4, <1>5, <1>7, <1>9, <1>10, <1>14 DEF RedisPyInv, Guarded

LEMMA RedisPyStarts == Init => RedisPyInv
<1> SUFFICES ASSUME Init PROVE RedisPyInv OBVIOUS
<1>1. /\ conf \in Configurations /\ sock = NoSock /\ up = FALSE
      /\ inbox = [s \in Sockets |-> <<>>] /\ outbox = [s \in Sockets |-> <<>>]
      /\ call = NoCall /\ pipe = NoPipe /\ returned = 0
      /\ pubsub = [at |-> "closed", of |-> {}, block |-> FALSE, retried |-> FALSE]
      /\ channels = {} /\ pending = {} /\ callback = FALSE /\ wanted = {}
      /\ x = 0 /\ watch = [s \in Sockets |-> "no"] /\ subs = {} /\ writes = 0 /\ executed = 0
  BY DEF Init, ConnectionInit, PipelineInit, PubSubInit
<1>2. SocketTypes BY <1>1, NothingFacts DEF SocketTypes, Marks
<1>3. Every(<<>>, Changes) BY DEF Every
<1>4. Apart BY <1>1, <1>3 DEF Apart
<1>5. pubsub \in PubSubs BY <1>1 DEF PubSubs, PubSubSteps
<1>6. UserTypes
  <2>1. call \in Calls /\ pipe \in Pipes BY <1>1, NoCallFacts, NoPipeFacts
  <2>2. {x, writes, executed, returned} \subseteq Nat BY <1>1
  <2>3. channels \cup pending \cup wanted \subseteq Channels /\ callback \in BOOLEAN BY <1>1
  <2> QED BY <1>1, <1>5, <2>1, <2>2, <2>3 DEF UserTypes
<1>7. ~Waiting BY <1>1, NoPipeFacts DEF Waiting
<1>8. InTurn BY <1>1, <1>7, NoCallFacts, NoPipeFacts DEF InTurn, Quiet, Errors
<1>9. Plain BY <1>1 DEF Plain
<1>10. Returns BY <1>1, NoPipeFacts DEF Returns, Confirmed
<1>11. ExecsValid BY <1>1 DEF ExecsValid
<1>12. Guarded BY <1>1, <1>7, <1>11, NoPipeFacts DEF Guarded, Counted, Reading
<1>13. Known BY <1>1 DEF Known
<1> QED BY <1>2, <1>4, <1>6, <1>8, <1>9, <1>10, <1>12, <1>13 DEF RedisPyInv, SocketInv

LEMMA RedisPyStep == RedisPyInv /\ [Next]_vars => RedisPyInv'
<1> SUFFICES ASSUME RedisPyInv, [Next]_vars PROVE RedisPyInv' OBVIOUS
<1>1. CASE /\ pubsub.at = "closed"
           /\ PipelineStep /\ NewSession
           /\ UNCHANGED <<conf, pubsubVars, x, writes, executed>>
  BY <1>1, PipelineStepSteps
<1>2. CASE /\ pipe.at = "idle"
           /\ PubSubStep /\ NewSession
           /\ UNCHANGED <<conf, pipelineVars, x, writes, executed>>
  BY <1>2, PubSubStepSteps DEF PubSubCall
<1>3. CASE \E s \in Sockets : Serve(s) BY <1>3, ServeStep
<1>4. CASE /\ \E s \in Sockets : Drop(s) /\ EndSession(s)
           /\ UNCHANGED <<conf, pipelineVars, pubsubVars, x, writes, executed>>
  BY <1>4, DropStep
<1>5. CASE OtherWrites BY <1>5, OtherWritesStep
<1>6. CASE UNCHANGED vars
  <2>1. /\ UNCHANGED <<conf, sock, up, inbox, outbox, call, faults, x, watch, subs, writes, executed>>
        /\ UNCHANGED <<pipe, begun, returned, pubsub, channels, pending, callback, asked, wanted>>
    BY <1>6 DEF vars, connectionVars, socketVars, pipelineVars, pubsubVars, redisVars
  <2>2. SocketInv' /\ UserTypes'
    BY <2>1 DEF RedisPyInv, SocketInv, SocketTypes, Apart, UserTypes
  <2>3. (Waiting' <=> Waiting) /\ (Answered' <=> Answered) /\ (Quiet' <=> Quiet) /\ (Sends' <=> Sends)
        /\ Asked' = Asked /\ Answers' = Answers
    BY <2>1 DEF Waiting, Answered, Quiet, Sends, Every, Asked, Answers
  <2>4. InTurn' BY <2>1, <2>3 DEF RedisPyInv, InTurn, Every
  <2>5. Plain' BY <2>1, <2>3 DEF RedisPyInv, Plain, Unwatching
  <2>6. Returns' BY <2>1 DEF RedisPyInv, Returns, Confirmed
  <2>7. Counted' <=> Counted BY <2>1 DEF Counted, ExecsValid, Valid
  <2>8. Reading' <=> Reading BY <2>1, <2>3 DEF Reading, Valid, ReadsNow, Every
  <2>9. \A c : Coming(c)' <=> Coming(c) BY <2>1 DEF Coming
  <2>10. Known' BY <2>1, <2>9 DEF RedisPyInv, Known, Requesting, Expected
  <2> QED BY <2>1, <2>2, <2>4, <2>5, <2>6, <2>7, <2>8, <2>10 DEF RedisPyInv, Guarded
<1> QED BY <1>1, <1>2, <1>3, <1>4, <1>5, <1>6 DEF Next

\* What is sent on a connection and what it is used for next fit together, for
\* every interleaving of its users, Redis, other clients and lost sockets.
THEOREM RedisPyInvariant == Spec => []RedisPyInv
<1> QED BY RedisPyStarts, RedisPyStep, PTL DEF Spec

\* What the connection, its two kinds of users and Redis keep is of its type.
THEOREM RedisPyTypeCorrect == Spec => []TypeOK
<1>1. RedisPyInv => TypeOK
  BY DEF RedisPyInv, SocketInv, SocketTypes, Apart, UserTypes, Calls, Pipes, PubSubs, Marks, TypeOK
<1> QED BY <1>1, RedisPyInvariant, PTL

\* Redis.transaction without health checks: an EXEC finds the number it was
\* computed from, or is refused, whenever the socket is lost, also when it is
\* carried out after the client has left.
THEOREM IncrementsCount == Spec => []EveryIncrementCounts
<1>1. RedisPyInv => EveryIncrementCounts
  BY DEF RedisPyInv, Guarded, Counted, EveryIncrementCounts
<1> QED BY <1>1, RedisPyInvariant, PTL

\* Pipeline.execute returns what Redis replied to this request, so that every
\* transaction that returns has been carried out.
THEOREM ReturnsWhatWasExecuted == Spec => []ReturnedIsExecuted
<1>1. RedisPyInv => ReturnedIsExecuted
  <2> SUFFICES ASSUME RedisPyInv PROVE ReturnedIsExecuted OBVIOUS
  <2>1. returned \in Nat /\ executed \in Nat BY DEF RedisPyInv, UserTypes
  <2>2. returned + 1 <= executed \/ returned + 0 <= executed BY DEF RedisPyInv, Returns
  <2> QED BY <2>1, <2>2 DEF ReturnedIsExecuted
<1> QED BY <1>1, RedisPyInvariant, PTL

\* Pipeline.reset and PubSub.reset give a connection back that watches nothing,
\* is subscribed to nothing, and on which no reply is on its way.
THEOREM ReleasesPlain == Spec => []ReleasedIsPlain
<1>1. RedisPyInv => ReleasedIsPlain
  <2> SUFFICES ASSUME RedisPyInv, Pooled
               PROVE  /\ ~callback
                      /\ sock # NoSock => /\ watch[sock] = "no" /\ subs = {}
                                          /\ inbox[sock] = <<>> /\ outbox[sock] = <<>>
    BY DEF ReleasedIsPlain
  <2>1. pubsub.at = "closed" /\ pipe.at \in {"idle", "begin"} /\ ~Waiting
    BY DEF Pooled, Holding, Waiting
  <2>2. Quiet BY <2>1 DEF RedisPyInv, InTurn
  <2>3. ~callback /\ subs = {} /\ (sock # NoSock => watch[sock] = "no")
    BY <2>1 DEF RedisPyInv, Plain, Unwatching
  <2> QED BY <2>2, <2>3 DEF Quiet
<1> QED BY <1>1, RedisPyInvariant, PTL

\* PubSub: once every request has been carried out, whatever sockets were lost on
\* the way, Redis sends what the user wants and nothing the object does not know.
THEOREM KnowsWhatIsSettled == Spec => []SettledIsKnown
<1>1. RedisPyInv => SettledIsKnown
  <2> SUFFICES ASSUME RedisPyInv, Settled PROVE wanted \subseteq subs /\ subs \subseteq channels
    BY DEF SettledIsKnown
  <2>1. pubsub.at = "idle" /\ up /\ inbox[sock] = <<>> BY DEF Settled
  <2>2. Expected /\ subs \subseteq Channels
    BY <2>1 DEF RedisPyInv, Known, SocketInv, SocketTypes
  <2>3. \A c : Coming(c) <=> c \in subs BY <2>1, WillNothing DEF Coming
  <2> QED BY <2>1, <2>2, <2>3 DEF Expected
<1> QED BY <1>1, RedisPyInvariant, PTL
=============================================================================
