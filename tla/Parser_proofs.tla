---------------------------- MODULE Parser_proofs ----------------------------
(***************************************************************************)
(* Theorems about Parser and BitField for any replies, however deep their  *)
(* arrays are nested, any commands, any cutoff and any pieces in which     *)
(* replies arrive.                                                         *)
(*                                                                         *)
(* What has not been read, in the buffer or on the wire, is what Redis     *)
(* sends for the rest of its replies (Coming).  While PythonParser is in   *)
(* an array, that is the rest of the innermost array, then the rest of the *)
(* one around it, and so on: todo has what is still to be read at each     *)
(* level, after has what comes behind it (Framed).  What is written is     *)
(* what the commands are encoded as, however it is packed, so that Redis   *)
(* answers what was asked (PackingIsFaithful).                             *)
(***************************************************************************)
EXTENDS BitField, TLAPS, WellFoundedInduction

\* What F makes of the elements of q, one behind the other.
Joined(F, q) == FlattenSeq([i \in DOMAIN q |-> F[q[i]]])

Stream(q) == Joined(Sent, q)

\* What was received, or sent, and not yet read.
Ahead == SubSeq(buffer, bytes_read + 1, Len(buffer))
Rest == Ahead \o wire

BufferOK ==
  /\ wire \in Seq(Pieces) /\ buffer \in Seq(Pieces)
  /\ bytes_read \in 0..bytes_written /\ bytes_written = Len(buffer)

Arrays == [n : Nat, items : Seq(Replies)]

\* The array whose parts a holds is the first that is to be read in outer: parts of it
\* have been read, inner is to be read of it, and behind that comes next.
Inside(a, outer, inner, next, later) ==
  /\ outer # <<>> /\ outer[1].t = "array"
  /\ a.n = Len(outer[1].items) /\ outer[1].items = a.items \o inner
  /\ \A i \in DOMAIN a.items : ~Bad[a.items[i]]
  /\ next = Stream(Tail(outer)) \o later

Framed(todo, after, st, se, re) ==
  /\ todo \in Seq(Seq(Replies)) /\ after \in Seq(Seq(Pieces))
  /\ Len(todo) = Len(st) + 1 /\ Len(after) = Len(st) + 1
  /\ after[1] = <<>> /\ se = re \o todo[1]
  /\ \A l \in 1..Len(st) : Inside(st[l], todo[l], todo[l+1], after[l+1], after[l])

\* What is coming when PythonParser reads first, and behind that comes next.
Coming(first, next, a, k, rest) ==
  IF a = "body"
  THEN /\ first # <<>> /\ first[1].t = "bulk" /\ k = Len(first[1].text)
       /\ rest = (first[1].text \o <<CRLF>>) \o (Stream(Tail(first)) \o next)
  ELSE rest = Stream(first) \o next

\* The same for HiredisParser, which has perhaps taken the first reply already.
ComingWhole(first, taken, rest) ==
  IF taken = NoReply THEN rest = Stream(first)
  ELSE first # <<>> /\ taken = first[1] /\ rest = Stream(Tail(first))

\* PythonParser is at a, has returned re of se and is in the arrays st, and behind that
\* comes rest.
Reads(a, st, se, re, k, rest) ==
  \E todo, after :
    /\ Framed(todo, after, st, se, re)
    /\ a = "line" /\ st = <<>> => todo[1] # <<>>
    /\ Coming(todo[Len(st)+1], after[Len(st)+1], a, k, rest)

PythonInv ==
  /\ next_response = NoReply
  /\ at \in {"idle", "closed"} => stack = <<>>
  /\ at # "gets"
  /\ \A i \in DOMAIN returned : ~Bad[returned[i]]
  /\ Reads(at, stack, sent, returned, length, Rest)

HiredisInv ==
  /\ stack = <<>> /\ bytes_read = 0 /\ at \in {"idle", "gets", "closed"}
  /\ \E todo \in Seq(Replies) : /\ sent = returned \o todo
                                /\ ComingWhole(todo, next_response, Rest)

\* can_read was the last call, and said no only if nothing was there; a closed
\* connection has nothing.
SessionInv ==
  /\ asked = sent
  /\ ready # "unknown" => at = "idle"
  /\ at = "closed" => /\ ready = "unknown" /\ sent = <<>> /\ returned = <<>>
                      /\ buffer = <<>> /\ wire = <<>> /\ next_response = NoReply
  /\ NothingIsHidden

ParserInv == TypeOK /\ SessionInv /\ IF parser = "python" THEN PythonInv ELSE HiredisInv

\* The builder and Redis agree on the overflow of each operation.
Carry(done, op) ==
  IF op[1] = "OVERFLOW" THEN [done EXCEPT !.overflow = op[2]]
  ELSE [done EXCEPT !.results = Append(@, Result(op[1], done.overflow))]

Carried(ops) == FoldLeft(Carry, [overflow |-> "WRAP", results |-> <<>>], ops)

OperationTexts == {<<"OVERFLOW", o>> : o \in Overflows} \cup {<<name>> : name \in Names}
Outcomes == {Result(name, o) : name \in Names, o \in Overflows}

BuilderInv ==
  /\ default \in Overflows /\ last_overflow \in Overflows /\ mode = last_overflow
  /\ operations \in Seq(OperationTexts) /\ wanted \in Seq(Outcomes)
  /\ Len(wanted) <= Len(operations) /\ Len(wanted) <= MaxOperations + 1
  /\ Carried(operations) = [overflow |-> last_overflow, results |-> wanted]

WireInv == ParserInv /\ BuilderInv

-----------------------------------------------------------------------------
(* Induction and recursion. *)

\* A set of numbers that is not empty has a least member.
LEMMA LeastNumber ==
  ASSUME NEW T, T \subseteq Nat, T # {}
  PROVE  \E n \in T : \A m \in T : ~(m < n)
<1>1. \E m \in T : \A n \in T : ~(<<n, m>> \in OpToRel(<, Nat))
  BY NatLessThanWellFounded, WFMin
<1>2. \A m, n \in Nat : <<n, m>> \in OpToRel(<, Nat) <=> n < m
  BY DEF OpToRel
<1> QED BY <1>1, <1>2

\* A set with 0 and the successor of each of its members has all numbers.
LEMMA Induction ==
  ASSUME NEW P, 0 \in P, \A n \in Nat : n \in P => n + 1 \in P
  PROVE  \A n \in Nat : n \in P
<1> DEFINE Wrong == Nat \ P
<1>1. ASSUME Wrong # {} PROVE FALSE
  <2>1. PICK n \in Wrong : \A m \in Wrong : ~(m < n)
    BY <1>1, LeastNumber
  <2>2. n \in Nat /\ n # 0 /\ n \notin P
    BY <2>1
  <2>3. n - 1 \in Nat /\ n - 1 < n /\ (n - 1) + 1 = n
    BY <2>2
  <2>4. n - 1 \in P
    BY <2>1, <2>3
  <2> QED BY <2>2, <2>3, <2>4
<1> QED BY <1>1

Iterated(F, s, n, g) == g[0] = s /\ \A i \in 1..n : g[i] = F[<<g[i-1], i>>]

\* A step F taken again and again, up to any number.
LEMMA IterationExists ==
  ASSUME NEW S, NEW s \in S, NEW F \in [S \X Nat -> S], NEW n \in Nat
  PROVE  \E g \in [0..n -> S] : Iterated(F, s, n, g)
<1> DEFINE P == {k \in Nat : \E g \in [0..k -> S] : Iterated(F, s, k, g)}
<1>1. 0 \in P
  <2> DEFINE g == [i \in 0..0 |-> s]
  <2>1. g \in [0..0 -> S] /\ Iterated(F, s, 0, g) BY DEF Iterated
  <2> QED BY <2>1
<1>2. ASSUME NEW k \in Nat, k \in P PROVE k + 1 \in P
  <2>1. PICK g \in [0..k -> S] : Iterated(F, s, k, g) BY <1>2
  <2> DEFINE h == [i \in 0..(k+1) |-> IF i = k + 1 THEN F[<<g[k], k + 1>>] ELSE g[i]]
  <2>2. k \in 0..k /\ g[k] \in S BY <2>1
  <2>3. F[<<g[k], k + 1>>] \in S BY <2>2
  <2>4. \A i \in 0..(k+1) : i # k + 1 => i \in 0..k OBVIOUS
  <2>5. h \in [0..(k+1) -> S] BY <2>3, <2>4
  <2>6. h[0] = s /\ \A i \in 0..k : h[i] = g[i] BY <2>1 DEF Iterated
  <2>7. h[k+1] = F[<<g[k], k + 1>>] OBVIOUS
  <2> HIDE DEF h
  <2>8. ASSUME NEW i \in 1..(k+1) PROVE h[i] = F[<<h[i-1], i>>]
    <3>1. CASE i = k + 1
      <4>1. i - 1 = k BY <3>1
      <4> QED BY <3>1, <4>1, <2>2, <2>6, <2>7
    <3>2. CASE i # k + 1
      <4>1. i \in 1..k /\ i \in 0..k /\ i - 1 \in 0..k BY <3>2
      <4> QED BY <4>1, <2>1, <2>6 DEF Iterated
    <3> QED BY <3>1, <3>2
  <2>9. Iterated(F, s, k + 1, h) BY <2>6, <2>8 DEF Iterated
  <2> QED BY <2>5, <2>9
<1> HIDE DEF P
<1>3. n \in P BY <1>1, <1>2, Induction
<1> QED BY <1>3 DEF P

LEMMA IterationUnique ==
  ASSUME NEW F, NEW s, NEW m \in Nat, NEW n \in Nat, m <= n,
         NEW g, NEW h, Iterated(F, s, m, g), Iterated(F, s, n, h)
  PROVE  \A i \in 0..m : g[i] = h[i]
<1> DEFINE P == {k \in Nat : k <= m => g[k] = h[k]}
<1>1. 0 \in P BY DEF Iterated
<1>2. ASSUME NEW k \in Nat, k \in P PROVE k + 1 \in P
  <2>1. ASSUME k + 1 <= m PROVE g[k+1] = h[k+1]
    <3>1. k + 1 \in 1..m /\ k + 1 \in 1..n /\ (k + 1) - 1 = k /\ k <= m BY <2>1
    <3>2. g[k] = h[k] BY <1>2, <3>1
    <3>3. g[k+1] = F[<<g[k], k + 1>>] /\ h[k+1] = F[<<h[k], k + 1>>]
      BY <3>1 DEF Iterated
    <3> QED BY <3>2, <3>3
  <2> QED BY <2>1
<1> HIDE DEF P
<1>3. \A k \in Nat : k \in P BY <1>1, <1>2, Induction
<1> QED BY <1>3 DEF P

Forever(F, s, g) == g[0] = s /\ \A n \in Nat : g[n+1] = F[<<g[n], n + 1>>]

\* A step taken again and again, without an end.
LEMMA IterationForever ==
  ASSUME NEW S, NEW s \in S, NEW F \in [S \X Nat -> S]
  PROVE  \E g \in [Nat -> S] : Forever(F, s, g)
<1> DEFINE f(n) == CHOOSE g \in [0..n -> S] : Iterated(F, s, n, g)
           g == [n \in Nat |-> f(n)[n]]
<1>1. \A n \in Nat : f(n) \in [0..n -> S] /\ Iterated(F, s, n, f(n))
  BY IterationExists
<1> HIDE DEF f
<1>2. \A n \in Nat : f(n)[n] \in S BY <1>1
<1>3. g \in [Nat -> S] BY <1>2
<1>4. g[0] = s BY <1>1 DEF Iterated
<1>5. ASSUME NEW n \in Nat PROVE g[n+1] = F[<<g[n], n + 1>>]
  <2>1. n + 1 \in Nat /\ n <= n + 1 /\ n \in 0..n /\ n + 1 \in 1..(n + 1) /\ (n + 1) - 1 = n
    OBVIOUS
  <2>2. f(n)[n] = f(n+1)[n] BY <1>1, <2>1, IterationUnique
  <2>3. f(n+1)[n+1] = F[<<f(n+1)[n], n + 1>>] BY <1>1, <2>1 DEF Iterated
  <2> QED BY <2>1, <2>2, <2>3
<1> HIDE DEF g
<1> QED BY <1>3, <1>4, <1>5 DEF Forever

-----------------------------------------------------------------------------
(* Recursion over the items of replies. *)

ReplyFacts(v) ==
  /\ v.t \in Types /\ v.text \in Seq(Pieces) /\ v.items \in Seq(Replies)
  /\ v.t \notin {"CRLF", "False"}
  /\ (v.t # "bulk" => v.text = <<>>) /\ (v.t # "array" => v.items = <<>>)
  /\ v = [t |-> v.t, text |-> v.text, items |-> v.items]
  /\ Depth[v] \in Nat /\ \A i \in DOMAIN v.items : Depth[v.items[i]] < Depth[v]

LEMMA RepliesFacts == \A v \in Replies : ReplyFacts(v)
BY RepliesAssumption DEF ReplyFacts

\* F makes a member of S of a reply, given a member for each of its items.
Recurses(F, S) ==
  /\ F \in [[Replies -> S] \X Replies -> S]
  /\ \A g, h \in [Replies -> S] : \A v \in Replies :
       (\A i \in DOMAIN v.items : g[v.items[i]] = h[v.items[i]]) => F[<<g, v>>] = F[<<h, v>>]

\* A function of replies that is defined by what it is of their items exists.
LEMMA ReplyRecursion ==
  ASSUME NEW S, NEW s \in S, NEW F, Recurses(F, S)
  PROVE  \E g \in [Replies -> S] : \A v \in Replies : g[v] = F[<<g, v>>]
<1>1. /\ F \in [[Replies -> S] \X Replies -> S]
      /\ \A g, h \in [Replies -> S] : \A v \in Replies :
           (\A i \in DOMAIN v.items : g[v.items[i]] = h[v.items[i]]) => F[<<g, v>>] = F[<<h, v>>]
  BY DEF Recurses
<1> DEFINE T == [Replies -> S]
           Step == [p \in T \X Nat |-> [v \in Replies |-> F[<<p[1], v>>]]]
           start == [v \in Replies |-> s]
<1>2. start \in T OBVIOUS
<1>3. Step \in [T \X Nat -> T]
  <2>1. ASSUME NEW p \in T \X Nat PROVE [v \in Replies |-> F[<<p[1], v>>]] \in T
    <3>1. p[1] \in T OBVIOUS
    <3>2. \A v \in Replies : <<p[1], v>> \in T \X Replies BY <3>1
    <3>3. \A v \in Replies : F[<<p[1], v>>] \in S BY <3>2, <1>1
    <3> QED BY <3>3
  <2> QED BY <2>1
<1>4. \A g \in T, n \in Nat : Step[<<g, n>>] = [v \in Replies |-> F[<<g, v>>]]
  OBVIOUS
<1> HIDE DEF T, Step, start
<1>5. \E f \in [Nat -> T] : Forever(Step, start, f)
  BY <1>2, <1>3, IterationForever
<1>6. PICK f \in [Nat -> T] : f[0] = start /\ \A n \in Nat : f[n+1] = Step[<<f[n], n + 1>>]
  BY <1>5 DEF Forever
<1>7. ASSUME NEW n \in Nat PROVE f[n] \in T /\ f[n+1] = [v \in Replies |-> F[<<f[n], v>>]]
  <2>1. f[n] \in T BY <1>6
  <2>2. n + 1 \in Nat OBVIOUS
  <2>3. f[n+1] = Step[<<f[n], n + 1>>] BY <1>6
  <2> QED BY <2>1, <2>2, <2>3, <1>4
<1>8. ASSUME NEW n \in Nat, NEW v \in Replies PROVE f[n+1][v] = F[<<f[n], v>>]
  <2>1. f[n+1] = [u \in Replies |-> F[<<f[n], u>>]] BY <1>7
  <2> QED BY <2>1
<1> DEFINE P == {n \in Nat : \A v \in Replies : Depth[v] < n => f[n+1][v] = f[n][v]}
<1>9. 0 \in P
  <2>1. \A v \in Replies : ~(Depth[v] < 0) BY RepliesFacts DEF ReplyFacts
  <2> QED BY <2>1
<1>10. ASSUME NEW n \in Nat, n \in P PROVE n + 1 \in P
  <2>1. ASSUME NEW v \in Replies, Depth[v] < n + 1 PROVE f[(n+1)+1][v] = f[n+1][v]
    <3>1. \A i \in DOMAIN v.items : v.items[i] \in Replies /\ Depth[v.items[i]] < n
      <4>1. ReplyFacts(v) BY RepliesFacts
      <4>2. \A i \in DOMAIN v.items : v.items[i] \in Replies BY <4>1 DEF ReplyFacts
      <4>3. \A i \in DOMAIN v.items : Depth[v.items[i]] \in Nat BY <4>2, RepliesFacts DEF ReplyFacts
      <4>4. \A i \in DOMAIN v.items : Depth[v.items[i]] < Depth[v] BY <4>1 DEF ReplyFacts
      <4>5. Depth[v] \in Nat BY <4>1 DEF ReplyFacts
      <4>6. \A a, b \in Nat : a < b /\ b < n + 1 => a < n OBVIOUS
      <4> QED BY <4>2, <4>3, <4>4, <4>5, <4>6, <2>1
    <3>2. \A i \in DOMAIN v.items : f[n+1][v.items[i]] = f[n][v.items[i]]
      BY <1>10, <3>1
    <3>3. f[n] \in [Replies -> S] /\ f[n+1] \in [Replies -> S] /\ n + 1 \in Nat BY <1>7 DEF T
    <3>4. F[<<f[n+1], v>>] = F[<<f[n], v>>] BY <3>2, <3>3, <1>1
    <3> QED BY <1>8, <3>3, <3>4
  <2> QED BY <2>1
<1> HIDE DEF P
<1>11. \A n \in Nat : n \in P BY <1>9, <1>10, Induction
<1>12. \A n \in Nat : \A v \in Replies : Depth[v] < n => f[n+1][v] = f[n][v]
  BY <1>11 DEF P
<1> DEFINE g == [v \in Replies |-> f[Depth[v]+1][v]]
<1>13. \A v \in Replies : Depth[v] \in Nat BY RepliesFacts DEF ReplyFacts
<1>14. ASSUME NEW v \in Replies, NEW n \in Nat, Depth[v] < n PROVE f[n][v] = g[v]
  <2> DEFINE Q == {k \in Nat : f[(Depth[v]+1)+k][v] = g[v]}
  <2>1. Depth[v] \in Nat BY <1>13
  <2>2. 0 \in Q BY <2>1
  <2>3. ASSUME NEW k \in Nat, k \in Q PROVE k + 1 \in Q
    <3> DEFINE d == (Depth[v]+1)+k
    <3>1. d \in Nat /\ Depth[v] < d /\ d + 1 = (Depth[v]+1)+(k+1) BY <2>1
    <3>2. f[d+1][v] = f[d][v] BY <1>12, <3>1
    <3> QED BY <2>3, <3>1, <3>2
  <2> HIDE DEF Q
  <2>4. \A k \in Nat : k \in Q BY <2>2, <2>3, Induction
  <2>5. n - (Depth[v]+1) \in Nat /\ (Depth[v]+1) + (n - (Depth[v]+1)) = n BY <1>14, <2>1
  <2>6. n - (Depth[v]+1) \in Q BY <2>4, <2>5
  <2> QED BY <2>5, <2>6 DEF Q
<1>15. g \in [Replies -> S]
  <2>1. ASSUME NEW v \in Replies PROVE f[Depth[v]+1][v] \in S
    <3>1. Depth[v] + 1 \in Nat BY <1>13
    <3>2. f[Depth[v]+1] \in [Replies -> S] BY <3>1, <1>7 DEF T
    <3> QED BY <3>2
  <2> QED BY <2>1
<1>16. ASSUME NEW v \in Replies PROVE g[v] = F[<<g, v>>]
  <2>1. Depth[v] \in Nat BY <1>13
  <2>2. g[v] = F[<<f[Depth[v]], v>>] BY <2>1, <1>8
  <2>3. ASSUME NEW i \in DOMAIN v.items PROVE f[Depth[v]][v.items[i]] = g[v.items[i]]
    <3>1. v.items[i] \in Replies /\ Depth[v.items[i]] < Depth[v]
      BY RepliesFacts DEF ReplyFacts
    <3> HIDE DEF g
    <3> QED BY <3>1, <2>1, <1>14
  <2>4. f[Depth[v]] \in [Replies -> S] BY <2>1, <1>7 DEF T
  <2> HIDE DEF g
  <2>5. F[<<f[Depth[v]], v>>] = F[<<g, v>>] BY <2>3, <2>4, <1>15, <1>1
  <2> QED BY <2>2, <2>5
<1> HIDE DEF g
<1> QED BY <1>15, <1>16

-----------------------------------------------------------------------------
(* Sequences. *)

LEMMA EmptyFacts ==
  ASSUME NEW S
  PROVE  <<>> \in Seq(S) /\ Len(<<>>) = 0 /\ \A q \in Seq(S) : Len(q) \in Nat /\ (Len(q) = 0 <=> q = <<>>)
OBVIOUS

LEMMA SingleFacts ==
  ASSUME NEW S, NEW x \in S
  PROVE  <<x>> \in Seq(S) /\ Len(<<x>>) = 1 /\ <<x>>[1] = x
OBVIOUS

\* Two sequences are equal that have the same elements.
LEMMA SameFacts ==
  ASSUME NEW S, NEW q \in Seq(S), NEW r \in Seq(S), Len(q) = Len(r),
         \A i \in 1..Len(q) : q[i] = r[i]
  PROVE  q = r
<1>1. Len(q) \in Nat /\ q = [i \in 1..Len(q) |-> q[i]] OBVIOUS
<1>2. r = [i \in 1..Len(r) |-> r[i]] OBVIOUS
<1> QED BY <1>1, <1>2

LEMMA ConcatFacts ==
  ASSUME NEW S, NEW q \in Seq(S), NEW r \in Seq(S)
  PROVE  /\ q \o r \in Seq(S) /\ Len(q \o r) = Len(q) + Len(r)
         /\ \A i \in 1..Len(q) : (q \o r)[i] = q[i]
         /\ \A i \in 1..Len(r) : (q \o r)[Len(q) + i] = r[i]
         /\ <<>> \o r = r /\ q \o <<>> = q
<1>1. Len(q) \in Nat /\ Len(r) \in Nat OBVIOUS
<1>2. q \o r \in Seq(S) /\ Len(q \o r) = Len(q) + Len(r) OBVIOUS
<1>3. \A i \in 1..Len(q) : (q \o r)[i] = q[i] OBVIOUS
<1>4. \A i \in 1..Len(r) : (q \o r)[Len(q) + i] = r[i] OBVIOUS
<1>5. <<>> \o r = r OBVIOUS
<1>6. q \o <<>> = q OBVIOUS
<1> QED BY <1>1, <1>2, <1>3, <1>4, <1>5, <1>6

LEMMA Associative ==
  ASSUME NEW S, NEW p \in Seq(S), NEW q \in Seq(S), NEW r \in Seq(S)
  PROVE  (p \o q) \o r = p \o (q \o r)
OBVIOUS

LEMMA AppendFacts ==
  ASSUME NEW S, NEW q \in Seq(S), NEW x \in S
  PROVE  /\ Append(q, x) \in Seq(S) /\ Len(Append(q, x)) = Len(q) + 1
         /\ \A i \in 1..Len(q) : Append(q, x)[i] = q[i]
         /\ Append(q, x)[Len(q) + 1] = x
         /\ Append(q, x) = q \o <<x>>
         /\ Append(q, x) # <<>>
<1>1. Append(q, x) = q \o <<x>> OBVIOUS
<1> QED BY <1>1

LEMMA PairFacts ==
  ASSUME NEW S, NEW x \in S, NEW y \in S
  PROVE  <<x, y>> \in Seq(S) /\ Append(<<x>>, y) = <<x, y>>
<1> DEFINE p == <<x, y>>
           q == <<x>>
<1>1. p \in Seq(S) /\ Len(p) = 2 /\ p[1] = x /\ p[2] = y OBVIOUS
<1>2. q \in Seq(S) /\ Len(q) = 1 /\ q[1] = x OBVIOUS
<1> HIDE DEF p, q
<1>3. /\ Append(q, y) \in Seq(S) /\ Len(Append(q, y)) = Len(q) + 1
      /\ \A i \in 1..Len(q) : Append(q, y)[i] = q[i]
      /\ Append(q, y)[Len(q) + 1] = y
  <2>1. q \in Seq(S) BY <1>2
  <2> QED BY ONLY <2>1, y \in S, AppendFacts
<1> DEFINE r == Append(q, y)
<1>4. r \in Seq(S) /\ Len(r) = 2 /\ r[1] = x /\ r[2] = y BY <1>2, <1>3
<1> HIDE DEF r
<1>5. \A i \in 1..Len(p) : p[i] = r[i] BY <1>1, <1>4
<1>6. p = r BY <1>1, <1>4, <1>5, SameFacts
<1> QED BY <1>1, <1>6 DEF p, q, r

LEMMA TailFacts ==
  ASSUME NEW S, NEW q \in Seq(S), q # <<>>
  PROVE  /\ q[1] \in S /\ Tail(q) \in Seq(S) /\ Len(Tail(q)) = Len(q) - 1 /\ Len(q) \in Nat \ {0}
         /\ q = <<q[1]>> \o Tail(q)
<1>1. q[1] \in S /\ Tail(q) \in Seq(S) /\ Len(Tail(q)) = Len(q) - 1 /\ Len(q) \in Nat \ {0}
  OBVIOUS
<1>2. \A i \in 1..Len(Tail(q)) : Tail(q)[i] = q[i+1] BY <1>1
<1> DEFINE r == <<q[1]>> \o Tail(q)
<1>3. r \in Seq(S) /\ Len(r) = Len(q) BY <1>1
<1>4. ASSUME NEW i \in 1..Len(q) PROVE r[i] = q[i]
  BY <1>1
<1> HIDE DEF r
<1>5. q = r BY <1>3, <1>4, SameFacts
<1> QED BY <1>1, <1>5 DEF r

\* Another last element.
LEMMA ReplacedFacts ==
  ASSUME NEW S, NEW q \in Seq(S), NEW n \in Nat, Len(q) = n + 1, NEW x \in S
  PROVE  /\ [q EXCEPT ![n+1] = x] \in Seq(S) /\ Len([q EXCEPT ![n+1] = x]) = n + 1
         /\ [q EXCEPT ![n+1] = x][n+1] = x
         /\ \A l \in 1..n : [q EXCEPT ![n+1] = x][l] = q[l]
OBVIOUS

\* All but the last element, and the last one.
LEMMA FrontFacts ==
  ASSUME NEW S, NEW q \in Seq(S), q # <<>>
  PROVE  \E p \in Seq(S), x \in S : q = Append(p, x) /\ Len(p) = Len(q) - 1
<1> DEFINE n == Len(q) - 1
           p == SubSeq(q, 1, n)
<1>1. n \in Nat /\ Len(q) = n + 1 /\ q[n+1] \in S OBVIOUS
<1> HIDE DEF n
<1>2. p \in Seq(S) /\ Len(p) = n /\ \A i \in 1..n : p[i] = q[i] BY <1>1
<1> HIDE DEF p
<1> DEFINE r == Append(p, q[n+1])
<1>3. r \in Seq(S) /\ Len(r) = n + 1 BY <1>1, <1>2
<1>4. ASSUME NEW i \in 1..(n+1) PROVE r[i] = q[i] BY <1>1, <1>2
<1> HIDE DEF r
<1>5. q = r BY <1>1, <1>3, <1>4, SameFacts
<1> QED BY <1>1, <1>2, <1>5 DEF r, n

-----------------------------------------------------------------------------
(* Sequences of sequences. *)

\* g has what FlattenSeq makes of the first elements of q.
Flattens(q, g) == g[0] = <<>> /\ \A i \in 1..Len(q) : g[i] = g[i-1] \o q[i]

LEMMA FlattensExists ==
  ASSUME NEW S, NEW q \in Seq(Seq(S))
  PROVE  \E g \in [0..Len(q) -> Seq(S)] : Flattens(q, g)
<1> DEFINE F == [p \in Seq(S) \X Nat |-> IF p[2] \in 1..Len(q) THEN p[1] \o q[p[2]] ELSE p[1]]
<1>1. Len(q) \in Nat /\ \A i \in 1..Len(q) : q[i] \in Seq(S) OBVIOUS
<1>2. F \in [Seq(S) \X Nat -> Seq(S)]
  <2>1. ASSUME NEW p \in Seq(S) \X Nat
        PROVE  (IF p[2] \in 1..Len(q) THEN p[1] \o q[p[2]] ELSE p[1]) \in Seq(S)
    <3>1. p[1] \in Seq(S) OBVIOUS
    <3>2. CASE p[2] \in 1..Len(q)
      <4>1. q[p[2]] \in Seq(S) BY <1>1, <3>2
      <4> QED BY <3>1, <3>2, <4>1
    <3> QED BY <3>1, <3>2
  <2> QED BY <2>1
<1>3. ASSUME NEW r \in Seq(S), NEW i \in 1..Len(q) PROVE F[<<r, i>>] = r \o q[i]
  <2>1. i \in Nat /\ <<r, i>> \in Seq(S) \X Nat OBVIOUS
  <2> QED BY <2>1
<1>4. <<>> \in Seq(S) OBVIOUS
<1> HIDE DEF F
<1>5. PICK g \in [0..Len(q) -> Seq(S)] : Iterated(F, <<>>, Len(q), g)
  BY <1>1, <1>2, <1>4, IterationExists
<1>6. ASSUME NEW i \in 1..Len(q) PROVE g[i] = g[i-1] \o q[i]
  <2>1. i - 1 \in 0..Len(q) BY <1>1
  <2>2. g[i-1] \in Seq(S) BY <2>1
  <2>3. g[i] = F[<<g[i-1], i>>] BY <1>5 DEF Iterated
  <2> QED BY <1>3, <2>2, <2>3
<1> QED BY <1>5, <1>6 DEF Flattens, Iterated

LEMMA FlattenFacts ==
  ASSUME NEW S, NEW q \in Seq(Seq(S))
  PROVE  \E g \in [0..Len(q) -> Seq(S)] : Flattens(q, g) /\ FlattenSeq(q) = g[Len(q)]
<1> DEFINE Is(f) == f = [i \in 1..Len(q) |-> IF i = 1 THEN q[i] ELSE f[i-1] \o q[i]]
           f == CHOOSE f : Is(f)
<1>1. Len(q) \in Nat /\ \A i \in 1..Len(q) : q[i] \in Seq(S) OBVIOUS
<1>2. PICK g \in [0..Len(q) -> Seq(S)] : Flattens(q, g) BY FlattensExists
<1>3. CASE Len(q) = 0
  <2>1. q = <<>> /\ FlattenSeq(q) = q BY <1>3 DEF FlattenSeq
  <2> QED BY <1>2, <1>3, <2>1 DEF Flattens
<1>4. CASE Len(q) # 0
  <2>1. FlattenSeq(q) = f[Len(q)] BY <1>4 DEF FlattenSeq
  <2> DEFINE h == [i \in 1..Len(q) |-> g[i]]
  <2>2. ASSUME NEW i \in 1..Len(q) PROVE h[i] = IF i = 1 THEN q[i] ELSE h[i-1] \o q[i]
    <3>1. h[i] = g[i] /\ g[i] = g[i-1] \o q[i] BY <1>2 DEF Flattens
    <3>2. CASE i = 1
      <4>1. g[i-1] = <<>> BY <3>2, <1>2 DEF Flattens
      <4>2. q[i] \in Seq(S) BY <1>1
      <4> QED BY <3>1, <3>2, <4>1, <4>2, ConcatFacts
    <3>3. CASE i # 1
      <4>1. i - 1 \in 1..Len(q) BY <3>3, <1>1
      <4> QED BY <3>1, <3>3, <4>1
    <3> QED BY <3>2, <3>3
  <2>3. Is(h)
    <3>1. h = [i \in 1..Len(q) |-> h[i]] OBVIOUS
    <3> HIDE DEF h
    <3> QED BY <2>2, <3>1
  <2>4. Is(f) BY <2>3
  <2> HIDE DEF f
  <2>5. \A i \in 1..Len(q) : f[i] = IF i = 1 THEN q[i] ELSE f[i-1] \o q[i] BY <2>4
  <2> DEFINE P == {n \in Nat : n + 1 \in 1..Len(q) => f[n+1] = g[n+1]}
  <2>6. 0 \in P
    <3>1. 1 \in 1..Len(q) /\ 0 + 1 = 1 /\ 1 - 1 = 0 BY <1>1, <1>4
    <3>2. f[1] = q[1] BY <2>5, <3>1
    <3>3. g[1] = <<>> \o q[1] BY <1>2, <3>1 DEF Flattens
    <3>4. <<>> \o q[1] = q[1] BY <1>1, <3>1, ConcatFacts
    <3> QED BY <3>1, <3>2, <3>3, <3>4
  <2>7. ASSUME NEW n \in Nat, n \in P PROVE n + 1 \in P
    <3>1. ASSUME (n + 1) + 1 \in 1..Len(q) PROVE f[(n+1)+1] = g[(n+1)+1]
      <4>1. n + 1 \in 1..Len(q) /\ ((n+1)+1) - 1 = n + 1 /\ (n+1)+1 # 1 BY <3>1, <1>1
      <4>2. f[n+1] = g[n+1] BY <2>7, <4>1
      <4>3. f[(n+1)+1] = f[n+1] \o q[(n+1)+1] BY <2>5, <3>1, <4>1
      <4>4. g[(n+1)+1] = g[n+1] \o q[(n+1)+1] BY <1>2, <3>1, <4>1 DEF Flattens
      <4> QED BY <4>2, <4>3, <4>4
    <3> QED BY <3>1
  <2> HIDE DEF P
  <2>8. \A n \in Nat : n \in P BY <2>6, <2>7, Induction
  <2>9. Len(q) - 1 \in Nat /\ (Len(q) - 1) + 1 = Len(q) /\ Len(q) \in 1..Len(q) BY <1>1, <1>4
  <2>10. f[Len(q)] = g[Len(q)] BY <2>8, <2>9 DEF P
  <2> QED BY <1>2, <2>1, <2>10
<1> QED BY <1>3, <1>4

\* FlattenSeq takes one sequence more.
LEMMA FlattenAppend ==
  ASSUME NEW S, NEW q \in Seq(Seq(S)), NEW x \in Seq(S)
  PROVE  FlattenSeq(q) \in Seq(S) /\ FlattenSeq(Append(q, x)) = FlattenSeq(q) \o x
<1> DEFINE r == Append(q, x)
           n == Len(q)
<1>1. n \in Nat /\ r \in Seq(Seq(S)) /\ Len(r) = n + 1 /\ r[n+1] = x /\ \A i \in 1..n : r[i] = q[i]
  BY AppendFacts, EmptyFacts
<1>2. PICK g \in [0..n -> Seq(S)] : Flattens(q, g) /\ FlattenSeq(q) = g[n] BY FlattenFacts
<1> HIDE DEF r
<1>3. PICK h \in [0..Len(r) -> Seq(S)] : Flattens(r, h) /\ FlattenSeq(r) = h[Len(r)]
  BY <1>1, FlattenFacts
<1> HIDE DEF n
<1> DEFINE P == {i \in Nat : i <= n => h[i] = g[i]}
<1>4. 0 \in P BY <1>2, <1>3 DEF Flattens
<1>5. ASSUME NEW i \in Nat, i \in P PROVE i + 1 \in P
  <2>1. ASSUME i + 1 <= n PROVE h[i+1] = g[i+1]
    <3>1. i + 1 \in 1..n /\ i + 1 \in 1..(n+1) /\ (i + 1) - 1 = i /\ i <= n BY <2>1, <1>1
    <3>2. h[i] = g[i] BY <1>5, <3>1
    <3>3. h[i+1] = h[i] \o r[i+1] BY <1>1, <1>3, <3>1 DEF Flattens
    <3>4. g[i+1] = g[i] \o q[i+1] BY <1>2, <3>1 DEF Flattens, n
    <3> QED BY <1>1, <3>1, <3>2, <3>3, <3>4
  <2> QED BY <2>1
<1> HIDE DEF P
<1>6. \A i \in Nat : i \in P BY <1>4, <1>5, Induction
<1>7. h[n] = g[n] BY <1>1, <1>6 DEF P
<1>8. n + 1 \in 1..Len(r) /\ (n + 1) - 1 = n BY <1>1
<1>9. h[n+1] = h[n] \o x BY <1>1, <1>3, <1>8 DEF Flattens
<1>10. g[n] \in Seq(S) BY <1>1
<1> QED BY <1>1, <1>2, <1>3, <1>7, <1>9, <1>10 DEF r

\* F makes a sequence of S of each member of A.
Encodes(F, A, S) == F \in [A -> Seq(S)]

LEMMA JoinedEmpty == \A F : Joined(F, <<>>) = <<>>
<1> TAKE F
<1>1. [i \in DOMAIN <<>> |-> F[<<>>[i]]] = <<>> OBVIOUS
<1> QED BY <1>1 DEF Joined, FlattenSeq

LEMMA JoinedAppend ==
  ASSUME NEW A, NEW S, NEW F, Encodes(F, A, S), NEW q \in Seq(A), NEW x \in A
  PROVE  Joined(F, q) \in Seq(S) /\ Joined(F, Append(q, x)) = Joined(F, q) \o F[x]
<1> DEFINE m == [i \in DOMAIN q |-> F[q[i]]]
           r == Append(q, x)
           mr == [i \in DOMAIN r |-> F[r[i]]]
<1>1. Len(q) \in Nat /\ DOMAIN q = 1..Len(q) /\ \A i \in 1..Len(q) : q[i] \in A OBVIOUS
<1>2. m \in Seq(Seq(S)) /\ Len(m) = Len(q) /\ \A i \in 1..Len(q) : m[i] = F[q[i]] BY <1>1 DEF Encodes
<1>3. /\ r \in Seq(A) /\ Len(r) = Len(q) + 1 /\ r[Len(q) + 1] = x
      /\ \A i \in 1..Len(q) : r[i] = q[i]
  BY AppendFacts
<1> HIDE DEF r
<1>4. DOMAIN r = 1..(Len(q) + 1) /\ \A i \in 1..(Len(q) + 1) : r[i] \in A BY <1>1, <1>3
<1>5. mr \in Seq(Seq(S)) /\ Len(mr) = Len(q) + 1 /\ \A i \in 1..(Len(q)+1) : mr[i] = F[r[i]]
  BY <1>1, <1>4 DEF Encodes
<1>6. F[x] \in Seq(S) BY DEF Encodes
<1> HIDE DEF m, mr
<1> DEFINE ma == Append(m, F[x])
<1>7. /\ ma \in Seq(Seq(S)) /\ Len(ma) = Len(q) + 1 /\ ma[Len(q) + 1] = F[x]
      /\ \A i \in 1..Len(q) : ma[i] = F[q[i]]
  BY <1>2, <1>6, AppendFacts
<1> HIDE DEF ma
<1>8. ASSUME NEW i \in 1..(Len(q)+1) PROVE mr[i] = ma[i]
  <2>1. i \in 1..Len(q) \/ i = Len(q) + 1 BY <1>1
  <2> QED BY <2>1, <1>3, <1>5, <1>7
<1>9. mr = ma BY <1>5, <1>7, <1>8, SameFacts
<1>10. FlattenSeq(m) \in Seq(S) /\ FlattenSeq(Append(m, F[x])) = FlattenSeq(m) \o F[x]
  BY <1>2, <1>6, FlattenAppend
<1>11. FlattenSeq(mr) = FlattenSeq(m) \o F[x] BY <1>9, <1>10 DEF ma
<1> QED BY <1>10, <1>11 DEF Joined, m, mr, r

LEMMA JoinedType ==
  ASSUME NEW A, NEW S, NEW F, Encodes(F, A, S), NEW q \in Seq(A)
  PROVE  Joined(F, q) \in Seq(S)
<1>1. CASE q = <<>> BY <1>1, JoinedEmpty, EmptyFacts
<1>2. CASE q # <<>>
  <2>1. q[1] \in A BY <1>2, TailFacts
  <2> QED BY <2>1, JoinedAppend
<1> QED BY <1>1, <1>2

LEMMA JoinedConcat ==
  ASSUME NEW A, NEW S, NEW F, Encodes(F, A, S), NEW q \in Seq(A), NEW r \in Seq(A)
  PROVE  Joined(F, q \o r) = Joined(F, q) \o Joined(F, r)
<1> DEFINE P == {n \in Nat : \A p \in Seq(A) : Len(p) = n =>
                   Joined(F, q \o p) = Joined(F, q) \o Joined(F, p)}
<1>1. 0 \in P
  <2>1. ASSUME NEW p \in Seq(A), Len(p) = 0
        PROVE  Joined(F, q \o p) = Joined(F, q) \o Joined(F, p)
    <3>1. p = <<>> BY <2>1, EmptyFacts
    <3>2. q \o p = q BY <3>1, ConcatFacts
    <3>3. Joined(F, p) = <<>> /\ Joined(F, q) \in Seq(S) BY <3>1, JoinedEmpty, JoinedType
    <3> QED BY <3>2, <3>3, ConcatFacts
  <2> QED BY <2>1
<1>2. ASSUME NEW n \in Nat, n \in P PROVE n + 1 \in P
  <2>1. ASSUME NEW p \in Seq(A), Len(p) = n + 1
        PROVE  Joined(F, q \o p) = Joined(F, q) \o Joined(F, p)
    <3>1. PICK f \in Seq(A), x \in A : p = Append(f, x) /\ Len(f) = Len(p) - 1
      <4>1. p # <<>> BY <2>1, EmptyFacts
      <4> QED BY <4>1, FrontFacts
    <3>2. Joined(F, q \o f) = Joined(F, q) \o Joined(F, f)
      <4>1. Len(f) = n BY <2>1, <3>1
      <4> QED BY <1>2, <4>1
    <3>3. q \o p = Append(q \o f, x)
      <4>1. <<x>> \in Seq(A) /\ p = f \o <<x>> BY <3>1, SingleFacts, AppendFacts
      <4> DEFINE s == <<x>>
      <4>2. q \in Seq(A) /\ f \in Seq(A) /\ s \in Seq(A) BY <4>1
      <4> HIDE DEF s
      <4>3. (q \o f) \o s = q \o (f \o s) BY ONLY <4>2, Associative, SMTT(20)
      <4>4. q \o f \in Seq(A) BY ConcatFacts
      <4> QED BY <4>1, <4>3, <4>4, AppendFacts DEF s
    <3>4. q \o f \in Seq(A) BY ConcatFacts
    <3>5. Joined(F, q \o p) = Joined(F, q \o f) \o F[x]
      <4> DEFINE d == q \o f
      <4>1. d \in Seq(A) BY <3>4
      <4> HIDE DEF d
      <4>2. Joined(F, Append(d, x)) = Joined(F, d) \o F[x] BY <4>1, JoinedAppend
      <4> QED BY <4>2, <3>3 DEF d
    <3>6. Joined(F, Append(f, x)) = Joined(F, f) \o F[x] BY JoinedAppend
    <3> DEFINE a == Joined(F, q)
               b == Joined(F, f)
               c == F[x]
    <3>7. a \in Seq(S) /\ b \in Seq(S) /\ c \in Seq(S) BY JoinedType DEF Encodes
    <3> HIDE DEF a, b, c
    <3>8. (a \o b) \o c = a \o (b \o c) BY ONLY <3>7, Associative, SMTT(20)
    <3> QED BY <3>1, <3>2, <3>5, <3>6, <3>8 DEF a, b, c
  <2> QED BY <2>1
<1> HIDE DEF P
<1>3. \A n \in Nat : n \in P BY <1>1, <1>2, Induction
<1>4. Len(r) \in Nat BY EmptyFacts
<1> QED BY <1>3, <1>4 DEF P

LEMMA JoinedSingle ==
  ASSUME NEW A, NEW S, NEW F, Encodes(F, A, S), NEW x \in A
  PROVE  Joined(F, <<x>>) = F[x]
<1> DEFINE q == <<>>
<1>1. q \in Seq(A) OBVIOUS
<1>2. Joined(F, q) = <<>> BY JoinedEmpty
<1>3. Append(q, x) = <<x>> OBVIOUS
<1> HIDE DEF q
<1>4. Joined(F, Append(q, x)) = Joined(F, q) \o F[x] BY <1>1, JoinedAppend
<1>5. F[x] \in Seq(S) BY DEF Encodes
<1>6. <<>> \o F[x] = F[x] BY <1>5, ConcatFacts
<1> QED BY <1>3, <1>2, <1>4, <1>6

LEMMA JoinedHead ==
  ASSUME NEW A, NEW S, NEW F, Encodes(F, A, S), NEW q \in Seq(A), q # <<>>
  PROVE  Joined(F, q) = F[q[1]] \o Joined(F, Tail(q))
<1> DEFINE h == <<q[1]>>
           t == Tail(q)
<1>1. q[1] \in A /\ t \in Seq(A) /\ q = h \o t BY TailFacts
<1>2. h \in Seq(A) BY <1>1, SingleFacts
<1>3. Joined(F, h) = F[q[1]] BY <1>1, JoinedSingle
<1> HIDE DEF h, t
<1>4. Joined(F, h \o t) = Joined(F, h) \o Joined(F, t) BY <1>1, <1>2, JoinedConcat
<1> QED BY <1>1, <1>3, <1>4 DEF t

-----------------------------------------------------------------------------
(* What Redis sends. *)

LEMMA CRLFFacts == CRLF \in Pieces /\ CRLF.t = "CRLF" /\ <<CRLF>> \in Seq(Pieces) /\ Len(<<CRLF>>) = 1
<1>1. CRLF \in Pieces /\ CRLF.t = "CRLF" BY RepliesAssumption DEF CRLF, Pieces
<1> QED BY <1>1, SingleFacts

LEMMA LineFacts ==
  ASSUME NEW t \in Types, NEW n \in Nat
  PROVE  Line(t, n) \in Seq(Pieces) /\ Len(Line(t, n)) = 2
<1>1. [t |-> t, n |-> n] \in Pieces BY DEF Pieces
<1> QED BY <1>1, CRLFFacts DEF Line

\* What Sent makes of a reply, given g of its items.
SentOf(g, v) ==
  CASE v.t = "bulk" -> Line("bulk", Len(v.text)) \o v.text \o <<CRLF>>
    [] v.t = "array" -> Line("array", Len(v.items)) \o FlattenSeq([i \in DOMAIN v.items |-> g[v.items[i]]])
    [] OTHER -> Line(v.t, 0)

\* The same, case by case.
SentCases(s, g, v) ==
  /\ v.t = "bulk" => s = (Line("bulk", Len(v.text)) \o v.text) \o <<CRLF>>
  /\ v.t = "array" => s = Line("array", Len(v.items)) \o Joined(g, v.items)
  /\ v.t \notin {"bulk", "array"} => s = Line(v.t, 0)

LEMMA SentOfFacts ==
  ASSUME NEW g \in [Replies -> Seq(Pieces)], NEW v \in Replies
  PROVE  SentOf(g, v) \in Seq(Pieces) /\ SentCases(SentOf(g, v), g, v)
<1>1. ReplyFacts(v) BY RepliesFacts
<1>2. v.t \in Types /\ v.text \in Seq(Pieces) /\ v.items \in Seq(Replies) BY <1>1 DEF ReplyFacts
<1>3. CASE v.t = "bulk"
  <2> DEFINE l == Line("bulk", Len(v.text))
  <2>1. l \in Seq(Pieces)
    <3>1. Len(v.text) \in Nat /\ "bulk" \in Types BY <1>2, RepliesAssumption
    <3> QED BY <3>1, LineFacts
  <2>2. SentOf(g, v) = (l \o v.text) \o <<CRLF>> BY <1>3 DEF SentOf
  <2>3. <<CRLF>> \in Seq(Pieces) BY CRLFFacts
  <2> HIDE DEF l
  <2>4. (l \o v.text) \o <<CRLF>> \in Seq(Pieces) BY <1>2, <2>1, <2>3
  <2> QED BY <1>3, <2>2, <2>4 DEF SentCases, l
<1>4. CASE v.t = "array"
  <2> DEFINE l == Line("array", Len(v.items))
             f == Joined(g, v.items)
  <2>1. l \in Seq(Pieces)
    <3>1. Len(v.items) \in Nat /\ "array" \in Types BY <1>2, RepliesAssumption
    <3> QED BY <3>1, LineFacts
  <2>2. SentOf(g, v) = l \o f BY <1>4 DEF SentOf, Joined
  <2>3. Encodes(g, Replies, Pieces) BY DEF Encodes
  <2>4. f \in Seq(Pieces) BY <1>2, <2>3, JoinedType
  <2> HIDE DEF l, f
  <2>5. l \o f \in Seq(Pieces) BY <2>1, <2>4
  <2> QED BY <1>4, <2>2, <2>5 DEF SentCases, l, f
<1>5. CASE v.t \notin {"bulk", "array"}
  <2>1. SentOf(g, v) = Line(v.t, 0) BY <1>5 DEF SentOf
  <2>2. Line(v.t, 0) \in Seq(Pieces) BY <1>2, LineFacts
  <2> QED BY <1>5, <2>1, <2>2 DEF SentCases
<1> QED BY <1>3, <1>4, <1>5

LEMMA SentExists ==
  \E g \in [Replies -> Seq(Pieces)] : g = [v \in Replies |-> SentOf(g, v)]
<1> DEFINE S == Seq(Pieces)
           F == [p \in [Replies -> S] \X Replies |-> SentOf(p[1], p[2])]
<1>1. F \in [[Replies -> S] \X Replies -> S]
  <2>1. ASSUME NEW p \in [Replies -> S] \X Replies PROVE SentOf(p[1], p[2]) \in S
    <3>1. p[1] \in [Replies -> Seq(Pieces)] /\ p[2] \in Replies OBVIOUS
    <3> QED BY <3>1, SentOfFacts
  <2> QED BY <2>1
<1>2. ASSUME NEW g \in [Replies -> S], NEW v \in Replies PROVE F[<<g, v>>] = SentOf(g, v)
  <2>1. <<g, v>> \in [Replies -> S] \X Replies OBVIOUS
  <2> QED BY <2>1
<1>3. ASSUME NEW g \in [Replies -> S], NEW h \in [Replies -> S], NEW v \in Replies,
             \A i \in DOMAIN v.items : g[v.items[i]] = h[v.items[i]]
      PROVE  F[<<g, v>>] = F[<<h, v>>]
  <2>1. [i \in DOMAIN v.items |-> g[v.items[i]]] = [i \in DOMAIN v.items |-> h[v.items[i]]] BY <1>3
  <2>2. SentOf(g, v) = SentOf(h, v) BY <2>1 DEF SentOf
  <2> QED BY <1>2, <2>2
<1>4. <<>> \in S OBVIOUS
<1> HIDE DEF F, S
<1>5. PICK g \in [Replies -> S] : \A v \in Replies : g[v] = F[<<g, v>>]
  <2>1. Recurses(F, S) BY <1>1, <1>3 DEF Recurses
  <2> QED BY <2>1, <1>4, ReplyRecursion
<1>6. \A v \in Replies : g[v] = SentOf(g, v) BY <1>2, <1>5
<1>7. g = [v \in Replies |-> g[v]] BY <1>5
<1>8. g = [v \in Replies |-> SentOf(g, v)] BY <1>6, <1>7
<1> QED BY <1>5, <1>8 DEF S

\* Sent is what its definition says.
LEMMA SentFacts ==
  /\ Encodes(Sent, Replies, Pieces)
  /\ \A v \in Replies : Sent[v] \in Seq(Pieces) /\ SentCases(Sent[v], Sent, v)
<1>1. PICK h \in [Replies -> Seq(Pieces)] : h = [v \in Replies |-> SentOf(h, v)]
  BY SentExists
<1>2. Sent = [v \in Replies |-> SentOf(Sent, v)] BY <1>1, SMT DEF Sent, SentOf
<1>3. h = [v \in Replies |-> SentOf(h, v)] BY <1>1
<1> DEFINE P == {n \in Nat : \A v \in Replies : Depth[v] < n => Sent[v] = h[v]}
<1>4. 0 \in P
  <2>1. \A v \in Replies : ~(Depth[v] < 0) BY RepliesFacts DEF ReplyFacts
  <2> QED BY <2>1
<1>5. ASSUME NEW n \in Nat, n \in P PROVE n + 1 \in P
  <2>1. ASSUME NEW v \in Replies, Depth[v] < n + 1 PROVE Sent[v] = h[v]
    <3>1. ReplyFacts(v) BY RepliesFacts
    <3>2. \A i \in DOMAIN v.items : v.items[i] \in Replies BY <3>1 DEF ReplyFacts
    <3>3. \A i \in DOMAIN v.items : Depth[v.items[i]] \in Nat BY <3>2, RepliesFacts DEF ReplyFacts
    <3>4. \A i \in DOMAIN v.items : Depth[v.items[i]] < Depth[v] BY <3>1 DEF ReplyFacts
    <3>5. Depth[v] \in Nat BY <3>1 DEF ReplyFacts
    <3>6. \A a, b \in Nat : a < b /\ b < n + 1 => a < n OBVIOUS
    <3>7. \A i \in DOMAIN v.items : Depth[v.items[i]] < n BY <2>1, <3>3, <3>4, <3>5, <3>6
    <3>8. \A i \in DOMAIN v.items : Sent[v.items[i]] = h[v.items[i]] BY <1>5, <3>2, <3>7
    <3>9. [i \in DOMAIN v.items |-> Sent[v.items[i]]] = [i \in DOMAIN v.items |-> h[v.items[i]]] BY <3>8
    <3>10. SentOf(Sent, v) = SentOf(h, v) BY <3>9 DEF SentOf
    <3>11. Sent[v] = SentOf(Sent, v) BY <1>2
    <3>12. h[v] = SentOf(h, v) BY <1>3
    <3> QED BY <3>10, <3>11, <3>12
  <2> QED BY <2>1
<1> HIDE DEF P
<1>6. \A n \in Nat : n \in P BY <1>4, <1>5, Induction
<1>7. ASSUME NEW v \in Replies PROVE Sent[v] = h[v]
  <2>1. Depth[v] \in Nat /\ Depth[v] + 1 \in Nat /\ Depth[v] < Depth[v] + 1
    BY RepliesFacts DEF ReplyFacts
  <2> QED BY <1>6, <2>1 DEF P
<1>8. Sent \in [Replies -> Seq(Pieces)]
  <2>1. Sent = [v \in Replies |-> SentOf(Sent, v)] BY <1>2
  <2>2. \A v \in Replies : h[v] = SentOf(Sent, v) BY <1>2, <1>7
  <2>3. \A v \in Replies : h[v] \in Seq(Pieces) BY <1>3
  <2> QED BY <2>1, <2>2, <2>3
<1>9. ASSUME NEW v \in Replies PROVE Sent[v] \in Seq(Pieces) /\ SentCases(Sent[v], Sent, v)
  <2>1. Sent[v] = SentOf(Sent, v) BY <1>2
  <2> QED BY <1>8, <2>1, SentOfFacts
<1> QED BY <1>8, <1>9 DEF Encodes

BadOf(g, v) == IsConnectionError(v) \/ \E i \in DOMAIN v.items : g[v.items[i]]

LEMMA BadExists ==
  \E g \in [Replies -> BOOLEAN] : g = [v \in Replies |-> BadOf(g, v)]
<1> DEFINE F == [p \in [Replies -> BOOLEAN] \X Replies |-> BadOf(p[1], p[2])]
<1>1. F \in [[Replies -> BOOLEAN] \X Replies -> BOOLEAN]
  BY DEF BadOf, IsConnectionError
<1>2. ASSUME NEW g \in [Replies -> BOOLEAN], NEW v \in Replies PROVE F[<<g, v>>] = BadOf(g, v)
  <2>1. <<g, v>> \in [Replies -> BOOLEAN] \X Replies OBVIOUS
  <2> QED BY <2>1
<1>3. ASSUME NEW g \in [Replies -> BOOLEAN], NEW h \in [Replies -> BOOLEAN], NEW v \in Replies,
             \A i \in DOMAIN v.items : g[v.items[i]] = h[v.items[i]]
      PROVE  F[<<g, v>>] = F[<<h, v>>]
  <2>1. BadOf(g, v) = BadOf(h, v) BY <1>3 DEF BadOf, IsConnectionError
  <2> QED BY <1>2, <2>1
<1> HIDE DEF F
<1>4. PICK g \in [Replies -> BOOLEAN] : \A v \in Replies : g[v] = F[<<g, v>>]
  <2>1. Recurses(F, BOOLEAN) BY <1>1, <1>3 DEF Recurses
  <2> DEFINE S == BOOLEAN
             s == TRUE
  <2>2. s \in S /\ Recurses(F, S) BY <2>1
  <2> HIDE DEF S, s
  <2>3. \E g \in [Replies -> S] : \A v \in Replies : g[v] = F[<<g, v>>] BY <2>2, ReplyRecursion
  <2> QED BY <2>3 DEF S
<1>5. \A v \in Replies : g[v] = BadOf(g, v) BY <1>2, <1>4
<1>6. g = [v \in Replies |-> g[v]] BY <1>4
<1>7. g = [v \in Replies |-> BadOf(g, v)] BY <1>5, <1>6
<1> QED BY <1>7

\* A reply is bad if it is an error that stands for a lost connection, or one of its
\* items is bad.
LEMMA BadFacts ==
  \A v \in Replies : Bad[v] <=> IsConnectionError(v) \/ \E i \in DOMAIN v.items : Bad[v.items[i]]
<1>1. PICK h : h = [v \in Replies |-> BadOf(h, v)]
  BY BadExists
<1>2. Bad = [v \in Replies |-> BadOf(Bad, v)] BY <1>1 DEF Bad, BadOf
<1>3. \A v \in Replies : Bad[v] = BadOf(Bad, v) BY <1>2
<1> QED BY <1>3 DEF BadOf

\* What Redis sends for replies one after the other.
LEMMA StreamFacts ==
  /\ Stream(<<>>) = <<>>
  /\ \A q \in Seq(Replies) : Stream(q) \in Seq(Pieces)
  /\ \A q, r \in Seq(Replies) : Stream(q \o r) = Stream(q) \o Stream(r)
  /\ \A q \in Seq(Replies) : q # <<>> => Stream(q) = Sent[q[1]] \o Stream(Tail(q))
<1>1. Encodes(Sent, Replies, Pieces) BY SentFacts
<1>2. Stream(<<>>) = <<>> BY JoinedEmpty DEF Stream
<1>3. ASSUME NEW q \in Seq(Replies) PROVE Stream(q) \in Seq(Pieces)
  BY <1>1, JoinedType DEF Stream
<1>4. ASSUME NEW q \in Seq(Replies), NEW r \in Seq(Replies)
      PROVE  Stream(q \o r) = Stream(q) \o Stream(r)
  BY <1>1, JoinedConcat DEF Stream
<1>5. ASSUME NEW q \in Seq(Replies), q # <<>> PROVE Stream(q) = Sent[q[1]] \o Stream(Tail(q))
  BY <1>1, <1>5, JoinedHead DEF Stream
<1> QED BY <1>2, <1>3, <1>4, <1>5

\* The head of what Redis sends for v: its type, and a length.
HeadOf(v) == [t |-> v.t, n |-> IF v.t = "bulk" THEN Len(v.text) ELSE Len(v.items)]
Behind(v) == IF v.t = "bulk" THEN v.text \o <<CRLF>> ELSE Stream(v.items)

\* What Redis sends is a line, and behind it what is in the reply.
LEMMA LineFirst ==
  ASSUME NEW v \in Replies
  PROVE  /\ HeadOf(v) \in Pieces /\ HeadOf(v) # CRLF
         /\ Behind(v) \in Seq(Pieces)
         /\ Sent[v] = <<HeadOf(v), CRLF>> \o Behind(v)
         /\ v.t \notin {"bulk", "array"} => Sent[v] = <<HeadOf(v), CRLF>> /\ v = Reply(v.t, <<>>, <<>>)
<1>1. ReplyFacts(v) BY RepliesFacts
<1>2. /\ v.t \in Types /\ v.text \in Seq(Pieces) /\ v.items \in Seq(Replies) /\ v.t # "CRLF"
      /\ v.t # "bulk" => v.text = <<>>
      /\ v.t # "array" => v.items = <<>>
      /\ v = [t |-> v.t, text |-> v.text, items |-> v.items]
  BY <1>1 DEF ReplyFacts
<1>3. Len(v.text) \in Nat /\ Len(v.items) \in Nat BY <1>2
<1>4. HeadOf(v) \in Pieces BY <1>2, <1>3 DEF HeadOf, Pieces
<1>5. HeadOf(v).t = v.t /\ HeadOf(v) # CRLF BY <1>2 DEF HeadOf, CRLF
<1>6. SentCases(Sent[v], Sent, v) BY SentFacts
<1> DEFINE l == <<HeadOf(v), CRLF>>
<1>7. l \in Seq(Pieces) BY <1>4, CRLFFacts
<1>8. CASE v.t = "bulk"
  <2>1. l = Line("bulk", Len(v.text)) BY <1>8 DEF Line, HeadOf
  <2>2. Sent[v] = (l \o v.text) \o <<CRLF>> BY <1>6, <1>8, <2>1 DEF SentCases
  <2>3. <<CRLF>> \in Seq(Pieces) BY CRLFFacts
  <2> HIDE DEF l
  <2>4. (l \o v.text) \o <<CRLF>> = l \o (v.text \o <<CRLF>>)
    <3> DEFINE t == v.text
               e == <<CRLF>>
    <3>1. l \in Seq(Pieces) /\ t \in Seq(Pieces) /\ e \in Seq(Pieces) BY <1>2, <1>7, <2>3
    <3> HIDE DEF t, e
    <3>2. (l \o t) \o e = l \o (t \o e) BY ONLY <3>1, Associative
    <3> QED BY <3>2 DEF t, e
  <2>5. v.text \o <<CRLF>> \in Seq(Pieces) BY <1>2, <2>3, ConcatFacts
  <2> QED BY <1>4, <1>5, <1>8, <2>2, <2>4, <2>5 DEF l, Behind
<1>9. CASE v.t = "array"
  <2>1. l = Line("array", Len(v.items)) BY <1>9 DEF Line, HeadOf
  <2>2. Sent[v] = l \o Stream(v.items) BY <1>6, <1>9, <2>1 DEF SentCases, Stream
  <2>3. Stream(v.items) \in Seq(Pieces) BY <1>2, StreamFacts
  <2> QED BY <1>4, <1>5, <1>9, <2>2, <2>3 DEF Behind
<1>10. CASE v.t \notin {"bulk", "array"}
  <2>1. v.items = <<>> /\ v.text = <<>> BY <1>2, <1>10
  <2>2. l = Line(v.t, 0) BY <1>10, <2>1 DEF Line, HeadOf
  <2>3. Sent[v] = l BY <1>6, <1>10, <2>2 DEF SentCases
  <2>4. Behind(v) = <<>> BY <1>10, <2>1, StreamFacts DEF Behind
  <2>5. <<>> \in Seq(Pieces) OBVIOUS
  <2>6. v = Reply(v.t, <<>>, <<>>) BY <1>2, <2>1 DEF Reply
  <2> HIDE DEF l
  <2>7. l \o <<>> = l BY <1>7, ConcatFacts
  <2> QED BY <1>4, <1>5, <1>10, <2>3, <2>4, <2>5, <2>6, <2>7 DEF l
<1> QED BY <1>8, <1>9, <1>10

-----------------------------------------------------------------------------
(* The buffer. *)

\* q is its first i elements and what is behind them.
LEMMA SplitFacts ==
  ASSUME NEW S, NEW q \in Seq(S), NEW i \in 0..Len(q)
  PROVE  /\ SubSeq(q, 1, i) \in Seq(S) /\ Len(SubSeq(q, 1, i)) = i
         /\ SubSeq(q, i + 1, Len(q)) \in Seq(S) /\ Len(SubSeq(q, i + 1, Len(q))) = Len(q) - i
         /\ q = SubSeq(q, 1, i) \o SubSeq(q, i + 1, Len(q))
<1> DEFINE n == Len(q)
           a == SubSeq(q, 1, i)
           b == SubSeq(q, i + 1, n)
           c == a \o b
<1>1. n \in Nat /\ i \in Nat /\ i <= n OBVIOUS
<1>2. a \in Seq(S) /\ Len(a) = i /\ \A j \in 1..i : a[j] = q[j] BY <1>1
<1>3. b \in Seq(S) /\ Len(b) = n - i /\ \A j \in 1..(n-i) : b[j] = q[i+j] BY <1>1
<1> HIDE DEF a, b
<1>4. c \in Seq(S) /\ Len(c) = n
  <2>1. c \in Seq(S) /\ Len(c) = Len(a) + Len(b) BY <1>2, <1>3, ConcatFacts
  <2> QED BY <1>1, <1>2, <1>3, <2>1
<1>5. ASSUME NEW j \in 1..n PROVE c[j] = q[j]
  <2>1. CASE j <= i
    <3>1. j \in 1..Len(a) BY <1>1, <1>2, <2>1
    <3>2. c[j] = a[j] BY <3>1, <1>2, <1>3, ConcatFacts
    <3> QED BY <3>1, <3>2, <1>2
  <2>2. CASE ~(j <= i)
    <3> DEFINE k == j - i
    <3>1. k \in 1..(n-i) /\ i + k = j BY <1>1, <2>2
    <3> HIDE DEF k
    <3>2. k \in 1..Len(b) BY <3>1, <1>3
    <3>3. c[Len(a) + k] = b[k] BY <3>2, <1>2, <1>3, ConcatFacts
    <3> QED BY <3>1, <3>3, <1>2, <1>3
  <2> QED BY <2>1, <2>2
<1> HIDE DEF c, n
<1>6. c = q BY <1>4, <1>5, SameFacts DEF n
<1> QED BY <1>2, <1>3, <1>6 DEF a, b, c, n

\* Two ways to cut the same sequence at one place.
LEMMA Cancel ==
  ASSUME NEW S, NEW a \in Seq(S), NEW b \in Seq(S), NEW c \in Seq(S), NEW d \in Seq(S),
         a \o b = c \o d, Len(a) = Len(c)
  PROVE  a = c /\ b = d
<1>1. Len(a) \in Nat /\ Len(b) \in Nat /\ Len(c) \in Nat /\ Len(d) \in Nat OBVIOUS
<1> DEFINE Cut(w, p, q) == /\ Len(w) = Len(p) + Len(q)
                           /\ \A i \in 1..Len(p) : w[i] = p[i]
                           /\ \A i \in 1..Len(q) : w[Len(p) + i] = q[i]
<1>2. \A p, q \in Seq(S) : Cut(p \o q, p, q)
  <2>1. ASSUME NEW p \in Seq(S), NEW q \in Seq(S) PROVE Cut(p \o q, p, q)
    BY ONLY p \in Seq(S), q \in Seq(S), ConcatFacts
  <2> QED BY <2>1
<1>3. Cut(a \o b, a, b) /\ Cut(c \o d, c, d) BY <1>2
<1>4. PICK w : Cut(w, a, b) /\ Cut(w, c, d)
  <2> HIDE DEF Cut
  <2> QED BY <1>3
<1>5. Len(b) = Len(d) BY <1>1, <1>4
<1>6. \A i \in 1..Len(a) : a[i] = c[i] BY <1>4
<1>7. \A i \in 1..Len(b) : b[i] = d[i] BY <1>4, <1>5
<1> QED BY <1>5, <1>6, <1>7, SameFacts

\* What is behind the first i elements of q, if more comes behind q.
LEMMA DropConcat ==
  ASSUME NEW S, NEW q \in Seq(S), NEW r \in Seq(S), NEW i \in 0..Len(q)
  PROVE  /\ SubSeq(q \o r, i + 1, Len(q \o r)) = SubSeq(q, i + 1, Len(q)) \o r
         /\ SubSeq(q \o r, 1, i) = SubSeq(q, 1, i)
<1> DEFINE a == SubSeq(q, 1, i)
           b == SubSeq(q, i + 1, Len(q))
           w == q \o r
           c == SubSeq(w, 1, i)
           d == SubSeq(w, i + 1, Len(w))
<1>1. a \in Seq(S) /\ Len(a) = i /\ b \in Seq(S) /\ q = a \o b
  BY SplitFacts, Zenon
<1>2. w \in Seq(S) /\ i \in 0..Len(w)
  <2>1. w \in Seq(S) /\ Len(w) = Len(q) + Len(r) /\ Len(q) \in Nat /\ Len(r) \in Nat
    BY ConcatFacts, EmptyFacts
  <2> QED BY <2>1
<1> HIDE DEF w
<1>3. c \in Seq(S) /\ Len(c) = i /\ d \in Seq(S) /\ w = c \o d BY <1>2, SplitFacts, Zenon
<1> HIDE DEF a, b, c, d
<1> DEFINE br == b \o r
<1>4. br \in Seq(S) /\ w = a \o br BY <1>1, Associative, ConcatFacts DEF w
<1> HIDE DEF br
<1>5. c = a /\ d = br
  <2>1. c \o d = a \o br /\ Len(c) = Len(a) BY <1>1, <1>3, <1>4
  <2> QED BY <2>1, <1>1, <1>3, <1>4, Cancel
<1> QED BY <1>5 DEF a, b, c, d, w, br

\* The part of q behind its first i elements, cut again.
LEMMA DropAgain ==
  ASSUME NEW S, NEW q \in Seq(S), NEW i \in 0..Len(q), NEW j \in 0..(Len(q) - i)
  PROVE  /\ SubSeq(q, i + 1, Len(q)) = SubSeq(q, i + 1, i + j) \o SubSeq(q, (i + j) + 1, Len(q))
         /\ SubSeq(q, i + 1, i + j) \in Seq(S) /\ Len(SubSeq(q, i + 1, i + j)) = j
         /\ SubSeq(q, (i + j) + 1, Len(q)) \in Seq(S)
<1> DEFINE n == Len(q)
           a == SubSeq(q, i + 1, n)
           b == SubSeq(q, i + 1, i + j)
           c == SubSeq(q, (i + j) + 1, n)
           d == b \o c
<1>1. n \in Nat /\ i \in Nat /\ j \in Nat /\ i + j <= n OBVIOUS
<1>2. a \in Seq(S) /\ Len(a) = n - i /\ \A k \in 1..(n-i) : a[k] = q[i+k] BY <1>1
<1>3. b \in Seq(S) /\ Len(b) = j /\ \A k \in 1..j : b[k] = q[i+k] BY <1>1
<1>4. c \in Seq(S) /\ Len(c) = n - (i + j) /\ \A k \in 1..(n-(i+j)) : c[k] = q[(i+j)+k] BY <1>1
<1> HIDE DEF a, b, c
<1>5. d \in Seq(S) /\ Len(d) = n - i
  <2>1. d \in Seq(S) /\ Len(d) = Len(b) + Len(c) BY <1>3, <1>4, ConcatFacts
  <2> QED BY <1>1, <1>3, <1>4, <2>1
<1>6. ASSUME NEW k \in 1..(n-i) PROVE a[k] = d[k]
  <2>1. CASE k <= j
    <3>1. k \in 1..Len(b) /\ k \in 1..j BY <1>1, <1>3, <2>1
    <3>2. d[k] = b[k] BY <3>1, <1>3, <1>4, ConcatFacts
    <3> QED BY <3>1, <3>2, <1>2, <1>3
  <2>2. CASE ~(k <= j)
    <3> DEFINE m == k - j
    <3>1. m \in 1..(n-(i+j)) /\ j + m = k /\ (i+j)+m = i+k BY <1>1, <2>2
    <3> HIDE DEF m
    <3>2. m \in 1..Len(c) BY <3>1, <1>4
    <3>3. d[Len(b) + m] = c[m]
      <4>1. b \in Seq(S) /\ c \in Seq(S) /\ d = b \o c /\ m \in 1..Len(c) BY <3>2, <1>3, <1>4
      <4> QED BY ONLY <4>1, ConcatFacts
    <3> QED BY <3>1, <3>3, <1>2, <1>3, <1>4
  <2> QED BY <2>1, <2>2
<1> HIDE DEF d, n
<1>7. a = d BY <1>2, <1>5, <1>6, SameFacts
<1> QED BY <1>3, <1>4, <1>7 DEF a, b, c, d, n

LEMMA AheadFacts ==
  ASSUME BufferOK
  PROVE  /\ bytes_read \in Nat /\ Len(buffer) \in Nat /\ bytes_read \in 0..Len(buffer)
         /\ Ahead \in Seq(Pieces) /\ Len(Ahead) = Unread /\ Unread \in Nat
         /\ Rest \in Seq(Pieces)
<1>1. bytes_read \in Nat /\ Len(buffer) \in Nat /\ bytes_read \in 0..Len(buffer)
  BY DEF BufferOK
<1>2. Ahead \in Seq(Pieces) /\ Len(Ahead) = Len(buffer) - bytes_read
  BY <1>1, SplitFacts DEF BufferOK, Ahead
<1>3. Unread = Len(buffer) - bytes_read /\ Unread \in Nat BY <1>1 DEF Unread, BufferOK
<1> QED BY <1>1, <1>2, <1>3, ConcatFacts DEF Rest, BufferOK

\* What arrives goes behind what was there: nothing is lost or moved.
LEMMA ReceiveFacts ==
  ASSUME BufferOK, NEW k, Receive(k), bytes_read' = bytes_read
  PROVE  BufferOK' /\ Rest' = Rest
<1> DEFINE n == Len(buffer)
           new == SubSeq(wire, 1, k)
           left == SubSeq(wire, k + 1, Len(wire))
<1>1. n \in Nat /\ k \in 1..Len(wire) /\ k \in 0..Len(wire) /\ bytes_read \in 0..n /\ bytes_written = n
  BY AheadFacts DEF Receive, BufferOK
<1>2. new \in Seq(Pieces) /\ Len(new) = k /\ left \in Seq(Pieces) /\ wire = new \o left
  BY <1>1, SplitFacts DEF BufferOK
<1>3. SubSeq(buffer, 1, n) = buffer BY <1>1 DEF BufferOK
<1>4. SubSeq(buffer, n + k + 1, n) = <<>> BY <1>1 DEF BufferOK
<1>5. wire' = left /\ bytes_written' = n + k BY <1>1 DEF Receive
<1> HIDE DEF new, left
<1>6. buffer \o new \in Seq(Pieces) /\ Len(buffer \o new) = n + k /\ (buffer \o new) \o <<>> = buffer \o new
  <2> DEFINE b == buffer \o new
  <2>1. buffer \in Seq(Pieces) BY DEF BufferOK
  <2>2. b \in Seq(Pieces) /\ Len(b) = Len(buffer) + Len(new)
    <3>1. new \in Seq(Pieces) BY <1>2
    <3> QED BY ONLY <2>1, <3>1, ConcatFacts
  <2> HIDE DEF b
  <2>3. b \o <<>> = b BY <2>2, ConcatFacts
  <2> QED BY <1>2, <2>2, <2>3 DEF b
<1>7. buffer' = (buffer \o new) \o <<>>
  <2>1. buffer' = SubSeq(buffer, 1, n) \o new \o SubSeq(buffer, n + k + 1, n)
    BY <1>1 DEF Receive, new
  <2> QED BY <1>3, <1>4, <2>1
<1>8. buffer' = buffer \o new BY <1>6, <1>7
<1>9. BufferOK' BY <1>1, <1>2, <1>5, <1>6, <1>8 DEF BufferOK
<1>10. Ahead' = Ahead \o new
  <2>1. SubSeq(buffer \o new, bytes_read + 1, Len(buffer \o new)) = SubSeq(buffer, bytes_read + 1, n) \o new
    BY <1>1, <1>2, DropConcat DEF BufferOK
  <2> QED BY <1>8, <2>1 DEF Ahead
<1>11. (Ahead \o new) \o left = Ahead \o (new \o left)
  <2>1. Ahead \in Seq(Pieces) BY AheadFacts
  <2> QED BY <1>2, <2>1, Associative
<1>12. Rest' = (Ahead \o new) \o left BY <1>5, <1>10 DEF Rest
<1> QED BY <1>2, <1>9, <1>11, <1>12 DEF Rest

\* What is read comes first of what was there, the rest behind it.
LEMMA ConsumeFacts ==
  ASSUME BufferOK, NEW n \in Nat, n <= Unread, Consume(n), wire' = wire
  PROVE  LET new == SubSeq(buffer, bytes_read + 1, bytes_read + n) IN
         BufferOK' /\ new \in Seq(Pieces) /\ Len(new) = n /\ Rest = new \o Rest'
<1> DEFINE new == SubSeq(buffer, bytes_read + 1, bytes_read + n)
           left == SubSeq(buffer, (bytes_read + n) + 1, Len(buffer))
<1>1. /\ bytes_read \in Nat /\ Len(buffer) \in Nat /\ bytes_read \in 0..Len(buffer)
      /\ Unread = Len(buffer) - bytes_read /\ bytes_written = Len(buffer)
  BY AheadFacts DEF BufferOK, Unread
<1>2. n \in 0..(Len(buffer) - bytes_read) /\ bytes_read + n \in 0..Len(buffer) BY <1>1
<1>3. Ahead = new \o left /\ new \in Seq(Pieces) /\ Len(new) = n /\ left \in Seq(Pieces)
  <2>1. buffer \in Seq(Pieces) BY DEF BufferOK
  <2> DEFINE i == bytes_read
  <2>2. i \in 0..Len(buffer) /\ n \in 0..(Len(buffer) - i) BY <1>1, <1>2
  <2> HIDE DEF i
  <2>3. /\ SubSeq(buffer, i + 1, Len(buffer)) = SubSeq(buffer, i + 1, i + n) \o SubSeq(buffer, (i + n) + 1, Len(buffer))
        /\ SubSeq(buffer, i + 1, i + n) \in Seq(Pieces) /\ Len(SubSeq(buffer, i + 1, i + n)) = n
        /\ SubSeq(buffer, (i + n) + 1, Len(buffer)) \in Seq(Pieces)
    BY <2>1, <2>2, DropAgain
  <2> QED BY <2>3 DEF Ahead, i
<1>4. BufferOK' /\ Ahead' = left
  <2>1. CASE n = Unread
    <3>1. buffer' = <<>> /\ bytes_written' = 0 /\ bytes_read' = 0 BY <2>1 DEF Consume
    <3>2. bytes_read + n = Len(buffer) BY <1>1, <2>1
    <3>3. left = <<>> BY <1>1, <3>2 DEF BufferOK
    <3>4. SubSeq(<<>>, 0 + 1, Len(<<>>)) = <<>> OBVIOUS
    <3>5. Ahead' = <<>> BY <3>1, <3>4 DEF Ahead
    <3>6. BufferOK' BY <3>1, EmptyFacts DEF BufferOK
    <3> QED BY <3>3, <3>5, <3>6
  <2>2. CASE n # Unread
    <3>1. buffer' = buffer /\ bytes_written' = bytes_written /\ bytes_read' = bytes_read + n
      BY <2>2 DEF Consume
    <3>2. Ahead' = left BY <3>1 DEF Ahead
    <3>3. BufferOK' BY <1>1, <1>2, <3>1 DEF BufferOK
    <3> QED BY <3>2, <3>3
  <2> QED BY <2>1, <2>2
<1> HIDE DEF new, left
<1>5. wire \in Seq(Pieces) BY DEF BufferOK
<1>6. (new \o left) \o wire = new \o (left \o wire) BY <1>3, <1>5, Associative
<1>7. Rest = (new \o left) \o wire /\ Rest' = left \o wire BY <1>3, <1>4 DEF Rest
<1>8. Rest = new \o Rest' BY <1>6, <1>7
<1> QED BY <1>3, <1>4, <1>8 DEF new

\* If a line comes next, it is found when all of it is there, and not before.
LEMMA RestOfLineFacts ==
  ASSUME BufferOK, NEW h \in Pieces, h # CRLF, NEW r \in Seq(Pieces), Rest = <<h, CRLF>> \o r
  PROVE  /\ RestOfLine \in {0, 2}
         /\ RestOfLine = 2 => /\ 2 <= Unread /\ buffer[bytes_read + 1] = h
                              /\ SubSeq(buffer, bytes_read + 1, bytes_read + 2) = <<h, CRLF>>
<1> DEFINE I == {i \in 1..Len(Ahead) : Ahead[i] = CRLF}
<1>1. Ahead \in Seq(Pieces) /\ wire \in Seq(Pieces) /\ Len(Ahead) = Unread /\ Len(Ahead) \in Nat
  BY AheadFacts DEF BufferOK
<1>2. RestOfLine = IF I # {} THEN Min(I) ELSE 0
  BY DEF RestOfLine, SelectInSeq, Ahead
<1> DEFINE l == <<h, CRLF>>
<1>3. l \in Seq(Pieces) /\ Len(l) = 2 /\ l[1] = h /\ l[2] = CRLF BY CRLFFacts
<1>4. Ahead \o wire = l \o r BY DEF Rest
<1> HIDE DEF l
<1>5. \A i \in 1..Len(Ahead) : i \in 1..2 => Ahead[i] = l[i]
  <2>1. ASSUME NEW i \in 1..Len(Ahead), i \in 1..Len(l) PROVE Ahead[i] = l[i]
    <3>1. (Ahead \o wire)[i] = Ahead[i] BY <1>1, ConcatFacts
    <3>2. (l \o r)[i] = l[i]
      <4>1. l \in Seq(Pieces) /\ r \in Seq(Pieces) /\ i \in 1..Len(l) BY <1>3, <2>1
      <4> QED BY ONLY <4>1, ConcatFacts
    <3> QED BY <1>4, <3>1, <3>2
  <2> QED BY <1>3, <2>1
<1>6. 1 \notin I
  <2>1. 1 \in 1..Len(Ahead) => Ahead[1] = h BY <1>3, <1>5
  <2> QED BY <2>1
<1>7. CASE Len(Ahead) < 2
  <2>1. I = {} BY <1>1, <1>6, <1>7
  <2> QED BY <1>2, <2>1
<1>8. CASE ~(Len(Ahead) < 2)
  <2>1. 1 \in 1..Len(Ahead) /\ 2 \in 1..Len(Ahead) /\ 2 <= Len(Ahead) BY <1>1, <1>8
  <2>2. Ahead[1] = h /\ Ahead[2] = CRLF BY <1>3, <1>5, <2>1
  <2>3. 2 \in I BY <2>1, <2>2
  <2>4. \A i \in I : 2 <= i BY <1>1, <1>6
  <2>5. Min(I) = 2
    <3>1. \A x \in I : 2 <= x /\ x \in Nat BY <1>1, <2>4
    <3> HIDE DEF I
    <3> QED BY <2>3, <3>1 DEF Min
  <2>6. RestOfLine = 2 BY <1>2, <2>3, <2>5
  <2> DEFINE new == SubSeq(buffer, bytes_read + 1, bytes_read + 2)
  <2>7. bytes_read \in 0..Len(buffer) /\ bytes_read \in Nat /\ Len(buffer) \in Nat /\ 2 \in 0..(Len(buffer) - bytes_read)
    BY <1>1, <2>1, AheadFacts DEF Unread, BufferOK
  <2>8. new \in Seq(Pieces) /\ Len(new) = 2 /\ Ahead = new \o SubSeq(buffer, (bytes_read + 2) + 1, Len(buffer))
        /\ SubSeq(buffer, (bytes_read + 2) + 1, Len(buffer)) \in Seq(Pieces)
    BY <2>7, DropAgain DEF BufferOK, Ahead
  <2>9. new[1] = buffer[bytes_read + 1] BY <2>7 DEF BufferOK
  <2>10. new[1] = Ahead[1] /\ new[2] = Ahead[2]
    <3> DEFINE left == SubSeq(buffer, (bytes_read + 2) + 1, Len(buffer))
    <3>1. left \in Seq(Pieces) /\ Ahead = new \o left BY <2>8
    <3> HIDE DEF new, left
    <3>2. 1 \in 1..Len(new) /\ 2 \in 1..Len(new) /\ new \in Seq(Pieces) BY <2>8
    <3>3. (new \o left)[1] = new[1] /\ (new \o left)[2] = new[2]
      BY ONLY <3>1, <3>2, ConcatFacts
    <3> QED BY <3>1, <3>3
  <2>11. new = l
    <3>1. \A i \in 1..2 : i = 1 \/ i = 2 OBVIOUS
    <3> HIDE DEF new
    <3>2. \A i \in 1..Len(new) : new[i] = l[i] BY <1>3, <2>2, <2>8, <2>10, <3>1
    <3> QED BY <1>3, <2>8, <3>2, SameFacts
  <2> QED BY <1>1, <2>1, <2>2, <2>6, <2>9, <2>10, <2>11 DEF l
<1> QED BY <1>7, <1>8

-----------------------------------------------------------------------------
(* Arrays that PythonParser reads. *)

LEMMA MoveOne ==
  ASSUME NEW S, NEW p \in Seq(S), NEW q \in Seq(S), q # <<>>
  PROVE  /\ p \o q = Append(p, q[1]) \o Tail(q) /\ Append(p, q[1]) \in Seq(S) /\ q[1] \in S
         /\ Tail(q) \in Seq(S)
<1> DEFINE x == q[1]
           h == <<x>>
           t == Tail(q)
<1>1. x \in S /\ t \in Seq(S) /\ q = h \o t BY TailFacts
<1>2. h \in Seq(S) BY <1>1, SingleFacts
<1>3. Append(p, x) = p \o h /\ Append(p, x) \in Seq(S) BY <1>1, AppendFacts
<1> HIDE DEF t, h, x
<1>4. (p \o h) \o t = p \o (h \o t) BY <1>1, <1>2, Associative
<1> QED BY <1>1, <1>3, <1>4 DEF x, t

LEMMA FramedFacts ==
  ASSUME NEW st \in Seq(Arrays), NEW se, NEW re, NEW todo, NEW after, Framed(todo, after, st, se, re)
  PROVE  /\ Len(st) \in Nat
         /\ \A l \in 1..(Len(st)+1) : todo[l] \in Seq(Replies) /\ after[l] \in Seq(Pieces)
         /\ \A l \in 1..Len(st) : st[l] \in Arrays /\ st[l].items \in Seq(Replies) /\ st[l].n \in Nat
<1>1. Len(st) \in Nat /\ \A l \in 1..Len(st) : st[l] \in Arrays OBVIOUS
<1>2. \A l \in 1..(Len(st)+1) : todo[l] \in Seq(Replies) /\ after[l] \in Seq(Pieces)
  BY <1>1 DEF Framed
<1>3. \A a \in Arrays : a.items \in Seq(Replies) /\ a.n \in Nat BY DEF Arrays
<1> QED BY <1>1, <1>2, <1>3

LEMMA ArraysFacts ==
  \A a \in Arrays : \A v \in Replies :
    /\ a.items \in Seq(Replies) /\ a.n \in Nat
    /\ [a EXCEPT !.items = Append(a.items, v)] = [n |-> a.n, items |-> Append(a.items, v)]
    /\ [n |-> a.n, items |-> Append(a.items, v)] \in Arrays
<1> TAKE a \in Arrays
<1> TAKE v \in Replies
<1>1. a = [n |-> a.n, items |-> a.items] /\ a.items \in Seq(Replies) /\ a.n \in Nat BY DEF Arrays
<1> DEFINE x == Append(a.items, v)
<1>2. x \in Seq(Replies) BY <1>1, AppendFacts
<1> HIDE DEF x
<1>3. [a EXCEPT !.items = x] = [n |-> a.n, items |-> x] BY DEF Arrays
<1>4. [n |-> a.n, items |-> x] \in Arrays BY <1>1, <1>2 DEF Arrays
<1> QED BY <1>1, <1>3, <1>4 DEF x

WithItem(st, v) == [st EXCEPT ![Len(st)].items = Append(@, v)]

LEMMA WithItemFacts ==
  ASSUME NEW st \in Seq(Arrays), st # <<>>, NEW v \in Replies
  PROVE  /\ WithItem(st, v) \in Seq(Arrays) /\ Len(WithItem(st, v)) = Len(st)
         /\ Len(st) \in 1..Len(st) /\ Len(st) \in Nat \ {0}
         /\ WithItem(st, v)[Len(st)] = [n |-> st[Len(st)].n, items |-> Append(st[Len(st)].items, v)]
         /\ \A l \in 1..Len(st) : l # Len(st) => WithItem(st, v)[l] = st[l]
<1> DEFINE n == Len(st)
           a == st[n]
           b == [n |-> a.n, items |-> Append(a.items, v)]
<1>1. n \in Nat /\ n # 0 /\ n \in 1..n OBVIOUS
<1>2. a \in Arrays BY <1>1
<1>3. [a EXCEPT !.items = Append(a.items, v)] = b /\ b \in Arrays BY <1>2, ArraysFacts
<1> DEFINE w == [st EXCEPT ![n] = b]
<1>4. WithItem(st, v) = w BY <1>3 DEF WithItem
<1> HIDE DEF b
<1>5. w \in Seq(Arrays) /\ Len(w) = n /\ w[n] = b /\ \A l \in 1..n : l # n => w[l] = st[l]
  BY <1>1, <1>3
<1> HIDE DEF w
<1> QED BY <1>1, <1>4, <1>5 DEF b

\* The reply that is read goes to the array that is read, or is returned.
LEMMA FramedReturn ==
  ASSUME NEW st \in Seq(Arrays), NEW se, NEW re \in Seq(Replies), NEW todo, NEW after,
         Framed(todo, after, st, se, re), todo[Len(st)+1] # <<>>,
         NEW v, v = todo[Len(st)+1][1], ~Bad[v]
  PROVE  /\ v \in Replies
         /\ \E todo2 :
              /\ todo2[Len(st)+1] = Tail(todo[Len(st)+1])
              /\ IF st = <<>> THEN Framed(todo2, after, st, se, Append(re, v))
                 ELSE Framed(todo2, after, WithItem(st, v), se, re)
<1> DEFINE n == Len(st)
           f == todo[n+1]
           todo2 == [todo EXCEPT ![n+1] = Tail(f)]
<1>1. n \in Nat /\ f \in Seq(Replies) /\ n + 1 \in 1..(n+1) BY FramedFacts
<1>2. /\ todo \in Seq(Seq(Replies)) /\ after \in Seq(Seq(Pieces)) /\ Len(todo) = n + 1 /\ Len(after) = n + 1
      /\ after[1] = <<>> /\ se = re \o todo[1]
      /\ \A l \in 1..n : Inside(st[l], todo[l], todo[l+1], after[l+1], after[l])
  BY DEF Framed
<1>3. v \in Replies /\ v = f[1] /\ Tail(f) \in Seq(Replies) BY <1>1, TailFacts
<1> HIDE DEF f
<1>4. /\ todo2 \in Seq(Seq(Replies)) /\ Len(todo2) = n + 1 /\ todo2[n+1] = Tail(f)
      /\ \A l \in 1..n : todo2[l] = todo[l]
  <2> DEFINE x == Tail(f)
             S == Seq(Replies)
  <2>1. todo \in Seq(S) /\ Len(todo) = n + 1 /\ n \in Nat /\ x \in S BY <1>1, <1>2, <1>3
  <2> HIDE DEF n, x, S
  <2> QED BY ONLY <2>1, ReplacedFacts DEF todo2, x, S
<1> HIDE DEF todo2
<1>5. CASE st = <<>>
  <2>1. n = 0 BY <1>5
  <2>2. se = re \o f BY <1>2, <2>1 DEF f
  <2>3. se = Append(re, v) \o Tail(f)
    <3>1. re \in Seq(Replies) /\ f \in Seq(Replies) /\ f # <<>> /\ v = f[1] BY <1>1, <1>3 DEF f
    <3>2. re \o f = Append(re, v) \o Tail(f) BY ONLY <3>1, MoveOne
    <3> QED BY <2>2, <3>2
  <2>4. todo2[1] = Tail(f) /\ Len(st) = 0 /\ \A l \in 1..Len(st) : FALSE BY <1>4, <2>1
  <2>5. Framed(todo2, after, st, se, Append(re, v)) BY <1>2, <1>4, <2>3, <2>4 DEF Framed
  <2> QED BY <1>3, <1>4, <1>5, <2>5 DEF f
<1>6. CASE st # <<>>
  <2> DEFINE a == st[n]
             st2 == WithItem(st, v)
  <2>1. /\ st2 \in Seq(Arrays) /\ Len(st2) = n /\ n \in 1..n
        /\ st2[n] = [n |-> a.n, items |-> Append(a.items, v)]
        /\ \A l \in 1..n : l # n => st2[l] = st[l]
    BY <1>3, <1>6, WithItemFacts
  <2>2. Inside(a, todo[n], f, after[n+1], after[n]) BY <1>2, <2>1 DEF f
  <2>3. a.items \in Seq(Replies) BY <2>1, FramedFacts
  <2>4. a.items \o f = Append(a.items, v) \o Tail(f)
    <3> DEFINE i == a.items
    <3>1. i \in Seq(Replies) /\ f \in Seq(Replies) /\ f # <<>> /\ v = f[1] BY <1>1, <1>3, <2>3 DEF f
    <3> HIDE DEF i
    <3> QED BY ONLY <3>1, MoveOne, SMTT(20) DEF i
  <2> HIDE DEF a
  <2>5. \A i \in DOMAIN Append(a.items, v) : ~Bad[Append(a.items, v)[i]]
    <3> DEFINE q == a.items
               r == Append(q, v)
    <3>1. /\ q \in Seq(Replies) /\ r \in Seq(Replies) /\ Len(r) = Len(q) + 1 /\ r[Len(q) + 1] = v
          /\ \A i \in 1..Len(q) : r[i] = q[i]
      BY <2>3, <1>3, AppendFacts
    <3>2. \A i \in DOMAIN q : ~Bad[q[i]] BY <2>2 DEF Inside
    <3> HIDE DEF q, r
    <3>3. DOMAIN q = 1..Len(q) /\ DOMAIN r = 1..(Len(q) + 1) /\ Len(q) \in Nat BY <3>1
    <3>4. ASSUME NEW i \in DOMAIN r PROVE ~Bad[r[i]]
      <4>1. i \in 1..Len(q) \/ i = Len(q) + 1 BY <3>3
      <4> QED BY <3>1, <3>2, <3>3, <4>1
    <3> QED BY <3>4 DEF q, r
  <2>6. Inside(st2[n], todo[n], Tail(f), after[n+1], after[n])
    <3> DEFINE b == [n |-> a.n, items |-> Append(a.items, v)]
    <3>1. b.n = a.n /\ b.items = Append(a.items, v) OBVIOUS
    <3> HIDE DEF b
    <3>2. Inside(b, todo[n], Tail(f), after[n+1], after[n]) BY <2>2, <2>4, <2>5, <3>1 DEF Inside
    <3> QED BY <2>1, <3>2 DEF b
  <2> HIDE DEF st2
  <2>7. ASSUME NEW l \in 1..n PROVE Inside(st2[l], todo2[l], todo2[l+1], after[l+1], after[l])
    <3>1. CASE l = n BY <1>4, <2>6, <3>1
    <3>2. CASE l # n
      <4>1. l + 1 \in 1..n BY <1>1, <3>2
      <4> QED BY <1>2, <1>4, <2>1, <3>2, <4>1
    <3> QED BY <3>1, <3>2
  <2>8. todo2[1] = todo[1]
    <3>1. 1 \in 1..n BY <1>1, <2>1
    <3> QED BY <1>4, <3>1
  <2>9. Framed(todo2, after, st2, se, re) BY <1>2, <1>4, <2>1, <2>7, <2>8 DEF Framed
  <2> QED BY <1>3, <1>4, <1>6, <2>9 DEF f, st2
<1> QED BY <1>5, <1>6

\* The items x of an array of k are to be read, and behind them comes next.
Begun(st, k, se, re, x, next) ==
  LET st2 == Append(st, [n |-> k, items |-> <<>>]) IN
  /\ st2 \in Seq(Arrays) /\ st2 # <<>>
  /\ \E todo2, after2 : /\ Framed(todo2, after2, st2, se, re)
                        /\ todo2[Len(st2)+1] = x /\ after2[Len(st2)+1] = next

\* An array is begun.
LEMMA FramedPush ==
  ASSUME NEW st \in Seq(Arrays), NEW se, NEW re, NEW todo, NEW after,
         Framed(todo, after, st, se, re), todo[Len(st)+1] # <<>>, todo[Len(st)+1][1].t = "array",
         NEW k, k = Len(todo[Len(st)+1][1].items)
  PROVE  Begun(st, k, se, re, todo[Len(st)+1][1].items, Stream(Tail(todo[Len(st)+1])) \o after[Len(st)+1])
<1> DEFINE n == Len(st)
           f == todo[n+1]
           x == f[1].items
           a == [n |-> k, items |-> <<>>]
           st2 == Append(st, a)
           next == Stream(Tail(f)) \o after[n+1]
           todo2 == Append(todo, x)
           after2 == Append(after, next)
<1>1. n \in Nat /\ f \in Seq(Replies) /\ n + 1 \in 1..(n+1) /\ after[n+1] \in Seq(Pieces) BY FramedFacts
<1>2. /\ todo \in Seq(Seq(Replies)) /\ after \in Seq(Seq(Pieces)) /\ Len(todo) = n + 1 /\ Len(after) = n + 1
      /\ after[1] = <<>> /\ se = re \o todo[1]
      /\ \A l \in 1..n : Inside(st[l], todo[l], todo[l+1], after[l+1], after[l])
  BY DEF Framed
<1>3. f[1] \in Replies /\ Tail(f) \in Seq(Replies) BY <1>1, TailFacts
<1>4. x \in Seq(Replies) /\ k \in Nat /\ k = Len(x)
  <2>1. x \in Seq(Replies) BY <1>3, RepliesFacts DEF ReplyFacts
  <2> QED BY <2>1
<1>5. a \in Arrays /\ a.n = k /\ a.items = <<>> BY <1>4 DEF Arrays
<1>6. next \in Seq(Pieces)
  <2>1. Stream(Tail(f)) \in Seq(Pieces) BY <1>3, StreamFacts
  <2> QED BY <1>1, <2>1, ConcatFacts
<1>7. Inside(a, f, x, next, after[n+1])
  <2>1. <<>> \o x = x BY <1>4, ConcatFacts
  <2>2. f # <<>> /\ f[1].t = "array" OBVIOUS
  <2> HIDE DEF f, a, x
  <2>3. \A i \in DOMAIN a.items : ~Bad[a.items[i]] BY <1>5
  <2>4. f[1].items = x BY DEF x
  <2> QED BY <1>4, <1>5, <2>1, <2>2, <2>3, <2>4 DEF Inside
<1> HIDE DEF f, x, a, next
<1>8. /\ st2 \in Seq(Arrays) /\ Len(st2) = n + 1 /\ st2[n+1] = a /\ st2 # <<>>
      /\ \A l \in 1..n : st2[l] = st[l]
  BY <1>5, AppendFacts
<1>9. /\ todo2 \in Seq(Seq(Replies)) /\ Len(todo2) = (n+1)+1 /\ todo2[(n+1)+1] = x
      /\ \A l \in 1..(n+1) : todo2[l] = todo[l]
  <2> DEFINE S == Seq(Replies)
             m == n + 1
  <2>1. todo \in Seq(S) /\ Len(todo) = m /\ x \in S BY <1>2, <1>4
  <2> HIDE DEF S, m
  <2>2. /\ Append(todo, x) \in Seq(S) /\ Len(Append(todo, x)) = Len(todo) + 1
        /\ \A l \in 1..Len(todo) : Append(todo, x)[l] = todo[l]
        /\ Append(todo, x)[Len(todo) + 1] = x
    BY ONLY <2>1, AppendFacts
  <2> QED BY <2>1, <2>2 DEF S, m
<1>10. /\ after2 \in Seq(Seq(Pieces)) /\ Len(after2) = (n+1)+1 /\ after2[(n+1)+1] = next
       /\ \A l \in 1..(n+1) : after2[l] = after[l]
  <2>1. after \in Seq(Seq(Pieces)) /\ Len(after) = n + 1 BY <1>2
  <2> HIDE DEF n
  <2> QED BY <1>6, <2>1, AppendFacts
<1> HIDE DEF st2, todo2, after2
<1>11. ASSUME NEW l \in 1..(n+1) PROVE Inside(st2[l], todo2[l], todo2[l+1], after2[l+1], after2[l])
  <2>1. CASE l = n + 1 BY <1>1, <1>7, <1>8, <1>9, <1>10, <2>1 DEF f
  <2>2. CASE l # n + 1
    <3>1. l \in 1..n /\ l + 1 \in 1..(n+1) BY <1>1, <2>2
    <3> QED BY <1>2, <1>8, <1>9, <1>10, <3>1
  <2> QED BY <2>1, <2>2
<1>12. 1 \in 1..(n+1) BY <1>1
<1>13. Framed(todo2, after2, st2, se, re)
  BY <1>2, <1>8, <1>9, <1>10, <1>11, <1>12 DEF Framed
<1>14. Begun(st, k, se, re, x, next) BY <1>8, <1>9, <1>10, <1>13 DEF Begun, st2, a
<1> QED BY <1>14 DEF x, next, f

\* v is the first reply that is to be read in the innermost array of st, the k-th
\* level, and behind it comes next.
Ended(st, k, v, se, re, next) ==
  /\ st \in Seq(Arrays) /\ Len(st) = k - 1 /\ ~Bad[v]
  /\ \E todo2, after2 : /\ Framed(todo2, after2, st, se, re)
                        /\ todo2[k] # <<>> /\ v = todo2[k][1]
                        /\ next = Stream(Tail(todo2[k])) \o after2[k]

\* An array is complete: it is the first reply that is to be read around it.
LEMMA FramedPop ==
  ASSUME NEW st \in Seq(Arrays), NEW se, NEW re, NEW todo, NEW after,
         Framed(todo, after, st, se, re), st # <<>>, todo[Len(st)+1] = <<>>
  PROVE  Ended(Front(st), Len(st), Array(Last(st).items), se, re, after[Len(st)+1])
<1> DEFINE n == Len(st)
           m == n - 1
           a == st[n]
           v == Array(a.items)
           st2 == SubSeq(st, 1, m)
           todo2 == SubSeq(todo, 1, n)
           after2 == SubSeq(after, 1, n)
<1>1. n \in Nat /\ n # 0 /\ m \in Nat /\ n = m + 1 /\ n \in 1..n /\ n \in 1..(n+1) OBVIOUS
<1>2. /\ todo \in Seq(Seq(Replies)) /\ after \in Seq(Seq(Pieces)) /\ Len(todo) = n + 1 /\ Len(after) = n + 1
      /\ after[1] = <<>> /\ se = re \o todo[1]
      /\ \A l \in 1..n : Inside(st[l], todo[l], todo[l+1], after[l+1], after[l])
  BY DEF Framed
<1>3. st2 \in Seq(Arrays) /\ Len(st2) = m /\ \A l \in 1..m : st2[l] = st[l] BY <1>1
<1>4. todo2 \in Seq(Seq(Replies)) /\ Len(todo2) = n /\ \A l \in 1..n : todo2[l] = todo[l] BY <1>1, <1>2
<1>5. after2 \in Seq(Seq(Pieces)) /\ Len(after2) = n /\ \A l \in 1..n : after2[l] = after[l] BY <1>1, <1>2
<1>6. Front(st) = st2 /\ Last(st) = a BY DEF Front, Last
<1>7. Inside(a, todo[n], <<>>, after[n+1], after[n]) BY <1>1, <1>2
<1>8. a.items \in Seq(Replies) /\ todo[n] \in Seq(Replies) BY <1>1, FramedFacts
<1> HIDE DEF a, st2, todo2, after2, m
<1>9. todo[n] # <<>> /\ v = todo[n][1]
  <2> DEFINE u == todo[n][1]
  <2>1. u \in Replies /\ todo[n] # <<>> BY <1>7, <1>8, TailFacts DEF Inside
  <2>2. u.t = "array" /\ u.items = a.items \o <<>> BY <1>7 DEF Inside
  <2>3. u.items = a.items BY <1>8, <2>2, ConcatFacts
  <2>4. ReplyFacts(u) BY <2>1, RepliesFacts
  <2> HIDE DEF u
  <2>5. u.text = <<>> /\ u = [t |-> u.t, text |-> u.text, items |-> u.items] BY <2>2, <2>4 DEF ReplyFacts
  <2>6. u = v BY <2>2, <2>3, <2>5 DEF Array, Reply
  <2> QED BY <2>1, <2>6 DEF u
<1>10. ~Bad[v]
  <2>1. v \in Replies BY <1>8, <1>9, TailFacts
  <2>2. v.t = "array" /\ v.items = a.items BY DEF Array, Reply
  <2>3. \A i \in DOMAIN a.items : ~Bad[a.items[i]] BY <1>7 DEF Inside
  <2> HIDE DEF v
  <2>4. ~IsConnectionError(v) BY <2>2 DEF IsConnectionError
  <2> QED BY <2>1, <2>2, <2>3, <2>4, BadFacts
<1> HIDE DEF v
<1>11. Framed(todo2, after2, st2, se, re)
  <2>1. ASSUME NEW l \in 1..m PROVE Inside(st2[l], todo2[l], todo2[l+1], after2[l+1], after2[l])
    <3>1. l \in 1..n /\ l + 1 \in 1..n BY <1>1
    <3> QED BY <1>2, <1>3, <1>4, <1>5, <3>1
  <2>2. 1 \in 1..n BY <1>1
  <2> QED BY <1>1, <1>2, <1>3, <1>4, <1>5, <2>1, <2>2 DEF Framed
<1>12. after[n+1] = Stream(Tail(todo[n])) \o after[n] BY <1>7 DEF Inside
<1>13. todo2[n] = todo[n] /\ after2[n] = after[n] BY <1>1, <1>4, <1>5
<1>14. st2 \in Seq(Arrays) /\ Len(st2) = n - 1 BY <1>3 DEF m
<1>15. Ended(st2, n, v, se, re, after[n+1])
  BY <1>9, <1>10, <1>11, <1>12, <1>13, <1>14 DEF Ended
<1> QED BY <1>6, <1>15 DEF v

\* If what is read next is bad, the reply that it is part of is bad.
LEMMA BadBelow ==
  ASSUME NEW st \in Seq(Arrays), NEW se, NEW re, NEW todo, NEW after,
         Framed(todo, after, st, se, re), todo[Len(st)+1] # <<>>, Bad[todo[Len(st)+1][1]]
  PROVE  todo[1] # <<>> /\ Bad[todo[1][1]]
<1> DEFINE n == Len(st)
           P == {i \in Nat : i <= n => todo[(n+1)-i] # <<>> /\ Bad[todo[(n+1)-i][1]]}
<1>1. n \in Nat BY FramedFacts
<1>2. 0 \in P BY <1>1
<1>3. ASSUME NEW i \in Nat, i \in P PROVE i + 1 \in P
  <2>1. ASSUME i + 1 <= n PROVE todo[(n+1)-(i+1)] # <<>> /\ Bad[todo[(n+1)-(i+1)][1]]
    <3> DEFINE l == n - i
               outer == todo[l]
               inner == todo[l+1]
               a == st[l]
    <3>1. l \in 1..n /\ l \in 1..(n+1) /\ l + 1 \in 1..(n+1) /\ (n+1)-i = l + 1 /\ (n+1)-(i+1) = l /\ i <= n
      BY <1>1, <2>1
    <3>2. inner # <<>> /\ Bad[inner[1]] BY <1>3, <3>1
    <3>3. Inside(a, outer, inner, after[l+1], after[l]) BY <3>1 DEF Framed
    <3>4. outer \in Seq(Replies) /\ inner \in Seq(Replies) /\ a.items \in Seq(Replies) BY <3>1, FramedFacts
    <3> HIDE DEF outer, inner, a, l
    <3>5. outer # <<>> /\ outer[1] \in Replies /\ outer[1].items = a.items \o inner
      BY <3>3, <3>4, TailFacts DEF Inside
    <3>6. \E j \in DOMAIN outer[1].items : outer[1].items[j] = inner[1]
      <4> DEFINE q == a.items
                 w == q \o inner
      <4>1. q \in Seq(Replies) BY <3>4
      <4> HIDE DEF q
      <4>2. 1 \in 1..Len(inner) BY <3>2, <3>4
      <4>3. w \in Seq(Replies) /\ Len(w) = Len(q) + Len(inner) /\ w[Len(q) + 1] = inner[1]
        BY <3>4, <4>1, <4>2, ConcatFacts
      <4>4. Len(q) \in Nat /\ Len(inner) \in Nat BY <3>4, <4>1
      <4> HIDE DEF w
      <4>5. Len(q) + 1 \in DOMAIN w BY <4>2, <4>3, <4>4
      <4> QED BY <3>5, <4>3, <4>5 DEF w, q
    <3>7. Bad[outer[1]] BY <3>2, <3>5, <3>6, BadFacts
    <3> QED BY <3>1, <3>5, <3>7 DEF outer
  <2> QED BY <2>1
<1> HIDE DEF P
<1>4. n \in P BY <1>1, <1>2, <1>3, Induction
<1>5. (n+1)-n = 1 BY <1>1
<1> QED BY <1>1, <1>4, <1>5 DEF P

-----------------------------------------------------------------------------
(* Steps of PythonParser. *)

\* What is read is returned, or kept for the array that it is in.
LEMMA ReadsReturn ==
  ASSUME NEW st \in Seq(Arrays), NEW se, NEW re \in Seq(Replies), \A i \in DOMAIN re : ~Bad[re[i]],
         NEW todo, NEW after, Framed(todo, after, st, se, re), todo[Len(st)+1] # <<>>,
         NEW v, v = todo[Len(st)+1][1], ~Bad[v], NEW k,
         NEW rest, rest = Stream(Tail(todo[Len(st)+1])) \o after[Len(st)+1]
  PROVE  /\ v \in Replies
         /\ st = <<>> => /\ Append(re, v) \in Seq(Replies)
                         /\ \A i \in DOMAIN Append(re, v) : ~Bad[Append(re, v)[i]]
                         /\ Reads("idle", st, se, Append(re, v), k, rest)
         /\ st # <<>> => /\ WithItem(st, v) \in Seq(Arrays) /\ WithItem(st, v) # <<>>
                         /\ Reads("line", WithItem(st, v), se, re, k, rest)
<1> DEFINE n == Len(st)
<1>1. v \in Replies BY FramedReturn
<1>2. PICK todo2 : /\ todo2[n+1] = Tail(todo[n+1])
                   /\ IF st = <<>> THEN Framed(todo2, after, st, se, Append(re, v))
                      ELSE Framed(todo2, after, WithItem(st, v), se, re)
  BY FramedReturn
<1>3. \A a : a # "body" => Coming(todo2[n+1], after[n+1], a, k, rest) BY <1>2 DEF Coming
<1>4. CASE st = <<>>
  <2> DEFINE r == Append(re, v)
  <2>1. /\ r \in Seq(Replies) /\ Len(r) = Len(re) + 1 /\ r[Len(re) + 1] = v
        /\ \A i \in 1..Len(re) : r[i] = re[i]
    BY <1>1, AppendFacts
  <2>2. Framed(todo2, after, st, se, r) BY <1>2, <1>4
  <2> HIDE DEF r
  <2>3. ASSUME NEW i \in DOMAIN r PROVE ~Bad[r[i]]
    <3>1. DOMAIN r = 1..(Len(re) + 1) /\ Len(re) \in Nat /\ DOMAIN re = 1..Len(re) BY <2>1
    <3>2. i \in 1..Len(re) \/ i = Len(re) + 1 BY <3>1
    <3> QED BY <2>1, <3>1, <3>2
  <2>4. Reads("idle", st, se, r, k, rest) BY <1>3, <2>2 DEF Reads
  <2> QED BY <1>1, <1>4, <2>1, <2>3, <2>4 DEF r
<1>5. CASE st # <<>>
  <2> DEFINE w == WithItem(st, v)
  <2>1. w \in Seq(Arrays) /\ Len(w) = n /\ n \in Nat \ {0} BY <1>1, <1>5, WithItemFacts
  <2>2. Framed(todo2, after, w, se, re) BY <1>2, <1>5
  <2> HIDE DEF w
  <2>3. w # <<>> BY <2>1
  <2>4. Coming(todo2[Len(w)+1], after[Len(w)+1], "line", k, rest) BY <1>3, <2>1
  <2>5. Reads("line", w, se, re, k, rest) BY <2>2, <2>3, <2>4 DEF Reads
  <2> QED BY <1>1, <1>5, <2>1, <2>3, <2>5 DEF w
<1> QED BY <1>4, <1>5

\* The array that is read is complete when nothing of it is to be read.
LEMMA CompleteFacts ==
  ASSUME NEW st \in Seq(Arrays), st # <<>>, NEW se, NEW re, NEW todo, NEW after,
         Framed(todo, after, st, se, re)
  PROVE  Len(Last(st).items) = Last(st).n <=> todo[Len(st)+1] = <<>>
<1> DEFINE n == Len(st)
           a == st[n]
           outer == todo[n]
           inner == todo[n+1]
           q == a.items
<1>1. n \in 1..n /\ n \in 1..(n+1) /\ n + 1 \in 1..(n+1) /\ Last(st) = a BY DEF Last
<1>2. Inside(a, outer, inner, after[n+1], after[n]) BY <1>1 DEF Framed
<1>3. q \in Seq(Replies) /\ inner \in Seq(Replies) BY <1>1, FramedFacts
<1>4. a.n = Len(q \o inner) BY <1>2 DEF Inside
<1> HIDE DEF inner, q
<1>5. Len(q \o inner) = Len(q) + Len(inner) BY <1>3, ConcatFacts
<1>6. Len(q) \in Nat /\ Len(inner) \in Nat /\ (Len(inner) = 0 <=> inner = <<>>) BY <1>3, EmptyFacts
<1>7. \A x, y, z \in Nat : z = x + y => (x = z <=> y = 0) OBVIOUS
<1>8. Len(q) = a.n <=> Len(inner) = 0 BY <1>4, <1>5, <1>6, <1>7
<1> QED BY <1>1, <1>6, <1>8 DEF q, inner

LEMMA TypeFacts == TypeOK <=> /\ BufferOK
                              /\ parser \in {"python", "hiredis"} /\ at \in Steps /\ length \in Nat
                              /\ stack \in Seq(Arrays) /\ next_response \in Replies \cup {NoReply}
                              /\ asked \in Seq(Replies) /\ sent \in Seq(Replies) /\ returned \in Seq(Replies)
                              /\ ready \in {"unknown", "yes", "no"}
BY DEF TypeOK, BufferOK, Arrays

\* Where a line is read, it is the first one of a reply that Redis sent.
LEMMA LineNext ==
  ASSUME TypeOK, PythonInv, at = "line", ~Complete
  PROVE  \E todo, after, first, next, v :
           /\ Framed(todo, after, stack, sent, returned)
           /\ first = todo[Len(stack)+1] /\ next = after[Len(stack)+1]
           /\ first \in Seq(Replies) /\ next \in Seq(Pieces)
           /\ first # <<>> /\ v = first[1] /\ v \in Replies /\ Tail(first) \in Seq(Replies)
           /\ Stream(Tail(first)) \o next \in Seq(Pieces)
           /\ Rest = <<HeadOf(v), CRLF>> \o (Behind(v) \o (Stream(Tail(first)) \o next))
           /\ v.t \notin {"bulk", "array"} =>
                Rest = <<HeadOf(v), CRLF>> \o (Stream(Tail(first)) \o next)
<1>1. stack \in Seq(Arrays) BY TypeFacts
<1>2. PICK todo, after :
        /\ Framed(todo, after, stack, sent, returned)
        /\ at = "line" /\ stack = <<>> => todo[1] # <<>>
        /\ Coming(todo[Len(stack)+1], after[Len(stack)+1], at, length, Rest)
  BY DEF PythonInv, Reads
<1> DEFINE n == Len(stack)
           first == todo[n+1]
           next == after[n+1]
           v == first[1]
           more == Stream(Tail(first)) \o next
<1>3. n + 1 \in 1..(n+1) /\ first \in Seq(Replies) /\ next \in Seq(Pieces) BY <1>1, <1>2, FramedFacts
<1>4. first # <<>>
  <2>1. CASE stack = <<>> BY <1>2, <2>1
  <2>2. CASE stack # <<>> BY <1>1, <1>2, <2>2, CompleteFacts DEF Complete
  <2> QED BY <2>1, <2>2
<1>5. Rest = Stream(first) \o next BY <1>2 DEF Coming
<1> HIDE DEF first, next
<1>6. v \in Replies /\ Tail(first) \in Seq(Replies) BY <1>3, <1>4, TailFacts
<1> DEFINE s == Sent[v]
           t == Stream(Tail(first))
           l == <<HeadOf(v), CRLF>>
           b == Behind(v)
<1>7. Stream(first) = s \o t /\ t \in Seq(Pieces) BY <1>3, <1>4, <1>6, StreamFacts
<1>8. s = l \o b /\ b \in Seq(Pieces) /\ HeadOf(v) \in Pieces /\ CRLF \in Pieces /\ (v.t \notin {"bulk", "array"} => s = l)
  BY <1>6, LineFirst, CRLFFacts
<1>9. l \in Seq(Pieces) BY <1>8
<1> HIDE DEF s, t, l, b, v
<1>10. s \in Seq(Pieces) BY <1>8, <1>9, ConcatFacts
<1>11. (s \o t) \o next = s \o (t \o next)
  <2>1. s \in Seq(Pieces) /\ t \in Seq(Pieces) /\ next \in Seq(Pieces) BY <1>3, <1>7, <1>10
  <2> QED BY ONLY <2>1, Associative
<1> DEFINE m == t \o next
<1>12. m \in Seq(Pieces) BY <1>3, <1>7, ConcatFacts
<1> HIDE DEF m
<1>13. (l \o b) \o m = l \o (b \o m) BY <1>8, <1>9, <1>12, Associative
<1>14. Rest = s \o m BY <1>5, <1>7, <1>11 DEF m
<1>15. Rest = l \o (b \o m) BY <1>8, <1>13, <1>14
<1>16. v.t \notin {"bulk", "array"} => Rest = l \o m BY <1>8, <1>14
<1> QED BY <1>2, <1>3, <1>4, <1>6, <1>12, <1>15, <1>16 DEF first, next, v, l, b, m, t

\* The connection is given up for a reason.
Cause == Reading /\ at' = "closed" => RecvFails \/ Bad[sent[Len(returned) + 1]]

LEMMA ReadingFacts ==
  ASSUME ParserInv
  PROVE  /\ TypeOK /\ BufferOK /\ asked = sent
         /\ at # "idle" => ready = "unknown"
         /\ at \in {"line", "body"} => parser = "python"
         /\ at = "gets" => parser = "hiredis"
         /\ parser = "python" => PythonInv
         /\ parser = "hiredis" => HiredisInv
BY TypeFacts DEF ParserInv, SessionInv, PythonInv, HiredisInv, TypeOK

\* While replies are read, can_read was not the last call.
LEMMA SessionKeeps ==
  ASSUME asked' = sent', ready' \in {"unknown", "yes"}, ready' = "yes" => at' = "idle", at' # "closed"
  PROVE  SessionInv'
BY DEF SessionInv, NothingIsHidden

\* What is returned is what comes first.
LEMMA PythonReturn ==
  ASSUME ParserInv, parser = "python",
         NEW todo, NEW after, Framed(todo, after, stack, sent, returned), todo[Len(stack)+1] # <<>>,
         NEW v, v = todo[Len(stack)+1][1], ~Bad[v], Return(v),
         Rest' = Stream(Tail(todo[Len(stack)+1])) \o after[Len(stack)+1],
         BufferOK', length' \in Nat, at \in {"line", "body"},
         UNCHANGED <<parser, next_response, ready, sessionVars>>
  PROVE  ParserInv' /\ at' # "closed"
<1>1. /\ TypeOK /\ PythonInv /\ ready = "unknown" /\ asked = sent
      /\ stack \in Seq(Arrays) /\ returned \in Seq(Replies)
      /\ \A i \in DOMAIN returned : ~Bad[returned[i]]
  BY ReadingFacts, TypeFacts DEF PythonInv
<1>2. UNCHANGED <<parser, next_response, ready, asked, sent>> BY DEF sessionVars
<1> DEFINE rest == Rest'
<1>3. rest = Stream(Tail(todo[Len(stack)+1])) \o after[Len(stack)+1] OBVIOUS
<1> HIDE DEF rest
<1>4. /\ v \in Replies
      /\ stack = <<>> => /\ Append(returned, v) \in Seq(Replies)
                         /\ \A i \in DOMAIN Append(returned, v) : ~Bad[Append(returned, v)[i]]
                         /\ Reads("idle", stack, sent, Append(returned, v), length', rest)
      /\ stack # <<>> => /\ WithItem(stack, v) \in Seq(Arrays) /\ WithItem(stack, v) # <<>>
                         /\ Reads("line", WithItem(stack, v), sent, returned, length', rest)
  <2> DEFINE k == length'
  <2> HIDE DEF k
  <2>1. /\ v \in Replies
        /\ stack = <<>> => /\ Append(returned, v) \in Seq(Replies)
                           /\ \A i \in DOMAIN Append(returned, v) : ~Bad[Append(returned, v)[i]]
                           /\ Reads("idle", stack, sent, Append(returned, v), k, rest)
        /\ stack # <<>> => /\ WithItem(stack, v) \in Seq(Arrays) /\ WithItem(stack, v) # <<>>
                           /\ Reads("line", WithItem(stack, v), sent, returned, k, rest)
    BY <1>1, <1>3, ReadsReturn
  <2> QED BY <2>1 DEF k
<1>5. CASE stack = <<>>
  <2>1. returned' = Append(returned, v) /\ at' = "idle" /\ stack' = stack BY <1>5 DEF Return
  <2>2. TypeOK' BY <1>1, <1>2, <1>4, <1>5, <2>1, TypeFacts DEF TypeOK, BufferOK, Arrays, Steps
  <2>3. SessionInv' BY <1>1, <1>2, <2>1, SessionKeeps
  <2>4. Reads(at', stack', sent', returned', length', Rest')
    BY <1>2, <1>4, <1>5, <2>1 DEF rest
  <2>5. PythonInv' BY <1>1, <1>2, <1>4, <1>5, <2>1, <2>4 DEF PythonInv
  <2> QED BY <1>2, <2>1, <2>2, <2>3, <2>5 DEF ParserInv
<1>6. CASE stack # <<>>
  <2>1. returned' = returned /\ at' = "line" /\ stack' = WithItem(stack, v) BY <1>6 DEF Return, WithItem
  <2>2. TypeOK' BY <1>1, <1>2, <1>4, <1>6, <2>1, TypeFacts DEF TypeOK, BufferOK, Arrays, Steps
  <2>3. SessionInv' BY <1>1, <1>2, <2>1, SessionKeeps
  <2>4. Reads(at', stack', sent', returned', length', Rest')
    BY <1>2, <1>4, <1>6, <2>1 DEF rest
  <2>5. PythonInv' BY <1>1, <1>2, <2>1, <2>4 DEF PythonInv
  <2> QED BY <1>2, <2>1, <2>2, <2>3, <2>5 DEF ParserInv
<1> QED BY <1>5, <1>6

LEMMA ReadLineKeeps ==
  ASSUME ParserInv, ReadLine
  PROVE  ParserInv' /\ at' # "closed"
<1>1. /\ at = "line" /\ ~Complete /\ RestOfLine > 1 /\ ~IsConnectionError(buffer[bytes_read + 1])
      /\ Consume(RestOfLine)
      /\ UNCHANGED <<parser, wire, next_response, ready, asked, sent>>
  BY DEF ReadLine, sessionVars
<1>2. /\ TypeOK /\ BufferOK /\ PythonInv /\ parser = "python" /\ ready = "unknown" /\ asked = sent
      /\ stack \in Seq(Arrays) /\ returned \in Seq(Replies) /\ length \in Nat
  BY <1>1, ReadingFacts, TypeFacts
<1>3. PICK todo, after, first, next, v :
        /\ Framed(todo, after, stack, sent, returned)
        /\ first = todo[Len(stack)+1] /\ next = after[Len(stack)+1]
        /\ first \in Seq(Replies) /\ next \in Seq(Pieces)
        /\ first # <<>> /\ v = first[1] /\ v \in Replies /\ Tail(first) \in Seq(Replies)
        /\ Stream(Tail(first)) \o next \in Seq(Pieces)
        /\ Rest = <<HeadOf(v), CRLF>> \o (Behind(v) \o (Stream(Tail(first)) \o next))
        /\ v.t \notin {"bulk", "array"} =>
             Rest = <<HeadOf(v), CRLF>> \o (Stream(Tail(first)) \o next)
  BY <1>1, <1>2, LineNext
<1> DEFINE l == <<HeadOf(v), CRLF>>
           m == Stream(Tail(first)) \o next
           b == Behind(v)
           r == b \o m
<1>4. HeadOf(v) \in Pieces /\ HeadOf(v) # CRLF /\ b \in Seq(Pieces) BY <1>3, LineFirst
<1>5. m \in Seq(Pieces) BY <1>3
<1>6. r \in Seq(Pieces) BY <1>4, <1>5, ConcatFacts
<1>7. /\ RestOfLine = 2 /\ 2 <= Unread /\ buffer[bytes_read + 1] = HeadOf(v)
      /\ SubSeq(buffer, bytes_read + 1, bytes_read + 2) = l
  <2>1. Rest = l \o r BY <1>3
  <2> HIDE DEF r, b, m
  <2>2. /\ RestOfLine \in {0, 2}
        /\ RestOfLine = 2 => /\ 2 <= Unread /\ buffer[bytes_read + 1] = HeadOf(v)
                             /\ SubSeq(buffer, bytes_read + 1, bytes_read + 2) = l
    BY <1>2, <1>4, <1>6, <2>1, RestOfLineFacts
  <2> QED BY <1>1, <2>2
<1>8. BufferOK' /\ l \in Seq(Pieces) /\ Rest = l \o Rest'
  <2>1. 2 \in Nat /\ Consume(2) /\ wire' = wire BY <1>1, <1>7
  <2> DEFINE new == SubSeq(buffer, bytes_read + 1, bytes_read + 2)
  <2>2. BufferOK' /\ new \in Seq(Pieces) /\ Rest = new \o Rest' BY <1>2, <1>7, <2>1, ConsumeFacts
  <2> HIDE DEF new
  <2>3. new = l BY <1>7 DEF new
  <2> QED BY <2>2, <2>3
<1>9. Rest' \in Seq(Pieces)
  <2>1. Ahead' \in Seq(Pieces)
    <3> DEFINE q == buffer'
               i == bytes_read'
    <3>1. q \in Seq(Pieces) /\ i \in 0..Len(q) BY <1>8 DEF BufferOK
    <3> HIDE DEF q, i
    <3>2. SubSeq(q, i + 1, Len(q)) \in Seq(Pieces) BY <3>1, SplitFacts
    <3> QED BY <3>2 DEF Ahead, q, i
  <2>2. wire' \in Seq(Pieces) BY <1>8 DEF BufferOK
  <2> QED BY <2>1, <2>2, ConcatFacts DEF Rest
<1>10. Rest' = r /\ (v.t \notin {"bulk", "array"} => Rest' = m)
  <2> DEFINE x == Rest'
  <2>1. Rest = l \o x /\ x \in Seq(Pieces) /\ Rest = l \o r /\ (v.t \notin {"bulk", "array"} => Rest = l \o m)
    BY <1>3, <1>8, <1>9
  <2> HIDE DEF x, r, m, l
  <2>2. x = r BY <1>6, <1>8, <2>1, Cancel
  <2>3. ASSUME v.t \notin {"bulk", "array"} PROVE x = m BY <1>5, <1>8, <2>1, <2>3, Cancel
  <2> QED BY <2>2, <2>3 DEF x
<1>11. HeadOf(v).t = v.t /\ HeadOf(v).n = IF v.t = "bulk" THEN Len(v.text) ELSE Len(v.items)
  BY DEF HeadOf
<1>12. ReplyFacts(v) BY <1>3, RepliesFacts
<1>13. v.text \in Seq(Pieces) /\ v.items \in Seq(Replies) BY <1>12 DEF ReplyFacts
<1>14. CASE v.t = "bulk"
  <2>1. at' = "body" /\ length' = Len(v.text) /\ stack' = stack /\ returned' = returned
    BY <1>7, <1>11, <1>14 DEF ReadLine
  <2>2. length' \in Nat BY <1>13, <2>1
  <2>3. TypeOK' BY <1>1, <1>2, <1>8, <2>1, <2>2, TypeFacts DEF TypeOK, BufferOK, Arrays, Steps
  <2>4. SessionInv' BY <1>1, <1>2, <2>1, SessionKeeps
  <2>5. Coming(first, next, at', length', Rest')
    BY <1>3, <1>10, <1>14, <2>1 DEF Coming, Behind
  <2>6. Reads(at', stack', sent', returned', length', Rest')
    BY <1>1, <1>3, <2>1, <2>5 DEF Reads
  <2>7. PythonInv' BY <1>1, <1>2, <2>1, <2>6 DEF PythonInv
  <2> QED BY <1>1, <1>2, <2>1, <2>3, <2>4, <2>7 DEF ParserInv
<1>15. CASE v.t = "array"
  <2> DEFINE k == Len(v.items)
             st2 == Append(stack, [n |-> k, items |-> <<>>])
  <2>1. at' = at /\ length' = length /\ stack' = st2 /\ returned' = returned
    BY <1>7, <1>11, <1>15 DEF ReadLine
  <2>2. Begun(stack, k, sent, returned, v.items, m)
    <3>1. k = Len(todo[Len(stack)+1][1].items) /\ todo[Len(stack)+1] # <<>> /\ todo[Len(stack)+1][1].t = "array"
      BY <1>3, <1>15
    <3>2. stack \in Seq(Arrays) /\ Framed(todo, after, stack, sent, returned) BY <1>2, <1>3
    <3> HIDE DEF k
    <3>3. Begun(stack, k, sent, returned, todo[Len(stack)+1][1].items,
                Stream(Tail(todo[Len(stack)+1])) \o after[Len(stack)+1])
      BY ONLY <3>1, <3>2, FramedPush
    <3> QED BY <1>3, <3>3
  <2>3. PICK todo2, after2 : /\ Framed(todo2, after2, st2, sent, returned)
                             /\ todo2[Len(st2)+1] = v.items /\ after2[Len(st2)+1] = m
    BY <2>2 DEF Begun
  <2>4. st2 \in Seq(Arrays) /\ st2 # <<>> BY <2>2 DEF Begun
  <2> HIDE DEF st2, k, m
  <2>5. TypeOK' BY <1>1, <1>2, <1>8, <2>1, <2>4, TypeFacts DEF TypeOK, BufferOK, Arrays, Steps
  <2>6. SessionInv' BY <1>1, <1>2, <2>1, SessionKeeps
  <2>7. Coming(v.items, m, "line", length, Rest') BY <1>10, <1>15 DEF Coming, Behind
  <2>8. Reads("line", st2, sent, returned, length, Rest')
    BY <2>3, <2>4, <2>7 DEF Reads
  <2>9. Reads(at', stack', sent', returned', length', Rest') BY <1>1, <2>1, <2>8
  <2>10. PythonInv' BY <1>1, <1>2, <2>1, <2>9 DEF PythonInv
  <2> QED BY <1>1, <1>2, <2>1, <2>5, <2>6, <2>10 DEF ParserInv
<1>16. CASE v.t \notin {"bulk", "array"}
  <2>1. v = Reply(v.t, <<>>, <<>>) BY <1>3, <1>16, LineFirst
  <2>2. Return(v) /\ length' = length BY <1>7, <1>11, <1>16, <2>1 DEF ReadLine
  <2>3. ~Bad[v]
    <3>1. ~IsConnectionError(v) BY <1>1, <1>7, <1>11 DEF IsConnectionError
    <3>2. v.items = <<>> BY <1>12, <1>16 DEF ReplyFacts
    <3>3. v \in Replies BY <1>3
    <3> QED BY <3>1, <3>2, <3>3, BadFacts
  <2>4. Rest' = Stream(Tail(todo[Len(stack)+1])) \o after[Len(stack)+1] BY <1>3, <1>10, <1>16
  <2>5. UNCHANGED <<parser, next_response, ready, sessionVars>> BY <1>1 DEF sessionVars
  <2>6. length' \in Nat /\ at \in {"line", "body"} /\ todo[Len(stack)+1] # <<>> /\ v = todo[Len(stack)+1][1]
    BY <1>1, <1>2, <1>3, <2>2
  <2> QED BY <1>2, <1>3, <1>8, <2>2, <2>3, <2>4, <2>5, <2>6, PythonReturn
<1> QED BY <1>14, <1>15, <1>16

\* What is left of the buffer and of the wire are sequences.
LEMMA RestFacts == BufferOK' => Rest' \in Seq(Pieces)
<1> DEFINE q == buffer'
           i == bytes_read'
           w == wire'
<1>1. ASSUME BufferOK' PROVE Rest' \in Seq(Pieces)
  <2>1. q \in Seq(Pieces) /\ i \in 0..Len(q) /\ w \in Seq(Pieces) BY <1>1 DEF BufferOK
  <2>2. Rest' = SubSeq(q, i + 1, Len(q)) \o w BY DEF Rest, Ahead
  <2> HIDE DEF q, i, w
  <2> DEFINE a == SubSeq(q, i + 1, Len(q))
  <2>3. a \in Seq(Pieces) BY <2>1, SplitFacts
  <2> HIDE DEF a
  <2>4. a \o w \in Seq(Pieces) BY <2>1, <2>3, ConcatFacts
  <2> QED BY <2>2, <2>4 DEF a
<1> QED BY <1>1

LEMMA ReadBodyKeeps ==
  ASSUME ParserInv, ReadBody
  PROVE  ParserInv' /\ at' # "closed"
<1> DEFINE text == SubSeq(buffer, bytes_read + 1, bytes_read + length)
<1>1. /\ at = "body" /\ length + 1 <= Unread /\ Consume(length + 1) /\ length' = 0
      /\ Return(Reply("bulk", text, <<>>))
      /\ UNCHANGED <<parser, wire, next_response, ready, asked, sent>>
  BY DEF ReadBody, BodyLength, sessionVars
<1>2. /\ TypeOK /\ BufferOK /\ PythonInv /\ parser = "python" /\ ready = "unknown" /\ asked = sent
      /\ stack \in Seq(Arrays) /\ returned \in Seq(Replies) /\ length \in Nat
  BY <1>1, ReadingFacts, TypeFacts
<1>3. PICK todo, after :
        /\ Framed(todo, after, stack, sent, returned)
        /\ Coming(todo[Len(stack)+1], after[Len(stack)+1], at, length, Rest)
  BY <1>2 DEF PythonInv, Reads
<1> DEFINE n == Len(stack)
           first == todo[n+1]
           next == after[n+1]
           v == first[1]
           m == Stream(Tail(first)) \o next
           e == <<CRLF>>
<1>4. n + 1 \in 1..(n+1) /\ first \in Seq(Replies) /\ next \in Seq(Pieces) BY <1>2, <1>3, FramedFacts
<1>5. /\ first # <<>> /\ v.t = "bulk" /\ length = Len(v.text)
      /\ Rest = (v.text \o e) \o m
  BY <1>1, <1>3 DEF Coming
<1>6. v \in Replies /\ Tail(first) \in Seq(Replies) BY <1>4, <1>5, TailFacts
<1>7. ReplyFacts(v) BY <1>6, RepliesFacts
<1>8. v.text \in Seq(Pieces) /\ v.items = <<>> /\ v = Reply("bulk", v.text, <<>>)
  BY <1>5, <1>7 DEF ReplyFacts, Reply
<1>9. Stream(Tail(first)) \in Seq(Pieces) BY <1>6, StreamFacts
<1>10. m \in Seq(Pieces) BY <1>4, <1>9, ConcatFacts
<1>11. e \in Seq(Pieces) /\ Len(e) = 1 BY CRLFFacts
<1> DEFINE new == SubSeq(buffer, bytes_read + 1, bytes_read + (length + 1))
<1>12. BufferOK' /\ new \in Seq(Pieces) /\ Len(new) = length + 1 /\ Rest = new \o Rest'
  <2>1. length + 1 \in Nat /\ wire' = wire BY <1>1, <1>2
  <2> DEFINE k == length + 1
  <2> HIDE DEF k
  <2>2. k \in Nat /\ k <= Unread /\ Consume(k) BY <1>1, <2>1 DEF k
  <2>3. LET x == SubSeq(buffer, bytes_read + 1, bytes_read + k) IN
        BufferOK' /\ x \in Seq(Pieces) /\ Len(x) = k /\ Rest = x \o Rest'
    BY <1>2, <2>1, <2>2, ConsumeFacts
  <2> QED BY <2>3 DEF k
<1>13. Rest' \in Seq(Pieces) BY <1>12, RestFacts
<1> DEFINE x == Rest'
           q == v.text
<1>14. new = q \o e /\ x = m
  <2>1. q \in Seq(Pieces) /\ Len(q) = length /\ Rest = (q \o e) \o m /\ Rest = new \o x /\ x \in Seq(Pieces)
    BY <1>5, <1>8, <1>12, <1>13
  <2> HIDE DEF x, q, m, e, new
  <2> DEFINE c == q \o e
  <2>2. c \in Seq(Pieces) /\ Len(c) = length + 1
    <3>1. c \in Seq(Pieces) /\ Len(c) = Len(q) + Len(e) BY ONLY <1>11, <2>1, ConcatFacts
    <3> QED BY <1>11, <2>1, <3>1
  <2> HIDE DEF c
  <2>3. new \o x = c \o m BY <2>1 DEF c
  <2>4. new = c /\ x = m BY <1>10, <1>12, <2>1, <2>2, <2>3, Cancel
  <2> QED BY <2>4 DEF c
<1>15. text = q
  <2> DEFINE i == bytes_read
  <2>1. i \in Nat /\ Len(buffer) \in Nat /\ buffer \in Seq(Pieces) /\ i + (length + 1) <= Len(buffer)
    BY <1>1, <1>2, AheadFacts DEF Unread, BufferOK
  <2>2. text \in Seq(Pieces) /\ Len(text) = length /\ \A j \in 1..length : text[j] = buffer[i + j]
    BY <1>2, <2>1
  <2>3. \A j \in 1..(length+1) : new[j] = buffer[i + j] BY <1>2, <2>1
  <2>4. q \in Seq(Pieces) /\ Len(q) = length BY <1>5, <1>8
  <2> HIDE DEF q, e, new, text
  <2>5. \A j \in 1..Len(q) : (q \o e)[j] = q[j] BY <1>11, <2>4, ConcatFacts
  <2>6. ASSUME NEW j \in 1..length PROVE text[j] = q[j]
    <3>1. j \in 1..Len(q) /\ j \in 1..(length+1) BY <1>2, <2>4
    <3> QED BY <1>14, <2>2, <2>3, <2>5, <3>1
  <2> QED BY <2>2, <2>4, <2>6, SameFacts
<1>16. Return(v) BY <1>1, <1>8, <1>15
<1>17. ~Bad[v]
  <2>1. ~IsConnectionError(v) BY <1>5 DEF IsConnectionError
  <2> QED BY <1>6, <1>8, <2>1, BadFacts
<1>18. Rest' = Stream(Tail(todo[Len(stack)+1])) \o after[Len(stack)+1] BY <1>14
<1>19. /\ UNCHANGED <<parser, next_response, ready, sessionVars>>
       /\ length' \in Nat /\ at \in {"line", "body"} /\ todo[Len(stack)+1] # <<>>
       /\ v = todo[Len(stack)+1][1]
  BY <1>1, <1>5 DEF sessionVars
<1> HIDE DEF v
<1> QED BY <1>2, <1>3, <1>12, <1>16, <1>17, <1>18, <1>19, PythonReturn

LEMMA EndArrayKeeps ==
  ASSUME ParserInv, EndArray
  PROVE  ParserInv' /\ at' # "closed"
<1> DEFINE v == Array(Last(stack).items)
           st == Front(stack)
<1>1. /\ at = "line" /\ stack # <<>> /\ Len(Last(stack).items) = Last(stack).n
      /\ UNCHANGED <<parser, wire, buffer, bytes_written, bytes_read, length, next_response, ready, asked, sent>>
  BY DEF EndArray, Complete, bufferVars, sessionVars
<1>2. IF Len(stack) = 1
      THEN returned' = Append(returned, v) /\ at' = "idle" /\ stack' = <<>>
      ELSE stack' = [st EXCEPT ![Len(stack) - 1].items = Append(@, v)] /\ returned' = returned /\ at' = at
  BY DEF EndArray, Array
<1>3. /\ TypeOK /\ BufferOK /\ PythonInv /\ parser = "python" /\ ready = "unknown" /\ asked = sent
      /\ stack \in Seq(Arrays) /\ returned \in Seq(Replies) /\ length \in Nat
      /\ \A i \in DOMAIN returned : ~Bad[returned[i]]
  BY <1>1, ReadingFacts, TypeFacts DEF PythonInv
<1>4. PICK todo, after :
        /\ Framed(todo, after, stack, sent, returned)
        /\ Coming(todo[Len(stack)+1], after[Len(stack)+1], at, length, Rest)
  BY <1>3 DEF PythonInv, Reads
<1>5. todo[Len(stack)+1] = <<>> BY <1>1, <1>3, <1>4, CompleteFacts
<1>6. Ended(st, Len(stack), v, sent, returned, after[Len(stack)+1])
  BY <1>1, <1>3, <1>4, <1>5, FramedPop
<1>7. st \in Seq(Arrays) /\ Len(st) = Len(stack) - 1 /\ ~Bad[v] BY <1>6 DEF Ended
<1>8. PICK todo2, after2 :
           /\ Framed(todo2, after2, st, sent, returned)
           /\ todo2[Len(stack)] # <<>> /\ v = todo2[Len(stack)][1]
           /\ after[Len(stack)+1] = Stream(Tail(todo2[Len(stack)])) \o after2[Len(stack)]
  BY <1>6 DEF Ended
<1>9. Len(stack) \in Nat \ {0} /\ Len(st) + 1 = Len(stack) /\ (Len(stack) = 1 <=> st = <<>>)
  <2>1. Len(stack) \in Nat \ {0} BY <1>1, <1>3, EmptyFacts
  <2>2. Len(st) = 0 <=> st = <<>> BY <1>7, EmptyFacts
  <2> QED BY <1>7, <2>1, <2>2
<1>10. Rest = Stream(Tail(todo2[Len(st)+1])) \o after2[Len(st)+1]
  <2> DEFINE next == after[Len(stack)+1]
  <2>1. next \in Seq(Pieces) BY <1>3, <1>4, <1>9, FramedFacts
  <2>2. Rest = Stream(<<>>) \o next BY <1>1, <1>4, <1>5 DEF Coming
  <2>3. Rest = next BY <2>1, <2>2, StreamFacts, ConcatFacts
  <2> QED BY <1>8, <1>9, <2>3
<1> HIDE DEF v, st
<1>11. /\ v \in Replies
       /\ st = <<>> => /\ Append(returned, v) \in Seq(Replies)
                       /\ \A i \in DOMAIN Append(returned, v) : ~Bad[Append(returned, v)[i]]
                       /\ Reads("idle", st, sent, Append(returned, v), length, Rest)
       /\ st # <<>> => /\ WithItem(st, v) \in Seq(Arrays) /\ WithItem(st, v) # <<>>
                       /\ Reads("line", WithItem(st, v), sent, returned, length, Rest)
  <2>1. todo2[Len(st)+1] # <<>> /\ v = todo2[Len(st)+1][1] BY <1>8, <1>9
  <2> QED BY <1>3, <1>8, <1>10, <1>7, <2>1, ReadsReturn
<1>12. Rest' = Rest /\ BufferOK' BY <1>1, <1>3 DEF Rest, Ahead, BufferOK
<1>13. CASE st = <<>>
  <2>1. returned' = Append(returned, v) /\ at' = "idle" /\ stack' = st BY <1>2, <1>9, <1>13
  <2>2. TypeOK' BY <1>1, <1>3, <1>7, <1>11, <1>12, <1>13, <2>1, TypeFacts DEF TypeOK, BufferOK, Arrays, Steps
  <2>3. SessionInv' BY <1>1, <1>3, <2>1, SessionKeeps
  <2>4. Reads(at', stack', sent', returned', length', Rest')
    BY <1>1, <1>11, <1>12, <1>13, <2>1
  <2>5. PythonInv' BY <1>1, <1>3, <1>11, <1>13, <2>1, <2>4 DEF PythonInv
  <2> QED BY <1>1, <1>3, <2>1, <2>2, <2>3, <2>5 DEF ParserInv
<1>14. CASE st # <<>>
  <2>1. returned' = returned /\ at' = "line" /\ stack' = WithItem(st, v)
    BY <1>1, <1>2, <1>7, <1>9, <1>14 DEF WithItem
  <2>2. TypeOK' BY <1>1, <1>3, <1>11, <1>12, <1>14, <2>1, TypeFacts DEF TypeOK, BufferOK, Arrays, Steps
  <2>3. SessionInv' BY <1>1, <1>3, <2>1, SessionKeeps
  <2>4. Reads(at', stack', sent', returned', length', Rest')
    BY <1>1, <1>11, <1>12, <1>14, <2>1
  <2>5. PythonInv' BY <1>1, <1>3, <2>1, <2>4 DEF PythonInv
  <2> QED BY <1>1, <1>3, <2>1, <2>2, <2>3, <2>5 DEF ParserInv
<1> QED BY <1>13, <1>14

LEMMA DisconnectKeeps ==
  ASSUME ParserInv, Disconnect
  PROVE  ParserInv'
<1>1. /\ buffer' = <<>> /\ bytes_written' = 0 /\ bytes_read' = 0 /\ next_response' = NoReply
      /\ at' = "closed" /\ length' = 0 /\ stack' = <<>> /\ wire' = <<>>
      /\ asked' = <<>> /\ sent' = <<>> /\ returned' = <<>> /\ ready' = "unknown" /\ parser' = parser
  BY DEF Disconnect, CloseBuffer, ForgetResponse
<1>2. TypeOK /\ parser \in {"python", "hiredis"} BY ReadingFacts, TypeFacts
<1>3. TypeOK' BY <1>1, <1>2 DEF TypeOK, Steps
<1>4. SessionInv' BY <1>1 DEF SessionInv, NothingIsHidden
<1>5. Rest' = <<>>
  <2>1. SubSeq(<<>>, 0 + 1, Len(<<>>)) = <<>> /\ <<>> \o <<>> = <<>> OBVIOUS
  <2> QED BY <1>1, <2>1 DEF Rest, Ahead
<1>6. CASE parser = "python"
  <2> DEFINE todo == <<(<<>>)>>
  <2>1. /\ todo \in Seq(Seq(Replies)) /\ todo \in Seq(Seq(Pieces)) /\ Len(todo) = 1 /\ todo[1] = <<>>
        /\ Len(<<>>) = 0 /\ <<>> = <<>> \o <<>> /\ \A l \in 1..0 : FALSE
    OBVIOUS
  <2> HIDE DEF todo
  <2>2. Framed(todo, todo, <<>>, <<>>, <<>>) BY <2>1 DEF Framed
  <2>3. Coming(<<>>, <<>>, "closed", 0, <<>>)
    <3>1. <<>> = Stream(<<>>) \o <<>> BY <2>1, StreamFacts
    <3> QED BY <3>1 DEF Coming
  <2>4. todo[Len(<<>>)+1] = <<>> BY <2>1
  <2>5. Reads("closed", <<>>, <<>>, <<>>, 0, <<>>) BY <2>2, <2>3, <2>4 DEF Reads
  <2>6. PythonInv' BY <1>1, <1>5, <2>5 DEF PythonInv
  <2> QED BY <1>1, <1>3, <1>4, <1>6, <2>6 DEF ParserInv
<1>7. CASE parser # "python"
  <2>1. <<>> \in Seq(Replies) /\ <<>> = <<>> \o <<>> OBVIOUS
  <2>2. ComingWhole(<<>>, NoReply, <<>>) BY StreamFacts DEF ComingWhole
  <2>3. HiredisInv' BY <1>1, <1>5, <2>1, <2>2 DEF HiredisInv
  <2> QED BY <1>1, <1>3, <1>4, <1>7, <2>3 DEF ParserInv
<1> QED BY <1>6, <1>7

\* Only a bad reply is raised.
LEMMA RaiseKeeps ==
  ASSUME ParserInv, RaiseConnectionError
  PROVE  ParserInv' /\ Bad[sent[Len(returned) + 1]]
<1>1. /\ at = "line" /\ ~Complete /\ Disconnect
      /\ \/ RestOfLine = 1
         \/ RestOfLine > 1 /\ IsConnectionError(buffer[bytes_read + 1])
  BY DEF RaiseConnectionError
<1>2. TypeOK /\ BufferOK /\ PythonInv /\ stack \in Seq(Arrays) /\ returned \in Seq(Replies)
  BY <1>1, ReadingFacts, TypeFacts
<1>3. PICK todo, after, first, next, v :
        /\ Framed(todo, after, stack, sent, returned)
        /\ first = todo[Len(stack)+1] /\ next = after[Len(stack)+1]
        /\ first \in Seq(Replies) /\ next \in Seq(Pieces)
        /\ first # <<>> /\ v = first[1] /\ v \in Replies /\ Tail(first) \in Seq(Replies)
        /\ Stream(Tail(first)) \o next \in Seq(Pieces)
        /\ Rest = <<HeadOf(v), CRLF>> \o (Behind(v) \o (Stream(Tail(first)) \o next))
        /\ v.t \notin {"bulk", "array"} =>
             Rest = <<HeadOf(v), CRLF>> \o (Stream(Tail(first)) \o next)
  BY <1>1, <1>2, LineNext
<1> DEFINE m == Stream(Tail(first)) \o next
           b == Behind(v)
           r == b \o m
<1>4. HeadOf(v) \in Pieces /\ HeadOf(v) # CRLF /\ b \in Seq(Pieces) BY <1>3, LineFirst
<1>5. r \in Seq(Pieces) /\ Rest = <<HeadOf(v), CRLF>> \o r
  <2>1. m \in Seq(Pieces) /\ Rest = <<HeadOf(v), CRLF>> \o r BY <1>3
  <2> HIDE DEF m, b
  <2>2. b \o m \in Seq(Pieces) BY <1>4, <2>1, ConcatFacts
  <2> QED BY <2>1, <2>2
<1> HIDE DEF r
<1>6. /\ RestOfLine \in {0, 2}
      /\ RestOfLine = 2 => buffer[bytes_read + 1] = HeadOf(v)
  BY <1>2, <1>4, <1>5, RestOfLineFacts
<1>7. IsConnectionError(v)
  <2>1. HeadOf(v).t = v.t BY DEF HeadOf
  <2> QED BY <1>1, <1>6, <2>1 DEF IsConnectionError
<1>8. Bad[todo[Len(stack)+1][1]] /\ todo[Len(stack)+1] # <<>> BY <1>3, <1>7, BadFacts
<1>9. todo[1] # <<>> /\ Bad[todo[1][1]] BY <1>2, <1>3, <1>8, BadBelow
<1>10. sent = returned \o todo[1] /\ todo[1] \in Seq(Replies)
  <2>1. 1 \in 1..(Len(stack)+1) BY <1>2, EmptyFacts
  <2> QED BY <1>2, <1>3, <2>1, FramedFacts DEF Framed
<1>11. sent[Len(returned) + 1] = todo[1][1]
  <2> DEFINE q == todo[1]
  <2>1. q \in Seq(Replies) /\ q # <<>> /\ sent = returned \o q BY <1>9, <1>10
  <2> HIDE DEF q
  <2>2. 1 \in 1..Len(q) BY <2>1
  <2>3. (returned \o q)[Len(returned) + 1] = q[1] BY <1>2, <2>1, <2>2, ConcatFacts
  <2> QED BY <2>1, <2>3 DEF q
<1> QED BY <1>1, <1>9, <1>11, DisconnectKeeps

\* Where nothing but what has arrived changes, the same replies are to be read.
LEMMA ArrivalKeeps ==
  ASSUME ParserInv, NEW k, Receive(k),
         UNCHANGED <<parser, bytes_read, readVars, sessionVars, returned>>,
         ready' \in {"unknown", "yes"}, ready' = "yes" => at = "idle"
  PROVE  ParserInv' /\ at' # "closed"
<1>1. UNCHANGED <<parser, bytes_read, at, length, stack, next_response, asked, sent, returned>>
  BY DEF readVars, sessionVars
<1>2. /\ TypeOK /\ BufferOK /\ asked = sent
      /\ (parser = "python" => PythonInv) /\ (parser = "hiredis" => HiredisInv)
      /\ parser \in {"python", "hiredis"}
  BY ReadingFacts, TypeFacts
<1>3. BufferOK' /\ Rest' = Rest BY <1>1, <1>2, ReceiveFacts
<1>4. TypeOK' BY <1>1, <1>2, <1>3 DEF TypeOK, BufferOK
<1>5. at # "closed"
  <2>1. ASSUME at = "closed" PROVE FALSE
    <3>1. wire = <<>> BY <2>1 DEF ParserInv, SessionInv
    <3>2. k \in 1..Len(wire) BY DEF Receive
    <3>3. Len(<<>>) = 0 OBVIOUS
    <3> QED BY <3>1, <3>2, <3>3
  <2> QED BY <2>1
<1>6. SessionInv' BY <1>1, <1>2, <1>5, SessionKeeps
<1>7. CASE parser = "python"
  <2>1. Reads(at', stack', sent', returned', length', Rest') BY <1>1, <1>2, <1>3, <1>7 DEF PythonInv
  <2>2. PythonInv' BY <1>1, <1>2, <1>7, <2>1 DEF PythonInv
  <2> QED BY <1>1, <1>4, <1>5, <1>6, <1>7, <2>2 DEF ParserInv
<1>8. CASE parser # "python"
  <2>1. HiredisInv' BY <1>1, <1>2, <1>3, <1>8 DEF HiredisInv
  <2> QED BY <1>1, <1>4, <1>5, <1>6, <1>8, <2>1 DEF ParserInv
<1> QED BY <1>7, <1>8

LEMMA ReadMoreKeeps == ParserInv /\ (ReadMore \/ FeedMore \/ CanReadMore) => ParserInv' /\ at' # "closed"
<1>1. ASSUME ParserInv, ReadMore \/ FeedMore PROVE ParserInv' /\ at' # "closed"
  <2>1. /\ at # "idle" /\ UNCHANGED <<parser, bytes_read, readVars, sessionVars, returned>>
        /\ ready' = ready /\ \E k \in 1..Len(wire) : Receive(k)
    BY <1>1 DEF ReadMore, FeedMore
  <2>2. ready' = "unknown" BY <1>1, <2>1, ReadingFacts
  <2> QED BY <1>1, <2>1, <2>2, ArrivalKeeps
<1>2. ASSUME ParserInv, CanReadMore PROVE ParserInv' /\ at' # "closed"
  BY <1>2, ArrivalKeeps DEF CanReadMore
<1> QED BY <1>1, <1>2

LEMMA ConnectKeeps ==
  ASSUME ParserInv, Connect
  PROVE  ParserInv'
<1>1. at = "closed" /\ at' = "idle"
      /\ UNCHANGED <<parser, wire, buffer, bytes_written, bytes_read, length, stack, next_response, ready,
                     asked, sent, returned>>
  BY DEF Connect, bufferVars, sessionVars
<1>2. TypeOK /\ SessionInv /\ IF parser = "python" THEN PythonInv ELSE HiredisInv BY DEF ParserInv
<1>3. TypeOK' BY <1>1, <1>2 DEF TypeOK, Steps
<1>4. SessionInv' BY <1>1, <1>2 DEF SessionInv, NothingIsHidden
<1>5. Rest' = Rest BY <1>1 DEF Rest, Ahead
<1>6. CASE parser = "python"
  <2>1. stack = <<>> /\ Reads("closed", stack, sent, returned, length, Rest) BY <1>1, <1>2, <1>6 DEF PythonInv
  <2>2. Reads("idle", stack, sent, returned, length, Rest) BY <2>1 DEF Reads, Coming
  <2>3. PythonInv' BY <1>1, <1>2, <1>5, <1>6, <2>1, <2>2 DEF PythonInv
  <2> QED BY <1>1, <1>3, <1>4, <1>6, <2>3 DEF ParserInv
<1>7. CASE parser # "python"
  <2>1. HiredisInv' BY <1>1, <1>2, <1>5, <1>7 DEF HiredisInv
  <2> QED BY <1>1, <1>3, <1>4, <1>7, <2>1 DEF ParserInv
<1> QED BY <1>6, <1>7

LEMMA ReadResponseKeeps ==
  ASSUME ParserInv, ReadResponse
  PROVE  ParserInv'
<1>1. at = "idle" /\ Len(returned) < Len(asked) /\ at' = (IF parser = "python" THEN "line" ELSE "gets") /\ ready' = "unknown"
      /\ UNCHANGED <<parser, wire, buffer, bytes_written, bytes_read, length, stack, next_response,
                     asked, sent, returned>>
  BY DEF ReadResponse, bufferVars, sessionVars
<1>2. TypeOK /\ SessionInv /\ (IF parser = "python" THEN PythonInv ELSE HiredisInv) /\ asked = sent
      /\ returned \in Seq(Replies)
  BY TypeFacts DEF ParserInv, SessionInv
<1>3. TypeOK' BY <1>1, <1>2 DEF TypeOK, Steps
<1>4. SessionInv' BY <1>1, <1>2, SessionKeeps
<1>5. Rest' = Rest BY <1>1 DEF Rest, Ahead
<1>6. CASE parser = "python"
  <2>1. stack = <<>> /\ Reads("idle", stack, sent, returned, length, Rest) BY <1>1, <1>2, <1>6 DEF PythonInv
  <2>2. PICK todo, after :
          /\ Framed(todo, after, stack, sent, returned)
          /\ Coming(todo[Len(stack)+1], after[Len(stack)+1], "idle", length, Rest)
    BY <2>1 DEF Reads
  <2>3. todo[1] # <<>>
    <3>1. sent = returned \o todo[1] BY <2>2 DEF Framed
    <3>2. ASSUME todo[1] = <<>> PROVE FALSE
      <4>1. sent = returned BY <1>2, <3>1, <3>2, ConcatFacts
      <4>2. Len(returned) \in Nat BY <1>2
      <4> QED BY <1>1, <1>2, <4>1, <4>2
    <3> QED BY <3>2
  <2>4. Coming(todo[Len(stack)+1], after[Len(stack)+1], "line", length, Rest) BY <2>2 DEF Coming
  <2>5. Reads("line", stack, sent, returned, length, Rest) BY <2>2, <2>3, <2>4 DEF Reads
  <2>6. PythonInv' BY <1>1, <1>2, <1>5, <1>6, <2>1, <2>5 DEF PythonInv
  <2> QED BY <1>1, <1>3, <1>4, <1>6, <2>6 DEF ParserInv
<1>7. CASE parser # "python"
  <2>1. HiredisInv' BY <1>1, <1>2, <1>5, <1>7 DEF HiredisInv
  <2> QED BY <1>1, <1>3, <1>4, <1>7, <2>1 DEF ParserInv
<1> QED BY <1>6, <1>7

-----------------------------------------------------------------------------
(* Steps of HiredisParser, can_read, and what is sent. *)

LEMMA NotEmpty ==
  ASSUME NEW v \in Replies
  PROVE  ~IsPrefix(Sent[v], <<>>) /\ v # NoReply
<1> DEFINE l == <<HeadOf(v), CRLF>>
           b == Behind(v)
<1>1. l \in Seq(Pieces) /\ Len(l) = 2
  <2>1. HeadOf(v) \in Pieces /\ CRLF \in Pieces BY LineFirst, CRLFFacts
  <2> QED BY <2>1
<1>2. b \in Seq(Pieces) /\ Sent[v] = l \o b BY LineFirst
<1> HIDE DEF l, b
<1>3. Len(Sent[v]) = 2 + Len(b) /\ Len(b) \in Nat
  <2>1. b \in Seq(Pieces) /\ l \in Seq(Pieces) BY <1>1, <1>2
  <2>2. Len(l \o b) = Len(l) + Len(b) BY ONLY <2>1, ConcatFacts
  <2> QED BY <1>1, <1>2, <2>1, <2>2
<1>4. ~(Len(Sent[v]) <= 0) BY <1>3
<1>5. Len(<<>>) = 0 OBVIOUS
<1>6. ~IsPrefix(Sent[v], <<>>) BY <1>4, <1>5 DEF IsPrefix
<1>7. v # NoReply
  <2>1. ReplyFacts(v) BY RepliesFacts
  <2>2. v.t # "False" /\ NoReply.t = "False" BY <2>1 DEF ReplyFacts, NoReply, Reply
  <2> QED BY <2>2
<1> QED BY <1>6, <1>7

\* Equal but for what is behind: nothing is.
LEMMA NothingBehind ==
  ASSUME NEW S, NEW p \in Seq(S), NEW q \in Seq(S), Len(p \o q) = Len(p)
  PROVE  q = <<>> /\ p \o q = p
<1>1. Len(p \o q) = Len(p) + Len(q) /\ Len(p) \in Nat /\ Len(q) \in Nat BY ConcatFacts, EmptyFacts
<1>2. Len(q) = 0 BY <1>1
<1>3. q = <<>> BY <1>2, EmptyFacts
<1> QED BY <1>3, ConcatFacts

\* What gets() finds is the next reply.
LEMMA GetsFacts ==
  ASSUME ParserInv, parser = "hiredis", next_response = NoReply, Gets # NoReply
  PROVE  \E todo \in Seq(Replies) :
           /\ sent = returned \o todo /\ todo # <<>> /\ Gets = todo[1] /\ Gets \in Replies
           /\ Tail(todo) \in Seq(Replies) /\ Gets = sent[Len(returned) + 1]
           /\ IsPrefix(Sent[Gets], buffer)
           /\ Rest = Sent[Gets] \o Stream(Tail(todo))
<1>1. HiredisInv /\ returned \in Seq(Replies) BY ReadingFacts, TypeFacts
<1>2. PICK todo \in Seq(Replies) : sent = returned \o todo /\ Rest = Stream(todo)
  BY <1>1 DEF HiredisInv, ComingWhole
<1>3. todo # <<>>
  <2>1. ASSUME todo = <<>> PROVE FALSE
    <3>1. sent = returned BY <1>1, <1>2, <2>1, ConcatFacts
    <3> QED BY <3>1 DEF Gets
  <2> QED BY <2>1
<1>4. todo[1] \in Replies /\ Tail(todo) \in Seq(Replies) BY <1>3, TailFacts
<1>5. sent[Len(returned) + 1] = todo[1]
  <2>1. 1 \in 1..Len(todo) BY <1>3
  <2>2. (returned \o todo)[Len(returned) + 1] = todo[1] BY <1>1, <2>1, ConcatFacts
  <2> QED BY <1>2, <2>2
<1>6. Gets = todo[1] /\ IsPrefix(Sent[todo[1]], buffer)
  <2>1. Len(returned) # Len(sent) BY DEF Gets
  <2>2. Gets = IF IsPrefix(Sent[todo[1]], buffer) THEN todo[1] ELSE NoReply BY <1>5, <2>1 DEF Gets
  <2> QED BY <2>2
<1>7. Stream(todo) = Sent[todo[1]] \o Stream(Tail(todo)) BY <1>3, StreamFacts
<1> QED BY <1>2, <1>3, <1>4, <1>5, <1>6, <1>7

\* It is taken out of the buffer, whole.
LEMMA UseFacts ==
  ASSUME BufferOK, bytes_read = 0, NEW v \in Replies, IsPrefix(Sent[v], buffer), Use(v), wire' = wire,
         NEW m \in Seq(Pieces), Rest = Sent[v] \o m
  PROVE  BufferOK' /\ bytes_read' = 0 /\ Rest' = m
<1> DEFINE s == Sent[v]
           n == Len(s)
           b == SubSeq(buffer, n + 1, Len(buffer))
<1>1. s \in Seq(Pieces) /\ buffer \in Seq(Pieces) /\ wire \in Seq(Pieces) BY SentFacts DEF BufferOK
<1>2. n \in Nat /\ Len(buffer) \in Nat /\ n <= Len(buffer) /\ SubSeq(s, 1, n) = SubSeq(buffer, 1, n)
  BY <1>1 DEF IsPrefix
<1>3. SubSeq(s, 1, n) = s
  <2> HIDE DEF s
  <2> QED BY <1>1, <1>2
<1>4. n \in 0..Len(buffer) BY <1>2
<1>5. b \in Seq(Pieces) /\ buffer = s \o b
  <2>1. b \in Seq(Pieces) /\ buffer = SubSeq(buffer, 1, n) \o b BY <1>1, <1>4, SplitFacts
  <2> QED BY <1>2, <1>3, <2>1
<1>6. buffer' = b /\ bytes_written' = Len(buffer') /\ bytes_read' = bytes_read BY DEF Use
<1> HIDE DEF b, s, n
<1>7. BufferOK' BY <1>1, <1>5, <1>6, EmptyFacts DEF BufferOK
<1>8. Ahead' = b /\ Ahead = buffer
  <2>1. \A q \in Seq(Pieces) : SubSeq(q, 0 + 1, Len(q)) = q OBVIOUS
  <2>2. Ahead' = SubSeq(b, 0 + 1, Len(b)) /\ Ahead = SubSeq(buffer, 0 + 1, Len(buffer)) BY <1>6 DEF Ahead
  <2> QED BY <1>1, <1>5, <2>1, <2>2
<1> DEFINE x == b \o wire
<1>9. Rest' = x BY <1>8 DEF Rest
<1>10. x \in Seq(Pieces) BY <1>1, <1>5, ConcatFacts
<1>11. Rest = (s \o b) \o wire BY <1>5, <1>8 DEF Rest
<1>12. (s \o b) \o wire = s \o x BY <1>1, <1>5, Associative
<1> HIDE DEF x
<1>13. s \o x = s \o m BY <1>11, <1>12 DEF s
<1>14. x = m BY <1>1, <1>10, <1>13, Cancel
<1> QED BY <1>6, <1>7, <1>9, <1>14

LEMMA ReturnCachedKeeps ==
  ASSUME ParserInv, ReturnCached
  PROVE  ParserInv' /\ at' # "closed"
<1>1. /\ at = "gets" /\ next_response # NoReply /\ returned' = Append(returned, next_response)
      /\ next_response' = NoReply /\ at' = "idle"
      /\ UNCHANGED <<parser, wire, buffer, bytes_written, bytes_read, length, stack, ready, asked, sent>>
  BY DEF ReturnCached, bufferVars, sessionVars
<1>2. /\ TypeOK /\ HiredisInv /\ parser = "hiredis" /\ ready = "unknown" /\ asked = sent
      /\ returned \in Seq(Replies)
  BY <1>1, ReadingFacts, TypeFacts
<1>3. PICK todo \in Seq(Replies) : sent = returned \o todo /\ ComingWhole(todo, next_response, Rest)
  BY <1>2 DEF HiredisInv
<1>4. todo # <<>> /\ next_response = todo[1] /\ Rest = Stream(Tail(todo)) BY <1>1, <1>3 DEF ComingWhole
<1>5. /\ sent = Append(returned, todo[1]) \o Tail(todo) /\ Append(returned, todo[1]) \in Seq(Replies)
      /\ Tail(todo) \in Seq(Replies)
  BY <1>2, <1>3, <1>4, MoveOne
<1>6. Rest' = Rest BY <1>1 DEF Rest, Ahead
<1>7. TypeOK' BY <1>1, <1>2, <1>4, <1>5, TypeFacts DEF TypeOK, BufferOK, Arrays, Steps
<1>8. SessionInv' BY <1>1, <1>2, SessionKeeps
<1>9. ComingWhole(Tail(todo), NoReply, Rest) BY <1>4 DEF ComingWhole
<1>10. HiredisInv' BY <1>1, <1>2, <1>4, <1>5, <1>6, <1>9 DEF HiredisInv
<1> QED BY <1>1, <1>2, <1>7, <1>8, <1>10 DEF ParserInv

LEMMA GetsReplyKeeps ==
  ASSUME ParserInv, GetsReply
  PROVE  ParserInv' /\ (at' = "closed" => Bad[sent[Len(returned) + 1]])
<1>1. at = "gets" /\ next_response = NoReply /\ Gets # NoReply BY DEF GetsReply
<1>2. /\ TypeOK /\ BufferOK /\ HiredisInv /\ parser = "hiredis" /\ ready = "unknown" /\ asked = sent
      /\ returned \in Seq(Replies)
  BY <1>1, ReadingFacts, TypeFacts
<1>3. PICK todo \in Seq(Replies) :
           /\ sent = returned \o todo /\ todo # <<>> /\ Gets = todo[1] /\ Gets \in Replies
           /\ Tail(todo) \in Seq(Replies) /\ Gets = sent[Len(returned) + 1]
           /\ IsPrefix(Sent[Gets], buffer)
           /\ Rest = Sent[Gets] \o Stream(Tail(todo))
  BY <1>1, <1>2, GetsFacts
<1>4. CASE SomethingBad(Gets)
  <2>1. Disconnect BY <1>4 DEF GetsReply
  <2>2. Bad[Gets]
    <3>1. CASE IsConnectionError(Gets) BY <1>3, <3>1, BadFacts
    <3>2. CASE Gets.items # <<>> /\ IsConnectionError(Gets.items[1])
      <4>1. ReplyFacts(Gets) BY <1>3, RepliesFacts
      <4>2. Gets.items \in Seq(Replies) BY <4>1 DEF ReplyFacts
      <4>3. 1 \in DOMAIN Gets.items /\ Gets.items[1] \in Replies BY <3>2, <4>2
      <4>4. Bad[Gets.items[1]] BY <3>2, <4>3, BadFacts
      <4> QED BY <1>3, <4>3, <4>4, BadFacts
    <3> QED BY <1>4, <3>1, <3>2 DEF SomethingBad
  <2> QED BY <1>3, <2>1, <2>2, DisconnectKeeps
<1>5. CASE ~SomethingBad(Gets)
  <2>1. /\ Use(Gets) /\ returned' = Append(returned, Gets) /\ at' = "idle"
        /\ UNCHANGED <<parser, wire, length, stack, next_response, ready, asked, sent>>
    BY <1>5 DEF GetsReply, sessionVars
  <2>2. Stream(Tail(todo)) \in Seq(Pieces) BY <1>3, StreamFacts
  <2>3. BufferOK' /\ bytes_read' = 0 /\ Rest' = Stream(Tail(todo))
    BY <1>2, <1>3, <2>1, <2>2, UseFacts DEF HiredisInv
  <2>4. sent = Append(returned, todo[1]) \o Tail(todo) /\ Append(returned, todo[1]) \in Seq(Replies)
    BY <1>2, <1>3, MoveOne
  <2>5. TypeOK' BY <1>2, <1>3, <2>1, <2>3, <2>4, TypeFacts DEF TypeOK, BufferOK, Arrays, Steps
  <2>6. SessionInv' BY <1>2, <2>1, SessionKeeps
  <2>7. ComingWhole(Tail(todo), NoReply, Rest') BY <2>3 DEF ComingWhole
  <2>8. HiredisInv' BY <1>1, <1>2, <1>3, <2>1, <2>3, <2>4, <2>7 DEF HiredisInv
  <2> QED BY <1>2, <2>1, <2>5, <2>6, <2>8 DEF ParserInv
<1> QED BY <1>4, <1>5

LEMMA CanReadKeeps ==
  ASSUME ParserInv, CanRead
  PROVE  ParserInv'
<1>1. /\ at = "idle" /\ at' = "idle" /\ Buffered /\ ready' = "yes"
      /\ IF parser = "python" \/ next_response # NoReply THEN UNCHANGED <<buffer, bytes_written, bytes_read, next_response>>
         ELSE next_response' = Gets /\ Use(Gets)
      /\ UNCHANGED <<parser, wire, length, stack, asked, sent, returned>>
  BY DEF CanRead, bufferVars, sessionVars
<1>2. /\ TypeOK /\ BufferOK /\ asked = sent
      /\ (parser = "python" => PythonInv) /\ (parser = "hiredis" => HiredisInv)
      /\ parser \in {"python", "hiredis"}
  BY ReadingFacts, TypeFacts
<1>3. SessionInv' BY <1>1, <1>2, SessionKeeps
<1>4. CASE parser = "python" \/ next_response # NoReply
  <2>1. UNCHANGED <<buffer, bytes_written, bytes_read, next_response>> BY <1>1, <1>4
  <2>2. TypeOK' /\ Rest' = Rest BY <1>1, <1>2, <2>1 DEF TypeOK, Rest, Ahead
  <2>3. PythonInv => PythonInv' BY <1>1, <2>1, <2>2 DEF PythonInv
  <2>4. HiredisInv => HiredisInv' BY <1>1, <2>1, <2>2 DEF HiredisInv
  <2> QED BY <1>1, <1>2, <1>3, <2>2, <2>3, <2>4 DEF ParserInv
<1>5. CASE ~(parser = "python" \/ next_response # NoReply)
  <2>1. parser = "hiredis" /\ HiredisInv /\ next_response = NoReply /\ next_response' = Gets /\ Use(Gets)
    BY <1>1, <1>2, <1>5
  <2>2. Gets # NoReply BY <1>1, <2>1 DEF Buffered
  <2>3. PICK todo \in Seq(Replies) :
           /\ sent = returned \o todo /\ todo # <<>> /\ Gets = todo[1] /\ Gets \in Replies
           /\ Tail(todo) \in Seq(Replies) /\ Gets = sent[Len(returned) + 1]
           /\ IsPrefix(Sent[Gets], buffer)
           /\ Rest = Sent[Gets] \o Stream(Tail(todo))
    BY <2>1, <2>2, GetsFacts
  <2>4. Stream(Tail(todo)) \in Seq(Pieces) BY <2>3, StreamFacts
  <2>5. BufferOK' /\ bytes_read' = 0 /\ Rest' = Stream(Tail(todo))
    BY <1>1, <1>2, <2>1, <2>3, <2>4, UseFacts DEF HiredisInv
  <2>6. TypeOK' BY <1>1, <1>2, <2>1, <2>3, <2>5, TypeFacts DEF TypeOK, BufferOK, Arrays, Steps
  <2>7. ComingWhole(todo, next_response', Rest') BY <2>1, <2>2, <2>3, <2>5 DEF ComingWhole
  <2>8. HiredisInv' BY <1>1, <2>1, <2>3, <2>5, <2>7 DEF HiredisInv
  <2> QED BY <1>1, <1>3, <2>1, <2>6, <2>8 DEF ParserInv
<1> QED BY <1>4, <1>5

LEMMA CannotReadKeeps ==
  ASSUME ParserInv, CannotRead
  PROVE  ParserInv'
<1>1. /\ at = "idle" /\ ~Buffered /\ ready' = "no"
      /\ UNCHANGED <<parser, wire, buffer, bytes_written, bytes_read, at, length, stack, next_response,
                     asked, sent, returned>>
  BY DEF CannotRead, bufferVars, readVars, sessionVars
<1>2. /\ TypeOK /\ BufferOK /\ asked = sent /\ sent \in Seq(Replies) /\ returned \in Seq(Replies)
      /\ (parser = "python" => PythonInv) /\ (parser = "hiredis" => HiredisInv)
      /\ parser \in {"python", "hiredis"}
  BY ReadingFacts, TypeFacts
<1>3. TypeOK' /\ Rest' = Rest BY <1>1, <1>2 DEF TypeOK, Rest, Ahead
<1>4. ~InMemory
  <2> DEFINE v == sent[Len(returned) + 1]
  <2>1. Len(returned) < Len(sent) => v \in Replies
    <3>1. Len(returned) \in Nat /\ Len(sent) \in Nat BY <1>2
    <3>2. Len(returned) < Len(sent) => Len(returned) + 1 \in 1..Len(sent) BY <3>1
    <3> QED BY <1>2, <3>2
  <2>2. CASE parser = "python"
    <3>1. next_response = NoReply BY <1>2, <2>2 DEF PythonInv
    <3>2. ~(Unread > 0) BY <1>1, <2>2 DEF Buffered
    <3>3. Ahead \in Seq(Pieces) /\ Len(Ahead) = Unread /\ Unread \in Nat BY <1>2, AheadFacts
    <3>4. Len(Ahead) = 0 BY <3>2, <3>3
    <3>5. Ahead = <<>> BY <3>3, <3>4, EmptyFacts
    <3> QED BY <2>1, <3>1, <3>5, NotEmpty DEF InMemory, Ahead
  <2>3. CASE parser = "hiredis"
    <3>1. next_response = NoReply /\ Gets = NoReply /\ bytes_read = 0
      BY <1>1, <1>2, <2>3 DEF Buffered, HiredisInv
    <3>2. Ahead = buffer
      <4>1. \A q \in Seq(Pieces) : SubSeq(q, 0 + 1, Len(q)) = q OBVIOUS
      <4>2. buffer \in Seq(Pieces) BY <1>2 DEF BufferOK
      <4> QED BY <3>1, <4>1, <4>2 DEF Ahead
    <3>3. ASSUME Len(returned) < Len(sent) PROVE ~IsPrefix(Sent[v], buffer)
      <4>1. Len(returned) # Len(sent)
        <5>1. Len(returned) \in Nat /\ Len(sent) \in Nat BY <1>2
        <5> QED BY <3>3, <5>1
      <4>2. Gets = IF IsPrefix(Sent[v], buffer) THEN v ELSE NoReply BY <4>1 DEF Gets
      <4>3. v # NoReply BY <2>1, <3>3, NotEmpty
      <4> QED BY <3>1, <4>2, <4>3
    <3> QED BY <3>1, <3>2, <3>3 DEF InMemory, Ahead
  <2> QED BY <1>2, <2>2, <2>3
<1>5. ~InMemory'
  BY <1>1, <1>4 DEF InMemory
<1>6. SessionInv' BY <1>1, <1>2, <1>5 DEF SessionInv, NothingIsHidden
<1>7. PythonInv => PythonInv' BY <1>1, <1>3 DEF PythonInv
<1>8. HiredisInv => HiredisInv' BY <1>1, <1>3 DEF HiredisInv
<1> QED BY <1>1, <1>2, <1>3, <1>6, <1>7, <1>8 DEF ParserInv

\* When no reply is owed, nothing is left of any.
LEMMA NothingOwedFacts ==
  ASSUME ParserInv, NothingOwed
  PROVE  /\ sent = returned /\ Rest = <<>> /\ Ahead = <<>> /\ stack = <<>> /\ next_response = NoReply
         /\ at = "idle"
<1>1. at = "idle" /\ Len(returned) = Len(asked) BY DEF NothingOwed
<1>2. /\ TypeOK /\ BufferOK /\ asked = sent /\ sent \in Seq(Replies) /\ returned \in Seq(Replies)
      /\ stack \in Seq(Arrays)
      /\ (parser = "python" => PythonInv) /\ (parser = "hiredis" => HiredisInv)
      /\ parser \in {"python", "hiredis"}
  BY ReadingFacts, TypeFacts
<1>3. \A todo \in Seq(Replies) : sent = returned \o todo => todo = <<>> /\ sent = returned
  BY <1>1, <1>2, NothingBehind
<1>4. sent = returned /\ Rest = <<>> /\ stack = <<>> /\ next_response = NoReply
  <2>1. CASE parser = "python"
    <3>1. stack = <<>> /\ next_response = NoReply /\ Reads("idle", stack, sent, returned, length, Rest)
      BY <1>1, <1>2, <2>1 DEF PythonInv
    <3>2. PICK todo, after :
            /\ Framed(todo, after, stack, sent, returned)
            /\ Coming(todo[Len(stack)+1], after[Len(stack)+1], "idle", length, Rest)
      BY <3>1 DEF Reads
    <3>3. Len(stack) = 0 /\ 1 \in 1..(0+1) BY <3>1
    <3>4. todo[1] \in Seq(Replies) /\ sent = returned \o todo[1] /\ after[1] = <<>>
      <4>1. todo[1] \in Seq(Replies) BY <1>2, <3>2, <3>3, FramedFacts
      <4> QED BY <3>2, <4>1 DEF Framed
    <3>5. todo[1] = <<>> /\ sent = returned BY <1>3, <3>4
    <3>6. Rest = Stream(<<>>) \o <<>>
      <4>1. Len(stack) + 1 = 1 BY <3>3
      <4>2. Coming(todo[1], after[1], "idle", length, Rest) BY <3>2, <4>1
      <4>3. Coming(<<>>, <<>>, "idle", length, Rest) BY <3>4, <3>5, <4>2
      <4> QED BY <4>3 DEF Coming
    <3>7. <<>> \o <<>> = <<>> OBVIOUS
    <3> QED BY <3>1, <3>5, <3>6, <3>7, StreamFacts
  <2>2. CASE parser = "hiredis"
    <3>1. PICK todo \in Seq(Replies) : sent = returned \o todo /\ ComingWhole(todo, next_response, Rest)
      BY <1>2, <2>2 DEF HiredisInv
    <3>2. todo = <<>> /\ sent = returned BY <1>3, <3>1
    <3>3. next_response = NoReply /\ Rest = Stream(<<>>) BY <3>1, <3>2 DEF ComingWhole
    <3> QED BY <1>2, <2>2, <3>2, <3>3, StreamFacts DEF HiredisInv
  <2> QED BY <1>2, <2>1, <2>2
<1>5. Ahead = <<>>
  <2> DEFINE a == Ahead
  <2>1. a \in Seq(Pieces) /\ wire \in Seq(Pieces) /\ a \o wire = <<>> BY <1>2, <1>4, AheadFacts DEF BufferOK, Rest
  <2> HIDE DEF a
  <2>2. Len(a \o wire) = Len(a) + Len(wire) BY <2>1, ConcatFacts
  <2>3. Len(a) \in Nat /\ Len(wire) \in Nat /\ Len(<<>>) = 0 BY <2>1, EmptyFacts
  <2>4. Len(a) = 0 BY <2>1, <2>2, <2>3
  <2>5. a = <<>> BY <2>1, <2>4, EmptyFacts
  <2> QED BY <2>5 DEF a
<1> QED BY <1>1, <1>4, <1>5

\* Redis answers what was asked.
LEMMA SendKeeps ==
  ASSUME ParserInv, NEW cmds, NEW replies \in Seq(Replies), NEW pipelined,
         Send(cmds, replies, pipelined), Answers(cmds, Written(cmds, pipelined)) = replies
  PROVE  ParserInv' /\ at' = at
<1>1. NothingOwed BY DEF Send
<1>2. /\ sent = returned /\ Rest = <<>> /\ Ahead = <<>> /\ stack = <<>> /\ next_response = NoReply
      /\ at = "idle"
  BY <1>1, NothingOwedFacts
<1>3. /\ asked' = asked \o replies /\ sent' = sent \o replies /\ wire' = wire \o Stream(replies)
      /\ UNCHANGED <<parser, buffer, bytes_written, bytes_read, at, length, stack, next_response, ready,
                     returned>>
  BY DEF Send, Stream, Joined, bufferVars, readVars
<1>4. /\ TypeOK /\ BufferOK /\ asked = sent /\ sent \in Seq(Replies) /\ returned \in Seq(Replies)
      /\ stack \in Seq(Arrays) /\ wire \in Seq(Pieces)
      /\ (parser = "python" => PythonInv) /\ (parser = "hiredis" => HiredisInv)
      /\ parser \in {"python", "hiredis"}
  BY ReadingFacts, TypeFacts DEF BufferOK
<1>5. Stream(replies) \in Seq(Pieces) BY StreamFacts
<1> DEFINE w == wire \o Stream(replies)
           r == returned \o replies
<1>6. w \in Seq(Pieces) BY <1>4, <1>5, ConcatFacts
<1>7. r \in Seq(Replies) BY <1>4, ConcatFacts
<1>8. wire' = w /\ sent' = r /\ asked' = r BY <1>2, <1>3, <1>4
<1>9. Ahead' = <<>> /\ Rest' = Stream(replies)
  <2>1. Ahead' = <<>> BY <1>2, <1>3 DEF Ahead
  <2>2. wire = <<>> BY <1>2, <1>4, ConcatFacts DEF Rest
  <2>3. w = Stream(replies) BY <1>5, <2>2, ConcatFacts
  <2>4. Rest' = <<>> \o w BY <1>8, <2>1 DEF Rest
  <2> QED BY <1>6, <2>1, <2>3, <2>4, ConcatFacts
<1> HIDE DEF w
<1>10. TypeOK'
  <2> HIDE DEF r
  <2> QED BY <1>3, <1>4, <1>6, <1>7, <1>8, TypeFacts DEF TypeOK, BufferOK, Arrays
<1>11. ~InMemory'
  <2> DEFINE v == r[Len(returned) + 1]
  <2>1. ASSUME Len(returned) < Len(r) PROVE ~IsPrefix(Sent[v], <<>>)
    <3>1. Len(returned) + 1 \in 1..Len(r)
      <4>1. Len(returned) \in Nat /\ Len(r) \in Nat BY <1>4, <1>7, EmptyFacts
      <4> QED BY <2>1, <4>1
    <3> HIDE DEF r
    <3>2. v \in Replies BY <1>7, <3>1
    <3> QED BY <3>2, NotEmpty
  <2>2. InMemory' <=> \/ next_response' # NoReply
                      \/ /\ Len(returned') < Len(sent')
                         /\ IsPrefix(Sent[sent'[Len(returned') + 1]], Ahead')
    BY DEF InMemory, Ahead
  <2> HIDE DEF r
  <2> QED BY <1>2, <1>3, <1>8, <1>9, <2>1, <2>2 DEF v
<1>12. SessionInv' BY <1>2, <1>3, <1>8, <1>4, <1>11 DEF SessionInv, NothingIsHidden, ParserInv
<1>13. CASE parser = "python"
  <2> DEFINE todo == <<replies>>
             after == <<(<<>>)>>
  <2>1. /\ todo \in Seq(Seq(Replies)) /\ after \in Seq(Seq(Pieces)) /\ Len(todo) = 1 /\ Len(after) = 1
        /\ todo[1] = replies /\ after[1] = <<>> /\ Len(<<>>) = 0 /\ \A l \in 1..0 : FALSE
    OBVIOUS
  <2> HIDE DEF todo, after
  <2>2. Framed(todo, after, <<>>, r, returned) BY <2>1 DEF Framed
  <2>3. Stream(replies) = Stream(replies) \o <<>> BY <1>5, ConcatFacts
  <2>4. Coming(replies, <<>>, "idle", length, Stream(replies)) BY <2>3 DEF Coming
  <2>5. Reads("idle", <<>>, r, returned, length, Stream(replies)) BY <2>1, <2>2, <2>4 DEF Reads
  <2>6. PythonInv' BY <1>2, <1>3, <1>4, <1>8, <1>9, <1>13, <2>5 DEF PythonInv
  <2> QED BY <1>3, <1>10, <1>12, <1>13, <2>6 DEF ParserInv
<1>14. CASE parser # "python"
  <2>1. ComingWhole(replies, NoReply, Stream(replies)) BY DEF ComingWhole
  <2>2. HiredisInv' BY <1>2, <1>3, <1>4, <1>8, <1>9, <1>14, <2>1 DEF HiredisInv
  <2> QED BY <1>3, <1>10, <1>12, <1>14, <2>2 DEF ParserInv
<1> QED BY <1>3, <1>13, <1>14

-----------------------------------------------------------------------------
(* FoldLeft. *)

LEMMA MaxFacts ==
  ASSUME NEW n \in Nat, NEW s \in SUBSET (1..n), s # {}
  PROVE  Max(s) \in s /\ \A y \in s : y <= Max(s)
<1> DEFINE T == {m \in Nat : \A y \in s : y <= m}
<1>1. n \in T OBVIOUS
<1>2. PICK m \in T : \A k \in T : ~(k < m)
  <2>1. T \subseteq Nat /\ T # {} BY <1>1
  <2> HIDE DEF T
  <2> QED BY <2>1, LeastNumber
<1>3. m \in s
  <2>1. ASSUME m \notin s PROVE FALSE
    <3>1. PICK y \in s : TRUE OBVIOUS
    <3>2. y \in Nat /\ y # 0 /\ y <= m /\ m \in Nat OBVIOUS
    <3>3. m - 1 \in Nat /\ m - 1 < m BY <3>2
    <3>4. \A z \in s : z <= m - 1 BY <2>1
    <3> QED BY <1>2, <3>3, <3>4
  <2> QED BY <2>1
<1>4. \A y \in s : m >= y OBVIOUS
<1> HIDE DEF T
<1>5. Max(s) \in s /\ \A y \in s : Max(s) >= y BY <1>3, <1>4 DEF Max
<1> QED BY <1>5

LEMMA Initials ==
  ASSUME NEW n \in Nat, NEW i \in 1..n
  PROVE  /\ 1..i \in SUBSET (1..n) /\ 1..i # {} /\ Max(1..i) = i /\ (1..i) \ {i} = 1..(i-1)
         /\ i - 1 \in 0..n /\ i \in Nat
<1>1. 1..i \in SUBSET (1..n) /\ i \in 1..i /\ (1..i) \ {i} = 1..(i-1) /\ i - 1 \in 0..n OBVIOUS
<1> DEFINE s == 1..i
<1>2. s \in SUBSET (1..n) /\ s # {} BY <1>1
<1>3. \A y \in s : y <= i /\ y \in Nat OBVIOUS
<1> HIDE DEF s
<1>4. Max(s) \in s /\ \A y \in s : y <= Max(s) BY <1>2, MaxFacts
<1>5. i \in s /\ i \in Nat BY <1>1 DEF s
<1>6. Max(s) = i
  <2>1. i <= Max(s) /\ Max(s) <= i /\ Max(s) \in Nat BY <1>3, <1>4, <1>5
  <2> QED BY <1>5, <2>1
<1> QED BY <1>1, <1>6 DEF s

Folds(F, b, q, h) ==
  \A s \in SUBSET (1..Len(q)) : h[s] = IF s = {} THEN b ELSE F[<<h[s \ {Max(s)}], q[Max(s)]>>]

\* The function that FoldLeft chooses exists.
LEMMA FoldExists ==
  ASSUME NEW S, NEW A, NEW b \in S, NEW F \in [S \X A -> S], NEW q \in Seq(A)
  PROVE  \E h \in [SUBSET (1..Len(q)) -> S] : Folds(F, b, q, h)
<1> DEFINE n == Len(q)
           D == SUBSET (1..n)
           T == [D -> S]
           Next1(g, k, s) == IF k \in s /\ k \in 1..n THEN F[<<g[s \ {k}], q[k]>>] ELSE g[s]
           Step == [p \in T \X Nat |-> [s \in D |-> Next1(p[1], p[2], s)]]
           start == [s \in D |-> b]
<1>1. n \in Nat /\ \A k \in 1..n : q[k] \in A OBVIOUS
<1>2. start \in T OBVIOUS
<1>3. ASSUME NEW g \in T, NEW k \in Nat, NEW s \in D PROVE Next1(g, k, s) \in S
  <2>1. CASE k \in s /\ k \in 1..n
    <3>1. s \ {k} \in D OBVIOUS
    <3>2. g[s \ {k}] \in S /\ q[k] \in A BY <1>1, <2>1, <3>1
    <3> DEFINE x == g[s \ {k}]
               y == q[k]
    <3> HIDE DEF x, y
    <3>3. F[<<x, y>>] \in S BY <3>2 DEF x, y
    <3> QED BY <2>1, <3>3 DEF x, y
  <2>2. CASE ~(k \in s /\ k \in 1..n) BY <2>2
  <2> QED BY <2>1, <2>2
<1> HIDE DEF Next1
<1>4. \A g \in T, k \in Nat : Step[<<g, k>>] = [s \in D |-> Next1(g, k, s)]
  <2>1. ASSUME NEW g \in T, NEW k \in Nat PROVE Step[<<g, k>>] = [s \in D |-> Next1(g, k, s)]
    <3>1. <<g, k>> \in T \X Nat OBVIOUS
    <3> QED BY <3>1
  <2> QED BY <2>1
<1>5. Step \in [T \X Nat -> T]
  <2>1. ASSUME NEW p \in T \X Nat PROVE [s \in D |-> Next1(p[1], p[2], s)] \in T
    <3>1. p[1] \in T /\ p[2] \in Nat OBVIOUS
    <3>2. \A s \in D : Next1(p[1], p[2], s) \in S BY <1>3, <3>1
    <3> QED BY <3>2
  <2> QED BY <2>1
<1> HIDE DEF Step, start, T, D, n
<1>6. \E f \in [0..n -> T] : Iterated(Step, start, n, f) BY <1>1, <1>2, <1>5, IterationExists
<1>7. PICK f \in [0..n -> T] : f[0] = start /\ \A k \in 1..n : f[k] = Step[<<f[k-1], k>>]
  BY <1>6 DEF Iterated
<1>8. ASSUME NEW k \in 1..n, NEW s \in D PROVE f[k][s] = Next1(f[k-1], k, s)
  <2>1. k - 1 \in 0..n /\ k \in Nat BY <1>1
  <2>2. f[k-1] \in T BY <2>1
  <2>3. f[k] = [t \in D |-> Next1(f[k-1], k, t)] BY <1>4, <1>7, <2>1, <2>2
  <2> QED BY <2>3
<1>9. ASSUME NEW k \in 0..n, NEW s \in D, s \subseteq 1..k PROVE f[n][s] = f[k][s]
  <2> DEFINE P == {j \in Nat : k + j <= n => f[k+j][s] = f[k][s]}
  <2>1. k \in Nat BY <1>1
  <2>2. 0 \in P BY <2>1
  <2>3. ASSUME NEW j \in Nat, j \in P PROVE j + 1 \in P
    <3>1. ASSUME k + (j + 1) <= n PROVE f[k+(j+1)][s] = f[k][s]
      <4> DEFINE m == k + (j + 1)
      <4>1. m \in 1..n /\ m - 1 = k + j /\ k + j <= n /\ m \notin 1..k BY <1>1, <2>1, <3>1
      <4>2. m \notin s BY <1>9, <4>1
      <4> HIDE DEF m
      <4>3. f[m][s] = f[m-1][s] BY <1>8, <4>1, <4>2 DEF Next1
      <4>4. f[k+j][s] = f[k][s] BY <2>3, <4>1
      <4> QED BY <4>1, <4>3, <4>4 DEF m
    <3> QED BY <3>1
  <2> HIDE DEF P
  <2>4. \A j \in Nat : j \in P BY <2>2, <2>3, Induction
  <2>5. n - k \in Nat /\ k + (n - k) = n BY <1>1
  <2>6. n - k \in P BY <2>4, <2>5
  <2> QED BY <2>5, <2>6 DEF P
<1> DEFINE h == f[n]
<1>10. h \in T BY <1>1
<1>11. ASSUME NEW s \in D PROVE h[s] = IF s = {} THEN b ELSE F[<<h[s \ {Max(s)}], q[Max(s)]>>]
  <2>1. CASE s = {}
    <3>1. 0 \in 0..n /\ s \subseteq 1..0 BY <1>1, <2>1
    <3>2. h[s] = f[0][s] BY <1>9, <3>1
    <3>3. f[0][s] = b BY <1>7 DEF start
    <3> QED BY <2>1, <3>2, <3>3
  <2>2. CASE s # {}
    <3> DEFINE k == Max(s)
    <3>1. k \in s /\ \A y \in s : y <= k BY <1>1, <2>2, MaxFacts DEF D
    <3>2. s \subseteq 1..n BY DEF D
    <3> HIDE DEF k
    <3>3. k \in 1..n /\ k \in 0..n /\ k - 1 \in 0..n BY <1>1, <3>1, <3>2
    <3>4. s \subseteq 1..k /\ s \ {k} \subseteq 1..(k-1) BY <1>1, <3>1, <3>2, <3>3
    <3>5. s \ {k} \in D BY <3>2 DEF D
    <3>6. h[s] = f[k][s] BY <1>9, <3>3, <3>4
    <3>7. f[k][s] = F[<<f[k-1][s \ {k}], q[k]>>] BY <1>8, <3>1, <3>3 DEF Next1
    <3>8. h[s \ {k}] = f[k-1][s \ {k}] BY <1>9, <3>3, <3>4, <3>5
    <3> QED BY <2>2, <3>6, <3>7, <3>8 DEF k
  <2> QED BY <2>1, <2>2
<1> HIDE DEF h
<1>12. Folds(F, b, q, h) BY <1>11 DEF Folds, D, n
<1> QED BY <1>10, <1>12 DEF T, D, n

-----------------------------------------------------------------------------
(* What is written is what the commands are encoded as. *)

TextOf == [c \in Chunks |-> c.text]
BulkOf == [c \in Chunks |-> (Line("bulk", Len(c.text)) \o c.text) \o <<CRLF>>]

Packed == [output : Seq(Chunks), buff : Seq(Pieces)]

LEMMA ChunkFacts ==
  /\ Encodes(TextOf, Chunks, Pieces) /\ Encodes(BulkOf, Chunks, Pieces)
  /\ \A c \in Chunks : c.text \in Seq(Pieces) /\ Len(c.text) \in Nat /\ Line("bulk", Len(c.text)) \in Seq(Pieces)
  /\ \A q \in Seq(Pieces) : Chunk(q, FALSE) \in Chunks /\ Chunk(q, FALSE).text = q
<1>1. \A c \in Chunks : c.text \in Seq(Pieces) BY DEF Chunks
<1>2. \A c \in Chunks : Len(c.text) \in Nat BY <1>1, EmptyFacts
<1>3. \A c \in Chunks : Line("bulk", Len(c.text)) \in Seq(Pieces) BY <1>2, LineFacts, RepliesAssumption
<1>4. \A q \in Seq(Pieces) : Chunk(q, FALSE) \in Chunks /\ Chunk(q, FALSE).text = q
  BY DEF Chunk, Chunks
<1>5. TextOf \in [Chunks -> Seq(Pieces)] BY <1>1 DEF TextOf
<1>6. ASSUME NEW c \in Chunks PROVE (Line("bulk", Len(c.text)) \o c.text) \o <<CRLF>> \in Seq(Pieces)
  <2> DEFINE l == Line("bulk", Len(c.text))
             t == c.text
  <2>1. l \in Seq(Pieces) /\ t \in Seq(Pieces) /\ <<CRLF>> \in Seq(Pieces) BY <1>1, <1>3, CRLFFacts
  <2> HIDE DEF l, t
  <2>2. l \o t \in Seq(Pieces) BY <2>1, ConcatFacts
  <2>3. (l \o t) \o <<CRLF>> \in Seq(Pieces) BY <2>1, <2>2, ConcatFacts
  <2> QED BY <2>3 DEF l, t
<1>7. BulkOf \in [Chunks -> Seq(Pieces)] BY <1>6 DEF BulkOf
<1> QED BY <1>1, <1>2, <1>3, <1>4, <1>5, <1>7 DEF Encodes

\* An argument that is packed is a bulk behind what was packed.
LEMMA PackArgumentFacts ==
  ASSUME NEW p \in Packed, NEW c \in Chunks
  PROVE  /\ PackArgument(p, c) \in Packed
         /\ Joined(TextOf, PackArgument(p, c).output) \o PackArgument(p, c).buff
              = (Joined(TextOf, p.output) \o p.buff) \o BulkOf[c]
<1> DEFINE l == Line("bulk", Len(c.text))
           t == c.text
           b == p.buff
           o == p.output
           j == Joined(TextOf, o)
           e == <<CRLF>>
<1>1. /\ l \in Seq(Pieces) /\ t \in Seq(Pieces) /\ b \in Seq(Pieces) /\ o \in Seq(Chunks)
      /\ e \in Seq(Pieces) /\ p = [output |-> o, buff |-> b]
  BY ChunkFacts, CRLFFacts DEF Packed
<1>2. j \in Seq(Pieces) BY <1>1, ChunkFacts, JoinedType
<1>3. BulkOf[c] = (l \o t) \o e BY DEF BulkOf
<1>4. TextOf[c] = t BY DEF TextOf
<1>5. \/ PackArgument(p, c) = [output |-> o \o <<Chunk(b \o l, FALSE), c>>, buff |-> e]
      \/ PackArgument(p, c) = [output |-> o, buff |-> (b \o l) \o t \o e]
  BY <1>1 DEF PackArgument
<1> HIDE DEF l, t, b, o, j, e
<1>6. b \o l \in Seq(Pieces) /\ l \o t \in Seq(Pieces) /\ j \o b \in Seq(Pieces) BY <1>1, <1>2, ConcatFacts
<1>7. (b \o l) \o t \in Seq(Pieces) BY <1>1, <1>6, ConcatFacts
<1>8. ((b \o l) \o t) \o e \in Seq(Pieces) BY <1>1, <1>7, ConcatFacts
<1>9. ((b \o l) \o t) \o e = b \o ((l \o t) \o e)
  <2>1. (b \o l) \o t = b \o (l \o t)
    <3>1. b \in Seq(Pieces) /\ l \in Seq(Pieces) /\ t \in Seq(Pieces) BY <1>1
    <3> QED BY ONLY <3>1, Associative
  <2> DEFINE x == l \o t
  <2>2. x \in Seq(Pieces) /\ b \in Seq(Pieces) /\ e \in Seq(Pieces) BY <1>1, <1>6
  <2> HIDE DEF x
  <2>3. (b \o x) \o e = b \o (x \o e) BY ONLY <2>2, Associative
  <2> QED BY <2>1, <2>3 DEF x
<1> DEFINE k == (l \o t) \o e
<1>10. k \in Seq(Pieces) BY <1>1, <1>6, ConcatFacts
<1>11. (j \o b) \o k = j \o (b \o k)
  <2>1. j \in Seq(Pieces) /\ b \in Seq(Pieces) /\ k \in Seq(Pieces) BY <1>1, <1>2, <1>10
  <2> HIDE DEF k
  <2> QED BY ONLY <2>1, Associative
<1>12. CASE PackArgument(p, c) = [output |-> o \o <<Chunk(b \o l, FALSE), c>>, buff |-> e]
  <2> DEFINE d == Chunk(b \o l, FALSE)
             two == <<d, c>>
  <2>1. d \in Chunks /\ d.text = b \o l BY <1>6, ChunkFacts
  <2>2. TextOf[d] = b \o l BY <2>1 DEF TextOf
  <2> HIDE DEF d
  <2>3. <<d>> \in Seq(Chunks) /\ Append(<<d>>, c) = two /\ two \in Seq(Chunks)
    <3>1. <<d>> \in Seq(Chunks) BY <2>1, SingleFacts
    <3>2. Append(<<d>>, c) = two BY <2>1, PairFacts
    <3> DEFINE s == <<d>>
    <3> HIDE DEF s
    <3>3. Append(s, c) \in Seq(Chunks) BY <3>1, AppendFacts DEF s
    <3> QED BY <3>1, <3>2, <3>3 DEF s
  <2>4. Joined(TextOf, <<d>>) = b \o l BY <2>1, <2>2, ChunkFacts, JoinedSingle
  <2>5. Joined(TextOf, Append(<<d>>, c)) = Joined(TextOf, <<d>>) \o TextOf[c]
    <3> DEFINE s == <<d>>
    <3>1. s \in Seq(Chunks) BY <2>3
    <3> HIDE DEF s
    <3>2. Joined(TextOf, Append(s, c)) = Joined(TextOf, s) \o TextOf[c] BY <3>1, ChunkFacts, JoinedAppend
    <3> QED BY <3>2 DEF s
  <2>6. Joined(TextOf, two) = (b \o l) \o t BY <1>4, <2>3, <2>4, <2>5
  <2> HIDE DEF two
  <2>7. Joined(TextOf, o \o two) = j \o ((b \o l) \o t)
    <3>1. Joined(TextOf, o \o two) = Joined(TextOf, o) \o Joined(TextOf, two)
      <4>1. Encodes(TextOf, Chunks, Pieces) /\ o \in Seq(Chunks) /\ two \in Seq(Chunks) BY <1>1, <2>3, ChunkFacts
      <4> QED BY ONLY <4>1, JoinedConcat
    <3> QED BY <2>6, <3>1 DEF j
  <2>8. (j \o ((b \o l) \o t)) \o e = j \o (((b \o l) \o t) \o e)
    <3> DEFINE x == (b \o l) \o t
    <3>1. x \in Seq(Pieces) /\ j \in Seq(Pieces) /\ e \in Seq(Pieces) BY <1>1, <1>2, <1>7
    <3> HIDE DEF x
    <3>2. (j \o x) \o e = j \o (x \o e) BY ONLY <3>1, Associative
    <3> QED BY <3>2 DEF x
  <2>9. o \o two \in Seq(Chunks) BY <1>1, <2>3, ConcatFacts
  <2>10. PackArgument(p, c) = [output |-> o \o two, buff |-> e] BY <1>12 DEF d, two
  <2>11. PackArgument(p, c) \in Packed
    <3> DEFINE x == o \o two
    <3>1. x \in Seq(Chunks) /\ e \in Seq(Pieces) BY <1>1, <2>9
    <3> HIDE DEF x
    <3>2. [output |-> x, buff |-> e] \in Packed BY <3>1 DEF Packed
    <3> QED BY <2>10, <3>2 DEF x
  <2>12. PackArgument(p, c).output = o \o two /\ PackArgument(p, c).buff = e BY <2>10
  <2>13. Joined(TextOf, PackArgument(p, c).output) \o PackArgument(p, c).buff = j \o (b \o k)
    BY <1>9, <2>7, <2>8, <2>12 DEF k
  <2> QED BY <1>3, <1>11, <2>11, <2>13 DEF k, j, o, b
<1>13. CASE PackArgument(p, c) = [output |-> o, buff |-> (b \o l) \o t \o e]
  <2>1. PackArgument(p, c).output = o /\ PackArgument(p, c).buff = ((b \o l) \o t) \o e BY <1>13
  <2>2. PackArgument(p, c) \in Packed
    <3> DEFINE x == ((b \o l) \o t) \o e
    <3>1. x \in Seq(Pieces) /\ o \in Seq(Chunks) BY <1>1, <1>8
    <3> HIDE DEF x
    <3>2. [output |-> o, buff |-> x] \in Packed BY <3>1 DEF Packed
    <3> QED BY <1>13, <3>2 DEF x
  <2>3. Joined(TextOf, PackArgument(p, c).output) \o PackArgument(p, c).buff = j \o (b \o k)
    BY <1>9, <2>1 DEF k, j
  <2> QED BY <1>3, <1>11, <2>2, <2>3 DEF k, j, o, b
<1> QED BY <1>5, <1>12, <1>13

\* PackArgument is folded over arguments: g has what is packed after each.
LEMMA PackArgumentFolded ==
  ASSUME NEW b \in Packed, NEW q \in Seq(Chunks)
  PROVE  \E g : /\ g[0] = b /\ \A i \in 1..Len(q) : g[i] = PackArgument(g[i-1], q[i])
                /\ FoldLeft(PackArgument, b, q) = g[Len(q)]
<1> DEFINE n == Len(q)
           D == SUBSET (1..n)
           Of(it, s) == IF s = {} THEN b ELSE PackArgument(it[s \ {Max(s)}], q[Max(s)])
           F == [p \in Packed \X Chunks |-> PackArgument(p[1], p[2])]
           it == CHOOSE it : it = [s \in D |-> Of(it, s)]
<1>1. n \in Nat /\ DOMAIN q = 1..n /\ \A i \in 1..n : q[i] \in Chunks OBVIOUS
<1>2. FoldLeft(PackArgument, b, q) = it[1..n]
  BY <1>1, Zenon DEF FoldLeft, MapThenFoldSet
<1>3. F \in [Packed \X Chunks -> Packed]
  <2>1. ASSUME NEW p \in Packed \X Chunks PROVE PackArgument(p[1], p[2]) \in Packed
    <3>1. p[1] \in Packed /\ p[2] \in Chunks OBVIOUS
    <3> QED BY <3>1, PackArgumentFacts
  <2> QED BY <2>1
<1>4. \A p \in Packed, c \in Chunks : F[<<p, c>>] = PackArgument(p, c)
  <2>1. ASSUME NEW p \in Packed, NEW c \in Chunks PROVE F[<<p, c>>] = PackArgument(p, c)
    <3>1. <<p, c>> \in Packed \X Chunks OBVIOUS
    <3> QED BY <3>1
  <2> QED BY <2>1
<1> HIDE DEF F
<1>5. PICK h \in [D -> Packed] : Folds(F, b, q, h) BY <1>3, FoldExists
<1>6. ASSUME NEW s \in D PROVE h[s] = Of(h, s)
  <2>1. h[s] = IF s = {} THEN b ELSE F[<<h[s \ {Max(s)}], q[Max(s)]>>] BY <1>5 DEF Folds
  <2>2. CASE s = {} BY <2>1, <2>2
  <2>3. CASE s # {}
    <3>1. Max(s) \in s BY <1>1, <2>3, MaxFacts
    <3>2. Max(s) \in 1..n /\ s \ {Max(s)} \in D BY <3>1
    <3>3. h[s \ {Max(s)}] \in Packed /\ q[Max(s)] \in Chunks BY <1>1, <1>5, <3>2
    <3>4. F[<<h[s \ {Max(s)}], q[Max(s)]>>] = PackArgument(h[s \ {Max(s)}], q[Max(s)]) BY <1>4, <3>3
    <3> QED BY <2>1, <2>3, <3>4
  <2> QED BY <2>2, <2>3
<1> HIDE DEF Of
<1>7. h = [s \in D |-> Of(h, s)]
  <2>1. h = [s \in D |-> h[s]] BY <1>5
  <2> QED BY <1>6, <2>1
<1>8. it = [s \in D |-> Of(it, s)] BY <1>7
<1> HIDE DEF it
<1> DEFINE g == [i \in 0..n |-> it[1..i]]
<1>9. g[0] = b
  <2>1. 1..0 = {} /\ 0 \in 0..n /\ {} \in D BY <1>1
  <2>2. it[{}] = Of(it, {}) BY <1>8, <2>1
  <2> QED BY <2>1, <2>2 DEF Of
<1>10. ASSUME NEW i \in 1..n PROVE g[i] = PackArgument(g[i-1], q[i])
  <2>1. /\ 1..i \in D /\ 1..i # {} /\ Max(1..i) = i /\ (1..i) \ {i} = 1..(i-1)
        /\ i - 1 \in 0..n /\ i \in 0..n
    BY <1>1, Initials
  <2>2. it[1..i] = Of(it, 1..i) BY <1>8, <2>1
  <2>3. Of(it, 1..i) = PackArgument(it[1..(i-1)], q[i]) BY <2>1 DEF Of
  <2> QED BY <2>1, <2>2, <2>3
<1>11. g[n] = it[1..n] BY <1>1
<1> QED BY <1>2, <1>9, <1>10, <1>11

LEMMA PrefixFacts ==
  ASSUME NEW S, NEW q \in Seq(S), NEW i \in 1..Len(q)
  PROVE  /\ SubSeq(q, 1, i - 1) \in Seq(S) /\ q[i] \in S /\ i - 1 \in 0..Len(q)
         /\ SubSeq(q, 1, i) = Append(SubSeq(q, 1, i - 1), q[i])
<1> DEFINE p == SubSeq(q, 1, i - 1)
           r == SubSeq(q, 1, i)
<1>1. i \in Nat /\ i - 1 \in Nat /\ Len(q) \in Nat /\ q[i] \in S /\ i - 1 \in 0..Len(q) OBVIOUS
<1>2. p \in Seq(S) /\ Len(p) = i - 1 /\ \A j \in 1..(i-1) : p[j] = q[j] BY <1>1
<1>3. r \in Seq(S) /\ Len(r) = i /\ \A j \in 1..i : r[j] = q[j] BY <1>1
<1> HIDE DEF p, r
<1> DEFINE x == q[i]
           a == Append(p, x)
<1>4. /\ a \in Seq(S) /\ Len(a) = Len(p) + 1
      /\ \A j \in 1..Len(p) : a[j] = p[j]
      /\ a[Len(p) + 1] = x
  <2>1. p \in Seq(S) /\ x \in S BY <1>1, <1>2
  <2> HIDE DEF x
  <2> QED BY ONLY <2>1, AppendFacts DEF a
<1> HIDE DEF a
<1>5. ASSUME NEW j \in 1..Len(a) PROVE a[j] = r[j]
  <2>1. j \in 1..(i-1) \/ j = i BY <1>1, <1>2, <1>4
  <2>2. i - 1 + 1 = i BY <1>1
  <2> QED BY <1>2, <1>3, <1>4, <2>1, <2>2
<1>6. Len(a) = Len(r) BY <1>1, <1>2, <1>3, <1>4
<1>7. a = r BY <1>3, <1>4, <1>5, <1>6, SameFacts
<1> QED BY <1>1, <1>2, <1>7 DEF p, r, a

LEMMA WholeFacts ==
  ASSUME NEW S, NEW q \in Seq(S)
  PROVE  SubSeq(q, 1, 0) = <<>> /\ SubSeq(q, 1, Len(q)) = q
<1>1. SubSeq(q, 1, 0) = <<>> OBVIOUS
<1> DEFINE r == SubSeq(q, 1, Len(q))
<1>2. r \in Seq(S) /\ Len(r) = Len(q) /\ \A j \in 1..Len(q) : r[j] = q[j] OBVIOUS
<1> HIDE DEF r
<1>3. r = q BY <1>2, SameFacts
<1> QED BY <1>1, <1>3 DEF r

\* What F makes of one element more.
LEMMA JoinedPrefix ==
  ASSUME NEW A, NEW S, NEW F, Encodes(F, A, S), NEW q \in Seq(A), NEW i \in 1..Len(q)
  PROVE  Joined(F, SubSeq(q, 1, i)) = Joined(F, SubSeq(q, 1, i - 1)) \o F[q[i]]
<1> DEFINE p == SubSeq(q, 1, i - 1)
           x == q[i]
<1>1. p \in Seq(A) /\ x \in A /\ SubSeq(q, 1, i) = Append(p, x) BY PrefixFacts
<1> HIDE DEF p, x
<1>2. Joined(F, Append(p, x)) = Joined(F, p) \o F[x] BY <1>1, JoinedAppend
<1> QED BY <1>1, <1>2 DEF p, x

\* What G makes of what F makes.
LEMMA JoinedTwice ==
  ASSUME NEW A, NEW B, NEW S, NEW F, Encodes(F, A, B), NEW G, Encodes(G, B, S),
         NEW H, Encodes(H, A, S), \A a \in A : H[a] = Joined(G, F[a]), NEW q \in Seq(A)
  PROVE  Joined(G, Joined(F, q)) = Joined(H, q)
<1> DEFINE P == {n \in Nat : \A p \in Seq(A) : Len(p) = n => Joined(G, Joined(F, p)) = Joined(H, p)}
<1>1. 0 \in P
  <2>1. ASSUME NEW p \in Seq(A), Len(p) = 0 PROVE Joined(G, Joined(F, p)) = Joined(H, p)
    <3>1. p = <<>> BY <2>1, EmptyFacts
    <3>2. Joined(F, p) = <<>> /\ Joined(H, p) = <<>> BY <3>1, JoinedEmpty
    <3>3. Joined(G, <<>>) = <<>> BY JoinedEmpty
    <3> QED BY <3>2, <3>3
  <2> QED BY <2>1
<1>2. ASSUME NEW n \in Nat, n \in P PROVE n + 1 \in P
  <2>1. ASSUME NEW p \in Seq(A), Len(p) = n + 1 PROVE Joined(G, Joined(F, p)) = Joined(H, p)
    <3>1. PICK f \in Seq(A), x \in A : p = Append(f, x) /\ Len(f) = Len(p) - 1
      <4>1. p # <<>> BY <2>1, EmptyFacts
      <4> QED BY <4>1, FrontFacts
    <3>2. Joined(G, Joined(F, f)) = Joined(H, f)
      <4>1. Len(f) = n BY <2>1, <3>1
      <4> QED BY <1>2, <4>1
    <3> DEFINE a == Joined(F, f)
               b == F[x]
    <3>3. a \in Seq(B) BY JoinedType
    <3>4. b \in Seq(B) BY DEF Encodes
    <3>5. Joined(F, p) = a \o b BY <3>1, JoinedAppend
    <3> HIDE DEF a, b
    <3>6. Joined(G, a \o b) = Joined(G, a) \o Joined(G, b)
      <4>1. Encodes(G, B, S) /\ a \in Seq(B) /\ b \in Seq(B) BY <3>3, <3>4
      <4> QED BY ONLY <4>1, JoinedConcat
    <3>7. Joined(H, p) = Joined(H, f) \o H[x] BY <3>1, JoinedAppend
    <3>8. H[x] = Joined(G, b) BY DEF b
    <3> QED BY <3>2, <3>5, <3>6, <3>7, <3>8 DEF a
  <2> QED BY <2>1
<1> HIDE DEF P
<1>3. \A n \in Nat : n \in P BY <1>1, <1>2, Induction
<1>4. Len(q) \in Nat BY EmptyFacts
<1> QED BY <1>3, <1>4 DEF P

\* A command that may be sent.
Sendable == [name : Seq(Seq(Pieces)), args : Seq(Chunks), reply : Replies]

LEMMA ArgumentsFacts ==
  ASSUME NEW cmd \in Sendable
  PROVE  Arguments(cmd) \in Seq(Chunks) /\ Len(Arguments(cmd)) \in Nat
<1> DEFINE q == [i \in DOMAIN cmd.name |-> Chunk(cmd.name[i], FALSE)]
           r == cmd.args
<1>1. cmd.name \in Seq(Seq(Pieces)) /\ r \in Seq(Chunks) BY DEF Sendable
<1>2. Len(cmd.name) \in Nat /\ DOMAIN cmd.name = 1..Len(cmd.name)
      /\ \A i \in DOMAIN cmd.name : cmd.name[i] \in Seq(Pieces)
  BY <1>1
<1>3. \A i \in DOMAIN cmd.name : Chunk(cmd.name[i], FALSE) \in Chunks BY <1>2, ChunkFacts
<1>4. q \in Seq(Chunks)
  <2> DEFINE n == Len(cmd.name)
             x(i) == Chunk(cmd.name[i], FALSE)
  <2>1. n \in Nat /\ q = [i \in 1..n |-> x(i)] /\ \A i \in 1..n : x(i) \in Chunks BY <1>2, <1>3
  <2> HIDE DEF n, x, q
  <2> QED BY <2>1
<1> HIDE DEF q, r
<1>5. q \o r \in Seq(Chunks) BY <1>1, <1>4, ConcatFacts
<1>6. Arguments(cmd) = q \o r BY DEF Arguments, q, r
<1> HIDE DEF Arguments
<1> QED BY <1>5, <1>6, EmptyFacts

LEMMA EncodedFacts ==
  ASSUME NEW args \in Seq(Chunks)
  PROVE  /\ Line("array", Len(args)) \in Seq(Pieces)
         /\ Encoded(args) \in Seq(Pieces) /\ Encoded(args) = Line("array", Len(args)) \o Joined(BulkOf, args)
<1> DEFINE f == [i \in DOMAIN args |-> Line("bulk", Len(args[i].text)) \o args[i].text \o <<CRLF>>]
           g == [i \in DOMAIN args |-> BulkOf[args[i]]]
<1>1. \A i \in DOMAIN args : args[i] \in Chunks OBVIOUS
<1>2. f = g BY <1>1 DEF BulkOf
<1>3. Len(args) \in Nat /\ "array" \in Types BY RepliesAssumption, EmptyFacts
<1> DEFINE l == Line("array", Len(args))
           j == Joined(BulkOf, args)
<1>4. l \in Seq(Pieces) BY <1>3, LineFacts
<1>5. j \in Seq(Pieces) BY ChunkFacts, JoinedType
<1>6. Encoded(args) = l \o j BY <1>2 DEF Encoded, Joined
<1> HIDE DEF l, j
<1>7. l \o j \in Seq(Pieces) BY <1>4, <1>5, ConcatFacts
<1> QED BY <1>4, <1>6, <1>7 DEF l, j

\* The chunks of one command, one behind the other, are the command.
LEMMA PackCommandFacts ==
  ASSUME NEW cmd \in Sendable
  PROVE  /\ pack_command(cmd) \in Seq(Chunks)
         /\ Joined(TextOf, pack_command(cmd)) = Encoded(Arguments(cmd))
<1> DEFINE args == Arguments(cmd)
           n == Len(args)
           l == Line("array", n)
           b == [output |-> <<>>, buff |-> l]
<1>1. args \in Seq(Chunks) /\ n \in Nat BY ArgumentsFacts
<1>2. l \in Seq(Pieces) /\ Encoded(args) = l \o Joined(BulkOf, args) BY <1>1, EncodedFacts
<1> HIDE DEF args, l
<1>3. b \in Packed /\ b.output = <<>> /\ b.buff = l BY <1>2 DEF Packed
<1> HIDE DEF b
<1>4. PICK g : /\ g[0] = b /\ \A i \in 1..Len(args) : g[i] = PackArgument(g[i-1], args[i])
               /\ FoldLeft(PackArgument, b, args) = g[Len(args)]
  BY <1>1, <1>3, PackArgumentFolded
<1> DEFINE Is(i) == /\ g[i] \in Packed
                    /\ Joined(TextOf, g[i].output) \o g[i].buff = l \o Joined(BulkOf, SubSeq(args, 1, i))
           P == {i \in Nat : i <= n => Is(i)}
<1>5. Is(0)
  <2>1. SubSeq(args, 1, 0) = <<>> BY <1>1, WholeFacts
  <2>2. Joined(TextOf, <<>>) = <<>> /\ Joined(BulkOf, <<>>) = <<>> BY JoinedEmpty
  <2>3. <<>> \o l = l /\ l \o <<>> = l BY <1>2, ConcatFacts
  <2> QED BY <1>3, <1>4, <2>1, <2>2, <2>3
<1>6. ASSUME NEW i \in Nat, i + 1 <= n, Is(i) PROVE Is(i + 1)
  <2> DEFINE k == i + 1
             c == args[k]
             p == g[i]
             j == Joined(BulkOf, SubSeq(args, 1, i))
  <2>1. k \in 1..n /\ k - 1 = i /\ i <= n BY <1>1, <1>6
  <2>2. c \in Chunks BY <1>1, <2>1
  <2>3. p \in Packed /\ Joined(TextOf, p.output) \o p.buff = l \o j BY <1>6, <2>1
  <2>4. g[k] = PackArgument(p, c) BY <1>4, <2>1
  <2>5. Joined(BulkOf, SubSeq(args, 1, k)) = j \o BulkOf[c]
    <3>1. Joined(BulkOf, SubSeq(args, 1, k)) = Joined(BulkOf, SubSeq(args, 1, k - 1)) \o BulkOf[args[k]]
      <4>1. Encodes(BulkOf, Chunks, Pieces) /\ args \in Seq(Chunks) /\ k \in 1..Len(args)
        BY <1>1, <2>1, ChunkFacts
      <4> HIDE DEF k
      <4> QED BY ONLY <4>1, JoinedPrefix
    <3> QED BY <2>1, <3>1
  <2>6. j \in Seq(Pieces)
    <3> DEFINE s == SubSeq(args, 1, i)
    <3>1. s \in Seq(Chunks) BY <1>1, <2>1
    <3> HIDE DEF s
    <3>2. Joined(BulkOf, s) \in Seq(Pieces) BY <3>1, ChunkFacts, JoinedType
    <3> QED BY <3>2 DEF s
  <2>7. BulkOf[c] \in Seq(Pieces) BY <2>2, ChunkFacts DEF Encodes
  <2> HIDE DEF k, c, p, j
  <2>8. /\ g[k] \in Packed
        /\ Joined(TextOf, g[k].output) \o g[k].buff = (l \o j) \o BulkOf[c]
    BY <2>2, <2>3, <2>4, PackArgumentFacts
  <2> DEFINE x == BulkOf[c]
  <2>9. (l \o j) \o x = l \o (j \o x)
    <3>1. l \in Seq(Pieces) /\ j \in Seq(Pieces) /\ x \in Seq(Pieces) BY <1>2, <2>6, <2>7
    <3> HIDE DEF x
    <3> QED BY ONLY <3>1, Associative
  <2> QED BY <2>5, <2>8, <2>9 DEF k
<1> HIDE DEF Is
<1>7. 0 \in P /\ \A i \in Nat : i \in P => i + 1 \in P
  <2>1. \A i \in Nat : i + 1 <= n => i <= n /\ i + 1 \in Nat BY <1>1
  <2> QED BY <1>5, <1>6, <2>1
<1> HIDE DEF P
<1>8. /\ g[n] \in Packed
      /\ Joined(TextOf, g[n].output) \o g[n].buff = l \o Joined(BulkOf, SubSeq(args, 1, n))
  <2>1. n \in P BY <1>1, <1>7, Induction
  <2>2. Is(n) BY <1>1, <2>1 DEF P
  <2> QED BY <2>2 DEF Is
<1>9. SubSeq(args, 1, n) = args BY <1>1, WholeFacts
<1> DEFINE packed == g[n]
           o == packed.output
           last == Chunk(packed.buff, FALSE)
<1>10. pack_command(cmd) = Append(o, last)
  BY <1>4 DEF pack_command, args, b, l
<1>11. o \in Seq(Chunks) /\ packed.buff \in Seq(Pieces) BY <1>8 DEF Packed
<1>12. last \in Chunks /\ last.text = packed.buff BY <1>11, ChunkFacts
<1>13. TextOf[last] = packed.buff BY <1>12 DEF TextOf
<1>14. Joined(TextOf, o) \o packed.buff = Encoded(args) BY <1>2, <1>8, <1>9
<1> HIDE DEF o, last, packed
<1>15. Joined(TextOf, Append(o, last)) = Joined(TextOf, o) \o TextOf[last] BY <1>11, <1>12, ChunkFacts, JoinedAppend
<1>16. Append(o, last) \in Seq(Chunks) BY <1>11, <1>12, AppendFacts
<1> QED BY <1>10, <1>13, <1>14, <1>15, <1>16 DEF args

-----------------------------------------------------------------------------
PackedChunks == [output : Seq(Seq(Pieces)), pieces : Seq(Pieces), length : Nat]

\* A chunk that is packed is behind what was packed.
LEMMA PackChunkFacts ==
  ASSUME NEW p \in PackedChunks, NEW c \in Chunks
  PROVE  /\ PackChunk(p, c) \in PackedChunks
         /\ FlattenSeq(PackChunk(p, c).output) \o PackChunk(p, c).pieces
              = (FlattenSeq(p.output) \o p.pieces) \o TextOf[c]
<1> DEFINE t == c.text
           e == <<>>
           full == p.length > BufferCutoff \/ IsLarge(c)
           o == IF full THEN Append(p.output, p.pieces) ELSE p.output
           b == IF full THEN e ELSE p.pieces
<1>1. /\ p.output \in Seq(Seq(Pieces)) /\ p.pieces \in Seq(Pieces) /\ t \in Seq(Pieces)
      /\ e \in Seq(Pieces) /\ TextOf[c] = t
  BY ChunkFacts, EmptyFacts DEF PackedChunks, TextOf
<1>2. /\ FlattenSeq(p.output) \in Seq(Pieces)
      /\ FlattenSeq(Append(p.output, p.pieces)) = FlattenSeq(p.output) \o p.pieces
  BY <1>1, FlattenAppend
<1>3. /\ o \in Seq(Seq(Pieces)) /\ b \in Seq(Pieces)
      /\ FlattenSeq(o) \o b = FlattenSeq(p.output) \o p.pieces
  <2> DEFINE f == FlattenSeq(p.output)
             q == p.pieces
             po == p.output
  <2>1. f \in Seq(Pieces) /\ q \in Seq(Pieces) /\ po \in Seq(Seq(Pieces)) BY <1>1, <1>2
  <2> HIDE DEF f, q
  <2>2. f \o q \in Seq(Pieces) BY <2>1, ConcatFacts
  <2> DEFINE x == f \o q
  <2> HIDE DEF x
  <2>3. x \o <<>> = x BY <2>2, ConcatFacts DEF x
  <2> HIDE DEF po
  <2>4. Append(po, q) \in Seq(Seq(Pieces)) BY <2>1, AppendFacts
  <2>5. CASE full
    <3>1. o = Append(po, q) /\ b = <<>> BY <2>5 DEF po, q
    <3>2. FlattenSeq(Append(po, q)) = x BY <1>2 DEF po, q, f, x
    <3> HIDE DEF o, b
    <3> QED BY <1>1, <2>3, <2>4, <3>1, <3>2 DEF x, f, q, e
  <2>6. CASE ~full
    <3>1. o = po /\ b = q BY <2>6 DEF po, q
    <3> HIDE DEF o, b
    <3> QED BY <2>1, <3>1 DEF po, f, q
  <2> QED BY <2>5, <2>6
<1>4. \/ PackChunk(p, c) = [output |-> Append(o, t), pieces |-> b, length |-> Len(b)] /\ b = e
      \/ PackChunk(p, c) = [output |-> o, pieces |-> b \o t, length |-> Len(b \o t)]
  BY DEF PackChunk
<1> HIDE DEF t, full, o, b, e
<1>5. /\ FlattenSeq(o) \in Seq(Pieces) /\ FlattenSeq(Append(o, t)) = FlattenSeq(o) \o t
      /\ Append(o, t) \in Seq(Seq(Pieces)) /\ b \o t \in Seq(Pieces)
  <2>1. FlattenSeq(o) \in Seq(Pieces) /\ FlattenSeq(Append(o, t)) = FlattenSeq(o) \o t
    BY <1>1, <1>3, FlattenAppend
  <2>2. Append(o, t) \in Seq(Seq(Pieces)) BY <1>1, <1>3, AppendFacts
  <2>3. b \o t \in Seq(Pieces) BY <1>1, <1>3, ConcatFacts
  <2> QED BY <2>1, <2>2, <2>3
<1>6. Len(b) \in Nat /\ Len(b \o t) \in Nat BY <1>3, <1>5, EmptyFacts
<1> DEFINE f == FlattenSeq(o)
<1>7. (f \o b) \o t = f \o (b \o t)
  <2>1. f \in Seq(Pieces) /\ b \in Seq(Pieces) /\ t \in Seq(Pieces) BY <1>1, <1>3, <1>5
  <2> HIDE DEF f
  <2> QED BY ONLY <2>1, Associative
<1>8. CASE PackChunk(p, c) = [output |-> Append(o, t), pieces |-> b, length |-> Len(b)] /\ b = e
  <2>1. PackChunk(p, c).output = Append(o, t) /\ PackChunk(p, c).pieces = b BY <1>8
  <2>2. PackChunk(p, c) \in PackedChunks BY <1>3, <1>5, <1>6, <1>8 DEF PackedChunks
  <2>3. e \o t = t /\ (f \o t) \o e = f \o t
    <3>1. f \o t \in Seq(Pieces) BY <1>1, <1>5, ConcatFacts
    <3> DEFINE x == f \o t
    <3> HIDE DEF x
    <3>2. x \o <<>> = x BY <3>1, ConcatFacts DEF x
    <3>3. <<>> \o t = t BY <1>1, ConcatFacts
    <3> QED BY <3>2, <3>3 DEF e, x
  <2>4. (f \o t) \o b = f \o (b \o t) BY <1>8, <2>3
  <2> QED BY <1>1, <1>3, <1>5, <1>7, <2>1, <2>2, <2>4
<1>9. CASE PackChunk(p, c) = [output |-> o, pieces |-> b \o t, length |-> Len(b \o t)]
  <2>1. PackChunk(p, c).output = o /\ PackChunk(p, c).pieces = b \o t BY <1>9
  <2>2. PackChunk(p, c) \in PackedChunks
    <3> DEFINE x == b \o t
    <3>1. x \in Seq(Pieces) /\ Len(x) \in Nat BY <1>5, <1>6
    <3> HIDE DEF x
    <3>2. [output |-> o, pieces |-> x, length |-> Len(x)] \in PackedChunks BY <1>3, <3>1 DEF PackedChunks
    <3> QED BY <1>9, <3>2 DEF x
  <2> QED BY <1>1, <1>3, <1>7, <2>1, <2>2
<1> QED BY <1>4, <1>8, <1>9

\* PackChunk is folded over chunks: g has what is packed after each.
LEMMA PackChunkFolded ==
  ASSUME NEW b \in PackedChunks, NEW q \in Seq(Chunks)
  PROVE  \E g : /\ g[0] = b /\ \A i \in 1..Len(q) : g[i] = PackChunk(g[i-1], q[i])
                /\ FoldLeft(PackChunk, b, q) = g[Len(q)]
<1> DEFINE n == Len(q)
           D == SUBSET (1..n)
           Of(it, s) == IF s = {} THEN b ELSE PackChunk(it[s \ {Max(s)}], q[Max(s)])
           F == [p \in PackedChunks \X Chunks |-> PackChunk(p[1], p[2])]
           it == CHOOSE it : it = [s \in D |-> Of(it, s)]
<1>1. n \in Nat /\ DOMAIN q = 1..n /\ \A i \in 1..n : q[i] \in Chunks OBVIOUS
<1>2. FoldLeft(PackChunk, b, q) = it[1..n]
  BY <1>1, Zenon DEF FoldLeft, MapThenFoldSet
<1>3. F \in [PackedChunks \X Chunks -> PackedChunks]
  <2>1. ASSUME NEW p \in PackedChunks \X Chunks PROVE PackChunk(p[1], p[2]) \in PackedChunks
    <3>1. p[1] \in PackedChunks /\ p[2] \in Chunks OBVIOUS
    <3> QED BY <3>1, PackChunkFacts
  <2> QED BY <2>1
<1>4. \A p \in PackedChunks, c \in Chunks : F[<<p, c>>] = PackChunk(p, c)
  <2>1. ASSUME NEW p \in PackedChunks, NEW c \in Chunks PROVE F[<<p, c>>] = PackChunk(p, c)
    <3>1. <<p, c>> \in PackedChunks \X Chunks OBVIOUS
    <3> QED BY <3>1
  <2> QED BY <2>1
<1> HIDE DEF F
<1>5. PICK h \in [D -> PackedChunks] : Folds(F, b, q, h) BY <1>3, FoldExists
<1>6. ASSUME NEW s \in D PROVE h[s] = Of(h, s)
  <2>1. h[s] = IF s = {} THEN b ELSE F[<<h[s \ {Max(s)}], q[Max(s)]>>] BY <1>5 DEF Folds
  <2>2. CASE s = {} BY <2>1, <2>2
  <2>3. CASE s # {}
    <3>1. Max(s) \in s BY <1>1, <2>3, MaxFacts
    <3>2. Max(s) \in 1..n /\ s \ {Max(s)} \in D BY <3>1
    <3>3. h[s \ {Max(s)}] \in PackedChunks /\ q[Max(s)] \in Chunks BY <1>1, <1>5, <3>2
    <3>4. F[<<h[s \ {Max(s)}], q[Max(s)]>>] = PackChunk(h[s \ {Max(s)}], q[Max(s)]) BY <1>4, <3>3
    <3> QED BY <2>1, <2>3, <3>4
  <2> QED BY <2>2, <2>3
<1> HIDE DEF Of
<1>7. h = [s \in D |-> Of(h, s)]
  <2>1. h = [s \in D |-> h[s]] BY <1>5
  <2> QED BY <1>6, <2>1
<1>8. it = [s \in D |-> Of(it, s)] BY <1>7
<1> HIDE DEF it
<1> DEFINE g == [i \in 0..n |-> it[1..i]]
<1>9. g[0] = b
  <2>1. 1..0 = {} /\ 0 \in 0..n /\ {} \in D BY <1>1
  <2>2. it[{}] = Of(it, {}) BY <1>8, <2>1
  <2> QED BY <2>1, <2>2 DEF Of
<1>10. ASSUME NEW i \in 1..n PROVE g[i] = PackChunk(g[i-1], q[i])
  <2>1. /\ 1..i \in D /\ 1..i # {} /\ Max(1..i) = i /\ (1..i) \ {i} = 1..(i-1)
        /\ i - 1 \in 0..n /\ i \in 0..n
    BY <1>1, Initials
  <2>2. it[1..i] = Of(it, 1..i) BY <1>8, <2>1
  <2>3. Of(it, 1..i) = PackChunk(it[1..(i-1)], q[i]) BY <2>1 DEF Of
  <2> QED BY <2>1, <2>2, <2>3
<1>11. g[n] = it[1..n] BY <1>1
<1> QED BY <1>2, <1>9, <1>10, <1>11

\* Chunks that are joined or left alone are written in their order.
LEMMA PackedAll ==
  ASSUME NEW chunks \in Seq(Chunks), NEW b, b = [output |-> <<>>, pieces |-> <<>>, length |-> 0]
  PROVE  LET packed == FoldLeft(PackChunk, b, chunks)
         IN  /\ packed \in PackedChunks
             /\ FlattenSeq(packed.output) \o packed.pieces = Joined(TextOf, chunks)
<1> DEFINE n == Len(chunks)
           e == <<>>
<1>1. n \in Nat BY EmptyFacts
<1>2. /\ b \in PackedChunks /\ e \in Seq(Pieces)
      /\ FlattenSeq(b.output) \o b.pieces = e
  <2>1. e \in Seq(Seq(Pieces)) /\ e \in Seq(Pieces) BY EmptyFacts
  <2>2. FlattenSeq(<<>>) = <<>> BY DEF FlattenSeq
  <2>3. <<>> \o <<>> = <<>> OBVIOUS
  <2> QED BY <2>1, <2>2, <2>3 DEF PackedChunks
<1>3. PICK g : /\ g[0] = b /\ \A i \in 1..Len(chunks) : g[i] = PackChunk(g[i-1], chunks[i])
               /\ FoldLeft(PackChunk, b, chunks) = g[Len(chunks)]
  BY <1>2, PackChunkFolded
<1> DEFINE Is(i) == /\ g[i] \in PackedChunks
                    /\ FlattenSeq(g[i].output) \o g[i].pieces = Joined(TextOf, SubSeq(chunks, 1, i))
           P == {i \in Nat : i <= n => Is(i)}
<1>4. Is(0)
  <2>1. SubSeq(chunks, 1, 0) = <<>> BY WholeFacts
  <2>2. Joined(TextOf, <<>>) = <<>> BY JoinedEmpty
  <2> QED BY <1>2, <1>3, <2>1, <2>2
<1>5. ASSUME NEW i \in Nat, i + 1 <= n, Is(i) PROVE Is(i + 1)
  <2> DEFINE k == i + 1
             c == chunks[k]
             p == g[i]
             j == Joined(TextOf, SubSeq(chunks, 1, i))
  <2>1. k \in 1..n /\ k - 1 = i /\ i <= n BY <1>1, <1>5
  <2>2. c \in Chunks BY <1>1, <2>1
  <2>3. p \in PackedChunks /\ FlattenSeq(p.output) \o p.pieces = j BY <1>5
  <2>4. g[k] = PackChunk(p, c) BY <1>3, <2>1
  <2>5. Joined(TextOf, SubSeq(chunks, 1, k)) = j \o TextOf[c]
    <3>1. Joined(TextOf, SubSeq(chunks, 1, k)) = Joined(TextOf, SubSeq(chunks, 1, k - 1)) \o TextOf[chunks[k]]
      <4>1. Encodes(TextOf, Chunks, Pieces) /\ chunks \in Seq(Chunks) /\ k \in 1..Len(chunks)
        BY <2>1, ChunkFacts
      <4> HIDE DEF k
      <4> QED BY ONLY <4>1, JoinedPrefix
    <3> QED BY <2>1, <3>1
  <2> HIDE DEF k, c, p, j
  <2>6. /\ g[k] \in PackedChunks
        /\ FlattenSeq(g[k].output) \o g[k].pieces = j \o TextOf[c]
    BY <2>2, <2>3, <2>4, PackChunkFacts
  <2> QED BY <2>5, <2>6 DEF k
<1> HIDE DEF Is
<1>6. 0 \in P /\ \A i \in Nat : i \in P => i + 1 \in P
  <2>1. \A i \in Nat : i + 1 <= n => i <= n /\ i + 1 \in Nat BY <1>1
  <2> QED BY <1>4, <1>5, <2>1
<1> HIDE DEF P
<1>7. /\ g[n] \in PackedChunks
      /\ FlattenSeq(g[n].output) \o g[n].pieces = Joined(TextOf, SubSeq(chunks, 1, n))
  <2>1. n \in P BY <1>1, <1>6, Induction
  <2>2. Is(n) BY <1>1, <2>1 DEF P
  <2> QED BY <2>2 DEF Is
<1>8. SubSeq(chunks, 1, n) = chunks BY WholeFacts
<1> QED BY <1>3, <1>7, <1>8

PackOf == [cmd \in Sendable |-> pack_command(cmd)]
EncodedOf == [cmd \in Sendable |-> Encoded(Arguments(cmd))]

LEMMA SendableFacts ==
  /\ Encodes(PackOf, Sendable, Chunks) /\ Encodes(EncodedOf, Sendable, Pieces)
  /\ \A cmd \in Sendable : EncodedOf[cmd] = Joined(TextOf, PackOf[cmd])
<1>1. \A cmd \in Sendable : /\ pack_command(cmd) \in Seq(Chunks)
                            /\ Joined(TextOf, pack_command(cmd)) = Encoded(Arguments(cmd))
  BY PackCommandFacts
<1>2. PackOf \in [Sendable -> Seq(Chunks)] BY <1>1 DEF PackOf
<1>3. ASSUME NEW cmd \in Sendable PROVE Encoded(Arguments(cmd)) \in Seq(Pieces)
  <2> DEFINE args == Arguments(cmd)
  <2>1. args \in Seq(Chunks) BY ArgumentsFacts
  <2> HIDE DEF args
  <2>2. Encoded(args) \in Seq(Pieces) BY <2>1, EncodedFacts
  <2> QED BY <2>2 DEF args
<1>4. EncodedOf \in [Sendable -> Seq(Pieces)] BY <1>3 DEF EncodedOf
<1>5. \A cmd \in Sendable : EncodedOf[cmd] = Joined(TextOf, PackOf[cmd]) BY <1>1 DEF PackOf, EncodedOf
<1> QED BY <1>2, <1>4, <1>5 DEF Encodes

\* Whatever the commands and the cutoff, and whether they are a pipeline or one command,
\* what is written is the commands in their order, each as an array of bulks, so that
\* Redis answers each of them.
THEOREM PackingIsFaithful ==
  \A cmds \in Seq(Sendable), pipelined \in BOOLEAN :
    pipelined \/ Len(cmds) = 1 =>
      Answers(cmds, Written(cmds, pipelined)) = [i \in DOMAIN cmds |-> cmds[i].reply]
<1> SUFFICES ASSUME NEW cmds \in Seq(Sendable), NEW pipelined \in BOOLEAN, pipelined \/ Len(cmds) = 1
             PROVE  Answers(cmds, Written(cmds, pipelined)) = [i \in DOMAIN cmds |-> cmds[i].reply]
  OBVIOUS
<1> DEFINE all == Joined(EncodedOf, cmds)
<1>1. FlattenSeq([i \in DOMAIN cmds |-> Encoded(Arguments(cmds[i]))]) = all
  <2>1. \A i \in DOMAIN cmds : cmds[i] \in Sendable OBVIOUS
  <2>2. \A i \in DOMAIN cmds : EncodedOf[cmds[i]] = Encoded(Arguments(cmds[i])) BY <2>1 DEF EncodedOf
  <2> HIDE DEF EncodedOf
  <2>3. [i \in DOMAIN cmds |-> EncodedOf[cmds[i]]] = [i \in DOMAIN cmds |-> Encoded(Arguments(cmds[i]))]
    BY <2>2
  <2> QED BY <2>3 DEF Joined
<1>2. CASE pipelined
  <2> DEFINE chunks == FlattenSeq([i \in DOMAIN cmds |-> pack_command(cmds[i])])
             b == [output |-> <<>>, pieces |-> <<>>, length |-> 0]
             packed == FoldLeft(PackChunk, b, chunks)
  <2>1. chunks = Joined(PackOf, cmds)
    <3>1. \A i \in DOMAIN cmds : cmds[i] \in Sendable OBVIOUS
    <3>2. \A i \in DOMAIN cmds : PackOf[cmds[i]] = pack_command(cmds[i]) BY <3>1 DEF PackOf
    <3>3. [i \in DOMAIN cmds |-> PackOf[cmds[i]]] = [i \in DOMAIN cmds |-> pack_command(cmds[i])]
      BY <3>2
    <3> QED BY <3>3 DEF Joined
  <2>2. chunks \in Seq(Chunks)
    <3>1. Joined(PackOf, cmds) \in Seq(Chunks) BY SendableFacts, JoinedType
    <3> QED BY <2>1, <3>1
  <2>3. Joined(TextOf, Joined(PackOf, cmds)) = all BY SendableFacts, ChunkFacts, JoinedTwice
  <2>4. pack_commands(cmds) = IF packed.pieces # <<>> THEN Append(packed.output, packed.pieces) ELSE packed.output
    BY DEF pack_commands
  <2> HIDE DEF chunks
  <2>5. packed \in PackedChunks /\ FlattenSeq(packed.output) \o packed.pieces = Joined(TextOf, chunks)
    <3> DEFINE c == b
    <3>1. c = [output |-> <<>>, pieces |-> <<>>, length |-> 0] OBVIOUS
    <3> HIDE DEF c
    <3>2. /\ FoldLeft(PackChunk, c, chunks) \in PackedChunks
          /\ FlattenSeq(FoldLeft(PackChunk, c, chunks).output) \o FoldLeft(PackChunk, c, chunks).pieces
               = Joined(TextOf, chunks)
      BY <2>2, <3>1, PackedAll
    <3> QED BY <3>2 DEF c
  <2> HIDE DEF packed
  <2> DEFINE o == packed.output
             p == packed.pieces
  <2>6. o \in Seq(Seq(Pieces)) /\ p \in Seq(Pieces) BY <2>5 DEF PackedChunks
  <2>7. o = packed.output /\ p = packed.pieces OBVIOUS
  <2> HIDE DEF o, p
  <2>8. FlattenSeq(o) \in Seq(Pieces) /\ FlattenSeq(Append(o, p)) = FlattenSeq(o) \o p BY <2>6, FlattenAppend
  <2>9. FlattenSeq(o) \o <<>> = FlattenSeq(o)
    <3> DEFINE f == FlattenSeq(o)
    <3>1. f \in Seq(Pieces) BY <2>8
    <3> HIDE DEF f
    <3>2. f \o <<>> = f BY <3>1, ConcatFacts
    <3> QED BY <3>2 DEF f
  <2>10. FlattenSeq(pack_commands(cmds)) = FlattenSeq(o) \o p BY <2>4, <2>7, <2>8, <2>9
  <2>11. Written(cmds, pipelined) = all BY <1>2, <2>1, <2>3, <2>5, <2>7, <2>10 DEF Written
  <2> QED BY <1>1, <2>11 DEF Answers
<1>3. CASE ~pipelined
  <2> DEFINE cmd == cmds[1]
             c == pack_command(cmd)
  <2>1. Len(cmds) = 1 /\ cmd \in Sendable BY <1>3
  <2>2. cmds = <<cmd>>
    <3> DEFINE s == <<cmd>>
    <3>1. s \in Seq(Sendable) /\ Len(s) = 1 /\ s[1] = cmd BY <2>1, SingleFacts
    <3> HIDE DEF s
    <3>2. \A i \in 1..Len(cmds) : cmds[i] = s[i] BY <2>1, <3>1
    <3>3. cmds = s BY <2>1, <3>1, <3>2, SameFacts
    <3> QED BY <3>3 DEF s
  <2>3. all = EncodedOf[cmd]
    <3> HIDE DEF cmd
    <3>1. Joined(EncodedOf, <<cmd>>) = EncodedOf[cmd] BY <2>1, SendableFacts, JoinedSingle
    <3> QED BY <2>2, <3>1
  <2>4. c \in Seq(Chunks) /\ Joined(TextOf, c) = EncodedOf[cmd] BY <2>1, PackCommandFacts DEF EncodedOf
  <2>5. Written(cmds, pipelined) = FlattenSeq([i \in DOMAIN c |-> c[i].text]) BY <1>3 DEF Written
  <2> HIDE DEF c, cmd, all
  <2>6. [i \in DOMAIN c |-> c[i].text] = [i \in DOMAIN c |-> TextOf[c[i]]]
    <3>1. \A i \in DOMAIN c : c[i] \in Chunks BY <2>4
    <3> QED BY <3>1 DEF TextOf
  <2>7. Written(cmds, pipelined) = all BY <2>3, <2>4, <2>5, <2>6 DEF Joined
  <2> QED BY <1>1, <2>7 DEF Answers
<1> QED BY <1>2, <1>3

-----------------------------------------------------------------------------
(* The builder of BITFIELD. *)

Done == [overflow : Overflows, results : Seq(Outcomes)]

LEMMA CarryFacts ==
  ASSUME NEW p \in Done, NEW op \in OperationTexts
  PROVE  Carry(p, op) \in Done
<1> DEFINE r == p.results
           v == p.overflow
<1>1. r \in Seq(Outcomes) /\ v \in Overflows /\ p = [overflow |-> v, results |-> r] BY DEF Done
<1> HIDE DEF r, v
<1>2. CASE \E o \in Overflows : op = <<"OVERFLOW", o>>
  <2>1. PICK o \in Overflows : op = <<"OVERFLOW", o>> BY <1>2
  <2>2. op[1] = "OVERFLOW" /\ op[2] = o BY <2>1
  <2>3. Carry(p, op) = [overflow |-> o, results |-> r] BY <1>1, <2>2 DEF Carry
  <2> QED BY <1>1, <2>3 DEF Done
<1>3. CASE \E name \in Names : op = <<name>>
  <2>1. PICK name \in Names : op = <<name>> BY <1>3
  <2>2. op[1] = name /\ name # "OVERFLOW" BY <2>1 DEF Names
  <2> DEFINE x == Result(name, v)
  <2>3. x \in Outcomes BY <1>1 DEF Outcomes
  <2>4. Carry(p, op) = [overflow |-> v, results |-> Append(r, x)] BY <1>1, <2>2 DEF Carry
  <2> HIDE DEF x
  <2>5. Append(r, x) \in Seq(Outcomes) BY <1>1, <2>3, AppendFacts
  <2> QED BY <1>1, <2>4, <2>5 DEF Done
<1> QED BY <1>2, <1>3 DEF OperationTexts

\* Carry is folded over operations: g has what is done after each.
LEMMA CarryFolded ==
  ASSUME NEW b \in Done, NEW q \in Seq(OperationTexts)
  PROVE  \E g : /\ g[0] = b /\ \A i \in 1..Len(q) : g[i] = Carry(g[i-1], q[i])
                /\ FoldLeft(Carry, b, q) = g[Len(q)]
<1> DEFINE n == Len(q)
           D == SUBSET (1..n)
           Of(it, s) == IF s = {} THEN b ELSE Carry(it[s \ {Max(s)}], q[Max(s)])
           F == [p \in Done \X OperationTexts |-> Carry(p[1], p[2])]
           it == CHOOSE it : it = [s \in D |-> Of(it, s)]
<1>1. n \in Nat /\ DOMAIN q = 1..n /\ \A i \in 1..n : q[i] \in OperationTexts OBVIOUS
<1>2. FoldLeft(Carry, b, q) = it[1..n]
  BY <1>1, Zenon DEF FoldLeft, MapThenFoldSet
<1>3. F \in [Done \X OperationTexts -> Done]
  <2>1. ASSUME NEW p \in Done \X OperationTexts PROVE Carry(p[1], p[2]) \in Done
    <3>1. p[1] \in Done /\ p[2] \in OperationTexts OBVIOUS
    <3> QED BY <3>1, CarryFacts
  <2> QED BY <2>1
<1>4. \A p \in Done, op \in OperationTexts : F[<<p, op>>] = Carry(p, op)
  <2>1. ASSUME NEW p \in Done, NEW op \in OperationTexts PROVE F[<<p, op>>] = Carry(p, op)
    <3>1. <<p, op>> \in Done \X OperationTexts OBVIOUS
    <3> QED BY <3>1
  <2> QED BY <2>1
<1> HIDE DEF F
<1>5. PICK h \in [D -> Done] : Folds(F, b, q, h) BY <1>3, FoldExists
<1>6. ASSUME NEW s \in D PROVE h[s] = Of(h, s)
  <2>1. h[s] = IF s = {} THEN b ELSE F[<<h[s \ {Max(s)}], q[Max(s)]>>] BY <1>5 DEF Folds
  <2>2. CASE s = {} BY <2>1, <2>2
  <2>3. CASE s # {}
    <3>1. Max(s) \in s BY <1>1, <2>3, MaxFacts
    <3>2. Max(s) \in 1..n /\ s \ {Max(s)} \in D BY <3>1
    <3>3. h[s \ {Max(s)}] \in Done /\ q[Max(s)] \in OperationTexts BY <1>1, <1>5, <3>2
    <3>4. F[<<h[s \ {Max(s)}], q[Max(s)]>>] = Carry(h[s \ {Max(s)}], q[Max(s)]) BY <1>4, <3>3
    <3> QED BY <2>1, <2>3, <3>4
  <2> QED BY <2>2, <2>3
<1> HIDE DEF Of
<1>7. h = [s \in D |-> Of(h, s)]
  <2>1. h = [s \in D |-> h[s]] BY <1>5
  <2> QED BY <1>6, <2>1
<1>8. it = [s \in D |-> Of(it, s)] BY <1>7
<1> HIDE DEF it
<1> DEFINE g == [i \in 0..n |-> it[1..i]]
<1>9. g[0] = b
  <2>1. 1..0 = {} /\ 0 \in 0..n /\ {} \in D BY <1>1
  <2>2. it[{}] = Of(it, {}) BY <1>8, <2>1
  <2> QED BY <2>1, <2>2 DEF Of
<1>10. ASSUME NEW i \in 1..n PROVE g[i] = Carry(g[i-1], q[i])
  <2>1. /\ 1..i \in D /\ 1..i # {} /\ Max(1..i) = i /\ (1..i) \ {i} = 1..(i-1)
        /\ i - 1 \in 0..n /\ i \in 0..n
    BY <1>1, Initials
  <2>2. it[1..i] = Of(it, 1..i) BY <1>8, <2>1
  <2>3. Of(it, 1..i) = Carry(it[1..(i-1)], q[i]) BY <2>1 DEF Of
  <2> QED BY <2>1, <2>2, <2>3
<1>11. g[n] = it[1..n] BY <1>1
<1> QED BY <1>2, <1>9, <1>10, <1>11

\* What was carried out of nothing, and of one operation more.
LEMMA CarriedFacts ==
  /\ Carried(<<>>) = [overflow |-> "WRAP", results |-> <<>>]
  /\ \A ops \in Seq(OperationTexts), op \in OperationTexts :
       Carried(Append(ops, op)) = Carry(Carried(ops), op)
<1> DEFINE b == [overflow |-> "WRAP", results |-> <<>>]
           e == <<>>
<1>1. b \in Done BY BitFieldAssumption, EmptyFacts DEF Done
<1>2. \A q : Carried(q) = FoldLeft(Carry, b, q) BY DEF Carried
<1>3. Carried(e) = b
  <2>1. e \in Seq(OperationTexts) /\ Len(e) = 0 BY EmptyFacts
  <2> HIDE DEF b, e
  <2>2. PICK g : /\ g[0] = b /\ \A i \in 1..Len(e) : g[i] = Carry(g[i-1], e[i])
                 /\ FoldLeft(Carry, b, e) = g[Len(e)]
    BY <1>1, <2>1, CarryFolded
  <2> QED BY <1>2, <2>1, <2>2
<1>4. ASSUME NEW ops \in Seq(OperationTexts), NEW op \in OperationTexts
      PROVE  Carried(Append(ops, op)) = Carry(Carried(ops), op)
  <2> DEFINE r == Append(ops, op)
             n == Len(ops)
  <2>1. /\ n \in Nat /\ r \in Seq(OperationTexts) /\ Len(r) = n + 1 /\ r[n+1] = op
        /\ \A i \in 1..n : r[i] = ops[i]
    BY AppendFacts, EmptyFacts
  <2> HIDE DEF b, r
  <2>2. PICK g : /\ g[0] = b /\ \A i \in 1..Len(ops) : g[i] = Carry(g[i-1], ops[i])
                 /\ FoldLeft(Carry, b, ops) = g[Len(ops)]
    BY <1>1, CarryFolded
  <2>3. PICK h : /\ h[0] = b /\ \A i \in 1..Len(r) : h[i] = Carry(h[i-1], r[i])
                 /\ FoldLeft(Carry, b, r) = h[Len(r)]
    BY <1>1, <2>1, CarryFolded
  <2> HIDE DEF n
  <2> DEFINE P == {i \in Nat : i <= n => h[i] = g[i]}
  <2>4. 0 \in P BY <2>2, <2>3
  <2>5. ASSUME NEW i \in Nat, i \in P PROVE i + 1 \in P
    <3>1. ASSUME i + 1 <= n PROVE h[i+1] = g[i+1]
      <4>1. i + 1 \in 1..n /\ i + 1 \in 1..(n+1) /\ (i + 1) - 1 = i /\ i <= n BY <3>1, <2>1
      <4>2. h[i] = g[i] BY <2>5, <4>1
      <4>3. h[i+1] = Carry(h[i], r[i+1]) BY <2>1, <2>3, <4>1
      <4>4. g[i+1] = Carry(g[i], ops[i+1]) BY <2>2, <4>1 DEF n
      <4> QED BY <2>1, <4>1, <4>2, <4>3, <4>4
    <3> QED BY <3>1
  <2> HIDE DEF P
  <2>6. \A i \in Nat : i \in P BY <2>4, <2>5, Induction
  <2>7. h[n] = g[n] BY <2>1, <2>6 DEF P
  <2>8. n + 1 \in 1..Len(r) /\ (n + 1) - 1 = n BY <2>1
  <2>9. h[n+1] = Carry(h[n], op) BY <2>1, <2>3, <2>8
  <2> QED BY <1>2, <2>1, <2>2, <2>3, <2>7, <2>9 DEF r, n
<1> QED BY <1>3, <1>4 DEF e, b

\* overflow() for o, and what Redis makes of it.
LEMMA WithOverflowFacts ==
  ASSUME NEW ops \in Seq(OperationTexts), NEW last \in Overflows, NEW o \in Overflows,
         NEW w \in Seq(Outcomes), Carried(ops) = [overflow |-> last, results |-> w]
  PROVE  /\ WithOverflow(ops, last, o) \in Seq(OperationTexts)
         /\ Len(ops) <= Len(WithOverflow(ops, last, o))
         /\ Carried(WithOverflow(ops, last, o)) = [overflow |-> o, results |-> w]
<1>1. Len(ops) \in Nat BY EmptyFacts
<1>2. CASE o = last
  <2>1. WithOverflow(ops, last, o) = ops BY <1>2 DEF WithOverflow
  <2> QED BY <1>1, <1>2, <2>1
<1>3. CASE o # last
  <2> DEFINE op == <<"OVERFLOW", o>>
  <2>1. op \in OperationTexts /\ op[1] = "OVERFLOW" /\ op[2] = o BY DEF OperationTexts
  <2>2. WithOverflow(ops, last, o) = Append(ops, op) BY <1>3 DEF WithOverflow
  <2> HIDE DEF op
  <2>3. Append(ops, op) \in Seq(OperationTexts) /\ Len(Append(ops, op)) = Len(ops) + 1 BY <2>1, AppendFacts
  <2>4. Carried(Append(ops, op)) = Carry(Carried(ops), op) BY <2>1, CarriedFacts
  <2>5. Carry([overflow |-> last, results |-> w], op) = [overflow |-> o, results |-> w]
    BY <2>1 DEF Carry
  <2> QED BY <1>1, <2>2, <2>3, <2>4, <2>5
<1> QED BY <1>2, <1>3

\* A new builder.
LEMMA NewBuilder ==
  ASSUME NEW o \in Overflows
  PROVE  /\ WithOverflow(<<>>, "WRAP", o) \in Seq(OperationTexts)
         /\ Carried(WithOverflow(<<>>, "WRAP", o)) = [overflow |-> o, results |-> <<>>]
<1> DEFINE e == <<>>
           wrap == "WRAP"
<1>1. e \in Seq(OperationTexts) /\ e \in Seq(Outcomes) /\ wrap \in Overflows
  BY BitFieldAssumption, EmptyFacts
<1>2. Carried(e) = [overflow |-> wrap, results |-> e] BY CarriedFacts
<1> HIDE DEF e, wrap
<1>3. /\ WithOverflow(e, wrap, o) \in Seq(OperationTexts)
      /\ Carried(WithOverflow(e, wrap, o)) = [overflow |-> o, results |-> e]
  BY <1>1, <1>2, WithOverflowFacts
<1> QED BY <1>3 DEF e, wrap

LEMMA NewBuilderKeeps ==
  ASSUME default' \in Overflows, operations' = WithOverflow(<<>>, "WRAP", default'),
         last_overflow' = default', mode' = default', wanted' = <<>>
  PROVE  BuilderInv'
<1>1. /\ operations' \in Seq(OperationTexts)
      /\ Carried(operations') = [overflow |-> default', results |-> <<>>]
  <2> DEFINE o == default'
  <2>1. o \in Overflows OBVIOUS
  <2> HIDE DEF o
  <2>2. /\ WithOverflow(<<>>, "WRAP", o) \in Seq(OperationTexts)
        /\ Carried(WithOverflow(<<>>, "WRAP", o)) = [overflow |-> o, results |-> <<>>]
    BY <2>1, NewBuilder
  <2> QED BY <2>2 DEF o
<1>2. Len(operations') \in Nat BY <1>1, EmptyFacts
<1>3. <<>> \in Seq(Outcomes) /\ Len(<<>>) = 0 BY EmptyFacts
<1>4. MaxOperations \in Nat BY BitFieldAssumption
<1>5. Len(wanted') <= Len(operations') /\ Len(wanted') <= MaxOperations + 1 BY <1>2, <1>3, <1>4
<1> QED BY <1>1, <1>3, <1>5 DEF BuilderInv

LEMMA OverflowKeeps ==
  ASSUME BuilderInv, NEW o \in Overflows, Overflow(o), UNCHANGED default
  PROVE  BuilderInv'
<1>1. /\ operations \in Seq(OperationTexts) /\ wanted \in Seq(Outcomes) /\ last_overflow \in Overflows
      /\ default \in Overflows
      /\ Len(wanted) <= Len(operations) /\ Len(wanted) <= MaxOperations + 1
      /\ Carried(operations) = [overflow |-> last_overflow, results |-> wanted]
  BY DEF BuilderInv
<1>2. /\ operations' = WithOverflow(operations, last_overflow, o)
      /\ last_overflow' = o /\ mode' = o /\ wanted' = wanted /\ default' = default
  BY DEF Overflow
<1>3. /\ operations' \in Seq(OperationTexts) /\ Len(operations) <= Len(operations')
      /\ Carried(operations') = [overflow |-> o, results |-> wanted]
  BY <1>1, <1>2, WithOverflowFacts
<1>4. Len(wanted) <= Len(operations')
  <2>1. Len(wanted) \in Nat /\ Len(operations) \in Nat /\ Len(operations') \in Nat BY <1>1, <1>3, EmptyFacts
  <2>2. \A a, b, c \in Nat : a <= b /\ b <= c => a <= c OBVIOUS
  <2> QED BY <1>1, <1>3, <2>1, <2>2
<1> QED BY <1>1, <1>2, <1>3, <1>4 DEF BuilderInv

LEMMA OperationKeeps ==
  ASSUME BuilderInv, NEW name \in Names, NEW o \in Overflows \cup {"None"}, Operation(name, o),
         UNCHANGED default
  PROVE  BuilderInv'
<1>1. /\ operations \in Seq(OperationTexts) /\ wanted \in Seq(Outcomes) /\ last_overflow \in Overflows
      /\ default \in Overflows /\ mode = last_overflow
      /\ Len(wanted) <= Len(operations) /\ Len(wanted) <= MaxOperations + 1
      /\ Carried(operations) = [overflow |-> last_overflow, results |-> wanted]
  BY DEF BuilderInv
<1> DEFINE m == IF o = "None" THEN last_overflow ELSE o
           ops == WithOverflow(operations, last_overflow, m)
           op == <<name>>
           x == Result(name, m)
<1>2. m \in Overflows BY <1>1
<1>3. /\ operations' = Append(ops, op) /\ wanted' = Append(wanted, x)
      /\ last_overflow' = m /\ mode' = m /\ default' = default
      /\ Len(operations) <= MaxOperations
  BY <1>1 DEF Operation
<1>4. op \in OperationTexts /\ op[1] = name /\ name # "OVERFLOW" BY DEF OperationTexts, Names
<1>5. x \in Outcomes BY <1>2 DEF Outcomes
<1> HIDE DEF m
<1>6. /\ ops \in Seq(OperationTexts) /\ Len(operations) <= Len(ops)
      /\ Carried(ops) = [overflow |-> m, results |-> wanted]
  BY <1>1, <1>2, WithOverflowFacts
<1>7. x = Result(op[1], m) BY <1>4
<1> HIDE DEF ops, op, x
<1>8. Append(ops, op) \in Seq(OperationTexts) /\ Len(Append(ops, op)) = Len(ops) + 1
  BY <1>4, <1>6, AppendFacts
<1>9. Append(wanted, x) \in Seq(Outcomes) /\ Len(Append(wanted, x)) = Len(wanted) + 1
  BY <1>1, <1>5, AppendFacts
<1>10. Carried(Append(ops, op)) = [overflow |-> m, results |-> Append(wanted, x)]
  <2>1. Carried(Append(ops, op)) = Carry(Carried(ops), op) BY <1>4, <1>6, CarriedFacts
  <2>2. Carry([overflow |-> m, results |-> wanted], op) = [overflow |-> m, results |-> Append(wanted, x)]
    BY <1>4, <1>7 DEF Carry
  <2> QED BY <1>6, <2>1, <2>2
<1>11. Len(wanted) + 1 <= Len(ops) + 1 /\ Len(wanted) + 1 <= MaxOperations + 1
  <2>1. Len(wanted) \in Nat /\ Len(operations) \in Nat /\ Len(ops) \in Nat /\ MaxOperations \in Nat
    BY <1>1, <1>6, EmptyFacts, BitFieldAssumption
  <2>2. \A a, b, c, d \in Nat : a <= b /\ b <= c /\ b <= d => a + 1 <= c + 1 /\ a + 1 <= d + 1 OBVIOUS
  <2> QED BY <1>1, <1>3, <1>6, <2>1, <2>2
<1> QED BY <1>1, <1>2, <1>3, <1>8, <1>9, <1>10, <1>11 DEF BuilderInv

\* The command that execute sends, and the reply that it has.
LEMMA ExecuteSends ==
  ASSUME ParserInv, BuilderInv, Execute
  PROVE  ParserInv' /\ at' = at
<1>1. /\ operations \in Seq(OperationTexts) /\ wanted \in Seq(Outcomes)
      /\ Len(wanted) <= MaxOperations + 1
      /\ Carried(operations) = [overflow |-> last_overflow, results |-> wanted]
  BY DEF BuilderInv
<1>2. Results = wanted
  <2>1. Results = Carried(operations).results BY Zenon DEF Results, Carried, Carry
  <2> QED BY <1>1, <2>1
<1> DEFINE Text(word) == Chunk(<<[t |-> word, n |-> 0]>>, FALSE)
           name == <<Text("BITFIELD").text>>
           key == <<Text("key")>>
           rest == [i \in DOMAIN Words |-> Text(Words[i])]
           reply == Array(wanted)
           cmd == [name |-> name, args |-> key \o rest, reply |-> reply]
           cmds == <<cmd>>
           replies == <<reply>>
<1>3. Send(cmds, replies, FALSE) BY <1>2 DEF Execute
<1>4. reply \in Replies
  <2> DEFINE k == Len(wanted)
  <2>1. k \in Nat /\ MaxOperations \in Nat BY <1>1, EmptyFacts, BitFieldAssumption
  <2>2. k \in 0..(MaxOperations + 1) BY <1>1, <2>1
  <2>3. wanted \in [1..k -> Outcomes] BY <1>1
  <2> HIDE DEF k
  <2>4. Array(wanted) \in Replies BY <2>2, <2>3, BitFieldAssumption DEF Outcomes
  <2> QED BY <2>4
<1>5. \A word \in Types : /\ <<[t |-> word, n |-> 0]>> \in Seq(Pieces)
                          /\ Text(word) \in Chunks /\ Text(word).text \in Seq(Pieces)
  <2>1. ASSUME NEW word \in Types PROVE <<[t |-> word, n |-> 0]>> \in Seq(Pieces)
    <3>1. [t |-> word, n |-> 0] \in Pieces BY DEF Pieces
    <3> DEFINE x == [t |-> word, n |-> 0]
    <3> HIDE DEF x
    <3>2. <<x>> \in Seq(Pieces) BY <3>1, SingleFacts DEF x
    <3> QED BY <3>2 DEF x
  <2> QED BY <2>1, ChunkFacts
<1>6. Words \in Seq(Types)
  <2>1. OperationTexts \subseteq Seq(Types)
    <3>1. "OVERFLOW" \in Types /\ Overflows \subseteq Types /\ Names \subseteq Types BY BitFieldAssumption
    <3>2. \A o \in Overflows : <<"OVERFLOW", o>> \in Seq(Types) BY <3>1, PairFacts
    <3>3. \A n \in Names : <<n>> \in Seq(Types) BY <3>1, SingleFacts
    <3> QED BY <3>2, <3>3 DEF OperationTexts
  <2>2. operations \in Seq(Seq(Types))
    <3> DEFINE n == Len(operations)
    <3>1. n \in Nat /\ operations \in [1..n -> OperationTexts] BY <1>1
    <3>2. operations \in [1..n -> Seq(Types)] BY <2>1, <3>1
    <3> HIDE DEF n
    <3> QED BY <3>1, <3>2
  <2> DEFINE f == FlattenSeq(operations)
  <2>3. PICK g \in [0..Len(operations) -> Seq(Types)] : Flattens(operations, g) /\ FlattenSeq(operations) = g[Len(operations)]
    BY <2>2, FlattenFacts
  <2>4. Len(operations) \in 0..Len(operations)
    <3>1. Len(operations) \in Nat BY <1>1, EmptyFacts
    <3> QED BY <3>1
  <2> QED BY <2>3, <2>4 DEF Words
<1>7. key \in Seq(Chunks)
  <2> DEFINE x == Text("key")
  <2>1. x \in Chunks
    <3>1. "key" \in Types BY BitFieldAssumption
    <3> HIDE DEF Text
    <3> QED BY <1>5, <3>1
  <2> HIDE DEF x
  <2>2. <<x>> \in Seq(Chunks) BY <2>1, SingleFacts
  <2> QED BY <2>2 DEF x
<1>8. name \in Seq(Seq(Pieces))
  <2> DEFINE x == Text("BITFIELD").text
  <2>1. x \in Seq(Pieces)
    <3>1. "BITFIELD" \in Types BY BitFieldAssumption
    <3> HIDE DEF Text
    <3> QED BY <1>5, <3>1
  <2> HIDE DEF x
  <2>2. <<x>> \in Seq(Seq(Pieces)) BY <2>1, SingleFacts
  <2> QED BY <2>2 DEF x
<1> HIDE DEF Text, name, key
<1>9. rest \in Seq(Chunks)
  <2> DEFINE n == Len(Words)
             x(i) == Text(Words[i])
  <2>1. n \in Nat /\ DOMAIN Words = 1..n /\ \A i \in 1..n : Words[i] \in Types BY <1>6
  <2>2. rest = [i \in 1..n |-> x(i)] BY <2>1
  <2>3. \A i \in 1..n : x(i) \in Chunks BY <1>5, <2>1
  <2> HIDE DEF n, x, rest
  <2> QED BY <2>1, <2>2, <2>3
<1> HIDE DEF rest, reply
<1>10. key \o rest \in Seq(Chunks) BY <1>7, <1>9, ConcatFacts
<1>11. cmd \in Sendable /\ cmd.reply = reply BY <1>4, <1>8, <1>10 DEF Sendable
<1> HIDE DEF cmd
<1>12. cmds \in Seq(Sendable) /\ Len(cmds) = 1 /\ cmds[1] = cmd BY <1>11, SingleFacts
<1>13. replies \in Seq(Replies) /\ Len(replies) = 1 /\ replies[1] = reply BY <1>4, SingleFacts
<1> HIDE DEF cmds, replies
<1>14. Answers(cmds, Written(cmds, FALSE)) = [i \in DOMAIN cmds |-> cmds[i].reply]
  BY <1>12, PackingIsFaithful
<1>15. [i \in DOMAIN cmds |-> cmds[i].reply] = replies
  <2> DEFINE r == [i \in DOMAIN cmds |-> cmds[i].reply]
  <2>1. DOMAIN cmds = 1..1 /\ DOMAIN replies = 1..1 BY <1>12, <1>13
  <2>2. \A i \in 1..1 : i = 1 OBVIOUS
  <2>3. replies = [i \in 1..1 |-> replies[i]] BY <1>13, <2>1
  <2>4. \A i \in 1..1 : cmds[i].reply = replies[i] BY <1>11, <1>12, <1>13, <2>2
  <2> QED BY <2>1, <2>3, <2>4
<1>16. Answers(cmds, Written(cmds, FALSE)) = replies BY <1>14, <1>15
<1> QED BY <1>3, <1>13, <1>16, SendKeeps

-----------------------------------------------------------------------------
(* The theorems. *)

\* At first nothing is on the wire, and the builder is new.
LEMMA InitWire == WireInit => WireInv
<1> SUFFICES ASSUME WireInit PROVE WireInv OBVIOUS
<1> DEFINE e == <<>>
<1>1. /\ parser \in {"python", "hiredis"}
      /\ wire = e /\ asked = e /\ sent = e /\ returned = e
      /\ buffer = e /\ bytes_written = 0 /\ bytes_read = 0
      /\ at = "closed" /\ length = 0 /\ stack = e
      /\ next_response = NoReply /\ ready = "unknown"
  BY DEF WireInit, Init
<1>2. /\ e \in Seq(Pieces) /\ e \in Seq(Replies) /\ e \in Seq([n : Nat, items : Seq(Replies)])
      /\ e \in Seq(Arrays) /\ Len(e) = 0
  BY EmptyFacts
<1>3. TypeOK BY <1>1, <1>2 DEF TypeOK, Steps
<1>4. SessionInv
  <2>1. ready # "no" BY <1>1
  <2> QED BY <1>1, <2>1 DEF SessionInv, NothingIsHidden
<1>5. Stream(e) = e /\ e \o e = e BY StreamFacts
<1>6. Rest = e
  <2>1. Ahead = e BY <1>1 DEF Ahead
  <2> QED BY <1>1, <1>5, <2>1 DEF Rest
<1>7. ASSUME parser = "python" PROVE PythonInv
  <2> DEFINE todo == <<e>>
             after == <<e>>
  <2>1. /\ todo \in Seq(Seq(Replies)) /\ Len(todo) = 1 /\ todo[1] = e
        /\ after \in Seq(Seq(Pieces)) /\ Len(after) = 1 /\ after[1] = e
    BY <1>2, SingleFacts
  <2> HIDE DEF todo, after
  <2>2. Framed(todo, after, stack, sent, returned)
    <3>1. Len(stack) = 0 /\ 1..0 = {} BY <1>1, <1>2
    <3> QED BY <1>1, <1>5, <2>1, <3>1 DEF Framed
  <2>3. Len(stack) + 1 = 1 BY <1>1, <1>2
  <2>4. Coming(todo[1], after[1], at, length, Rest) BY <1>1, <1>5, <1>6, <2>1 DEF Coming
  <2>5. Reads(at, stack, sent, returned, length, Rest)
    <3>1. ~(at = "line" /\ stack = <<>>) BY <1>1
    <3> QED BY <2>2, <2>3, <2>4, <3>1 DEF Reads
  <2>6. DOMAIN returned = {} BY <1>1
  <2> QED BY <1>1, <2>5, <2>6 DEF PythonInv
<1>8. ASSUME parser = "hiredis" PROVE HiredisInv
  <2>1. ComingWhole(e, next_response, Rest) BY <1>1, <1>5, <1>6 DEF ComingWhole
  <2>2. sent = returned \o e BY <1>1, <1>5
  <2> QED BY <1>1, <1>2, <2>1, <2>2 DEF HiredisInv
<1>9. ParserInv BY <1>1, <1>3, <1>4, <1>7, <1>8 DEF ParserInv
<1>10. BuilderInv
  <2>1. /\ default \in Overflows /\ operations = WithOverflow(<<>>, "WRAP", default)
        /\ last_overflow = default /\ mode = default /\ wanted = <<>>
    BY DEF WireInit, BitFieldInit
  <2>2. /\ operations \in Seq(OperationTexts)
        /\ Carried(operations) = [overflow |-> default, results |-> <<>>]
    BY <2>1, NewBuilder
  <2>3. Len(operations) \in Nat /\ <<>> \in Seq(Outcomes) /\ Len(<<>>) = 0 /\ MaxOperations \in Nat
    BY <2>2, EmptyFacts, BitFieldAssumption
  <2>4. Len(wanted) <= Len(operations) /\ Len(wanted) <= MaxOperations + 1 BY <2>1, <2>3
  <2> QED BY <2>1, <2>2, <2>3, <2>4 DEF BuilderInv
<1> QED BY <1>9, <1>10 DEF WireInv

\* Commands of the constant set are sent.
LEMMA CommandsKeep ==
  ASSUME ParserInv, NEW n \in 1..MaxReplies, NEW cmds \in [1..n -> Commands], NEW pipelined \in BOOLEAN,
         Send(cmds, [i \in 1..n |-> cmds[i].reply], pipelined)
  PROVE  ParserInv' /\ at' = at
<1> DEFINE replies == [i \in 1..n |-> cmds[i].reply]
<1>1. n \in Nat
  <2>1. MaxReplies \in Nat BY RepliesAssumption
  <2> QED BY <2>1
<1>2. Commands \subseteq Sendable BY RepliesAssumption DEF Sendable
<1>3. cmds \in Seq(Sendable) /\ DOMAIN cmds = 1..n
  <2>1. cmds \in [1..n -> Sendable] BY <1>2
  <2> QED BY <1>1, <2>1
<1>4. \A i \in 1..n : cmds[i].reply \in Replies BY <1>2 DEF Sendable
<1>5. replies \in Seq(Replies)
  <2> DEFINE x(i) == cmds[i].reply
  <2>1. \A i \in 1..n : x(i) \in Replies BY <1>4
  <2> HIDE DEF x
  <2>2. [i \in 1..n |-> x(i)] \in Seq(Replies) BY <1>1, <2>1
  <2> QED BY <2>2 DEF x
<1>6. pipelined \/ Len(cmds) = 1 BY DEF Send
<1>7. Answers(cmds, Written(cmds, pipelined)) = replies BY <1>3, <1>6, PackingIsFaithful
<1>8. Send(cmds, replies, pipelined) OBVIOUS
<1> HIDE DEF replies
<1> QED BY <1>5, <1>7, <1>8, SendKeeps

\* Every step of the parser keeps its invariant, and closes the connection for a cause.
LEMMA NextKeeps ==
  ASSUME ParserInv, Next
  PROVE  ParserInv' /\ Cause
<1>1. CASE Connect
  <2>1. ParserInv' BY <1>1, ConnectKeeps
  <2>2. at' # "closed" BY <1>1 DEF Connect
  <2> QED BY <2>1, <2>2 DEF Cause
<1>2. CASE \E n \in 1..MaxReplies : \E cmds \in [1..n -> Commands], pipelined \in BOOLEAN :
             Send(cmds, [i \in 1..n |-> cmds[i].reply], pipelined)
  <2>1. ParserInv' /\ at' = at BY <1>2, CommandsKeep
  <2> QED BY <2>1 DEF Cause, Reading
<1>3. CASE ReadResponse
  <2>1. ParserInv' BY <1>3, ReadResponseKeeps
  <2>2. at' # "closed" BY <1>3 DEF ReadResponse
  <2> QED BY <2>1, <2>2 DEF Cause
<1>4. CASE ParserStep
  <2>1. CASE ReadMore \/ FeedMore BY <2>1, ReadMoreKeeps DEF Cause
  <2>2. CASE ReadLine BY <2>2, ReadLineKeeps DEF Cause
  <2>3. CASE ReadBody BY <2>3, ReadBodyKeeps DEF Cause
  <2>4. CASE EndArray BY <2>4, EndArrayKeeps DEF Cause
  <2>5. CASE RaiseConnectionError BY <2>5, RaiseKeeps DEF Cause
  <2>6. CASE ReturnCached
    <3>1. ParserInv' BY <2>6, ReturnCachedKeeps
    <3>2. at' # "closed" BY <2>6 DEF ReturnCached
    <3> QED BY <3>1, <3>2 DEF Cause
  <2>7. CASE GetsReply BY <2>7, GetsReplyKeeps DEF Cause
  <2> QED BY <1>4, <2>1, <2>2, <2>3, <2>4, <2>5, <2>6, <2>7 DEF ParserStep
<1>5. CASE RecvFails
  <2>1. Disconnect BY <1>5 DEF RecvFails
  <2>2. ParserInv' BY <2>1, DisconnectKeeps
  <2> QED BY <1>5, <2>2 DEF Cause
<1>6. CASE CanRead
  <2>1. ParserInv' BY <1>6, CanReadKeeps
  <2>2. ~Reading BY <1>6 DEF CanRead, Reading
  <2> QED BY <2>1, <2>2 DEF Cause
<1>7. CASE CanReadMore BY <1>7, ReadMoreKeeps DEF Cause
<1>8. CASE CannotRead
  <2>1. ParserInv' BY <1>8, CannotReadKeeps
  <2>2. ~Reading BY <1>8 DEF CannotRead, Reading
  <2> QED BY <2>1, <2>2 DEF Cause
<1> QED BY <1>1, <1>2, <1>3, <1>4, <1>5, <1>6, <1>7, <1>8 DEF Next

LEMMA ParserUnchanged == ParserInv /\ UNCHANGED vars => ParserInv' /\ at' = at
<1> SUFFICES ASSUME ParserInv, UNCHANGED vars PROVE ParserInv' /\ at' = at OBVIOUS
<1>1. /\ parser' = parser /\ wire' = wire /\ buffer' = buffer /\ bytes_written' = bytes_written
      /\ bytes_read' = bytes_read /\ at' = at /\ length' = length /\ stack' = stack
      /\ next_response' = next_response /\ ready' = ready /\ asked' = asked /\ sent' = sent
      /\ returned' = returned
  BY DEF vars, bufferVars, readVars, sessionVars
<1>2. TypeOK' BY <1>1 DEF ParserInv, TypeOK
<1>3. Rest' = Rest BY <1>1 DEF Rest, Ahead
<1>4. SessionInv' BY <1>1 DEF ParserInv, SessionInv, NothingIsHidden, InMemory
<1>5. PythonInv => PythonInv' BY <1>1, <1>3 DEF PythonInv
<1>6. HiredisInv => HiredisInv' BY <1>1, <1>3 DEF HiredisInv
<1> QED BY <1>1, <1>2, <1>4, <1>5, <1>6 DEF ParserInv

LEMMA BuilderUnchanged == BuilderInv /\ UNCHANGED <<default, builderVars>> => BuilderInv'
BY DEF BuilderInv, builderVars

\* Every step keeps the invariant, and closes the connection for a cause.
LEMMA StepKeeps ==
  ASSUME WireInv, [WireNext]_wireVars
  PROVE  WireInv' /\ (Cause \/ UNCHANGED vars)
<1>1. ParserInv /\ BuilderInv BY DEF WireInv
<1>2. CASE Next /\ UNCHANGED <<default, builderVars>>
  BY <1>1, <1>2, NextKeeps, BuilderUnchanged DEF WireInv
<1>3. CASE BitFieldStep /\ UNCHANGED <<vars, default>>
  <2>1. ParserInv' BY <1>1, <1>3, ParserUnchanged
  <2>2. ASSUME NEW o \in Overflows, Overflow(o) PROVE BuilderInv'
    BY <1>1, <1>3, <2>2, OverflowKeeps
  <2>3. ASSUME NEW o \in Overflows \cup {"None"}, NEW name \in Names, Operation(name, o)
        PROVE  BuilderInv'
    BY <1>1, <1>3, <2>3, OperationKeeps
  <2>4. BuilderInv' BY <1>3, <2>2, <2>3 DEF BitFieldStep
  <2> QED BY <1>3, <2>1, <2>4 DEF WireInv
<1>4. CASE Execute
  <2>1. ParserInv' /\ at' = at BY <1>1, <1>4, ExecuteSends
  <2>2. /\ default' = default /\ operations' = WithOverflow(<<>>, "WRAP", default)
        /\ last_overflow' = default /\ mode' = default /\ wanted' = <<>>
    BY <1>4 DEF Execute, Reset
  <2>3. BuilderInv'
    <3>1. default' \in Overflows BY <1>1, <2>2 DEF BuilderInv
    <3> QED BY <2>2, <3>1, NewBuilderKeeps
  <2> QED BY <2>1, <2>3 DEF WireInv, Cause, Reading
<1>5. CASE UNCHANGED wireVars
  <2>1. UNCHANGED vars /\ UNCHANGED <<default, builderVars>> BY <1>5 DEF wireVars
  <2> QED BY <1>1, <2>1, ParserUnchanged, BuilderUnchanged DEF WireInv
<1> QED BY <1>2, <1>3, <1>4, <1>5 DEF WireNext

\* Whatever is asked for, built, packed, cut into pieces and taken apart, the rest of what
\* Redis sends is what is not yet read, and the builder knows what Redis will make of its
\* operations.
THEOREM WireInvariant == WireSpec => []WireInv
<1>1. WireInv /\ [WireNext]_wireVars => WireInv' BY StepKeeps
<1> QED BY <1>1, InitWire, PTL DEF WireSpec

\* The variables of the parsers and of the buffer hold what the code writes to them.
THEOREM ParserTypeCorrect == WireSpec => []TypeOK
<1>1. WireInv => TypeOK BY DEF WireInv, ParserInv
<1> QED BY <1>1, WireInvariant, PTL

\* read_response returns what Redis answers to each command, one after the other, and
\* PythonParser returns no reply with an error that stands for a lost connection.
THEOREM RepliesComeInOrder == WireSpec => []RepliesInOrder
<1>1. ASSUME WireInv PROVE RepliesInOrder
  <2>1. ParserInv BY <1>1 DEF WireInv
  <2>2. /\ TypeOK /\ asked = sent /\ sent \in Seq(Replies) /\ returned \in Seq(Replies)
        /\ (parser = "python" => PythonInv) /\ (parser = "hiredis" => HiredisInv)
        /\ parser \in {"python", "hiredis"} /\ stack \in Seq(Arrays)
    BY <2>1, ReadingFacts, TypeFacts
  <2>3. \E todo \in Seq(Replies) : sent = returned \o todo
    <3>1. CASE parser = "python"
      <4>1. PICK todo, after : Framed(todo, after, stack, sent, returned)
        BY <2>2, <3>1 DEF PythonInv, Reads
      <4>2. todo[1] \in Seq(Replies)
        <5>1. Len(stack) \in Nat /\ 1 \in 1..(Len(stack)+1) BY <2>2
        <5> QED BY <2>2, <4>1, <5>1, FramedFacts
      <4> QED BY <4>1, <4>2 DEF Framed
    <3>2. CASE parser = "hiredis" BY <2>2, <3>2 DEF HiredisInv
    <3> QED BY <2>2, <3>1, <3>2
  <2>4. PICK todo \in Seq(Replies) : sent = returned \o todo BY <2>3
  <2>5. IsPrefix(returned, asked)
    <3> DEFINE q == returned \o todo
    <3>1. q = asked BY <2>2, <2>4
    <3>2. /\ Len(q) = Len(returned) + Len(todo)
          /\ \A i \in 1..Len(returned) : q[i] = returned[i]
      BY <2>2, ConcatFacts
    <3>3. Len(returned) \in Nat /\ Len(todo) \in Nat BY <2>2, EmptyFacts
    <3> HIDE DEF q
    <3>4. Len(returned) <= Len(q) BY <3>2, <3>3
    <3>5. SubSeq(q, 1, Len(returned)) = returned
      <4> DEFINE r == SubSeq(q, 1, Len(returned))
      <4>1. q \in Seq(Replies) BY <2>2, <3>1
      <4>2. r \in Seq(Replies) /\ Len(r) = Len(returned) /\ \A i \in 1..Len(returned) : r[i] = q[i]
        BY <3>3, <3>4, <4>1
      <4> HIDE DEF r
      <4>3. r = returned BY <2>2, <3>2, <4>2, SameFacts
      <4> QED BY <4>3 DEF r
    <3> QED BY <3>1, <3>2, <3>4, <3>5 DEF IsPrefix
  <2>6. parser = "python" => \A i \in DOMAIN returned : ~Bad[returned[i]] BY <2>2 DEF PythonInv
  <2> QED BY <2>5, <2>6 DEF RepliesInOrder
<1> QED BY <1>1, WireInvariant, PTL

\* can_read does not say no while the whole of the next reply is in memory.
THEOREM NothingHidden == WireSpec => []NothingIsHidden
<1>1. WireInv => NothingIsHidden BY DEF WireInv, ParserInv, SessionInv
<1> QED BY <1>1, WireInvariant, PTL

\* A connection that is being read is closed only if recv failed, or if the next reply has
\* an error that stands for a lost connection.
THEOREM ClosesForCause == WireSpec => ClosedForCause
<1>1. ASSUME WireInv, [WireNext]_wireVars
      PROVE  [Reading /\ at' = "closed" => RecvFails \/ Bad[sent[Len(returned) + 1]]]_vars
  <2>1. Cause \/ UNCHANGED vars BY <1>1, StepKeeps
  <2> QED BY <2>1 DEF Cause
<1> QED BY <1>1, WireInvariant, PTL DEF WireSpec, ClosedForCause
=============================================================================
