----------------------------- MODULE RedisLists -----------------------------
(***************************************************************************)
(* The list commands of the Redis server as this repository uses them: a   *)
(* list is a sequence whose head is its left end.  Redis is not under src/ *)
(* (the server is utils/redis-server.exe); the operators say what the code *)
(* relies on each command to do.                                           *)
(***************************************************************************)
EXTENDS Integers, Sequences, FiniteSets, Functions

\* LPUSH key e: e becomes the left end.
LPush(s, e) == <<e>> \o s

\* RPUSH key e: e becomes the right end.
RPush(s, e) == Append(s, e)

\* The elements left when every occurrence of every member of T is removed;
\* LREM key 0 e for each e of T.
Without(s, T) ==
  LET kept[i \in 0..Len(s)] ==
        IF i = 0 THEN <<>>
        ELSE IF s[i] \in T THEN kept[i-1] ELSE Append(kept[i-1], s[i])
  IN  kept[Len(s)]

\* LREM key 0 e: remove all occurrences of e.
LRem(s, e) == Without(s, {e})

\* The positions of e; LREM key 0 e replies with their number.
Positions(s, e) == {i \in 1..Len(s) : s[i] = e}

Occurrences(s, e) == Cardinality(Positions(s, e))

\* A set as the list that results from LPUSHing its members in falling order.
Ascending(T) ==
  {q \in [1..Cardinality(T) -> T] :
     /\ Range(q) = T
     /\ \A i, j \in DOMAIN q : i < j => q[i] < q[j]}
=============================================================================
