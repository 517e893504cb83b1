-------------------------- MODULE TaskStore_proofs --------------------------
(***************************************************************************)
(* What each list command does to the elements of a list and to the number *)
(* of times an element occurs, and what each atomic block does to the task *)
(* store: it keeps the types, and it moves this task and no other from     *)
(* list to list.                                                           *)
(*                                                                         *)
(* Without is a recursive function over the positions of a list.  What it  *)
(* returns is proved by descent: a least position up to which the claim    *)
(* fails would have a predecessor up to which it holds.                    *)
(***************************************************************************)
EXTENDS TaskStore, TLAPS, FiniteSetTheorems, NaturalsInduction, WellFoundedInduction

AtMostOnce(s, x) == \A i, j \in 1..Len(s) : s[i] = x /\ s[j] = x => i = j

-----------------------------------------------------------------------------
\* The elements of a sequence are the values at its positions.
LEMMA RangeOfSeq ==
  ASSUME NEW S, NEW s \in Seq(S)
  PROVE  /\ \A x : x \in Range(s) <=> \E i \in 1..Len(s) : s[i] = x
         /\ Range(s) \subseteq S
BY DEF Range

\* Occurrences tells apart an element that is absent, one that is there once,
\* and one that is there more often.
LEMMA OccurrencesFacts ==
  ASSUME NEW S, NEW s \in Seq(S), NEW x
  PROVE  /\ Occurrences(s, x) = 0 <=> x \notin Range(s)
         /\ Occurrences(s, x) = 1 <=> x \in Range(s) /\ AtMostOnce(s, x)
<1> DEFINE P == Positions(s, x)
<1>1. IsFiniteSet(P)
  <2>1. IsFiniteSet(1..Len(s)) /\ P \subseteq 1..Len(s)
    BY FS_Interval DEF Positions
  <2> QED BY <2>1, FS_Subset
<1>2. Cardinality(P) = 0 <=> P = {}
  BY <1>1, FS_EmptySet
<1>3. Cardinality(P) = 1 <=> \E i : P = {i}
  BY <1>1, FS_Singleton
<1>4. P = {} <=> x \notin Range(s)
  BY RangeOfSeq DEF Positions
<1>5. (\E i : P = {i}) <=> x \in Range(s) /\ AtMostOnce(s, x)
  <2>1. ASSUME NEW i, P = {i} PROVE x \in Range(s) /\ AtMostOnce(s, x)
    <3>1. i \in 1..Len(s) /\ s[i] = x BY <2>1 DEF Positions
    <3>2. \A j \in 1..Len(s) : s[j] = x => j = i BY <2>1 DEF Positions
    <3> QED BY <3>1, <3>2, RangeOfSeq DEF AtMostOnce
  <2>2. ASSUME x \in Range(s), AtMostOnce(s, x) PROVE \E i : P = {i}
    <3>1. PICK i \in 1..Len(s) : s[i] = x BY <2>2, RangeOfSeq
    <3>2. P = {i} BY <3>1, <2>2 DEF AtMostOnce, Positions
    <3> QED BY <3>2
  <2> QED BY <2>1, <2>2
<1> QED BY <1>2, <1>3, <1>4, <1>5 DEF Occurrences

-----------------------------------------------------------------------------
\* LPUSH adds e at the left end.
LEMMA LPushFacts ==
  ASSUME NEW S, NEW s \in Seq(S), NEW e \in S
  PROVE  /\ LPush(s, e) \in Seq(S)
         /\ \A x : x \in Range(LPush(s, e)) <=> x \in Range(s) \/ x = e
         /\ \A x : AtMostOnce(s, x) /\ (x = e => x \notin Range(s))
                     => AtMostOnce(LPush(s, e), x)
<1> DEFINE p == LPush(s, e)
<1>1. p \in Seq(S) /\ Len(p) = Len(s) + 1 /\ p[1] = e
      /\ \A i \in 1..Len(s) : p[i + 1] = s[i]
  BY DEF LPush
<1>2. \A k \in 1..Len(p) : k = 1 \/ (k - 1 \in 1..Len(s) /\ p[k] = s[k - 1])
  <2> HIDE DEF p
  <2> TAKE k \in 1..Len(p)
  <2>1. CASE k # 1
    <3>1. k - 1 \in 1..Len(s) /\ (k - 1) + 1 = k BY <1>1, <2>1
    <3> QED BY <3>1, <1>1
  <2> QED BY <2>1
<1>3. \A i \in 1..Len(s) : i + 1 \in 1..Len(p) BY <1>1
<1> HIDE DEF p
<1>4. 1 \in 1..Len(p) BY <1>1
<1>r. (\A x : x \in Range(p) <=> \E i \in 1..Len(p) : p[i] = x) /\ (\A x : x \in Range(s) <=> \E i \in 1..Len(s) : s[i] = x)
  BY <1>1, RangeOfSeq
<1>5. \A x : x \in Range(p) <=> x \in Range(s) \/ x = e
  <2> TAKE x
  <2>1. x \in Range(p) => x \in Range(s) \/ x = e
    BY <1>1, <1>2, <1>r
  <2>2. x \in Range(s) \/ x = e => x \in Range(p)
    BY <1>1, <1>3, <1>4, <1>r
  <2> QED BY <2>1, <2>2
<1>6. ASSUME NEW x, AtMostOnce(s, x), x = e => x \notin Range(s) PROVE AtMostOnce(p, x)
  <2> SUFFICES ASSUME NEW i \in 1..Len(p), NEW j \in 1..Len(p), p[i] = x, p[j] = x
               PROVE  i = j
    BY DEF AtMostOnce
  <2>1. CASE x = e
    <3>1. i = 1 /\ j = 1 BY <2>1, <1>2, <1>6, <1>r
    <3> QED BY <3>1
  <2>2. CASE x # e
    <3>1. /\ i - 1 \in 1..Len(s) /\ s[i - 1] = x
          /\ j - 1 \in 1..Len(s) /\ s[j - 1] = x
      BY <2>2, <1>1, <1>2
    <3>2. i - 1 = j - 1 BY <3>1, <1>6 DEF AtMostOnce
    <3> QED BY <3>2
  <2> QED BY <2>1, <2>2
<1> QED BY <1>1, <1>5, <1>6 DEF p

\* RPUSH adds e at the right end.
LEMMA RPushFacts ==
  ASSUME NEW S, NEW s \in Seq(S), NEW e \in S
  PROVE  /\ RPush(s, e) \in Seq(S)
         /\ \A x : x \in Range(RPush(s, e)) <=> x \in Range(s) \/ x = e
         /\ \A x : AtMostOnce(s, x) /\ (x = e => x \notin Range(s))
                     => AtMostOnce(RPush(s, e), x)
<1> DEFINE p == RPush(s, e)
<1>1. p \in Seq(S) /\ Len(p) = Len(s) + 1 /\ p[Len(p)] = e
      /\ \A i \in 1..Len(s) : p[i] = s[i]
  BY DEF RPush
<1>2. \A k \in 1..Len(p) : k = Len(p) \/ (k \in 1..Len(s) /\ p[k] = s[k])
  BY <1>1
<1>3. \A i \in 1..Len(s) : i \in 1..Len(p) BY <1>1
<1> HIDE DEF p
<1>4. Len(p) \in 1..Len(p) BY <1>1
<1>5. \A x : x \in Range(p) <=> x \in Range(s) \/ x = e
  BY <1>1, <1>2, <1>3, <1>4, RangeOfSeq
<1>6. ASSUME NEW x, AtMostOnce(s, x), x = e => x \notin Range(s) PROVE AtMostOnce(p, x)
  <2>1. \A k \in 1..Len(p) : k # Len(p) /\ p[k] = x => x \in Range(s) /\ x # e
    BY <1>2, <1>6, RangeOfSeq
  <2> QED BY <2>1, <1>1, <1>2, <1>6 DEF AtMostOnce
<1> QED BY <1>1, <1>5, <1>6 DEF p

\* LPOP takes the left end away.
LEMMA LPopFacts ==
  ASSUME NEW S, NEW s \in Seq(S), s # <<>>
  PROVE  /\ Head(s) \in S
         /\ Tail(s) \in Seq(S)
         /\ \A x : x \in Range(s) <=> x \in Range(Tail(s)) \/ x = Head(s)
         /\ \A x : AtMostOnce(s, x) => AtMostOnce(Tail(s), x)
                                       /\ (x = Head(s) => x \notin Range(Tail(s)))
<1>1. /\ Tail(s) \in Seq(S) /\ Len(Tail(s)) = Len(s) - 1 /\ Len(s) \in Nat \ {0}
      /\ Head(s) = s[1] /\ Head(s) \in S
      /\ \A i \in 1..Len(Tail(s)) : Tail(s)[i] = s[i + 1]
  OBVIOUS
<1>2. \A i \in 1..Len(Tail(s)) : i + 1 \in 1..Len(s) /\ i + 1 # 1 BY <1>1
<1>3. \A k \in 1..Len(s) : k = 1 \/ (k - 1 \in 1..Len(Tail(s)) /\ Tail(s)[k - 1] = s[k])
  <2> TAKE k \in 1..Len(s)
  <2>1. CASE k # 1
    <3>1. k - 1 \in 1..Len(Tail(s)) /\ (k - 1) + 1 = k BY <1>1, <2>1
    <3> QED BY <3>1, <1>1
  <2> QED BY <2>1
<1>4. 1 \in 1..Len(s) BY <1>1
<1>r1. \A x : x \in Range(s) <=> \E i \in 1..Len(s) : s[i] = x
  BY RangeOfSeq
<1>r2. \A x : x \in Range(Tail(s)) <=> \E i \in 1..Len(Tail(s)) : Tail(s)[i] = x
  <2> DEFINE u == Tail(s)
  <2>1. u \in Seq(S) BY <1>1
  <2> HIDE DEF u
  <2>2. \A x : x \in Range(u) <=> \E i \in 1..Len(u) : u[i] = x BY <2>1, RangeOfSeq
  <2> QED BY <2>2 DEF u
<1>5. \A x : x \in Range(s) <=> x \in Range(Tail(s)) \/ x = Head(s)
  <2> TAKE x
  <2>1. x \in Range(s) => x \in Range(Tail(s)) \/ x = Head(s)
    BY <1>1, <1>3, <1>r1, <1>r2
  <2>2. x \in Range(Tail(s)) \/ x = Head(s) => x \in Range(s)
    BY <1>1, <1>2, <1>4, <1>r1, <1>r2
  <2> QED BY <2>1, <2>2
<1>6. ASSUME NEW x, AtMostOnce(s, x) PROVE AtMostOnce(Tail(s), x)
  <2> SUFFICES ASSUME NEW i \in 1..Len(Tail(s)), NEW j \in 1..Len(Tail(s)),
                      Tail(s)[i] = x, Tail(s)[j] = x
               PROVE  i = j
    BY DEF AtMostOnce
  <2>1. s[i + 1] = x /\ s[j + 1] = x BY <1>1
  <2>2. i + 1 = j + 1 BY <2>1, <1>2, <1>6 DEF AtMostOnce
  <2> QED BY <2>2
<1>7. ASSUME NEW x, AtMostOnce(s, x), x = Head(s), x \in Range(Tail(s)) PROVE FALSE
  <2>1. PICK i \in 1..Len(Tail(s)) : Tail(s)[i] = x BY <1>7, <1>r1, <1>r2
  <2>2. s[i + 1] = x /\ s[1] = x BY <2>1, <1>1, <1>7
  <2> QED BY <2>2, <1>2, <1>4, <1>7 DEF AtMostOnce
<1> QED BY <1>1, <1>5, <1>6, <1>7

\* One list in front of another.
LEMMA ConcatFacts ==
  ASSUME NEW S, NEW q \in Seq(S), NEW s \in Seq(S)
  PROVE  /\ q \o s \in Seq(S)
         /\ \A x : x \in Range(q \o s) <=> x \in Range(q) \/ x \in Range(s)
         /\ \A x : AtMostOnce(q, x) /\ AtMostOnce(s, x)
                   /\ ~(x \in Range(q) /\ x \in Range(s)) => AtMostOnce(q \o s, x)
<1> DEFINE p == q \o s
<1>1. /\ p \in Seq(S) /\ Len(p) = Len(q) + Len(s) /\ Len(q) \in Nat /\ Len(s) \in Nat
      /\ \A i \in 1..Len(p) : p[i] = IF i <= Len(q) THEN q[i] ELSE s[i - Len(q)]
  OBVIOUS
<1> HIDE DEF p
<1>2. \A k \in 1..Len(p) : \/ k \in 1..Len(q) /\ p[k] = q[k]
                           \/ k - Len(q) \in 1..Len(s) /\ p[k] = s[k - Len(q)]
  BY <1>1
<1>3. \A i \in 1..Len(q) : i \in 1..Len(p) /\ p[i] = q[i] BY <1>1
<1>4. \A i \in 1..Len(s) : i + Len(q) \in 1..Len(p) /\ p[i + Len(q)] = s[i]
  <2> TAKE i \in 1..Len(s)
  <2>1. i + Len(q) \in 1..Len(p) /\ ~(i + Len(q) <= Len(q)) /\ (i + Len(q)) - Len(q) = i
    BY <1>1
  <2> QED BY <2>1, <1>1
<1>r. (\A x : x \in Range(p) <=> \E i \in 1..Len(p) : p[i] = x) /\ (\A x : x \in Range(q) <=> \E i \in 1..Len(q) : q[i] = x)
      /\ (\A x : x \in Range(s) <=> \E i \in 1..Len(s) : s[i] = x)
  BY <1>1, RangeOfSeq
<1>5. \A x : x \in Range(p) <=> x \in Range(q) \/ x \in Range(s)
  <2> TAKE x
  <2>1. x \in Range(p) => x \in Range(q) \/ x \in Range(s)
    BY <1>2, <1>r
  <2>2. x \in Range(q) => x \in Range(p)
    BY <1>3, <1>r
  <2>3. x \in Range(s) => x \in Range(p)
    BY <1>4, <1>r
  <2> QED BY <2>1, <2>2, <2>3
<1>6. ASSUME NEW x, AtMostOnce(q, x), AtMostOnce(s, x), ~(x \in Range(q) /\ x \in Range(s))
      PROVE  AtMostOnce(p, x)
  <2> SUFFICES ASSUME NEW i \in 1..Len(p), NEW j \in 1..Len(p), p[i] = x, p[j] = x
               PROVE  i = j
    BY DEF AtMostOnce
  <2>1. CASE x \in Range(q)
    <3>1. i \in 1..Len(q) /\ j \in 1..Len(q) /\ q[i] = x /\ q[j] = x
      BY <2>1, <1>2, <1>6, RangeOfSeq
    <3> QED BY <3>1, <1>6 DEF AtMostOnce
  <2>2. CASE x \notin Range(q)
    <3>1. /\ i - Len(q) \in 1..Len(s) /\ s[i - Len(q)] = x
          /\ j - Len(q) \in 1..Len(s) /\ s[j - Len(q)] = x
      BY <2>2, <1>2, RangeOfSeq
    <3>2. i - Len(q) = j - Len(q) BY <3>1, <1>6 DEF AtMostOnce
    <3> QED BY <3>2, <1>1
  <2> QED BY <2>1, <2>2
<1> QED BY <1>1, <1>5, <1>6 DEF p

\* A finite set of numbers in rising order lists each member once.
LEMMA AscendingFacts ==
  ASSUME NEW T, IsFiniteSet(T), T \subseteq Nat, NEW q \in Ascending(T)
  PROVE  /\ q \in Seq(T)
         /\ Range(q) = T
         /\ \A x : AtMostOnce(q, x)
<1>1. Cardinality(T) \in Nat BY FS_CardinalityType
<1>2. q \in [1..Cardinality(T) -> T] /\ Range(q) = T
      /\ \A i, j \in DOMAIN q : i < j => q[i] < q[j]
  BY DEF Ascending
<1>3. q \in Seq(T) /\ Len(q) = Cardinality(T) BY <1>1, <1>2
<1>4. ASSUME NEW x PROVE AtMostOnce(q, x)
  <2> SUFFICES ASSUME NEW i \in 1..Len(q), NEW j \in 1..Len(q), q[i] = x, q[j] = x, i # j
               PROVE  FALSE
    BY DEF AtMostOnce
  <2>1. i \in DOMAIN q /\ j \in DOMAIN q /\ x \in Nat BY <1>2, <1>3
  <2>2. i < j \/ j < i BY <1>1, <1>3
  <2>3. ~(x < x) BY <2>1
  <2> QED BY <2>1, <2>2, <2>3, <1>2
<1> QED BY <1>2, <1>3, <1>4

-----------------------------------------------------------------------------
\* A set of numbers that is not empty has a least member.
LEMMA LeastNat ==
  ASSUME NEW T, T \subseteq Nat, T # {}
  PROVE  \E n \in T : \A m \in T : ~(m < n)
<1>1. \E x \in T : \A y \in T : ~(<<y, x>> \in OpToRel(<, Nat))
  BY NatLessThanWellFounded, WFMin
<1>2. \A x, y \in Nat : <<y, x>> \in OpToRel(<, Nat) <=> y < x
  BY DEF OpToRel
<1> QED BY <1>1, <1>2

\* What Without keeps of the first i elements, given what it keeps of fewer.
KeptStep(s, T, g, i) ==
  IF i = 0 THEN <<>>
  ELSE IF s[i] \in T THEN g[i-1] ELSE Append(g[i-1], s[i])

IsKept(s, T, g, n) == g = [i \in 0..n |-> KeptStep(s, T, g, i)]

Kept(s, T) == CHOOSE g : IsKept(s, T, g, Len(s))

\* The recursion in Without has a solution.
LEMMA KeptExists ==
  ASSUME NEW S, NEW s \in Seq(S), NEW T
  PROVE  \E g : IsKept(s, T, g, Len(s))
<1> DEFINE Bad == {n \in Nat : n <= Len(s) /\ ~ \E g : IsKept(s, T, g, n)}
<1>1. Len(s) \in Nat OBVIOUS
<1>2. ASSUME Bad # {} PROVE FALSE
  <2>1. PICK n \in Bad : \A m \in Bad : ~(m < n)
    BY <1>2, LeastNat
  <2>2. n \in Nat /\ n <= Len(s) /\ ~ \E g : IsKept(s, T, g, n)
    BY <2>1
  <2>3. n # 0
    <3>1. IsKept(s, T, [j \in 0..0 |-> <<>>], 0)
      BY DEF IsKept, KeptStep
    <3> QED BY <3>1, <2>2
  <2>4. n - 1 \in Nat /\ n - 1 <= Len(s) /\ n - 1 < n /\ n - 1 \notin Bad
    <3>1. n - 1 \in Nat /\ n - 1 <= Len(s) /\ n - 1 < n BY <2>2, <2>3, <1>1
    <3> QED BY <3>1, <2>1
  <2>5. PICK g : IsKept(s, T, g, n - 1)
    BY <2>4
  <2> DEFINE h == [i \in 0..n |-> IF i = n THEN KeptStep(s, T, g, n) ELSE g[i]]
  <2>6. \A i \in 0..(n-1) : h[i] = g[i] /\ g[i] = KeptStep(s, T, g, i)
    BY <2>2, <2>5 DEF IsKept
  <2>7. h[n] = KeptStep(s, T, g, n) /\ n - 1 \in 0..(n-1)
    BY <2>2, <2>3
  <2>8. \A i \in 0..n : h[i] = KeptStep(s, T, h, i)
    <3> HIDE DEF h
    <3> TAKE i \in 0..n
    <3>1. CASE i = n BY <3>1, <2>6, <2>7 DEF KeptStep
    <3>2. CASE i # n
      <4>1. i \in 0..(n-1) /\ (i # 0 => i - 1 \in 0..(n-1)) BY <3>2, <2>2
      <4> QED BY <4>1, <2>6 DEF KeptStep
    <3> QED BY <3>1, <3>2
  <2>9. IsKept(s, T, h, n)
    BY <2>8 DEF IsKept
  <2> QED BY <2>9, <2>2
<1> QED BY <1>1, <1>2

\* Without keeps the elements outside T, each as often as it was there at most.
LEMMA WithoutFacts ==
  ASSUME NEW S, NEW s \in Seq(S), NEW T
  PROVE  /\ Without(s, T) \in Seq(S)
         /\ \A x : x \in Range(Without(s, T)) <=> x \in Range(s) /\ x \notin T
         /\ \A x : AtMostOnce(s, x) => AtMostOnce(Without(s, T), x)
<1> DEFINE g == Kept(s, T)
           Good(n) == /\ g[n] \in Seq(S)
                      /\ \A x : x \in Range(g[n]) <=> (\E j \in 1..n : s[j] = x) /\ x \notin T
                      /\ \A x : AtMostOnce(s, x) => AtMostOnce(g[n], x)
           Wrong == {n \in Nat : n <= Len(s) /\ ~Good(n)}
<1>1. Len(s) \in Nat /\ \A i \in 1..Len(s) : s[i] \in S OBVIOUS
<1>2. IsKept(s, T, g, Len(s))
  BY KeptExists DEF Kept
<1>3. Without(s, T) = g[Len(s)]
  BY DEF Without, Kept, IsKept, KeptStep
<1> HIDE DEF g
<1>4. \A i \in 0..Len(s) : g[i] = KeptStep(s, T, g, i)
  BY <1>2 DEF IsKept
<1>5. Good(0)
  <2>1. g[0] = <<>> BY <1>1, <1>4 DEF KeptStep
  <2>2. \A x : x \notin Range(<<>>) BY DEF Range
  <2> QED BY <2>1, <2>2 DEF AtMostOnce
<1>6. ASSUME NEW n \in 1..Len(s), Good(n - 1) PROVE Good(n)
  <2>1. n \in 0..Len(s) /\ n # 0 /\ s[n] \in S BY <1>1
  <2>2. \A x : (\E j \in 1..n : s[j] = x) <=> (\E j \in 1..(n-1) : s[j] = x) \/ s[n] = x
    BY <1>1
  <2>3. CASE s[n] \in T
    <3>1. g[n] = g[n-1] BY <2>1, <2>3, <1>4 DEF KeptStep
    <3> QED BY <3>1, <2>2, <2>3, <1>6
  <2>4. CASE s[n] \notin T
    <3>1. g[n] = RPush(g[n-1], s[n]) BY <2>1, <2>4, <1>4 DEF KeptStep, RPush
    <3>0. g[n-1] \in Seq(S) BY <1>6
    <3> HIDE DEF Good
    <3>2. /\ g[n] \in Seq(S)
          /\ \A x : x \in Range(g[n]) <=> x \in Range(g[n-1]) \/ x = s[n]
          /\ \A x : AtMostOnce(g[n-1], x) /\ (x = s[n] => x \notin Range(g[n-1]))
                      => AtMostOnce(g[n], x)
      BY <3>0, <3>1, <2>1, RPushFacts
    <3>3. ASSUME NEW x, AtMostOnce(s, x), x = s[n], x \in Range(g[n-1]) PROVE FALSE
      <4>1. PICK j \in 1..(n-1) : s[j] = x BY <3>3, <1>6 DEF Good
      <4>2. j \in 1..Len(s) /\ j # n BY <1>1
      <4> QED BY <4>1, <4>2, <3>3 DEF AtMostOnce
    <3> QED BY <3>2, <3>3, <2>2, <2>4, <1>6 DEF Good
  <2> QED BY <2>3, <2>4
<1> HIDE DEF Good
<1>7. ASSUME Wrong # {} PROVE FALSE
  <2>1. PICK n \in Wrong : \A m \in Wrong : ~(m < n)
    BY <1>7, LeastNat
  <2>2. n \in Nat /\ n <= Len(s) /\ ~Good(n) /\ n # 0
    BY <2>1, <1>5
  <2>3. n - 1 \in Nat /\ n - 1 <= Len(s) /\ n - 1 < n /\ n \in 1..Len(s)
    BY <2>2, <1>1
  <2>4. Good(n - 1) BY <2>1, <2>3
  <2> QED BY <2>2, <2>3, <2>4, <1>6
<1>8. Good(Len(s)) BY <1>1, <1>7
<1> QED BY <1>3, <1>8, RangeOfSeq DEF Good

\* LREM key 0 e.
LEMMA LRemFacts ==
  ASSUME NEW S, NEW s \in Seq(S), NEW e
  PROVE  /\ LRem(s, e) \in Seq(S)
         /\ \A x : x \in Range(LRem(s, e)) <=> x \in Range(s) /\ x # e
         /\ \A x : AtMostOnce(s, x) => AtMostOnce(LRem(s, e), x)
BY WithoutFacts DEF LRem

-----------------------------------------------------------------------------
(* The blocks of the task store. *)

\* Membership and repetition in list l, now and after the step.
In(l, x) == x \in Range(lists[l])
InNext(l, x) == x \in Range(lists'[l])
Single(l, x) == AtMostOnce(lists[l], x)
SingleNext(l, x) == AtMostOnce(lists'[l], x)

LEMMA TasksFacts == Tasks \subseteq Nat /\ IsFiniteSet(Tasks) /\ 1 \in Tasks
BY FS_Interval, MaxTasksAssumption DEF Tasks

\* The initial store is well typed and its lists are empty.
LEMMA TaskInitFacts ==
  ASSUME TaskInit
  PROVE  TaskTypeOK /\ \A l \in ListNames : \A x : ~In(l, x) /\ Single(l, x)
<1>1. TaskTypeOK
  BY MaxTasksAssumption DEF TaskInit, TaskTypeOK, Statuses, ListNames, Policies
<1>2. \A x : x \notin Range(<<>>) BY DEF Range
<1> QED BY <1>1, <1>2 DEF TaskInit, In, Single, AtMostOnce

-----------------------------------------------------------------------------
\* add_task.lua puts the new task into the list of its status.
LEMMA AddTaskFacts ==
  ASSUME TaskTypeOK, NEW t \in Tasks, NEW D \in SUBSET Created, NEW p \in Policies,
         AddTask(t, D, p)
  PROVE  /\ TaskTypeOK'
         /\ status'[t] \in {"pending", "pre_pending"}
         /\ \A l \in ListNames : \A x : InNext(l, x) <=> In(l, x) \/ (x = t /\ l = status'[t])
         /\ \A l \in ListNames : \A x : Single(l, x) /\ ~In(l, t) => SingleNext(l, x)
<1> DEFINE to == IF Unfinished(D) = {} THEN "pending" ELSE "pre_pending"
<1>1. to \in ListNames /\ to \in {"pending", "pre_pending"} BY DEF ListNames
<1>2. \A l \in ListNames : lists[l] \in Seq(Tasks) BY DEF TaskTypeOK
<1>3. status' = [status EXCEPT ![t] = to] /\ status'[t] = to
  BY DEF AddTask, TaskTypeOK
<1>4. PICK new \in {LPush(lists[to], t), RPush(lists[to], t)} :
        lists' = [lists EXCEPT ![to] = new]
  <2>1. D = {} => Unfinished(D) = {} BY DEF Unfinished
  <2> QED BY <2>1 DEF AddTask, ListsWithNew
<1>5. /\ new \in Seq(Tasks)
      /\ \A x : x \in Range(new) <=> x \in Range(lists[to]) \/ x = t
      /\ \A x : AtMostOnce(lists[to], x) /\ (x = t => x \notin Range(lists[to]))
                  => AtMostOnce(new, x)
  <2> HIDE DEF to
  <2>1. lists[to] \in Seq(Tasks) BY <1>1, <1>2
  <2>2. CASE new = LPush(lists[to], t) BY <2>1, <2>2, LPushFacts
  <2>3. CASE new = RPush(lists[to], t) BY <2>1, <2>3, RPushFacts
  <2> QED BY <2>2, <2>3
<1> HIDE DEF to
<1>6. lists' \in [ListNames -> Seq(Tasks)]
      /\ \A l \in ListNames : lists'[l] = IF l = to THEN new ELSE lists[l]
  BY <1>4, <1>5 DEF TaskTypeOK
<1>7. TaskTypeOK'
  <2>1. tasksCount' \in 0..MaxTasks BY DEF AddTask, Tasks
  <2>2. status' \in [Tasks -> Statuses] BY <1>1, <1>3 DEF TaskTypeOK, Statuses
  <2>3. dependencies' \in [Tasks -> SUBSET Tasks] /\ priorTo' \in [Tasks -> SUBSET Tasks]
        /\ failPolicy' \in [Tasks -> Policies]
    BY DEF AddTask, TaskTypeOK, Unfinished, Created
  <2> QED BY <1>6, <2>1, <2>2, <2>3 DEF AddTask, TaskTypeOK
<1> QED BY <1>1, <1>3, <1>5, <1>6, <1>7 DEF In, InNext, Single, SingleNext

\* worker_pop_pendnig_task.lua moves the first pending task to ongoing_tasks.
LEMMA PopPendingFacts ==
  ASSUME TaskTypeOK, NEW w \in Workers, NEW t \in Tasks, PopPending(w, t)
  PROVE  /\ TaskTypeOK'
         /\ In("pending", t)
         /\ \A x : In("pending", x) <=> InNext("pending", x) \/ x = t
         /\ Single("pending", t) => ~InNext("pending", t)
         /\ \A x : InNext("ongoing", x) <=> In("ongoing", x) \/ x = t
         /\ \A l \in ListNames \ {"pending", "ongoing"} : lists'[l] = lists[l]
         /\ \A l \in ListNames : \A x :
              Single(l, x) /\ ~(x = t /\ In("ongoing", t)) => SingleNext(l, x)
<1>1. "pending" \in ListNames /\ "ongoing" \in ListNames BY DEF ListNames
<1>2. lists["pending"] \in Seq(Tasks) /\ lists["ongoing"] \in Seq(Tasks)
      /\ lists["pending"] # <<>> /\ t = Head(lists["pending"])
  BY <1>1 DEF TaskTypeOK, PopPending
<1>3. /\ Tail(lists["pending"]) \in Seq(Tasks)
      /\ \A x : x \in Range(lists["pending"]) <=> x \in Range(Tail(lists["pending"])) \/ x = t
      /\ \A x : AtMostOnce(lists["pending"], x) =>
                  /\ AtMostOnce(Tail(lists["pending"]), x)
                  /\ (x = t => x \notin Range(Tail(lists["pending"])))
  BY <1>2, LPopFacts
<1>4. /\ RPush(lists["ongoing"], t) \in Seq(Tasks)
      /\ \A x : x \in Range(RPush(lists["ongoing"], t)) <=> x \in Range(lists["ongoing"]) \/ x = t
      /\ \A x : AtMostOnce(lists["ongoing"], x) /\ (x = t => x \notin Range(lists["ongoing"]))
                  => AtMostOnce(RPush(lists["ongoing"], t), x)
  <2>1. lists["ongoing"] \in Seq(Tasks) BY <1>2
  <2> QED BY <2>1, RPushFacts
<1>5. /\ lists' \in [ListNames -> Seq(Tasks)]
      /\ lists'["pending"] = Tail(lists["pending"])
      /\ lists'["ongoing"] = RPush(lists["ongoing"], t)
      /\ \A l \in ListNames \ {"pending", "ongoing"} : lists'[l] = lists[l]
  BY <1>1, <1>3, <1>4 DEF PopPending, TaskTypeOK
<1>6. TaskTypeOK'
  BY <1>5, <1>1 DEF PopPending, TaskTypeOK, Statuses
<1>7. \A l \in ListNames : \A x : Single(l, x) /\ ~(x = t /\ In("ongoing", t)) => SingleNext(l, x)
  BY <1>3, <1>4, <1>5 DEF Single, SingleNext, In
<1> QED BY <1>3, <1>4, <1>5, <1>6, <1>7 DEF In, InNext, Single

\* A MULTI block of set_task_status.m takes t from list "from" to list "to".
LEMMA RelistFacts ==
  ASSUME TaskTypeOK, NEW t \in Tasks, NEW from \in Statuses, NEW to \in ListNames,
         Relist(t, from, to)
  PROVE  /\ TaskTypeOK'
         /\ \A l \in ListNames : \A x :
              InNext(l, x) <=> (l = to /\ x = t) \/ (In(l, x) /\ ~(l = from /\ x = t))
         /\ \A l \in ListNames : \A x :
              Single(l, x) /\ ~(x = t /\ l = to /\ from # to /\ In(to, t)) => SingleNext(l, x)
<1> DEFINE mid == [lists EXCEPT ![from] = LRem(@, t)]
<1>1. \A l \in ListNames :
        /\ lists[l] \in Seq(Tasks)
        /\ LRem(lists[l], t) \in Seq(Tasks)
        /\ \A x : x \in Range(LRem(lists[l], t)) <=> x \in Range(lists[l]) /\ x # t
        /\ \A x : AtMostOnce(lists[l], x) => AtMostOnce(LRem(lists[l], t), x)
  <2> TAKE l \in ListNames
  <2>1. lists[l] \in Seq(Tasks) BY DEF TaskTypeOK
  <2> QED BY <2>1, LRemFacts
<1>2. /\ mid \in [ListNames -> Seq(Tasks)]
      /\ \A l \in ListNames : mid[l] = IF l = from THEN LRem(lists[l], t) ELSE lists[l]
  BY <1>1 DEF TaskTypeOK
<1>3. lists' = [mid EXCEPT ![to] = LPush(@, t)] BY DEF Relist
<1> HIDE DEF mid
<1>4. /\ LPush(mid[to], t) \in Seq(Tasks)
      /\ \A x : x \in Range(LPush(mid[to], t)) <=> x \in Range(mid[to]) \/ x = t
      /\ \A x : AtMostOnce(mid[to], x) /\ (x = t => x \notin Range(mid[to]))
                  => AtMostOnce(LPush(mid[to], t), x)
  <2>1. mid[to] \in Seq(Tasks) BY <1>2
  <2> QED BY <2>1, LPushFacts
<1>5. /\ lists' \in [ListNames -> Seq(Tasks)]
      /\ \A l \in ListNames : lists'[l] = IF l = to THEN LPush(mid[to], t) ELSE mid[l]
  BY <1>2, <1>3, <1>4
<1>6. TaskTypeOK'
  BY <1>5 DEF Relist, TaskTypeOK, Statuses
<1>7. ASSUME NEW l \in ListNames, NEW x
      PROVE  InNext(l, x) <=> (l = to /\ x = t) \/ (In(l, x) /\ ~(l = from /\ x = t))
  BY <1>1, <1>2, <1>4, <1>5 DEF In, InNext
<1>8. ASSUME NEW l \in ListNames, NEW x,
             Single(l, x), ~(x = t /\ l = to /\ from # to /\ In(to, t))
      PROVE  SingleNext(l, x)
  <2>1. AtMostOnce(mid[l], x) BY <1>1, <1>2, <1>8 DEF Single
  <2>2. CASE l = to
    <3>1. x = t => x \notin Range(mid[to])
      BY <1>1, <1>2, <1>8, <2>2 DEF In
    <3> QED BY <2>1, <2>2, <3>1, <1>4, <1>5 DEF SingleNext
  <2> QED BY <2>1, <2>2, <1>5 DEF SingleNext
<1> QED BY <1>6, <1>7, <1>8

\* 'deleted' takes t out of list "from".
LEMMA UnlistFacts ==
  ASSUME TaskTypeOK, NEW t \in Tasks, NEW from \in Statuses, Unlist(t, from)
  PROVE  /\ TaskTypeOK'
         /\ \A l \in ListNames : \A x : InNext(l, x) <=> In(l, x) /\ ~(l = from /\ x = t)
         /\ \A l \in ListNames : \A x : Single(l, x) => SingleNext(l, x)
<1>1. \A l \in ListNames :
        /\ LRem(lists[l], t) \in Seq(Tasks)
        /\ \A x : x \in Range(LRem(lists[l], t)) <=> x \in Range(lists[l]) /\ x # t
        /\ \A x : AtMostOnce(lists[l], x) => AtMostOnce(LRem(lists[l], t), x)
  <2> TAKE l \in ListNames
  <2>1. lists[l] \in Seq(Tasks) BY DEF TaskTypeOK
  <2> QED BY <2>1, LRemFacts
<1>2. /\ lists' \in [ListNames -> Seq(Tasks)]
      /\ \A l \in ListNames : lists'[l] = IF l = from THEN LRem(lists[l], t) ELSE lists[l]
  BY <1>1 DEF TaskTypeOK, Unlist
<1> QED BY <1>1, <1>2 DEF Unlist, TaskTypeOK, In, InNext, Single, SingleNext

\* DEL empties a list.
LEMMA ClearListFacts ==
  ASSUME TaskTypeOK, NEW k \in ListNames, ClearList(k)
  PROVE  /\ TaskTypeOK'
         /\ \A l \in ListNames : \A x : InNext(l, x) <=> In(l, x) /\ l # k
         /\ \A l \in ListNames : \A x : Single(l, x) => SingleNext(l, x)
<1>1. \A x : x \notin Range(<<>>) /\ AtMostOnce(<<>>, x) BY DEF Range, AtMostOnce
<1>2. /\ lists' \in [ListNames -> Seq(Tasks)]
      /\ \A l \in ListNames : lists'[l] = IF l = k THEN <<>> ELSE lists[l]
  BY DEF TaskTypeOK, ClearList
<1> QED BY <1>1, <1>2 DEF ClearList, TaskTypeOK, In, InNext, Single, SingleNext

\* update_dependent_tasks.lua takes the unblocked tasks out of pre_pending_tasks
\* and puts those it found there once in front of the pending ones.
LEMMA UpdateFacts ==
  ASSUME TaskTypeOK, NEW d \in Tasks, UpdateDependentTasks(d)
  PROVE  /\ TaskTypeOK'
         /\ Released(d) \subseteq Unblocked(d) /\ Unblocked(d) \subseteq Tasks
         /\ \A x : x \in Released(d) <=>
                     x \in Unblocked(d) /\ In("pre_pending", x) /\ Single("pre_pending", x)
         /\ \A x : InNext("pre_pending", x) <=> In("pre_pending", x) /\ x \notin Unblocked(d)
         /\ \A x : InNext("pending", x) <=> In("pending", x) \/ x \in Released(d)
         /\ \A l \in ListNames \ {"pre_pending", "pending"} : lists'[l] = lists[l]
         /\ \A l \in ListNames : \A x :
              Single(l, x) /\ ~(x \in Released(d) /\ In("pending", x)) => SingleNext(l, x)
<1> DEFINE pre == lists["pre_pending"]
           pend == lists["pending"]
<1>1. "pending" \in ListNames /\ "pre_pending" \in ListNames BY DEF ListNames
<1>2. pre \in Seq(Tasks) /\ pend \in Seq(Tasks) BY <1>1 DEF TaskTypeOK
<1>3. Released(d) \subseteq Unblocked(d) /\ Unblocked(d) \subseteq Tasks
  BY DEF Released, Unblocked, TaskTypeOK
<1>4. PICK q \in Ascending(Released(d)) :
        lists' = [lists EXCEPT !["pre_pending"] = Without(@, Unblocked(d)),
                               !["pending"] = q \o @]
  BY DEF UpdateDependentTasks
<1>5. q \in Seq(Tasks) /\ Range(q) = Released(d) /\ \A x : AtMostOnce(q, x)
  <2>1. IsFiniteSet(Released(d)) /\ Released(d) \subseteq Nat
    BY <1>3, TasksFacts, FS_Subset
  <2>2. q \in Seq(Released(d)) BY <2>1, AscendingFacts
  <2> QED BY <2>1, <2>2, <1>3, AscendingFacts
<1>6. /\ Without(pre, Unblocked(d)) \in Seq(Tasks)
      /\ \A x : x \in Range(Without(pre, Unblocked(d))) <=> x \in Range(pre) /\ x \notin Unblocked(d)
      /\ \A x : AtMostOnce(pre, x) => AtMostOnce(Without(pre, Unblocked(d)), x)
  BY <1>2, WithoutFacts
<1>7. /\ q \o pend \in Seq(Tasks)
      /\ \A x : x \in Range(q \o pend) <=> x \in Range(q) \/ x \in Range(pend)
      /\ \A x : AtMostOnce(q, x) /\ AtMostOnce(pend, x) /\ ~(x \in Range(q) /\ x \in Range(pend))
                  => AtMostOnce(q \o pend, x)
  BY <1>2, <1>5, ConcatFacts
<1>8. /\ lists' \in [ListNames -> Seq(Tasks)]
      /\ lists'["pre_pending"] = Without(pre, Unblocked(d))
      /\ lists'["pending"] = q \o pend
      /\ \A l \in ListNames \ {"pre_pending", "pending"} : lists'[l] = lists[l]
  BY <1>1, <1>4, <1>6, <1>7 DEF TaskTypeOK
<1>9. TaskTypeOK'
  <2>1. status' \in [Tasks -> Statuses] /\ dependencies' \in [Tasks -> SUBSET Tasks]
    BY <1>1 DEF UpdateDependentTasks, TaskTypeOK, Statuses
  <2> QED BY <2>1, <1>8 DEF UpdateDependentTasks, TaskTypeOK
<1>10. \A x : x \in Released(d) <=>
                x \in Unblocked(d) /\ In("pre_pending", x) /\ Single("pre_pending", x)
  BY <1>2, OccurrencesFacts DEF Released, In, Single
<1>11. \A l \in ListNames : \A x :
         Single(l, x) /\ ~(x \in Released(d) /\ In("pending", x)) => SingleNext(l, x)
  BY <1>5, <1>6, <1>7, <1>8 DEF Single, SingleNext, In
<1> HIDE DEF pre, pend
<1> QED BY <1>3, <1>5, <1>6, <1>7, <1>8, <1>9, <1>10, <1>11 DEF In, InNext, pre, pend
=============================================================================
