----------------------------- MODULE Pool_proofs -----------------------------
(***************************************************************************)
(* The two connection pools.  First theorems about Pool for any number of  *)
(* threads and forks and any max_connections: no connection has two users, *)
(* none is lost or counted twice, and the sockets of the parent stay open. *)
(*                                                                         *)
(* Two things have to be known for that.  A thread within a method is past *)
(* _checkpid only in a pool of its own process (Current), although the     *)
(* comparison is made without the lock; and of a pool that a child finds   *)
(* nothing is used but what the forking thread holds (Stale, ForeignOnce). *)
(*                                                                         *)
(* Then theorems about Sentinel, in the second half.                       *)
(***************************************************************************)
EXTENDS Pool, Sentinel, TLAPS, FiniteSetTheorems, NaturalsInduction, SequenceTheorems

InLock == {"reset", "pid", "unlock"}

Types ==
  /\ kind \in Kinds /\ max \in 1..MaxConnections
  /\ getpid \in Processes
  /\ pool \in [pid : Processes, used : SUBSET Connections, created : Int, lock : Locks,
               idle : Seq(Connections \cup {None})]
  /\ thread \in [Threads -> [at : Steps, for : Operations, conn : Connections \cup {None}]]
  /\ foreign \in Nat

\* The lock is held by the thread that is in its section, and by no other.
Locking ==
  /\ pool.lock = "held" <=> \E t \in Threads : thread[t].at \in InLock
  /\ \A t, u \in Threads : thread[t].at \in InLock /\ thread[u].at \in InLock => t = u

\* The steps at which a thread holds a connection.
HoldsOne ==
  \A t \in Threads :
    Held(t) # None <=> \/ thread[t].at \in {"use", "verify", "put"}
                       \/ thread[t].for = "put" /\ thread[t].at \in {"checkpid", "fork_lock"} \cup InLock

\* Past _checkpid the pool is that of this process, in reset() it is not, and it
\* never will be if the lock was inherited.
Current ==
  /\ pool.lock = "inherited" => pool.pid # getpid
  /\ \A t \in Threads :
       /\ thread[t].at \in {"take", "verify", "put", "close", "unlock"} => pool.pid = getpid
       /\ thread[t].at \in {"reset", "pid"} => pool.pid # getpid

Control == Types /\ Locking /\ HoldsOne /\ Current

\* reset() has done all but set pid.
IsReset ==
  \A t \in Threads : At(t, "pid") =>
    /\ pool.idle = NewPool(pool.pid).idle
    /\ pool.used = {} /\ pool.created = 0 /\ foreign = 0

NotFuture == pool.pid <= getpid /\ \A c \in Known : c.pid <= getpid

\* A process has connections of its own only in a pool of its own.
Stale == pool.pid # getpid => \A t \in Threads : Held(t).pid # getpid
Own == pool.pid = getpid => \A c \in Pooled : c.pid = getpid

\* One thread at most has a connection of another process, until it gives it back.
IsForeign(t) == Held(t) # None /\ Held(t).pid # getpid
ForeignOnce ==
  /\ \A t, u \in Threads : IsForeign(t) /\ IsForeign(u) => t = u
  /\ pool.pid = getpid /\ foreign # 0 => foreign = 1 /\ \A t \in Threads : ~IsForeign(t)

Distinct ==
  /\ \A i, j \in DOMAIN pool.idle :
       i # j /\ pool.idle[i] # None => pool.idle[i] # pool.idle[j]
  /\ Range(pool.idle) \cap InUse = {}
  /\ \A t, u \in Threads : t # u /\ Held(t) # None => Held(t) # Held(u)

PlainCount ==
  kind = "plain" /\ pool.pid = getpid =>
    /\ None \notin Range(pool.idle)
    /\ pool.used = Lent
    /\ pool.created = Len(pool.idle) + Cardinality(Lent) - foreign
    /\ pool.created <= max

BlockingCount ==
  kind = "blocking" =>
    /\ pool.used = {}
    /\ pool.pid = getpid =>
         /\ Len(pool.idle) <= max
         /\ max <= Len(pool.idle) + Cardinality(Lent)
         /\ Len(pool.idle) + Cardinality(Lent) <= max + foreign

Contents ==
  NotFuture /\ Stale /\ Own /\ ForeignOnce /\ Distinct /\ PlainCount /\ BlockingCount

Sockets == shut \subseteq Connections /\ ParentKeepsItsSockets

PoolInv == Control /\ IsReset /\ Contents /\ Sockets

-----------------------------------------------------------------------------
(* Sequences and finite sets. *)

Places == Seq(Connections \cup {None})

LEMMA RangeCardinality ==
  ASSUME NEW S, NEW s \in Seq(S)
  PROVE  /\ IsFiniteSet(Range(s))
         /\ Cardinality(Range(s)) \in Nat /\ Cardinality(Range(s)) <= Len(s)
         /\ Len(s) \in Nat
<1>1. Len(s) \in Nat /\ DOMAIN s = 1..Len(s) OBVIOUS
<1>2. s \in [1..Len(s) -> Range(s)] BY <1>1 DEF Range
<1>3. s \in Surjection(1..Len(s), Range(s)) BY <1>1, <1>2 DEF Surjection, Range
<1>4. IsFiniteSet(1..Len(s)) /\ Cardinality(1..Len(s)) = Len(s) BY <1>1, FS_Interval
<1>5. IsFiniteSet(Range(s)) /\ Cardinality(Range(s)) <= Cardinality(1..Len(s))
  BY <1>3, <1>4, FS_Surjection
<1> QED BY <1>1, <1>4, <1>5, FS_CardinalityType

\* A sequence without its last element.
IsFront(f, s, S) ==
  /\ f \in Seq(S) /\ Len(f) = Len(s) - 1 /\ Len(s) \in Nat \ {0}
  /\ \A i \in DOMAIN f : i \in DOMAIN s /\ i # Len(s) /\ f[i] = s[i]
  /\ Len(s) \in DOMAIN s /\ s[Len(s)] \in S
  /\ Range(f) \subseteq Range(s)
  /\ Range(s) = Range(f) \cup {s[Len(s)]}

LEMMA FrontFacts ==
  ASSUME NEW S, NEW s \in Seq(S), s # <<>>,
         NEW f, f = SubSeq(s, 1, Len(s) - 1)
  PROVE  IsFront(f, s, S)
<1>1. Len(s) \in Nat \ {0} /\ DOMAIN s = 1..Len(s) /\ \A i \in 1..Len(s) : s[i] \in S
  OBVIOUS
<1>2. /\ f \in Seq(S) /\ Len(f) = Len(s) - 1
      /\ \A i \in 1..(Len(s) - 1) : f[i] = s[i]
  <2>1. /\ SubSeq(s, 1, Len(s) - 1) \in Seq(S)
        /\ Len(SubSeq(s, 1, Len(s) - 1)) = Len(s) - 1
        /\ \A i \in 1..(Len(s) - 1) : SubSeq(s, 1, Len(s) - 1)[i] = s[i]
    BY <1>1
  <2> QED BY <2>1
<1>3. DOMAIN f = 1..(Len(s) - 1) BY <1>1, <1>2
<1>4. PICK n \in Nat \ {0} : n = Len(s) BY <1>1
<1>5. \A i \in 1..n : i \in 1..(n - 1) \/ i = n OBVIOUS
<1>6. /\ DOMAIN s = 1..n /\ DOMAIN f = 1..(n - 1) /\ n \in 1..n
      /\ \A i \in 1..(n - 1) : f[i] = s[i] /\ i \in 1..n /\ i # n
  <2>1. n \in 1..n /\ \A i \in 1..(n - 1) : i \in 1..n /\ i # n OBVIOUS
  <2>2. DOMAIN s = 1..n /\ DOMAIN f = 1..(n - 1) BY <1>1, <1>3, <1>4
  <2>3. \A i \in 1..(n - 1) : f[i] = s[i] BY <1>2, <1>4
  <2> QED BY <2>1, <2>2, <2>3
<1>7. Range(s) = Range(f) \cup {s[n]}
  <2>1. \A x \in Range(s) : x \in Range(f) \cup {s[n]} BY <1>5, <1>6 DEF Range
  <2>2. \A x \in Range(f) \cup {s[n]} : x \in Range(s) BY <1>6 DEF Range
  <2> QED BY <2>1, <2>2
<1> QED BY <1>1, <1>2, <1>4, <1>6, <1>7 DEF IsFront

\* A sequence with one element more.
IsLonger(l, s, x, S) ==
  /\ l \in Seq(S) /\ Len(l) = Len(s) + 1 /\ Len(s) \in Nat
  /\ \A i \in DOMAIN l : \/ i \in DOMAIN s /\ l[i] = s[i]
                         \/ i = Len(s) + 1 /\ i \notin DOMAIN s /\ l[i] = x
  /\ Range(l) = Range(s) \cup {x}

LEMMA LongerFacts ==
  ASSUME NEW S, NEW s \in Seq(S), NEW x \in S, NEW l, l = Append(s, x)
  PROVE  IsLonger(l, s, x, S)
<1>1. /\ Append(s, x) \in Seq(S) /\ Len(Append(s, x)) = Len(s) + 1 /\ Len(s) \in Nat
      /\ \A i \in 1..Len(s) : Append(s, x)[i] = s[i]
      /\ Append(s, x)[Len(s) + 1] = x
      /\ DOMAIN s = 1..Len(s) /\ DOMAIN Append(s, x) = 1..(Len(s) + 1)
  OBVIOUS
<1>2. /\ l \in Seq(S) /\ Len(l) = Len(s) + 1 /\ Len(s) \in Nat
      /\ \A i \in 1..Len(s) : l[i] = s[i]
      /\ l[Len(s) + 1] = x
      /\ DOMAIN s = 1..Len(s) /\ DOMAIN l = 1..(Len(s) + 1)
  BY <1>1
<1>3. /\ \A i \in 1..(Len(s) + 1) : i \in 1..Len(s) \/ i = Len(s) + 1
      /\ Len(s) + 1 \notin 1..Len(s)
  BY <1>2
<1>4. Range(l) = Range(s) \cup {x}
  BY <1>2, <1>3 DEF Range
<1> QED BY <1>2, <1>3, <1>4 DEF IsLonger

\* There are MaxConnections + 2 connections that a process may make.
Made(p) == {c \in Connections : c.pid = p}

LEMMA MadeFacts ==
  ASSUME NEW p \in Processes
  PROVE  IsFiniteSet(Made(p)) /\ Cardinality(Made(p)) = MaxConnections + 2
<1> DEFINE N == 1..(MaxConnections + 2)
           f == [n \in N |-> [pid |-> p, n |-> n]]
<1>1. IsFiniteSet(N) /\ Cardinality(N) = MaxConnections + 2
  BY PoolAssumption, FS_Interval
<1>2. f \in [N -> Made(p)] BY DEF Made, Connections
<1>3. \A a, b \in N : f[a] = f[b] => a = b OBVIOUS
<1>4. \A c \in Made(p) : \E n \in N : f[n] = c
  <2> TAKE c \in Made(p)
  <2>1. c.n \in N /\ c = [pid |-> p, n |-> c.n] BY DEF Made, Connections
  <2> QED BY <2>1
<1> HIDE DEF f, N
<1>5. ExistsBijection(N, Made(p))
  BY <1>2, <1>3, <1>4 DEF ExistsBijection, Bijection, Injection, Surjection, IsInjective
<1> QED BY <1>1, <1>5, FS_Bijection

-----------------------------------------------------------------------------
(* Who holds what. *)

LEMMA NoneIsNoConnection == None \notin Connections /\ None.pid = -1
BY DEF None, Connections, Processes

LEMMA HeldFacts ==
  ASSUME Types
  PROVE  /\ \A t \in Threads : Held(t) \in Connections \cup {None}
         /\ InUse \subseteq Connections /\ \A c : c \in InUse <=> c # None /\ \E t \in Threads : Held(t) = c
         /\ Lent \subseteq Made(getpid) /\ Lent \subseteq InUse
         /\ IsFiniteSet(Lent) /\ Cardinality(Lent) \in Nat
<1>1. \A t \in Threads : Held(t) \in Connections \cup {None} BY DEF Types, Held
<1>2. InUse \subseteq Connections BY <1>1 DEF InUse
<1>3. Lent \subseteq Made(getpid) /\ Lent \subseteq InUse BY <1>2 DEF Lent, Made
<1>4. IsFiniteSet(Made(getpid)) BY MadeFacts DEF Types
<1>5. IsFiniteSet(Lent) /\ Cardinality(Lent) \in Nat
  BY <1>3, <1>4, FS_Subset, FS_CardinalityType
<1> QED BY <1>1, <1>2, <1>3, <1>5 DEF InUse

\* Nothing changes hands.
LEMMA SameHeld ==
  ASSUME \A t \in Threads : Held(t)' = Held(t), getpid' = getpid
  PROVE  InUse' = InUse /\ Lent' = Lent
<1>1. InUse' = InUse BY DEF InUse
<1> QED BY <1>1 DEF Lent

LEMMA ContentsSame ==
  ASSUME Contents, \A t \in Threads : Held(t)' = Held(t),
         UNCHANGED <<kind, max, getpid, foreign>>,
         UNCHANGED <<pool.pid, pool.idle, pool.used, pool.created>>
  PROVE  Contents'
<1>1. InUse' = InUse /\ Lent' = Lent BY SameHeld
<1>2. Pooled' = Pooled /\ Known' = Known BY <1>1 DEF Pooled, Known
<1>3. NotFuture' BY <1>2 DEF Contents, NotFuture
<1>4. Stale' /\ ForeignOnce' BY DEF Contents, Stale, ForeignOnce, IsForeign
<1>5. Own' BY <1>2 DEF Contents, Own
<1>6. Distinct' BY <1>1 DEF Contents, Distinct
<1>7. PlainCount' /\ BlockingCount' BY <1>1 DEF Contents, PlainCount, BlockingCount
<1> QED BY <1>3, <1>4, <1>5, <1>6, <1>7 DEF Contents

\* A thread gets connection c.
LEMMA HeldGrant ==
  ASSUME Types, NEW t \in Threads, Held(t) = None, NEW c \in Connections, Grant(t, c),
         getpid' = getpid, c.pid = getpid
  PROVE  /\ Held(t)' = c /\ \A u \in Threads \ {t} : Held(u)' = Held(u)
         /\ InUse' = InUse \cup {c} /\ Lent' = Lent \cup {c}
<1>1. Held(t)' = c /\ \A u \in Threads \ {t} : Held(u)' = Held(u)
  BY DEF Types, Grant, Held
<1>2. InUse' = InUse \cup {c}
  <2>1. \A x : x \in InUse' => x \in InUse \cup {c} BY <1>1 DEF InUse
  <2>2. \A x : x \in InUse => x \in InUse' BY <1>1 DEF InUse
  <2>3. c \in InUse' BY <1>1, NoneIsNoConnection DEF InUse
  <2> QED BY <2>1, <2>2, <2>3
<1>3. Lent' = Lent \cup {c} BY <1>2 DEF Lent
<1> QED BY <1>1, <1>2, <1>3

\* A thread has returned, without its connection.
LEMMA HeldReturn ==
  ASSUME Types, Distinct, NEW t \in Threads, Return(t), getpid' = getpid
  PROVE  /\ Held(t)' = None /\ \A u \in Threads \ {t} : Held(u)' = Held(u)
         /\ InUse' = InUse \ {Held(t)} /\ Lent' = Lent \ {Held(t)}
<1>1. Held(t)' = None /\ \A u \in Threads \ {t} : Held(u)' = Held(u)
  BY DEF Types, Return, Held, Idle
<1>2. InUse' = InUse \ {Held(t)}
  <2>1. \A x : x \in InUse' => x \in InUse \ {Held(t)} BY <1>1 DEF InUse, Distinct
  <2>2. \A x : x \in InUse \ {Held(t)} => x \in InUse' BY <1>1 DEF InUse
  <2> QED BY <2>1, <2>2
<1>3. Lent' = Lent \ {Held(t)} BY <1>2 DEF Lent
<1> QED BY <1>1, <1>2, <1>3

-----------------------------------------------------------------------------
(* A thread that may make another connection finds one to make.            *)

LEMMA LeastNat ==
  ASSUME NEW T, T \subseteq Nat, T # {}
  PROVE  \E n \in T : \A m \in T : n <= m
<1>1. \E x \in T : \A y \in T : ~(<<y, x>> \in OpToRel(<, Nat))
  BY NatLessThanWellFounded, WFMin
<1>2. \A x, y \in Nat : <<y, x>> \in OpToRel(<, Nat) <=> y < x
  BY DEF OpToRel
<1>3. \E n \in T : \A m \in T : ~(m < n) BY <1>1, <1>2
<1> QED BY <1>3

\* What the pool provides and lends is no more than it counts.
KeptHere == (Range(pool.idle) \ {None}) \cup Lent

LEMMA KeptCardinality ==
  ASSUME Types
  PROVE  /\ IsFiniteSet(KeptHere) /\ Cardinality(KeptHere) \in Nat
         /\ Cardinality(KeptHere) <= Len(pool.idle) + Cardinality(Lent)
         /\ None \in Range(pool.idle) => Cardinality(KeptHere) < Len(pool.idle) + Cardinality(Lent)
<1> DEFINE R == Range(pool.idle)
           Q == R \ {None}
<1>1. /\ IsFiniteSet(R) /\ Cardinality(R) \in Nat /\ Cardinality(R) <= Len(pool.idle)
      /\ Len(pool.idle) \in Nat
  <2>1. pool.idle \in Seq(Connections \cup {None}) BY DEF Types
  <2> QED BY <2>1, RangeCardinality
<1>2. IsFiniteSet(Lent) /\ Cardinality(Lent) \in Nat BY HeldFacts
<1> HIDE DEF R
<1>3. /\ IsFiniteSet(Q)
      /\ Cardinality(Q) = IF None \in R THEN Cardinality(R) - 1 ELSE Cardinality(R)
      /\ Cardinality(Q) \in Nat
  BY <1>1, FS_RemoveElement, FS_CardinalityType
<1> HIDE DEF Q
<1>4. /\ IsFiniteSet(Q \cup Lent)
      /\ Cardinality(Q \cup Lent) = Cardinality(Q) + Cardinality(Lent) - Cardinality(Q \cap Lent)
      /\ IsFiniteSet(Q \cap Lent)
  BY <1>2, <1>3, FS_Union, FS_Intersection
<1>5. Cardinality(Q \cap Lent) \in Nat /\ Cardinality(Q \cup Lent) \in Nat
  BY <1>4, FS_CardinalityType
<1>6. KeptHere = Q \cup Lent BY DEF KeptHere, Q, R
<1>7. Cardinality(Q \cup Lent) <= Len(pool.idle) + Cardinality(Lent)
  BY <1>1, <1>2, <1>3, <1>4, <1>5
<1>8. None \in R => Cardinality(Q \cup Lent) < Len(pool.idle) + Cardinality(Lent)
  BY <1>1, <1>2, <1>3, <1>4, <1>5
<1> QED BY <1>4, <1>5, <1>6, <1>7, <1>8 DEF R

LEMMA FreshExists ==
  ASSUME Types, Contents, pool.pid = getpid,
         \/ kind = "plain" /\ pool.created < max
         \/ kind = "blocking" /\ None \in Range(pool.idle)
  PROVE  LET fresh == {c \in Connections : c.pid = getpid} \ Known
         IN  \E c \in fresh : \A d \in fresh : c.n <= d.n
<1> DEFINE fresh == Made(getpid) \ Known
<1>1. fresh = {c \in Connections : c.pid = getpid} \ Known BY DEF Made
<1>2. foreign \in {0, 1} BY DEF Types, Contents, ForeignOnce
<1>3. /\ IsFiniteSet(KeptHere) /\ Cardinality(KeptHere) \in Nat
      /\ Cardinality(KeptHere) <= Len(pool.idle) + Cardinality(Lent)
      /\ None \in Range(pool.idle) => Cardinality(KeptHere) < Len(pool.idle) + Cardinality(Lent)
  BY KeptCardinality
<1>4. Len(pool.idle) \in Nat /\ Cardinality(Lent) \in Nat /\ max \in Nat /\ max <= MaxConnections
      /\ pool.created \in Int /\ MaxConnections \in Nat
  BY HeldFacts, PoolAssumption DEF Types
<1>5. Cardinality(KeptHere) <= MaxConnections
  <2>1. CASE kind = "plain" /\ pool.created < max
    <3>1. pool.created = Len(pool.idle) + Cardinality(Lent) - foreign
      BY <2>1 DEF Contents, PlainCount
    <3> QED BY <1>2, <1>3, <1>4, <2>1, <3>1
  <2>2. CASE kind = "blocking" /\ None \in Range(pool.idle)
    <3>1. Len(pool.idle) + Cardinality(Lent) <= max + foreign
      BY <2>2 DEF Contents, BlockingCount
    <3> QED BY <1>2, <1>3, <1>4, <2>2, <3>1
  <2> QED BY <2>1, <2>2
<1>6. Known \cap Made(getpid) \subseteq KeptHere
  <2>1. pool.used \subseteq Lent
    BY DEF Contents, PlainCount, BlockingCount, Types, Kinds
  <2> QED BY <2>1 DEF Known, Pooled, KeptHere, Lent, Made
<1>7. fresh # {}
  <2> SUFFICES ASSUME fresh = {} PROVE FALSE OBVIOUS
  <2>1. Made(getpid) \subseteq KeptHere BY <1>6
  <2>2. Cardinality(Made(getpid)) <= Cardinality(KeptHere) BY <1>3, <2>1, FS_Subset
  <2>3. Cardinality(Made(getpid)) = MaxConnections + 2 BY MadeFacts DEF Types
  <2> QED BY <1>3, <1>4, <1>5, <2>2, <2>3
<1>8. \A c \in fresh : c.n \in Nat BY <1>4 DEF Made, Connections
<1> HIDE DEF fresh
<1> DEFINE T == {c.n : c \in fresh}
<1>9. T \subseteq Nat /\ T # {} BY <1>7, <1>8
<1> HIDE DEF T
<1>10. PICK n \in T : \A m \in T : n <= m BY <1>9, LeastNat
<1>11. PICK c \in fresh : c.n = n BY DEF T
<1>12. \A d \in fresh : c.n <= d.n BY <1>10, <1>11 DEF T
<1> QED BY <1>1, <1>12

-----------------------------------------------------------------------------
(* _checkpid and the lock. *)

LEMMA NewPoolFacts ==
  ASSUME max \in 1..MaxConnections, kind \in Kinds, NEW p
  PROVE  LET q == NewPool(p).idle IN
         /\ q \in Seq(Connections \cup {None}) /\ Range(q) \subseteq {None}
         /\ kind = "plain" => Len(q) = 0 /\ Range(q) = {}
         /\ kind = "blocking" => Len(q) = max
<1> DEFINE q == [i \in 1..max |-> None]
<1>1. max \in Nat /\ max >= 1 BY PoolAssumption
<1>2. q \in [1..max -> Connections \cup {None}] OBVIOUS
<1>3. q \in Seq(Connections \cup {None}) /\ Len(q) = max
  BY <1>1, <1>2, LenProperties, SeqDef
<1>4. Range(q) = {None} BY <1>1 DEF Range
<1>5. NewPool(p).idle = IF kind = "blocking" THEN q ELSE <<>> BY DEF NewPool
<1>6. CASE kind = "plain"
  <2>1. NewPool(p).idle = <<>> BY <1>5, <1>6
  <2>2. <<>> \in Seq(Connections \cup {None}) /\ Len(<<>>) = 0 /\ Range(<<>>) = {}
    BY DEF Range
  <2> QED BY <1>6, <2>1, <2>2
<1>7. CASE kind = "blocking"
  <2>1. NewPool(p).idle = q BY <1>5, <1>7
  <2> QED BY <1>3, <1>4, <1>7, <2>1
<1> QED BY <1>6, <1>7 DEF Kinds

LEMMA PoolInit == Init => PoolInv
<1> SUFFICES ASSUME Init PROVE PoolInv OBVIOUS
<1>1. /\ kind \in Kinds /\ max \in 1..MaxConnections /\ max \in Nat /\ max >= 1
      /\ getpid = 0 /\ getpid \in Processes
      /\ pool = NewPool(0)
      /\ thread = [t \in Threads |-> Idle] /\ foreign = 0 /\ shut = {}
  BY PoolAssumption DEF Init, Processes
<1>2. /\ pool.idle \in Seq(Connections \cup {None}) /\ Range(pool.idle) \subseteq {None}
      /\ kind = "plain" => Len(pool.idle) = 0 /\ Range(pool.idle) = {}
      /\ kind = "blocking" => Len(pool.idle) = max
  BY <1>1, NewPoolFacts
<1>3. /\ pool.pid = 0 /\ pool.used = {} /\ pool.created = 0 /\ pool.lock = "free"
      /\ pool = [pid |-> 0, used |-> {}, created |-> 0, lock |-> "free", idle |-> pool.idle]
  BY <1>1 DEF NewPool
<1>4. Types
  <2>1. pool \in [pid : Processes, used : SUBSET Connections, created : Int, lock : Locks,
                  idle : Seq(Connections \cup {None})]
    BY <1>1, <1>2, <1>3 DEF Locks
  <2>2. thread \in [Threads -> [at : Steps, for : Operations, conn : Connections \cup {None}]]
    BY <1>1 DEF Idle, Steps, Operations
  <2> QED BY <1>1, <2>1, <2>2 DEF Types
<1>5. \A t \in Threads : Held(t) = None /\ thread[t].at = "idle" BY <1>1 DEF Held, Idle
<1>6. Control
  BY <1>1, <1>3, <1>4, <1>5 DEF Control, Locking, HoldsOne, Current, InLock
<1>7. IsReset BY <1>5 DEF IsReset, At
<1>8. InUse = {} /\ Lent = {} /\ Pooled = {} /\ Known = {}
  BY <1>2, <1>3, <1>5 DEF InUse, Lent, Pooled, Known
<1>9. Cardinality(Lent) = 0 BY <1>8, FS_EmptySet
<1>10. NotFuture /\ Stale /\ Own /\ ForeignOnce
  BY <1>1, <1>3, <1>5, <1>8, NoneIsNoConnection
  DEF NotFuture, Stale, Own, ForeignOnce, IsForeign
<1>11. Distinct
  <2>1. \A i \in DOMAIN pool.idle : pool.idle[i] = None BY <1>2 DEF Range
  <2> QED BY <1>5, <1>8, <2>1 DEF Distinct
<1>12. PlainCount /\ BlockingCount
  BY <1>1, <1>2, <1>3, <1>8, <1>9 DEF PlainCount, BlockingCount
<1>13. Sockets BY <1>1 DEF Sockets, ParentKeepsItsSockets
<1> QED BY <1>6, <1>7, <1>10, <1>11, <1>12, <1>13 DEF PoolInv, Contents

\* Steps of a thread that keeps its connection, and that change at most the lock of the pool.
LEMMA ControlStep ==
  ASSUME PoolInv, NEW t \in Threads,
         \/ Verify(t) \/ VerifyFails(t) \/ Checkpid(t) \/ AcquireForkLock(t) \/ ReleaseForkLock(t)
         \/ \E op \in Operations : Call(t, op)
  PROVE  PoolInv'
<1>1. /\ UNCHANGED <<kind, max, getpid, foreign>>
      /\ UNCHANGED <<pool.pid, pool.idle, pool.used, pool.created>>
      /\ pool' = [pool EXCEPT !.lock = pool'.lock]
  BY DEF Verify, VerifyFails, Checkpid, AcquireForkLock, ReleaseForkLock, Call, PoolInv, Control, Types
<1>2. \A u \in Threads : Held(u)' = Held(u)
  BY DEF Verify, VerifyFails, Checkpid, AcquireForkLock, ReleaseForkLock, Call, Goto, Held,
     PoolInv, Control, Types
<1>3. Contents' BY <1>1, <1>2, ContentsSame DEF PoolInv
<1>4. Sockets'
  BY <1>1 DEF PoolInv, Sockets, ParentKeepsItsSockets,
     Verify, VerifyFails, Checkpid, AcquireForkLock, ReleaseForkLock, Call
<1>5. Types'
  <2>1. thread' \in [Threads -> [at : Steps, for : Operations, conn : Connections \cup {None}]]
    BY DEF Verify, VerifyFails, Checkpid, AcquireForkLock, ReleaseForkLock, Call, Goto, At,
       PoolInv, Control, Types, Steps, Operations
  <2>2. pool'.lock \in Locks
    BY DEF Verify, VerifyFails, Checkpid, AcquireForkLock, ReleaseForkLock, Call,
       PoolInv, Control, Types, Locks
  <2>3. pool' \in [pid : Processes, used : SUBSET Connections, created : Int, lock : Locks,
                   idle : Seq(Connections \cup {None})]
    BY <1>1, <2>2 DEF PoolInv, Control, Types
  <2> QED BY <1>1, <2>1, <2>3 DEF PoolInv, Control, Types
<1>6. Locking'
  BY DEF Verify, VerifyFails, Checkpid, AcquireForkLock, ReleaseForkLock, Call, Goto, At,
     PoolInv, Control, Types, Locking, InLock, Steps, Operations, Locks
<1>7. HoldsOne'
  <2>1. \A u \in Threads \ {t} : thread'[u] = thread[u]
    BY DEF Verify, VerifyFails, Checkpid, AcquireForkLock, ReleaseForkLock, Call, Goto,
       PoolInv, Control, Types
  <2>2. thread \in [Threads -> [at : Steps, for : Operations, conn : Connections \cup {None}]]
    BY DEF PoolInv, Control, Types
  <2> DEFINE Holds(u) == \/ thread[u].at \in {"use", "verify", "put"}
                         \/ thread[u].for = "put" /\ thread[u].at \in {"checkpid", "fork_lock"} \cup InLock
  <2>3. Holds(t)' <=> Holds(t)
    <3>1. CASE Verify(t) BY <2>2, <3>1 DEF Verify, Goto, At, InLock, Steps, Operations
    <3>2. CASE VerifyFails(t) BY <2>2, <3>2 DEF VerifyFails, At, InLock, Steps, Operations
    <3>3. CASE Checkpid(t) BY <2>2, <3>3 DEF Checkpid, Goto, At, InLock, Steps, Operations
    <3>4. CASE AcquireForkLock(t)
      BY <2>2, <3>4 DEF AcquireForkLock, Goto, At, InLock, Steps, Operations
    <3>5. CASE ReleaseForkLock(t)
      BY <2>2, <3>5 DEF ReleaseForkLock, Goto, At, InLock, Steps, Operations
    <3>6. ASSUME NEW op \in Operations, Call(t, op) PROVE Holds(t)' <=> Holds(t)
      BY <2>2, <3>6 DEF Call, At, InLock, Steps, Operations
    <3> QED BY <3>1, <3>2, <3>3, <3>4, <3>5, <3>6
  <2>4. \A u \in Threads : Held(u) # None <=> Holds(u) BY DEF PoolInv, Control, HoldsOne
  <2>5. \A u \in Threads : Holds(u)' <=> Holds(u) BY <2>1, <2>3
  <2> HIDE DEF Holds
  <2>6. \A u \in Threads : Held(u)' # None <=> Holds(u)' BY <1>2, <2>4, <2>5
  <2> QED BY <2>6 DEF HoldsOne, Holds
<1>8. Current'
  BY <1>1 DEF Verify, VerifyFails, Checkpid, AcquireForkLock, ReleaseForkLock, Call, Goto, At,
     PoolInv, Control, Types, Current, Steps, Operations
<1>9. IsReset'
  BY <1>1 DEF Verify, VerifyFails, Checkpid, AcquireForkLock, ReleaseForkLock, Call, Goto, At,
     PoolInv, Control, Types, IsReset, NewPool, Steps, Operations
<1> QED BY <1>3, <1>4, <1>5, <1>6, <1>7, <1>8, <1>9 DEF PoolInv, Control

\* Steps of a thread that returns and had no connection, or had one in a pool
\* of another process.
LEMMA ReturnStep ==
  ASSUME PoolInv, NEW t \in Threads, TakeFails(t) \/ DisconnectAll(t) \/ ForkLockTimesOut(t)
  PROVE  PoolInv'
<1>1. /\ UNCHANGED <<kind, max, getpid, foreign, pool>> /\ Return(t)
      /\ thread[t].at \notin InLock
  BY DEF TakeFails, DisconnectAll, ForkLockTimesOut, At, InLock
<1>2. /\ Held(t)' = None /\ \A u \in Threads \ {t} : Held(u)' = Held(u)
      /\ InUse' = InUse \ {Held(t)} /\ Lent' = Lent \ {Held(t)}
  BY <1>1, HeldReturn DEF PoolInv, Control, Contents
<1>3. /\ thread \in [Threads -> [at : Steps, for : Operations, conn : Connections \cup {None}]]
      /\ thread' = [thread EXCEPT ![t] = Idle] /\ Idle.at = "idle" /\ Idle.conn = None
      /\ Idle \in [at : Steps, for : Operations, conn : Connections \cup {None}]
  BY <1>1 DEF PoolInv, Control, Types, Return, Idle, Steps, Operations
<1>4. Types' BY <1>1, <1>3 DEF PoolInv, Control, Types
<1>5. Control'
  BY <1>1, <1>2, <1>3, <1>4 DEF PoolInv, Control, Locking, HoldsOne, Current, InLock
<1>6. IsReset' BY <1>1, <1>3 DEF PoolInv, IsReset, At, NewPool
<1>7. Sockets'
  <2>1. ForkLockTimesOut(t) \/ TakeFails(t) => shut' = shut
    BY DEF ForkLockTimesOut, TakeFails
  <2>2. DisconnectAll(t) => shut' \subseteq shut \cup {c \in Pooled \cup Lent : c.pid = getpid}
    BY DEF DisconnectAll, ShutDown
  <2>3. Pooled \cup Lent \subseteq Connections
    BY HeldFacts DEF Pooled, PoolInv, Control, Types, Range
  <2> QED BY <1>1, <2>1, <2>2, <2>3 DEF PoolInv, Sockets, ParentKeepsItsSockets
<1>8. CASE Held(t) = None
  <2>1. \A u \in Threads : Held(u)' = Held(u) BY <1>2, <1>8
  <2>2. Contents' BY <1>1, <2>1, ContentsSame DEF PoolInv
  <2> QED BY <1>5, <1>6, <1>7, <2>2 DEF PoolInv
<1>9. CASE Held(t) # None
  <2>1. ForkLockTimesOut(t)
    BY <1>9 DEF TakeFails, DisconnectAll, At, PoolInv, Control, HoldsOne, InLock
  <2>2. pool.pid # getpid /\ pool'.pid # getpid'
    BY <1>1, <2>1 DEF ForkLockTimesOut, PoolInv, Control, Current
  <2>3. Pooled' = Pooled /\ InUse' \subseteq InUse /\ Known' \subseteq Known
    BY <1>1, <1>2 DEF Pooled, Known
  <2>4. NotFuture' BY <1>1, <2>3 DEF PoolInv, Contents, NotFuture
  <2>5. Stale' /\ Own'
    BY <1>1, <1>2, <2>2, NoneIsNoConnection
    DEF PoolInv, Contents, Stale, Own, Control, Types, Processes
  <2>6. ForeignOnce' BY <1>1, <1>2, <2>2 DEF PoolInv, Contents, ForeignOnce, IsForeign
  <2>7. Distinct' BY <1>1, <1>2, <2>3 DEF PoolInv, Contents, Distinct
  <2>8. PlainCount' /\ BlockingCount'
    BY <1>1, <2>2 DEF PoolInv, Contents, PlainCount, BlockingCount
  <2> QED BY <1>5, <1>6, <1>7, <2>4, <2>5, <2>6, <2>7, <2>8 DEF PoolInv, Contents
<1> QED BY <1>8, <1>9

LEMMA ResetStep == ASSUME PoolInv, NEW t \in Threads, Reset(t) PROVE PoolInv'
<1>1. /\ pool' = [NewPool(pool.pid) EXCEPT !.lock = "held"] /\ foreign' = 0
      /\ UNCHANGED <<kind, max, getpid>> /\ Goto(t, "pid") /\ At(t, "reset")
  BY DEF Reset
<1>2. /\ pool'.pid = pool.pid /\ pool'.used = {} /\ pool'.created = 0 /\ pool'.lock = "held"
      /\ pool'.idle = NewPool(pool.pid).idle
      /\ pool' = [pid |-> pool.pid, used |-> {}, created |-> 0, lock |-> "held",
                  idle |-> pool'.idle]
  BY <1>1 DEF NewPool
<1>3. /\ pool'.idle \in Seq(Connections \cup {None}) /\ Range(pool'.idle) \subseteq {None}
      /\ NewPool(pool'.pid).idle = NewPool(pool.pid).idle
  BY <1>2, NewPoolFacts DEF PoolInv, Control, Types
<1>4. pool.pid # getpid /\ pool.pid \in Processes
  BY <1>1 DEF At, PoolInv, Control, Current, Types
<1>5. /\ thread \in [Threads -> [at : Steps, for : Operations, conn : Connections \cup {None}]]
      /\ thread' = [thread EXCEPT ![t].at = "pid"]
  BY <1>1 DEF PoolInv, Control, Types, Goto
<1>6. \A u \in Threads : Held(u)' = Held(u) BY <1>5 DEF Held
<1>7. Types'
  <2>1. pool' \in [pid : Processes, used : SUBSET Connections, created : Int, lock : Locks,
                   idle : Seq(Connections \cup {None})]
    BY <1>2, <1>3, <1>4 DEF Locks
  <2>2. thread' \in [Threads -> [at : Steps, for : Operations, conn : Connections \cup {None}]]
    BY <1>5 DEF Steps
  <2> QED BY <1>1, <2>1, <2>2 DEF PoolInv, Control, Types
<1>8. Locking' BY <1>1, <1>2, <1>5 DEF PoolInv, Control, Locking, InLock, At
<1>9. HoldsOne' BY <1>1, <1>5, <1>6 DEF PoolInv, Control, HoldsOne, InLock, At
<1>10. Current' BY <1>1, <1>2, <1>4, <1>5 DEF PoolInv, Control, Current, At
<1>11. IsReset' BY <1>1, <1>2, <1>3 DEF IsReset, NewPool
<1>12. InUse' = InUse BY <1>1, <1>6, SameHeld
<1>13. Pooled' = {} /\ Known' = InUse BY <1>2, <1>3, <1>12 DEF Pooled, Known
<1>14. NotFuture' BY <1>1, <1>2, <1>13 DEF PoolInv, Contents, NotFuture, Known
<1>15. Stale' /\ Own' /\ ForeignOnce'
  BY <1>1, <1>2, <1>4, <1>6 DEF PoolInv, Contents, Stale, Own, ForeignOnce, IsForeign
<1>16. Distinct'
  <2>1. \A i \in DOMAIN pool'.idle : pool'.idle[i] = None BY <1>3 DEF Range
  <2>2. None \notin InUse' BY DEF InUse
  <2> QED BY <1>3, <1>6, <2>1, <2>2 DEF PoolInv, Contents, Distinct
<1>17. PlainCount' /\ BlockingCount'
  BY <1>1, <1>2, <1>4 DEF PlainCount, BlockingCount
<1>18. Sockets'
  <2>1. shut' \subseteq shut \cup {c \in Pooled : c.pid = getpid} BY DEF Reset, ShutDown
  <2>2. Pooled \subseteq Connections
    BY DEF Pooled, PoolInv, Control, Types, Range
  <2> QED BY <1>1, <2>1, <2>2 DEF PoolInv, Sockets, ParentKeepsItsSockets
<1> QED BY <1>7, <1>8, <1>9, <1>10, <1>11, <1>14, <1>15, <1>16, <1>17, <1>18
        DEF PoolInv, Control, Contents

LEMMA SetPidStep == ASSUME PoolInv, NEW t \in Threads, SetPid(t) PROVE PoolInv'
<1>1. /\ pool' = [pool EXCEPT !.pid = getpid] /\ At(t, "pid") /\ Goto(t, "unlock")
      /\ UNCHANGED <<kind, max, getpid, foreign, shut>>
  BY DEF SetPid
<1>2. /\ pool'.pid = getpid /\ pool'.used = {} /\ pool'.created = 0 /\ foreign = 0
      /\ pool'.idle = NewPool(pool.pid).idle /\ pool'.idle = pool.idle /\ pool'.lock = pool.lock
  BY <1>1 DEF PoolInv, Control, Types, IsReset
<1>3. /\ Range(pool'.idle) \subseteq {None}
      /\ kind = "plain" => Len(pool'.idle) = 0 /\ Range(pool'.idle) = {}
      /\ kind = "blocking" => Len(pool'.idle) = max
  BY <1>2, NewPoolFacts DEF PoolInv, Control, Types
<1>4. pool.pid # getpid BY <1>1 DEF At, PoolInv, Control, Current
<1>5. /\ thread \in [Threads -> [at : Steps, for : Operations, conn : Connections \cup {None}]]
      /\ thread' = [thread EXCEPT ![t].at = "unlock"]
  BY <1>1 DEF PoolInv, Control, Types, Goto
<1>6. \A u \in Threads : Held(u)' = Held(u) BY <1>5 DEF Held
<1>7. Types'
  <2>1. pool' \in [pid : Processes, used : SUBSET Connections, created : Int, lock : Locks,
                   idle : Seq(Connections \cup {None})]
    BY <1>1 DEF PoolInv, Control, Types
  <2>2. thread' \in [Threads -> [at : Steps, for : Operations, conn : Connections \cup {None}]]
    BY <1>5 DEF Steps
  <2> QED BY <1>1, <2>1, <2>2 DEF PoolInv, Control, Types
<1>8. Locking' BY <1>1, <1>2, <1>5 DEF PoolInv, Control, Locking, InLock, At
<1>9. HoldsOne' BY <1>1, <1>5, <1>6 DEF PoolInv, Control, HoldsOne, InLock, At
<1>10. Current'
  <2>1. \A u \in Threads \ {t} : thread[u].at \notin InLock
    BY <1>1 DEF PoolInv, Control, Locking, InLock, At
  <2>2. pool'.lock = "held" BY <1>1, <1>2 DEF PoolInv, Control, Locking, InLock, At
  <2> QED BY <1>1, <1>2, <1>5, <2>1, <2>2 DEF Current, InLock
<1>11. IsReset'
  <2>1. \A u \in Threads \ {t} : thread[u].at \notin InLock
    BY <1>1 DEF PoolInv, Control, Locking, InLock, At
  <2> QED BY <1>5, <2>1 DEF IsReset, At, InLock
<1>12. InUse' = InUse /\ Lent' = Lent BY <1>1, <1>6, SameHeld
<1>13. Lent = {}
  BY <1>4 DEF Lent, InUse, PoolInv, Contents, Stale
<1>14. Cardinality(Lent') = 0 BY <1>12, <1>13, FS_EmptySet
<1>15. Pooled' = {} /\ Known' = InUse BY <1>2, <1>3, <1>12 DEF Pooled, Known
<1>16. NotFuture' BY <1>1, <1>2, <1>15 DEF PoolInv, Contents, NotFuture, Known, Control, Types, Processes
<1>17. Stale' /\ Own' /\ ForeignOnce'
  BY <1>1, <1>2, <1>6, <1>15 DEF PoolInv, Contents, Stale, Own, ForeignOnce, IsForeign
<1>18. Distinct' BY <1>2, <1>6, <1>12 DEF PoolInv, Contents, Distinct
<1>19. PlainCount'
  BY <1>1, <1>2, <1>3, <1>12, <1>13, <1>14 DEF PlainCount, PoolInv, Control, Types
<1>20. BlockingCount'
  BY <1>1, <1>2, <1>3, <1>14 DEF BlockingCount, PoolInv, Control, Types
<1>21. Sockets' BY <1>1 DEF PoolInv, Sockets, ParentKeepsItsSockets
<1> QED BY <1>7, <1>8, <1>9, <1>10, <1>11, <1>16, <1>17, <1>18, <1>19, <1>20, <1>21
        DEF PoolInv, Control, Contents

\* The child: the thread that forks goes on, with what it holds.
LEMMA ForkStep == ASSUME PoolInv, NEW t \in Threads, Fork(t) PROVE PoolInv'
<1>1. /\ getpid \in Nat /\ getpid' = getpid + 1 /\ getpid' > getpid /\ getpid' \in Processes
      /\ thread[t].at \in {"idle", "use"} /\ shut' = {}
      /\ pool' = [pool EXCEPT !.lock = IF @ = "free" THEN @ ELSE "inherited"]
      /\ thread' = [u \in Threads |-> IF u = t THEN thread[t] ELSE Idle]
      /\ UNCHANGED <<kind, max, foreign>>
  BY PoolAssumption DEF Fork, PoolInv, Control, Types, Processes
<1>2. /\ UNCHANGED <<pool.pid, pool.idle, pool.used, pool.created>>
      /\ pool'.lock \in {"free", "inherited"}
      /\ pool' = [pool EXCEPT !.lock = pool'.lock]
  BY <1>1 DEF PoolInv, Control, Types
<1>3. pool'.pid < getpid' /\ pool'.pid # getpid'
  BY <1>1, <1>2 DEF PoolInv, Control, Types, Contents, NotFuture, Processes
<1>4. /\ Held(t)' = Held(t) /\ \A u \in Threads \ {t} : Held(u)' = None
      /\ InUse' \subseteq InUse
  <2>1. Held(t)' = Held(t) /\ \A u \in Threads \ {t} : Held(u)' = None
    BY <1>1 DEF Held, Idle
  <2> QED BY <2>1 DEF InUse
<1>5. Types'
  <2>1. pool' \in [pid : Processes, used : SUBSET Connections, created : Int, lock : Locks,
                   idle : Seq(Connections \cup {None})]
    BY <1>2 DEF PoolInv, Control, Types, Locks
  <2>2. thread' \in [Threads -> [at : Steps, for : Operations, conn : Connections \cup {None}]]
    BY <1>1 DEF PoolInv, Control, Types, Idle, Steps, Operations
  <2> QED BY <1>1, <2>1, <2>2 DEF PoolInv, Control, Types
<1>6. \A u \in Threads : thread'[u].at \in {"idle", "use"} BY <1>1 DEF Idle
<1>7. Control' /\ IsReset'
  <2>1. Locking' BY <1>2, <1>6 DEF Locking, InLock
  <2>2. HoldsOne' BY <1>1, <1>4, <1>6 DEF PoolInv, Control, HoldsOne, InLock, Idle
  <2>3. Current' BY <1>3, <1>6 DEF Current
  <2>4. IsReset' BY <1>6 DEF IsReset, At
  <2> QED BY <1>5, <2>1, <2>2, <2>3, <2>4 DEF Control
<1>8. Pooled' = Pooled /\ Known' \subseteq Known BY <1>2, <1>4 DEF Pooled, Known
<1>9. \A c \in Known : c.pid \in Int /\ c.pid <= getpid
  <2>1. Known \subseteq Connections
    BY HeldFacts DEF Known, Pooled, PoolInv, Control, Types, Range
  <2> QED BY <2>1 DEF PoolInv, Contents, NotFuture, Connections, Processes
<1>10. NotFuture' BY <1>1, <1>3, <1>8, <1>9 DEF NotFuture, PoolInv, Control, Types, Processes
<1>11. Stale'
  <2>1. Held(t) # None => Held(t) \in Known BY DEF Known, InUse
  <2>2. Held(t) # None => Held(t).pid # getpid' BY <1>1, <1>9, <2>1
  <2>3. None.pid # getpid' BY <1>1, NoneIsNoConnection
  <2> QED BY <1>4, <2>2, <2>3 DEF Stale
<1>12. Own' BY <1>3 DEF Own
<1>13. ForeignOnce' BY <1>3, <1>4 DEF ForeignOnce, IsForeign
<1>14. Distinct' BY <1>2, <1>4 DEF PoolInv, Contents, Distinct
<1>15. PlainCount' BY <1>3 DEF PlainCount
<1>16. BlockingCount' BY <1>1, <1>2, <1>3 DEF PoolInv, Contents, BlockingCount
<1>17. Sockets' BY <1>1 DEF Sockets, ParentKeepsItsSockets
<1> QED BY <1>7, <1>10, <1>11, <1>12, <1>13, <1>14, <1>15, <1>16, <1>17 DEF PoolInv, Contents

-----------------------------------------------------------------------------
(* get_connection, release. *)

\* A thread gets a connection that nobody holds, out of the pool or a new one.
LEMMA GrantStep ==
  ASSUME PoolInv, NEW t \in Threads, At(t, "take"), NEW c \in Made(getpid), Grant(t, c),
         UNCHANGED <<kind, max, getpid, foreign, pool.pid, pool.lock>>,
         NEW q \in Seq(Connections \cup {None}), NEW u \in SUBSET Connections, NEW n \in Int,
         pool' = [pool EXCEPT !.idle = q, !.used = u, !.created = n],
         c \notin InUse, c \notin Range(q), Range(q) \subseteq Range(pool.idle),
         \A i, j \in DOMAIN q : i # j /\ q[i] # None => q[i] # q[j],
         kind = "plain" => u = pool.used \cup {c} /\ n - Len(q) = pool.created - Len(pool.idle) + 1
                           /\ n <= max,
         kind = "blocking" => u = {} /\ Len(q) = Len(pool.idle) - 1,
         shut' \subseteq shut
  PROVE  PoolInv'
<1>1. /\ thread \in [Threads -> [at : Steps, for : Operations, conn : Connections \cup {None}]]
      /\ thread' = [thread EXCEPT ![t].at = "verify", ![t].conn = c]
      /\ c \in Connections /\ c.pid = getpid /\ Held(t) = None
      /\ thread[t].at = "take"
  BY DEF PoolInv, Control, Types, HoldsOne, InLock, At, Grant, Made
<1>2. /\ Held(t)' = c /\ \A v \in Threads \ {t} : Held(v)' = Held(v)
      /\ InUse' = InUse \cup {c} /\ Lent' = Lent \cup {c}
  BY <1>1, HeldGrant DEF PoolInv, Control
<1>3. /\ pool'.idle = q /\ pool'.used = u /\ pool'.created = n
      /\ pool'.pid = pool.pid /\ pool'.lock = pool.lock
  BY DEF PoolInv, Control, Types
<1>4. pool.pid = getpid BY <1>1 DEF PoolInv, Control, Current
<1>5. Types'
  <2>1. pool' \in [pid : Processes, used : SUBSET Connections, created : Int, lock : Locks,
                   idle : Seq(Connections \cup {None})]
    BY DEF PoolInv, Control, Types
  <2>2. thread' \in [Threads -> [at : Steps, for : Operations, conn : Connections \cup {None}]]
    BY <1>1 DEF Steps
  <2> QED BY <2>1, <2>2 DEF PoolInv, Control, Types
<1>6. Locking' BY <1>1, <1>3 DEF PoolInv, Control, Locking, InLock
<1>7. HoldsOne'
  BY <1>1, <1>2, NoneIsNoConnection DEF PoolInv, Control, HoldsOne, InLock
<1>8. Current' BY <1>1, <1>3, <1>4 DEF PoolInv, Control, Current
<1>9. IsReset'
  <2>1. \A v \in Threads : thread[v].at # "pid" BY <1>4 DEF PoolInv, Control, Current
  <2> QED BY <1>1, <2>1 DEF IsReset, At
<1>10. u \subseteq pool.used \cup {c} BY DEF PoolInv, Control, Types, Kinds
<1>11. Pooled' \subseteq Pooled \cup {c} /\ Known' \subseteq Known \cup {c}
  BY <1>2, <1>3, <1>10 DEF Pooled, Known
<1>12. NotFuture' BY <1>1, <1>3, <1>11 DEF PoolInv, Contents, NotFuture, Control, Types, Processes
<1>13. Stale' /\ Own' BY <1>1, <1>3, <1>4, <1>11 DEF PoolInv, Contents, Stale, Own
<1>14. ForeignOnce' BY <1>1, <1>2, <1>3 DEF PoolInv, Contents, ForeignOnce, IsForeign
<1>15. Distinct'
  <2>1. \A v \in Threads \ {t} : Held(v) # c BY <1>1, NoneIsNoConnection DEF InUse
  <2>2. \A v, w \in Threads : v # w /\ Held(v)' # None => Held(v)' # Held(w)'
    BY <1>2, <2>1 DEF PoolInv, Contents, Distinct
  <2>3. Range(q) \cap InUse' = {} BY <1>2 DEF PoolInv, Contents, Distinct
  <2> QED BY <1>3, <2>2, <2>3 DEF Distinct
<1>16. Cardinality(Lent') = Cardinality(Lent) + 1
  <2>1. c \notin Lent BY DEF Lent
  <2>2. IsFiniteSet(Lent) BY HeldFacts DEF PoolInv, Control
  <2> QED BY <1>2, <2>1, <2>2, FS_AddElement
<1>17. /\ Len(q) \in Nat /\ Len(pool.idle) \in Nat /\ Cardinality(Lent) \in Nat
       /\ max \in Nat /\ foreign \in Nat /\ pool.created \in Int
  BY HeldFacts, PoolAssumption DEF PoolInv, Control, Types
<1>18. PlainCount'
  <2> SUFFICES ASSUME kind = "plain" PROVE PlainCount' BY DEF PlainCount
  <2>1. /\ None \notin Range(pool.idle) /\ pool.used = Lent
        /\ pool.created = Len(pool.idle) + Cardinality(Lent) - foreign
    BY <1>4 DEF PoolInv, Contents, PlainCount
  <2>2. n = Len(q) + (Cardinality(Lent) + 1) - foreign BY <1>17, <2>1
  <2> QED BY <1>2, <1>3, <1>16, <2>1, <2>2 DEF PlainCount
<1>19. BlockingCount'
  <2> SUFFICES ASSUME kind = "blocking" PROVE BlockingCount' BY DEF BlockingCount
  <2>1. /\ Len(pool.idle) <= max /\ max <= Len(pool.idle) + Cardinality(Lent)
        /\ Len(pool.idle) + Cardinality(Lent) <= max + foreign
    BY <1>4 DEF PoolInv, Contents, BlockingCount
  <2>2. Len(q) = Len(pool.idle) - 1 OBVIOUS
  <2>3. /\ Len(q) <= max /\ max <= Len(q) + (Cardinality(Lent) + 1)
        /\ Len(q) + (Cardinality(Lent) + 1) <= max + foreign
    BY <1>17, <2>1, <2>2
  <2> QED BY <1>3, <1>16, <2>3 DEF BlockingCount
<1>20. Sockets' BY DEF PoolInv, Sockets, ParentKeepsItsSockets
<1> QED BY <1>5, <1>6, <1>7, <1>8, <1>9, <1>12, <1>13, <1>14, <1>15, <1>18, <1>19, <1>20
        DEF PoolInv, Control, Contents

\* What is left when the last place of the pool is taken.
LEMMA FrontOfIdle ==
  ASSUME PoolInv, pool.idle # <<>>
  PROVE  LET conns == pool.idle
             q == SubSeq(conns, 1, Len(conns) - 1)
             x == conns[Len(conns)] IN
         /\ q \in Seq(Connections \cup {None}) /\ x \in Connections \cup {None} /\ x \in Range(conns)
         /\ Len(conns) \in Nat /\ Len(q) = Len(conns) - 1
         /\ Range(q) \subseteq Range(conns)
         /\ x # None => x \notin Range(q)
         /\ \A i, j \in DOMAIN q : i # j /\ q[i] # None => q[i] # q[j]
<1> DEFINE conns == pool.idle
           q == SubSeq(conns, 1, Len(conns) - 1)
<1>1. conns \in Seq(Connections \cup {None}) /\ conns # <<>> BY DEF PoolInv, Control, Types
<1> DEFINE S == Connections \cup {None}
<1>0. q = SubSeq(conns, 1, Len(conns) - 1) /\ conns \in Seq(S) BY <1>1
<1> HIDE DEF q, conns, S
<1>2. IsFront(q, conns, S) BY <1>0, <1>1, FrontFacts
<1> USE DEF IsFront
<1> USE DEF conns
<1>3. \A i, j \in DOMAIN conns : i # j /\ conns[i] # None => conns[i] # conns[j]
  BY DEF PoolInv, Contents, Distinct
<1> HIDE DEF conns
<1>4. conns[Len(conns)] # None => conns[Len(conns)] \notin Range(q)
  BY <1>2, <1>3 DEF Range
<1>5. \A i, j \in DOMAIN q : i # j /\ q[i] # None => q[i] # q[j] BY <1>2, <1>3
<1>6. conns[Len(conns)] \in Range(conns) BY <1>2 DEF Range
<1> QED BY <1>2, <1>4, <1>5, <1>6 DEF q, conns, S

LEMMA TakeIdleStep == ASSUME PoolInv, NEW t \in Threads, TakeIdle(t) PROVE PoolInv'
<1> DEFINE conns == pool.idle
           q == SubSeq(conns, 1, Len(conns) - 1)
           c == conns[Len(conns)]
           u == IF kind = "plain" THEN pool.used \cup {c} ELSE pool.used
           n == pool.created
<1>1. /\ At(t, "take") /\ conns # <<>> /\ c # None /\ Grant(t, c)
      /\ pool' = [pool EXCEPT !.idle = q, !.used = IF kind = "plain" THEN @ \cup {c} ELSE @]
      /\ UNCHANGED <<kind, max, getpid, foreign, shut>>
  BY DEF TakeIdle
<1>2. /\ q \in Seq(Connections \cup {None}) /\ c \in Connections /\ c \in Range(pool.idle)
      /\ Len(conns) \in Nat /\ Len(q) = Len(conns) - 1
      /\ Range(q) \subseteq Range(pool.idle) /\ c \notin Range(q)
      /\ \A i, j \in DOMAIN q : i # j /\ q[i] # None => q[i] # q[j]
  BY <1>1, FrontOfIdle
<1> HIDE DEF q, c
<1>3. pool.pid = getpid BY <1>1 DEF At, PoolInv, Control, Current
<1>4. c \in Pooled /\ c \in Made(getpid)
  BY <1>1, <1>2, <1>3 DEF Pooled, Made, PoolInv, Contents, Own
<1>5. c \notin InUse BY <1>2 DEF PoolInv, Contents, Distinct
<1>6. u \in SUBSET Connections /\ n \in Int /\ pool.created \in Int
  BY <1>2 DEF PoolInv, Control, Types
<1>7. /\ pool' = [pool EXCEPT !.idle = q, !.used = u, !.created = n]
      /\ UNCHANGED <<pool.pid, pool.lock>>
  BY <1>1 DEF PoolInv, Control, Types
<1>8. kind = "plain" => /\ u = pool.used \cup {c}
                        /\ n - Len(q) = pool.created - Len(pool.idle) + 1 /\ n <= max
  BY <1>2, <1>3, <1>6 DEF PoolInv, Contents, PlainCount
<1>9. kind = "blocking" => u = {} /\ Len(q) = Len(pool.idle) - 1
  BY <1>2 DEF PoolInv, Contents, BlockingCount
<1> HIDE DEF u, n
<1> QED BY <1>1, <1>2, <1>4, <1>5, <1>6, <1>7, <1>8, <1>9, GrantStep

LEMMA TakeNewStep ==
  ASSUME PoolInv, NEW t \in Threads, TakeNew(t)
  PROVE  PoolInv'
<1> DEFINE fresh == {c \in Connections : c.pid = getpid} \ Known
           c == CHOOSE c \in fresh : \A d \in fresh : c.n <= d.n
<1>1. /\ At(t, "take") /\ Grant(t, c) /\ shut' = shut \ {c}
      /\ UNCHANGED <<kind, max, getpid, foreign>>
  BY DEF TakeNew
<1>2. pool.pid = getpid BY <1>1 DEF At, PoolInv, Control, Current
<1>3. ASSUME \/ kind = "plain" /\ pool.created < max
             \/ kind = "blocking" /\ None \in Range(pool.idle)
      PROVE  c \in Made(getpid) /\ c \notin Known
  <2>1. \E d \in fresh : \A e \in fresh : d.n <= e.n
    BY <1>2, <1>3, FreshExists DEF PoolInv, Control
  <2>2. c \in fresh BY <2>1
  <2> QED BY <2>2 DEF Made
<1> HIDE DEF c, fresh
<1>4. CASE /\ kind = "plain" /\ pool.idle = <<>> /\ pool.created < max
           /\ pool' = [pool EXCEPT !.created = @ + 1, !.used = @ \cup {c}]
  <2> DEFINE q == pool.idle
             u == pool.used \cup {c}
             n == pool.created + 1
  <2>1. c \in Made(getpid) /\ c \notin Known BY <1>3, <1>4
  <2>2. /\ q \in Seq(Connections \cup {None}) /\ u \in SUBSET Connections /\ n \in Int
        /\ pool.created \in Int /\ Len(q) \in Nat /\ max \in Nat
    BY <2>1, PoolAssumption DEF PoolInv, Control, Types, Made
  <2>3. pool' = [pool EXCEPT !.idle = q, !.used = u, !.created = n]
        /\ UNCHANGED <<pool.pid, pool.lock>>
    BY <1>4 DEF PoolInv, Control, Types
  <2>4. c \notin InUse /\ c \notin Range(q)
    <3>1. c # None BY <2>1, NoneIsNoConnection DEF Made
    <3> QED BY <2>1, <3>1 DEF Known, Pooled
  <2>5. \A i, j \in DOMAIN q : i # j /\ q[i] # None => q[i] # q[j]
    BY DEF PoolInv, Contents, Distinct
  <2>6. n - Len(q) = pool.created - Len(pool.idle) + 1 /\ n <= max BY <1>4, <2>2
  <2>7. u = pool.used \cup {c} /\ Range(q) \subseteq Range(pool.idle) OBVIOUS
  <2> HIDE DEF q, u, n
  <2> QED BY <1>1, <1>4, <2>1, <2>2, <2>3, <2>4, <2>5, <2>6, <2>7, GrantStep
<1>5. CASE /\ kind = "blocking" /\ pool.idle # <<>> /\ pool.idle[Len(pool.idle)] = None
           /\ pool' = [pool EXCEPT !.idle = SubSeq(@, 1, Len(@) - 1)]
  <2> DEFINE conns == pool.idle
             q == SubSeq(conns, 1, Len(conns) - 1)
             u == pool.used
             n == pool.created
  <2>1. /\ q \in Seq(Connections \cup {None}) /\ None \in Range(pool.idle)
        /\ Len(conns) \in Nat /\ Len(q) = Len(conns) - 1
        /\ Range(q) \subseteq Range(pool.idle)
        /\ \A i, j \in DOMAIN q : i # j /\ q[i] # None => q[i] # q[j]
    BY <1>5, FrontOfIdle
  <2>2. c \in Made(getpid) /\ c \notin Known BY <1>3, <1>5, <2>1
  <2>3. u \in SUBSET Connections /\ n \in Int /\ u = {}
    BY <1>5 DEF PoolInv, Control, Types, Contents, BlockingCount
  <2>4. /\ pool' = [pool EXCEPT !.idle = q, !.used = u, !.created = n]
        /\ UNCHANGED <<pool.pid, pool.lock>>
    BY <1>5 DEF PoolInv, Control, Types
  <2> HIDE DEF q
  <2>5. c \notin InUse /\ c \notin Range(q)
    <3>1. c # None BY <2>2, NoneIsNoConnection DEF Made
    <3> QED BY <2>1, <2>2, <3>1 DEF Known, Pooled
  <2> HIDE DEF u, n
  <2> QED BY <1>1, <1>5, <2>1, <2>2, <2>3, <2>4, <2>5, GrantStep
<1> QED BY <1>4, <1>5 DEF TakeNew, fresh, c

\* What the queue may be when a thread has given its connection back.
Received(t, q) ==
  /\ q \in Seq(Connections \cup {None})
  /\ \A x \in Range(q) : \/ x \in Range(pool.idle) \cup {None}
                         \/ x = Held(t) /\ x.pid = getpid
  /\ \A i, j \in DOMAIN q : i # j /\ q[i] # None => q[i] # q[j]

\* A thread leaves the connection that it gives back, or something in its place, in
\* the pool, or nothing.
LEMMA GiveBackStep ==
  ASSUME PoolInv, NEW t \in Threads, At(t, "put"), Return(t),
         UNCHANGED <<kind, max, getpid, pool.pid, pool.lock>>,
         NEW q, Received(t, q), NEW u \in SUBSET pool.used, NEW n \in Int,
         pool' = [pool EXCEPT !.idle = q, !.used = u, !.created = n],
         foreign' \in Nat, ForeignOnce', PlainCount', BlockingCount',
         shut' \subseteq shut
  PROVE  PoolInv'
<1>0. /\ q \in Seq(Connections \cup {None})
      /\ \A x \in Range(q) : \/ x \in Range(pool.idle) \cup {None}
                             \/ x = Held(t) /\ x.pid = getpid
      /\ \A i, j \in DOMAIN q : i # j /\ q[i] # None => q[i] # q[j]
  BY DEF Received
<1>1. /\ thread \in [Threads -> [at : Steps, for : Operations, conn : Connections \cup {None}]]
      /\ thread' = [thread EXCEPT ![t] = Idle] /\ Idle.at = "idle" /\ Idle.conn = None
      /\ Idle \in [at : Steps, for : Operations, conn : Connections \cup {None}]
      /\ thread[t].at = "put"
  BY DEF PoolInv, Control, Types, Return, Idle, Steps, Operations, At
<1>2. /\ Held(t)' = None /\ \A v \in Threads \ {t} : Held(v)' = Held(v)
      /\ InUse' = InUse \ {Held(t)} /\ Lent' = Lent \ {Held(t)}
  BY HeldReturn DEF PoolInv, Control, Contents
<1>3. /\ pool'.idle = q /\ pool'.used = u /\ pool'.created = n
      /\ pool'.pid = pool.pid /\ pool'.lock = pool.lock
  BY DEF PoolInv, Control, Types
<1>4. pool.pid = getpid /\ Held(t) # None
  BY <1>1 DEF PoolInv, Control, Current, HoldsOne
<1>5. Types'
  <2>1. pool' \in [pid : Processes, used : SUBSET Connections, created : Int, lock : Locks,
                   idle : Seq(Connections \cup {None})]
    BY <1>0 DEF PoolInv, Control, Types
  <2> QED BY <1>1, <2>1 DEF PoolInv, Control, Types
<1>6. Locking' BY <1>1, <1>3 DEF PoolInv, Control, Locking, InLock
<1>7. HoldsOne' BY <1>1, <1>2 DEF PoolInv, Control, HoldsOne, InLock
<1>8. Current' BY <1>1, <1>3, <1>4 DEF PoolInv, Control, Current
<1>9. IsReset'
  <2>1. \A v \in Threads : thread[v].at # "pid" BY <1>4 DEF PoolInv, Control, Current
  <2> QED BY <1>1, <2>1 DEF IsReset, At
<1>10. \A x \in Pooled' : x \in Pooled \/ (x = Held(t) /\ x.pid = getpid)
  BY <1>0, <1>3 DEF Pooled
<1>11. Known' \subseteq Known
  BY <1>2, <1>4, <1>10 DEF Known, InUse
<1>12. NotFuture' BY <1>3, <1>11 DEF PoolInv, Contents, NotFuture
<1>13. Stale' /\ Own' BY <1>3, <1>4, <1>10 DEF PoolInv, Contents, Stale, Own
<1>14. Distinct'
  <2>1. \A v, w \in Threads : v # w /\ Held(v)' # None => Held(v)' # Held(w)'
    BY <1>2 DEF PoolInv, Contents, Distinct
  <2>2. None \notin InUse BY DEF InUse
  <2>3. Range(q) \cap InUse' = {} BY <1>0, <1>2, <2>2 DEF PoolInv, Contents, Distinct
  <2> QED BY <1>0, <1>3, <2>1, <2>3 DEF Distinct
<1>15. Sockets' BY DEF PoolInv, Sockets, ParentKeepsItsSockets
<1> QED BY <1>5, <1>6, <1>7, <1>8, <1>9, <1>12, <1>13, <1>14, <1>15
        DEF PoolInv, Control, Contents

\* The queue with what is put in it.
LEMMA PutFacts ==
  ASSUME PoolInv, NEW x \in Connections \cup {None}, x = None \/ x \notin Range(pool.idle),
         NEW q, q \in {Append(pool.idle, x), PutNowait(x)}
  PROVE  /\ q \in Seq(Connections \cup {None})
         /\ Range(q) \subseteq Range(pool.idle) \cup {x}
         /\ \A i, j \in DOMAIN q : i # j /\ q[i] # None => q[i] # q[j]
         /\ q = Append(pool.idle, x) => Range(q) = Range(pool.idle) \cup {x}
                                        /\ Len(q) = Len(pool.idle) + 1
         /\ q = PutNowait(x) => Len(q) = IF Len(pool.idle) < max THEN Len(pool.idle) + 1
                                                                ELSE Len(pool.idle)
<1> DEFINE S == Connections \cup {None}
           s == pool.idle
           l == Append(s, x)
<1>1. s \in Seq(S) BY DEF PoolInv, Control, Types
<1>2. /\ q \in {l, s}
      /\ q = PutNowait(x) => q = IF Len(s) < max THEN l ELSE s
  BY DEF PutNowait
<1>3. \A i, j \in DOMAIN s : i # j /\ s[i] # None => s[i] # s[j]
  BY DEF PoolInv, Contents, Distinct
<1> HIDE DEF S, l, s
<1>4. IsLonger(l, s, x, S)
  <2>0. x \in S BY DEF S
  <2>1. ASSUME NEW m, m = Append(s, x) PROVE IsLonger(m, s, x, S)
    BY <1>1, <2>0, <2>1, LongerFacts
  <2> QED BY <2>1 DEF l
<1>5. \A i, j \in DOMAIN l : i # j /\ l[i] # None => l[i] # l[j]
  <2>1. \A i \in DOMAIN s : s[i] \in Range(s) BY DEF Range
  <2>2. x = None \/ x \notin Range(s) BY DEF s
  <2>3. \A i \in DOMAIN l : \/ i \in DOMAIN s /\ l[i] = s[i]
                            \/ i = Len(s) + 1 /\ i \notin DOMAIN s /\ l[i] = x
    BY <1>4 DEF IsLonger
  <2> QED BY <1>3, <2>1, <2>2, <2>3
<1>6. l \in Seq(S) /\ Len(l) = Len(s) + 1 /\ Len(s) \in Nat /\ Range(l) = Range(s) \cup {x}
  BY <1>4 DEF IsLonger
<1>7. l # s BY <1>6
<1>8. Append(pool.idle, x) = l BY DEF l, s
<1>9. q \in Seq(S) /\ Range(q) \subseteq Range(s) \cup {x} BY <1>1, <1>2, <1>6
<1>10. \A i, j \in DOMAIN q : i # j /\ q[i] # None => q[i] # q[j] BY <1>2, <1>3, <1>5
<1>11. q = PutNowait(x) => Len(q) = IF Len(s) < max THEN Len(s) + 1 ELSE Len(s)
  BY <1>2, <1>6
<1> QED BY <1>6, <1>8, <1>9, <1>10, <1>11 DEF S, s

LEMMA PutStep == ASSUME PoolInv, NEW t \in Threads, Put(t) PROVE PoolInv'
<1> DEFINE c == Held(t)
           q == IF kind = "plain" THEN Append(pool.idle, c) ELSE PutNowait(c)
           u == pool.used \ {c}
           n == pool.created
<1>1. /\ At(t, "put") /\ Return(t) /\ c.pid = pool.pid
      /\ pool' = [pool EXCEPT !.used = u, !.idle = q]
      /\ UNCHANGED <<kind, max, getpid, foreign, shut>>
  BY DEF Put, owns_connection
<1>2. /\ pool.pid = getpid /\ c # None /\ c \in Connections
  BY <1>1, HeldFacts DEF PoolInv, Control, Current, HoldsOne, At
<1>3. c \in InUse /\ c \in Lent BY <1>1, <1>2 DEF InUse, Lent
<1>4. c \notin Range(pool.idle) BY <1>3 DEF PoolInv, Contents, Distinct
<1>5. /\ q \in Seq(Connections \cup {None})
      /\ Range(q) \subseteq Range(pool.idle) \cup {c}
      /\ \A i, j \in DOMAIN q : i # j /\ q[i] # None => q[i] # q[j]
      /\ kind = "plain" => Range(q) = Range(pool.idle) \cup {c} /\ Len(q) = Len(pool.idle) + 1
      /\ kind = "blocking" => Len(q) = IF Len(pool.idle) < max THEN Len(pool.idle) + 1
                                                              ELSE Len(pool.idle)
  BY <1>2, <1>4, PutFacts DEF PoolInv, Control, Types, Kinds
<1>6. /\ pool' = [pool EXCEPT !.idle = q, !.used = u, !.created = n]
      /\ UNCHANGED <<pool.pid, pool.lock>> /\ u \in SUBSET pool.used /\ n \in Int
      /\ pool'.idle = q /\ pool'.used = u /\ pool'.created = n
  BY <1>1 DEF PoolInv, Control, Types
<1>7. /\ Held(t)' = None /\ \A v \in Threads \ {t} : Held(v)' = Held(v)
      /\ Lent' = Lent \ {c}
  BY <1>1, HeldReturn DEF PoolInv, Control, Contents
<1>8. /\ Cardinality(Lent') = Cardinality(Lent) - 1
      /\ Cardinality(Lent) \in Nat /\ Cardinality(Lent') \in Nat
  <2>1. IsFiniteSet(Lent) /\ Cardinality(Lent) \in Nat BY HeldFacts DEF PoolInv, Control
  <2>2. /\ IsFiniteSet(Lent \ {c})
        /\ Cardinality(Lent \ {c}) = Cardinality(Lent) - 1
    BY <1>3, <2>1, FS_RemoveElement
  <2> QED BY <1>7, <2>1, <2>2, FS_CardinalityType
<1>9. /\ Len(pool.idle) \in Nat /\ max \in Nat /\ foreign \in Nat /\ pool.created \in Int
  BY PoolAssumption DEF PoolInv, Control, Types
<1> HIDE DEF c, q, u, n
<1>10. ForeignOnce' BY <1>1, <1>6, <1>7 DEF PoolInv, Contents, ForeignOnce, IsForeign
<1>11. PlainCount'
  <2> SUFFICES ASSUME kind = "plain" PROVE PlainCount' BY <1>1 DEF PlainCount
  <2>1. /\ None \notin Range(pool.idle) /\ pool.used = Lent
        /\ pool.created = Len(pool.idle) + Cardinality(Lent) - foreign
        /\ pool.created <= max
    BY <1>2 DEF PoolInv, Contents, PlainCount
  <2>2. n = Len(q) + Cardinality(Lent') - foreign /\ n <= max
    BY <1>5, <1>8, <1>9, <2>1 DEF n
  <2>3. None \notin Range(q) /\ u = Lent' BY <1>2, <1>5, <1>7, <2>1 DEF u
  <2> QED BY <1>1, <1>6, <2>2, <2>3 DEF PlainCount
<1>12. BlockingCount'
  <2> SUFFICES ASSUME kind = "blocking" PROVE BlockingCount' BY <1>1 DEF BlockingCount
  <2>1. /\ Len(pool.idle) <= max /\ max <= Len(pool.idle) + Cardinality(Lent)
        /\ Len(pool.idle) + Cardinality(Lent) <= max + foreign /\ pool.used = {}
    BY <1>2 DEF PoolInv, Contents, BlockingCount
  <2>2. /\ Len(q) <= max /\ max <= Len(q) + Cardinality(Lent')
        /\ Len(q) + Cardinality(Lent') <= max + foreign
    <3>1. Len(q) = IF Len(pool.idle) < max THEN Len(pool.idle) + 1 ELSE Len(pool.idle)
      BY <1>5
    <3>2. CASE Len(pool.idle) < max
      <4>1. Len(q) = Len(pool.idle) + 1 BY <3>1, <3>2
      <4> QED BY <1>8, <1>9, <2>1, <3>2, <4>1
    <3>3. CASE ~(Len(pool.idle) < max)
      <4>1. Len(q) = Len(pool.idle) /\ Len(pool.idle) = max BY <1>9, <2>1, <3>1, <3>3
      <4> QED BY <1>8, <1>9, <2>1, <4>1
    <3> QED BY <3>2, <3>3
  <2>3. u = {} BY <2>1 DEF u
  <2> QED BY <1>1, <1>6, <2>2, <2>3 DEF BlockingCount
<1>13. Received(t, q) BY <1>1, <1>2, <1>5 DEF c, Received
<1>14. foreign' \in Nat /\ shut' \subseteq shut BY <1>1, <1>9
<1>15. At(t, "put") /\ Return(t) BY <1>1
<1>16. UNCHANGED <<kind, max, getpid, pool.pid, pool.lock>> BY <1>1, <1>6
<1>17. u \in SUBSET pool.used /\ n \in Int /\ pool' = [pool EXCEPT !.idle = q, !.used = u, !.created = n]
  BY <1>6
<1> QED BY <1>10, <1>11, <1>12, <1>13, <1>14, <1>15, <1>16, <1>17, GiveBackStep

LEMMA PutForeignStep == ASSUME PoolInv, NEW t \in Threads, PutForeign(t) PROVE PoolInv'
<1> DEFINE c == Held(t)
           q == IF kind = "plain" THEN pool.idle ELSE PutNowait(None)
           u == IF kind = "plain" THEN pool.used \ {c} ELSE pool.used
           n == IF kind = "plain" THEN pool.created - 1 ELSE pool.created
<1>1. /\ At(t, "put") /\ Return(t) /\ c.pid # pool.pid
      /\ pool' = IF kind = "plain"
                 THEN [pool EXCEPT !.used = @ \ {c}, !.created = @ - 1]
                 ELSE [pool EXCEPT !.idle = PutNowait(None)]
      /\ foreign' = foreign + 1 /\ ShutDown({c})
      /\ UNCHANGED <<kind, max, getpid>>
  BY DEF PutForeign, owns_connection
<1>2. /\ pool.pid = getpid /\ c # None /\ c \in Connections /\ c.pid # getpid
  BY <1>1, HeldFacts DEF PoolInv, Control, Current, HoldsOne, At
<1>3. IsForeign(t) /\ foreign = 0 /\ \A v \in Threads \ {t} : ~IsForeign(v)
  BY <1>2 DEF IsForeign, PoolInv, Contents, ForeignOnce
<1>4. pool.idle \in Seq(Connections \cup {None})
      /\ \A i, j \in DOMAIN pool.idle : i # j /\ pool.idle[i] # None => pool.idle[i] # pool.idle[j]
  BY DEF PoolInv, Control, Types, Contents, Distinct
<1>5. /\ q \in Seq(Connections \cup {None})
      /\ Range(q) \subseteq Range(pool.idle) \cup {None}
      /\ \A i, j \in DOMAIN q : i # j /\ q[i] # None => q[i] # q[j]
      /\ kind = "plain" => q = pool.idle
      /\ kind = "blocking" => Len(q) = IF Len(pool.idle) < max THEN Len(pool.idle) + 1
                                                              ELSE Len(pool.idle)
  <2>1. CASE kind = "plain" BY <1>4, <2>1
  <2>2. CASE kind = "blocking" BY <2>2, PutFacts
  <2> QED BY <2>1, <2>2 DEF PoolInv, Control, Types, Kinds
<1>6. /\ pool' = [pool EXCEPT !.idle = q, !.used = u, !.created = n]
      /\ UNCHANGED <<pool.pid, pool.lock>> /\ u \in SUBSET pool.used /\ n \in Int
      /\ pool'.idle = q /\ pool'.used = u /\ pool'.created = n
  <2>1. pool = [pool EXCEPT !.idle = pool.idle, !.used = pool.used, !.created = pool.created]
        /\ pool.created \in Int
    BY DEF PoolInv, Control, Types
  <2>2. CASE kind = "plain"
    <3>1. q = pool.idle /\ u = pool.used \ {c} /\ n = pool.created - 1 BY <2>2
    <3>2. pool' = [pool EXCEPT !.used = pool.used \ {c}, !.created = pool.created - 1]
      BY <1>1, <2>2
    <3> HIDE DEF q, u, n, c
    <3>3. u \in SUBSET pool.used /\ n \in Int BY <2>1, <3>1
    <3>4. pool' = [pool EXCEPT !.used = u, !.created = n] BY <3>1, <3>2
    <3> QED BY <3>1, <3>3, <3>4 DEF PoolInv, Control, Types
  <2>3. CASE kind # "plain" BY <1>1, <2>1, <2>3 DEF PoolInv, Control, Types
  <2> QED BY <2>2, <2>3
<1>7. /\ Held(t)' = None /\ \A v \in Threads \ {t} : Held(v)' = Held(v)
      /\ Lent' = Lent \ {c}
  BY <1>1, HeldReturn DEF PoolInv, Control, Contents
<1>8. Lent' = Lent BY <1>2, <1>7 DEF Lent
<1>9. /\ Len(pool.idle) \in Nat /\ max \in Nat /\ foreign \in Nat /\ pool.created \in Int
      /\ Cardinality(Lent) \in Nat
  BY HeldFacts, PoolAssumption DEF PoolInv, Control, Types
<1> HIDE DEF c, q
<1>10. ForeignOnce'
  <2>1. foreign' = 1 BY <1>1, <1>3
  <2>2. \A v \in Threads : ~IsForeign(v)'
    BY <1>1, <1>3, <1>7 DEF IsForeign
  <2> QED BY <2>1, <2>2 DEF ForeignOnce
<1>11. PlainCount'
  <2> SUFFICES ASSUME kind = "plain" PROVE PlainCount' BY <1>1 DEF PlainCount
  <2>1. /\ None \notin Range(pool.idle) /\ pool.used = Lent
        /\ pool.created = Len(pool.idle) + Cardinality(Lent) - foreign
        /\ pool.created <= max
    BY <1>2 DEF PoolInv, Contents, PlainCount
  <2>2. n = Len(q) + Cardinality(Lent) - foreign' /\ n <= max
    BY <1>1, <1>5, <1>9, <2>1
  <2>3. u = Lent
    <3>1. c \notin Lent BY <1>2 DEF Lent
    <3> QED BY <2>1, <3>1
  <2> HIDE DEF n, u
  <2> QED BY <1>1, <1>5, <1>6, <1>8, <2>1, <2>2, <2>3 DEF PlainCount
<1>12. BlockingCount'
  <2> SUFFICES ASSUME kind = "blocking" PROVE BlockingCount' BY <1>1 DEF BlockingCount
  <2>1. /\ Len(pool.idle) <= max /\ max <= Len(pool.idle) + Cardinality(Lent)
        /\ Len(pool.idle) + Cardinality(Lent) <= max + foreign /\ pool.used = {}
    BY <1>2 DEF PoolInv, Contents, BlockingCount
  <2>2. /\ Len(q) <= max /\ max <= Len(q) + Cardinality(Lent)
        /\ Len(q) + Cardinality(Lent) <= max + foreign'
    BY <1>1, <1>5, <1>9, <2>1
  <2>3. u = {} BY <2>1
  <2> HIDE DEF u
  <2> QED BY <1>1, <1>6, <1>8, <2>2, <2>3 DEF BlockingCount
<1>13. shut' \subseteq shut BY <1>1, <1>2 DEF ShutDown
<1>14. foreign' \in Nat BY <1>1, <1>9
<1> HIDE DEF u, n
<1>15. Received(t, q) BY <1>5 DEF Received
<1>16. At(t, "put") /\ Return(t) BY <1>1
<1>17. UNCHANGED <<kind, max, getpid, pool.pid, pool.lock>> BY <1>1, <1>6
<1>18. u \in SUBSET pool.used /\ n \in Int /\ pool' = [pool EXCEPT !.idle = q, !.used = u, !.created = n]
  BY <1>6
<1> QED BY <1>10, <1>11, <1>12, <1>13, <1>14, <1>15, <1>16, <1>17, <1>18, GiveBackStep

-----------------------------------------------------------------------------
(* The invariant and what follows from it. *)

\* A connection that is about to connect was made in this process.
VerifiesOwn == \A t \in Threads : At(t, "verify") => Held(t).pid = getpid

LEMMA PoolNext == PoolInv /\ [Next]_vars => PoolInv'
<1> SUFFICES ASSUME PoolInv, [Next]_vars PROVE PoolInv' OBVIOUS
<1>1. ASSUME NEW t \in Threads, Step(t) PROVE PoolInv'
  BY <1>1, ControlStep, ReturnStep, ResetStep, SetPidStep, TakeIdleStep, TakeNewStep,
     PutStep, PutForeignStep
  DEF Step
<1>2. ASSUME NEW t \in Threads, NEW op \in Operations, Call(t, op) PROVE PoolInv'
  BY <1>2, ControlStep
<1>3. ASSUME NEW t \in Threads, Fork(t) PROVE PoolInv' BY <1>3, ForkStep
<1>4. CASE UNCHANGED vars
  BY <1>4 DEF vars, PoolInv, Control, Types, Locking, HoldsOne, Current, IsReset, Contents, NotFuture,
     Stale, Own, ForeignOnce, IsForeign, Distinct, PlainCount, BlockingCount, Sockets,
     ParentKeepsItsSockets, Held, At, InUse, Lent, Pooled, Known, NewPool
<1> QED BY <1>1, <1>2, <1>3, <1>4 DEF Next

LEMMA VerifiesOwnStep == PoolInv /\ VerifiesOwn /\ [Next]_vars => VerifiesOwn'
<1> SUFFICES ASSUME PoolInv, VerifiesOwn, [Next]_vars PROVE VerifiesOwn' OBVIOUS
<1> USE DEF VerifiesOwn, At, Held
<1>1. thread \in [Threads -> [at : Steps, for : Operations, conn : Connections \cup {None}]]
  BY DEF PoolInv, Control, Types
<1>2. ASSUME NEW t \in Threads, Step(t) PROVE VerifiesOwn'
  <2>1. CASE TakeIdle(t)
    <3>1. pool.pid = getpid BY <2>1 DEF TakeIdle, PoolInv, Control, Current
    <3>2. /\ pool.idle # <<>> /\ pool.idle[Len(pool.idle)] # None /\ getpid' = getpid
          /\ Grant(t, pool.idle[Len(pool.idle)])
      BY <2>1 DEF TakeIdle
    <3> DEFINE c == pool.idle[Len(pool.idle)]
    <3>3. c \in Range(pool.idle) BY <3>2, FrontOfIdle
    <3> HIDE DEF c
    <3>4. c.pid = getpid
      BY <3>1, <3>2, <3>3 DEF c, Pooled, PoolInv, Contents, Own
    <3>5. Grant(t, c) BY <3>2 DEF c
    <3> QED BY <1>1, <3>2, <3>4, <3>5 DEF Grant
  <2>2. CASE TakeNew(t)
    <3> DEFINE fresh == {c \in Connections : c.pid = getpid} \ Known
               c == CHOOSE c \in fresh : \A d \in fresh : c.n <= d.n
    <3>1. pool.pid = getpid BY <2>2 DEF TakeNew, PoolInv, Control, Current
    <3>2. /\ Grant(t, c) /\ getpid' = getpid
          /\ \/ kind = "plain" /\ pool.created < max
             \/ kind = "blocking" /\ pool.idle # <<>> /\ pool.idle[Len(pool.idle)] = None
      BY <2>2 DEF TakeNew
    <3>3. kind = "blocking" /\ pool.idle # <<>> /\ pool.idle[Len(pool.idle)] = None
          => None \in Range(pool.idle)
      BY FrontOfIdle
    <3>4. \E d \in fresh : \A e \in fresh : d.n <= e.n
      BY <3>1, <3>2, <3>3, FreshExists DEF PoolInv, Control
    <3>5. c \in fresh BY <3>4
    <3>6. c.pid = getpid BY <3>5
    <3> HIDE DEF c, fresh
    <3> QED BY <1>1, <3>2, <3>6 DEF Grant
  <2>3. CASE \/ Checkpid(t) \/ AcquireForkLock(t) \/ ReleaseForkLock(t) \/ Reset(t) \/ SetPid(t)
             \/ Verify(t) \/ VerifyFails(t)
    BY <1>1, <2>3 DEF Checkpid, AcquireForkLock, ReleaseForkLock, Reset, SetPid, Verify, VerifyFails,
       Goto, Operations
  <2>4. CASE \/ ForkLockTimesOut(t) \/ TakeFails(t) \/ Put(t) \/ PutForeign(t) \/ DisconnectAll(t)
    BY <1>1, <2>4 DEF ForkLockTimesOut, TakeFails, Put, PutForeign, DisconnectAll, Return, Idle
  <2> QED BY <1>2, <2>1, <2>2, <2>3, <2>4 DEF Step
<1>3. ASSUME NEW t \in Threads, NEW op \in Operations, Call(t, op) PROVE VerifiesOwn'
  BY <1>1, <1>3 DEF Call
<1>4. ASSUME NEW t \in Threads, Fork(t) PROVE VerifiesOwn'
  BY <1>1, <1>4 DEF Fork, Idle
<1>5. CASE UNCHANGED vars BY <1>5 DEF vars
<1> QED BY <1>2, <1>3, <1>4, <1>5 DEF Next

\* PoolInv holds of everything that the threads of a process and of its children do.
THEOREM PoolInvariant == Spec => [](PoolInv /\ VerifiesOwn)
<1>1. Init => PoolInv /\ VerifiesOwn BY PoolInit DEF Init, VerifiesOwn, At, Idle
<1>2. PoolInv /\ VerifiesOwn /\ [Next]_vars => (PoolInv /\ VerifiesOwn)'
  BY PoolNext, VerifiesOwnStep
<1> QED BY <1>1, <1>2, PTL DEF Spec

\* Pool.TypeOK: the lock is held exactly while a thread is in its section, and the pool and
\* its threads hold connections.
THEOREM PoolTypeCorrect == Spec => []TypeOK
<1>1. PoolInv => TypeOK
  <2> SUFFICES ASSUME PoolInv PROVE TypeOK OBVIOUS
  <2>1. Range(pool.idle) \subseteq Connections \cup {None}
    BY DEF PoolInv, Control, Types, Range
  <2> QED BY <2>1 DEF PoolInv, Control, Types, Locking, InLock, TypeOK, Sockets
<1> QED BY <1>1, PoolInvariant, PTL

\* Pool.Exclusive: however the threads of a process and its children interleave within the
\* methods of the pool, two never hold one connection, and get_connection
\* (connection.py:1134, 1301) provides none that another process made.
THEOREM ConnectionsExclusive == Spec => []Exclusive
<1>1. PoolInv /\ VerifiesOwn => Exclusive
  BY DEF PoolInv, Contents, Distinct, VerifiesOwn, Exclusive
<1> QED BY <1>1, PoolInvariant, PTL

\* Pool.Accounted: get_connection, release and reset lose no connection and count none twice,
\* and neither pool exceeds max_connections unless a connection of another process came back.
THEOREM ConnectionsAccounted == Spec => []Accounted
<1>1. PoolInv => Accounted
  <2> SUFFICES ASSUME PoolInv, pool.pid = getpid PROVE Accounted BY DEF Accounted
  <2>1. /\ \A i, j \in DOMAIN pool.idle :
             i # j /\ pool.idle[i] # None => pool.idle[i] # pool.idle[j]
        /\ Range(pool.idle) \cap InUse = {}
    BY DEF PoolInv, Contents, Distinct
  <2>2. Len(pool.idle) \in Nat /\ Cardinality(Lent) \in Nat /\ max \in Nat /\ pool.created \in Int
        /\ Cardinality(KeptHere) \in Nat
        /\ Cardinality(KeptHere) <= Len(pool.idle) + Cardinality(Lent)
    BY HeldFacts, KeptCardinality, PoolAssumption DEF PoolInv, Control, Types
  <2>3. kind = "plain" => /\ pool.used = Lent
                          /\ pool.created = Len(pool.idle) + Cardinality(Lent) - foreign
                          /\ pool.created <= max
    BY DEF PoolInv, Contents, PlainCount
  <2>4. kind = "blocking" => /\ Len(pool.idle) <= max
                             /\ max <= Len(pool.idle) + Cardinality(Lent)
                             /\ Len(pool.idle) + Cardinality(Lent) <= max + foreign
    BY DEF PoolInv, Contents, BlockingCount
  <2>5. foreign = 0 => Cardinality(KeptHere) <= max
    <3> SUFFICES ASSUME foreign = 0 PROVE Cardinality(KeptHere) <= max OBVIOUS
    <3>1. CASE kind = "plain" BY <2>2, <2>3, <3>1
    <3>2. CASE kind = "blocking" BY <2>2, <2>4, <3>2
    <3> QED BY <3>1, <3>2 DEF PoolInv, Control, Types, Kinds
  <2>6. KeptHere = Lent \cup (Range(pool.idle) \ {None}) BY DEF KeptHere
  <2>7. kind = "blocking" => Len(pool.idle) + Cardinality(Lent) >= max BY <2>2, <2>4
  <2> QED BY <2>1, <2>3, <2>4, <2>5, <2>6, <2>7 DEF Accounted
<1> QED BY <1>1, PoolInvariant, PTL

\* Pool.ParentKeepsItsSockets: neither reset in a child, nor release and disconnect there,
\* shut down a socket that the parent uses.
THEOREM ParentSocketsKept == Spec => []ParentKeepsItsSockets
<1>1. PoolInv => ParentKeepsItsSockets BY DEF PoolInv, Sockets
<1> QED BY <1>1, PoolInvariant, PTL

-----------------------------------------------------------------------------
(* The pool of redis/sentinel.py, for any number of threads, sentinels,    *)
(* nodes and failovers: what the pool and the threads hold, and that no    *)
(* idle connection of a master's pool leads to another master than the     *)
(* one that the pool knows of.                                             *)

Conns == [to : Nodes \cup {NoNode}, open : BOOLEAN]
Calls == [at : CallSteps, conn : Conns, no : Nat \ {0}, sentinel : Sentinels \cup {NoNode},
          said : Nodes \cup {NoNode}, slaves : Seq(Nodes), left : Nat]

ServiceTypes ==
  /\ is_master \in Pools
  /\ sentinels \in Seq(Sentinels) /\ Len(sentinels) = Len(InitialList)
  /\ address \in Nodes \cup {NoNode}
  /\ idle \in Seq(Conns)
  /\ rr \in Nat \cup {NoCounter}
  /\ caller \in [Callers -> Calls]
  /\ up \subseteq Sentinels
  /\ view \in [Sentinels -> Nodes]
  /\ master \in writable /\ writable \subseteq Nodes

\* What a thread has found out where it uses it: a sentinel that answered, with its place
\* in the list, and slaves to rotate through.
FoundBy(x) ==
  /\ x.at = "swap" => x.no \in DOMAIN sentinels /\ x.sentinel \in Sentinels
  /\ Len(x.slaves) <= Cardinality(Nodes)
  /\ x.at \in {"rotate", "pick"} => x.slaves # <<>>
  /\ x.at = "pick" => rr # NoCounter

Found == \A t \in Callers : FoundBy(caller[t])

Rotation == rr \in {NoCounter} \cup 0..Cardinality(Nodes)

SentinelInv == ServiceTypes /\ Found /\ Rotation /\ IdleIsCurrent

-----------------------------------------------------------------------------
(* The pool's sequence. *)

LEMMA FrontOfSeq ==
  ASSUME NEW S, NEW s \in Seq(S), s # <<>>
  PROVE  /\ SubSeq(s, 1, Len(s) - 1) \in Seq(S) /\ s[Len(s)] \in S
         /\ \A i \in DOMAIN SubSeq(s, 1, Len(s) - 1) :
              i \in DOMAIN s /\ SubSeq(s, 1, Len(s) - 1)[i] = s[i]
<1>1. Len(s) \in Nat \ {0} /\ DOMAIN s = 1..Len(s) OBVIOUS
<1>2. /\ SubSeq(s, 1, Len(s) - 1) \in Seq(S)
      /\ Len(SubSeq(s, 1, Len(s) - 1)) = Len(s) - 1
      /\ \A i \in 1..(Len(s) - 1) : SubSeq(s, 1, Len(s) - 1)[i] = s[i]
  BY <1>1
<1>3. DOMAIN SubSeq(s, 1, Len(s) - 1) = 1..(Len(s) - 1) BY <1>1, <1>2
<1>4. \A i \in 1..(Len(s) - 1) : i \in 1..Len(s) BY <1>1
<1>5. s[Len(s)] \in S BY <1>1
<1> QED BY <1>1, <1>2, <1>3, <1>4, <1>5

LEMMA Modulo == \A a \in Nat, b \in Nat \ {0} : a % b \in Nat /\ a % b < b
OBVIOUS

-----------------------------------------------------------------------------
(* What the threads hold. *)

LEMMA NoCallFacts ==
  /\ NoCall \in Calls /\ Cardinality(Nodes) \in Nat
  /\ \A c \in Conns, s \in {"ask", "put", "use"} :
       LET y == [NoCall EXCEPT !.at = s, !.conn = c] IN y \in Calls /\ FoundBy(y)
<1>1. <<>> \in Seq(Nodes) /\ Len(<<>>) = 0 OBVIOUS
<1>2. Cardinality(Nodes) \in Nat BY SentinelAssumption, FS_CardinalityType
<1>3. NoCall \in Calls BY <1>1 DEF NoCall, Calls, Conns, NoConnection, CallSteps
<1>4. ASSUME NEW c \in Conns, NEW s \in {"ask", "put", "use"}
      PROVE  LET y == [NoCall EXCEPT !.at = s, !.conn = c] IN y \in Calls /\ FoundBy(y)
  <2> DEFINE y == [NoCall EXCEPT !.at = s, !.conn = c]
  <2>1. y \in Calls BY <1>3 DEF Calls, CallSteps
  <2>2. y.at = s /\ y.slaves = <<>> BY DEF NoCall
  <2>3. FoundBy(y) BY <1>1, <1>2, <2>2 DEF FoundBy
  <2> QED BY <2>1, <2>3
<1> QED BY <1>2, <1>3, <1>4

\* One thread goes on.
LEMMA ThreadStep ==
  ASSUME ServiceTypes, Found, NEW t \in Callers, NEW y \in Calls,
         caller' = [caller EXCEPT ![t] = y],
         y.at = "swap" => y.no \in DOMAIN sentinels /\ y.sentinel \in Sentinels,
         Len(y.slaves) <= Cardinality(Nodes),
         y.at \in {"rotate", "pick"} => y.slaves # <<>>,
         y.at = "pick" => rr' # NoCounter,
         DOMAIN sentinels' = DOMAIN sentinels,
         rr # NoCounter => rr' # NoCounter
  PROVE  caller' \in [Callers -> Calls] /\ Found'
<1>1. caller' \in [Callers -> Calls] BY DEF ServiceTypes
<1>2. caller'[t] = y /\ \A u \in Callers \ {t} : caller'[u] = caller[u] BY DEF ServiceTypes
<1>3. FoundBy(caller[t])' BY <1>2 DEF FoundBy
<1>4. ASSUME NEW u \in Callers \ {t} PROVE FoundBy(caller[u])'
  <2>1. FoundBy(caller[u]) BY DEF Found
  <2> QED BY <1>2, <2>1 DEF FoundBy
<1> QED BY <1>1, <1>3, <1>4 DEF Found

WithSlaves(x, no, q, left) ==
  [x EXCEPT !.at = "rotate", !.no = no, !.slaves = q, !.left = left]

LEMMA WithSlavesFacts ==
  ASSUME NEW x \in Calls, NEW no \in Nat \ {0}, NEW q \in Seq(Nodes), NEW left \in Nat
  PROVE  LET y == WithSlaves(x, no, q, left) IN y \in Calls /\ y.at = "rotate" /\ y.slaves = q
BY DEF Calls, CallSteps, WithSlaves

\* Steps that leave the pool, the list and the counter alone.
LEMMA CallStep ==
  ASSUME ServiceTypes, Found, NEW t \in Callers,
         Ask(t) \/ AskForSlaves(t) \/ Pick(t) \/ Connect(t) \/ ConnectFails(t) \/ Use(t) \/ UseFails(t)
  PROVE  caller' \in [Callers -> Calls] /\ Found'
<1> DEFINE x == caller[t]
<1>1. /\ caller \in [Callers -> Calls] /\ x \in Calls /\ FoundBy(x) /\ x.conn \in Conns
      /\ x.no \in Nat \ {0} /\ Len(sentinels) \in Nat /\ DOMAIN sentinels = 1..Len(sentinels)
      /\ \A i \in DOMAIN sentinels : sentinels[i] \in Sentinels
  BY DEF ServiceTypes, Found, Calls
<1>0. x \in Calls BY <1>1
<1>12. ASSUME NEW n \in Nat \ {0}
       PROVE  LET y == [x EXCEPT !.no = n] IN y \in Calls /\ y.at = x.at /\ y.slaves = x.slaves
  BY <1>0 DEF Calls
<1>15. ASSUME NEW n \in Nat \ {0}
       PROVE  LET y == [x EXCEPT !.at = "ask", !.no = n]
              IN  y \in Calls /\ y.at = "ask" /\ y.slaves = x.slaves
  BY <1>0 DEF Calls, CallSteps
<1>16. 1 \in Nat \ {0} OBVIOUS
<1>17. <<>> \in Seq(Nodes) /\ 0 \in Nat OBVIOUS
<1>13. x.no + 1 \in Nat \ {0} BY <1>1
<1>14. Cardinality(Nodes) \in Nat BY NoCallFacts
<1>2. UNCHANGED <<sentinels, rr>>
  BY DEF Ask, AskForSlaves, Pick, Connect, ConnectFails, Use, UseFails
<1>3. ASSUME NEW c \in Conns, NEW s \in {"ask", "put", "use"}, caller' = With(t, s, c)
      PROVE  caller' \in [Callers -> Calls] /\ Found'
  <2> DEFINE y == [NoCall EXCEPT !.at = s, !.conn = c]
  <2>1. y \in Calls /\ FoundBy(y) BY NoCallFacts
  <2>2. caller' = [caller EXCEPT ![t] = y] BY <1>3 DEF With
  <2> HIDE DEF y
  <2> QED BY <1>2, <2>1, <2>2, ThreadStep DEF FoundBy
<1>4. CASE Ask(t)
  <2>1. CASE x.no > Len(sentinels) BY <1>1, <1>3, <1>4, <2>1 DEF Ask
  <2>2. CASE ~(x.no > Len(sentinels)) /\ Answers(sentinels[x.no])
    <3> DEFINE y == [x EXCEPT !.at = "swap", !.sentinel = sentinels[x.no], !.said = view[sentinels[x.no]]]
    <3>1. caller' = [caller EXCEPT ![t] = y] BY <1>1, <1>4, <2>2 DEF Ask
    <3>2. x.no \in DOMAIN sentinels /\ sentinels[x.no] \in Sentinels BY <1>1, <2>2
    <3>3. y \in Calls BY <1>1, <3>2 DEF ServiceTypes, Calls, CallSteps
    <3>4. y.at = "swap" /\ y.no = x.no /\ y.sentinel = sentinels[x.no] /\ y.slaves = x.slaves
      BY <1>1 DEF Calls
    <3> HIDE DEF y, x
    <3> QED BY <1>1, <1>2, <3>1, <3>2, <3>3, <3>4, ThreadStep DEF FoundBy
  <2>3. CASE ~(x.no > Len(sentinels)) /\ ~Answers(sentinels[x.no])
    <3> DEFINE y == [x EXCEPT !.no = x.no + 1]
    <3>1. caller' = [caller EXCEPT ![t] = y] /\ x.at = "ask" BY <1>1, <1>4, <2>3 DEF Ask, Doing
    <3>2. y \in Calls /\ y.at = "ask" /\ y.slaves = x.slaves BY <1>12, <1>13, <3>1
    <3> HIDE DEF y, x
    <3> QED BY <1>1, <1>2, <3>1, <3>2, ThreadStep DEF FoundBy
  <2> QED BY <2>1, <2>2, <2>3
<1>5. CASE AskForSlaves(t)
  <2>1. CASE x.no > Len(sentinels)
    <3> DEFINE y == [x EXCEPT !.at = "ask", !.no = 1]
    <3>1. caller' = [caller EXCEPT ![t] = y] BY <1>1, <1>5, <2>1 DEF AskForSlaves
    <3>2. y \in Calls /\ y.at = "ask" /\ y.slaves = x.slaves BY <1>15, <1>16, <1>17
    <3> HIDE DEF y, x
    <3> QED BY <1>1, <1>2, <3>1, <3>2, ThreadStep DEF FoundBy
  <2>2. CASE ~(x.no > Len(sentinels))
    <3>1. sentinels[x.no] \in Sentinels BY <1>1, <2>2
    <3>2. PICK q \in IF sentinels[x.no] \in up THEN AliveSlaves(sentinels[x.no]) ELSE {<<>>} :
            caller' = IF q = <<>> THEN [caller EXCEPT ![t].no = x.no + 1]
                      ELSE [caller EXCEPT ![t].at = "rotate", ![t].no = 1,
                                          ![t].slaves = q, ![t].left = Len(q)]
      BY <1>5, <2>2 DEF AskForSlaves
    <3>3. q \in Seq(Nodes) /\ Len(q) <= Cardinality(Nodes) /\ Len(q) \in Nat
      <4>1. CASE q = <<>>
        <5>1. <<>> \in Seq(Nodes) /\ Len(<<>>) = 0 OBVIOUS
        <5>2. 0 <= Cardinality(Nodes) BY <1>14
        <5> QED BY <4>1, <5>1, <5>2
      <4>2. CASE q # <<>>
        <5>1. q \in AliveSlaves(sentinels[x.no]) BY <3>2, <4>2
        <5>2. PICK k \in 0..(Cardinality(Nodes) - 1) :
                q \in [1..k -> Nodes \ {view[sentinels[x.no]]}]
          BY <5>1 DEF AliveSlaves
        <5>3. k \in Nat /\ k <= Cardinality(Nodes) BY <1>14
        <5>4. q \in [1..k -> Nodes] BY <5>2
        <5>5. q \in Seq(Nodes) /\ Len(q) = k BY <5>3, <5>4, LenProperties, SeqDef
        <5> QED BY <5>3, <5>5
      <4> QED BY <4>1, <4>2
    <3>4. CASE q = <<>>
      <4> DEFINE y == [x EXCEPT !.no = x.no + 1]
      <4>1. caller' = [caller EXCEPT ![t] = y] /\ x.at = "slaves"
        BY <1>1, <1>5, <3>2, <3>4 DEF AskForSlaves, Doing
      <4>2. y \in Calls /\ y.at = "slaves" /\ y.slaves = x.slaves BY <1>12, <1>13, <4>1
      <4> HIDE DEF y, x
      <4> QED BY <1>1, <1>2, <4>1, <4>2, ThreadStep DEF FoundBy
    <3>5. CASE q # <<>>
      <4> DEFINE y == WithSlaves(x, 1, q, Len(q))
      <4>1. caller' = [caller EXCEPT ![t] = y] BY <1>1, <3>2, <3>5 DEF WithSlaves
      <4>2. y \in Calls /\ y.at = "rotate" /\ y.slaves = q
        BY <1>0, <1>16, <3>3, WithSlavesFacts
      <4> HIDE DEF y, x
      <4> QED BY <1>2, <3>3, <3>5, <4>1, <4>2, ThreadStep
    <3> QED BY <3>4, <3>5
  <2> QED BY <2>1, <2>2
<1>6. CASE Pick(t)
  <2>1. CASE rr < Len(x.slaves)
    <3> DEFINE y == [x EXCEPT !.at = "connect", !.said = x.slaves[rr + 1]]
    <3>1. caller' = [caller EXCEPT ![t] = y] BY <1>1, <1>6, <2>1 DEF Pick
    <3>2. rr # NoCounter /\ rr \in Nat BY <1>1, <1>6 DEF Pick, Doing, FoundBy, ServiceTypes
    <3>3. x.slaves[rr + 1] \in Nodes
      <4>1. x.slaves \in Seq(Nodes) BY <1>1 DEF Calls
      <4> QED BY <2>1, <3>2, <4>1
    <3>4. y \in Calls /\ y.at = "connect" /\ y.slaves = x.slaves BY <1>1, <3>3 DEF Calls, CallSteps
    <3> HIDE DEF y, x
    <3> QED BY <1>1, <1>2, <3>1, <3>4, ThreadStep DEF FoundBy
  <2>2. CASE ~(rr < Len(x.slaves)) BY <1>1, <1>3, <1>6, <2>2 DEF Pick
  <2> QED BY <2>1, <2>2
<1>7. CASE Connect(t)
  <2>1. [to |-> x.said, open |-> TRUE] \in Conns BY <1>1 DEF Calls, Conns
  <2> QED BY <1>3, <1>7, <2>1 DEF Connect
<1>8. CASE ConnectFails(t)
  <2> DEFINE conn == [to |-> x.said, open |-> FALSE]
  <2>1. conn \in Conns BY <1>1 DEF Calls, Conns
  <2>2. CASE caller' = With(t, "put", conn) BY <1>3, <2>1, <2>2
  <2>3. CASE caller' # With(t, "put", conn)
    <3> DEFINE y == [x EXCEPT !.at = "rotate", !.conn = conn]
    <3>1. /\ caller' = [caller EXCEPT ![t] = y]
          /\ ~is_master /\ x.slaves # <<>> /\ Doing(t, "connect")
      BY <1>1, <1>8, <2>3 DEF ConnectFails
    <3>2. y \in Calls /\ y.at = "rotate" /\ y.slaves = x.slaves
      BY <1>1, <2>1 DEF Calls, CallSteps
    <3> HIDE DEF y, x
    <3> QED BY <1>1, <1>2, <2>3, <3>1, <3>2, ThreadStep DEF FoundBy
  <2> QED BY <2>2, <2>3
<1>9. ASSUME NEW b \in BOOLEAN, caller' = [caller EXCEPT ![t].at = "put", ![t].conn.open = b]
      PROVE  caller' \in [Callers -> Calls] /\ Found'
  <2> DEFINE y == [x EXCEPT !.at = "put", !.conn.open = b]
  <2>1. caller' = [caller EXCEPT ![t] = y] BY <1>1, <1>9
  <2>2. y \in Calls /\ y.at = "put" /\ y.slaves = x.slaves BY <1>1 DEF Calls, Conns, CallSteps
  <2> HIDE DEF y, x
  <2> QED BY <1>1, <1>2, <2>1, <2>2, ThreadStep DEF FoundBy
<1>10. CASE Use(t)
  <2> DEFINE b == ~is_master \/ x.conn.to \in writable
  <2>1. b \in BOOLEAN BY DEF ServiceTypes, Pools
  <2>2. caller' = [caller EXCEPT ![t].at = "put", ![t].conn.open = b] BY <1>10 DEF Use
  <2> HIDE DEF b
  <2> QED BY <1>9, <2>1, <2>2
<1>11. CASE UseFails(t) BY <1>9, <1>11 DEF UseFails
<1> QED BY <1>4, <1>5, <1>6, <1>7, <1>8, <1>10, <1>11

\* Steps that change the pool, the list or the counter.
LEMMA PoolStep ==
  ASSUME ServiceTypes, Found, Rotation, NEW t \in Callers,
         GetConnection(t) \/ Swap(t) \/ SetAddress(t) \/ Flush(t) \/ Rotate(t) \/ Release(t)
  PROVE  /\ caller' \in [Callers -> Calls] /\ Found' /\ Rotation'
         /\ sentinels' \in Seq(Sentinels) /\ Len(sentinels') = Len(sentinels)
         /\ address' \in Nodes \cup {NoNode} /\ idle' \in Seq(Conns)
         /\ rr' \in Nat \cup {NoCounter}
<1> DEFINE x == caller[t]
<1>1. /\ caller \in [Callers -> Calls] /\ x \in Calls /\ FoundBy(x) /\ x.conn \in Conns
      /\ sentinels \in Seq(Sentinels) /\ idle \in Seq(Conns) /\ rr \in Nat \cup {NoCounter}
      /\ address \in Nodes \cup {NoNode}
  BY DEF ServiceTypes, Found, Calls
<1>2. Cardinality(Nodes) \in Nat BY NoCallFacts
<1>3. CASE GetConnection(t)
  <2> DEFINE conn == IF idle = <<>> THEN NoConnection ELSE idle[Len(idle)]
             s == IF conn.open THEN "use" ELSE IF is_master THEN "ask" ELSE "slaves"
             y == [x EXCEPT !.conn = conn, !.at = s]
  <2>1. conn \in Conns /\ idle' \in Seq(Conns)
    <3>1. CASE idle = <<>>
      BY <1>1, <1>3, <3>1 DEF GetConnection, NoConnection, Conns
    <3>2. CASE idle # <<>>
      <4>1. /\ SubSeq(idle, 1, Len(idle) - 1) \in Seq(Conns) /\ idle[Len(idle)] \in Conns
        BY <1>1, <3>2, FrontOfSeq
      <4>2. idle' = SubSeq(idle, 1, Len(idle) - 1) BY <1>3, <3>2 DEF GetConnection
      <4> QED BY <3>2, <4>1, <4>2
    <3> QED BY <3>1, <3>2
  <2>2. caller' = [caller EXCEPT ![t] = y] BY <1>1, <1>3 DEF GetConnection
  <2>3. UNCHANGED <<sentinels, address, rr>> BY <1>3 DEF GetConnection
  <2> HIDE DEF conn
  <2>4. s \in {"use", "ask", "slaves"} OBVIOUS
  <2> HIDE DEF s
  <2>5. y \in Calls /\ y.at = s /\ y.slaves = x.slaves BY <1>1, <2>1, <2>4 DEF Calls, CallSteps
  <2> HIDE DEF y, x
  <2>6. caller' \in [Callers -> Calls] /\ Found'
    BY <1>1, <2>2, <2>3, <2>4, <2>5, ThreadStep DEF FoundBy
  <2> QED BY <1>1, <2>1, <2>3, <2>6 DEF Rotation
<1>4. CASE Swap(t)
  <2> DEFINE s == IF is_master THEN "set" ELSE "connect"
             one == 1
             y == [x EXCEPT !.at = s, !.sentinel = NoNode, !.no = one]
  <2>1. x.no \in DOMAIN sentinels /\ x.sentinel \in Sentinels
    BY <1>1, <1>4 DEF Swap, Doing, FoundBy
  <2>2. DOMAIN sentinels = 1..Len(sentinels) /\ Len(sentinels) \in Nat /\ sentinels[1] \in Sentinels
    BY <1>1, <2>1
  <2>3. /\ sentinels' = [sentinels EXCEPT ![1] = x.sentinel, ![x.no] = sentinels[1]]
        /\ caller' = [caller EXCEPT ![t] = y]
        /\ UNCHANGED <<address, idle, rr>>
    BY <1>1, <1>4 DEF Swap
  <2> HIDE DEF one
  <2>4. sentinels' \in [1..Len(sentinels) -> Sentinels] BY <1>1, <2>1, <2>2, <2>3
  <2>5. sentinels' \in Seq(Sentinels) /\ Len(sentinels') = Len(sentinels)
    BY <2>2, <2>4, LenProperties, SeqDef
  <2>6. DOMAIN sentinels' = DOMAIN sentinels BY <2>2, <2>4
  <2>7. s \in {"set", "connect"} /\ one \in Nat \ {0} BY DEF one
  <2> HIDE DEF s
  <2>8. y \in Calls /\ y.at = s /\ y.slaves = x.slaves BY <1>1, <2>7 DEF Calls, CallSteps
  <2> HIDE DEF y, x
  <2>9. caller' \in [Callers -> Calls] /\ Found'
    BY <1>1, <2>3, <2>6, <2>7, <2>8, ThreadStep DEF FoundBy
  <2> QED BY <1>1, <2>3, <2>5, <2>9 DEF Rotation
<1>5. CASE SetAddress(t)
  <2> DEFINE s == IF address = x.said THEN "connect" ELSE "flush"
             y == [x EXCEPT !.at = s]
  <2>1. /\ caller' = [caller EXCEPT ![t] = y] /\ address' = x.said
        /\ UNCHANGED <<sentinels, idle, rr>>
    BY <1>1, <1>5 DEF SetAddress, GoOn
  <2>2. s \in {"flush", "connect"} /\ x.said \in Nodes \cup {NoNode} BY <1>1 DEF Calls
  <2> HIDE DEF s
  <2>3. y \in Calls /\ y.at = s /\ y.slaves = x.slaves BY <1>1, <2>2 DEF Calls, CallSteps
  <2> HIDE DEF y, x
  <2>4. caller' \in [Callers -> Calls] /\ Found'
    BY <1>1, <2>1, <2>2, <2>3, ThreadStep DEF FoundBy
  <2> QED BY <1>1, <2>1, <2>2, <2>4 DEF Rotation
<1>6. CASE Flush(t)
  <2> DEFINE y == [x EXCEPT !.at = "connect"]
  <2>1. /\ caller' = [caller EXCEPT ![t] = y]
        /\ idle' = [i \in DOMAIN idle |-> [idle[i] EXCEPT !.open = FALSE]]
        /\ UNCHANGED <<sentinels, address, rr>>
    BY <1>1, <1>6 DEF Flush, GoOn
  <2>2. Len(idle) \in Nat /\ DOMAIN idle = 1..Len(idle) /\ \A i \in DOMAIN idle : idle[i] \in Conns
    BY <1>1
  <2>3. \A c \in Conns : [c EXCEPT !.open = FALSE] \in Conns BY DEF Conns
  <2>4. idle' \in [1..Len(idle) -> Conns] BY <2>1, <2>2, <2>3
  <2>5. idle' \in Seq(Conns) BY <2>2, <2>4, LenProperties, SeqDef
  <2>6. y \in Calls /\ y.at = "connect" /\ y.slaves = x.slaves BY <1>1 DEF Calls, CallSteps
  <2> HIDE DEF y, x
  <2>7. caller' \in [Callers -> Calls] /\ Found'
    BY <1>1, <2>1, <2>6, ThreadStep DEF FoundBy
  <2> QED BY <1>1, <2>1, <2>5, <2>7 DEF Rotation
<1>7. CASE Rotate(t)
  <2>1. UNCHANGED <<sentinels, address, idle>> BY <1>7 DEF Rotate
  <2>2. CASE x.left = 0
    <3> DEFINE y == [NoCall EXCEPT !.at = "ask", !.conn = x.conn]
    <3>1. caller' = [caller EXCEPT ![t] = y] /\ rr' = rr BY <1>1, <1>7, <2>2 DEF Rotate, With
    <3>2. y \in Calls /\ FoundBy(y) BY <1>1, NoCallFacts
    <3> HIDE DEF y, x
    <3>3. caller' \in [Callers -> Calls] /\ Found'
      BY <2>1, <3>1, <3>2, ThreadStep DEF FoundBy
    <3> QED BY <1>1, <2>1, <3>1, <3>3 DEF Rotation
  <2>3. CASE x.left # 0
    <3> DEFINE n == Len(x.slaves)
               y == [x EXCEPT !.at = "pick", !.left = x.left - 1]
    <3>1. caller' = [caller EXCEPT ![t] = y] BY <1>1, <1>7, <2>3 DEF Rotate
    <3>2. x.slaves \in Seq(Nodes) /\ x.slaves # <<>> /\ n <= Cardinality(Nodes)
      BY <1>1, <1>7 DEF Rotate, Doing, FoundBy, Calls
    <3>3. n \in Nat \ {0} /\ DOMAIN x.slaves = 1..n BY <3>2
    <3>4. PICK r \in IF rr = NoCounter THEN DOMAIN x.slaves ELSE {rr} : rr' = (r + 1) % n
      BY <1>7, <2>3 DEF Rotate
    <3>5. r + 1 \in Nat
      <4>1. r \in Nat
        <5>1. CASE rr = NoCounter BY <3>3, <5>1
        <5>2. CASE rr # NoCounter BY <1>1, <5>2
        <5> QED BY <5>1, <5>2
      <4> QED BY <4>1
    <3> HIDE DEF n
    <3>6. rr' \in Nat /\ rr' < n BY <3>3, <3>4, <3>5, Modulo
    <3>7. rr' \in 0..Cardinality(Nodes) /\ rr' # NoCounter BY <1>2, <3>2, <3>3, <3>6 DEF NoCounter
    <3>8. x.left - 1 \in Nat BY <1>1, <2>3 DEF Calls
    <3>9. y \in Calls /\ y.at = "pick" /\ y.slaves = x.slaves BY <1>1, <3>8 DEF Calls, CallSteps
    <3> HIDE DEF y, x
    <3>10. caller' \in [Callers -> Calls] /\ Found'
      BY <1>1, <2>1, <3>1, <3>2, <3>7, <3>9, ThreadStep DEF FoundBy
    <3> QED BY <1>1, <2>1, <3>6, <3>7, <3>10 DEF Rotation
  <2> QED BY <2>2, <2>3
<1>8. CASE Release(t)
  <2>1. caller' = [caller EXCEPT ![t] = NoCall] /\ UNCHANGED <<sentinels, address, rr>>
    BY <1>8 DEF Release
  <2>2. idle' \in {idle, Append(idle, x.conn)} BY <1>8 DEF Release
  <2>3. idle' \in Seq(Conns)
    <3>1. Append(idle, x.conn) \in Seq(Conns) BY <1>1
    <3> QED BY <1>1, <2>2, <3>1
  <2>4. NoCall \in Calls /\ NoCall.at = "idle" /\ NoCall.slaves = <<>>
    BY NoCallFacts DEF NoCall
  <2>5. Len(NoCall.slaves) <= Cardinality(Nodes)
    <3>1. Len(<<>>) = 0 OBVIOUS
    <3> QED BY <1>2, <2>4, <3>1
  <2>6. caller' \in [Callers -> Calls] /\ Found'
    BY <2>1, <2>4, <2>5, ThreadStep
  <2> QED BY <1>1, <2>1, <2>3, <2>6 DEF Rotation
<1> QED BY <1>3, <1>4, <1>5, <1>6, <1>7, <1>8

-----------------------------------------------------------------------------
(* The theorems. *)

LEMMA TypesInit == SentinelInit => SentinelInv
<1> SUFFICES ASSUME SentinelInit PROVE SentinelInv OBVIOUS
<1>1. NoCall \in Calls /\ Cardinality(Nodes) \in Nat BY NoCallFacts
<1>2. <<>> \in Seq(Conns) /\ Len(<<>>) = 0 /\ DOMAIN <<>> = {} OBVIOUS
<1>3. ServiceTypes
  BY <1>1, <1>2, SentinelAssumption DEF SentinelInit, NewSentinelPool, ServiceTypes, NoCounter
<1>4. NoCall.at = "idle" /\ NoCall.slaves = <<>> BY DEF NoCall
<1>5. FoundBy(NoCall) BY <1>1, <1>2, <1>4 DEF FoundBy
<1>6. Found BY <1>5 DEF SentinelInit, Found
<1>7. Rotation /\ IdleIsCurrent
  BY <1>2 DEF SentinelInit, NewSentinelPool, Rotation, IdleIsCurrent
<1> QED BY <1>3, <1>6, <1>7 DEF SentinelInv

LEMMA TypesNext ==
  ServiceTypes /\ Found /\ Rotation /\ [SentinelNext]_sentinelVars => (ServiceTypes /\ Found /\ Rotation)'
<1> SUFFICES ASSUME ServiceTypes, Found, Rotation, [SentinelNext]_sentinelVars PROVE (ServiceTypes /\ Found /\ Rotation)'
  OBVIOUS
<1>1. ASSUME NEW t \in Callers, ClientStep(t) \/ ConnectFails(t) \/ UseFails(t),
             UNCHANGED <<is_master, serviceVars>>
      PROVE  (ServiceTypes /\ Found /\ Rotation)'
  <2>1. CASE Ask(t) \/ AskForSlaves(t) \/ Pick(t) \/ Connect(t) \/ ConnectFails(t) \/ Use(t) \/ UseFails(t)
    <3>1. caller' \in [Callers -> Calls] /\ Found' BY <2>1, CallStep
    <3>2. UNCHANGED <<sentinels, address, idle, rr>>
      BY <2>1 DEF Ask, AskForSlaves, Pick, Connect, ConnectFails, Use, UseFails
    <3> QED BY <1>1, <3>1, <3>2 DEF ServiceTypes, Rotation, serviceVars
  <2>2. CASE GetConnection(t) \/ Swap(t) \/ SetAddress(t) \/ Flush(t) \/ Rotate(t) \/ Release(t)
    <3>1. /\ caller' \in [Callers -> Calls] /\ Found' /\ Rotation'
          /\ sentinels' \in Seq(Sentinels) /\ Len(sentinels') = Len(sentinels)
          /\ address' \in Nodes \cup {NoNode} /\ idle' \in Seq(Conns)
          /\ rr' \in Nat \cup {NoCounter}
      BY <2>2, PoolStep
    <3> QED BY <1>1, <3>1 DEF ServiceTypes, serviceVars
  <2> QED BY <1>1, <2>1, <2>2 DEF ClientStep
<1>2. ASSUME UNCHANGED <<is_master, clientVars>>
      PROVE  /\ UNCHANGED <<is_master, sentinels, address, idle, rr, caller>>
             /\ Found' /\ Rotation'
  BY <1>2 DEF clientVars, Found, FoundBy, Rotation
<1>3. ASSUME ServiceStep \/ \E n \in Nodes, s \in Sentinels : Failover(n, s),
             UNCHANGED <<is_master, clientVars>>
      PROVE  (ServiceTypes /\ Found /\ Rotation)'
  <2>1. up' \subseteq Sentinels /\ view' \in [Sentinels -> Nodes]
        /\ master' \in writable' /\ writable' \subseteq Nodes
    BY <1>3 DEF ServiceStep, Learn, Recovers, Demote, Failover, ServiceTypes
  <2> QED BY <1>2, <1>3, <2>1 DEF ServiceTypes
<1>4. ASSUME NEW s \in Sentinels, Fails(s), UNCHANGED <<is_master, clientVars>>
      PROVE  (ServiceTypes /\ Found /\ Rotation)'
  BY <1>2, <1>4 DEF Fails, ServiceTypes
<1>5. CASE UNCHANGED sentinelVars
  BY <1>2, <1>5 DEF sentinelVars, serviceVars, ServiceTypes
<1> QED BY <1>1, <1>3, <1>4, <1>5 DEF SentinelNext

\* Until every idle connection is disconnected a thread is at "flush".
LEMMA IdleNext == ServiceTypes /\ IdleIsCurrent /\ [SentinelNext]_sentinelVars => IdleIsCurrent'
<1> SUFFICES ASSUME ServiceTypes, IdleIsCurrent, [SentinelNext]_sentinelVars, is_master',
                    \A t \in Callers : ~Doing(t, "flush")'
             PROVE  \A i \in DOMAIN idle' : idle'[i].open => idle'[i].to = address'
  BY DEF IdleIsCurrent
<1>1. ASSUME UNCHANGED <<is_master, clientVars>>
      PROVE  \A i \in DOMAIN idle' : idle'[i].open => idle'[i].to = address'
  BY <1>1 DEF clientVars, IdleIsCurrent, Doing
<1>2. ASSUME NEW t \in Callers, ClientStep(t) \/ ConnectFails(t) \/ UseFails(t),
             is_master' = is_master
      PROVE  \A i \in DOMAIN idle' : idle'[i].open => idle'[i].to = address'
  <2>1. CASE Flush(t)
    <3>1. \A i \in DOMAIN idle : idle[i] \in Conns BY DEF ServiceTypes
    <3>2. idle' = [i \in DOMAIN idle |-> [idle[i] EXCEPT !.open = FALSE]] BY <2>1 DEF Flush
    <3>3. \A c \in Conns : [c EXCEPT !.open = FALSE].open = FALSE BY DEF Conns
    <3> QED BY <3>1, <3>2, <3>3
  <2>2. CASE ~Flush(t)
    <3>1. \A u \in Callers : Doing(u, "flush") => Doing(u, "flush")'
      <4>1. Doing(t, "flush") => Flush(t) \/ caller' = caller
        BY <1>2 DEF ClientStep, GetConnection, Ask, Swap, SetAddress, AskForSlaves, Rotate, Pick,
           Connect, ConnectFails, Use, UseFails, Release, Doing
      <4>2. \A u \in Callers \ {t} : caller'[u] = caller[u]
        BY <1>2 DEF ClientStep, GetConnection, Ask, Swap, SetAddress, Flush, AskForSlaves, Rotate, Pick,
           Connect, ConnectFails, Use, UseFails, Release, GoOn, With, ServiceTypes
      <4> QED BY <2>2, <4>1, <4>2 DEF Doing
    <3>2. is_master /\ \A i \in DOMAIN idle : idle[i].open => idle[i].to = address
      BY <1>2, <3>1 DEF IdleIsCurrent
    <3>3. CASE GetConnection(t)
      <4>1. CASE idle = <<>> BY <3>2, <3>3, <4>1 DEF GetConnection
      <4>2. CASE idle # <<>>
        <5>1. idle' = SubSeq(idle, 1, Len(idle) - 1) /\ address' = address
          BY <3>3, <4>2 DEF GetConnection
        <5>2. \A i \in DOMAIN SubSeq(idle, 1, Len(idle) - 1) :
                i \in DOMAIN idle /\ SubSeq(idle, 1, Len(idle) - 1)[i] = idle[i]
          BY <4>2, FrontOfSeq DEF ServiceTypes
        <5> QED BY <3>2, <5>1, <5>2
      <4> QED BY <4>1, <4>2
    <3>4. CASE SetAddress(t)
      <4>1. address' = address
        <5>1. SUFFICES ASSUME address' # address PROVE FALSE OBVIOUS
        <5>2. GoOn(t, "flush") BY <3>4, <5>1 DEF SetAddress
        <5>3. Doing(t, "flush")' BY <5>2 DEF GoOn, Doing, ServiceTypes
        <5> QED BY <5>3
      <4> QED BY <3>2, <3>4, <4>1 DEF SetAddress
    <3>5. CASE Release(t)
      <4> DEFINE c == caller[t].conn
      <4>2. c \in Conns BY DEF ServiceTypes, Calls
      <4>1. address' = address /\ (idle' = idle \/ (idle' = Append(idle, c) /\ c.to = address))
        BY <3>2, <3>5, <4>2 DEF Release, Conns
      <4> HIDE DEF c
      <4>3. \A i \in DOMAIN Append(idle, c) :
              \/ i \in DOMAIN idle /\ Append(idle, c)[i] = idle[i]
              \/ Append(idle, c)[i] = c
        BY <4>2 DEF ServiceTypes
      <4> QED BY <3>2, <4>1, <4>3
    <3>6. CASE \/ Ask(t) \/ Swap(t) \/ AskForSlaves(t) \/ Rotate(t) \/ Pick(t)
               \/ Connect(t) \/ ConnectFails(t) \/ Use(t) \/ UseFails(t)
      <4>1. UNCHANGED <<address, idle>>
        BY <3>6 DEF Ask, Swap, AskForSlaves, Rotate, Pick, Connect, ConnectFails, Use, UseFails
      <4> QED BY <3>2, <4>1
    <3> QED BY <1>2, <2>2, <3>3, <3>4, <3>5, <3>6 DEF ClientStep
  <2> QED BY <2>1, <2>2
<1>3. CASE UNCHANGED sentinelVars BY <1>1, <1>3 DEF sentinelVars
<1> QED BY <1>1, <1>2, <1>3 DEF SentinelNext

\* SentinelInv holds of whatever the threads, the sentinels and the nodes do.
THEOREM SentinelInvariant == SentinelSpec => []SentinelInv
<1>1. SentinelInv /\ [SentinelNext]_sentinelVars => SentinelInv'
  BY TypesNext, IdleNext DEF SentinelInv
<1> QED BY <1>1, TypesInit, PTL DEF SentinelSpec

\* Sentinel.SentinelTypeOK: the list of sentinels keeps its length whoever swaps its places, and the
\* counter that threads share stays a place in some list of slaves.
THEOREM SentinelTypeCorrect == SentinelSpec => []SentinelTypeOK
<1>1. SentinelInv => SentinelTypeOK
  <2> SUFFICES ASSUME SentinelInv PROVE SentinelTypeOK OBVIOUS
  <2>1. \A i \in DOMAIN idle : idle[i] \in [to : Nodes \cup {NoNode}, open : BOOLEAN]
    <3>1. idle \in Seq(Conns) BY DEF SentinelInv, ServiceTypes
    <3>2. \A i \in DOMAIN idle : idle[i] \in Conns BY <3>1
    <3> QED BY <3>2 DEF Conns
  <2>2. ASSUME NEW t \in Callers
        PROVE  /\ caller[t].at \in CallSteps /\ caller[t].said \in Nodes \cup {NoNode}
               /\ Range(caller[t].slaves) \subseteq Nodes
    <3>1. caller[t] \in Calls BY DEF SentinelInv, ServiceTypes
    <3>2. caller[t].slaves \in Seq(Nodes) BY <3>1 DEF Calls
    <3> QED BY <3>1, <3>2 DEF Calls, Range
  <2> QED BY <2>1, <2>2 DEF SentinelInv, ServiceTypes, Rotation, SentinelTypeOK
<1> QED BY <1>1, SentinelInvariant, PTL

\* Sentinel.IdleIsCurrent: release keeps no open connection to a master that another thread's
\* get_master_address (sentinel.py:105) has found replaced.
THEOREM IdleConnectionsCurrent == SentinelSpec => []IdleIsCurrent
<1>1. SentinelInv => IdleIsCurrent BY DEF SentinelInv
<1> QED BY <1>1, SentinelInvariant, PTL
=============================================================================
