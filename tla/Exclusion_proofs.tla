-------------------------- MODULE Exclusion_proofs --------------------------
(***************************************************************************)
(* One at a time, by what is written in Redis and grows too old: theorems  *)
(* about Lock and Election for all values of their constants, which are    *)
(* any number of threads, calls, lost commands and lost replies, and any   *)
(* number of servers and launches, and any timeout.                        *)
(*                                                                         *)
(* Lock: a thread that acquires has a token that nobody uses yet (Unused), *)
(* so that no script can take the key away between the SET and its reply,  *)
(* and the key is the thread's when the reply arrives, or has expired      *)
(* (Granted).  A thread that releases has given its token up before the    *)
(* script is sent (GivenUp), and no set that is still to be answered       *)
(* brings it back.                                                         *)
(*                                                                         *)
(* Election: as long as nothing disturbs the elections, of two servers     *)
(* that run one serves the host and the other is still asking (OneAsks);   *)
(* and what it asks is answered by the hash as it should be, since the     *)
(* hash is that of the server that serves (HashOfServer).                  *)
(***************************************************************************)
EXTENDS Lock, Election, TLAPS

(* Lock. *)

Busy(t) == ~At(t, "idle")
Trying(t) == Busy(t) /\ call[t].op = "set"
Releasing(t) == Busy(t) /\ call[t].op # "set" /\ call[t].then = "release"

\* Tokens that were drawn, and those that a thread drew.
Drawn == Threads \X (1..acquires)
DrawnBy(t) == {t} \X (1..acquires)

AllDrawn == \A t \in Threads : {token[t], call[t].token} \subseteq Drawn \cup {None}
IdleOrOwn ==
  \A t \in Threads :
    /\ At(t, "idle") <=> call[t].token = None
    /\ At(t, "sleep") => call[t].op = "set"
    /\ Trying(t) => call[t].token \in DrawnBy(t)
    /\ Busy(t) /\ call[t].op \in Scripts => call[t].then = call[t].op
Unused ==
  \A t \in Threads : Trying(t) =>
    \A u \in Threads :
      /\ token[u] # call[t].token
      /\ u # t => call[u].token # call[t].token
Granted ==
  \A t \in Threads : Trying(t) /\ At(t, "replied") /\ call[t].reply = "yes" =>
    call[t].token \in expired \/ key = call[t].token
GivenUp ==
  \A t \in Threads : Releasing(t) => \A u \in Threads : token[u] # call[t].token
OwnTokens ==
  conf.thread_local =>
    \A t \in Threads : {token[t], call[t].token} \subseteq DrawnBy(t) \cup {None}

LockInv ==
  /\ TypeOK /\ acquires \in Nat
  /\ AllDrawn
  /\ IdleOrOwn
  /\ Unused
  /\ Granted
  /\ GivenUp
  /\ OwnTokens
  /\ key \notin expired
  /\ HeldIsLocked

LEMMA LockInit == Init => LockInv
<1> SUFFICES ASSUME Init PROVE LockInv OBVIOUS
<1>1. \A t \in Threads : call[t] = NoCall /\ token[t] = None BY DEF Init
<1>2. TypeOK
  BY DEF Init, TypeOK, NoCall, Steps, Commands, Scripts, Replies, Forever
<1> QED
  BY <1>1, <1>2
  DEF Init, LockInv, AllDrawn, IdleOrOwn, Unused, Granted, GivenUp, OwnTokens, HeldIsLocked,
      NoCall, At, Busy, Trying, Releasing, None

-----------------------------------------------------------------------------
CallRecords ==
  [at : Steps, op : Commands, then : Scripts, token : Tokens \cup {None}, reply : Replies, again : BOOLEAN]

\* What the invariant says of calls and tokens, whatever Redis has.
CallInv == AllDrawn /\ IdleOrOwn /\ Unused /\ GivenUp /\ OwnTokens

LEMMA NoCallType == NoCall \in CallRecords
BY DEF NoCall, CallRecords, Steps, Commands, Scripts, Replies

\* A thread goes on with the token it has, or gives up.
LEMMA CallStep ==
  ASSUME LockInv, NEW t \in Threads, NEW c \in CallRecords,
         call' = [call EXCEPT ![t] = c],
         UNCHANGED <<conf, token, acquires>>,
         c.token \in {None, call[t].token, token[t]},
         c.at = "idle" <=> c.token = None,
         c.at = "sleep" => c.op = "set",
         c.at # "idle" /\ c.op = "set" => Trying(t) /\ c.token = call[t].token,
         c.at # "idle" /\ c.op # "set" /\ c.then = "release" =>
           Releasing(t) /\ c.token = call[t].token,
         c.at # "idle" /\ c.op \in Scripts => c.then = c.op
  PROVE  CallInv' /\ call' \in [Threads -> CallRecords]
<1>1. call \in [Threads -> CallRecords] BY DEF LockInv, TypeOK, CallRecords
<1>2. call' \in [Threads -> CallRecords] BY <1>1
<1>3. call'[t] = c /\ \A u \in Threads \ {t} : call'[u] = call[u] BY <1>1
<1>4. AllDrawn' BY <1>3 DEF LockInv, AllDrawn, Drawn
<1>d. \A u \in Threads : DrawnBy(u)' = DrawnBy(u) BY DEF DrawnBy
<1>5. IdleOrOwn' BY <1>3, <1>d DEF LockInv, IdleOrOwn, Trying, Busy, At
<1>6. Unused'
  <2> SUFFICES ASSUME NEW v \in Threads, Trying(v)', NEW u \in Threads
               PROVE  /\ token'[u] # call'[v].token
                      /\ u # v => call'[u].token # call'[v].token
    BY DEF Unused
  <2>1. Trying(v) /\ call'[v].token = call[v].token BY <1>3 DEF Trying, Busy, At
  <2>2. token[u] # call[v].token /\ call[v].token # None /\ token[t] # call[v].token
    BY <2>1 DEF LockInv, Unused, IdleOrOwn, DrawnBy, None
  <2>3. u # v => call[u].token # call[v].token BY <2>1 DEF LockInv, Unused
  <2>4. CASE u = t BY <1>3, <2>1, <2>2, <2>3, <2>4
  <2>5. CASE u # t BY <1>3, <2>1, <2>2, <2>3, <2>5
  <2> QED BY <2>4, <2>5
<1>7. GivenUp' BY <1>3 DEF LockInv, GivenUp, Releasing, Busy, At
<1>8. OwnTokens'
  <2> SUFFICES ASSUME conf.thread_local, NEW u \in Threads
               PROVE  {token[u], call'[u].token} \subseteq DrawnBy(u) \cup {None}
    BY <1>d DEF OwnTokens
  <2>1. {token[u], call[u].token} \subseteq DrawnBy(u) \cup {None} BY DEF LockInv, OwnTokens
  <2> QED BY <1>3, <2>1
<1> QED BY <1>2, <1>4, <1>5, <1>6, <1>7, <1>8 DEF CallInv

\* The same when the key stays as it is.
LEMMA QuietStep ==
  ASSUME LockInv, NEW t \in Threads, NEW c \in CallRecords,
         call' = [call EXCEPT ![t] = c],
         UNCHANGED <<conf, token, acquires, key, ttl, expired>>,
         c.token \in {None, call[t].token, token[t]},
         c.at = "idle" <=> c.token = None,
         c.at = "sleep" => c.op = "set",
         c.at # "idle" /\ c.op = "set" => Trying(t) /\ c.token = call[t].token,
         c.at = "replied" /\ c.op = "set" => c.reply # "yes",
         c.at # "idle" /\ c.op # "set" /\ c.then = "release" =>
           Releasing(t) /\ c.token = call[t].token,
         c.at # "idle" /\ c.op \in Scripts => c.then = c.op
  PROVE  LockInv'
<1>1. CallInv' /\ call' \in [Threads -> CallRecords] BY CallStep
<1>2. call \in [Threads -> CallRecords] BY DEF LockInv, TypeOK, CallRecords
<1>3. call'[t] = c /\ \A u \in Threads \ {t} : call'[u] = call[u] BY <1>2
<1>4. TypeOK' BY <1>1 DEF LockInv, TypeOK, CallRecords
<1>5. Granted' BY <1>3 DEF LockInv, Granted, Trying, Busy, At
<1>6. HeldIsLocked' BY DEF LockInv, HeldIsLocked
<1> QED BY <1>1, <1>4, <1>5, <1>6 DEF LockInv, CallInv
-----------------------------------------------------------------------------
(* The steps of a thread. *)

\* What a call looks like when it has been sent,
LEMMA SendFacts ==
  ASSUME NEW t \in Threads, NEW op \in Scripts \cup {"set"}, NEW x \in Tokens \cup {None},
         Send(t, op, x)
  PROVE  \E c \in CallRecords :
           /\ call' = [call EXCEPT ![t] = c]
           /\ c.at = "sent" /\ c.op = op /\ c.token = x
           /\ op # "set" => c.then = op
<1> DEFINE c == [NoCall EXCEPT !.at = "sent", !.op = op,
                               !.then = IF op = "set" THEN @ ELSE op, !.token = x]
<1>1. op \in Commands BY DEF Scripts, Commands
<1>2. op # "set" => op \in Scripts OBVIOUS
<1>3. c \in CallRecords BY <1>1, <1>2, NoCallType DEF CallRecords, Steps
<1>4. /\ c.at = "sent" /\ c.op = op /\ c.token = x
      /\ op # "set" => c.then = op
  BY DEF NoCall
<1> QED BY <1>3, <1>4 DEF Send

\* and when it is over.
LEMMA ReturnStep ==
  ASSUME LockInv, NEW t \in Threads, Return(t),
         UNCHANGED <<conf, token, acquires, key, ttl, expired>>
  PROVE  LockInv'
<1>1. NoCall.at = "idle" /\ NoCall.token = None BY DEF NoCall
<1> QED BY <1>1, NoCallType, QuietStep DEF Return

LEMMA AcquireStep ==
  ASSUME LockInv, NEW t \in Threads, Acquire(t), UNCHANGED redisVars
  PROVE  LockInv'
<1> DEFINE x == <<t, acquires + 1>>
<1>1. /\ acquires' = acquires + 1 /\ acquires' \in 1..MaxAcquires
      /\ Send(t, "set", x) /\ UNCHANGED <<conf, token, key, ttl, expired, loaded>>
  BY LockAssumption DEF LockInv, Acquire, redisVars
<1>2. x \in Tokens /\ x # None /\ x \notin Drawn
  BY <1>1 DEF Tokens, None, Drawn, LockInv
<1>3. PICK c \in CallRecords : /\ call' = [call EXCEPT ![t] = c]
                               /\ c.at = "sent" /\ c.op = "set" /\ c.token = x
  BY <1>1, <1>2, SendFacts
<1>4. call \in [Threads -> CallRecords] BY DEF LockInv, TypeOK, CallRecords
<1>5. call'[t] = c /\ \A u \in Threads \ {t} : call'[u] = call[u] BY <1>3, <1>4
<1>6. TypeOK' BY <1>1, <1>3, <1>4 DEF LockInv, TypeOK, CallRecords
<1>7. /\ Drawn \subseteq Drawn' /\ x \in Drawn'
      /\ \A u \in Threads : DrawnBy(u) \subseteq DrawnBy(u)'
      /\ x \in DrawnBy(t)'
  BY <1>1 DEF Drawn, DrawnBy, LockInv
<1>8. AllDrawn' BY <1>1, <1>5, <1>3, <1>7 DEF LockInv, AllDrawn
<1>9. IdleOrOwn' BY <1>2, <1>3, <1>5, <1>7 DEF LockInv, IdleOrOwn, Trying, Busy, At, Scripts
<1>10. \A u \in Threads : token[u] # x /\ call[u].token # x BY <1>2 DEF LockInv, AllDrawn
<1>11. Unused'
  <2> SUFFICES ASSUME NEW v \in Threads, Trying(v)', NEW u \in Threads
               PROVE  /\ token'[u] # call'[v].token
                      /\ u # v => call'[u].token # call'[v].token
    BY DEF Unused
  <2>1. CASE v = t BY <1>1, <1>3, <1>5, <1>10, <2>1
  <2>2. CASE v # t
    <3>1. Trying(v) BY <1>5, <2>2 DEF Trying, Busy, At
    <3> QED BY <1>1, <1>3, <1>5, <1>10, <2>2, <3>1 DEF LockInv, Unused
  <2> QED BY <2>1, <2>2
<1>12. Granted' BY <1>1, <1>3, <1>5 DEF LockInv, Granted, Trying, Busy, At
<1>13. GivenUp' BY <1>1, <1>3, <1>5 DEF LockInv, GivenUp, Releasing, Busy, At
<1>14. OwnTokens' BY <1>1, <1>3, <1>5, <1>7 DEF LockInv, OwnTokens
<1>15. HeldIsLocked' BY <1>1 DEF LockInv, HeldIsLocked
<1> QED BY <1>1, <1>6, <1>8, <1>9, <1>11, <1>12, <1>13, <1>14, <1>15 DEF LockInv

\* The lock is the thread's from here on, or was until it expired.
LEMMA AcquiredStep ==
  ASSUME LockInv, NEW t \in Threads, Acquired(t), UNCHANGED redisVars
  PROVE  LockInv'
<1> DEFINE x == call[t].token
<1>1. /\ Trying(t)
      /\ x \in expired \/ key = x
      /\ x \in DrawnBy(t) /\ x \in Tokens
      /\ UNCHANGED <<conf, acquires, key, ttl, expired, loaded>>
  <2>1. /\ Trying(t) /\ At(t, "replied") /\ call[t].reply = "yes"
        /\ UNCHANGED <<conf, acquires, key, ttl, expired, loaded>>
    BY DEF Acquired, Trying, Busy, At, redisVars
  <2>2. x \in expired \/ key = x BY <2>1 DEF LockInv, Granted
  <2>3. x \in DrawnBy(t) BY <2>1 DEF LockInv, IdleOrOwn
  <2>4. x \in Tokens \cup {None} BY DEF LockInv, TypeOK
  <2>5. None \notin DrawnBy(t) BY DEF DrawnBy, None
  <2> QED BY <2>1, <2>2, <2>3, <2>4, <2>5
<1>2. call \in [Threads -> CallRecords] BY DEF LockInv, TypeOK, CallRecords
<1>3. call'[t] = NoCall /\ \A u \in Threads \ {t} : call'[u] = call[u]
  BY <1>2 DEF Acquired, Return
<1>4. \A u \in Threads : token'[u] \in {token[u], x} BY DEF Acquired, Store, LockInv, TypeOK
<1>5. conf.thread_local => \A u \in Threads : u # t => token'[u] = token[u]
  BY DEF Acquired, Store, LockInv, TypeOK
<1>6. NoCall.at = "idle" /\ NoCall.token = None BY DEF NoCall
<1>7. TypeOK'
  <2>1. call' \in [Threads -> CallRecords] BY <1>2, NoCallType DEF Acquired, Return
  <2>2. token' \in [Threads -> Tokens \cup {None}]
    BY <1>1 DEF Acquired, Store, LockInv, TypeOK
  <2> QED BY <1>1, <2>1, <2>2 DEF LockInv, TypeOK, CallRecords
<1>d. Drawn' = Drawn /\ \A u \in Threads : DrawnBy(u)' = DrawnBy(u) BY <1>1 DEF Drawn, DrawnBy
<1>8. AllDrawn' BY <1>d, <1>3, <1>4, <1>6 DEF LockInv, AllDrawn
<1>9. IdleOrOwn' BY <1>d, <1>3, <1>6 DEF LockInv, IdleOrOwn, Trying, Busy, At
<1>10. \A v \in Threads \ {t} : Trying(v)' => Trying(v) BY <1>3 DEF Trying, Busy, At
<1>11. ~Trying(t)' /\ ~Releasing(t)' BY <1>3, <1>6 DEF Trying, Releasing, Busy, At
<1>12. Unused'
  <2> SUFFICES ASSUME NEW v \in Threads, Trying(v)', NEW u \in Threads
               PROVE  /\ token'[u] # call'[v].token
                      /\ u # v => call'[u].token # call'[v].token
    BY DEF Unused
  <2>1. v # t /\ Trying(v) /\ call'[v] = call[v] BY <1>3, <1>10, <1>11
  <2>2. token[u] # call[v].token /\ x # call[v].token /\ call[v].token # None
    BY <2>1 DEF LockInv, Unused, IdleOrOwn, DrawnBy, None
  <2>3. u # v => call[u].token # call[v].token BY <2>1 DEF LockInv, Unused
  <2> QED BY <1>3, <1>4, <1>6, <2>1, <2>2, <2>3
<1>13. Granted' BY <1>1, <1>3, <1>6 DEF LockInv, Granted, Trying, Busy, At
<1>14. GivenUp'
  <2> SUFFICES ASSUME NEW v \in Threads, Releasing(v)', NEW u \in Threads
               PROVE  token'[u] # call'[v].token
    BY DEF GivenUp
  <2>1. v # t /\ Releasing(v) /\ call'[v] = call[v]
    BY <1>3, <1>11 DEF Releasing, Busy, At
  <2>2. token[u] # call[v].token BY <2>1 DEF LockInv, GivenUp
  <2>3. x # call[v].token BY <1>1, <2>1 DEF LockInv, Unused
  <2> QED BY <1>4, <2>1, <2>2, <2>3
<1>15. OwnTokens' BY <1>1, <1>d, <1>3, <1>4, <1>5, <1>6 DEF LockInv, OwnTokens
<1>16. HeldIsLocked' BY <1>1, <1>4 DEF LockInv, HeldIsLocked
<1> QED
  BY <1>1, <1>7, <1>8, <1>9, <1>12, <1>13, <1>14, <1>15, <1>16 DEF LockInv
\* The token is given up before the script is sent.
LEMMA ReleaseStep ==
  ASSUME LockInv, NEW t \in Threads, Release(t), UNCHANGED redisVars
  PROVE  LockInv'
<1> DEFINE x == token[t]
<1>1. /\ At(t, "idle") /\ x # None /\ x \in Tokens /\ x \in Drawn
      /\ Store(t, None) /\ Send(t, "release", x)
      /\ UNCHANGED <<conf, acquires, key, ttl, expired, loaded>>
  BY DEF Release, redisVars, LockInv, TypeOK, AllDrawn
<1>s. "release" \in Scripts BY DEF Scripts, Commands
<1>2. PICK c \in CallRecords :
        /\ call' = [call EXCEPT ![t] = c]
        /\ c.at = "sent" /\ c.op = "release" /\ c.token = x
        /\ "release" # "set" => c.then = "release"
  BY <1>1, <1>s, SendFacts
<1>3. call \in [Threads -> CallRecords] BY DEF LockInv, TypeOK, CallRecords
<1>4. call'[t] = c /\ \A u \in Threads \ {t} : call'[u] = call[u] BY <1>2, <1>3
<1>5. token' \in [Threads -> Tokens \cup {None}] BY <1>1 DEF Store, LockInv, TypeOK
<1>6. TypeOK' BY <1>1, <1>2, <1>3, <1>5 DEF LockInv, TypeOK, CallRecords
<1>7. /\ \A u \in Threads : token'[u] \in {token[u], None}
      /\ token'[t] = None
      /\ ~conf.thread_local => \A u \in Threads : token'[u] = None
  BY <1>1 DEF Store, LockInv, TypeOK
<1>d. Drawn' = Drawn /\ \A u \in Threads : DrawnBy(u)' = DrawnBy(u) BY <1>1 DEF Drawn, DrawnBy
<1>8. AllDrawn' BY <1>1, <1>2, <1>4, <1>7, <1>d DEF LockInv, AllDrawn
<1>9. IdleOrOwn' BY <1>1, <1>2, <1>4, <1>d DEF LockInv, IdleOrOwn, Trying, Busy, At
<1>10. Unused'
  <2> SUFFICES ASSUME NEW v \in Threads, Trying(v)', NEW u \in Threads
               PROVE  /\ token'[u] # call'[v].token
                      /\ u # v => call'[u].token # call'[v].token
    BY DEF Unused
  <2>1. v # t /\ Trying(v) /\ call'[v] = call[v] BY <1>2, <1>4 DEF Trying, Busy, At
  <2>2. call[v].token # None BY <2>1 DEF LockInv, IdleOrOwn, DrawnBy, None
  <2>3. token[u] # call[v].token /\ x # call[v].token BY <2>1 DEF LockInv, Unused
  <2>4. u # v => call[u].token # call[v].token BY <2>1 DEF LockInv, Unused
  <2> QED BY <1>2, <1>4, <1>7, <2>1, <2>2, <2>3, <2>4
<1>11. Granted' BY <1>1, <1>2, <1>4 DEF LockInv, Granted, Trying, Busy, At
<1>12. GivenUp'
  <2> SUFFICES ASSUME NEW v \in Threads, Releasing(v)', NEW u \in Threads
               PROVE  token'[u] # call'[v].token
    BY DEF GivenUp
  <2>1. CASE v = t
    <3>1. CASE conf.thread_local
      <4>1. {x, token[u]} \subseteq Drawn \cup {None} BY DEF LockInv, AllDrawn
      <4>2. u # t => token[u] \in DrawnBy(u) \cup {None} BY <3>1 DEF LockInv, OwnTokens
      <4>3. x \in DrawnBy(t) BY <1>1, <3>1 DEF LockInv, OwnTokens
      <4>4. u # t => x \notin DrawnBy(u) BY <4>3 DEF DrawnBy
      <4> QED BY <1>1, <1>2, <1>4, <1>7, <2>1, <4>2, <4>4
    <3>2. CASE ~conf.thread_local BY <1>1, <1>2, <1>4, <1>7, <2>1, <3>2
    <3> QED BY <3>1, <3>2
  <2>2. CASE v # t
    <3>1. Releasing(v) /\ call'[v] = call[v] BY <1>4, <2>2 DEF Releasing, Busy, At
    <3>2. call[v].token # None /\ token[u] # call[v].token
      BY <3>1 DEF LockInv, GivenUp, IdleOrOwn, Releasing, Busy
    <3> QED BY <1>7, <3>1, <3>2
  <2> QED BY <2>1, <2>2
<1>13. OwnTokens' BY <1>1, <1>2, <1>4, <1>7, <1>d DEF LockInv, OwnTokens
<1>14. HeldIsLocked' BY <1>1, <1>7 DEF LockInv, HeldIsLocked
<1> QED BY <1>1, <1>6, <1>8, <1>9, <1>10, <1>11, <1>12, <1>13, <1>14 DEF LockInv

\* The other steps of a call leave the tokens alone.
LEMMA OtherSteps ==
  ASSUME LockInv, NEW t \in Threads, UNCHANGED redisVars,
         \/ NotAcquired(t) \/ TryAgain(t) \/ NoScript(t) \/ Loaded(t) \/ Answered(t)
         \/ \E op \in Scripts \ {"release"} : Extend(t, op)
  PROVE  LockInv'
<1>1. UNCHANGED <<key, ttl, expired, loaded>> BY DEF redisVars
<1>2. call \in [Threads -> CallRecords] /\ token \in [Threads -> Tokens \cup {None}]
  BY DEF LockInv, TypeOK, CallRecords
<1>3. CASE NotAcquired(t)
  <2>1. CASE Return(t) BY <1>1, <1>3, <2>1, ReturnStep DEF NotAcquired
  <2>2. CASE call' = [call EXCEPT ![t].at = "sleep"]
    <3> DEFINE c == [call[t] EXCEPT !.at = "sleep"]
    <3>1. c \in CallRecords BY <1>2 DEF CallRecords, Steps
    <3>2. call' = [call EXCEPT ![t] = c] BY <2>2
    <3>3. c.at = "sleep" /\ c.op = "set" /\ c.token = call[t].token /\ Trying(t) /\ c.token # None
      BY <1>2, <1>3 DEF NotAcquired, CallRecords, Trying, Busy, At, LockInv, IdleOrOwn
    <3>4. UNCHANGED <<conf, token, acquires>> BY <1>3 DEF NotAcquired
    <3> QED BY <1>1, <3>1, <3>2, <3>3, <3>4, QuietStep DEF Scripts
  <2> QED BY <1>3, <2>1, <2>2 DEF NotAcquired
<1>4. CASE TryAgain(t)
  <2>1. call[t].token \in Tokens \cup {None} BY <1>2 DEF CallRecords
  <2>2. PICK c \in CallRecords : /\ call' = [call EXCEPT ![t] = c]
                                 /\ c.at = "sent" /\ c.op = "set" /\ c.token = call[t].token
    BY <1>4, <2>1, SendFacts DEF TryAgain
  <2>3. Trying(t) /\ call[t].token # None
    BY <1>4 DEF TryAgain, Trying, Busy, At, LockInv, IdleOrOwn
  <2>4. UNCHANGED <<conf, token, acquires>> BY <1>4 DEF TryAgain
  <2> QED BY <1>1, <2>2, <2>3, <2>4, QuietStep DEF Scripts
<1>5. CASE NoScript(t)
  <2>1. /\ call[t].op \in Scripts /\ Busy(t) /\ call[t].token # None
        /\ UNCHANGED <<conf, token, acquires>>
    BY <1>5 DEF NoScript, Busy, At, LockInv, IdleOrOwn
  <2>2. CASE Return(t) BY <1>1, <2>1, <2>2, ReturnStep
  <2>3. CASE call' = [call EXCEPT ![t].at = "sent", ![t].op = "load", ![t].reply = "none"]
    <3> DEFINE c == [call[t] EXCEPT !.at = "sent", !.op = "load", !.reply = "none"]
    <3>1. c \in CallRecords BY <1>2 DEF CallRecords, Steps, Commands, Replies
    <3>2. call' = [call EXCEPT ![t] = c] BY <2>3
    <3>3. c.at = "sent" /\ c.op = "load" /\ c.token = call[t].token /\ c.then = call[t].then
      BY <1>2 DEF CallRecords
    <3>4. c.then = "release" => Releasing(t)
      BY <2>1, <3>3 DEF Releasing, Scripts, LockInv, IdleOrOwn
    <3> QED BY <1>1, <2>1, <3>1, <3>2, <3>3, <3>4, QuietStep DEF Scripts
  <2> QED BY <1>5, <2>2, <2>3 DEF NoScript
<1>6. CASE Loaded(t)
  <2>1. /\ call[t].op = "load" /\ Busy(t) /\ call[t].token # None
        /\ UNCHANGED <<conf, token, acquires>>
    BY <1>6 DEF Loaded, Busy, At, LockInv, IdleOrOwn
  <2> DEFINE c == [call[t] EXCEPT !.at = "sent", !.op = call[t].then, !.reply = "none", !.again = TRUE]
  <2>2. c \in CallRecords /\ call[t].then \in Scripts
    BY <1>2 DEF CallRecords, Steps, Commands, Scripts, Replies
  <2>3. call' = [call EXCEPT ![t] = c] BY <1>6 DEF Loaded
  <2>4. c.at = "sent" /\ c.op = call[t].then /\ c.token = call[t].token /\ c.then = call[t].then
    BY <1>2 DEF CallRecords
  <2>5. c.op # "set" /\ (c.then = "release" => Releasing(t))
    BY <2>1, <2>2, <2>4 DEF Releasing, Scripts
  <2> QED BY <1>1, <2>1, <2>2, <2>3, <2>4, <2>5, QuietStep
<1>7. CASE Answered(t) BY <1>1, <1>7, ReturnStep DEF Answered
<1>8. ASSUME NEW op \in Scripts \ {"release"}, Extend(t, op) PROVE LockInv'
  <2>1. PICK c \in CallRecords : /\ call' = [call EXCEPT ![t] = c]
                                 /\ c.at = "sent" /\ c.op = op /\ c.token = token[t]
                                 /\ op # "set" => c.then = op
    BY <1>2, <1>8, SendFacts DEF Extend
  <2>2. op # "set" /\ op # "release" BY DEF Scripts
  <2>3. token[t] # None /\ UNCHANGED <<conf, token, acquires>> BY <1>8 DEF Extend
  <2> QED BY <1>1, <2>1, <2>2, <2>3, QuietStep
<1> QED BY <1>3, <1>4, <1>5, <1>6, <1>7, <1>8

-----------------------------------------------------------------------------
(* The steps of Redis. *)

\* The reply to a command: it arrives, or it does not.
LEMMA ReplyFacts ==
  ASSUME LockInv, NEW t \in Threads, NEW r \in Replies, At(t, "sent"),
         UNCHANGED <<conf, token, acquires>>,
         Reply(t, r)
  PROVE  /\ CallInv' /\ call' \in [Threads -> CallRecords]
         /\ \A u \in Threads \ {t} : call'[u] = call[u]
         /\ Trying(t)' => Trying(t) /\ call'[t].token = call[t].token
         /\ At(t, "replied")' => call'[t].reply = r
<1>1. call \in [Threads -> CallRecords] BY DEF LockInv, TypeOK, CallRecords
<1>2. Busy(t) BY DEF At, Busy
<1>3. PICK c \in CallRecords :
        /\ call' = [call EXCEPT ![t] = c]
        /\ \/ c = NoCall
           \/ /\ c.at \in {"sent", "replied"} /\ c.op = call[t].op
              /\ c.token = call[t].token /\ c.then = call[t].then
        /\ c.at = "replied" => c.reply = r
  <2>1. CASE Return(t) BY <2>1, NoCallType DEF Return, NoCall
  <2>2. CASE UNCHANGED call
    <3>1. call' = [call EXCEPT ![t] = call[t]] BY <1>1, <2>2
    <3> QED BY <1>1, <3>1 DEF At
  <2>3. CASE call' = [call EXCEPT ![t].at = "replied", ![t].reply = r]
    <3> DEFINE c == [call[t] EXCEPT !.at = "replied", !.reply = r]
    <3>1. c \in CallRecords BY <1>1 DEF CallRecords, Steps
    <3>2. call' = [call EXCEPT ![t] = c] BY <2>3
    <3>3. c.at = "replied" /\ c.op = call[t].op /\ c.token = call[t].token
          /\ c.then = call[t].then /\ c.reply = r
      BY <1>1 DEF CallRecords
    <3> QED BY <3>1, <3>2, <3>3
  <2> QED BY <2>1, <2>2, <2>3 DEF Reply
<1>4. NoCall.at = "idle" /\ NoCall.token = None BY DEF NoCall
<1>n. call[t].token # None BY <1>2 DEF Busy, LockInv, IdleOrOwn
<1>5. /\ c.at # "idle" /\ c.op = "set" => Trying(t) /\ c.token = call[t].token
      /\ c.at # "idle" /\ c.op # "set" /\ c.then = "release" =>
           Releasing(t) /\ c.token = call[t].token
      /\ c.at # "idle" /\ c.op \in Scripts => c.then = c.op
  BY <1>2, <1>3, <1>4 DEF Trying, Releasing, LockInv, IdleOrOwn
<1>6. CallInv' /\ call' \in [Threads -> CallRecords] BY <1>3, <1>4, <1>n, <1>5, CallStep
<1>7. call'[t] = c /\ \A u \in Threads \ {t} : call'[u] = call[u] BY <1>1, <1>3
<1> QED BY <1>3, <1>5, <1>6, <1>7 DEF Trying, Busy, At

LEMMA SetStep ==
  ASSUME LockInv, NEW t \in Threads, Set(t) PROVE LockInv'
<1>1. At(t, "sent") /\ Trying(t) /\ UNCHANGED <<conf, token, acquires, loaded>>
  BY DEF Set, Trying, Busy, At
<1>2. call[t].token \in Tokens /\ call[t].token # None
  <2>1. call[t].token # None BY <1>1 DEF LockInv, IdleOrOwn, Trying, Busy
  <2> QED BY <2>1 DEF LockInv, TypeOK
<1>3. CASE key = None
  <2>1. /\ key' = call[t].token /\ expired' = expired \ {key'} /\ Reply(t, "yes")
        /\ ttl' \in {Timeout, Forever}
    BY <1>3 DEF Set
  <2>2. /\ CallInv' /\ call' \in [Threads -> CallRecords]
        /\ \A u \in Threads \ {t} : call'[u] = call[u]
        /\ Trying(t)' => call'[t].token = call[t].token
    BY <1>1, <2>1, ReplyFacts DEF Replies
  <2>3. TypeOK' BY <1>1, <1>2, <2>1, <2>2, LockAssumption DEF LockInv, TypeOK, CallRecords
  <2>4. Granted'
    <3> SUFFICES ASSUME NEW u \in Threads, Trying(u)', At(u, "replied")', call'[u].reply = "yes"
                 PROVE  call'[u].token \in expired' \/ key' = call'[u].token
      BY DEF Granted
    <3>1. CASE u = t BY <2>1, <2>2, <3>1
    <3>2. CASE u # t
      <4>1. Trying(u) /\ At(u, "replied") /\ call[u].reply = "yes" /\ call'[u] = call[u]
        BY <2>2, <3>2 DEF Trying, Busy, At
      <4>2. call[u].token # None BY <4>1 DEF LockInv, IdleOrOwn, Trying, Busy
      <4>3. call[u].token \in expired BY <1>3, <4>1, <4>2 DEF LockInv, Granted
      <4> QED BY <2>1, <4>1, <4>3
    <3> QED BY <3>1, <3>2
  <2>5. HeldIsLocked'
    <3> SUFFICES ASSUME NEW u \in Threads, token'[u] \notin {None} \cup expired'
                 PROVE  key' = token'[u]
      BY DEF HeldIsLocked
    <3>1. token[u] # call[t].token BY <1>1 DEF LockInv, Unused
    <3>2. token[u] \notin {None} \cup expired BY <1>1, <2>1, <3>1
    <3> QED BY <1>3, <3>2 DEF LockInv, HeldIsLocked
  <2>6. key' \notin expired' BY <2>1
  <2> QED BY <1>1, <2>2, <2>3, <2>4, <2>5, <2>6 DEF LockInv, CallInv
<1>4. CASE key # None
  <2>1. UNCHANGED <<key, ttl, expired>> /\ Reply(t, "no") BY <1>4 DEF Set
  <2>2. /\ CallInv' /\ call' \in [Threads -> CallRecords]
        /\ \A u \in Threads \ {t} : call'[u] = call[u]
        /\ At(t, "replied")' => call'[t].reply = "no"
    BY <1>1, <2>1, ReplyFacts DEF Replies
  <2>3. TypeOK' BY <1>1, <2>1, <2>2 DEF LockInv, TypeOK, CallRecords
  <2>4. Granted' BY <2>1, <2>2 DEF LockInv, Granted, Trying, Busy, At
  <2>5. HeldIsLocked' BY <1>1, <2>1 DEF LockInv, HeldIsLocked
  <2> QED BY <1>1, <2>1, <2>2, <2>3, <2>4, <2>5 DEF LockInv, CallInv
<1> QED BY <1>3, <1>4

\* A script that takes the key away is sent by a thread that gave up its token,
\* or it lets the key expire.
LEMMA EvalshaStep ==
  ASSUME LockInv, NEW t \in Threads, Evalsha(t) PROVE LockInv'
<1> DEFINE r == IF ~loaded THEN "noscript" ELSE IF Applies(t) THEN "yes" ELSE "no"
<1>1. /\ At(t, "sent") /\ Busy(t) /\ call[t].op \in Scripts /\ Reply(t, r) /\ r \in Replies
      /\ UNCHANGED <<conf, token, acquires, loaded>>
  BY DEF Evalsha, Busy, At, Replies
<1>2. /\ CallInv' /\ call' \in [Threads -> CallRecords]
      /\ \A u \in Threads \ {t} : call'[u] = call[u]
      /\ Trying(t)' => Trying(t)
  BY <1>1, ReplyFacts
<1>3. ~Trying(t)' BY <1>1, <1>2 DEF Trying, Scripts
<1>n. Matches(t) => key # None BY <1>1 DEF Matches, LockInv, IdleOrOwn, Busy
<1>4. CASE UNCHANGED <<key, ttl, expired>>
  <2>1. TypeOK' BY <1>1, <1>2, <1>4 DEF LockInv, TypeOK, CallRecords
  <2>2. Granted' BY <1>1, <1>2, <1>3, <1>4 DEF LockInv, Granted, Trying, Busy, At
  <2>3. HeldIsLocked' BY <1>1, <1>4 DEF LockInv, HeldIsLocked
  <2> QED BY <1>1, <1>2, <1>4, <2>1, <2>2, <2>3 DEF LockInv, CallInv
<1>5. CASE Applies(t) /\ Run(call[t].op) /\ ~Deletes(call[t].op)
  <2>1. /\ key' = key /\ expired' = expired
        /\ ttl' \in {ttl + Additional, Additional, Timeout}
        /\ ttl' = ttl + Additional => ttl # Forever \/ ttl' \in {Additional, Timeout}
    BY <1>1, <1>5 DEF Run, Deletes, Applies, Scripts, Commands
  <2>2. key # None BY <1>5, <1>n DEF Applies
  <2>3. ttl' \in Nat BY <2>1, LockAssumption DEF LockInv, TypeOK, Forever
  <2>4. TypeOK' BY <1>1, <1>2, <2>1, <2>2, <2>3 DEF LockInv, TypeOK, CallRecords
  <2>5. Granted' BY <1>1, <1>2, <1>3, <2>1 DEF LockInv, Granted, Trying, Busy, At
  <2>6. HeldIsLocked' BY <1>1, <2>1 DEF LockInv, HeldIsLocked
  <2> QED BY <1>1, <1>2, <2>1, <2>4, <2>5, <2>6 DEF LockInv, CallInv
<1>6. CASE Applies(t) /\ Run(call[t].op) /\ call[t].op = "release"
  <2>1. key' = None /\ ttl' = Forever /\ key = call[t].token /\ expired' = expired
    BY <1>6 DEF Run, Deletes, Applies, Matches
  <2>2. Releasing(t) BY <1>1, <1>6 DEF Releasing, LockInv, IdleOrOwn
  <2>3. TypeOK' BY <1>1, <1>2, <2>1 DEF LockInv, TypeOK, CallRecords
  <2>4. Granted'
    <3> SUFFICES ASSUME NEW u \in Threads, Trying(u)', At(u, "replied")', call'[u].reply = "yes"
                 PROVE  call'[u].token \in expired'
      BY DEF Granted
    <3>1. u # t BY <1>3
    <3>2. Trying(u) /\ At(u, "replied") /\ call[u].reply = "yes" /\ call'[u] = call[u]
      BY <1>2, <3>1 DEF Trying, Busy, At
    <3>3. call[u].token \in expired \/ key = call[u].token BY <3>2 DEF LockInv, Granted
    <3>4. call[u].token # call[t].token BY <3>1, <3>2 DEF LockInv, Unused
    <3> QED BY <1>1, <2>1, <3>2, <3>3, <3>4
  <2>5. HeldIsLocked'
    <3> SUFFICES ASSUME NEW u \in Threads, token'[u] \notin {None} \cup expired'
                 PROVE  FALSE
      BY DEF HeldIsLocked
    <3>1. key = token[u] BY <1>1, <2>1 DEF LockInv, HeldIsLocked
    <3>2. token[u] # call[t].token BY <2>2 DEF LockInv, GivenUp
    <3> QED BY <2>1, <3>1, <3>2
  <2>6. key' \notin expired'
    BY <1>1, <2>1 DEF LockInv, TypeOK, Tokens, None
  <2> QED BY <1>1, <1>2, <2>1, <2>3, <2>4, <2>5, <2>6 DEF LockInv, CallInv
<1>7. CASE Applies(t) /\ Run(call[t].op) /\ Deletes(call[t].op) /\ call[t].op # "release"
  <2>1. key' = None /\ ttl' = Forever /\ expired' = expired \cup {key}
    BY <1>7 DEF Run
  <2>2. key \in Tokens BY <1>7, <1>n DEF Applies, LockInv, TypeOK
  <2>3. TypeOK' BY <1>1, <1>2, <2>1, <2>2 DEF LockInv, TypeOK, CallRecords
  <2>4. Granted' BY <1>1, <1>2, <1>3, <2>1 DEF LockInv, Granted, Trying, Busy, At
  <2>5. HeldIsLocked' BY <1>1, <2>1 DEF LockInv, HeldIsLocked
  <2>6. key' \notin expired'
    <3>1. None \notin Tokens BY DEF Tokens, None
    <3>2. expired \subseteq Tokens BY DEF LockInv, TypeOK
    <3> QED BY <2>1, <2>2, <3>1, <3>2
  <2> QED BY <1>1, <1>2, <2>1, <2>3, <2>4, <2>5, <2>6 DEF LockInv, CallInv
<1> QED BY <1>4, <1>5, <1>6, <1>7 DEF Evalsha

\* Loading and flushing scripts, and the loss of a command, leave the key alone.
LEMMA OtherRedisSteps ==
  ASSUME LockInv, ScriptFlush \/ \E t \in Threads : ScriptLoad(t) \/ CommandLost(t)
  PROVE  LockInv'
<1>1. CASE ScriptFlush
  <2>1. UNCHANGED <<conf, token, call, acquires, key, ttl, expired>> BY <1>1 DEF ScriptFlush, clientVars
  <2> QED
    BY <2>1 DEF LockInv, TypeOK, AllDrawn, Drawn, IdleOrOwn, DrawnBy, Unused, Granted, GivenUp,
                OwnTokens, HeldIsLocked, Trying, Releasing, Busy, At
<1>2. ASSUME NEW t \in Threads, ScriptLoad(t) PROVE LockInv'
  <2>1. /\ At(t, "sent") /\ call[t].op = "load" /\ Reply(t, "yes") /\ "yes" \in Replies
        /\ UNCHANGED <<conf, token, acquires, key, ttl, expired>>
    BY <1>2 DEF ScriptLoad, Replies
  <2>2. /\ CallInv' /\ call' \in [Threads -> CallRecords]
        /\ \A u \in Threads \ {t} : call'[u] = call[u]
        /\ Trying(t)' => Trying(t)
    BY <2>1, ReplyFacts
  <2>3. ~Trying(t)' BY <2>1, <2>2 DEF Trying
  <2>4. TypeOK' BY <2>1, <2>2 DEF LockInv, TypeOK, CallRecords
  <2>5. Granted' BY <2>1, <2>2, <2>3 DEF LockInv, Granted, Trying, Busy, At
  <2>6. HeldIsLocked' BY <2>1 DEF LockInv, HeldIsLocked
  <2> QED BY <2>1, <2>2, <2>4, <2>5, <2>6 DEF LockInv, CallInv
<1>3. ASSUME NEW t \in Threads, CommandLost(t) PROVE LockInv'
  <2>1. UNCHANGED <<conf, token, acquires, key, ttl, expired, loaded>> BY <1>3 DEF CommandLost, redisVars
  <2>2. CASE Return(t) BY <2>1, <2>2, ReturnStep
  <2>3. CASE UNCHANGED call
    BY <2>1, <2>3 DEF LockInv, TypeOK, AllDrawn, Drawn, IdleOrOwn, DrawnBy, Unused, Granted, GivenUp,
                OwnTokens, HeldIsLocked, Trying, Releasing, Busy, At
  <2> QED BY <1>3, <2>2, <2>3 DEF CommandLost
<1> QED BY <1>1, <1>2, <1>3

LEMMA TickStep ==
  ASSUME LockInv, Tick PROVE LockInv'
<1>1. UNCHANGED <<conf, token, call, acquires, loaded>> BY DEF Tick, clientVars
<1>2. CallInv'
  BY <1>1 DEF LockInv, CallInv, AllDrawn, Drawn, IdleOrOwn, DrawnBy, Unused, GivenUp,
              OwnTokens, Trying, Releasing, Busy, At
<1>3. ttl # Forever /\ ttl \in Nat /\ key # None /\ key \in Tokens
  BY DEF Tick, LockInv, TypeOK
<1>4. \/ ttl > 1 /\ ttl' = ttl - 1 /\ UNCHANGED <<key, expired>>
      \/ key' = None /\ ttl' = Forever /\ expired' = expired \cup {key}
  BY DEF Tick
<1>5. TypeOK' BY <1>1, <1>3, <1>4 DEF LockInv, TypeOK
<1>6. Granted' BY <1>1, <1>4 DEF LockInv, Granted, Trying, Busy, At
<1>7. HeldIsLocked' BY <1>1, <1>4 DEF LockInv, HeldIsLocked
<1>8. key' \notin expired' BY <1>3, <1>4 DEF LockInv, TypeOK, Tokens, None
<1> QED BY <1>1, <1>2, <1>5, <1>6, <1>7, <1>8 DEF LockInv, CallInv

LEMMA LockNext == LockInv /\ [Next]_vars => LockInv'
<1> SUFFICES ASSUME LockInv, [Next]_vars PROVE LockInv' OBVIOUS
<1>1. CASE UNCHANGED vars
  BY <1>1 DEF vars, clientVars, redisVars, LockInv, TypeOK, AllDrawn, Drawn, IdleOrOwn, DrawnBy,
      Unused, Granted, GivenUp, OwnTokens, HeldIsLocked, Trying, Releasing, Busy, At
<1>2. ASSUME NEW t \in Threads, UNCHANGED redisVars,
             LockStep(t) \/ Acquire(t) \/ Release(t)
               \/ \E op \in Scripts \ {"release"} : Extend(t, op)
      PROVE  LockInv'
  BY <1>2, AcquireStep, AcquiredStep, ReleaseStep, OtherSteps DEF LockStep
<1>3. ASSUME NEW t \in Threads, RedisStep(t) PROVE LockInv'
  BY <1>3, SetStep, EvalshaStep, OtherRedisSteps DEF RedisStep
<1> QED BY <1>1, <1>2, <1>3, OtherRedisSteps, TickStep DEF Next

\* The Lock and Redis hold what the code writes, however many threads, calls
\* and faults there are.
THEOREM LockTypeCorrect == Spec => []TypeOK
<1>1. Spec => []LockInv BY LockInit, LockNext, PTL DEF Spec
<1>2. LockInv => TypeOK BY DEF LockInv
<1> QED BY <1>1, <1>2, PTL

\* Mutual exclusion: a thread that acquired the lock and has not begun to release
\* it has it, unless the key expired.
THEOREM LockHeld == Spec => []HeldIsLocked
<1>1. Spec => []LockInv BY LockInit, LockNext, PTL DEF Spec
<1>2. LockInv => HeldIsLocked BY DEF LockInv
<1> QED BY <1>1, <1>2, PTL

\* With thread-local tokens a key that does not expire is deleted by the script
\* of the thread that acquired the lock.
THEOREM LockReleasedByOwner == Spec => ReleasedByOwner
<1>1. Spec => []LockInv BY LockInit, LockNext, PTL DEF Spec
<1>2. ASSUME LockInv, LockInv', [Next]_vars,
             conf.thread_local, key # None, key' = None, expired' = expired
      PROVE  At(key[1], "sent") /\ call[key[1]].op = "release"
  <2>1. PICK t \in Threads : Evalsha(t)
    <3>1. ~Tick BY <1>2 DEF Tick, LockInv
    <3>2. ASSUME NEW t \in Threads, Set(t) PROVE FALSE
      <4>1. key' = key \/ key' = call[t].token BY <3>2 DEF Set
      <4>2. At(t, "sent") BY <3>2 DEF Set
      <4> QED BY <1>2, <4>1, <4>2 DEF LockInv, IdleOrOwn, At
    <3> QED BY <1>2, <3>1, <3>2 DEF Next, vars, redisVars, RedisStep, ScriptLoad, ScriptFlush, CommandLost
  <2>2. call[t].op = "release" /\ key = call[t].token /\ At(t, "sent")
    <3>1. loaded /\ Applies(t) /\ Run(call[t].op) BY <1>2, <2>1 DEF Evalsha
    <3>2. Deletes(call[t].op) /\ (call[t].op = "release" \/ expired' = expired \cup {key})
      BY <1>2, <3>1 DEF Run
    <3> QED BY <1>2, <2>1, <3>1, <3>2 DEF Evalsha, Applies, Matches, LockInv
  <2>3. key \in DrawnBy(t) BY <1>2, <2>2 DEF LockInv, OwnTokens
  <2>4. key[1] = t BY <2>3 DEF DrawnBy
  <2> QED BY <2>2, <2>4
<1> QED BY <1>1, <1>2, PTL DEF Spec, ReleasedByOwner

-----------------------------------------------------------------------------
(* Election. *)

Asking == {"status", "pid", "ping", "wait"}

OneAsks ==
  \A s, t \in Servers : s # t /\ at[s] # "off" /\ at[t] # "off" =>
    \/ at[s] = "loop" /\ at[t] \in Asking
    \/ at[t] = "loop" /\ at[s] \in Asking
HashOfServer ==
  \A s \in Servers :
    /\ at[s] \in {"joined", "first", "loop"} => status = "active"
    /\ at[s] \in {"first", "loop"} => pid = s
    /\ at[s] = "loop" => age <= PingTimeout

ElectionInv == ElectionTypeOK /\ (~disturbed => OneAsks /\ HashOfServer)

LEMMA ElectionStarts == ElectionInit => ElectionInv
<1> SUFFICES ASSUME ElectionInit PROVE ElectionInv OBVIOUS
<1>1. /\ at = [s \in Servers |-> "off"] /\ status = "none" /\ pid = NoServer
      /\ age = Never /\ launches = 0
  BY DEF ElectionInit
<1>2. disturbed \in BOOLEAN BY DEF ElectionInit
<1>3. age \in 0..Never /\ launches \in 0..MaxLaunches
  BY <1>1, ElectionAssumption DEF Never
<1>4. at \in [Servers -> ElectionSteps] BY <1>1 DEF ElectionSteps
<1>5. ElectionTypeOK BY <1>1, <1>2, <1>3, <1>4 DEF ElectionTypeOK
<1>6. OneAsks /\ HashOfServer BY <1>1 DEF OneAsks, HashOfServer
<1> QED BY <1>5, <1>6 DEF ElectionInv

\* A server that begins to run, or runs again, begins its election; the hash is
\* changed by one that runs again only.
LEMMA BeginStep ==
  ASSUME ElectionInv, NEW s \in Servers, Begin(s), UNCHANGED <<pid, age>>,
         status' = status \/ (Serving(s) /\ status' = "starting")
  PROVE  ElectionInv'
<1> DEFINE others == {at[t] : t \in Servers \ {s}}
<1>1. /\ at \in [Servers -> ElectionSteps] /\ at' = [at EXCEPT ![s] = "status"]
      /\ disturbed' = (others # {"off"} /\ (disturbed \/ ~ others \subseteq {"off", "loop"}))
  BY DEF Begin, Goto, ElectionInv, ElectionTypeOK
<1>2. at'[s] = "status" /\ \A t \in Servers \ {s} : at'[t] = at[t] BY <1>1
<1>3. ElectionTypeOK'
  <2>1. disturbed' \in BOOLEAN BY <1>1
  <2>2. launches' \in 0..MaxLaunches
    BY ElectionAssumption DEF Begin, ElectionInv, ElectionTypeOK
  <2>3. at' \in [Servers -> ElectionSteps] BY <1>1 DEF ElectionSteps
  <2>4. /\ status' \in {"none", "active", "starting", "dead"}
        /\ pid' \in Servers \cup {NoServer} /\ age' \in 0..Never
    BY DEF ElectionInv, ElectionTypeOK, Never
  <2> QED BY <2>1, <2>2, <2>3, <2>4 DEF ElectionTypeOK
<1>4. CASE others = {"off"}
  <2>1. \A t \in Servers \ {s} : at'[t] = "off" BY <1>2, <1>4
  <2>2. OneAsks' /\ HashOfServer' BY <1>2, <2>1 DEF OneAsks, HashOfServer
  <2> QED BY <1>3, <2>2 DEF ElectionInv
<1>5. CASE ~disturbed /\ others \subseteq {"off", "loop"}
  <2>1. \A t \in Servers \ {s} : at[t] \in {"off", "loop"} BY <1>5
  <2>2. OneAsks /\ HashOfServer BY <1>5 DEF ElectionInv
  <2>3. OneAsks' BY <1>2, <2>1, <2>2 DEF OneAsks, Asking
  <2>4. HashOfServer'
    <3> SUFFICES ASSUME NEW t \in Servers, at'[t] \in {"joined", "first", "loop"}
                 PROVE  at'[t] = "loop" /\ status' = "active" /\ pid' = t /\ age' <= PingTimeout
      BY DEF HashOfServer
    <3>1. t # s /\ at'[t] = at[t] /\ at[t] = "loop" BY <1>2, <2>1
    <3>2. ~Serving(s) BY <2>2, <3>1 DEF OneAsks, Serving, Asking
    <3> QED BY <2>2, <3>1, <3>2 DEF HashOfServer
  <2> QED BY <1>3, <2>3, <2>4 DEF ElectionInv
<1>6. CASE disturbed' BY <1>3, <1>6 DEF ElectionInv
<1> QED BY <1>1, <1>4, <1>5, <1>6

LEMMA ElectionStep == ElectionInv /\ [ElectionNext]_electionVars => ElectionInv'
<1> SUFFICES ASSUME ElectionInv, [ElectionNext]_electionVars PROVE ElectionInv' OBVIOUS
<1>t. at \in [Servers -> ElectionSteps] /\ age \in 0..Never /\ ElectionTypeOK BY DEF ElectionInv, ElectionTypeOK
<1>1. CASE UNCHANGED electionVars
  BY <1>1 DEF electionVars, hashVars, ElectionInv, ElectionTypeOK, OneAsks, HashOfServer
<1>2. ASSUME NEW s \in Servers, Launch(s) PROVE ElectionInv'
  BY <1>2, BeginStep DEF Launch, hashVars
<1>3. ASSUME NEW s \in Servers, Restart(s) PROVE ElectionInv'
  BY <1>3, BeginStep DEF Restart, Serving
<1>4. ASSUME NEW s \in Servers, ReadStatus(s) \/ ReadPid(s) \/ ReadPing(s) \/ Wait(s)
      PROVE  ElectionInv'
  <2>1. /\ at[s] \in Asking /\ UNCHANGED <<status, pid, age, launches, disturbed>>
        /\ \E step \in Asking \cup {"join"} :
             /\ at' = [at EXCEPT ![s] = step]
             /\ step = "join" => status # "active" \/ pid \in {NoServer, s} \/ age > PingTimeout
    BY <1>4 DEF ReadStatus, ReadPid, ReadPing, Wait, Goto, TooOld, Asking, hashVars
  <2>2. PICK step \in Asking \cup {"join"} :
          /\ at'[s] = step /\ \A t \in Servers \ {s} : at'[t] = at[t]
          /\ step = "join" => status # "active" \/ pid \in {NoServer, s} \/ age > PingTimeout
    BY <2>1, <1>t
  <2>3. ElectionTypeOK' BY <1>t, <2>1 DEF ElectionTypeOK, ElectionSteps, Asking
  <2>4. ASSUME ~disturbed PROVE OneAsks' /\ HashOfServer'
    <3>1. OneAsks /\ HashOfServer BY <2>4 DEF ElectionInv
    <3>2. HashOfServer' BY <2>1, <2>2, <3>1 DEF HashOfServer, Asking
    <3>3. \A t \in Servers \ {s} : at[t] # "off" => at[t] = "loop"
      BY <2>1, <3>1 DEF OneAsks, Asking
    <3>4. \A t \in Servers \ {s} : at[t] # "off" => step \in Asking
      BY <2>2, <3>1, <3>3, ElectionAssumption, <1>t DEF HashOfServer, Never
    <3>5. OneAsks' BY <2>2, <3>1, <3>3, <3>4 DEF OneAsks
    <3> QED BY <3>2, <3>5
  <2> QED BY <2>1, <2>3, <2>4 DEF ElectionInv
<1>5. ASSUME NEW s \in Servers, JoinStatus(s) \/ JoinPid(s) PROVE ElectionInv'
  <2>1. /\ at[s] \in {"join", "joined"} /\ UNCHANGED <<age, launches, disturbed>>
        /\ \/ /\ at[s] = "join" /\ at' = [at EXCEPT ![s] = "joined"]
              /\ status' = "active" /\ pid' = pid
           \/ /\ at[s] = "joined" /\ at' = [at EXCEPT ![s] = "first"]
              /\ status' = status /\ pid' = s
    BY <1>5 DEF JoinStatus, JoinPid, Goto
  <2>2. ElectionTypeOK' BY <1>t, <2>1 DEF ElectionTypeOK, ElectionSteps
  <2>3. ASSUME ~disturbed PROVE OneAsks' /\ HashOfServer'
    <3>1. OneAsks /\ HashOfServer BY <2>3 DEF ElectionInv
    <3>2. \A t \in Servers \ {s} : at[t] = "off" BY <2>1, <3>1 DEF OneAsks, Asking
    <3>3. \A t \in Servers \ {s} : at'[t] = "off" BY <2>1, <3>2, <1>t
    <3> QED BY <2>1, <3>1, <3>3, <1>t DEF OneAsks, HashOfServer
  <2> QED BY <2>1, <2>2, <2>3 DEF ElectionInv
<1>6. ASSUME NEW s \in Servers, Ping(s) PROVE ElectionInv'
  <2>1. /\ at[s] \in {"first", "loop"} /\ at' = [at EXCEPT ![s] = "loop"]
        /\ age' = 0 /\ UNCHANGED <<status, pid, launches, disturbed>>
    BY <1>6 DEF Ping, Goto
  <2>2. ElectionTypeOK' BY <1>t, <2>1, ElectionAssumption DEF ElectionTypeOK, ElectionSteps, Never
  <2>3. at'[s] = "loop" /\ \A t \in Servers \ {s} : at'[t] = at[t] BY <2>1, <1>t
  <2>4. ASSUME ~disturbed PROVE OneAsks' /\ HashOfServer'
    <3>1. OneAsks /\ HashOfServer BY <2>4 DEF ElectionInv
    <3>2. OneAsks' BY <2>1, <2>3, <3>1 DEF OneAsks, Asking
    <3>3. HashOfServer' BY <2>1, <2>3, <3>1, ElectionAssumption DEF HashOfServer
    <3> QED BY <3>2, <3>3
  <2> QED BY <2>1, <2>2, <2>4 DEF ElectionInv
<1>7. ASSUME NEW s \in Servers, Shutdown(s) \/ Die(s) PROVE ElectionInv'
  <2>1. /\ at[s] # "off" /\ at' = [at EXCEPT ![s] = "off"] /\ UNCHANGED <<pid, age, launches, disturbed>>
        /\ status' = status \/ (Serving(s) /\ status' = "dead")
    BY <1>7 DEF Shutdown, Die, Goto, hashVars, Serving
  <2>2. ElectionTypeOK' BY <1>t, <2>1 DEF ElectionTypeOK, ElectionSteps
  <2>3. at'[s] = "off" /\ \A t \in Servers \ {s} : at'[t] = at[t] BY <2>1, <1>t
  <2>4. ASSUME ~disturbed PROVE OneAsks' /\ HashOfServer'
    <3>1. OneAsks /\ HashOfServer BY <2>4 DEF ElectionInv
    <3>2. OneAsks' BY <2>3, <3>1 DEF OneAsks
    <3>3. Serving(s) => \A t \in Servers \ {s} : at[t] \notin {"joined", "first", "loop"}
      BY <3>1 DEF OneAsks, Asking, Serving
    <3>4. HashOfServer' BY <2>1, <2>3, <3>1, <3>3 DEF HashOfServer
    <3> QED BY <3>2, <3>4
  <2> QED BY <2>1, <2>2, <2>4 DEF ElectionInv
<1>8. CASE TimePasses
  <2>1. UNCHANGED <<at, status, pid, launches>> BY <1>8 DEF TimePasses
  <2>2. /\ age' = IF age > PingTimeout THEN age ELSE age + 1
        /\ disturbed' = (disturbed \/ (age = PingTimeout /\ \E s \in Servers : Serving(s)))
    BY <1>8 DEF TimePasses
  <2>3. ElectionTypeOK'
    <3>1. age' \in 0..Never BY <1>t, <2>2, ElectionAssumption DEF Never
    <3>2. disturbed' \in BOOLEAN BY <2>2
    <3> QED BY <1>t, <2>1, <3>1, <3>2 DEF ElectionTypeOK
  <2>4. ASSUME ~disturbed' PROVE OneAsks' /\ HashOfServer'
    <3>1. ~disturbed /\ ~(age = PingTimeout /\ \E s \in Servers : Serving(s)) BY <2>2, <2>4
    <3>2. OneAsks /\ HashOfServer BY <3>1 DEF ElectionInv
    <3>3. OneAsks' BY <2>1, <3>2 DEF OneAsks
    <3>4. ASSUME NEW s \in Servers, at[s] = "loop" PROVE age' <= PingTimeout
      BY <1>t, <2>2, <3>1, <3>2, <3>4, ElectionAssumption DEF HashOfServer, Serving, Never
    <3>5. HashOfServer' BY <2>1, <3>2, <3>4 DEF HashOfServer
    <3> QED BY <3>3, <3>5
  <2> QED BY <2>3, <2>4 DEF ElectionInv
<1> QED BY <1>1, <1>2, <1>3, <1>4, <1>5, <1>6, <1>7, <1>8 DEF ElectionNext, Elect

\* Servers and the hash of the host hold what the code writes.
THEOREM ElectionTypeCorrect == ElectionSpec => []ElectionTypeOK
<1>1. ElectionSpec => []ElectionInv BY ElectionStarts, ElectionStep, PTL DEF ElectionSpec
<1>2. ElectionInv => ElectionTypeOK BY DEF ElectionInv
<1> QED BY <1>1, <1>2, PTL

\* Two servers serve the host only after an election was disturbed, whatever the
\* number of servers and the timeout.
THEOREM OnlyOneServer == ElectionSpec => []OneServer
<1>1. ElectionSpec => []ElectionInv BY ElectionStarts, ElectionStep, PTL DEF ElectionSpec
<1>2. ElectionInv => OneServer BY DEF ElectionInv, OneServer, OneAsks, Serving, Asking
<1> QED BY <1>1, <1>2, PTL
=============================================================================
