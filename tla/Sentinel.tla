------------------------------ MODULE Sentinel ------------------------------
(***************************************************************************)
(* redis/sentinel.py: the connection pool of a service that sentinels      *)
(* watch, used by threads that write to its master, or read from a slave.  *)
(* The sentinels and the nodes of the service are outside the code: there  *)
(* are failovers, which the sentinels learn of one after the other, and    *)
(* the old master some time later.                                         *)
(***************************************************************************)
EXTENDS Integers, Sequences, FiniteSets, Functions

CONSTANTS Callers, Sentinels, Nodes,
          InitialList,     \* the list given to class Sentinel
          InitialMaster,
          MaxFailovers,    \* bound on the failovers
          MaxFaults        \* bound on sentinels that fail and connections refused

ASSUME SentinelAssumption ==
  /\ InitialMaster \in Nodes /\ IsFiniteSet(Nodes)
  /\ InitialList \in Seq(Sentinels) /\ Range(InitialList) = Sentinels
  /\ {MaxFailovers, MaxFaults} \subseteq Nat

VARIABLES
  is_master,  \* whether the pool is for the master or for slaves
  sentinels,  \* list of class Sentinel, the one to ask first at its head
  address,    \* master_address of the pool
  idle,       \* connections in the pool, the one used last at the end
  rr,         \* slave_rr_counter
  caller,     \* step of each thread, and what it holds
  up,         \* sentinels that answer, and whose answer counts
  view,       \* the master that each sentinel knows of
  master,     \* the master
  writable,   \* nodes that take writes: the master, and one not yet demoted
  failovers, faults   \* counters of what is bounded

clientVars == <<sentinels, address, idle, rr, caller>>
serviceVars == <<up, view, master, writable, failovers>>
sentinelVars == <<is_master, clientVars, serviceVars, faults>>

NoNode == "none"
NoCounter == -1

\* is_master for the pools that master_for and slave_for make.
Pools == BOOLEAN
NoConnection == [to |-> NoNode, open |-> FALSE]
CallSteps == {"idle", "ask", "swap", "set", "flush", "slaves", "rotate", "pick", "connect", "use", "put"}

\* no is the place in the list of the sentinel asked, said its answer; left are
\* the slaves that rotate_slaves has still to try.
NoCall == [at |-> "idle", conn |-> NoConnection, no |-> 1, sentinel |-> NoNode,
           said |-> NoNode, slaves |-> <<>>, left |-> 0]

\* The pool, the threads and the service hold what the code writes.
SentinelTypeOK ==
  /\ is_master \in Pools
  /\ sentinels \in Seq(Sentinels) /\ Len(sentinels) = Len(InitialList)
  /\ address \in Nodes \cup {NoNode}
  /\ \A i \in DOMAIN idle : idle[i] \in [to : Nodes \cup {NoNode}, open : BOOLEAN]
  /\ rr \in {NoCounter} \cup 0..Cardinality(Nodes)
  /\ \A t \in Callers : /\ caller[t].at \in CallSteps
                        /\ caller[t].said \in Nodes \cup {NoNode}
                        /\ Range(caller[t].slaves) \subseteq Nodes
  /\ up \subseteq Sentinels
  /\ view \in [Sentinels -> Nodes]
  /\ master \in writable /\ writable \subseteq Nodes

\* reset() of a new pool.
NewSentinelPool == idle = <<>> /\ address = NoNode /\ rr = NoCounter

SentinelInit ==
  /\ is_master \in Pools
  /\ sentinels = InitialList
  /\ NewSentinelPool
  /\ caller = [t \in Callers |-> NoCall]
  /\ up = Sentinels
  /\ view = [s \in Sentinels |-> InitialMaster]
  /\ master = InitialMaster /\ writable = {InitialMaster}
  /\ failovers = 0 /\ faults = 0

-----------------------------------------------------------------------------
Doing(t, step) == caller[t].at = step
GoOn(t, step) == caller' = [caller EXCEPT ![t].at = step]

\* The thread goes on with a connection, and what it found out is forgotten.
With(t, step, conn) == [caller EXCEPT ![t] = [NoCall EXCEPT !.at = step, !.conn = conn]]
Fault == faults < MaxFaults /\ faults' = faults + 1

\* A thread gets a connection from the pool, which connects if it is not.
GetConnection(t) ==
  LET conn == IF idle = <<>> THEN NoConnection ELSE idle[Len(idle)] IN
  /\ Doing(t, "idle")
  /\ idle' = IF idle = <<>> THEN idle ELSE SubSeq(idle, 1, Len(idle) - 1)
  /\ caller' = [caller EXCEPT ![t].conn = conn,
                  ![t].at = IF conn.open THEN "use" ELSE IF is_master THEN "ask" ELSE "slaves"]
  /\ UNCHANGED <<sentinels, address, rr, faults>>

-----------------------------------------------------------------------------
(* discover_master and get_master_address. *)

\* check_master_state: a sentinel does not count that sees the master down, or too
\* few other sentinels; here it is not up either.
Answers(s) == s \in up

\* The next sentinel is asked. If none is left, MasterNotFoundError is raised.
Ask(t) ==
  LET no == caller[t].no IN
  /\ Doing(t, "ask")
  /\ caller' = IF no > Len(sentinels) THEN With(t, "put", caller[t].conn)
               ELSE IF Answers(sentinels[no])
               THEN [caller EXCEPT ![t].at = "swap", ![t].sentinel = sentinels[no],
                                   ![t].said = view[sentinels[no]]]
               ELSE [caller EXCEPT ![t].no = no + 1]
  /\ UNCHANGED <<sentinels, address, idle, rr, faults>>

\* The one that answered changes places with the first of the list, whatever the
\* list has become since.
Swap(t) ==
  /\ Doing(t, "swap")
  /\ sentinels' = [sentinels EXCEPT ![1] = caller[t].sentinel, ![caller[t].no] = sentinels[1]]
  /\ caller' = [caller EXCEPT ![t].at = IF is_master THEN "set" ELSE "connect",
                              ![t].sentinel = NoNode, ![t].no = 1]
  /\ UNCHANGED <<address, idle, rr, faults>>

\* Another master is noted first, and idle connections are disconnected then.
SetAddress(t) ==
  /\ Doing(t, "set")
  /\ address' = caller[t].said
  /\ GoOn(t, IF address = caller[t].said THEN "connect" ELSE "flush")
  /\ UNCHANGED <<sentinels, idle, rr, faults>>

Flush(t) ==
  /\ Doing(t, "flush")
  /\ idle' = [i \in DOMAIN idle |-> [idle[i] EXCEPT !.open = FALSE]]
  /\ GoOn(t, "connect")
  /\ UNCHANGED <<sentinels, address, rr, faults>>

-----------------------------------------------------------------------------
(* discover_slaves and rotate_slaves. *)

\* filter_slaves: what a sentinel that answers says of the slaves, or nothing if
\* it sees none alive.
AliveSlaves(s) ==
  UNION {{q \in [1..k -> Nodes \ {view[s]}] : IsInjective(q)} : k \in 0..(Cardinality(Nodes) - 1)}

\* Without slaves there is no connection.
AskForSlaves_Raises(t) ==
  LET no == caller[t].no IN
  /\ Doing(t, "slaves")
  /\ IF no > Len(sentinels) THEN caller' = With(t, "put", caller[t].conn)
     ELSE \E q \in IF sentinels[no] \in up THEN AliveSlaves(sentinels[no]) ELSE {<<>>} :
            caller' = IF q = <<>> THEN [caller EXCEPT ![t].no = no + 1]
                      ELSE [caller EXCEPT ![t].at = "rotate", ![t].no = 1,
                                          ![t].slaves = q, ![t].left = Len(q)]
  /\ UNCHANGED <<sentinels, address, idle, rr, faults>>

AskForSlaves(t) ==
  LET no == caller[t].no IN
  /\ Doing(t, "slaves")
  /\ IF no > Len(sentinels) THEN caller' = [caller EXCEPT ![t].at = "ask", ![t].no = 1]
     ELSE \E q \in IF sentinels[no] \in up THEN AliveSlaves(sentinels[no]) ELSE {<<>>} :
            caller' = IF q = <<>> THEN [caller EXCEPT ![t].no = no + 1]
                      ELSE [caller EXCEPT ![t].at = "rotate", ![t].no = 1,
                                          ![t].slaves = q, ![t].left = Len(q)]
  /\ UNCHANGED <<sentinels, address, idle, rr, faults>>

\* The counter of the pool, which all threads share, begins anywhere and goes on;
\* after the last slave, the master is tried.
Rotate(t) ==
  /\ Doing(t, "rotate")
  /\ IF caller[t].left = 0
     THEN caller' = With(t, "ask", caller[t].conn) /\ UNCHANGED rr
     ELSE /\ \E r \in IF rr = NoCounter THEN DOMAIN caller[t].slaves ELSE {rr} :
               rr' = (r + 1) % Len(caller[t].slaves)
          /\ caller' = [caller EXCEPT ![t].at = "pick", ![t].left = @ - 1]
  /\ UNCHANGED <<sentinels, address, idle, faults>>

\* The counter is read again. Another thread that has a longer list may have
\* moved it beyond this one, which is an IndexError.
Pick(t) ==
  /\ Doing(t, "pick")
  /\ caller' = IF rr < Len(caller[t].slaves)
               THEN [caller EXCEPT ![t].at = "connect", ![t].said = caller[t].slaves[rr + 1]]
               ELSE With(t, "put", caller[t].conn)
  /\ UNCHANGED <<sentinels, address, idle, rr, faults>>

-----------------------------------------------------------------------------
(* SentinelManagedConnection. *)

Connect(t) ==
  /\ Doing(t, "connect")
  /\ caller' = With(t, "use", [to |-> caller[t].said, open |-> TRUE])
  /\ UNCHANGED <<sentinels, address, idle, rr, faults>>

\* A slave that refuses, but not one that times out, is followed by the next one.
ConnectFails(t) ==
  LET conn == [to |-> caller[t].said, open |-> FALSE] IN
  /\ Doing(t, "connect") /\ Fault
  /\ \/ caller' = With(t, "put", conn)
     \/ /\ ~is_master /\ caller[t].slaves # <<>>
        /\ caller' = [caller EXCEPT ![t].at = "rotate", ![t].conn = conn]
  /\ UNCHANGED <<sentinels, address, idle, rr>>

\* ReadOnlyError is raised like any other answer.
Use_Keeps(t) ==
  /\ Doing(t, "use")
  /\ GoOn(t, "put")
  /\ UNCHANGED <<sentinels, address, idle, rr, faults>>

\* The thread reads, or writes; a node that is not the master any more says so,
\* and is disconnected from.
Use(t) ==
  /\ Doing(t, "use")
  /\ caller' = [caller EXCEPT ![t].at = "put",
                  ![t].conn.open = ~is_master \/ caller[t].conn.to \in writable]
  /\ UNCHANGED <<sentinels, address, idle, rr, faults>>

\* Redis closes the connection in use.
UseFails(t) ==
  /\ Doing(t, "use") /\ Fault
  /\ caller' = [caller EXCEPT ![t].at = "put", ![t].conn.open = FALSE]
  /\ UNCHANGED <<sentinels, address, idle, rr>>

\* Every connection is kept.
Release_All(t) ==
  /\ Doing(t, "put")
  /\ idle' = Append(idle, caller[t].conn)
  /\ caller' = [caller EXCEPT ![t] = NoCall]
  /\ UNCHANGED <<sentinels, address, rr, faults>>

\* release, with owns_connection under its lock: a connection that is not to the
\* master that is known is dropped, and so is one that never was to any: its host
\* and port are the default ones.
Release(t) ==
  LET conn == caller[t].conn IN
  /\ Doing(t, "put")
  /\ idle' = IF is_master /\ conn.to \in {NoNode} \cup (Nodes \ {address})
             THEN idle ELSE Append(idle, conn)
  /\ caller' = [caller EXCEPT ![t] = NoCall]
  /\ UNCHANGED <<sentinels, address, rr, faults>>

-----------------------------------------------------------------------------
(* The service. *)

\* The sentinels make another node the master; one of them knows it at once.
Failover(n, s) ==
  /\ failovers < MaxFailovers /\ failovers' = failovers + 1
  /\ n # master /\ s \in up
  /\ master' = n /\ writable' = writable \cup {n}
  /\ view' = [view EXCEPT ![s] = n]
  /\ UNCHANGED up

Learn(s) ==
  /\ s \in up /\ view[s] # master
  /\ view' = [view EXCEPT ![s] = master]
  /\ UNCHANGED <<up, master, writable, failovers>>

Demote(n) ==
  /\ n \in writable \ {master}
  /\ writable' = writable \ {n}
  /\ UNCHANGED <<up, view, master, failovers>>

Fails(s) == s \in up /\ up' = up \ {s} /\ UNCHANGED <<view, master, writable, failovers>>
Recovers(s) == s \notin up /\ up' = up \cup {s} /\ UNCHANGED <<view, master, writable, failovers>>

-----------------------------------------------------------------------------
ClientStep(t) ==
  \/ GetConnection(t) \/ Ask(t) \/ Swap(t) \/ SetAddress(t) \/ Flush(t)
  \/ AskForSlaves(t) \/ Rotate(t) \/ Pick(t)
  \/ Connect(t) \/ Use(t) \/ Release(t)

ServiceStep == \E s \in Sentinels : Learn(s) \/ Recovers(s) \/ \E n \in Nodes : Demote(n)

SentinelNext ==
  \/ /\ \E t \in Callers : ClientStep(t) \/ ConnectFails(t) \/ UseFails(t)
     /\ UNCHANGED <<is_master, serviceVars>>
  \/ /\ ServiceStep \/ \E n \in Nodes, s \in Sentinels : Failover(n, s)
     /\ UNCHANGED <<is_master, clientVars, faults>>
  \/ \E s \in Sentinels : Fails(s) /\ Fault /\ UNCHANGED <<is_master, clientVars>>

\* Threads go on, sentinels come back and learn, an old master is demoted.
SentinelFairness ==
  /\ \A t \in Callers : WF_sentinelVars(ClientStep(t) /\ UNCHANGED <<is_master, serviceVars>>)
  /\ WF_sentinelVars(ServiceStep /\ UNCHANGED <<is_master, clientVars, faults>>)

SentinelSpec == SentinelInit /\ [][SentinelNext]_sentinelVars /\ SentinelFairness

-----------------------------------------------------------------------------
\* A connection in the pool is to the master that the pool knows of, unless a
\* thread has just noted another one and is about to disconnect what is idle.
IdleIsCurrent ==
  is_master /\ (\A t \in Callers : ~Doing(t, "flush"))
    => \A i \in DOMAIN idle : idle[i].open => idle[i].to = address

\* Once failovers are over, writes go to the master and to no other node.
WritesReachTheMaster ==
  <>[](is_master => \A t \in Callers : Doing(t, "use") => caller[t].conn.to = master)

\* A thread that goes on trying has a connection to use again and again.
ConnectsAgain == \A t \in Callers : []<>Doing(t, "use")
=============================================================================
