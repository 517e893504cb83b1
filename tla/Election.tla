------------------------------ MODULE Election -------------------------------
(***************************************************************************)
(* server.py: which of the servers that are started on one host goes on.   *)
(* They know of each other by the hash of the host's server only.  Every   *)
(* access to it is one step; what a server does between two pings, which   *)
(* may be to wait a minute for Matlab to start, takes any time.            *)
(***************************************************************************)
EXTENDS Naturals

CONSTANTS Servers,      \* processes that may run server.py
          PingTimeout,  \* timeout of is_another_server_alive, in ticks
          MaxLaunches   \* bound on the processes started and restarted

NoServer == "None"

ASSUME ElectionAssumption ==
  /\ NoServer \notin Servers
  /\ PingTimeout \in Nat \ {0}
  /\ MaxLaunches \in Nat

VARIABLES
  at,         \* step of each process
  status,     \* HGET server:host status
  pid,        \* HGET server:host pid
  age,        \* time since last_ping
  launches,   \* counter of what is bounded
  \* History, read by no action:
  disturbed   \* an election began during another, or before the first ping of a
              \* server, or a server was silent too long

hashVars == <<status, pid, age>>
electionVars == <<at, hashVars, launches, disturbed>>

Never == PingTimeout + 2   \* there is no last_ping; PingTimeout + 1 is too old
ElectionSteps == {"off", "status", "pid", "ping", "wait", "join", "joined", "first", "loop"}

\* Processes and hash hold what the code writes.
ElectionTypeOK ==
  /\ at \in [Servers -> ElectionSteps]
  /\ status \in {"none", "active", "starting", "dead"}
  /\ pid \in Servers \cup {NoServer}
  /\ age \in 0..Never
  /\ launches \in 0..MaxLaunches
  /\ disturbed \in BOOLEAN

ElectionInit ==
  /\ at = [s \in Servers |-> "off"]
  /\ status = "none" /\ pid = NoServer /\ age = Never
  /\ launches = 0
  /\ disturbed = FALSE

Goto(s, step) == at' = [at EXCEPT ![s] = step]
TooOld == age > PingTimeout

\* A process begins to run server.py, and its election.
Begin(s) ==
  /\ launches < MaxLaunches /\ launches' = launches + 1
  /\ LET others == {at[t] : t \in Servers \ {s}} IN
     disturbed' = (others # {"off"} /\ (disturbed \/ ~ others \subseteq {"off", "loop"}))
  /\ Goto(s, "status")

Launch(s) == at[s] = "off" /\ Begin(s) /\ UNCHANGED hashVars

-----------------------------------------------------------------------------
(* is_another_server_alive. *)

ReadStatus(s) ==
  /\ at[s] = "status"
  /\ Goto(s, IF status = "active" THEN "pid" ELSE "join")
  /\ UNCHANGED <<hashVars, launches, disturbed>>

ReadPid(s) ==
  /\ at[s] = "pid"
  /\ Goto(s, IF pid \in {NoServer, s} THEN "join" ELSE "ping")
  /\ UNCHANGED <<hashVars, launches, disturbed>>

ReadPing(s) ==
  /\ at[s] = "ping"
  /\ Goto(s, IF TooOld THEN "join" ELSE "wait")
  /\ UNCHANGED <<hashVars, launches, disturbed>>

\* The server waits no longer than the log says.
Wait_Once(s) ==
  /\ at[s] = "wait"
  /\ Goto(s, "join")
  /\ UNCHANGED <<hashVars, launches, disturbed>>

\* The status is looked at, which outlives its server.
Wait_Status(s) ==
  /\ at[s] = "wait" /\ status # "active"
  /\ Goto(s, "join")
  /\ UNCHANGED <<hashVars, launches, disturbed>>

\* The ping is read again and again until it is too old; it is never in the
\* future, as the loop would have it to end otherwise.
Wait(s) ==
  /\ at[s] = "wait" /\ TooOld
  /\ Goto(s, "join")
  /\ UNCHANGED <<hashVars, launches, disturbed>>

-----------------------------------------------------------------------------
(* server_join and the event loop. *)

JoinStatus(s) ==
  /\ at[s] = "join"
  /\ status' = "active"
  /\ Goto(s, "joined")
  /\ UNCHANGED <<pid, age, launches, disturbed>>

JoinPid(s) ==
  /\ at[s] = "joined"
  /\ pid' = s
  /\ Goto(s, "first")
  /\ UNCHANGED <<status, age, launches, disturbed>>

\* The end of a round of the loop; in the first one there was no ping yet.
Ping(s) ==
  /\ at[s] \in {"first", "loop"}
  /\ age' = 0
  /\ Goto(s, "loop")
  /\ UNCHANGED <<status, pid, launches, disturbed>>

\* The command 'restart_server': the new process is another one.
Restart(s) ==
  /\ at[s] \in {"first", "loop"}
  /\ status' = "starting"
  /\ Begin(s)
  /\ UNCHANGED <<pid, age>>

\* The command 'shutdown'.
Shutdown(s) ==
  /\ at[s] \in {"first", "loop"}
  /\ status' = "dead"
  /\ Goto(s, "off")
  /\ UNCHANGED <<pid, age, launches, disturbed>>

Die(s) ==
  /\ at[s] # "off"
  /\ Goto(s, "off")
  /\ UNCHANGED <<hashVars, launches, disturbed>>

Serving(s) == at[s] \in {"first", "loop"}

TimePasses ==
  /\ age' = IF age > PingTimeout THEN age ELSE age + 1
  /\ disturbed' = (disturbed \/ (age = PingTimeout /\ \E s \in Servers : Serving(s)))
  /\ UNCHANGED <<at, status, pid, launches>>

-----------------------------------------------------------------------------
Elect(s) == ReadStatus(s) \/ ReadPid(s) \/ ReadPing(s) \/ Wait(s) \/ JoinStatus(s) \/ JoinPid(s)

ElectionNext ==
  \/ \E s \in Servers :
       Launch(s) \/ Elect(s) \/ Ping(s) \/ Restart(s) \/ Shutdown(s) \/ Die(s)
  \/ TimePasses

\* A server goes on with its election and its loop, and time passes.
ElectionFairness == WF_electionVars(TimePasses) /\ \A s \in Servers : WF_electionVars(Elect(s)) /\ WF_electionVars(Ping(s))

ElectionSpec == ElectionInit /\ [][ElectionNext]_electionVars /\ ElectionFairness

-----------------------------------------------------------------------------
\* Two servers serve the host only after elections that overlapped, or that one
\* began before the first ping of the other, or after one kept silent too long.
OneServer ==
  ~disturbed => \A s, t \in Servers : Serving(s) /\ Serving(t) => s = t

Alone(s) == \A t \in Servers \ {s} : at[t] = "off"

\* A server that waits takes over when no other is left.
TakesOver ==
  \A s \in Servers :
    (at[s] = "wait" /\ Alone(s)) ~> (at[s] # "wait" \/ ~Alone(s))
=============================================================================
