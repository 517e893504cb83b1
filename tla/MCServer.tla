------------------------------ MODULE MCServer ------------------------------
(* Instances of Server for TLC. *)
EXTENDS Server, TLC

\* Nothing happens to the server and nobody commands it.
Quiet == [operations |-> {}, tasks |-> 1, starts |-> 1, commands |-> 0,
          crashes |-> 0, deaths |-> 0, late |-> FALSE]

\* Processes crash; commands are sent, and a process crashes; the server dies, and
\* processes may be late.
Crashing == [Quiet EXCEPT !.tasks = 2, !.starts = 3, !.crashes = 2]
Commanded == [Quiet EXCEPT !.operations = {"restart", "kill", "shutdown", "restart_server"},
                           !.starts = 4, !.commands = 2, !.crashes = 1]
Late == [Quiet EXCEPT !.starts = 2, !.deaths = 1, !.late = TRUE]

MCScenarios == {Crashing, Commanded, Late}
OneCrash == {[Quiet EXCEPT !.starts = 2, !.crashes = 1]}
=============================================================================
