------------------------------ MODULE TaskGate ------------------------------
(***************************************************************************)
(* What the cluster promises about requirements, without lists, workers or *)
(* clients: a task is started only when it is open, and it is opened when  *)
(* all its requirements are settled, or by an operator.                    *)
(***************************************************************************)
EXTENDS FiniteSets

CONSTANTS Task,
          MayOverride   \* whether there are operators who ask for anything

VARIABLES required,    \* requirements of each task
          created,     \* tasks added
          open,        \* tasks let past their requirements
          started,     \* tasks that ran at least once
          settled,     \* tasks whose dependents may go
          overridden   \* tasks an operator decided about

vars == <<required, created, open, started, settled, overridden>>

Init ==
  /\ required = [t \in Task |-> {}]
  /\ created = {}
  /\ open = {}
  /\ started = {}
  /\ settled = {}
  /\ overridden = {}

\* A task is added; it may be open at once if nothing is left to wait for.
Create(t, R, now) ==
  /\ t \in Task \ created
  /\ R \subseteq created
  /\ now => R \subseteq settled
  /\ created' = created \cup {t}
  /\ required' = [required EXCEPT ![t] = R]
  /\ open' = IF now THEN open \cup {t} ELSE open
  /\ UNCHANGED <<started, settled, overridden>>

Open(T) ==
  /\ T \subseteq created
  /\ \A t \in T : required[t] \subseteq settled
  /\ open' = open \cup T
  /\ UNCHANGED <<required, created, started, settled, overridden>>

Start(t) ==
  /\ t \in open
  /\ started' = started \cup {t}
  /\ UNCHANGED <<required, created, open, settled, overridden>>

Settle(t, override) ==
  /\ t \in started
  /\ override => MayOverride
  /\ settled' = settled \cup {t}
  /\ overridden' = IF override THEN overridden \cup {t} ELSE overridden
  /\ UNCHANGED <<required, created, open, started>>

\* An operator decides about the tasks of T and lets those of O past.
Override(T, O) ==
  /\ MayOverride
  /\ T \subseteq created /\ O \subseteq T
  /\ overridden' = overridden \cup T
  /\ open' = open \cup O
  /\ UNCHANGED <<required, created, started, settled>>

Next ==
  \/ \E t \in Task, R \in SUBSET created, now \in BOOLEAN : Create(t, R, now)
  \/ \E T \in SUBSET created : Open(T)
  \/ \E t \in open : Start(t)
  \/ \E t \in started, override \in BOOLEAN : Settle(t, override)
  \/ \E T \in SUBSET created : \E O \in SUBSET T : Override(T, O)

Spec == Init /\ [][Next]_vars
=============================================================================
