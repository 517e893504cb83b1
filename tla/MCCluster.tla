------------------------------ MODULE MCCluster ------------------------------
(* Instances of Cluster for TLC. *)
EXTENDS Cluster, TLC

\* Workers are interchangeable, and so are operators.
Interchangeable == Permutations(Workers) \cup Permutations(Operators)

\* Bound on what there is at once: one task with several workers, or one worker
\* with several tasks.
Confined ==
  tasksCount' <= 1 \/ Cardinality({w \in Workers : pc'[w] # "down"}) <= 1
=============================================================================
