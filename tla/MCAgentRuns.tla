----------------------------- MODULE MCAgentRuns -----------------------------
(* Instances of AgentRuns for TLC. *)
EXTENDS AgentRuns, TLC

CONSTANTS p1, p2, t1, t2, t3

\* Processes and task slots are interchangeable: no definition tells them apart.
Symmetry == Permutations(Procs) \cup Permutations(Tasks)
=============================================================================
