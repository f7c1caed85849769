------------------------------- MODULE MCTty -------------------------------
(* Instances of Tty for TLC: applications and terminals are interchangeable. *)
EXTENDS Tty, TLC

CONSTANTS a1, a2, a3, v1, v2

Interchangeable == Permutations(Apps) \cup Permutations(Vts)

\* Nothing is claimed of a terminal once its Ttys are entangled, and what comes
\* after that is not explored.
Untangled == \A v \in Vts : spoilt[v] # "entangled"
============================================================================
