----------------------------- MODULE MCTeaveSv -----------------------------
(* Instances of TeaveSv for TLC: values a cfg cannot write, and symmetry.   *)
EXTENDS TeaveSv, TLC

CONSTANTS tty, input

\* One request of a device in a slot of its own, one of a device in a map.
VtReq == {[code |-> "vt", path |-> tty]}
InputReq == {[code |-> "idev", path |-> input]}
NoReq == {}

Symmetry == Permutations(Conns) \cup Permutations(Procs)
============================================================================
