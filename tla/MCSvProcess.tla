---------------------------- MODULE MCSvProcess ----------------------------
(* Instances of SvProcess for TLC. *)
EXTENDS SvProcess

CONSTANTS i1, i2
============================================================================
