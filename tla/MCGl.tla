-------------------------------- MODULE MCGl --------------------------------
(* Instances of Gl for TLC. *)
EXTENDS Gl

\* A device with two screens and one with none connected to its crtcs.
TwoAndNone == <<2, 0>>

\* Bound: an application that goes on drawing meets a failing call or suspends an
\* old drm_id, not both.
OneTrouble == phase = "ready" => ~(failed /\ \E d \in Devs : strayed[d])
============================================================================
