----------------------------- MODULE FramePool -----------------------------
(***************************************************************************)
(* What an application that draws relies on, on one graphics device: a     *)
(* connector has two buffers at most, which nobody else has and the GPU    *)
(* does not draw into; to draw on it, or to give its buffers back,         *)
(* disturbs no other connector; screens go back to what they showed once   *)
(* drawing is over.                                                        *)
(*                                                                         *)
(* After a call has failed, or a buffer has been given back twice, a       *)
(* connector may come to show the buffer of another one, or go dark when   *)
(* another one gives a buffer back.  Still no screen shows a buffer that   *)
(* nobody has.                                                             *)
(***************************************************************************)
CONSTANTS Connectors,\* connectors
          Bos,    \* buffers of the device's surface
          Dark    \* what a screen without a picture of the application shows

VARIABLES held,   \* held[c]: the buffers connector c has
          shown,  \* shown[c]: the buffer on its screen, or Dark
          broken, \* a call has failed, or a buffer was given back twice
          over    \* drawing is over

vars == <<held, shown, broken, over>>

Init ==
    /\ held = [c \in Connectors |-> {}] /\ shown = [c \in Connectors |-> Dark]
    /\ broken = FALSE /\ over = FALSE

Taken == UNION {held[c] : c \in Connectors}

\* A connector that has one buffer at most gets another that is free; what goes
\* with it may fail.
Lock(c) ==
    /\ ~over /\ \A x, y \in held[c] : x = y
    /\ \E bo \in Bos \ Taken : held' = [held EXCEPT ![c] = @ \cup {bo}]
    /\ broken' \in {broken, TRUE} /\ UNCHANGED <<shown, over>>

Flip(c) ==
    /\ ~over
    /\ \E bo \in IF broken THEN Taken ELSE held[c] : shown' = [shown EXCEPT ![c] = bo]
    /\ UNCHANGED <<held, broken, over>>

CallFails == broken' = TRUE /\ UNCHANGED <<held, shown, over>>

Darken(dark) == shown' = [e \in Connectors |-> IF e \in dark THEN Dark ELSE shown[e]]

\* A buffer is given back; the connector's own screen goes dark if it shows it,
\* and no other.
Release(c) == \E bo \in held[c] :
    /\ Darken({e \in {c} : shown[e] = bo})
    /\ held' = [held EXCEPT ![c] = @ \ {bo}] /\ UNCHANGED <<broken, over>>

\* Or else screens that show it, and perhaps others, go dark.
ReleaseBroken(c) ==
    /\ broken /\ UNCHANGED <<broken, over>>
    /\ \E bo \in held[c], dark \in SUBSET Connectors :
        /\ held' = [held EXCEPT ![c] = @ \ {bo}]
        /\ \A e \in Connectors : shown[e] = bo => e \in dark
        /\ Darken(dark)

\* What was given back is given back again.
ReleaseAgain ==
    /\ broken' = TRUE /\ UNCHANGED <<held, over>>
    /\ \E dark \in SUBSET Connectors : Darken(dark)

\* Where it can be done, screens show again what they did before.
Restore ==
    /\ ~over /\ over' = TRUE /\ broken' \in {broken, TRUE} /\ UNCHANGED held
    /\ \E dark \in SUBSET Connectors : Darken(dark)

Next ==
    \/ \E c \in Connectors : Lock(c) \/ Flip(c) \/ Release(c) \/ ReleaseBroken(c)
    \/ CallFails \/ ReleaseAgain \/ Restore

Spec == Init /\ [][Next]_vars
============================================================================
