----------------------------- MODULE CardLease -----------------------------
(***************************************************************************)
(* What Teave-sv promises about graphics devices: one process at a time is *)
(* served; it gets access to cards one by one, keeps what it has for as    *)
(* long as it is served, and loses all of it in the step that ends its     *)
(* turn.  Only when the service is killed does access outlive the turn,    *)
(* and such a card is given to nobody until its user has closed it.        *)
(***************************************************************************)
CONSTANTS
    Preempt,   \* dev mode: every message starts a turn of its own
    Users, Cards, Nobody

VARIABLES
    holder,    \* the process being served
    table,     \* the cards opened for it
    access     \* who can program a card through a descriptor of the service

vars == <<holder, table, access>>

Init == holder = Nobody /\ table = {} /\ access = [k \in Cards |-> Nobody]

\* Access without that of a turn that ends.
Rest == [k \in Cards |-> IF k \in table THEN Nobody ELSE access[k]]

NewTurn == Preempt \/ holder = Nobody

\* A message of p is served, and gives it access to the cards of G, a single
\* one at most (or to none: its client may be gone when it is answered).
Serve(p, G) ==
    LET tableNow == IF NewTurn THEN {} ELSE table
        accessNow == IF NewTurn THEN Rest ELSE access
    IN  /\ Preempt \/ holder \in {Nobody, p}
        /\ holder' = p
        /\ table' = tableNow \cup G
        /\ \A k \in G : accessNow[k] = Nobody
        /\ \E got \in {p, Nobody} :
            access' = [k \in Cards |-> IF k \in G THEN got ELSE accessNow[k]]

EndTurn == holder' = Nobody /\ table' = {} /\ access' = Rest

Crash == holder' = Nobody /\ table' = {} /\ access' = access

\* Users close their descriptors, or exit.
Close(G) ==
    /\ access' = [k \in Cards |-> IF k \in G THEN Nobody ELSE access[k]]
    /\ UNCHANGED <<holder, table>>

Next ==
    \/ \E p \in Users : \E G \in {{}} \cup {{k} : k \in Cards} : Serve(p, G)
    \/ EndTurn \/ Crash
    \/ \E G \in SUBSET Cards : Close(G)

Spec == Init /\ [][Next]_vars
============================================================================
