------------------------------ MODULE TtyStack ------------------------------
(***************************************************************************)
(* What applications rely on for one terminal: they stack.  One that comes *)
(* finds the screen as the console or the one before it has it; only the   *)
(* one on top changes the terminal; and one that leaves, whether it had    *)
(* the screen or its start failed, gives the screen back to the one        *)
(* beneath it, or the whole terminal to the console if there is none.      *)
(*                                                                         *)
(* Not all is given back.  Who has had the screen may stay the one that is *)
(* asked before a switch, and the keys may be left to the console; and if  *)
(* such a one exits, the kernel takes the screen from whoever has it.      *)
(*                                                                         *)
(* A crash spoils all that, and so do two that come or go at the same      *)
(* time, or one that leaves from under another.  Nobody spoils a terminal  *)
(* nobody is on, and one that is spoilt may come back to the console.      *)
(***************************************************************************)
CONSTANTS Users,  \* applications
          Nobody

VARIABLES beneath, \* beneath[u], for each u on the terminal: those it came on top of
          look,    \* the screen: "console", "drawn" (an application's) or "moving" between
          asked,   \* who is asked before a switch
          keys,    \* "off", or the "console" hears them
          left,    \* left[u], for each u on the terminal: who has had the screen over it
          gone,    \* those that have exited
          spoilt   \* nothing is promised any more

vars == <<beneath, look, asked, keys, left, gone, spoilt>>

Init ==
    /\ beneath = [u \in {} |-> {}] /\ left = [u \in {} |-> {}]
    /\ look = "console" /\ asked = Nobody /\ keys = "console"
    /\ gone = {} /\ spoilt = FALSE

There == DOMAIN beneath
Top(u) == u \in There /\ \A w \in There : u \notin beneath[w]
JustBeneath(w, u) == w \in beneath[u] /\ \A x \in beneath[u] : w \notin beneath[x]

\* Nobody who has had the screen over u has exited.
Whole(u) == left[u] \cap gone = {}
\* u has come on top of one whose screen nobody can take.
Safe(u) == Whole(u) /\ \E w \in There : JustBeneath(w, u) /\ Whole(w)

Arrive(u) ==
    /\ ~spoilt /\ u \notin There
    /\ There = {} => look = "console"
    /\ \A w \in There : Top(w) /\ Whole(w) => look = "drawn"
    /\ beneath' = [w \in There \cup {u} |-> IF w = u THEN There ELSE beneath[w]]
    /\ left' = [w \in There \cup {u} |-> IF w = u THEN {} ELSE left[w]]
    /\ UNCHANGED <<look, asked, keys, gone, spoilt>>

Draw(u) ==
    /\ ~spoilt /\ Top(u)
    /\ Whole(u) => look' \in {"moving", "drawn"}
    /\ Safe(u) => look' = "drawn"
    /\ asked' \in {asked, u} \/ (asked' = Nobody /\ ~Safe(u))
    /\ keys' \in {"off", "console"}
    /\ UNCHANGED <<beneath, left, gone, spoilt>>

\* u goes, and what is promised to the one it gives the terminal to.
GiveBack(u) ==
    /\ ~spoilt /\ Top(u) /\ UNCHANGED <<gone, spoilt>>
    /\ beneath' = [w \in There \ {u} |-> beneath[w]]
    /\ There = {u} => look' = "console" /\ asked' = Nobody /\ keys' = "console"
    /\ \A w \in There : JustBeneath(w, u) =>
        /\ Whole(w) => look' = "drawn" /\ asked' \in left'[w] \cup {w}
        /\ left'[w] = {} => asked' = w /\ keys' = "off"

Leave(u) ==
    /\ GiveBack(u)
    /\ left' = [w \in There \ {u} |-> left[w] \cup {u}]

\* Its start has failed: it has never had the screen.
Fail(u) ==
    /\ GiveBack(u)
    /\ left' = [w \in There \ {u} |-> left[w]] /\ UNCHANGED <<look, asked, keys>>

Exit(u) ==
    /\ u \notin There /\ gone' = gone \cup {u}
    /\ UNCHANGED <<beneath, look, asked, keys, left, spoilt>>

\* The kernel switches without asking, and gives the screen to the console.
Take ==
    /\ asked \in gone /\ look' = "console" /\ asked' = Nobody /\ keys' \in {keys, "console"}
    /\ UNCHANGED <<beneath, left, gone, spoilt>>

\* Once it is spoilt, anything may be the case.
Spoil == (There # {} \/ spoilt) /\ spoilt' = TRUE

Recover ==
    /\ spoilt /\ spoilt' = FALSE
    /\ There' = {} /\ look' = "console" /\ asked' = Nobody /\ keys' = "console"

Next ==
    \/ \E u \in Users : Arrive(u) \/ Draw(u) \/ Leave(u) \/ Fail(u) \/ Exit(u)
    \/ Take \/ Spoil \/ Recover

Spec == Init /\ [][Next]_vars
=============================================================================
