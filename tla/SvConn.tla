------------------------------- MODULE SvConn -------------------------------
(***************************************************************************)
(* What Teave-sv promises on one connection: as long as it is open, every  *)
(* message gets one answer, on this connection and in the order of the     *)
(* messages.  The service may stop serving it at any time (another         *)
(* connection displaces it, the active process quits, the service ends);   *)
(* then no more answers follow, and those that were sent can be read.      *)
(***************************************************************************)
EXTENDS Sequences

CONSTANT Answers(_)   \* the responses a message may get

VARIABLES
    req,    \* messages of the client the service has not received
    res,    \* responses the client has not received
    open,   \* the service goes on serving the connection
    gone    \* the client has closed its end

vars == <<req, res, open, gone>>

Init == req = <<>> /\ res = <<>> /\ open = TRUE /\ gone = FALSE

\* The client sends, to a service that may have stopped to listen.
Send(m) ==
    /\ ~gone
    /\ req' = Append(req, m)
    /\ UNCHANGED <<res, open, gone>>

\* Mutant: what failed after the answer was sent is answered as well.
MutServe ==
    /\ open /\ req # <<>>
    /\ req' = Tail(req)
    /\ \E a, b \in Answers(Head(req)) : res' = IF gone THEN res ELSE res \o <<a, b>>
    /\ UNCHANGED <<open, gone>>

\* The service answers the oldest message, if there is still somebody there.
Serve ==
    /\ open /\ req # <<>>
    /\ req' = Tail(req)
    /\ \E a \in Answers(Head(req)) : res' = IF gone THEN res ELSE Append(res, a)
    /\ UNCHANGED <<open, gone>>

\* The service stops serving the connection, on account of its oldest message
\* or of something else, and at once or later closes its end.
Drop ==
    /\ open /\ open' = FALSE
    /\ \/ req' \in {req, <<>>}
       \/ req # <<>> /\ req' = Tail(req)
    /\ UNCHANGED <<res, gone>>

Forget ==
    /\ ~open /\ req' = <<>>
    /\ UNCHANGED <<res, open, gone>>

Read ==
    /\ res # <<>> /\ res' = Tail(res)
    /\ UNCHANGED <<req, open, gone>>

\* The client closes its end, with responses unread or not.
Leave ==
    /\ gone' = TRUE /\ res' = <<>>
    /\ UNCHANGED <<req, open>>

Next(Messages) ==
    \/ \E m \in Messages : Send(m)
    \/ Serve \/ Drop \/ Forget \/ Read \/ Leave

Spec(Messages) == Init /\ [][Next(Messages)]_vars
=============================================================================
