------------------------------ MODULE SvClient ------------------------------
(***************************************************************************)
(* A client of Teave-sv: an application that asks for devices through an   *)
(* Sva (src/teave/sv), over a socket of finite buffers (src/teave/socket), *)
(* from a service that does what SvConn says of a connection.              *)
(*                                                                         *)
(* A request is a send and a blocking recvmsg, and nothing but the path    *)
(* ties the response to the request.  The application's signal handlers    *)
(* run while it waits, and may or may not make recvmsg fail: setup_signals *)
(* leaves sa_flags, and with it SA_RESTART, uninitialized.  The response   *)
(* to a call that failed so is read by the next one.                       *)
(***************************************************************************)
EXTENDS Integers, Sequences

CONSTANTS
    Paths,       \* paths of devices
    Capacity,    \* messages the kernel holds for the reader, in each direction
    MaxSent,     \* bound: messages sent
    Quit,        \* the call that is not answered, Sv::req_quit
    Junk         \* the content of a message buffer never written

ASSUME CapacityAssumption == Capacity \in Nat \ {0}
ASSUME MaxSentAssumption == MaxSent \in Nat
ASSUME NamesAssumption == Quit \notin Paths /\ Junk \notin Paths

VARIABLES
    req, res, open, gone,   \* the connection, see SvConn
    st,         \* "idle", "sending" or "waiting"
    call,       \* what is asked for: a path, or Quit
    sent,       \* history: messages sent; a message's number is its place
    abandoned,  \* history: messages sent nobody waited to see answered
    leaked,     \* history: descriptors received and neither returned nor closed
    got         \* history: the last call that returned a descriptor, the
                \* message it sent and the message the descriptor answers

link == <<req, res, open, gone>>
vars == <<link, st, call, sent, abandoned, leaked, got>>

\* Mutant: a response of no code.
MutAnswers(m) == [code : {"none"}, path : {m.path}, answers : {m.number}]

\* A response repeats the path, or (Mgr::res_err) has an unwritten buffer with
\* whatever was there before.  It has no number: answers is history, too.
Answers(m) ==
    [code : {"fd_res", "err_res"}, path : {m.path}, answers : {m.number}]
    \cup [code : {"err_res"}, path : Paths \cup {Junk}, answers : {m.number}]

Link == INSTANCE SvConn

Init ==
    /\ Link!Init
    /\ st = "idle" /\ call = Quit
    /\ sent = 0 /\ abandoned = 0 /\ leaked = 0
    /\ got = [message |-> 0, answers |-> 0]

----------------------------------------------------------------------------
(* The socket and the service.                                              *)

\* The service, one thread, waits in the send of its answer to the oldest
\* message, which it has taken from its buffer.
Blocked == open /\ ~gone /\ req # <<>> /\ Len(res) = Capacity

\* The client's send finds room.
Room == Len(req) < Capacity + (IF Blocked THEN 1 ELSE 0)

\* The service answers, or closes what it has dropped.
Answer ==
    /\ ~Blocked
    /\ Link!Serve \/ Link!Forget
    /\ UNCHANGED <<st, call, sent, abandoned, leaked, got>>

\* The service drops the connection, or is killed.
Lose == Link!Drop /\ UNCHANGED <<st, call, sent, abandoned, leaked, got>>

----------------------------------------------------------------------------
(* The application.                                                         *)

Begin(c) ==
    /\ st = "idle" /\ ~gone /\ sent < MaxSent
    /\ st' = "sending" /\ call' = c
    /\ UNCHANGED <<link, sent, abandoned, leaked, got>>

\* The message is on its way; a quit request does not wait.
Send ==
    /\ st = "sending" /\ ~gone /\ Room
    /\ Link!Send([path |-> IF call = Quit THEN Junk ELSE call, number |-> sent + 1])
    /\ sent' = sent + 1
    /\ IF call = Quit
       THEN st' = "idle" /\ abandoned' = abandoned + 1
       ELSE st' = "waiting" /\ abandoned' = abandoned
    /\ UNCHANGED <<call, leaked, got>>

\* The call is over and leaves no trace but an exception.
Throws == st' = "idle" /\ UNCHANGED <<call, sent, leaked, got>>

\* The service has closed its end, or a signal handler ran while there was no
\* room: send_msg throws.
SendFails ==
    /\ st = "sending"
    /\ ~open \/ ~Room
    /\ Throws /\ UNCHANGED <<link, abandoned>>

\* Mutant: the client goes on waiting when there is nothing left to read.
MutReceiveEnd == FALSE /\ UNCHANGED vars

\* recvmsg returns 0 or fails: the service has closed its end.
ReceiveEnd ==
    /\ st = "waiting" /\ ~open /\ req = <<>> /\ res = <<>>
    /\ Throws /\ UNCHANGED <<link, abandoned>>

\* A signal handler ran while the client waited and recvmsg fails: what was
\* asked for stays asked for.
Interrupted ==
    /\ st = "waiting" /\ res = <<>>
    /\ Throws /\ abandoned' = abandoned + 1 /\ UNCHANGED link

\* The client reads a response, with its descriptor.  If the path is another it
\* throws, and nobody knows the descriptor any more; this check comes first.
Receive ==
    /\ st = "waiting" /\ res # <<>> /\ Link!Read
    /\ st' = "idle"
    /\ LET r == Head(res)
       IN  IF r.code = "err_res" THEN UNCHANGED <<leaked, got>>
           ELSE IF r.path = call THEN /\ got' = [message |-> sent, answers |-> r.answers]
                                     /\ UNCHANGED leaked
           ELSE leaked' = leaked + 1 /\ UNCHANGED got
    /\ UNCHANGED <<call, sent, abandoned>>

\* ~Socket, or the end of the application, also that by the SIGPIPE of a send
\* to a service that is gone.
Leave ==
    /\ ~gone /\ Link!Leave
    /\ st' = "idle"
    /\ UNCHANGED <<call, sent, abandoned, leaked, got>>

Client == Send \/ ReceiveEnd \/ Receive

Next ==
    \/ Answer \/ Lose \/ Client
    \/ \E c \in Paths \cup {Quit} : Begin(c)
    \/ SendFails \/ Interrupted \/ Leave

Spec == Init /\ [][Next]_vars

\* The service answers, unless it waits for this client; the client's thread
\* runs when its system call can return.
Fairness == WF_vars(Answer) /\ WF_vars(Client)

FairSpec == Spec /\ Fairness
----------------------------------------------------------------------------
Waiting == IF st = "waiting" THEN 1 ELSE 0

\* Messages of the client and responses of the service.
Sent == [path : Paths \cup {Junk}, number : 1..MaxSent]
Responses == [code : {"fd_res", "err_res"}, path : Paths \cup {Junk}, answers : 1..MaxSent]

\* The type of every variable.
TypeOK ==
    /\ req \in Seq(Sent) /\ res \in Seq(Responses)
    /\ open \in BOOLEAN /\ gone \in BOOLEAN
    /\ st \in {"idle", "sending", "waiting"} /\ call \in Paths \cup {Quit}
    /\ sent \in 0..MaxSent /\ abandoned \in 0..MaxSent /\ leaked \in 0..MaxSent
    /\ got \in [message : 0..MaxSent, answers : 0..MaxSent]

\* After n calls nobody waited for, every call reads the response to the n-th
\* message before its own: a client that was interrupted once never gets in
\* step again, and none of its responses is lost or read twice (Sva::req_fd).
Skew ==
    /\ \A i \in 1..Len(res) : res[i].answers = sent - abandoned - Waiting + i
    /\ open /\ ~gone => Len(res) + Len(req) = abandoned + Waiting

\* A client that waits for every call gets the descriptor it asked for, and
\* loses none, whatever the buffers of refusals have in them and whenever the
\* connection is dropped (the path check of Sva::req_fd never fires on fd_res).
SoundUntilAbandoned == abandoned = 0 => leaked = 0 /\ got.message = got.answers

\* The service never waits for a client that reads: it is stuck only behind
\* more abandoned calls than the client's buffer has room for (socket.cpp:93).
ServiceFree == Blocked /\ st # "waiting" => abandoned > Capacity

\* Every call ends, unless the client has abandoned so many that both buffers
\* are full of them: then each waits for the other to read (socket.cpp:93).
CallEnds == (st # "idle" /\ abandoned <= 2 * Capacity) ~> (st = "idle")
=============================================================================
