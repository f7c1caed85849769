------------------------------ MODULE TeaveSv ------------------------------
(***************************************************************************)
(* The Teave-sv service (src/teave-sv/mgr, src/teave-sv/dev), the sockets  *)
(* it serves applications on (src/teave/socket, src/teave/sv) and the      *)
(* epoll registrations its event loop runs from (src/teave/epoll).         *)
(*                                                                         *)
(* Teave-sv is one thread: a handler runs to its end before the next event *)
(* is dispatched, so a handler is one action.  Between two handlers, and   *)
(* between epoll_wait and the dispatch of any of the events it returned,   *)
(* applications connect, send, close and exit, and signals arrive.         *)
(*                                                                         *)
(* A connection is named once and never reused; the code compares the      *)
(* descriptor numbers of connections that are open at the same time only,  *)
(* so the names stand for the numbers.                                     *)
(***************************************************************************)
EXTENDS Naturals, Sequences, FiniteSets

CONSTANTS
    Mode,         \* TE_MODE: "prod" or "dev"
    Conns,        \* connections ever made to the service's socket
    Procs,        \* application processes, each a pid that is not recycled
    Cards,        \* paths of graphics devices
    DevReqs,      \* the other requests: records [code, path] (see DevReq)
    Sigs,         \* the signals that reach the service
    Backlog,      \* connections the kernel queues on listen(fd, 1)
    MaxQueue,     \* bound: messages in flight on a connection
    NodeReuse,    \* the allocator gives a freed Epoll_reg to the next one
    FdsExhaust,   \* open(), accept4() and opening the log may fail (EMFILE, ...)
    None,         \* no connection, process or master
    Bogus,        \* the pid, in credentials never written, of no process
    Foreign,      \* a DRM master outside Teave (another display server)
    Junk          \* the content of a message buffer never written

ASSUME ModeAssumption == Mode \in {"prod", "dev"}
ASSUME BoundsAssumption == Backlog \in Nat /\ MaxQueue \in Nat
ASSUME SwitchAssumption == NodeReuse \in BOOLEAN /\ FdsExhaust \in BOOLEAN
ASSUME SigsAssumption == Sigs \subseteq {"HUP", "INT", "TERM"}
ASSUME DevReqsAssumption == \A r \in DevReqs :
    r = [code |-> r.code, path |-> r.path] /\ r.code \in {"idev", "vt", "fd"}
ASSUME NamesAssumption ==
    /\ {None, Bogus, Foreign} \cap (Procs \cup Conns) = {}
    /\ None # Bogus /\ None # Foreign /\ Bogus # Foreign
    /\ Procs \cap Conns = {}
    /\ {"listen", "sig"} \cap Conns = {}
    /\ None \notin DevReqs \cup [code : {"gdev"}, path : Cards]

VARIABLES
    \* the service (struct Mgr, So_w, Act_proc, Epoll_mgr)
    status,   \* "run", "exit" (the loop returned), "down" or "dead"
    cur,      \* so_ws[I_CUR]
    temp,     \* so_ws[I_TEMP]
    a_p,      \* the active process and the devices opened for it
    node,     \* node[c]: whose Epoll_reg is where c's was registered
    batch,    \* events epoll_wait returned and the loop has not dispatched
    waiting,  \* the connection a blocking recvmsg() of the service waits on
    pending,  \* signals sent to the service and not read from sig_fd
    \* the kernel's side of the sockets
    sock,     \* "unused", "queued" (not accepted yet), "open" or "closed"
    backlog,  \* queued connections, oldest first
    owner,    \* the process at the other end
    peer,     \* that end: "none", "up", "hup" (closed) or "reset"
    inq,      \* messages sent to the service and not received
    outq,     \* messages sent by the service and not received
    \* graphics devices
    master,   \* the DRM master of a card: None, Foreign or the process the
              \* service opened the card for
    lent,     \* who else has the descriptor the service opened: the
              \* connection it is in flight on or the process that got it
    \* the applications
    want,     \* the request a connection's client waits to see answered
    gone      \* processes that exited

svVars == <<status, cur, temp, a_p, node, batch, waiting, pending>>
soVars == <<sock, backlog, owner, peer, inq, outq>>
drmVars == <<master, lent>>
appVars == <<want, gone>>
vars == <<svVars, soVars, drmVars, appVars>>

----------------------------------------------------------------------------
(* Messages (struct Msg).  A response repeats the path of the request, not  *)
(* its code; quit_req and the error of res_err leave the buffer unwritten.  *)

GdevReqs == [code : {"gdev"}, path : Cards]
Requests == GdevReqs \cup DevReqs
QuitReq == [code |-> "quit", path |-> Junk]
\* Mutants: the buffer of the response is not filled; the wrong code is sent.
MutFdRes(path) == [code |-> "fd_res", path |-> Junk]
MutErrRes(path) == [code |-> "quit", path |-> path]

FdRes(path) == [code |-> "fd_res", path |-> path]
ErrRes(path) == [code |-> "err_res", path |-> path]
Paths == Cards \cup {r.path : r \in DevReqs} \cup {Junk}
Responses == [code : {"fd_res", "err_res"}, path : Paths]

NoAct == [pid |-> None, gdevs |-> {}, devs |-> {}]

Init ==
    /\ status = "run" /\ cur = None /\ temp = None /\ a_p = NoAct
    /\ node = [c \in Conns |-> None]
    /\ batch = {} /\ waiting = None /\ pending = {}
    /\ sock = [c \in Conns |-> "unused"] /\ backlog = <<>>
    /\ owner = [c \in Conns |-> None] /\ peer = [c \in Conns |-> "none"]
    /\ inq = [c \in Conns |-> <<>>] /\ outq = [c \in Conns |-> <<>>]
    /\ master = [k \in Cards |-> None] /\ lent = [k \in Cards |-> None]
    /\ want = [c \in Conns |-> None] /\ gone = {}

----------------------------------------------------------------------------
(* What dropping connections and the active process does.                   *)

\* Mutants: ~So_w forgets to close; it forgets to deregister.
MutSockLess(S) == sock
MutNodeLess(S) == node

\* ~So_w closes the connections of S ...
SockLess(S) == [c \in Conns |-> IF c \in S THEN "closed" ELSE sock[c]]

\* ... and takes their Epoll_regs out of ep_regs.
NodeLess(S) == [e \in Conns |-> IF node[e] \in S THEN None ELSE node[e]]

\* What clients sent on them and the service never read is lost.
InqLess(S, q) == [c \in Conns |-> IF c \in S THEN <<>> ELSE q[c]]

Closing(S, q) ==
    /\ sock' = SockLess(S) /\ node' = NodeLess(S) /\ inq' = InqLess(S, q)

\* Mutants: devices are destroyed with every message; Gdevs keep the master;
\* the descriptor an application has stays usable.
MutMasterIf(dropped) == [k \in Cards |->
    IF k \in a_p.gdevs /\ master[k] = a_p.pid THEN None ELSE master[k]]
MutMasterKept(dropped) == master
MutLentIf(dropped) == lent

\* ~Act_proc: every Gdev drops DRM master and closes its descriptor.
MasterIf(dropped) == [k \in Cards |->
    IF dropped /\ k \in a_p.gdevs /\ master[k] = a_p.pid THEN None ELSE master[k]]

\* The descriptors applications still have are of no use then.
LentIf(dropped) == [k \in Cards |->
    IF dropped /\ k \in a_p.gdevs THEN None ELSE lent[k]]

Owned == {cur, temp} \ {None}

\* Mgr::cleanup: the active process and both connections go.
Cleanup(S) ==
    /\ a_p' = NoAct /\ cur' = None /\ temp' = None
    /\ master' = MasterIf(TRUE) /\ lent' = LentIf(TRUE)
    /\ Closing(Owned \cup S, inq)

----------------------------------------------------------------------------
(* The event loop.                                                          *)

\* Mutants: the end of a connection is no event; sig_fd is not registered.
MutReadable(c) == inq[c] # <<>>

Readable(c) == inq[c] # <<>> \/ peer[c] \in {"hup", "reset"}

MutReady == {c \in Conns : node[c] = c /\ Readable(c)} \cup {s \in {"listen"} : backlog # <<>>}

Ready ==
    {c \in Conns : node[c] = c /\ Readable(c)}
    \cup {s \in {"listen"} : backlog # <<>>}
    \cup {s \in {"sig"} : pending # {}}

\* epoll_wait: level triggered, and at most four descriptors can be ready,
\* far fewer than max_num_events.  What was freed before is out of reach now.
EpollWait ==
    /\ status = "run" /\ waiting = None /\ batch = {} /\ Ready # {}
    /\ batch' = Ready
    /\ node' = [c \in Conns |-> IF node[c] = c THEN c ELSE None]
    /\ UNCHANGED <<status, cur, temp, a_p, waiting, pending, soVars, drmVars, appVars>>

\* epoll_wait fails with EINTR when the service is stopped and continued:
\* loop() throws, run() returns -1.
EpollInterrupted ==
    /\ status = "run" /\ waiting = None /\ batch = {}
    /\ status' = "exit"
    /\ UNCHANGED <<cur, temp, a_p, node, batch, waiting, pending, soVars, drmVars, appVars>>

\* The loop is at liberty to dispatch the event s.
Dispatching(s) == status = "run" /\ waiting = None /\ s \in batch

\* process_accepted_socket_event runs for the connection c: an event leads to
\* its Epoll_reg, or a blocked recvmsg() on it returns.
Turn(c) ==
    /\ status = "run" /\ waiting' = None
    /\ \/ waiting = c /\ batch' = batch
       \/ /\ waiting = None
          /\ \E e \in batch \cap Conns : node[e] = c /\ batch' = batch \ {e}

\* The event led to a connection nothing has arrived on, and accepted
\* sockets are blocking: the service is stuck in recvmsg().
RecvBlocks ==
    /\ \E e \in batch \cap Conns :
        /\ Dispatching(e) /\ node[e] # None
        /\ ~Readable(node[e])
        /\ waiting' = node[e] /\ batch' = batch \ {e}
    /\ UNCHANGED <<status, cur, temp, a_p, node, pending, soVars, drmVars, appVars>>

----------------------------------------------------------------------------
(* The end of the service's process, expected or not.                       *)

Ended(S) ==
    /\ cur' = None /\ temp' = None /\ a_p' = NoAct
    /\ batch' = {} /\ waiting' = None /\ pending' = {} /\ backlog' = <<>>
    /\ Closing(Owned \cup S, inq)

Queued == {c \in Conns : sock[c] = "queued"}

\* The kernel closes every descriptor of a process that is killed.  A card
\* keeps its master while an application has the open file.
Death ==
    /\ status' = "dead"
    /\ Ended(Queued)
    /\ master' = [k \in Cards |->
        IF k \in a_p.gdevs /\ lent[k] = None THEN None ELSE master[k]]
    /\ UNCHANGED <<lent, owner, peer, outq, appVars>>

Killed == status \in {"run", "exit"} /\ Death

\* The event's Epoll_reg was freed by a handler earlier in the batch.
StaleCall ==
    /\ \E e \in batch \cap Conns : Dispatching(e) /\ node[e] = None
    /\ Death

\* INT, TERM: the loop is told to quit, ~Mgr does the rest.
QuitSignal ==
    /\ Dispatching("sig") /\ "HUP" \notin pending
    /\ \E s \in pending : pending' = pending \ {s}
    /\ status' = "exit" /\ batch' = {}
    /\ UNCHANGED <<cur, temp, a_p, node, waiting, soVars, drmVars, appVars>>

\* HUP, which a signalfd delivers first: the handler calls cleanup().
CleanupSignal ==
    /\ Dispatching("sig") /\ "HUP" \in pending
    /\ pending' = pending \ {"HUP"}
    /\ status' = "exit" /\ batch' = {}
    /\ Cleanup({})
    /\ UNCHANGED <<waiting, backlog, owner, peer, outq, appVars>>

\* run() unblocks the signals, whose handlers can but clean up or exit, and
\* ~Mgr cleans up (again) and closes the listening socket.
Finish ==
    /\ status = "exit" /\ status' = "down"
    /\ Cleanup(Queued)
    /\ batch' = {} /\ waiting' = None /\ pending' = {} /\ backlog' = <<>>
    /\ UNCHANGED <<owner, peer, outq, appVars>>

\* The service is started again; server_setup(true) replaces a left-over path.
Restart ==
    /\ status \in {"down", "dead"} /\ status' = "run"
    /\ UNCHANGED <<cur, temp, a_p, node, batch, waiting, pending, soVars, drmVars, appVars>>

----------------------------------------------------------------------------
(* New connections: Mgr::process_socket_conn_event.                         *)

\* The allocator may place the new registration where one was freed that an
\* event of this batch still points to.
Overlaid == {{}} \cup
    {{e} : e \in {d \in batch \cap Conns : NodeReuse /\ NodeLess({temp})[d] = None}}

Accept ==
    /\ Dispatching("listen") /\ backlog # <<>>
    /\ LET c == Head(backlog)
       IN  /\ temp' = c
           /\ sock' = [SockLess({temp}) EXCEPT ![c] = "open"]
           /\ \E R \in Overlaid : node' =
                  [e \in Conns |-> IF e \in {c} \cup R THEN c ELSE NodeLess({temp})[e]]
           /\ inq' = InqLess({temp}, inq)
    /\ backlog' = Tail(backlog)
    /\ batch' = batch \ {"listen"}
    /\ UNCHANGED <<status, cur, a_p, waiting, pending, owner, peer, outq, drmVars, appVars>>

\* Every catch of the service logs, and Logger opens its file anew for each
\* message.  When descriptors are short that throws as well: the exception
\* leaves the handler, the loop and, thrown again where run() logs it, main.
Logged == UNCHANGED status \/ (FdsExhaust /\ status' = "exit")

\* accept4() fails: the old temporary connection stays, the event comes back.
AcceptFails ==
    /\ FdsExhaust /\ Dispatching("listen")
    /\ batch' = batch \ {"listen"} /\ Logged
    /\ UNCHANGED <<cur, temp, a_p, node, waiting, pending, soVars, drmVars, appVars>>

----------------------------------------------------------------------------
(* Messages: Mgr::process_accepted_socket_event and what it calls.          *)

\* Mutants: the mode is not looked at; a replaced process' devices are kept.
MutAdmitted(pid) == TRUE
MutKept(pid) == a_p

\* process_proc: may the process pid be served?
Admitted(pid) == Mode = "dev" \/ a_p.pid \in {None, pid}

\* process_proc: does the message make a new Act_proc, dropping the old one?
Replaces(pid) == Mode = "dev" \/ a_p.pid = None

Kept(pid) == IF Replaces(pid) THEN [gdevs |-> {}, devs |-> {}] ELSE a_p

\* so_ws[I_CUR] once the handler has moved a temporary connection there.
Promoted(c) == IF cur = c THEN cur ELSE temp

Promotion(c, dropped) ==
    /\ cur' = IF Promoted(c) \in dropped THEN None ELSE Promoted(c)
    /\ temp' = IF cur = c THEN temp ELSE None
    /\ Closing(dropped \cup (Owned \ {Promoted(c), IF cur = c THEN temp ELSE None}),
               [inq EXCEPT ![c] = IF @ = <<>> THEN @ ELSE Tail(@)])

\* Mutant: a refusal is not sent.
MutReply(c, msg) ==
    outq' = [outq EXCEPT ![c] =
        IF peer[c] = "up" /\ msg.path # Junk THEN Append(@, msg) ELSE @]

\* A send to a peer that is gone throws, the handler's catch sends again and
\* throws again, and the outer catch logs it (SIGPIPE is blocked and ignored).
Reply(c, msg) ==
    outq' = [outq EXCEPT ![c] = IF peer[c] = "up" THEN Append(@, msg) ELSE @]

\* A handler sends its last message; that it cannot is logged.
Send(c, msg) ==
    Reply(c, msg) /\ IF peer[c] = "up" THEN UNCHANGED status ELSE Logged

\* A handler logs what it caught, then sends the error.  What it could not log
\* leaves the handler, and the error is not sent.
SendError(c, msg) ==
    \/ Reply(c, msg) /\ UNCHANGED status
    \/ FdsExhaust /\ status' = "exit" /\ UNCHANGED outq

\* The handler received the message m of the process that sent it.
Received(c, code) ==
    /\ Turn(c) /\ inq[c] # <<>> /\ Head(inq[c]).code \in code

\* process_gdev_fd_req.  The first opener of a card without a master becomes
\* its master; drmSetMaster fails if some other open file is.  The new Gdev is
\* made before the assignment destroys the one that was in the map.
GrantGdev(c) ==
    /\ Received(c, {"gdev"}) /\ Admitted(owner[c])
    /\ LET pid == owner[c]
           k == Head(inq[c]).path
           before == MasterIf(Replaces(pid))
       IN  /\ before[k] = None
           /\ a_p' = [pid |-> pid, gdevs |-> Kept(pid).gdevs \cup {k},
                      devs |-> Kept(pid).devs]
           /\ master' = [before EXCEPT ![k] = pid]
           /\ lent' = [LentIf(Replaces(pid)) EXCEPT
                          ![k] = IF peer[c] = "up" THEN c ELSE None]
           /\ Send(Promoted(c), FdRes(k))
    /\ Promotion(c, {})
    /\ UNCHANGED <<pending, backlog, owner, peer, appVars>>

FailGdev(c) ==
    /\ Received(c, {"gdev"}) /\ Admitted(owner[c])
    /\ LET pid == owner[c]
           k == Head(inq[c]).path
       IN  /\ FdsExhaust \/ MasterIf(Replaces(pid))[k] # None
           /\ a_p' = [pid |-> pid, gdevs |-> Kept(pid).gdevs, devs |-> Kept(pid).devs]
           /\ master' = MasterIf(Replaces(pid))
           /\ lent' = LentIf(Replaces(pid))
           /\ SendError(Promoted(c), ErrRes(k))
    /\ Promotion(c, {})
    /\ UNCHANGED <<pending, backlog, owner, peer, appVars>>

\* process_idev_fd_req, process_fd_req (a map per kind, by path) and
\* process_vt_fd_req (one slot): a device replaces the one in its slot.
Stored(devs, r) == {r} \cup {d \in devs : ~(d.code = "vt" /\ r.code = "vt")}

ServeDev(c, opened) ==
    /\ Received(c, {"idev", "vt", "fd"}) /\ Admitted(owner[c])
    /\ opened \/ FdsExhaust
    /\ LET pid == owner[c]
           r == Head(inq[c])
       IN  /\ a_p' = [pid |-> pid, gdevs |-> Kept(pid).gdevs,
                      devs |-> IF opened THEN Stored(Kept(pid).devs, r)
                               ELSE Kept(pid).devs]
           /\ master' = MasterIf(Replaces(pid))
           /\ lent' = LentIf(Replaces(pid))
           /\ IF opened THEN Send(Promoted(c), FdRes(r.path))
                        ELSE SendError(Promoted(c), ErrRes(r.path))
    /\ Promotion(c, {})
    /\ UNCHANGED <<pending, backlog, owner, peer, appVars>>

\* process_quit_req: the active process and its connection go.
ServeQuit(c) ==
    /\ Received(c, {"quit"}) /\ Admitted(owner[c])
    /\ a_p' = NoAct
    /\ master' = MasterIf(TRUE) /\ lent' = LentIf(TRUE)
    /\ Promotion(c, {Promoted(c)})
    /\ UNCHANGED <<status, pending, backlog, owner, peer, outq, appVars>>

\* res_err to another process in prod mode; the connection stays where it is.
Refuse(c) ==
    /\ Received(c, {"gdev", "idev", "vt", "fd", "quit"}) /\ ~Admitted(owner[c])
    /\ Send(Promoted(c), ErrRes(Junk))
    /\ Closing({}, [inq EXCEPT ![c] = Tail(@)])
    /\ UNCHANGED <<cur, temp, a_p, pending, backlog, owner, peer, drmVars, appVars>>

\* recvmsg fails with ECONNRESET, once, when the client closed its end with
\* messages unread.  The result is kept in a size_t, so the error is never
\* seen: the handler goes on with a message of no code and with credentials
\* read from uninitialized memory, a real process' or nobody's.
Garbled(c) == Turn(c) /\ inq[c] = <<>> /\ peer[c] = "reset"

ServeGarbled(c, pid) ==
    /\ Garbled(c) /\ Admitted(pid)
    /\ peer' = [peer EXCEPT ![c] = "hup"]
    /\ a_p' = [pid |-> pid, gdevs |-> Kept(pid).gdevs, devs |-> Kept(pid).devs]
    /\ master' = MasterIf(Replaces(pid)) /\ lent' = LentIf(Replaces(pid))
    /\ Promotion(c, {})
    /\ UNCHANGED <<status, pending, backlog, owner, outq, appVars>>

RefuseGarbled(c, pid) ==
    /\ Garbled(c) /\ ~Admitted(pid)
    /\ peer' = [peer EXCEPT ![c] = "hup"] /\ Logged
    /\ UNCHANGED <<cur, temp, a_p, node, pending, sock, backlog, owner,
                   inq, outq, drmVars, appVars>>

\* recvmsg returns 0: the connection goes, the active process stays.
HungUp(c) ==
    /\ Turn(c) /\ inq[c] = <<>> /\ peer[c] = "hup"
    /\ cur' = IF cur = c THEN None ELSE cur
    /\ temp' = IF cur = c THEN temp ELSE None
    /\ Closing({Promoted(c)}, inq)
    /\ UNCHANGED <<status, a_p, pending, backlog, owner, peer, outq, drmVars, appVars>>

Serve(c) ==
    \/ GrantGdev(c) \/ FailGdev(c) \/ ServeDev(c, TRUE) \/ ServeDev(c, FALSE)
    \/ ServeQuit(c) \/ Refuse(c) \/ HungUp(c)
    \/ \E pid \in Procs \cup {Bogus} : ServeGarbled(c, pid) \/ RefuseGarbled(c, pid)

Service ==
    \/ EpollWait \/ RecvBlocks \/ StaleCall \/ QuitSignal \/ CleanupSignal
    \/ Accept \/ AcceptFails \/ Finish
    \/ \E c \in Conns : Serve(c)

----------------------------------------------------------------------------
(* The applications (class Sva) and the rest of the world.                  *)

\* Socket::client_setup
Connect(c, p) ==
    /\ sock[c] = "unused" /\ p \notin gone
    /\ status \in {"run", "exit"} /\ Len(backlog) < Backlog
    /\ sock' = [sock EXCEPT ![c] = "queued"]
    /\ backlog' = Append(backlog, c)
    /\ owner' = [owner EXCEPT ![c] = p] /\ peer' = [peer EXCEPT ![c] = "up"]
    /\ UNCHANGED <<svVars, inq, outq, drmVars, appVars>>

CanSend(c) ==
    /\ peer[c] = "up" /\ sock[c] \in {"queued", "open"} /\ want[c] = None
    /\ Len(inq[c]) + Len(outq[c]) < MaxQueue

\* Sva::req_fd sends and waits for the response.
SendReq(c, r) ==
    /\ CanSend(c)
    /\ inq' = [inq EXCEPT ![c] = Append(@, r)]
    /\ want' = [want EXCEPT ![c] = r]
    /\ UNCHANGED <<svVars, sock, backlog, owner, peer, outq, drmVars, gone>>

\* Sv::req_quit sends and does not wait.
SendQuit(c) ==
    /\ CanSend(c)
    /\ inq' = [inq EXCEPT ![c] = Append(@, QuitReq)]
    /\ UNCHANGED <<svVars, sock, backlog, owner, peer, outq, drmVars, appVars>>

\* The client reads a message, takes the descriptor it carries and compares
\* the path; it returns or throws, and its request is over either way.
RecvRes(c) ==
    /\ peer[c] = "up" /\ want[c] # None /\ outq[c] # <<>>
    /\ outq' = [outq EXCEPT ![c] = Tail(@)]
    /\ want' = [want EXCEPT ![c] = None]
    /\ LET res == Head(outq[c])
       IN  lent' = [k \in Cards |->
               IF res = FdRes(k) /\ lent[k] = c THEN owner[c] ELSE lent[k]]
    /\ UNCHANGED <<svVars, sock, backlog, owner, peer, inq, master, gone>>

\* The client reads the end of a connection the service closed, and throws.
RecvEnd(c) ==
    /\ peer[c] = "up" /\ want[c] # None /\ outq[c] = <<>> /\ sock[c] = "closed"
    /\ want' = [want EXCEPT ![c] = None]
    /\ UNCHANGED <<svVars, soVars, drmVars, gone>>

\* The ends C are closed.  Descriptors in flight on them, and those of the
\* processes P, are gone; a file nobody has open is nobody's master.
Hangup(C, P) ==
    /\ peer' = [c \in Conns |-> IF c \notin C THEN peer[c]
                                ELSE IF outq[c] # <<>> THEN "reset" ELSE "hup"]
    /\ outq' = [c \in Conns |-> IF c \in C THEN <<>> ELSE outq[c]]
    /\ want' = [c \in Conns |-> IF c \in C THEN None ELSE want[c]]
    /\ lent' = [k \in Cards |-> IF lent[k] \in C \cup P THEN None ELSE lent[k]]
    /\ master' = [k \in Cards |->
        IF lent[k] \in C \cup P /\ k \notin a_p.gdevs THEN None ELSE master[k]]
    /\ UNCHANGED <<svVars, sock, backlog, owner, inq>>

Disconnect(c) == peer[c] = "up" /\ Hangup({c}, {}) /\ UNCHANGED gone

\* A process quits or is killed.
Exit(p) ==
    /\ p \notin gone /\ gone' = gone \cup {p}
    /\ Hangup({c \in Conns : owner[c] = p /\ peer[c] = "up"}, {p})

\* Another display server takes a card nobody is master of, and gives it back.
ForeignTakes(k) ==
    /\ master[k] = None /\ master' = [master EXCEPT ![k] = Foreign]
    /\ UNCHANGED <<svVars, soVars, lent, appVars>>

ForeignDrops(k) ==
    /\ master[k] = Foreign /\ master' = [master EXCEPT ![k] = None]
    /\ UNCHANGED <<svVars, soVars, lent, appVars>>

Signal(s) ==
    /\ status \in {"run", "exit"} /\ pending' = pending \cup {s}
    /\ UNCHANGED <<status, cur, temp, a_p, node, batch, waiting, soVars, drmVars, appVars>>

Environment ==
    \/ \E c \in Conns :
        \/ \E p \in Procs : Connect(c, p)
        \/ \E r \in Requests : SendReq(c, r)
        \/ SendQuit(c) \/ RecvRes(c) \/ RecvEnd(c) \/ Disconnect(c)
    \/ \E p \in Procs : Exit(p)
    \/ \E k \in Cards : ForeignTakes(k) \/ ForeignDrops(k)
    \/ \E s \in Sigs : Signal(s)
    \/ EpollInterrupted \/ Killed \/ Restart

Next == Service \/ Environment

Spec == Init /\ [][Next]_vars

\* The service's thread runs while it has something to do; a client that
\* waits in recvmsg() wakes up when there is something to receive.
Fairness ==
    /\ WF_vars(Service)
    /\ \A c \in Conns : WF_vars(RecvRes(c)) /\ WF_vars(RecvEnd(c))

FairSpec == Spec /\ Fairness

----------------------------------------------------------------------------
Status == {"run", "exit", "down", "dead"}

\* The type of every variable.
TypeOK ==
    /\ status \in Status
    /\ cur \in Conns \cup {None} /\ temp \in Conns \cup {None}
    /\ a_p \in [pid : Procs \cup {None, Bogus}, gdevs : SUBSET Cards, devs : SUBSET DevReqs]
    /\ node \in [Conns -> Conns \cup {None}]
    /\ batch \subseteq Conns \cup {"listen", "sig"}
    /\ waiting \in Conns \cup {None}
    /\ pending \subseteq Sigs
    /\ sock \in [Conns -> {"unused", "queued", "open", "closed"}]
    /\ backlog \in Seq(Conns)
    /\ owner \in [Conns -> Procs \cup {None}]
    /\ peer \in [Conns -> {"none", "up", "hup", "reset"}]
    /\ inq \in [Conns -> Seq(Requests \cup {QuitReq})]
    /\ outq \in [Conns -> Seq(Responses)]
    /\ master \in [Cards -> Procs \cup {None, Foreign}]
    /\ lent \in [Cards -> Conns \cup Procs \cup {None}]
    /\ want \in [Conns -> Requests \cup {None}]
    /\ gone \subseteq Procs

\* Every connection the service has accepted and not closed is the current or
\* the temporary one, never both, and is the one its epoll registration leads
\* to: no handler leaks or doubly owns a descriptor (So_w, So_w::~So_w).
ConnsAccounted ==
    /\ {c \in Conns : sock[c] = "open"} = Owned
    /\ cur = temp => cur = None
    /\ \A c \in Conns : node[c] = c <=> c \in Owned
    /\ \A e \in Conns : node[e] \in Owned \cup {None}
    /\ waiting \in Owned \cup {None}
    /\ status \in {"down", "dead"} => Owned = {} /\ a_p = NoAct
    /\ {c \in Conns : sock[c] = "queued"} = {backlog[i] : i \in 1..Len(backlog)}
    /\ \A i, j \in 1..Len(backlog) : backlog[i] = backlog[j] => i = j

\* A Gdev in the active process' table is the DRM master of its card, on the
\* active process' behalf: whatever order requests, replacements and ends come
\* in, the table never lists a card somebody else may program (Gdev::Gdev).
MasterBacked == \A k \in a_p.gdevs : master[k] = a_p.pid

\* A usable card descriptor is only ever in the hands of, or on its way to, the
\* process the card's master was granted to (process_gdev_fd_req sends it on
\* the current connection, whatever that is).
LentToMaster == \A k \in Cards : lent[k] # None =>
    IF lent[k] \in Conns
    THEN owner[lent[k]] = master[k] /\ \E i \in 1..Len(outq[lent[k]]) : outq[lent[k]][i] = FdRes(k)
    ELSE lent[k] = master[k]

\* In prod mode the service passes from one process to another only after the
\* first gave it up, and no step but that takes devices away (process_proc).
Exclusive == [][
    (Mode = "prod" /\ a_p.pid # None /\ a_p'.pid # None)
        => (a_p'.pid = a_p.pid /\ a_p.gdevs \subseteq a_p'.gdevs)]_vars

\* In prod mode, while the service runs, only a quit request of the active
\* process itself ends its turn: not a lost connection, not another process.
OnlyHolderEnds == [][
    (Mode = "prod" /\ a_p.pid # None /\ a_p'.pid = None /\ status' = "run")
        => \E c \in Conns : /\ owner[c] = a_p.pid /\ inq[c] # <<>>
                            /\ Head(inq[c]) = QuitReq /\ sock'[c] = "closed"]_vars

\* Whoever stops being the active process loses DRM master of every card in
\* that very step, unless the service was killed (Gdev::~Gdev).
Revoked == [][
    (a_p'.pid # a_p.pid /\ status' # "dead")
        => \A k \in a_p.gdevs : master'[k] # a_p.pid /\ lent'[k] \notin Procs]_vars

\* A client that waits for a response to one request is never handed the
\* device of another (the path check of Sva::req_fd never fires on a fd_res).
AnswerMatches == \A c \in Conns :
    (want[c] # None /\ outq[c] # <<>> /\ Head(outq[c]).code = "fd_res")
        => Head(outq[c]).path = want[c].path

\* A request is answered, or the client learns that its connection is gone: by
\* eviction (a newer connection), replacement, or the end of the service.
Answered == \A c \in Conns : want[c] # None ~> want[c] = None

\* The service lets go of a connection whose client is gone, even when the end
\* arrives as an error, or behind messages, or while it was the temporary one.
HungUpDropped == \A c \in Conns :
    (sock[c] # "unused" /\ peer[c] # "up") ~> sock[c] \in {"unused", "closed"}

\* A signal to quit is not lost, whatever else keeps the loop busy.
QuitHeard == pending # {} ~> status # "run"

\* Who can program a card through a descriptor the service opened.
Access == [k \in Cards |-> IF lent[k] \in Conns THEN owner[lent[k]] ELSE lent[k]]

Lease == INSTANCE CardLease WITH
    Preempt <- Mode = "dev", Users <- Procs \cup {Bogus}, Nobody <- None,
    holder <- a_p.pid, table <- a_p.gdevs, access <- Access

\* The service keeps the promise of CardLease: a step of any handler, of an
\* application or of the kernel is a step of the lease or leaves it alone.
ImplementsLease == Lease!Spec

\* The answers a message may get; a quit request gets none but a refusal.
Answers(m) == {ErrRes(Junk)} \cup
    (IF m = QuitReq THEN {} ELSE {FdRes(m.path), ErrRes(m.path)})

\* The service will get to the connection, or goes on serving it.
Serving(c) == sock[c] = "unused" \/ (sock[c] \in {"queued", "open"} /\ status = "run")

Conn(c) == INSTANCE SvConn WITH
    req <- inq[c], res <- outq[c], open <- Serving(c), gone <- peer[c] \in {"hup", "reset"}

ConnStep(c) == [Conn(c)!Next(Requests \cup {QuitReq})]_<<
    inq[c], outq[c], Serving(c), peer[c] \in {"hup", "reset"}>>

\* On every connection the service keeps the promise of SvConn: one answer to a
\* message, in order and on the connection it came on, until it is dropped,
\* whatever other connections, signals and failures come in between.
ImplementsConn ==
    (\A c \in Conns : Conn(c)!Init) /\ [][\A c \in Conns : ConnStep(c)]_vars

----------------------------------------------------------------------------
(* What comments of the repository say and the code does not do.            *)

\* epoll_mgr.h:31-34: the callback "is called when there is an event epolled
\* for fd": an event still to be dispatched leads to its own registration.
EventsAreLive == \A e \in batch \cap Conns : node[e] = e

\* socket.cpp:176-177 throws when recvmsg fails: no failed receive gets as far
\* as making somebody the active process.
ActiveIsReal == a_p.pid # Bogus

\* mgr.cpp:246-247: "if dev exists, destroy it ... then create a new one": a
\* card the process already has is opened again for it (when open succeeds).
ReRequestReplaces == [][\A c \in Conns :
    (/\ Len(inq'[c]) < Len(inq[c]) /\ sock'[c] = "open" /\ peer[c] = "up"
     /\ Head(inq[c]).path \in a_p.gdevs /\ Head(inq[c]).code = "gdev"
     /\ owner[c] = a_p.pid)
        => outq'[c] = Append(outq[c], FdRes(Head(inq[c]).path))]_vars
============================================================================
