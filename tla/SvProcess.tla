------------------------------ MODULE SvProcess ------------------------------
(***************************************************************************)
(* A Teave-sv process around its event loop: main and Mgr::Mgr, Mgr::run   *)
(* and Mgr::~Mgr (src/teave-sv), signals (teave/event/signal_handler.cpp)  *)
(* and the path of the socket (teave/socket), over which the processes of  *)
(* several runs meet.                                                      *)
(*                                                                         *)
(* Until the loop blocks signals, and after it unblocks them, sig_handler  *)
(* runs between any two steps; in between they wait for the loop to read   *)
(* them from sig_fd.  What the loop does for clients is module TeaveSv.    *)
(***************************************************************************)
CONSTANTS Insts,   \* processes, each started once
          None

ASSUME NoneAssumption == None \notin Insts

\* "hup" stands for SIGHUP and the signals of errors, "term" for SIGTERM, SIGQUIT
\* and SIGTSTP. The loop ignores any other, and outside of it they do nothing or
\* end the process (Kill).
Signals == {"int", "hup", "term"}

VARIABLES
    pc,      \* how far the process is
    path,    \* whose socket the path leads to, None if there is no such file
    sig,     \* signals that are pending
    quit,    \* Ev_mgr::ev_loop_act is Ev_loop_act::quit
    fatal,   \* we_had_fatal_sig
    sig_fd,  \* "garbage" (never set), "open" or "closed"
    broken   \* closing a garbage sig_fd has closed a descriptor in use

vars == <<pc, path, sig, quit, fatal, sig_fd, broken>>
sigVars == <<quit, fatal, sig_fd, broken>>

\* Handlers are registered and signals not blocked; blocked (the loop checks
\* whether to quit, or waits for events); ended.
Handled == {"handled", "unlinked", "bound", "unblocked"}
Blocked == {"checking", "waiting", "left", "failed"}
Ended == {"gone", "exited", "killed"}
Running(i) == pc[i] \in Handled \cup Blocked

Init ==
    /\ pc = [i \in Insts |-> "off"] /\ path = None
    /\ sig = [i \in Insts |-> {}]
    /\ quit = [i \in Insts |-> FALSE] /\ fatal = [i \in Insts |-> FALSE]
    /\ sig_fd = [i \in Insts |-> "garbage"] /\ broken = [i \in Insts |-> FALSE]

\* The process ends, and with it what it kept.
End(i, how) ==
    /\ pc' = [pc EXCEPT ![i] = how] /\ sig' = [sig EXCEPT ![i] = {}]
    /\ quit' = [quit EXCEPT ![i] = FALSE] /\ fatal' = [fatal EXCEPT ![i] = FALSE]
    /\ sig_fd' = [sig_fd EXCEPT ![i] = "garbage"]
    /\ broken' = [broken EXCEPT ![i] = FALSE]

Step(i, from, to) == pc[i] = from /\ pc' = [pc EXCEPT ![i] = to]

----------------------------------------------------------------------------
(* Mgr::Mgr                                                                 *)

\* The log, setup_sig_globals and setup_signals(handler_only).
Start(i) ==
    /\ Step(i, "off", "handled")
    /\ UNCHANGED <<path, sig, sigVars>>

\* Mutant: server_setup leaves an existing file.
MutUnlinked(p) == p

Unlinked(p) == None

\* User, Settings::process, the directory of the socket and Socket::Socket; then
\* server_setup removes an existing file.
Unlink(i) ==
    /\ Step(i, "handled", "unlinked")
    /\ path' = Unlinked(path) /\ UNCHANGED <<sig, sigVars>>

\* bind fails if there is a file again.
Bind(i) ==
    /\ Step(i, "unlinked", "bound") /\ path = None /\ ~broken[i]
    /\ path' = i /\ UNCHANGED <<sig, sigVars>>

\* Mutant: ~Socket leaves the file.
MutClosed(p) == p

\* ~Socket of a server removes the file by its name, whosever it is.
Closed(p) == None

\* The constructor throws and main ends the process. A socket it has made is a
\* server's from before bind. The settings and directories are taken to be right.
StartFails(i) ==
    /\ \/ /\ pc[i] = "handled" /\ broken[i] /\ UNCHANGED path
       \/ /\ pc[i] = "unlinked" /\ (path # None \/ broken[i]) /\ path' = Closed(path)
       \/ /\ pc[i] = "bound" /\ broken[i] /\ path' = Closed(path)
    /\ End(i, "gone")

----------------------------------------------------------------------------
(* Signals: process_signal and Mgr::cleanup.                                *)

\* close(sig_fd); before the loop has set it, it may be any descriptor's number.
cleanup(i) ==
    /\ quit' = [quit EXCEPT ![i] = TRUE]
    /\ IF sig_fd[i] = "garbage"
       THEN broken' \in {broken, [broken EXCEPT ![i] = TRUE]} /\ UNCHANGED sig_fd
       ELSE sig_fd' = [sig_fd EXCEPT ![i] = "closed"] /\ UNCHANGED broken

\* SIGHUP and the like, and SIGINT in a handler, clean up and quit; TERM quits.
Told(i, s) ==
    \/ s # "term" /\ ~fatal[i] /\ fatal' = [fatal EXCEPT ![i] = TRUE] /\ cleanup(i)
    \/ s = "term" /\ quit' = [quit EXCEPT ![i] = TRUE] /\ UNCHANGED <<fatal, sig_fd, broken>>

Taken(i, s) == sig' = [sig EXCEPT ![i] = @ \ {s}]

\* sig_handler; a second signal of the first kind ends the process at once.
Handle(i, s) ==
    /\ pc[i] \in Handled /\ s \in sig[i]
    /\ \/ Told(i, s) /\ Taken(i, s) /\ UNCHANGED pc
       \/ s # "term" /\ fatal[i] /\ End(i, "exited")
    /\ UNCHANGED path

\* process_signal_event: SIGINT only quits here.
ReadSignal(i, s) ==
    /\ Step(i, "waiting", "checking") /\ sig_fd[i] = "open"
    /\ s \in sig[i] /\ Taken(i, s)
    /\ Told(i, IF s = "int" THEN "term" ELSE s)
    /\ UNCHANGED path

----------------------------------------------------------------------------
(* Mgr::run and Mgr::~Mgr                                                   *)

\* Mutant: the setup_signals that keeps the descriptor to itself.
MutBlockedFd(fd) == fd

\* signalfd's descriptor is returned in sig_fd.
BlockedFd(fd) == "open"

\* The rest of the constructor (listen, SO_PASSCRED, chmod, Epoll_mgr, the
\* registration of the socket), then setup_signals(block) and the registration
\* of sig_fd.
Block(i) ==
    /\ Step(i, "bound", "checking") /\ ~broken[i]
    /\ sig_fd' = [sig_fd EXCEPT ![i] = BlockedFd(@)]
    /\ UNCHANGED <<path, sig, quit, fatal, broken>>

\* Mutant: only handlers are asked whether to quit.
MutQuitting(i) == FALSE

\* The check before the first wait and after every handler.
Quitting(i) == quit[i]

Wait(i) ==
    /\ Step(i, "checking", "waiting") /\ ~Quitting(i)
    /\ UNCHANGED <<path, sig, sigVars>>

Leave(i) ==
    /\ Step(i, "checking", "left") /\ Quitting(i)
    /\ UNCHANGED <<path, sig, sigVars>>

\* epoll_wait fails and run catches it; signals stay blocked.
WaitFails(i) ==
    /\ Step(i, "waiting", "failed") /\ UNCHANGED <<path, sig, sigVars>>

Unblock(i) == Step(i, "left", "unblocked") /\ UNCHANGED <<path, sig, sigVars>>

Destroy(i) ==
    /\ pc[i] \in {"unblocked", "failed"} /\ End(i, "gone")
    /\ path' = Closed(path)

----------------------------------------------------------------------------
Signal(i, s) ==
    /\ Running(i) /\ sig' = [sig EXCEPT ![i] = @ \cup {s}]
    /\ UNCHANGED <<pc, path, sigVars>>

Kill(i) ==
    /\ Running(i) /\ End(i, "killed") /\ UNCHANGED path

\* What the process does next, whatever signals interrupt it.
Progress(i) ==
    \/ Unlink(i) \/ Bind(i) \/ StartFails(i) \/ Block(i)
    \/ Wait(i) \/ Leave(i) \/ Unblock(i) \/ Destroy(i)
    \/ \E s \in Signals : ReadSignal(i, s)

Next == \E i \in Insts :
    \/ Start(i) \/ Progress(i) \/ WaitFails(i) \/ Kill(i)
    \/ \E s \in Signals : Handle(i, s) \/ Signal(i, s)

\* The process runs on. When a signal interrupts it is up to the kernel.
Fairness == \A i \in Insts : WF_vars(Progress(i))

Spec == Init /\ [][Next]_vars
FairSpec == Spec /\ Fairness

----------------------------------------------------------------------------
\* The type of every variable; only a process that runs has pending signals, and
\* none is in its loop without a sig_fd.
TypeOK ==
    /\ pc \in [Insts -> {"off"} \cup Handled \cup Blocked \cup Ended]
    /\ path \in Insts \cup {None}
    /\ sig \in [Insts -> SUBSET Signals]
    /\ quit \in [Insts -> BOOLEAN] /\ fatal \in [Insts -> BOOLEAN]
    /\ sig_fd \in [Insts -> {"garbage", "open", "closed"}]
    /\ broken \in [Insts -> BOOLEAN]
    /\ \A i \in Insts : /\ sig[i] # {} => Running(i)
                        /\ pc[i] \in Blocked => sig_fd[i] # "garbage"

\* The process never waits for events (epoll_wait, for ever) when it was told to
\* quit before the loop, however signals fall between the constructor, the
\* blocking and the check; and when it waits, what is pending can be read.
QuitNotLost == \A i \in Insts :
    pc[i] = "waiting" => ~quit[i] /\ sig_fd[i] = "open"

\* A process that went through its end, or failed to start, leaves no file that
\* leads to nobody, also when other processes start and end at the same time. (One
\* that a second fatal signal or a kill ended may.)
NoDeadPath == path # None => pc[path] # "gone"

\* Told to quit, the process ends, whatever else it gets and whenever.
EndsOnSignal == \A i \in Insts : sig[i] # {} \/ quit[i] ~> pc[i] \in Ended

\* A process that starts and runs alone and gets no signal comes to serve clients
\* under the path, whatever killed processes have left there.
Serves == \A i \in Insts : pc[i] = "handled" /\ ~quit[i] ~>
    \/ pc[i] = "waiting" /\ path = i
    \/ pc[i] = "killed" \/ sig[i] # {}
    \/ \E j \in Insts \ {i} : Running(j)
============================================================================
