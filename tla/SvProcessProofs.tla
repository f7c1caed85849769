-------------------------- MODULE SvProcessProofs --------------------------
(* Theorems about SvProcess, for any number of processes.                   *)
EXTENDS SvProcess, TLAPS

\* A process that ends keeps the types.
LEMMA EndTypes ==
    ASSUME TypeOK, NEW i \in Insts, NEW how \in Ended, End(i, how), path' \in Insts \cup {None}
    PROVE  TypeOK'
  <1>1. \A j \in Insts : j # i => /\ sig'[j] = sig[j] /\ pc'[j] = pc[j]
                                  /\ sig_fd'[j] = sig_fd[j]
    BY DEF End, TypeOK
  <1>2. sig'[i] = {} /\ pc'[i] = how
    BY DEF End, TypeOK
  <1>3. \A j \in Insts : /\ sig'[j] # {} => Running(j)'
                         /\ pc'[j] \in Blocked => sig_fd'[j] # "garbage"
    BY <1>1, <1>2 DEF TypeOK, Running, Ended, Blocked
  <1> QED
    BY <1>3 DEF End, TypeOK

\* So does one that goes on to another point at which it runs.
LEMMA StepTypes ==
    ASSUME TypeOK, NEW i \in Insts, NEW from, NEW to \in Handled \cup Blocked,
           Step(i, from, to), path' \in Insts \cup {None},
           sig' \in [Insts -> SUBSET Signals], \A j \in Insts : sig'[j] \subseteq sig[j],
           quit' \in [Insts -> BOOLEAN], fatal' \in [Insts -> BOOLEAN],
           sig_fd' \in [Insts -> {"garbage", "open", "closed"}],
           broken' \in [Insts -> BOOLEAN],
           to \in Blocked => sig_fd'[i] # "garbage",
           \A j \in Insts : sig_fd[j] # "garbage" => sig_fd'[j] # "garbage"
    PROVE  TypeOK'
  <1>1. pc' \in [Insts -> {"off"} \cup Handled \cup Blocked \cup Ended]
    BY DEF Step, TypeOK
  <1>2. pc'[i] = to /\ \A j \in Insts : j # i => pc'[j] = pc[j]
    BY DEF Step, TypeOK
  <1>3. \A j \in Insts : /\ sig'[j] # {} => Running(j)'
                         /\ pc'[j] \in Blocked => sig_fd'[j] # "garbage"
    BY <1>2 DEF TypeOK, Running
  <1> QED
    BY <1>1, <1>3 DEF TypeOK

\* cleanup and the other effects of a signal.
LEMMA ToldTypes ==
    ASSUME TypeOK, NEW i \in Insts, NEW s \in Signals, Told(i, s)
    PROVE  /\ quit' \in [Insts -> BOOLEAN] /\ fatal' \in [Insts -> BOOLEAN]
           /\ sig_fd' \in [Insts -> {"garbage", "open", "closed"}]
           /\ broken' \in [Insts -> BOOLEAN]
           /\ \A j \in Insts : sig_fd[j] # "garbage" => sig_fd'[j] # "garbage"
           /\ \A j \in Insts : j # i => quit'[j] = quit[j] /\ sig_fd'[j] = sig_fd[j]
           /\ quit'[i]
  <1>1. CASE s = "term"
    BY <1>1 DEF TypeOK, Told
  <1>2. CASE s # "term"
    <2>1. cleanup(i) /\ fatal' = [fatal EXCEPT ![i] = TRUE]
      BY <1>2 DEF Told
    <2>2. CASE sig_fd[i] = "garbage"
      BY <2>1, <2>2 DEF TypeOK, cleanup
    <2>3. CASE sig_fd[i] # "garbage"
      BY <2>1, <2>3 DEF TypeOK, cleanup
    <2> QED
      BY <2>2, <2>3
  <1> QED
    BY <1>1, <1>2

\* Every variable of the processes keeps its type, only processes that run have
\* pending signals, and none is in its loop without a sig_fd.
THEOREM ProcessTypes == Spec => []TypeOK
  <1>1. Init => TypeOK
    BY NoneAssumption DEF Init, TypeOK, Handled, Blocked
  <1>2. TypeOK /\ [Next]_vars => TypeOK'
    <2> SUFFICES ASSUME TypeOK, [Next]_vars PROVE TypeOK'
      OBVIOUS
    <2>1. CASE UNCHANGED vars
      BY <2>1 DEF vars, TypeOK, Running
    <2>2. ASSUME NEW i \in Insts, Start(i) PROVE TypeOK'
      BY <2>2, StepTypes DEF Start, sigVars, TypeOK, Handled, Blocked
    <2>3. ASSUME NEW i \in Insts,
                 Unlink(i) \/ Bind(i) \/ Unblock(i)
          PROVE TypeOK'
      <3>1. path' \in Insts \cup {None}
        BY <2>3 DEF Unlink, Unlinked, Bind, Unblock, TypeOK
      <3> QED
        BY <2>3, <3>1, StepTypes
           DEF Unlink, Bind, Unblock, sigVars, TypeOK, Handled, Blocked
    <2>4. ASSUME NEW i \in Insts, Block(i) PROVE TypeOK'
      <3>1. sig_fd' = [sig_fd EXCEPT ![i] = "open"]
        BY <2>4 DEF Block, BlockedFd
      <3> QED
        BY <2>4, <3>1, StepTypes DEF Block, TypeOK, Handled, Blocked
    <2>5. ASSUME NEW i \in Insts, Wait(i) \/ Leave(i) \/ WaitFails(i) PROVE TypeOK'
      <3>1. pc[i] \in Blocked
        BY <2>5 DEF Wait, Leave, WaitFails, Step, Blocked
      <3> QED
        BY <2>5, <3>1, StepTypes DEF Wait, Leave, WaitFails, sigVars, TypeOK, Blocked
    <2>6. ASSUME NEW i \in Insts, StartFails(i) \/ Destroy(i) \/ Kill(i) PROVE TypeOK'
      <3>1. path' \in Insts \cup {None}
        BY <2>6 DEF StartFails, Destroy, Kill, Closed, TypeOK
      <3> QED
        BY <2>6, <3>1, EndTypes DEF StartFails, Destroy, Kill, Ended
    <2>7. ASSUME NEW i \in Insts, NEW s \in Signals, Handle(i, s) PROVE TypeOK'
      <3>1. path' \in Insts \cup {None}
        BY <2>7 DEF Handle, TypeOK
      <3>2. CASE Told(i, s) /\ Taken(i, s) /\ UNCHANGED pc
        <4>1. Step(i, pc[i], pc[i]) /\ pc[i] \in Handled /\ pc[i] \notin Blocked
          BY <2>7, <3>2 DEF Step, TypeOK, Handle, Handled, Blocked
        <4>2. /\ sig' \in [Insts -> SUBSET Signals]
              /\ \A j \in Insts : sig'[j] \subseteq sig[j]
          BY <3>2 DEF Taken, TypeOK
        <4> QED
          BY <3>1, <3>2, <4>1, <4>2, ToldTypes, StepTypes
      <3>3. CASE End(i, "exited")
        BY <3>1, <3>3, EndTypes DEF Ended
      <3> QED
        BY <2>7, <3>2, <3>3 DEF Handle
    <2>8. ASSUME NEW i \in Insts, NEW s \in Signals, ReadSignal(i, s) PROVE TypeOK'
      <3>1. /\ Step(i, "waiting", "checking") /\ sig_fd[i] = "open"
            /\ Told(i, IF s = "int" THEN "term" ELSE s) /\ path' = path
        BY <2>8 DEF ReadSignal
      <3>2. (IF s = "int" THEN "term" ELSE s) \in Signals
        BY DEF Signals
      <3>3. /\ sig' \in [Insts -> SUBSET Signals]
            /\ \A j \in Insts : sig'[j] \subseteq sig[j]
        BY <2>8 DEF ReadSignal, Taken, TypeOK
      <3>4. path' \in Insts \cup {None} /\ "checking" \in Blocked
        BY <3>1 DEF TypeOK, Blocked
      <3> QED
        BY <3>1, <3>2, <3>3, <3>4, ToldTypes, StepTypes
    <2>9. ASSUME NEW i \in Insts, NEW s \in Signals, Signal(i, s) PROVE TypeOK'
      BY <2>9 DEF Signal, sigVars, TypeOK, Running
    <2> QED
      BY <2>1, <2>2, <2>3, <2>4, <2>5, <2>6, <2>7, <2>8, <2>9 DEF Next, Progress
  <1> QED
    BY <1>1, <1>2, PTL DEF Spec

----------------------------------------------------------------------------
(* No quit is lost.  The strengthening: a loop that may go on to wait has    *)
(* sig_fd, since only what also sets quit closes it.                         *)

LoopInv == \A i \in Insts :
    /\ pc[i] = "waiting" => ~quit[i] /\ sig_fd[i] = "open"
    /\ pc[i] = "checking" /\ ~quit[i] => sig_fd[i] = "open"

\* What happens to one process leaves the loop of every other alone.
LEMMA OneProcess ==
    ASSUME TypeOK, LoopInv, NEW i \in Insts,
           \A j \in Insts : j # i =>
               pc'[j] = pc[j] /\ quit'[j] = quit[j] /\ sig_fd'[j] = sig_fd[j],
           pc'[i] = "waiting" => ~quit'[i] /\ sig_fd'[i] = "open",
           pc'[i] = "checking" /\ ~quit'[i] => sig_fd'[i] = "open"
    PROVE  LoopInv'
  BY DEF LoopInv

LEMMA LoopInductive == Spec => []LoopInv
  <1>1. Init => LoopInv
    BY DEF Init, LoopInv
  <1>2. TypeOK /\ LoopInv /\ [Next]_vars => LoopInv'
    <2> SUFFICES ASSUME TypeOK, LoopInv, [Next]_vars PROVE LoopInv'
      OBVIOUS
    <2>1. CASE UNCHANGED vars
      BY <2>1 DEF vars, LoopInv
    <2>2. ASSUME NEW i \in Insts, NEW from, NEW to, Step(i, from, to),
                 to \notin {"waiting", "checking"}, UNCHANGED <<quit, sig_fd>>
          PROVE  LoopInv'
      <3>1. pc'[i] = to /\ \A j \in Insts : j # i => pc'[j] = pc[j]
        BY <2>2 DEF Step, TypeOK
      <3> QED
        BY <2>2, <3>1, OneProcess
    <2>3. ASSUME NEW i \in Insts,
                 \/ Start(i) \/ Unlink(i) \/ Bind(i) \/ Leave(i)
                 \/ WaitFails(i) \/ Unblock(i)
          PROVE  LoopInv'
      BY <2>2, <2>3 DEF Start, Unlink, Bind, Leave, WaitFails, Unblock, sigVars
    <2>4. ASSUME NEW i \in Insts, NEW how \in Ended, End(i, how) PROVE LoopInv'
      <3>1. /\ pc'[i] = how /\ how \notin {"waiting", "checking"}
            /\ \A j \in Insts : j # i =>
                   pc'[j] = pc[j] /\ quit'[j] = quit[j] /\ sig_fd'[j] = sig_fd[j]
        BY <2>4 DEF End, TypeOK, Ended
      <3> QED
        BY <3>1, OneProcess
    <2>5. ASSUME NEW i \in Insts, StartFails(i) \/ Destroy(i) \/ Kill(i) PROVE LoopInv'
      BY <2>4, <2>5 DEF StartFails, Destroy, Kill, Ended
    <2>6. ASSUME NEW i \in Insts, Block(i) PROVE LoopInv'
      <3>1. /\ pc'[i] = "checking" /\ sig_fd'[i] = "open" /\ quit' = quit
            /\ \A j \in Insts : j # i => pc'[j] = pc[j] /\ sig_fd'[j] = sig_fd[j]
        BY <2>6 DEF Block, BlockedFd, Step, TypeOK
      <3> QED
        BY <3>1, OneProcess
    <2>7. ASSUME NEW i \in Insts, Wait(i) PROVE LoopInv'
      <3>1. /\ pc[i] = "checking" /\ pc'[i] = "waiting" /\ ~quit[i]
            /\ quit' = quit /\ sig_fd' = sig_fd
            /\ \A j \in Insts : j # i => pc'[j] = pc[j]
        BY <2>7 DEF Wait, Quitting, Step, TypeOK, sigVars
      <3>2. sig_fd[i] = "open"
        BY <3>1 DEF LoopInv
      <3> QED
        BY <3>1, <3>2, OneProcess
    <2>8. ASSUME NEW i \in Insts, NEW s \in Signals, Handle(i, s) PROVE LoopInv'
      <3>1. CASE Told(i, s) /\ UNCHANGED pc
        <4>1. pc[i] \notin {"waiting", "checking"}
          BY <2>8 DEF Handle, Handled
        <4> QED
          BY <3>1, <4>1, ToldTypes, OneProcess
      <3>2. CASE End(i, "exited")
        BY <2>4, <3>2 DEF Ended
      <3> QED
        BY <2>8, <3>1, <3>2 DEF Handle
    <2>9. ASSUME NEW i \in Insts, NEW s \in Signals, ReadSignal(i, s) PROVE LoopInv'
      <3>1. /\ pc'[i] = "checking" /\ \A j \in Insts : j # i => pc'[j] = pc[j]
        BY <2>9 DEF ReadSignal, Step, TypeOK
      <3>2. \E t \in Signals : Told(i, t)
        BY <2>9 DEF ReadSignal, Signals
      <3> QED
        BY <3>1, <3>2, ToldTypes, OneProcess
    <2>10. ASSUME NEW i \in Insts, NEW s \in Signals, Signal(i, s) PROVE LoopInv'
      BY <2>10 DEF Signal, sigVars, LoopInv
    <2> QED
      BY <2>1, <2>3, <2>5, <2>6, <2>7, <2>8, <2>9, <2>10 DEF Next, Progress
  <1> QED
    BY <1>1, <1>2, ProcessTypes, PTL DEF Spec

\* The service never waits for events when it was told to quit, nor without a
\* sig_fd to read the next signal from (Mgr::loop).
THEOREM QuitKept == Spec => []QuitNotLost
  <1>1. LoopInv => QuitNotLost
    BY DEF LoopInv, QuitNotLost
  <1> QED
    BY <1>1, LoopInductive, PTL

----------------------------------------------------------------------------
(* The path. The strengthening: it never leads to a process that has not      *)
(* bound its socket either, since one whose start fails then leaves it alone. *)

PathInv == path # None => pc[path] \notin {"off", "handled", "unlinked", "gone"}

LEMMA PathInductive == Spec => []PathInv
  <1>1. Init => PathInv
    BY DEF Init, PathInv
  <1>2. TypeOK /\ PathInv /\ [Next]_vars => PathInv'
    <2> SUFFICES ASSUME TypeOK, PathInv, [Next]_vars PROVE PathInv'
      OBVIOUS
    <2>1. CASE UNCHANGED vars
      BY <2>1 DEF vars, PathInv
    <2>2. ASSUME path' = None PROVE PathInv'
      BY <2>2 DEF PathInv
    <2>3. ASSUME NEW i \in Insts, NEW from, NEW to, Step(i, from, to),
                 to \notin {"off", "handled", "unlinked", "gone"}, path' \in {path, i}
          PROVE  PathInv'
      BY <2>3, NoneAssumption DEF Step, PathInv, TypeOK
    <2>4. ASSUME NEW i \in Insts, NEW how, End(i, how), path' = path,
                 \/ how \notin {"off", "handled", "unlinked", "gone"}
                 \/ pc[i] = "handled"
          PROVE  PathInv'
      BY <2>4 DEF End, PathInv, TypeOK
    <2>5. ASSUME NEW i \in Insts, Start(i) PROVE PathInv'
      BY <2>5 DEF Start, Step, PathInv, TypeOK
    <2>6. ASSUME NEW i \in Insts, StartFails(i) PROVE PathInv'
      BY <2>2, <2>4, <2>6 DEF StartFails, Closed
    <2>7. ASSUME NEW i \in Insts, Unlink(i) \/ Destroy(i) PROVE PathInv'
      BY <2>2, <2>7 DEF Unlink, Unlinked, Destroy, Closed
    <2>8. ASSUME NEW i \in Insts,
                 \/ Bind(i) \/ Block(i) \/ Wait(i) \/ Leave(i) \/ WaitFails(i)
                 \/ Unblock(i) \/ \E s \in Signals : ReadSignal(i, s)
          PROVE  PathInv'
      BY <2>3, <2>8 DEF Bind, Block, Wait, Leave, WaitFails, Unblock, ReadSignal
    <2>9. ASSUME NEW i \in Insts, NEW s \in Signals, Handle(i, s) \/ Signal(i, s)
          PROVE  PathInv'
      BY <2>4, <2>9 DEF Handle, Signal, PathInv
    <2>10. ASSUME NEW i \in Insts, Kill(i) PROVE PathInv'
      BY <2>4, <2>10 DEF Kill
    <2> QED
      BY <2>1, <2>5, <2>6, <2>7, <2>8, <2>9, <2>10 DEF Next, Progress
  <1> QED
    BY <1>1, <1>2, ProcessTypes, PTL DEF Spec

\* A process that went through its end, or failed to start, is never whom the path
\* leads to, however many processes start, end and are killed meanwhile
\* (Socket::~Socket).
THEOREM PathsLive == Spec => []NoDeadPath
  <1>1. PathInv => NoDeadPath
    BY DEF PathInv, NoDeadPath
  <1> QED
    BY <1>1, PathInductive, PTL
============================================================================
