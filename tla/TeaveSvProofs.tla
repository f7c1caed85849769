--------------------------- MODULE TeaveSvProofs ---------------------------
(* Theorems about TeaveSv, for every value of its constants.                *)
EXTENDS TeaveSv, TLAPS

Messages == Requests \cup {QuitReq}

----------------------------------------------------------------------------
(* What the operators of TeaveSv return.                                    *)

\* Taking the first message of a queue and adding one at its end.
LEMMA QueueOps ==
    ASSUME NEW S, NEW q \in Seq(S)
    PROVE  /\ q # <<>> => Head(q) \in S /\ Tail(q) \in Seq(S)
           /\ \A m \in S : Append(q, m) \in Seq(S)
  OBVIOUS

\* A graphics request carries a card, the others are of DevReqs.
LEMMA RequestKinds ==
    ASSUME NEW m \in Messages
    PROVE  /\ m.code \in {"gdev", "idev", "vt", "fd", "quit"}
           /\ m.code = "gdev" => m.path \in Cards
           /\ m.code \in {"idev", "vt", "fd"} => m \in DevReqs
           /\ m.code = "quit" => m = QuitReq
  BY DevReqsAssumption DEF Messages, Requests, GdevReqs, QuitReq

\* Responses are built from the paths of requests.
LEMMA ResponseKinds ==
    /\ \A path \in Paths : FdRes(path) \in Responses /\ ErrRes(path) \in Responses
    /\ Cards \subseteq Paths /\ Junk \in Paths
    /\ \A r \in DevReqs : r.path \in Paths
  BY DEF FdRes, ErrRes, Responses, Paths

\* Dropping the active process or keeping it leaves the types of masters alone.
LEMMA DropTypes ==
    ASSUME TypeOK, NEW b \in BOOLEAN
    PROVE  /\ MasterIf(b) \in [Cards -> Procs \cup {None, Foreign}]
           /\ LentIf(b) \in [Cards -> Conns \cup Procs \cup {None}]
  BY DEF TypeOK, MasterIf, LentIf

LEMMA ReplacesType ==
    ASSUME NEW pid
    PROVE  Replaces(pid) \in BOOLEAN
  BY DEF Replaces

LEMMA KeptTypes ==
    ASSUME TypeOK, NEW pid
    PROVE  Kept(pid).gdevs \subseteq Cards /\ Kept(pid).devs \subseteq DevReqs
  BY DEF TypeOK, Kept

\* Closing connections keeps the types of the tables it changes.
LEMMA ClosingTypes ==
    ASSUME TypeOK, NEW S, NEW q \in [Conns -> Seq(Messages)], Closing(S, q)
    PROVE  /\ sock' \in [Conns -> {"unused", "queued", "open", "closed"}]
           /\ node' \in [Conns -> Conns \cup {None}]
           /\ inq' \in [Conns -> Seq(Messages)]
  <1>1. sock' \in [Conns -> {"unused", "queued", "open", "closed"}]
    BY DEF TypeOK, Closing, SockLess
  <1>2. node' \in [Conns -> Conns \cup {None}]
    BY DEF TypeOK, Closing, NodeLess
  <1>3. inq' \in [Conns -> Seq(Messages)]
    BY DEF Closing, InqLess
  <1> QED
    BY <1>1, <1>2, <1>3

\* Reading the first message of one connection.
LEMMA PoppedTypes ==
    ASSUME TypeOK, NEW c \in Conns
    PROVE  /\ [inq EXCEPT ![c] = IF @ = <<>> THEN @ ELSE Tail(@)] \in [Conns -> Seq(Messages)]
           /\ inq[c] # <<>> => /\ [inq EXCEPT ![c] = Tail(@)] \in [Conns -> Seq(Messages)]
                               /\ Head(inq[c]) \in Messages
  <1>1. inq \in [Conns -> Seq(Messages)]
    BY DEF TypeOK, Messages
  <1>2. inq[c] # <<>> => Head(inq[c]) \in Messages /\ Tail(inq[c]) \in Seq(Messages)
    BY <1>1, QueueOps
  <1> QED
    BY <1>1, <1>2

LEMMA PromotionTypes ==
    ASSUME TypeOK, NEW c \in Conns, NEW S, Promotion(c, S)
    PROVE  /\ cur' \in Conns \cup {None} /\ temp' \in Conns \cup {None}
           /\ sock' \in [Conns -> {"unused", "queued", "open", "closed"}]
           /\ node' \in [Conns -> Conns \cup {None}]
           /\ inq' \in [Conns -> Seq(Messages)]
  <1>1. cur' \in Conns \cup {None} /\ temp' \in Conns \cup {None}
    BY DEF TypeOK, Promotion, Promoted
  <1>2. QED
    BY <1>1, PoppedTypes, ClosingTypes DEF Promotion

LEMMA TurnTypes ==
    ASSUME TypeOK, NEW c \in Conns, Turn(c)
    PROVE  /\ waiting' \in Conns \cup {None}
           /\ batch' \subseteq Conns \cup {"listen", "sig"}
  BY DEF TypeOK, Turn

LEMMA ReplyTypes ==
    ASSUME TypeOK, NEW c, NEW m \in Responses, Reply(c, m)
    PROVE  outq' \in [Conns -> Seq(Responses)]
  <1>1. outq \in [Conns -> Seq(Responses)]
    BY DEF TypeOK
  <1>2. \A d \in Conns : Append(outq[d], m) \in Seq(Responses)
    BY <1>1, QueueOps
  <1> QED
    BY <1>1, <1>2 DEF Reply

\* What a handler sends last is typed, and at worst the loop ends with it.
LEMMA SendTypes ==
    ASSUME TypeOK, NEW c, NEW m \in Responses, Send(c, m) \/ SendError(c, m)
    PROVE  outq' \in [Conns -> Seq(Responses)] /\ status' \in Status
  <1>1. outq' \in [Conns -> Seq(Responses)]
    BY ReplyTypes DEF Send, SendError, TypeOK
  <1>2. status' \in Status
    BY DEF Send, SendError, Logged, Status, TypeOK
  <1> QED
    BY <1>1, <1>2

LEMMA SendRuns ==
    ASSUME status = "run", NEW c, NEW m, Send(c, m) \/ SendError(c, m)
    PROVE  status' \in {"run", "exit"}
  BY DEF Send, SendError, Logged

LEMMA CleanupTypes ==
    ASSUME TypeOK, NEW S, Cleanup(S)
    PROVE  /\ cur' = None /\ temp' = None /\ a_p' = NoAct
           /\ sock' \in [Conns -> {"unused", "queued", "open", "closed"}]
           /\ node' \in [Conns -> Conns \cup {None}]
           /\ inq' \in [Conns -> Seq(Messages)]
           /\ master' \in [Cards -> Procs \cup {None, Foreign}]
           /\ lent' \in [Cards -> Conns \cup Procs \cup {None}]
  <1>1. inq \in [Conns -> Seq(Messages)]
    BY DEF TypeOK, Messages
  <1> QED
    BY <1>1, ClosingTypes, DropTypes DEF Cleanup

LEMMA NoActType == NoAct \in
    [pid : Procs \cup {None, Bogus}, gdevs : SUBSET Cards, devs : SUBSET DevReqs]
  BY DEF NoAct

----------------------------------------------------------------------------
(* Type correctness: one lemma per group of actions, then the theorem.      *)

\* The handlers of messages.
LEMMA ServeTypes ==
    ASSUME TypeOK, NEW c \in Conns, Serve(c)
    PROVE  TypeOK'
  <1> DEFINE m == Head(inq[c])
  <1>0. /\ inq[c] # <<>> => m \in Messages
        /\ owner[c] \in Procs \cup {None} /\ status \in Status
    BY PoppedTypes DEF TypeOK
  <1>1. CASE GrantGdev(c)
    <2>1. m \in Messages /\ m.path \in Cards /\ m.code = "gdev"
      BY <1>0, <1>1, RequestKinds DEF GrantGdev, Received
    <2>2. outq' \in [Conns -> Seq(Responses)] /\ status' \in Status
      BY <1>1, <2>1, SendTypes, ResponseKinds DEF GrantGdev
    <2>3. /\ master' \in [Cards -> Procs \cup {None, Foreign}]
          /\ lent' \in [Cards -> Conns \cup Procs \cup {None}]
      BY <1>0, <1>1, DropTypes, ReplacesType DEF GrantGdev
    <2>4. a_p' \in [pid : Procs \cup {None, Bogus}, gdevs : SUBSET Cards, devs : SUBSET DevReqs]
      BY <1>0, <1>1, <2>1, KeptTypes DEF GrantGdev
    <2> QED
      BY <1>1, <2>2, <2>3, <2>4, PromotionTypes, TurnTypes
      DEF GrantGdev, Received, TypeOK, Messages, appVars
  <1>2. CASE FailGdev(c)
    <2>1. m \in Messages /\ m.path \in Cards
      BY <1>0, <1>2, RequestKinds DEF FailGdev, Received
    <2>2. outq' \in [Conns -> Seq(Responses)] /\ status' \in Status
      BY <1>2, <2>1, SendTypes, ResponseKinds DEF FailGdev
    <2>3. /\ master' \in [Cards -> Procs \cup {None, Foreign}]
          /\ lent' \in [Cards -> Conns \cup Procs \cup {None}]
      BY <1>2, DropTypes, ReplacesType DEF FailGdev
    <2>4. a_p' \in [pid : Procs \cup {None, Bogus}, gdevs : SUBSET Cards, devs : SUBSET DevReqs]
      BY <1>0, <1>2, KeptTypes DEF FailGdev
    <2> QED
      BY <1>2, <2>2, <2>3, <2>4, PromotionTypes, TurnTypes
      DEF FailGdev, Received, TypeOK, Messages, appVars
  <1>3. ASSUME NEW opened \in BOOLEAN, ServeDev(c, opened)
        PROVE  TypeOK'
    <2>1. m \in DevReqs /\ m.path \in Paths
      BY <1>0, <1>3, RequestKinds, ResponseKinds DEF ServeDev, Received
    <2>2. outq' \in [Conns -> Seq(Responses)] /\ status' \in Status
      BY <1>3, <2>1, SendTypes, ResponseKinds DEF ServeDev
    <2>3. /\ master' \in [Cards -> Procs \cup {None, Foreign}]
          /\ lent' \in [Cards -> Conns \cup Procs \cup {None}]
      BY <1>3, DropTypes, ReplacesType DEF ServeDev
    <2>4. a_p' \in [pid : Procs \cup {None, Bogus}, gdevs : SUBSET Cards, devs : SUBSET DevReqs]
      BY <1>0, <1>3, <2>1, KeptTypes DEF ServeDev, Stored
    <2> QED
      BY <1>3, <2>2, <2>3, <2>4, PromotionTypes, TurnTypes
      DEF ServeDev, Received, TypeOK, Messages, appVars
  <1>4. CASE ServeQuit(c)
    BY <1>4, DropTypes, NoActType, PromotionTypes, TurnTypes
    DEF ServeQuit, Received, TypeOK, Messages, appVars
  <1>5. CASE Refuse(c)
    <2>1. outq' \in [Conns -> Seq(Responses)] /\ status' \in Status
      BY <1>5, SendTypes, ResponseKinds DEF Refuse
    <2> QED
      BY <1>5, <2>1, PoppedTypes, ClosingTypes, TurnTypes
      DEF Refuse, Received, TypeOK, Messages, drmVars, appVars
  <1>6. ASSUME NEW pid \in Procs \cup {Bogus}, ServeGarbled(c, pid)
        PROVE  TypeOK'
    <2>1. a_p' \in [pid : Procs \cup {None, Bogus}, gdevs : SUBSET Cards, devs : SUBSET DevReqs]
      BY <1>6, KeptTypes DEF ServeGarbled
    <2>2. peer' \in [Conns -> {"none", "up", "hup", "reset"}]
      BY <1>6 DEF ServeGarbled, TypeOK
    <2> QED
      BY <1>6, <2>1, <2>2, DropTypes, ReplacesType, PromotionTypes, TurnTypes
      DEF ServeGarbled, Garbled, TypeOK, Messages, appVars
  <1>7. ASSUME NEW pid, RefuseGarbled(c, pid)
        PROVE  TypeOK'
    BY <1>7, TurnTypes DEF RefuseGarbled, Garbled, Logged, Status, TypeOK, drmVars, appVars
  <1>8. CASE HungUp(c)
    <2>1. inq \in [Conns -> Seq(Messages)]
      BY DEF TypeOK, Messages
    <2> QED
      BY <1>8, <2>1, ClosingTypes, TurnTypes DEF HungUp, TypeOK, Messages, drmVars, appVars
  <1> QED
    BY <1>1, <1>2, <1>3, <1>4, <1>5, <1>6, <1>7, <1>8 DEF Serve

\* The end of the service, by whatever way.
LEMMA EndTypes ==
    ASSUME TypeOK, Death \/ CleanupSignal \/ Finish
    PROVE  TypeOK'
  <1>0. inq \in [Conns -> Seq(Messages)]
    BY DEF TypeOK, Messages
  <1>1. CASE Death
    <2>1. master' \in [Cards -> Procs \cup {None, Foreign}]
      BY <1>1 DEF Death, TypeOK
    <2>2. Closing(Owned \cup Queued, inq)
      BY <1>1 DEF Death, Ended
    <2>3. /\ sock' \in [Conns -> {"unused", "queued", "open", "closed"}]
          /\ node' \in [Conns -> Conns \cup {None}]
          /\ inq' \in [Conns -> Seq(Requests \cup {QuitReq})]
      BY <1>0, <2>2, ClosingTypes DEF Messages
    <2>4. backlog' \in Seq(Conns)
      BY <1>1 DEF Death, Ended
    <2> QED
      BY <1>1, <2>1, <2>3, <2>4, NoActType DEF Death, Ended, TypeOK, appVars, Status
  <1>2. CASE CleanupSignal
    BY <1>2, CleanupTypes, NoActType DEF CleanupSignal, TypeOK, Messages, appVars, Status
  <1>3. CASE Finish
    BY <1>3, CleanupTypes, NoActType DEF Finish, TypeOK, Messages, appVars, Status
  <1> QED
    BY <1>1, <1>2, <1>3

\* The event loop and the acceptance of connections.
LEMMA LoopTypes ==
    ASSUME TypeOK, EpollWait \/ EpollInterrupted \/ RecvBlocks \/ QuitSignal
                   \/ Restart \/ Accept \/ AcceptFails
    PROVE  TypeOK'
  <1> USE DEF soVars, drmVars, appVars
  <1>1. CASE EpollWait
    BY <1>1 DEF EpollWait, Ready, TypeOK
  <1>2. CASE EpollInterrupted
    BY <1>2 DEF EpollInterrupted, TypeOK, Status
  <1>3. CASE RecvBlocks
    BY <1>3 DEF RecvBlocks, TypeOK
  <1>4. CASE QuitSignal
    BY <1>4 DEF QuitSignal, TypeOK, Status
  <1>5. CASE Restart
    BY <1>5 DEF Restart, TypeOK, Status
  <1>6. CASE Accept
    <2>1. Head(backlog) \in Conns /\ Tail(backlog) \in Seq(Conns)
      BY <1>6, QueueOps DEF Accept, TypeOK
    <2>2. sock' \in [Conns -> {"unused", "queued", "open", "closed"}]
      BY <1>6, <2>1 DEF Accept, SockLess, TypeOK
    <2>3. node' \in [Conns -> Conns \cup {None}]
      <3>1. PICK R : node' = [e \in Conns |->
                IF e \in {Head(backlog)} \cup R THEN Head(backlog) ELSE NodeLess({temp})[e]]
        BY <1>6 DEF Accept
      <3>2. NodeLess({temp}) \in [Conns -> Conns \cup {None}]
        BY DEF NodeLess, TypeOK
      <3> QED
        BY <2>1, <3>1, <3>2
    <2>4. inq' \in [Conns -> Seq(Requests \cup {QuitReq})]
      BY <1>6 DEF Accept, InqLess, TypeOK
    <2> QED
      BY <1>6, <2>1, <2>2, <2>3, <2>4 DEF Accept, TypeOK
  <1>7. CASE AcceptFails
    BY <1>7 DEF AcceptFails, Logged, Status, TypeOK
  <1> QED
    BY <1>1, <1>2, <1>3, <1>4, <1>5, <1>6, <1>7

\* The applications and the world around.
LEMMA EnvironmentTypes ==
    ASSUME TypeOK, Environment
    PROVE  TypeOK'
  <1> USE DEF svVars, soVars, drmVars, appVars
  <1>1. ASSUME NEW c \in Conns, NEW p \in Procs, Connect(c, p) PROVE TypeOK'
    <2>1. backlog' \in Seq(Conns)
      BY <1>1, QueueOps DEF Connect, TypeOK
    <2> QED
      BY <1>1, <2>1 DEF Connect, TypeOK
  <1>2. ASSUME NEW c \in Conns, NEW r \in Requests, SendReq(c, r) PROVE TypeOK'
    <2>1. Append(inq[c], r) \in Seq(Requests \cup {QuitReq})
      BY QueueOps DEF TypeOK
    <2> QED
      BY <1>2, <2>1 DEF SendReq, TypeOK
  <1>3. ASSUME NEW c \in Conns, SendQuit(c) PROVE TypeOK'
    <2>1. Append(inq[c], QuitReq) \in Seq(Requests \cup {QuitReq})
      BY QueueOps DEF TypeOK
    <2> QED
      BY <1>3, <2>1 DEF SendQuit, TypeOK
  <1>4. ASSUME NEW c \in Conns, RecvRes(c) PROVE TypeOK'
    <2>1. Tail(outq[c]) \in Seq(Responses)
      BY <1>4, QueueOps DEF RecvRes, TypeOK
    <2>2. lent' \in [Cards -> Conns \cup Procs \cup {None}]
      BY <1>4 DEF RecvRes, TypeOK
    <2> QED
      BY <1>4, <2>1, <2>2 DEF RecvRes, TypeOK
  <1>5. ASSUME NEW c \in Conns, RecvEnd(c) PROVE TypeOK'
    BY <1>5 DEF RecvEnd, TypeOK
  <1>6. ASSUME NEW C, NEW P, Hangup(C, P), gone' \subseteq Procs PROVE TypeOK'
    <2>1. outq' \in [Conns -> Seq(Responses)]
      BY <1>6 DEF Hangup, TypeOK
    <2>2. peer' \in [Conns -> {"none", "up", "hup", "reset"}]
      BY <1>6 DEF Hangup, TypeOK
    <2>3. /\ master' \in [Cards -> Procs \cup {None, Foreign}]
          /\ lent' \in [Cards -> Conns \cup Procs \cup {None}]
      BY <1>6 DEF Hangup, TypeOK
    <2>4. want' \in [Conns -> Requests \cup {None}]
      BY <1>6 DEF Hangup, TypeOK
    <2> QED
      BY <1>6, <2>1, <2>2, <2>3, <2>4 DEF Hangup, TypeOK
  <1>7. ASSUME NEW c \in Conns, Disconnect(c) PROVE TypeOK'
    BY <1>6, <1>7 DEF Disconnect, TypeOK
  <1>8. ASSUME NEW p \in Procs, Exit(p) PROVE TypeOK'
    BY <1>6, <1>8 DEF Exit, TypeOK
  <1>9. ASSUME NEW k \in Cards, ForeignTakes(k) \/ ForeignDrops(k) PROVE TypeOK'
    BY <1>9 DEF ForeignTakes, ForeignDrops, TypeOK
  <1>10. ASSUME NEW s \in Sigs, Signal(s) PROVE TypeOK'
    BY <1>10 DEF Signal, TypeOK
  <1> QED
    BY <1>1, <1>2, <1>3, <1>4, <1>5, <1>7, <1>8, <1>9, <1>10, LoopTypes, EndTypes
    DEF Environment, Killed

\* The variables keep their types in every state of every behaviour, with any
\* number of connections, processes and cards, in both modes.
THEOREM TypeCorrect == Spec => []TypeOK
  <1>1. Init => TypeOK
    BY NoActType DEF Init, TypeOK, Status
  <1>2. TypeOK /\ [Next]_vars => TypeOK'
    <2> SUFFICES ASSUME TypeOK, [Next]_vars PROVE TypeOK'
      OBVIOUS
    <2>1. CASE Service
      BY <2>1, ServeTypes, LoopTypes, EndTypes DEF Service, StaleCall
    <2>2. CASE Environment
      BY <2>2, EnvironmentTypes
    <2>3. CASE UNCHANGED vars
      BY <2>3 DEF vars, svVars, soVars, drmVars, appVars, TypeOK
    <2> QED
      BY <2>1, <2>2, <2>3 DEF Next
  <1> QED
    BY <1>1, <1>2, PTL DEF Spec

----------------------------------------------------------------------------
(* DRM masters.  MasterBacked is not inductive by itself: a card of nobody's *)
(* table could be listed under the pid None, or granted to a sender None.    *)

MasterInv ==
    /\ MasterBacked
    /\ a_p.pid = None => a_p.gdevs = {}
    /\ \A c \in Conns : peer[c] # "none" => owner[c] \in Procs
    /\ \A c \in Conns : inq[c] # <<>> => owner[c] \in Procs

\* Whoever is admitted without a new Act_proc is the active process already.
LEMMA AdmittedHolder ==
    ASSUME NEW pid, Admitted(pid), ~Replaces(pid)
    PROVE  a_p.pid = pid /\ Mode # "dev" /\ a_p.pid # None
  BY DEF Admitted, Replaces

\* The devices kept are those of the sender, and their masters are untouched.
LEMMA KeptBacked ==
    ASSUME TypeOK, MasterInv, NEW pid, Admitted(pid)
    PROVE  \A k \in Kept(pid).gdevs : k \in Cards /\ MasterIf(Replaces(pid))[k] = pid
  <1>1. CASE Replaces(pid)
    BY <1>1 DEF Kept
  <1>2. CASE ~Replaces(pid)
    <2>1. Kept(pid).gdevs = a_p.gdevs /\ a_p.pid = pid
      BY <1>2, AdmittedHolder DEF Kept
    <2> QED
      BY <1>2, <2>1 DEF MasterIf, MasterInv, MasterBacked, TypeOK
  <1> QED
    BY <1>1, <1>2

\* Closing connections and reading messages adds no message.
LEMMA ClosingSenders ==
    ASSUME MasterInv, NEW S, NEW q, owner' = owner, Closing(S, q),
           \A d \in Conns : q[d] # <<>> => inq[d] # <<>>
    PROVE  \A d \in Conns : inq'[d] # <<>> => owner'[d] \in Procs
  BY DEF MasterInv, Closing, InqLess

LEMMA PromotionSenders ==
    ASSUME TypeOK, MasterInv, NEW c \in Conns, NEW S, owner' = owner, Promotion(c, S)
    PROVE  \A d \in Conns : inq'[d] # <<>> => owner'[d] \in Procs
  <1> DEFINE q == [inq EXCEPT ![c] = IF @ = <<>> THEN @ ELSE Tail(@)]
  <1>1. \A d \in Conns : q[d] # <<>> => inq[d] # <<>>
    BY DEF TypeOK
  <1>2. PICK T : Closing(T, q)
    BY DEF Promotion
  <1> QED
    BY <1>1, <1>2, ClosingSenders

LEMMA ServeMasters ==
    ASSUME TypeOK, MasterInv, NEW c \in Conns, Serve(c)
    PROVE  MasterInv'
  <1> DEFINE m == Head(inq[c])
  <1>0. inq[c] # <<>> => m \in Messages /\ owner[c] \in Procs
    BY PoppedTypes DEF MasterInv
  <1>1. CASE GrantGdev(c)
    <2>1. owner[c] \in Procs /\ m.path \in Cards /\ owner[c] # None
      BY <1>0, <1>1, RequestKinds, NamesAssumption DEF GrantGdev, Received
    <2>2. a_p'.pid = owner[c] /\ a_p'.gdevs = Kept(owner[c]).gdevs \cup {m.path}
      BY <1>1 DEF GrantGdev
    <2>3. \A k \in Kept(owner[c]).gdevs : k \in Cards /\ MasterIf(Replaces(owner[c]))[k] = owner[c]
      BY <1>1, KeptBacked DEF GrantGdev
    <2>4. master' = [MasterIf(Replaces(owner[c])) EXCEPT ![m.path] = owner[c]]
      BY <1>1 DEF GrantGdev
    <2>5. MasterIf(Replaces(owner[c])) \in [Cards -> Procs \cup {None, Foreign}]
      BY DropTypes, ReplacesType
    <2>6. MasterBacked' /\ (a_p.pid = None => a_p.gdevs = {})'
      BY <2>1, <2>2, <2>3, <2>4, <2>5 DEF MasterBacked
    <2> QED
      BY <1>1, <2>6, PromotionSenders DEF GrantGdev, MasterInv
  <1>2. ASSUME NEW pid, Admitted(pid), pid # None, a_p'.pid = pid,
               a_p'.gdevs = Kept(pid).gdevs, master' = MasterIf(Replaces(pid))
        PROVE  MasterBacked' /\ (a_p.pid = None => a_p.gdevs = {})'
    BY <1>2, KeptBacked DEF MasterBacked
  <1>3. CASE FailGdev(c)
    <2>1. owner[c] # None
      BY <1>0, <1>3, NamesAssumption DEF FailGdev, Received
    <2> QED
      BY <1>2, <1>3, <2>1, PromotionSenders DEF FailGdev, MasterInv
  <1>4. ASSUME NEW opened \in BOOLEAN, ServeDev(c, opened)
        PROVE  MasterInv'
    <2>1. owner[c] # None
      BY <1>0, <1>4, NamesAssumption DEF ServeDev, Received
    <2> QED
      BY <1>2, <1>4, <2>1, PromotionSenders DEF ServeDev, MasterInv
  <1>5. CASE ServeQuit(c)
    BY <1>5, PromotionSenders DEF ServeQuit, MasterInv, MasterBacked, NoAct
  <1>6. CASE Refuse(c)
    <2>1. \A d \in Conns : [inq EXCEPT ![c] = Tail(@)][d] # <<>> => inq[d] # <<>>
      BY <1>6 DEF Refuse, Received, TypeOK
    <2>2. \A d \in Conns : inq'[d] # <<>> => owner'[d] \in Procs
      BY <1>6, <2>1, ClosingSenders DEF Refuse
    <2> QED
      BY <1>6, <2>2 DEF Refuse, drmVars, MasterInv, MasterBacked
  <1>7. ASSUME NEW pid \in Procs \cup {Bogus}, ServeGarbled(c, pid)
        PROVE  MasterInv'
    <2>1. \A d \in Conns : peer'[d] # "none" => owner'[d] \in Procs
      BY <1>7 DEF ServeGarbled, Garbled, MasterInv, TypeOK
    <2>2. MasterBacked' /\ (a_p.pid = None => a_p.gdevs = {})'
      BY <1>2, <1>7, NamesAssumption DEF ServeGarbled
    <2> QED
      BY <1>7, <2>1, <2>2, PromotionSenders DEF ServeGarbled, MasterInv
  <1>8. ASSUME NEW pid, RefuseGarbled(c, pid)
        PROVE  MasterInv'
    BY <1>8 DEF RefuseGarbled, Garbled, drmVars, MasterInv, MasterBacked, TypeOK
  <1>9. CASE HungUp(c)
    <2>1. \A d \in Conns : inq'[d] # <<>> => owner'[d] \in Procs
      BY <1>9, ClosingSenders DEF HungUp
    <2> QED
      BY <1>9, <2>1 DEF HungUp, drmVars, MasterInv, MasterBacked
  <1> QED
    BY <1>1, <1>3, <1>4, <1>5, <1>6, <1>7, <1>8, <1>9 DEF Serve

LEMMA EndMasters ==
    ASSUME MasterInv, Death \/ CleanupSignal \/ Finish
    PROVE  MasterInv'
  <1>1. a_p' = NoAct /\ owner' = owner /\ peer' = peer
    BY DEF Death, Ended, CleanupSignal, Finish, Cleanup
  <1>2. PICK S : Closing(S, inq)
    BY DEF Death, Ended, CleanupSignal, Finish, Cleanup
  <1>3. \A d \in Conns : inq'[d] # <<>> => owner'[d] \in Procs
    BY <1>1, <1>2, ClosingSenders
  <1> QED
    BY <1>1, <1>3 DEF MasterInv, MasterBacked, NoAct

LEMMA LoopMasters ==
    ASSUME MasterInv, EpollWait \/ EpollInterrupted \/ RecvBlocks \/ QuitSignal
                      \/ Restart \/ Accept \/ AcceptFails
    PROVE  MasterInv'
  <1>1. a_p' = a_p /\ owner' = owner /\ peer' = peer /\ master' = master
    BY DEF EpollWait, EpollInterrupted, RecvBlocks, QuitSignal, Restart, Accept,
           AcceptFails, soVars, drmVars
  <1>2. \A d \in Conns : inq'[d] # <<>> => inq[d] # <<>>
    BY DEF EpollWait, EpollInterrupted, RecvBlocks, QuitSignal, Restart, Accept,
           AcceptFails, soVars, InqLess
  <1> QED
    BY <1>1, <1>2 DEF MasterInv, MasterBacked

LEMMA EnvironmentMasters ==
    ASSUME TypeOK, MasterInv, Environment
    PROVE  MasterInv'
  <1> USE DEF svVars, soVars, drmVars, appVars, MasterInv, MasterBacked
  <1>1. ASSUME NEW c \in Conns, NEW p \in Procs, Connect(c, p) PROVE MasterInv'
    BY <1>1 DEF Connect, TypeOK
  <1>2. ASSUME NEW c \in Conns, NEW r \in Requests, SendReq(c, r) PROVE MasterInv'
    BY <1>2 DEF SendReq, CanSend, TypeOK
  <1>3. ASSUME NEW c \in Conns, SendQuit(c) PROVE MasterInv'
    BY <1>3 DEF SendQuit, CanSend, TypeOK
  <1>4. ASSUME NEW c \in Conns, RecvRes(c) \/ RecvEnd(c) PROVE MasterInv'
    BY <1>4 DEF RecvRes, RecvEnd
  <1>5. ASSUME NEW C, NEW P, Hangup(C, P),
               \A c \in C \cap Conns : peer[c] = "up" PROVE MasterInv'
    <2>1. MasterBacked'
      BY <1>5 DEF Hangup, TypeOK
    <2>2. \A c \in Conns : peer'[c] # "none" => owner'[c] \in Procs
      BY <1>5 DEF Hangup, TypeOK
    <2> QED
      BY <1>5, <2>1, <2>2 DEF Hangup
  <1>6. ASSUME NEW c \in Conns, Disconnect(c) PROVE MasterInv'
    BY <1>5, <1>6 DEF Disconnect
  <1>7. ASSUME NEW p \in Procs, Exit(p) PROVE MasterInv'
    BY <1>5, <1>7 DEF Exit
  <1>8. ASSUME NEW k \in Cards, ForeignTakes(k) \/ ForeignDrops(k) PROVE MasterInv'
    <2>1. k \notin a_p.gdevs
      BY <1>8, NamesAssumption DEF ForeignTakes, ForeignDrops, TypeOK
    <2> QED
      BY <1>8, <2>1 DEF ForeignTakes, ForeignDrops, TypeOK
  <1>9. ASSUME NEW s \in Sigs, Signal(s) PROVE MasterInv'
    BY <1>9 DEF Signal
  <1> QED
    BY <1>1, <1>2, <1>3, <1>4, <1>6, <1>7, <1>8, <1>9, LoopMasters, EndMasters
    DEF Environment, Killed

LEMMA MastersInductive == Spec => []MasterInv
  <1>1. Init => MasterInv
    BY DEF Init, MasterInv, MasterBacked, NoAct
  <1>2. TypeOK /\ MasterInv /\ [Next]_vars => MasterInv'
    <2> SUFFICES ASSUME TypeOK, MasterInv, [Next]_vars PROVE MasterInv'
      OBVIOUS
    <2>1. CASE Service
      BY <2>1, ServeMasters, LoopMasters, EndMasters DEF Service, StaleCall
    <2>2. CASE Environment
      BY <2>2, EnvironmentMasters
    <2>3. CASE UNCHANGED vars
      BY <2>3 DEF vars, svVars, soVars, drmVars, appVars, MasterInv, MasterBacked
    <2> QED
      BY <2>1, <2>2, <2>3 DEF Next
  <1> QED
    BY <1>1, <1>2, TypeCorrect, PTL DEF Spec

\* No card of the active process' table is programmed by anybody else, in
\* either mode: not after a failed request, a garbled receive, a signal, a
\* crash and restart, or another display server's attempts.
THEOREM MastersBacked == Spec => []MasterBacked
  <1>1. MasterInv => MasterBacked
    BY DEF MasterInv
  <1> QED
    BY <1>1, MastersInductive, PTL

----------------------------------------------------------------------------
(* Connections.  ConnsAccounted is inductive, given the types; its parts.   *)

Accounts ==
    /\ {c \in Conns : sock[c] = "open"} = Owned
    /\ cur = temp => cur = None
    /\ \A c \in Conns : node[c] = c <=> c \in Owned
    /\ \A e \in Conns : node[e] \in Owned \cup {None}

Queues ==
    /\ {c \in Conns : sock[c] = "queued"} = {backlog[i] : i \in 1..Len(backlog)}
    /\ \A i, j \in 1..Len(backlog) : backlog[i] = backlog[j] => i = j

\* Closing connections the service then no longer owns keeps the accounts.
LEMMA ClosingAccounts ==
    ASSUME TypeOK, Accounts, NEW S, NEW q, Closing(S, q),
           Owned' = Owned \ S, (cur = temp => cur = None)'
    PROVE  Accounts'
  <1>1. /\ \A c \in Conns : sock'[c] = IF c \in S THEN "closed" ELSE sock[c]
        /\ \A c \in Conns : node'[c] = IF node[c] \in S THEN None ELSE node[c]
    BY DEF Closing, SockLess, NodeLess
  <1>2. Owned \subseteq Conns /\ None \notin Conns
    BY NamesAssumption DEF Owned, TypeOK
  <1>3. {c \in Conns : sock'[c] = "open"} = Owned'
    BY <1>1, <1>2 DEF Accounts
  <1>4. \A c \in Conns : node'[c] = c <=> c \in Owned'
    BY <1>1, <1>2 DEF Accounts
  <1>5. \A e \in Conns : node'[e] \in Owned' \cup {None}
    BY <1>1, <1>2 DEF Accounts
  <1> QED
    BY <1>3, <1>4, <1>5 DEF Accounts

\* Connections the service owns are not queued, so queues do not notice.
LEMMA ClosingQueues ==
    ASSUME TypeOK, Accounts, Queues, NEW S, NEW q, Closing(S, q),
           S \subseteq Owned, backlog' = backlog
    PROVE  Queues'
  <1>1. \A c \in Conns : sock'[c] = "queued" <=> sock[c] = "queued"
    BY DEF Closing, SockLess, Accounts
  <1> QED
    BY <1>1 DEF Queues

\* Events lead to connections the service owns.
LEMMA TurnOwned ==
    ASSUME ConnsAccounted, NEW c \in Conns, Turn(c)
    PROVE  c \in Owned /\ status = "run" /\ waiting' = None
  BY NamesAssumption DEF ConnsAccounted, Turn

LEMMA PromotionAccounts ==
    ASSUME TypeOK, ConnsAccounted, NEW c \in Owned, NEW S, S \in {{}, {Promoted(c)}},
           Promotion(c, S), backlog' = backlog, status' \in {"run", "exit"}, waiting' = None
    PROVE  ConnsAccounted' /\ Promoted(c) = c
  <1>1. Promoted(c) = c /\ c # None /\ c \in Conns
    BY DEF Promoted, Owned, TypeOK
  <1> DEFINE T == S \cup (Owned \ {Promoted(c), IF cur = c THEN temp ELSE None})
  <1>2. PICK q : Closing(T, q)
    BY DEF Promotion
  <1>3. /\ cur' = IF S = {} THEN c ELSE None
        /\ temp' = IF cur = c THEN temp ELSE None
    BY <1>1 DEF Promotion
  <1>4. cur = temp => cur = None
    BY DEF ConnsAccounted
  <1>5. Owned' = Owned \ T /\ T \subseteq Owned
    BY <1>1, <1>3, <1>4 DEF Owned
  <1>6. (cur = temp => cur = None)'
    BY <1>1, <1>3, <1>4
  <1>7. Accounts /\ Queues
    BY DEF ConnsAccounted, Accounts, Queues
  <1>8. Accounts'
    BY <1>2, <1>5, <1>6, <1>7, ClosingAccounts
  <1>9. Queues'
    BY <1>2, <1>5, <1>7, ClosingQueues
  <1> QED
    BY <1>1, <1>8, <1>9 DEF ConnsAccounted, Accounts, Queues

LEMMA ServeAccounts ==
    ASSUME TypeOK, ConnsAccounted, NEW c \in Conns, Serve(c)
    PROVE  ConnsAccounted'
  <1>0. c \in Owned /\ status = "run" /\ waiting' = None
    BY TurnOwned DEF Serve, GrantGdev, FailGdev, ServeDev, ServeQuit, Refuse, ServeGarbled,
       RefuseGarbled, HungUp, Received, Garbled
  <1>1. Accounts /\ Queues
    BY DEF ConnsAccounted, Accounts, Queues
  <1>2. CASE GrantGdev(c)
    BY <1>0, <1>2, SendRuns, PromotionAccounts DEF GrantGdev
  <1>3. CASE FailGdev(c)
    BY <1>0, <1>3, SendRuns, PromotionAccounts DEF FailGdev
  <1>4. CASE ServeDev(c, TRUE) \/ ServeDev(c, FALSE)
    BY <1>0, <1>4, SendRuns, PromotionAccounts DEF ServeDev
  <1>5. CASE ServeQuit(c)
    BY <1>0, <1>5, PromotionAccounts DEF ServeQuit
  <1>6. CASE Refuse(c)
    <2>1. PICK q : Closing({}, q)
      BY <1>6 DEF Refuse
    <2>2. /\ cur' = cur /\ temp' = temp /\ backlog' = backlog /\ a_p' = a_p
          /\ status' \in {"run", "exit"}
      BY <1>0, <1>6, SendRuns DEF Refuse
    <2>3. Accounts'
      BY <1>1, <2>1, <2>2, ClosingAccounts DEF Owned, Accounts
    <2>4. Queues'
      BY <1>1, <2>1, <2>2, ClosingQueues
    <2> QED
      BY <1>0, <2>2, <2>3, <2>4 DEF ConnsAccounted, Accounts, Queues
  <1>7. ASSUME NEW pid, ServeGarbled(c, pid)
        PROVE  ConnsAccounted'
    BY <1>0, <1>7, PromotionAccounts DEF ServeGarbled
  <1>8. ASSUME NEW pid, RefuseGarbled(c, pid)
        PROVE  ConnsAccounted'
    BY <1>0, <1>8 DEF RefuseGarbled, Logged, ConnsAccounted, Owned
  <1>9. CASE HungUp(c)
    <2>1. Promoted(c) = c /\ c # None /\ (cur = temp => cur = None)
      BY <1>0 DEF Promoted, Owned, ConnsAccounted
    <2>2. /\ cur' = IF cur = c THEN None ELSE cur
          /\ temp' = IF cur = c THEN temp ELSE None
          /\ Closing({c}, inq) /\ backlog' = backlog /\ status' = "run"
      BY <1>0, <1>9, <2>1 DEF HungUp
    <2>3. Owned' = Owned \ {c} /\ (cur = temp => cur = None)'
      BY <1>0, <2>1, <2>2 DEF Owned
    <2>4. Accounts' /\ Queues'
      BY <1>0, <1>1, <2>2, <2>3, ClosingAccounts, ClosingQueues
    <2> QED
      BY <1>0, <2>2, <2>4 DEF ConnsAccounted, Accounts, Queues
  <1> QED
    BY <1>2, <1>3, <1>4, <1>5, <1>6, <1>7, <1>8, <1>9 DEF Serve

LEMMA EndAccounts ==
    ASSUME TypeOK, ConnsAccounted, Death \/ CleanupSignal \/ Finish
    PROVE  ConnsAccounted'
  <1>1. Accounts /\ Queues
    BY DEF ConnsAccounted, Accounts, Queues
  <1>2. /\ cur' = None /\ temp' = None /\ a_p' = NoAct
        /\ Owned' = {} /\ (cur = temp => cur = None)'
    BY DEF Death, Ended, CleanupSignal, Finish, Cleanup, Owned
  <1>3. CASE Death \/ Finish
    <2>1. Closing(Owned \cup Queued, inq) /\ backlog' = <<>> /\ waiting' = None
      BY <1>3 DEF Death, Ended, Finish, Cleanup
    <2>2. Owned' = Owned \ (Owned \cup Queued)
      BY <1>2
    <2>3. Accounts'
      BY <1>1, <1>2, <2>1, <2>2, ClosingAccounts
    <2>4. Queues'
      <3>1. \A c \in Conns : sock'[c] # "queued"
        BY <2>1 DEF Closing, SockLess, Queued
      <3> QED
        BY <2>1, <3>1 DEF Queues
    <2> QED
      BY <1>2, <2>1, <2>3, <2>4 DEF ConnsAccounted, Accounts, Queues
  <1>4. CASE CleanupSignal
    <2>1. Closing(Owned \cup {}, inq) /\ backlog' = backlog /\ waiting' = None
      BY <1>4 DEF CleanupSignal, Cleanup, Dispatching
    <2>2. Owned' = Owned \ (Owned \cup {})
      BY <1>2
    <2>3. Accounts'
      BY <1>1, <1>2, <2>1, <2>2, ClosingAccounts
    <2>4. Queues'
      BY <1>1, <2>1, ClosingQueues
    <2> QED
      BY <1>2, <2>1, <2>3, <2>4 DEF ConnsAccounted, Accounts, Queues
  <1> QED
    BY <1>3, <1>4

\* What the queue of connections is after one is accepted.
LEMMA TailQueues ==
    ASSUME NEW q \in Seq(Conns), q # <<>>,
           \A i, j \in 1..Len(q) : q[i] = q[j] => i = j
    PROVE  /\ {Tail(q)[i] : i \in 1..Len(Tail(q))} = {q[i] : i \in 1..Len(q)} \ {Head(q)}
           /\ \A i, j \in 1..Len(Tail(q)) : Tail(q)[i] = Tail(q)[j] => i = j
  <1>1. /\ Len(Tail(q)) = Len(q) - 1 /\ Len(q) \in Nat \ {0}
        /\ \A i \in 1..Len(q) - 1 : Tail(q)[i] = q[i + 1]
        /\ Head(q) = q[1]
    OBVIOUS
  <1>2. \A i, j \in 1..Len(Tail(q)) : Tail(q)[i] = Tail(q)[j] => i = j
    <2> TAKE i \in 1..Len(Tail(q)), j \in 1..Len(Tail(q))
    <2>1. i + 1 \in 1..Len(q) /\ j + 1 \in 1..Len(q) /\ i \in Nat /\ j \in Nat
      BY <1>1
    <2>2. Tail(q)[i] = q[i + 1] /\ Tail(q)[j] = q[j + 1]
      BY <1>1
    <2>3. q[i + 1] = q[j + 1] => i + 1 = j + 1
      BY <2>1
    <2> QED
      BY <2>1, <2>2, <2>3
  <1>3. {Tail(q)[i] : i \in 1..Len(Tail(q))} \subseteq {q[i] : i \in 1..Len(q)} \ {Head(q)}
    <2> SUFFICES ASSUME NEW i \in 1..Len(Tail(q))
                 PROVE  Tail(q)[i] \in {q[l] : l \in 1..Len(q)} \ {q[1]}
      BY <1>1
    <2>1. i + 1 \in 1..Len(q) /\ 1 \in 1..Len(q) /\ i + 1 # 1 /\ Tail(q)[i] = q[i + 1]
      BY <1>1
    <2>2. q[i + 1] # q[1]
      BY <2>1
    <2> QED
      BY <2>1, <2>2
  <1>4. {q[i] : i \in 1..Len(q)} \ {Head(q)} \subseteq {Tail(q)[i] : i \in 1..Len(Tail(q))}
    <2> SUFFICES ASSUME NEW i \in 1..Len(q), q[i] # q[1]
                 PROVE  \E l \in 1..Len(Tail(q)) : q[i] = Tail(q)[l]
      BY <1>1
    <2>1. i - 1 \in 1..Len(Tail(q)) /\ (i - 1) + 1 = i
      BY <1>1
    <2> QED
      BY <1>1, <2>1
  <1> QED
    BY <1>2, <1>3, <1>4

\* ... and after a new one is queued.
LEMMA AppendQueues ==
    ASSUME NEW q \in Seq(Conns), NEW c \in Conns, c \notin {q[i] : i \in 1..Len(q)},
           \A i, j \in 1..Len(q) : q[i] = q[j] => i = j
    PROVE  LET r == Append(q, c)
           IN  /\ {r[i] : i \in 1..Len(r)} = {q[i] : i \in 1..Len(q)} \cup {c}
               /\ \A i, j \in 1..Len(r) : r[i] = r[j] => i = j
  <1> DEFINE r == Append(q, c)
  <1>1. /\ Len(r) = Len(q) + 1 /\ Len(q) \in Nat /\ r[Len(r)] = c
        /\ \A i \in 1..Len(q) : r[i] = q[i]
    OBVIOUS
  <1>2. \A i \in 1..Len(r) : i \in 1..Len(q) \/ i = Len(r)
    BY <1>1
  <1>3. 1..Len(q) \subseteq 1..Len(r) /\ Len(r) \in 1..Len(r)
    BY <1>1
  <1> HIDE DEF r
  <1>4. {r[i] : i \in 1..Len(r)} = {q[i] : i \in 1..Len(q)} \cup {c}
    BY <1>1, <1>2, <1>3
  <1>5. \A i, j \in 1..Len(r) : r[i] = r[j] => i = j
    BY <1>1, <1>2
  <1> QED
    BY <1>4, <1>5 DEF r

\* The event loop: accepting a connection is the only step that matters.
LEMMA LoopAccounts ==
    ASSUME TypeOK, ConnsAccounted,
           EpollWait \/ EpollInterrupted \/ RecvBlocks \/ QuitSignal
           \/ Restart \/ Accept \/ AcceptFails
    PROVE  ConnsAccounted'
  <1> USE DEF soVars, drmVars, appVars
  <1>0. None \notin Conns
    BY NamesAssumption
  <1>1. CASE EpollWait
    BY <1>0, <1>1 DEF EpollWait, ConnsAccounted, Owned, TypeOK
  <1>2. CASE EpollInterrupted \/ RecvBlocks \/ QuitSignal \/ AcceptFails
    BY <1>2 DEF EpollInterrupted, RecvBlocks, QuitSignal, AcceptFails, Logged, Dispatching,
       ConnsAccounted, Owned
  <1>3. CASE Restart
    BY <1>3 DEF Restart, ConnsAccounted, Owned
  <1>4. CASE Accept
    <2> DEFINE c == Head(backlog)
               Rest == Owned \ {temp}
    <2>1. /\ c \in Conns /\ c # None /\ backlog' = Tail(backlog)
          /\ temp' = c /\ cur' = cur /\ status' = "run" /\ waiting = None /\ waiting' = None
          /\ sock[c] = "queued"
      <3>1. backlog \in Seq(Conns) /\ backlog # <<>>
        BY <1>4 DEF Accept, TypeOK
      <3>2. c \in Conns /\ c \in {backlog[i] : i \in 1..Len(backlog)}
        BY <3>1
      <3> QED
        BY <1>0, <1>4, <3>2 DEF Accept, Dispatching, ConnsAccounted
    <2>2. c \notin Owned
      BY <2>1 DEF ConnsAccounted
    <2>3. Owned' = Rest \cup {c} /\ (cur = temp => cur = None)'
      BY <2>1, <2>2 DEF Owned, ConnsAccounted
    <2>4. \A d \in Conns : sock'[d] =
              IF d = c THEN "open" ELSE IF d = temp THEN "closed" ELSE sock[d]
      BY <1>4, <2>1 DEF Accept, SockLess, TypeOK
    <2>5. {d \in Conns : sock'[d] = "open"} = Owned'
      BY <2>1, <2>3, <2>4 DEF ConnsAccounted
    <2>6. PICK R \in Overlaid : node' =
              [e \in Conns |-> IF e \in {c} \cup R THEN c ELSE NodeLess({temp})[e]]
      BY <1>4 DEF Accept
    <2>7. \A e \in R : e \in Conns /\ NodeLess({temp})[e] = None
      BY DEF Overlaid
    <2>8. \A e \in Conns : NodeLess({temp})[e] =
              IF node[e] = temp THEN None ELSE node[e]
      BY DEF NodeLess
    <2>9. \A e \in Conns : e \in Rest => e \notin R
      BY <1>0, <2>7, <2>8 DEF ConnsAccounted, Owned
    <2>10. \A e \in Conns : node'[e] \in Owned' \cup {None}
      BY <2>3, <2>6, <2>8 DEF ConnsAccounted
    <2>11. \A e \in Conns : node'[e] = e <=> e \in Owned'
      <3> TAKE e \in Conns
      <3>1. CASE e = c
        BY <2>3, <2>6, <3>1
      <3>2. CASE e # c /\ e \in Rest
        BY <2>3, <2>6, <2>8, <2>9, <3>2 DEF ConnsAccounted, Owned
      <3>3. CASE e # c /\ e \notin Rest
        <4>1. e \notin Owned'
          BY <2>3, <3>3
        <4>2. node'[e] \in {c, None} \/ (node'[e] = node[e] /\ node[e] # temp)
          BY <2>6, <2>8
        <4>3. node[e] = e => e \in Owned
          BY DEF ConnsAccounted
        <4> QED
          BY <1>0, <3>3, <4>1, <4>2, <4>3
      <3> QED
        BY <3>1, <3>2, <3>3
    <2>12. Queues'
      <3>1. /\ backlog \in Seq(Conns) /\ backlog # <<>>
            /\ \A i, j \in 1..Len(backlog) : backlog[i] = backlog[j] => i = j
            /\ {d \in Conns : sock[d] = "queued"} = {backlog[i] : i \in 1..Len(backlog)}
        BY <1>4 DEF Accept, TypeOK, ConnsAccounted
      <3>2. {d \in Conns : sock'[d] = "queued"} = {d \in Conns : sock[d] = "queued"} \ {c}
        <4>1. \A d \in Conns : sock[d] = "queued" => d # temp
          BY <1>0 DEF ConnsAccounted, Owned
        <4> QED
          BY <2>4, <4>1
      <3>3. /\ {backlog'[i] : i \in 1..Len(backlog')} = {backlog[i] : i \in 1..Len(backlog)} \ {c}
            /\ \A i, j \in 1..Len(backlog') : backlog'[i] = backlog'[j] => i = j
        <4>1. /\ {Tail(backlog)[i] : i \in 1..Len(Tail(backlog))}
                     = {backlog[i] : i \in 1..Len(backlog)} \ {Head(backlog)}
              /\ \A i, j \in 1..Len(Tail(backlog)) :
                     Tail(backlog)[i] = Tail(backlog)[j] => i = j
          BY <3>1, TailQueues
        <4> QED
          BY <2>1, <4>1
      <3> QED
        BY <3>1, <3>2, <3>3 DEF Queues
    <2> QED
      BY <2>1, <2>3, <2>5, <2>10, <2>11, <2>12 DEF ConnsAccounted, Queues
  <1> QED
    BY <1>1, <1>2, <1>3, <1>4

LEMMA EnvironmentAccounts ==
    ASSUME TypeOK, ConnsAccounted, Environment
    PROVE  ConnsAccounted'
  <1> USE DEF svVars, soVars, drmVars, appVars
  <1>1. ASSUME NEW c \in Conns, NEW p \in Procs, Connect(c, p) PROVE ConnsAccounted'
    <2>1. /\ sock[c] = "unused" /\ backlog' = Append(backlog, c)
          /\ UNCHANGED svVars
          /\ \A d \in Conns : sock'[d] = IF d = c THEN "queued" ELSE sock[d]
          /\ status \in {"run", "exit"}
      BY <1>1 DEF Connect, TypeOK
    <2>2. {d \in Conns : sock'[d] = "open"} = {d \in Conns : sock[d] = "open"}
      BY <2>1
    <2>3. {d \in Conns : sock'[d] = "queued"} = {d \in Conns : sock[d] = "queued"} \cup {c}
      BY <2>1
    <2>4. c \notin {backlog[i] : i \in 1..Len(backlog)}
      BY <2>1 DEF ConnsAccounted
    <2>5. Queues'
      <3> DEFINE q == backlog'
      <3>1. backlog \in Seq(Conns) /\ \A i, j \in 1..Len(backlog) : backlog[i] = backlog[j] => i = j
        BY DEF TypeOK, ConnsAccounted
      <3>2. /\ {q[i] : i \in 1..Len(q)} = {backlog[i] : i \in 1..Len(backlog)} \cup {c}
            /\ \A i, j \in 1..Len(q) : q[i] = q[j] => i = j
        BY <2>1, <2>4, <3>1, AppendQueues
      <3>3. {d \in Conns : sock[d] = "queued"} = {backlog[i] : i \in 1..Len(backlog)}
        BY DEF ConnsAccounted
      <3> QED
        BY <2>3, <3>2, <3>3 DEF Queues
    <2>6. Owned' = Owned /\ UNCHANGED <<status, cur, temp, a_p, node, waiting>>
      BY <2>1 DEF Owned
    <2>7. {d \in Conns : sock'[d] = "open"} = Owned'
      BY <2>2, <2>6 DEF ConnsAccounted
    <2>8. Accounts'
      BY <2>6, <2>7 DEF ConnsAccounted, Accounts
    <2>9. (waiting \in Owned \cup {None} /\ (status \in {"down", "dead"} => Owned = {} /\ a_p = NoAct))'
      BY <2>6 DEF ConnsAccounted
    <2> QED
      BY <2>5, <2>8, <2>9 DEF ConnsAccounted, Accounts, Queues
  <1>2. CASE UNCHANGED <<svVars, sock, backlog>>
    <2>1. Owned' = Owned /\ UNCHANGED <<status, cur, temp, a_p, node, waiting, sock, backlog>>
      BY <1>2 DEF Owned
    <2>2. (Accounts /\ Queues)'
      BY <2>1 DEF ConnsAccounted, Accounts, Queues
    <2>3. (waiting \in Owned \cup {None} /\ (status \in {"down", "dead"} => Owned = {} /\ a_p = NoAct))'
      BY <2>1 DEF ConnsAccounted
    <2> QED
      BY <2>2, <2>3 DEF ConnsAccounted, Accounts, Queues
  <1>3. ASSUME NEW c \in Conns,
               \/ \E r \in Requests : SendReq(c, r)
               \/ SendQuit(c) \/ RecvRes(c) \/ RecvEnd(c) \/ Disconnect(c)
        PROVE  ConnsAccounted'
    BY <1>2, <1>3 DEF SendReq, SendQuit, RecvRes, RecvEnd, Disconnect, Hangup
  <1>4. ASSUME NEW p \in Procs, Exit(p) PROVE ConnsAccounted'
    BY <1>2, <1>4 DEF Exit, Hangup
  <1>5. ASSUME NEW k \in Cards, ForeignTakes(k) \/ ForeignDrops(k) PROVE ConnsAccounted'
    BY <1>2, <1>5 DEF ForeignTakes, ForeignDrops
  <1>6. ASSUME NEW s \in Sigs, Signal(s) PROVE ConnsAccounted'
    BY <1>6 DEF Signal, ConnsAccounted, Owned
  <1> QED
    BY <1>1, <1>3, <1>4, <1>5, <1>6, LoopAccounts, EndAccounts DEF Environment, Killed

\* The service's table of connections agrees with the kernel's, and the epoll
\* registrations with both, after every handler, and in every order of
\* accepts, promotions, evictions, refusals, ends and crashes.
THEOREM ConnectionsAccounted == Spec => []ConnsAccounted
  <1>1. Init => ConnsAccounted
    <2> SUFFICES ASSUME Init PROVE ConnsAccounted
      OBVIOUS
    <2>1. Owned = {} /\ backlog = <<>> /\ cur = None /\ temp = None /\ waiting = None
      BY DEF Init, Owned
    <2>2. 1..Len(backlog) = {}
      BY <2>1
    <2>3. \A c \in Conns : sock[c] = "unused" /\ node[c] = None /\ c # None
      BY NamesAssumption DEF Init
    <2> QED
      BY <2>1, <2>2, <2>3 DEF ConnsAccounted, Init
  <1>2. TypeOK /\ ConnsAccounted /\ [Next]_vars => ConnsAccounted'
    <2> SUFFICES ASSUME TypeOK, ConnsAccounted, [Next]_vars PROVE ConnsAccounted'
      OBVIOUS
    <2>1. CASE Service
      BY <2>1, ServeAccounts, LoopAccounts, EndAccounts DEF Service, StaleCall
    <2>2. CASE Environment
      BY <2>2, EnvironmentAccounts
    <2>3. CASE UNCHANGED vars
      <3>1. UNCHANGED <<status, cur, temp, a_p, node, waiting, sock, backlog>>
        BY <2>3 DEF vars, svVars, soVars
      <3> QED
        BY <3>1 DEF ConnsAccounted, Owned
    <2> QED
      BY <2>1, <2>2, <2>3 DEF Next
  <1> QED
    BY <1>1, <1>2, TypeCorrect, PTL DEF Spec

----------------------------------------------------------------------------
(* Turns of the active process: who may start one, who may end one, and      *)
(* what a turn that ends leaves behind.                                      *)

ExclusiveStep ==
    (Mode = "prod" /\ a_p.pid # None /\ a_p'.pid # None)
        => (a_p'.pid = a_p.pid /\ a_p.gdevs \subseteq a_p'.gdevs)

\* A handler of a message leaves the active process to the message's sender.
LEMMA Turnover ==
    ASSUME NEW c \in Conns, Serve(c)
    PROVE  \/ \E pid :
              /\ Admitted(pid) /\ a_p'.pid = pid
              /\ Kept(pid).gdevs \subseteq a_p'.gdevs
           \/ ServeQuit(c)
           \/ UNCHANGED a_p
  <1>1. CASE GrantGdev(c) \/ FailGdev(c) \/ ServeDev(c, TRUE) \/ ServeDev(c, FALSE)
    BY <1>1 DEF GrantGdev, FailGdev, ServeDev
  <1>2. CASE \E pid : ServeGarbled(c, pid)
    BY <1>2 DEF ServeGarbled
  <1>3. CASE Refuse(c) \/ (\E pid : RefuseGarbled(c, pid)) \/ HungUp(c)
    BY <1>3 DEF Refuse, RefuseGarbled, HungUp
  <1> QED
    BY <1>1, <1>2, <1>3 DEF Serve

\* Outside the handlers of messages, a_p is kept, or reset when the service ends.
LEMMA OtherSteps ==
    ASSUME [Next]_vars, ~\E c \in Conns : Serve(c)
    PROVE  \/ UNCHANGED a_p
           \/ Death \/ CleanupSignal \/ Finish
  <1> USE DEF svVars, soVars, drmVars, appVars
  <1>1. CASE Service
    BY <1>1 DEF Service, EpollWait, RecvBlocks, StaleCall, QuitSignal, Accept, AcceptFails
  <1>2. CASE Environment
    BY <1>2 DEF Environment, Connect, SendReq, SendQuit, RecvRes, RecvEnd, Disconnect, Exit,
       Hangup, ForeignTakes, ForeignDrops, Signal, EpollInterrupted, Killed, Restart
  <1> QED
    BY <1>1, <1>2 DEF Next, vars

LEMMA NoActPid == NoAct.pid = None
  BY DEF NoAct

LEMMA EndsReset ==
    ASSUME Death \/ CleanupSignal \/ Finish
    PROVE  a_p' = NoAct /\ a_p'.pid = None /\ status' \in {"dead", "exit", "down"}
  BY NoActPid DEF Death, Ended, CleanupSignal, Finish, Cleanup

\* In prod mode nobody takes the service over from an active process, and no
\* message takes a device away, with any number of processes and connections.
THEOREM ExclusiveTurns == Spec => Exclusive
  <1>1. [Next]_vars => [ExclusiveStep]_vars
    <2> SUFFICES ASSUME [Next]_vars, Mode = "prod", a_p.pid # None, a_p'.pid # None
                 PROVE  a_p'.pid = a_p.pid /\ a_p.gdevs \subseteq a_p'.gdevs
      BY DEF ExclusiveStep
    <2>1. ASSUME NEW c \in Conns, Serve(c)
          PROVE  a_p'.pid = a_p.pid /\ a_p.gdevs \subseteq a_p'.gdevs
      <3>1. ~ServeQuit(c)
        BY NoActPid DEF ServeQuit
      <3> QED
        BY <2>1, <3>1, Turnover DEF Admitted, Kept, Replaces
    <2> QED
      BY <2>1, OtherSteps, EndsReset
  <1> QED
    BY <1>1, PTL DEF Spec, Exclusive, ExclusiveStep

OnlyHolderEndsStep ==
    (Mode = "prod" /\ a_p.pid # None /\ a_p'.pid = None /\ status' = "run")
        => \E c \in Conns : /\ owner[c] = a_p.pid /\ inq[c] # <<>>
                            /\ Head(inq[c]) = QuitReq /\ sock'[c] = "closed"

\* In prod mode a turn ends with the active process' own quit request, whose
\* connection is the one the handler closes, or with the service.
THEOREM HolderEnds == Spec => OnlyHolderEnds
  <1>1. TypeOK /\ ConnsAccounted /\ [Next]_vars => [OnlyHolderEndsStep]_vars
    <2> SUFFICES ASSUME TypeOK, ConnsAccounted, [Next]_vars, Mode = "prod",
                        a_p.pid # None, a_p'.pid = None, status' = "run"
                 PROVE  \E c \in Conns : /\ owner[c] = a_p.pid /\ inq[c] # <<>>
                                         /\ Head(inq[c]) = QuitReq /\ sock'[c] = "closed"
      BY DEF OnlyHolderEndsStep
    <2>1. PICK c \in Conns : Serve(c)
      BY OtherSteps, EndsReset
    <2>2. ServeQuit(c)
      BY <2>1, Turnover DEF Admitted
    <2>3. /\ inq[c] # <<>> /\ Head(inq[c]).code = "quit" /\ owner[c] = a_p.pid
          /\ Turn(c) /\ Promotion(c, {Promoted(c)})
      BY <2>2 DEF ServeQuit, Received, Admitted
    <2>4. Head(inq[c]) = QuitReq
      BY <2>3, PoppedTypes, RequestKinds
    <2>5. Promoted(c) = c
      BY <2>3, TurnOwned DEF Promoted, Owned
    <2>6. sock'[c] = "closed"
      BY <2>3, <2>5 DEF Promotion, Closing, SockLess
    <2> QED
      BY <2>3, <2>4, <2>6
  <1> QED
    BY <1>1, TypeCorrect, ConnectionsAccounted, PTL DEF Spec, OnlyHolderEnds, OnlyHolderEndsStep

RevokedStep ==
    (a_p'.pid # a_p.pid /\ status' # "dead")
        => \A k \in a_p.gdevs : master'[k] # a_p.pid /\ lent'[k] \notin Procs

\* ~Act_proc takes every card away from whoever stops being the active process.
LEMMA DroppedCards ==
    ASSUME TypeOK, MasterInv, NEW k \in a_p.gdevs
    PROVE  k \in Cards /\ MasterIf(TRUE)[k] = None /\ LentIf(TRUE)[k] = None /\ None # a_p.pid
  BY DEF TypeOK, MasterInv, MasterBacked, MasterIf, LentIf

\* Losing the turn and losing the cards is one step, whatever ends the turn and
\* whoever comes next; only a service that is killed leaves access behind.
THEOREM TurnsRevoke == Spec => Revoked
  <1>1. TypeOK /\ MasterInv /\ [Next]_vars => [RevokedStep]_vars
    <2> SUFFICES ASSUME TypeOK, MasterInv, [Next]_vars, a_p'.pid # a_p.pid,
                        status' # "dead", NEW k \in a_p.gdevs
                 PROVE  master'[k] # a_p.pid /\ lent'[k] \notin Procs
      BY DEF RevokedStep
    <2>0. /\ k \in Cards /\ MasterIf(TRUE)[k] = None /\ LentIf(TRUE)[k] = None
          /\ None # a_p.pid /\ None \notin Procs
      BY DroppedCards, NamesAssumption
    <2>1. ASSUME NEW c \in Conns, Serve(c)
          PROVE  master'[k] # a_p.pid /\ lent'[k] \notin Procs
      <3>1. ASSUME NEW pid, Admitted(pid), a_p'.pid = pid
            PROVE  Replaces(pid)
        BY <3>1, AdmittedHolder
      <3>2. CASE GrantGdev(c)
        <4>1. Replaces(owner[c]) = TRUE /\ a_p'.pid = owner[c]
          BY <3>1, <3>2, ReplacesType DEF GrantGdev
        <4>2. /\ master' = [MasterIf(TRUE) EXCEPT ![Head(inq[c]).path] = owner[c]]
              /\ lent' = [LentIf(TRUE) EXCEPT
                             ![Head(inq[c]).path] = IF peer[c] = "up" THEN c ELSE None]
          BY <3>2, <4>1 DEF GrantGdev
        <4>3. master'[k] \in {None, owner[c]} /\ lent'[k] \in {None, c}
          BY <2>0, <4>2, DropTypes
        <4> QED
          BY <2>0, <4>1, <4>3, NamesAssumption
      <3>3. CASE FailGdev(c) \/ ServeDev(c, TRUE) \/ ServeDev(c, FALSE)
        <4>1. Replaces(owner[c]) = TRUE
          BY <3>1, <3>3, ReplacesType DEF FailGdev, ServeDev
        <4> QED
          BY <2>0, <3>3, <4>1 DEF FailGdev, ServeDev
      <3>4. ASSUME NEW pid, ServeGarbled(c, pid)
            PROVE  master'[k] # a_p.pid /\ lent'[k] \notin Procs
        <4>1. Replaces(pid) = TRUE
          BY <3>1, <3>4, ReplacesType DEF ServeGarbled
        <4> QED
          BY <2>0, <3>4, <4>1 DEF ServeGarbled
      <3>5. CASE ServeQuit(c)
        BY <2>0, <3>5 DEF ServeQuit
      <3>6. ~Refuse(c) /\ (\A pid : ~RefuseGarbled(c, pid)) /\ ~HungUp(c)
        BY DEF Refuse, RefuseGarbled, HungUp
      <3> QED
        BY <2>1, <3>2, <3>3, <3>4, <3>5, <3>6 DEF Serve
    <2>2. CASE CleanupSignal \/ Finish
      BY <2>0, <2>2 DEF CleanupSignal, Finish, Cleanup
    <2> QED
      BY <2>1, <2>2, OtherSteps DEF Death
  <1> QED
    BY <1>1, TypeCorrect, MastersInductive, PTL DEF Spec, Revoked, RevokedStep
============================================================================
