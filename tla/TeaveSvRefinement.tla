------------------------- MODULE TeaveSvRefinement -------------------------
(* Theorems that TeaveSv keeps the promise of SvConn, and in dev mode gives *)
(* everybody the answer to its own request, for every value of its          *)
(* constants.                                                               *)
EXTENDS TeaveSvProofs, SequenceTheorems

----------------------------------------------------------------------------
(* What both refinements need to know of the kernel's side of connections.  *)

Ends ==
    /\ \A c \in Conns : sock[c] = "unused" <=> peer[c] = "none"
    /\ \A c \in Conns : peer[c] # "up" => outq[c] = <<>>
    /\ status \in {"down", "dead"} => backlog = <<>>

\* Closing leaves connections that were never made as they are.
LEMMA ClosingUnused ==
    ASSUME TypeOK, NEW S, NEW q, Closing(S, q), \A c \in S \cap Conns : sock[c] # "unused"
    PROVE  \A c \in Conns : sock'[c] = "unused" <=> sock[c] = "unused"
  BY DEF Closing, SockLess, TypeOK

\* A response adds to the queue of a client that is there, and of no other.
LEMMA ReplyQueues ==
    ASSUME TypeOK, NEW c \in Conns, NEW m, Reply(c, m)
    PROVE  /\ \A d \in Conns : d # c \/ peer[d] # "up" => outq'[d] = outq[d]
           /\ peer[c] = "up" => outq'[c] = Append(outq[c], m)
  BY DEF Reply, TypeOK

LEMMA SendQueues ==
    ASSUME TypeOK, NEW c \in Conns, NEW m, Send(c, m) \/ SendError(c, m)
    PROVE  /\ \A d \in Conns : d # c \/ peer[d] # "up" => outq'[d] = outq[d]
           /\ outq'[c] = outq[c] \/ outq'[c] = Append(outq[c], m)
  BY ReplyQueues DEF Send, SendError, TypeOK

\* The connections a promotion closes, and what becomes of messages.
LEMMA PromotionEffect ==
    ASSUME TypeOK, ConnsAccounted, NEW c \in Owned, NEW S, S \in {{}, {Promoted(c)}},
           Promotion(c, S)
    PROVE  /\ c \in Conns /\ Promoted(c) = c
           /\ \A d \in Conns \ {c} :
                 \/ sock'[d] = sock[d] /\ inq'[d] = inq[d]
                 \/ sock[d] = "open" /\ sock'[d] = "closed" /\ inq'[d] = <<>>
           /\ S = {} => sock'[c] = "open" /\ (inq[c] # <<>> => inq'[c] = Tail(inq[c]))
                        /\ (inq[c] = <<>> => inq'[c] = <<>>)
           /\ S # {} => sock'[c] = "closed" /\ inq'[c] = <<>>
           /\ sock[c] = "open"
  <1> DEFINE q == [inq EXCEPT ![c] = IF @ = <<>> THEN @ ELSE Tail(@)]
             T == S \cup (Owned \ {Promoted(c), IF cur = c THEN temp ELSE None})
  <1>1. Promoted(c) = c /\ c # None /\ c \in Conns
    BY DEF Promoted, Owned, TypeOK
  <1>2. Closing(T, q)
    BY DEF Promotion
  <1>3. \A d \in Conns : d \in Owned => sock[d] = "open"
    BY DEF ConnsAccounted
  <1>4. T \subseteq Owned /\ (S = {} => c \notin T) /\ (S # {} => c \in T)
    BY <1>1
  <1>5. \A d \in Conns : /\ sock'[d] = IF d \in T THEN "closed" ELSE sock[d]
                         /\ inq'[d] = IF d \in T THEN <<>> ELSE q[d]
    BY <1>2 DEF Closing, SockLess, InqLess
  <1>6. /\ \A d \in Conns \ {c} : q[d] = inq[d]
        /\ q[c] = IF inq[c] = <<>> THEN inq[c] ELSE Tail(inq[c])
    BY <1>1 DEF TypeOK
  <1> HIDE DEF T, q
  <1> QED
    BY <1>1, <1>3, <1>4, <1>5, <1>6

\* What a handler may do to a connection it closes or leaves alone.
Others(c) == \A d \in Conns \ {c} :
    /\ \/ sock'[d] = sock[d] /\ inq'[d] = inq[d]
       \/ sock[d] = "open" /\ sock'[d] = "closed" /\ inq'[d] = <<>>
    /\ outq'[d] = outq[d] /\ peer'[d] = peer[d]

\* The client is there, or is not, before and after.
SameEnd(c) == peer'[c] = peer[c] \/ (peer[c] = "reset" /\ peer'[c] = "hup")

\* The message is answered, and the connection is still served.
ConnAnswered(c) ==
    /\ inq[c] # <<>> /\ inq'[c] = Tail(inq[c]) /\ peer'[c] = peer[c]
    /\ sock'[c] = "open" /\ status' = "run"
    /\ \E a \in Answers(Head(inq[c])) :
          outq'[c] = IF peer[c] = "up" THEN Append(outq[c], a) ELSE outq[c]

\* The connection is served no more.
ConnEnded(c) ==
    /\ \/ sock'[c] = "closed" /\ inq'[c] = <<>>
       \/ /\ sock'[c] = "open" /\ status' = "exit"
          /\ inq'[c] = inq[c] \/ (inq[c] # <<>> /\ inq'[c] = Tail(inq[c]))
    /\ outq'[c] = outq[c] /\ SameEnd(c)

ConnKept(c) ==
    /\ inq'[c] = inq[c] /\ outq'[c] = outq[c] /\ SameEnd(c)
    /\ sock'[c] = "open" /\ status' = "run"

LEMMA SentEffect ==
    ASSUME TypeOK, status = "run", NEW c \in Conns, NEW a, Send(c, a) \/ SendError(c, a)
    PROVE  /\ \A d \in Conns \ {c} : outq'[d] = outq[d]
           /\ \/ status' = "run" /\ outq'[c] = IF peer[c] = "up" THEN Append(outq[c], a) ELSE outq[c]
              \/ status' = "exit" /\ outq'[c] = outq[c]
  BY ReplyQueues DEF Send, SendError, Logged, TypeOK

LEMMA ServeEffect ==
    ASSUME TypeOK, ConnsAccounted, NEW c \in Conns, Serve(c)
    PROVE  /\ status = "run" /\ status' \in {"run", "exit"} /\ sock[c] = "open"
           /\ UNCHANGED <<backlog, owner, want, gone>>
           /\ Others(c)
           /\ ConnAnswered(c) \/ ConnEnded(c) \/ ConnKept(c)
  <1>0. c \in Owned /\ status = "run"
    BY TurnOwned DEF Serve, GrantGdev, FailGdev, ServeDev, ServeQuit, Refuse, ServeGarbled,
       RefuseGarbled, HungUp, Received, Garbled
  <1>00. sock[c] = "open" /\ Promoted(c) = c
    BY <1>0 DEF ConnsAccounted, Promoted, Owned
  <1>1. ASSUME inq[c] # <<>>, Head(inq[c]) # QuitReq, Promotion(c, {}),
               UNCHANGED <<backlog, owner, peer, want, gone>>,
               NEW a \in {FdRes(Head(inq[c]).path), ErrRes(Head(inq[c]).path)},
               Send(Promoted(c), a) \/ SendError(Promoted(c), a)
        PROVE  /\ status' \in {"run", "exit"} /\ Others(c)
               /\ ConnAnswered(c) \/ ConnEnded(c)
    <2>1. a \in Answers(Head(inq[c]))
      BY <1>1 DEF Answers
    <2>2. /\ \A d \in Conns \ {c} : outq'[d] = outq[d]
          /\ \/ status' = "run" /\ outq'[c] = IF peer[c] = "up" THEN Append(outq[c], a) ELSE outq[c]
             \/ status' = "exit" /\ outq'[c] = outq[c]
      BY <1>0, <1>00, <1>1, SentEffect
    <2>3. Others(c) /\ sock'[c] = "open" /\ inq'[c] = Tail(inq[c]) /\ peer'[c] = peer[c]
      BY <1>0, <1>1, <2>2, PromotionEffect DEF Others
    <2> QED
      BY <1>1, <2>1, <2>2, <2>3 DEF ConnAnswered, ConnEnded, SameEnd
  <1>2. inq[c] # <<>> => Head(inq[c]) \in Messages
    BY PoppedTypes
  <1>3. CASE GrantGdev(c)
    <2>1. Head(inq[c]) # QuitReq /\ inq[c] # <<>>
      BY <1>2, <1>3, RequestKinds DEF GrantGdev, Received, QuitReq
    <2> QED
      BY <1>0, <1>00, <1>1, <1>3, <2>1 DEF GrantGdev, appVars
  <1>4. CASE FailGdev(c)
    <2>1. Head(inq[c]) # QuitReq /\ inq[c] # <<>>
      BY <1>2, <1>4, RequestKinds DEF FailGdev, Received, QuitReq
    <2> QED
      BY <1>0, <1>00, <1>1, <1>4, <2>1 DEF FailGdev, appVars
  <1>5. CASE ServeDev(c, TRUE) \/ ServeDev(c, FALSE)
    <2>1. Head(inq[c]) # QuitReq /\ inq[c] # <<>>
      BY <1>2, <1>5, RequestKinds DEF ServeDev, Received, QuitReq
    <2> QED
      BY <1>0, <1>00, <1>1, <1>5, <2>1 DEF ServeDev, appVars
  <1>6. CASE ServeQuit(c)
    <2>1. Promotion(c, {Promoted(c)}) /\ UNCHANGED <<status, outq, backlog, owner, peer, want, gone>>
      BY <1>6 DEF ServeQuit, appVars
    <2> QED
      BY <1>0, <1>00, <2>1, PromotionEffect DEF Others, ConnEnded, SameEnd
  <1>7. CASE Refuse(c)
    <2>1. /\ inq[c] # <<>> /\ Closing({}, [inq EXCEPT ![c] = Tail(@)])
          /\ UNCHANGED <<backlog, owner, peer, want, gone>> /\ Send(c, ErrRes(Junk))
      BY <1>00, <1>7 DEF Refuse, Received, appVars
    <2>2. /\ \A d \in Conns : sock'[d] = sock[d]
          /\ \A d \in Conns \ {c} : inq'[d] = inq[d]
          /\ inq'[c] = Tail(inq[c])
      BY <2>1 DEF Closing, SockLess, InqLess, TypeOK
    <2>3. /\ \A d \in Conns \ {c} : outq'[d] = outq[d]
          /\ \/ status' = "run" /\ outq'[c] = IF peer[c] = "up" THEN Append(outq[c], ErrRes(Junk)) ELSE outq[c]
             \/ status' = "exit" /\ outq'[c] = outq[c]
      BY <1>0, <2>1, SentEffect
    <2>4. ErrRes(Junk) \in Answers(Head(inq[c]))
      BY DEF Answers
    <2> QED
      BY <1>0, <1>00, <2>1, <2>2, <2>3, <2>4 DEF Others, ConnAnswered, ConnEnded, SameEnd
  <1>8. ASSUME NEW pid, ServeGarbled(c, pid)
        PROVE  /\ status' \in {"run", "exit"} /\ Others(c) /\ ConnKept(c)
               /\ UNCHANGED <<backlog, owner, want, gone>>
    <2>1. /\ Promotion(c, {}) /\ inq[c] = <<>> /\ peer[c] = "reset"
          /\ UNCHANGED <<status, outq, backlog, owner, want, gone>>
          /\ \A d \in Conns : peer'[d] = IF d = c THEN "hup" ELSE peer[d]
      BY <1>8 DEF ServeGarbled, Garbled, appVars, TypeOK
    <2> QED
      BY <1>0, <2>1, PromotionEffect DEF Others, ConnKept, SameEnd
  <1>9. ASSUME NEW pid, RefuseGarbled(c, pid)
        PROVE  /\ status' \in {"run", "exit"} /\ Others(c)
               /\ ConnKept(c) \/ ConnEnded(c)
               /\ UNCHANGED <<backlog, owner, want, gone>>
    <2>1. /\ inq[c] = <<>> /\ peer[c] = "reset" /\ status' \in {"run", "exit"}
          /\ UNCHANGED <<sock, inq, outq, backlog, owner, want, gone>>
          /\ \A d \in Conns : peer'[d] = IF d = c THEN "hup" ELSE peer[d]
      BY <1>0, <1>9 DEF RefuseGarbled, Garbled, Logged, appVars, TypeOK
    <2> QED
      BY <1>00, <2>1 DEF Others, ConnKept, ConnEnded, SameEnd
  <1>10. CASE HungUp(c)
    <2>1. /\ Closing({c}, inq) /\ UNCHANGED <<status, outq, peer, backlog, owner, want, gone>>
      BY <1>00, <1>10 DEF HungUp, appVars
    <2>2. /\ \A d \in Conns : sock'[d] = IF d = c THEN "closed" ELSE sock[d]
          /\ \A d \in Conns : inq'[d] = IF d = c THEN <<>> ELSE inq[d]
      BY <2>1 DEF Closing, SockLess, InqLess
    <2> QED
      BY <1>0, <1>00, <2>1, <2>2 DEF Others, ConnEnded, SameEnd
  <1>11. CASE \E pid \in Procs \cup {Bogus} : ServeGarbled(c, pid) \/ RefuseGarbled(c, pid)
    <2>1. PICK pid : ServeGarbled(c, pid) \/ RefuseGarbled(c, pid)
      BY <1>11
    <2> QED
      BY <1>0, <1>00, <1>8, <1>9, <2>1
  <1>12. CASE GrantGdev(c) \/ FailGdev(c) \/ ServeDev(c, TRUE) \/ ServeDev(c, FALSE)
             \/ ServeQuit(c) \/ Refuse(c)
    <2>1. UNCHANGED <<backlog, owner, want, gone>>
      BY <1>12 DEF GrantGdev, FailGdev, ServeDev, ServeQuit, Refuse, appVars
    <2> QED
      BY <1>0, <1>00, <1>3, <1>4, <1>5, <1>6, <1>7, <1>12, <2>1
  <1> QED
    BY <1>10, <1>11, <1>12 DEF Serve

----------------------------------------------------------------------------
(* Steps that receive and send nothing: the loop, the end, the start.       *)

Quiet ==
    \/ EpollWait \/ EpollInterrupted \/ RecvBlocks \/ QuitSignal \/ Accept \/ AcceptFails
    \/ Death \/ CleanupSignal \/ Finish \/ Restart

\* Such a step accepts a connection, closes it, or leaves it as it is.
QuietOn(d) ==
    /\ outq'[d] = outq[d] /\ peer'[d] = peer[d]
    /\ \/ sock'[d] = sock[d] /\ inq'[d] = inq[d]
       \/ sock[d] \in {"queued", "open"} /\ sock'[d] = "closed" /\ inq'[d] = <<>>
       \/ sock[d] = "queued" /\ sock'[d] = "open" /\ inq'[d] = inq[d] /\ status' = status
    /\ status' = "run" /\ status # "run" => sock'[d] \in {"unused", "closed"}

\* Closing what the service owns, and what waits to be accepted.
LEMMA ClosingQuiet ==
    ASSUME TypeOK, ConnsAccounted, NEW S \in {{}, Queued}, Closing(Owned \cup S, inq),
           UNCHANGED <<outq, peer>>, status' # "run", NEW d \in Conns
    PROVE  QuietOn(d)
  <1>1. d \in Owned \cup S => sock[d] \in {"queued", "open"}
    BY DEF ConnsAccounted, Queued
  <1>2. /\ sock'[d] = IF d \in Owned \cup S THEN "closed" ELSE sock[d]
        /\ inq'[d] = IF d \in Owned \cup S THEN <<>> ELSE inq[d]
    BY DEF Closing, SockLess, InqLess
  <1> QED
    BY <1>1, <1>2 DEF QuietOn

LEMMA AcceptQuiet ==
    ASSUME TypeOK, ConnsAccounted, Accept, NEW d \in Conns
    PROVE  QuietOn(d)
  <1> DEFINE c == Head(backlog)
  <1>1. backlog \in Seq(Conns) /\ backlog # <<>>
    BY DEF Accept, TypeOK
  <1>2. c \in Conns /\ c \in {backlog[i] : i \in 1..Len(backlog)}
    BY <1>1
  <1>3. sock[c] = "queued" /\ status = "run" /\ status' = "run"
    BY <1>2 DEF ConnsAccounted, Accept, Dispatching
  <1>4. d = temp => sock[d] = "open"
    BY NamesAssumption DEF ConnsAccounted, Owned
  <1>5. /\ sock'[d] = IF d = c THEN "open" ELSE IF d = temp THEN "closed" ELSE sock[d]
        /\ inq'[d] = IF d = temp THEN <<>> ELSE inq[d]
        /\ UNCHANGED <<outq, peer>>
    BY <1>2 DEF Accept, SockLess, InqLess, TypeOK
  <1> HIDE DEF c
  <1> QED
    BY <1>3, <1>4, <1>5 DEF QuietOn

LEMMA QuietEffect ==
    ASSUME TypeOK, ConnsAccounted, Ends, Quiet
    PROVE  /\ \A d \in Conns : QuietOn(d)
           /\ status' \in {"down", "dead"} => backlog' = <<>>
           /\ UNCHANGED <<owner, want, gone>>
  <1> USE DEF soVars, drmVars, appVars
  <1>1. CASE EpollWait \/ RecvBlocks
    BY <1>1 DEF EpollWait, RecvBlocks, QuietOn, Ends
  <1>2. CASE EpollInterrupted \/ QuitSignal
    BY <1>2 DEF EpollInterrupted, QuitSignal, QuietOn
  <1>3. CASE AcceptFails
    BY <1>3 DEF AcceptFails, Logged, Dispatching, QuietOn
  <1>4. CASE Accept
    BY <1>4, AcceptQuiet DEF Accept, Dispatching
  <1>5. CASE Death
    <2>1. Closing(Owned \cup Queued, inq) /\ UNCHANGED <<outq, peer, owner, want, gone>>
          /\ status' = "dead" /\ backlog' = <<>>
      BY <1>5 DEF Death, Ended
    <2> QED
      BY <2>1, ClosingQuiet
  <1>6. CASE CleanupSignal
    <2>1. Closing(Owned \cup {}, inq) /\ UNCHANGED <<outq, peer, owner, want, gone>>
          /\ status' = "exit"
      BY <1>6 DEF CleanupSignal, Cleanup
    <2> QED
      BY <2>1, ClosingQuiet
  <1>7. CASE Finish
    <2>1. Closing(Owned \cup Queued, inq) /\ UNCHANGED <<outq, peer, owner, want, gone>>
          /\ status' = "down" /\ backlog' = <<>>
      BY <1>7 DEF Finish, Cleanup
    <2> QED
      BY <2>1, ClosingQuiet
  <1>8. CASE Restart
    <2>1. status \in {"down", "dead"} /\ status' = "run"
          /\ UNCHANGED <<sock, inq, outq, peer, owner, want, gone>>
      BY <1>8 DEF Restart
    <2>2. Owned = {} /\ backlog = <<>>
      BY <2>1 DEF ConnsAccounted, Ends
    <2>3. \A d \in Conns : sock[d] \notin {"queued", "open"}
      <3>1. 1..Len(backlog) = {}
        BY <2>2
      <3> QED
        BY <2>2, <3>1 DEF ConnsAccounted
    <2> QED
      BY <2>1, <2>3 DEF QuietOn, TypeOK
  <1> QED
    BY <1>1, <1>2, <1>3, <1>4, <1>5, <1>6, <1>7, <1>8 DEF Quiet

LEMMA ServeEnds ==
    ASSUME TypeOK, ConnsAccounted, Ends, NEW c \in Conns, Serve(c)
    PROVE  Ends'
  <1>1. /\ status' \in {"run", "exit"} /\ sock[c] = "open" /\ Others(c)
        /\ ConnAnswered(c) \/ ConnEnded(c) \/ ConnKept(c)
    BY ServeEffect
  <1>2. sock'[c] \in {"open", "closed"} /\ SameEnd(c)
    BY <1>1 DEF ConnAnswered, ConnEnded, ConnKept, SameEnd
  <1>3. peer'[c] # "up" => outq'[c] = <<>>
    BY <1>1 DEF ConnAnswered, ConnEnded, ConnKept, SameEnd, Ends
  <1>4. \A d \in Conns \ {c} : /\ sock'[d] = "unused" <=> sock[d] = "unused"
                               /\ peer'[d] = peer[d] /\ outq'[d] = outq[d]
    BY <1>1 DEF Others
  <1>5. \A d \in Conns : sock'[d] = "unused" <=> peer'[d] = "none"
    BY <1>1, <1>2, <1>4 DEF Ends, SameEnd
  <1>6. \A d \in Conns : peer'[d] # "up" => outq'[d] = <<>>
    BY <1>3, <1>4 DEF Ends
  <1> QED
    BY <1>1, <1>5, <1>6 DEF Ends

LEMMA QuietEnds ==
    ASSUME TypeOK, ConnsAccounted, Ends, Quiet
    PROVE  Ends'
  <1>1. (\A d \in Conns : QuietOn(d)) /\ (status' \in {"down", "dead"} => backlog' = <<>>)
    BY QuietEffect
  <1> QED
    BY <1>1 DEF Ends, QuietOn

\* What the ends C of clients that go leave on their connections.
LEMMA HangupEffect ==
    ASSUME TypeOK, Ends, NEW C, NEW P, Hangup(C, P), \A c \in C \cap Conns : peer[c] = "up"
    PROVE  Ends' /\ \A d \in Conns :
              /\ UNCHANGED <<sock[d], inq[d], status>>
              /\ d \notin C => peer'[d] = peer[d] /\ outq'[d] = outq[d]
              /\ d \in C => peer'[d] \in {"hup", "reset"} /\ outq'[d] = <<>> /\ peer[d] = "up"
  <1>1. /\ UNCHANGED <<sock, inq, status, backlog>>
        /\ \A d \in Conns :
              /\ d \notin C => peer'[d] = peer[d] /\ outq'[d] = outq[d]
              /\ d \in C => peer'[d] \in {"hup", "reset"} /\ outq'[d] = <<>> /\ peer[d] = "up"
    BY DEF Hangup, svVars
  <1> QED
    BY <1>1 DEF Ends

LEMMA EnvironmentEnds ==
    ASSUME TypeOK, ConnsAccounted, Ends, Environment
    PROVE  Ends'
  <1> USE DEF svVars, soVars, drmVars, appVars
  <1>1. ASSUME NEW c \in Conns, NEW p \in Procs, Connect(c, p) PROVE Ends'
    BY <1>1 DEF Connect, Ends, TypeOK
  <1>2. ASSUME NEW c \in Conns,
               (\E r \in Requests : SendReq(c, r)) \/ SendQuit(c) \/ RecvEnd(c)
        PROVE  Ends'
    BY <1>2 DEF SendReq, SendQuit, RecvEnd, Ends
  <1>3. ASSUME NEW c \in Conns, RecvRes(c) PROVE Ends'
    BY <1>3 DEF RecvRes, Ends, TypeOK
  <1>4. ASSUME NEW c \in Conns, Disconnect(c) PROVE Ends'
    BY <1>4, HangupEffect DEF Disconnect
  <1>5. ASSUME NEW p \in Procs, Exit(p) PROVE Ends'
    BY <1>5, HangupEffect DEF Exit
  <1>6. ASSUME NEW k \in Cards, ForeignTakes(k) \/ ForeignDrops(k) PROVE Ends'
    BY <1>6 DEF ForeignTakes, ForeignDrops, Ends
  <1>7. ASSUME NEW s \in Sigs, Signal(s) PROVE Ends'
    BY <1>7 DEF Signal, Ends
  <1> QED
    BY <1>1, <1>2, <1>3, <1>4, <1>5, <1>6, <1>7, QuietEnds DEF Environment, Killed, Quiet

LEMMA EndsInductive == Spec => []Ends
  <1>1. Init => Ends
    BY DEF Init, Ends
  <1>2. TypeOK /\ ConnsAccounted /\ Ends /\ [Next]_vars => Ends'
    <2> SUFFICES ASSUME TypeOK, ConnsAccounted, Ends, [Next]_vars PROVE Ends'
      OBVIOUS
    <2>1. CASE Service
      BY <2>1, ServeEnds, QuietEnds DEF Service, Quiet, StaleCall
    <2>2. CASE Environment
      BY <2>2, EnvironmentEnds
    <2>3. CASE UNCHANGED vars
      BY <2>3 DEF vars, svVars, soVars, Ends
    <2> QED
      BY <2>1, <2>2, <2>3 DEF Next
  <1> QED
    BY <1>1, <1>2, TypeCorrect, ConnectionsAccounted, PTL DEF Spec

----------------------------------------------------------------------------
(* On every connection the service keeps the promise of SvConn.             *)

\* Truth values are equal when they are equivalent.
LEMMA SameServing ==
    ASSUME NEW d \in Conns, Serving(d)' <=> Serving(d)
    PROVE  Serving(d)' = Serving(d)
  BY Zenon DEF Serving

LEMMA NotServing ==
    ASSUME NEW d \in Conns, ~Serving(d)'
    PROVE  Serving(d)' = FALSE
  BY Zenon DEF Serving

LEMMA SameGone ==
    ASSUME NEW d \in Conns, peer'[d] \in {"hup", "reset"} <=> peer[d] \in {"hup", "reset"}
    PROVE  (peer'[d] \in {"hup", "reset"}) = (peer[d] \in {"hup", "reset"})
  OBVIOUS

\* The two ways a connection can change without a message coming or going.
LEMMA DropConn ==
    ASSUME NEW d \in Conns, outq'[d] = outq[d],
           peer'[d] \in {"hup", "reset"} <=> peer[d] \in {"hup", "reset"},
           ~Serving(d)',
           \/ inq'[d] \in {inq[d], <<>>}
           \/ Serving(d) /\ inq[d] # <<>> /\ inq'[d] = Tail(inq[d])
    PROVE  ConnStep(d)
  <1>1. /\ Serving(d)' = FALSE
        /\ (peer'[d] \in {"hup", "reset"}) = (peer[d] \in {"hup", "reset"})
    BY NotServing, SameGone
  <1>2. CASE Serving(d)
    <2>1. Conn(d)!Drop
      BY <1>1, <1>2 DEF Conn!Drop
    <2> QED
      BY <2>1 DEF ConnStep, Conn!Next
  <1>3. CASE ~Serving(d)
    <2>1. Serving(d)' = Serving(d)
      BY <1>3, SameServing
    <2>2. CASE inq'[d] = inq[d]
      BY <1>1, <2>1, <2>2 DEF ConnStep
    <2>3. CASE inq'[d] = <<>>
      <3>1. Conn(d)!Forget
        BY <1>1, <1>3, <2>1, <2>3 DEF Conn!Forget
      <3> QED
        BY <3>1 DEF ConnStep, Conn!Next
    <2> QED
      BY <1>3, <2>2, <2>3
  <1> QED
    BY <1>2, <1>3

LEMMA KeepConn ==
    ASSUME NEW d \in Conns, outq'[d] = outq[d], inq'[d] = inq[d],
           peer'[d] \in {"hup", "reset"} <=> peer[d] \in {"hup", "reset"},
           Serving(d)' => Serving(d)
    PROVE  ConnStep(d)
  <1>1. (peer'[d] \in {"hup", "reset"}) = (peer[d] \in {"hup", "reset"})
    BY SameGone
  <1>2. CASE Serving(d)'
    <2>1. Serving(d)' = Serving(d)
      BY <1>2, SameServing
    <2> QED
      BY <1>1, <2>1 DEF ConnStep
  <1>3. CASE ~Serving(d)'
    BY <1>3, DropConn
  <1> QED
    BY <1>2, <1>3

LEMMA QuietConn ==
    ASSUME NEW d \in Conns, QuietOn(d)
    PROVE  ConnStep(d)
  <1>1. outq'[d] = outq[d] /\ peer'[d] = peer[d]
    BY DEF QuietOn
  <1>2. CASE sock'[d] = sock[d] /\ inq'[d] = inq[d]
    <2>1. Serving(d)' => Serving(d)
      BY <1>2 DEF QuietOn, Serving
    <2> QED
      BY <1>1, <1>2, <2>1, KeepConn
  <1>3. CASE sock'[d] = "closed" /\ inq'[d] = <<>>
    <2>1. ~Serving(d)'
      BY <1>3 DEF Serving
    <2> QED
      BY <1>1, <1>3, <2>1, DropConn
  <1>4. CASE sock[d] = "queued" /\ sock'[d] = "open" /\ inq'[d] = inq[d] /\ status' = status
    <2>1. Serving(d)' => Serving(d)
      BY <1>4 DEF Serving
    <2> QED
      BY <1>1, <1>4, <2>1, KeepConn
  <1> QED
    BY <1>2, <1>3, <1>4 DEF QuietOn

\* A handler takes a step of SvConn on its own connection, and drops others.
LEMMA ServeConn ==
    ASSUME TypeOK, ConnsAccounted, Ends, NEW c \in Conns, Serve(c), NEW d \in Conns
    PROVE  ConnStep(d)
  <1>1. /\ status = "run" /\ status' \in {"run", "exit"} /\ sock[c] = "open" /\ Others(c)
        /\ ConnAnswered(c) \/ ConnEnded(c) \/ ConnKept(c)
    BY ServeEffect
  <1>2. Serving(c) /\ peer[c] # "none"
    BY <1>1 DEF Serving, Ends
  <1>3. CASE d # c
    <2>1. outq'[d] = outq[d] /\ peer'[d] = peer[d]
      BY <1>1, <1>3 DEF Others
    <2>2. CASE sock'[d] = sock[d] /\ inq'[d] = inq[d]
      <3>1. Serving(d)' => Serving(d)
        BY <1>1, <2>2 DEF Serving
      <3> QED
        BY <2>1, <2>2, <3>1, KeepConn
    <2>3. CASE sock'[d] = "closed" /\ inq'[d] = <<>>
      <3>1. ~Serving(d)'
        BY <2>3 DEF Serving
      <3> QED
        BY <2>1, <2>3, <3>1, DropConn
    <2> QED
      BY <1>1, <1>3, <2>2, <2>3 DEF Others
  <1>4. CASE ConnAnswered(c)
    <2>1. Serving(c)' = Serving(c)
      <3>1. Serving(c)'
        BY <1>4 DEF ConnAnswered, Serving
      <3> QED
        BY <1>2, <3>1, SameServing
    <2>2. (peer'[c] \in {"hup", "reset"}) = (peer[c] \in {"hup", "reset"})
      BY <1>4 DEF ConnAnswered
    <2>3. PICK a \in Answers(Head(inq[c])) :
              outq'[c] = IF peer[c] = "up" THEN Append(outq[c], a) ELSE outq[c]
      BY <1>4 DEF ConnAnswered
    <2>4. peer[c] \in {"up", "hup", "reset"}
      BY <1>2 DEF TypeOK
    <2>5. outq'[c] = IF peer[c] \in {"hup", "reset"} THEN outq[c] ELSE Append(outq[c], a)
      BY <2>3, <2>4
    <2>6. inq[c] # <<>> /\ inq'[c] = Tail(inq[c])
      BY <1>4 DEF ConnAnswered
    <2>7. Conn(c)!Serve
      BY <1>2, <2>1, <2>2, <2>5, <2>6 DEF Conn!Serve
    <2>8. ConnStep(c)
      BY <2>7 DEF ConnStep, Conn!Next
    <2> QED
      BY <1>3, <2>8
  <1>5. peer'[c] \in {"hup", "reset"} <=> peer[c] \in {"hup", "reset"}
    BY <1>1 DEF ConnAnswered, ConnEnded, ConnKept, SameEnd
  <1>6. CASE ConnEnded(c)
    <2>1. ~Serving(c)'
      BY <1>6 DEF ConnEnded, Serving
    <2>2. ConnStep(c)
      BY <1>2, <1>5, <1>6, <2>1, DropConn DEF ConnEnded
    <2> QED
      BY <1>3, <2>2
  <1>7. CASE ConnKept(c)
    <2>1. ConnStep(c)
      BY <1>2, <1>5, <1>7, KeepConn DEF ConnKept
    <2> QED
      BY <1>3, <2>1
  <1> QED
    BY <1>1, <1>4, <1>6, <1>7

\* The client at the other end sends, reads or leaves.
LEMMA ClientConn ==
    ASSUME TypeOK, Ends, NEW c \in Conns, UNCHANGED <<sock, status>>,
           \/ /\ peer[c] = "up" /\ peer'[c] = "up" /\ outq'[c] = outq[c]
              /\ \E m \in Messages : inq'[c] = Append(inq[c], m)
           \/ /\ UNCHANGED <<inq[c], peer[c]>>
              /\ outq[c] # <<>> /\ outq'[c] = Tail(outq[c])
           \/ /\ peer'[c] \in {"hup", "reset"} /\ outq'[c] = <<>> /\ inq'[c] = inq[c]
    PROVE  ConnStep(c)
  <1>1. Serving(c)' = Serving(c)
    BY SameServing DEF Serving
  <1>2. ASSUME peer[c] = "up", peer'[c] = "up", outq'[c] = outq[c],
               NEW m \in Messages, inq'[c] = Append(inq[c], m)
        PROVE  ConnStep(c)
    <2>1. (peer'[c] \in {"hup", "reset"}) = (peer[c] \in {"hup", "reset"})
      BY <1>2
    <2>2. Conn(c)!Send(m)
      BY <1>1, <1>2, <2>1 DEF Conn!Send
    <2> QED
      BY <2>2 DEF ConnStep, Conn!Next, Messages
  <1>3. CASE UNCHANGED <<inq[c], peer[c]>> /\ outq[c] # <<>> /\ outq'[c] = Tail(outq[c])
    <2>1. (peer'[c] \in {"hup", "reset"}) = (peer[c] \in {"hup", "reset"})
      BY <1>3
    <2>2. Conn(c)!Read
      BY <1>1, <1>3, <2>1 DEF Conn!Read
    <2> QED
      BY <2>2 DEF ConnStep, Conn!Next
  <1>4. CASE peer'[c] \in {"hup", "reset"} /\ outq'[c] = <<>> /\ inq'[c] = inq[c]
    <2>1. (peer'[c] \in {"hup", "reset"}) = TRUE
      BY <1>4
    <2>2. Conn(c)!Leave
      BY <1>1, <1>4, <2>1 DEF Conn!Leave
    <2> QED
      BY <2>2 DEF ConnStep, Conn!Next
  <1> QED
    BY <1>2, <1>3, <1>4

LEMMA EnvironmentConn ==
    ASSUME TypeOK, ConnsAccounted, Ends, Environment, NEW d \in Conns
    PROVE  ConnStep(d)
  <1> USE DEF svVars, soVars, drmVars, appVars
  <1>0. ASSUME UNCHANGED <<sock[d], status, outq[d], inq[d], peer[d]>>
        PROVE  ConnStep(d)
    <2>1. Serving(d)' => Serving(d)
      BY <1>0 DEF Serving
    <2> QED
      BY <1>0, <2>1, KeepConn
  <1>1. ASSUME NEW c \in Conns, NEW p \in Procs, Connect(c, p) PROVE ConnStep(d)
    <2>1. /\ UNCHANGED <<status, inq, outq>>
          /\ d # c => UNCHANGED <<sock[d], peer[d]>>
          /\ sock[c] = "unused" /\ peer[c] = "none" /\ peer'[c] = "up"
      BY <1>1 DEF Connect, Ends, TypeOK
    <2>2. peer'[d] \in {"hup", "reset"} <=> peer[d] \in {"hup", "reset"}
      BY <2>1
    <2>3. Serving(d)' => Serving(d)
      BY <2>1 DEF Serving
    <2> QED
      BY <2>1, <2>2, <2>3, KeepConn
  <1>2. ASSUME NEW c \in Conns, NEW m \in Messages, CanSend(c),
               inq' = [inq EXCEPT ![c] = Append(@, m)],
               UNCHANGED <<svVars, sock, peer, outq>>
        PROVE  ConnStep(d)
    <2>1. CASE d = c
      BY <1>2, <2>1, ClientConn DEF CanSend, TypeOK
    <2>2. CASE d # c
      BY <1>0, <1>2, <2>2 DEF TypeOK
    <2> QED
      BY <2>1, <2>2
  <1>3. ASSUME NEW c \in Conns, (\E r \in Requests : SendReq(c, r)) \/ SendQuit(c)
        PROVE  ConnStep(d)
    BY <1>2, <1>3 DEF SendReq, SendQuit, Messages
  <1>4. ASSUME NEW c \in Conns, RecvRes(c) PROVE ConnStep(d)
    <2>1. CASE d = c
      BY <1>4, <2>1, ClientConn DEF RecvRes, TypeOK
    <2>2. CASE d # c
      BY <1>0, <1>4, <2>2 DEF RecvRes, TypeOK
    <2> QED
      BY <2>1, <2>2
  <1>5. ASSUME NEW C, NEW P, Hangup(C, P), \A c \in C \cap Conns : peer[c] = "up"
        PROVE  ConnStep(d)
    <2>1. /\ UNCHANGED <<sock, inq, status>>
          /\ d \notin C => peer'[d] = peer[d] /\ outq'[d] = outq[d]
          /\ d \in C => peer'[d] \in {"hup", "reset"} /\ outq'[d] = <<>>
      BY <1>5 DEF Hangup
    <2> QED
      BY <1>0, <2>1, ClientConn
  <1>6. ASSUME NEW c \in Conns, Disconnect(c) PROVE ConnStep(d)
    BY <1>5, <1>6 DEF Disconnect
  <1>7. ASSUME NEW p \in Procs, Exit(p) PROVE ConnStep(d)
    BY <1>5, <1>7 DEF Exit
  <1>8. CASE \/ \E c \in Conns : RecvEnd(c)
             \/ \E k \in Cards : ForeignTakes(k) \/ ForeignDrops(k)
             \/ \E s \in Sigs : Signal(s)
    BY <1>0, <1>8 DEF RecvEnd, ForeignTakes, ForeignDrops, Signal
  <1>9. CASE EpollInterrupted \/ Killed \/ Restart
    BY <1>9, QuietEffect, QuietConn DEF Killed, Quiet
  <1> QED
    BY <1>1, <1>3, <1>4, <1>6, <1>7, <1>8, <1>9 DEF Environment

\* On every connection, the service answers the messages it serves once and in
\* order, and stops at will: with any number of connections, whatever the
\* handlers, the other connections, signals and failures do in between.
THEOREM ConnectionsServed == Spec => ImplementsConn
  <1>1. Init => \A c \in Conns : Conn(c)!Init
    <2> SUFFICES ASSUME Init, NEW c \in Conns PROVE Conn(c)!Init
      OBVIOUS
    <2>1. inq[c] = <<>> /\ outq[c] = <<>> /\ sock[c] = "unused" /\ peer[c] = "none"
      BY DEF Init
    <2>2. Serving(c) = TRUE
      BY <2>1 DEF Serving
    <2>3. (peer[c] \in {"hup", "reset"}) = FALSE
      BY <2>1
    <2> QED
      BY <2>1, <2>2, <2>3 DEF Conn!Init
  <1>2. TypeOK /\ ConnsAccounted /\ Ends /\ [Next]_vars => [\A c \in Conns : ConnStep(c)]_vars
    <2> SUFFICES ASSUME TypeOK, ConnsAccounted, Ends, Next, NEW d \in Conns
                 PROVE  ConnStep(d)
      OBVIOUS
    <2>1. CASE Service
      BY <2>1, ServeConn, QuietEffect, QuietConn DEF Service, StaleCall, Quiet
    <2>2. CASE Environment
      BY <2>2, EnvironmentConn
    <2> QED
      BY <2>1, <2>2 DEF Next
  <1> QED
    BY <1>1, <1>2, TypeCorrect, ConnectionsAccounted, EndsInductive, PTL DEF Spec, ImplementsConn

----------------------------------------------------------------------------
(* In dev mode everybody gets its own answer.                               *)

\* Nothing but quit requests is unserved, except for m at the end.
Quits(q) == \A i \in 1..Len(q) : q[i] = QuitReq
Lastly(q, m) == \A i \in 1..Len(q) : q[i] = QuitReq \/ (i = Len(q) /\ q[i] = m)

\* A response to the request m, or a refusal.
Answer(q, m) == Len(q) = 1 /\ (q[1].code = "fd_res" => q[1].path = m.path)

\* The queues of the connection of a client that waits for m, or for nothing.
AskedWith(m, in, out) ==
    IF m = None THEN out = <<>> /\ Quits(in)
    ELSE (out = <<>> /\ Lastly(in, m)) \/ (in = <<>> /\ Answer(out, m))

Asked(c) ==
    /\ peer[c] \in {"none", "up"} => AskedWith(want[c], inq[c], outq[c])
    /\ sock[c] = "closed" => inq[c] = <<>>

LEMMA EmptyQueue == ASSUME NEW m, NEW q, NEW out, AskedWith(m, q, out)
                    PROVE  AskedWith(m, <<>>, out)
  BY DEF AskedWith, Quits, Lastly

LEMMA LastTail ==
    ASSUME NEW S, NEW q \in Seq(S), Len(q) = 1
    PROVE  Tail(q) = <<>>
  <1>1. q # <<>>
    BY EmptySeq
  <1>2. Tail(q) \in Seq(S) /\ Len(Tail(q)) = 0
    BY <1>1, HeadTailProperties
  <1>3. ~ (Len(Tail(q)) \in Nat \ {0})
    BY <1>2
  <1> QED
    BY <1>2, <1>3, EmptySeq, Zenon

LEMMA TailQueue ==
    ASSUME NEW m, NEW S, NEW q \in Seq(S), NEW out, q # <<>>, AskedWith(m, q, out)
    PROVE  /\ AskedWith(m, Tail(q), out) /\ out = <<>>
           /\ Head(q) # QuitReq => m # None /\ Head(q) = m /\ Tail(q) = <<>>
  <1> DEFINE r == Tail(q)
  <1>0. Len(q) = 1 => r = <<>>
    BY LastTail
  <1>1. /\ Len(q) \in Nat \ {0} /\ Len(r) = Len(q) - 1 /\ Head(q) = q[1]
        /\ \A i \in 1..Len(r) : r[i] = q[i + 1] /\ i + 1 \in 1..Len(q)
    OBVIOUS
  <1> HIDE DEF r
  <1>2. out = <<>> /\ (IF m = None THEN Quits(q) ELSE Lastly(q, m))
    BY DEF AskedWith
  <1>3. IF m = None THEN Quits(r) ELSE Lastly(r, m)
    BY <1>1, <1>2 DEF Quits, Lastly
  <1>4. AskedWith(m, r, out)
    BY <1>2, <1>3 DEF AskedWith
  <1>5. 1 \in 1..Len(q)
    BY <1>1
  <1>6. ASSUME Head(q) # QuitReq PROVE m # None /\ Head(q) = m /\ r = <<>>
    BY <1>0, <1>1, <1>2, <1>5, <1>6 DEF Quits, Lastly
  <1> QED
    BY <1>2, <1>4, <1>6 DEF r

LEMMA AppendQueue ==
    ASSUME NEW S, NEW q \in Seq(S), NEW m \in S
    PROVE  Quits(q) => Lastly(Append(q, m), m) /\ (m = QuitReq => Quits(Append(q, m)))
  <1> DEFINE r == Append(q, m)
  <1>1. Len(r) = Len(q) + 1 /\ Len(q) \in Nat /\ r[Len(q) + 1] = m
    OBVIOUS
  <1>2. \A i \in 1..Len(q) : r[i] = q[i]
    OBVIOUS
  <1> HIDE DEF r
  <1>3. Quits(q) => Lastly(r, m) /\ (m = QuitReq => Quits(r))
    BY <1>1, <1>2 DEF Quits, Lastly
  <1> QED
    BY <1>3 DEF r

\* In dev mode a quit request is not refused, and gets no answer.
LEMMA QuitUnanswered ==
    ASSUME TypeOK, Mode = "dev", NEW c \in Conns, Serve(c), inq[c] # <<>>,
           Head(inq[c]) = QuitReq
    PROVE  outq' = outq
  <1>1. ~GrantGdev(c) /\ ~FailGdev(c) /\ ~ServeDev(c, TRUE) /\ ~ServeDev(c, FALSE)
    BY DEF GrantGdev, FailGdev, ServeDev, Received, QuitReq
  <1>2. ~Refuse(c)
    BY DEF Refuse, Admitted
  <1> QED
    BY <1>1, <1>2 DEF Serve, ServeQuit, HungUp, ServeGarbled, RefuseGarbled

LEMMA ServeAsked ==
    ASSUME TypeOK, ConnsAccounted, Ends, Mode = "dev", \A d \in Conns : Asked(d),
           NEW c \in Conns, Serve(c), NEW d \in Conns
    PROVE  Asked(d)'
  <1>1. /\ sock[c] = "open" /\ Others(c) /\ want' = want
        /\ ConnAnswered(c) \/ ConnEnded(c) \/ ConnKept(c)
    BY ServeEffect
  <1>2. CASE d # c
    BY <1>1, <1>2, EmptyQueue DEF Others, Asked
  <1>3. CASE d = c /\ peer'[c] \in {"none", "up"}
    <2>1. peer'[c] = peer[c] /\ AskedWith(want[c], inq[c], outq[c])
      BY <1>1, <1>3 DEF ConnAnswered, ConnEnded, ConnKept, SameEnd, Asked
    <2>2. peer[c] = "up" /\ inq[c] \in Seq(Messages)
      BY <1>1, <1>3, <2>1 DEF Ends, TypeOK, Messages
    <2>3. CASE ConnAnswered(c)
      <3>1. PICK a \in Answers(Head(inq[c])) : outq'[c] = Append(outq[c], a)
        BY <2>2, <2>3 DEF ConnAnswered
      <3>2. outq[c] = <<>> /\ (Head(inq[c]) # QuitReq =>
                want[c] # None /\ Head(inq[c]) = want[c] /\ inq'[c] = <<>>)
        BY <2>1, <2>2, <2>3, TailQueue DEF ConnAnswered
      <3>3. outq'[c] = <<a>>
        BY <3>1, <3>2
      <3>4. Head(inq[c]) # QuitReq
        <4>0. <<a>> # <<>>
          OBVIOUS
        <4>1. inq[c] # <<>> /\ outq' # outq
          BY <2>3, <3>2, <3>3, <4>0 DEF ConnAnswered
        <4> QED
          BY <4>1, QuitUnanswered
      <3>5. a.code = "fd_res" => a.path = want[c].path
        BY <3>2, <3>4 DEF Answers, FdRes, ErrRes
      <3>6. Answer(<<a>>, want[c])
        BY <3>5 DEF Answer
      <3>7. AskedWith(want[c], inq'[c], outq'[c])
        BY <3>2, <3>3, <3>4, <3>6 DEF AskedWith
      <3> QED
        BY <1>1, <1>3, <2>3, <3>7 DEF ConnAnswered, Asked
    <2>4. CASE ConnEnded(c)
      <3>1. /\ outq'[c] = outq[c]
            /\ inq'[c] \in {inq[c], <<>>} \/ (inq[c] # <<>> /\ inq'[c] = Tail(inq[c]))
        BY <2>4 DEF ConnEnded
      <3>2. inq[c] # <<>> => AskedWith(want[c], Tail(inq[c]), outq[c])
        BY <2>1, <2>2, TailQueue
      <3>3. AskedWith(want[c], <<>>, outq[c])
        BY <2>1, EmptyQueue
      <3>4. AskedWith(want[c], inq'[c], outq'[c])
        BY <2>1, <2>4, <3>1, <3>2, <3>3 DEF ConnEnded
      <3> QED
        BY <1>1, <1>3, <2>4, <3>4 DEF ConnEnded, Asked
    <2>5. CASE ConnKept(c)
      BY <1>1, <1>3, <2>1, <2>5 DEF ConnKept, Asked
    <2> QED
      BY <1>1, <2>3, <2>4, <2>5
  <1>4. CASE d = c /\ peer'[c] \notin {"none", "up"}
    BY <1>1, <1>4 DEF ConnAnswered, ConnEnded, ConnKept, Asked
  <1> QED
    BY <1>2, <1>3, <1>4

LEMMA QuietAsked ==
    ASSUME TypeOK, ConnsAccounted, Ends, Quiet, NEW d \in Conns, Asked(d)
    PROVE  Asked(d)'
  <1>1. QuietOn(d) /\ want' = want
    BY QuietEffect
  <1> QED
    BY <1>1, EmptyQueue DEF QuietOn, Asked

LEMMA EnvironmentAsked ==
    ASSUME TypeOK, ConnsAccounted, Ends, Environment, \A c \in Conns : Asked(c),
           NEW d \in Conns
    PROVE  Asked(d)'
  <1> USE DEF svVars, soVars, drmVars, appVars
  <1>0. ASSUME UNCHANGED <<sock[d], want[d], outq[d], inq[d], peer[d]>>
        PROVE  Asked(d)'
    BY <1>0 DEF Asked
  <1>1. ASSUME NEW c \in Conns, NEW p \in Procs, Connect(c, p) PROVE Asked(d)'
    <2>1. /\ UNCHANGED <<want, inq, outq>>
          /\ d # c => UNCHANGED <<sock[d], peer[d]>>
          /\ sock'[c] = "queued" /\ peer[c] = "none"
      BY <1>1 DEF Connect, Ends, TypeOK
    <2> QED
      BY <1>0, <2>1 DEF Asked
  <1>2. ASSUME NEW c \in Conns, NEW m \in Messages, CanSend(c),
               inq' = [inq EXCEPT ![c] = Append(@, m)], UNCHANGED <<sock, peer, outq>>,
               want' = IF m = QuitReq THEN want ELSE [want EXCEPT ![c] = m]
        PROVE  Asked(d)'
    <2>1. CASE d = c
      <3>1. /\ want[c] = None /\ peer[c] = "up" /\ sock[c] # "closed" /\ inq[c] \in Seq(Messages)
            /\ inq'[c] = Append(inq[c], m)
            /\ want'[c] = IF m = QuitReq THEN None ELSE m
        BY <1>2 DEF CanSend, TypeOK, Messages
      <3>2. outq[c] = <<>> /\ Quits(inq[c])
        BY <3>1 DEF Asked, AskedWith
      <3>3. Lastly(inq'[c], m) /\ (m = QuitReq => Quits(inq'[c]))
        BY <3>1, <3>2, AppendQueue
      <3>4. CASE m = QuitReq
        BY <1>2, <3>1, <3>2, <3>3, <3>4 DEF AskedWith, Asked
      <3>5. CASE m # QuitReq
        <4>1. m # None
          BY <3>5, NamesAssumption DEF Messages, Requests, GdevReqs
        <4> QED
          BY <1>2, <3>1, <3>2, <3>3, <3>5, <4>1 DEF AskedWith, Asked
      <3> QED
        BY <2>1, <3>4, <3>5
    <2>2. CASE d # c
      BY <1>0, <1>2, <2>2 DEF TypeOK
    <2> QED
      BY <2>1, <2>2
  <1>3. ASSUME NEW c \in Conns, (\E r \in Requests : SendReq(c, r)) \/ SendQuit(c)
        PROVE  Asked(d)'
    <2>1. ASSUME NEW r \in Requests, SendReq(c, r) PROVE Asked(d)'
      <3>1. r \in Messages /\ r # QuitReq
        BY DevReqsAssumption DEF Messages, Requests, GdevReqs, QuitReq
      <3> QED
        BY <1>2, <2>1, <3>1 DEF SendReq
    <2>2. CASE SendQuit(c)
      BY <1>2, <2>2 DEF SendQuit, Messages
    <2> QED
      BY <1>3, <2>1, <2>2
  <1>4. ASSUME NEW c \in Conns, RecvRes(c) \/ RecvEnd(c) PROVE Asked(d)'
    <2>1. CASE d = c
      <3>1. /\ peer[c] = "up" /\ want[c] # None /\ want'[c] = None
            /\ UNCHANGED <<sock, inq, peer>> /\ AskedWith(want[c], inq[c], outq[c])
        BY <1>4 DEF RecvRes, RecvEnd, Asked, TypeOK
      <3>2. inq[c] = <<>> /\ outq'[c] = <<>>
        <4>1. CASE RecvRes(c)
          <5>1. outq[c] # <<>> /\ outq[c] \in Seq(Responses) /\ outq'[c] = Tail(outq[c])
            BY <4>1 DEF RecvRes, TypeOK
          <5>2. inq[c] = <<>> /\ inq' = inq /\ Len(outq[c]) = 1
            BY <3>1, <5>1 DEF AskedWith, Answer
          <5> QED
            BY <5>1, <5>2, LastTail
        <4>2. CASE RecvEnd(c)
          BY <4>2 DEF RecvEnd, Asked
        <4> QED
          BY <1>4, <4>1, <4>2
      <3>3. AskedWith(want'[c], inq'[c], outq'[c])
        BY <3>1, <3>2 DEF AskedWith, Quits
      <3> QED
        BY <2>1, <3>1, <3>2, <3>3 DEF Asked
    <2>2. CASE d # c
      BY <1>0, <1>4, <2>2 DEF RecvRes, RecvEnd, TypeOK
    <2> QED
      BY <2>1, <2>2
  <1>5. ASSUME NEW C, NEW P, Hangup(C, P) PROVE Asked(d)'
    <2>1. /\ UNCHANGED <<sock, inq>>
          /\ d \notin C => UNCHANGED <<peer[d], outq[d], want[d]>>
          /\ d \in C => peer'[d] \notin {"none", "up"}
      BY <1>5 DEF Hangup
    <2> QED
      BY <1>0, <2>1 DEF Asked
  <1>6. ASSUME NEW c \in Conns, Disconnect(c) PROVE Asked(d)'
    BY <1>5, <1>6 DEF Disconnect
  <1>7. ASSUME NEW p \in Procs, Exit(p) PROVE Asked(d)'
    BY <1>5, <1>7 DEF Exit
  <1>8. CASE \/ \E k \in Cards : ForeignTakes(k) \/ ForeignDrops(k)
             \/ \E s \in Sigs : Signal(s)
    BY <1>0, <1>8 DEF ForeignTakes, ForeignDrops, Signal
  <1>9. CASE EpollInterrupted \/ Killed \/ Restart
    BY <1>9, QuietAsked DEF Killed, Quiet
  <1> QED
    BY <1>1, <1>3, <1>4, <1>6, <1>7, <1>8, <1>9 DEF Environment

\* In dev mode a client that waits for the response to one request is never
\* handed the device of another: with quit requests before it, connections
\* dropped and processes replaced in between.
THEOREM AnswersMatch ==
    ASSUME Mode = "dev"
    PROVE  Spec => []AnswerMatches
  <1>1. Init => \A c \in Conns : Asked(c)
    BY DEF Init, Asked, AskedWith, Quits
  <1>2. TypeOK /\ ConnsAccounted /\ Ends /\ (\A c \in Conns : Asked(c)) /\ [Next]_vars
            => (\A c \in Conns : Asked(c))'
    <2> SUFFICES ASSUME TypeOK, ConnsAccounted, Ends, \A c \in Conns : Asked(c), [Next]_vars,
                        NEW d \in Conns
                 PROVE  Asked(d)'
      OBVIOUS
    <2>1. CASE Service
      BY <2>1, ServeAsked, QuietAsked DEF Service, StaleCall, Quiet
    <2>2. CASE Environment
      BY <2>2, EnvironmentAsked
    <2>3. CASE UNCHANGED vars
      BY <2>3 DEF vars, soVars, appVars, Asked
    <2> QED
      BY <2>1, <2>2, <2>3 DEF Next
  <1>3. Ends /\ (\A c \in Conns : Asked(c)) => AnswerMatches
    <2> SUFFICES ASSUME Ends, NEW c \in Conns, Asked(c), want[c] # None, outq[c] # <<>>,
                        Head(outq[c]).code = "fd_res"
                 PROVE  Head(outq[c]).path = want[c].path
      BY DEF AnswerMatches
    <2>1. AskedWith(want[c], inq[c], outq[c])
      BY DEF Ends, Asked
    <2> QED
      BY <2>1 DEF AskedWith, Answer
  <1> QED
    BY <1>1, <1>2, <1>3, TypeCorrect, ConnectionsAccounted, EndsInductive, PTL DEF Spec
============================================================================
