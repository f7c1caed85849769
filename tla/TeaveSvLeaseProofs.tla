------------------------- MODULE TeaveSvLeaseProofs -------------------------
(* Theorems that the descriptors of cards stay with the processes they were *)
(* granted to, and that TeaveSv keeps the promise of CardLease, for every   *)
(* value of its constants.                                                  *)
EXTENDS TeaveSvRefinement

----------------------------------------------------------------------------
(* Messages in a queue.                                                     *)

\* A descriptor of the card k is in flight in the queue q.
Carries(q, k) == \E i \in 1..Len(q) : q[i] = FdRes(k)

LEMMA AppendCarries ==
    ASSUME NEW S, NEW q \in Seq(S), NEW m \in S
    PROVE  /\ \A k : Carries(q, k) => Carries(Append(q, m), k)
           /\ \A k : m = FdRes(k) => Carries(Append(q, m), k)
  <1> DEFINE r == Append(q, m)
  <1>1. /\ Len(r) = Len(q) + 1 /\ Len(q) \in Nat /\ r[Len(r)] = m
        /\ \A i \in 1..Len(q) : r[i] = q[i]
    OBVIOUS
  <1>2. 1..Len(q) \subseteq 1..Len(r) /\ Len(r) \in 1..Len(r)
    BY <1>1
  <1> HIDE DEF r
  <1>3. /\ \A k : Carries(q, k) => Carries(r, k)
        /\ \A k : m = FdRes(k) => Carries(r, k)
    BY <1>1, <1>2 DEF Carries
  <1> QED
    BY <1>3 DEF r

LEMMA TailCarries ==
    ASSUME NEW S, NEW q \in Seq(S), q # <<>>, NEW k, Carries(q, k), Head(q) # FdRes(k)
    PROVE  Carries(Tail(q), k)
  <1> DEFINE r == Tail(q)
  <1>1. PICK i \in 1..Len(q) : q[i] = FdRes(k)
    BY DEF Carries
  <1>2. i # 1 /\ i \in Nat /\ Len(q) \in Nat
    BY <1>1
  <1>3. /\ Len(r) = Len(q) - 1
        /\ \A j \in 1..Len(r) : r[j] = q[j + 1]
    OBVIOUS
  <1>4. i - 1 \in 1..Len(r) /\ (i - 1) + 1 = i
    BY <1>1, <1>2, <1>3
  <1> HIDE DEF r
  <1>5. r[i - 1] = FdRes(k)
    BY <1>1, <1>3, <1>4
  <1>6. Carries(r, k)
    BY <1>4, <1>5 DEF Carries
  <1> QED
    BY <1>6 DEF r

----------------------------------------------------------------------------
(* Where the descriptors of cards are.                                      *)

LentOf(k) == lent[k] # None =>
    IF lent[k] \in Conns
    THEN owner[lent[k]] = master[k] /\ Carries(outq[lent[k]], k)
    ELSE lent[k] = master[k]

LEMMA LentParts == LentToMaster <=> \A k \in Cards : LentOf(k)
  BY DEF LentToMaster, LentOf, Carries

\* A descriptor whose message stays in its queue stays where it is.
LEMMA LentStays ==
    ASSUME NEW k \in Cards, LentOf(k), lent'[k] = lent[k], master'[k] = master[k],
           \A d \in Conns : lent[k] = d =>
               owner'[d] = owner[d] /\ (Carries(outq[d], k) => Carries(outq'[d], k))
    PROVE  LentOf(k)'
  BY DEF LentOf, Carries

\* A connection with messages has a client, and a queued descriptor messages.
LEMMA LentClient ==
    ASSUME TypeOK, Ends, MasterInv, NEW k \in Cards, LentOf(k), lent[k] \in Conns
    PROVE  /\ outq[lent[k]] # <<>> /\ peer[lent[k]] = "up" /\ sock[lent[k]] # "unused"
           /\ owner[lent[k]] \in Procs /\ master[k] \in Procs
  <1>1. lent[k] # None /\ Carries(outq[lent[k]], k)
    BY NamesAssumption DEF LentOf
  <1>2. outq[lent[k]] # <<>>
    BY <1>1 DEF Carries
  <1> QED
    BY <1>1, <1>2 DEF Ends, MasterInv, LentOf

\* Of a card without a master, or with one that is no process, nothing is lent.
LEMMA NobodyLent ==
    ASSUME TypeOK, Ends, MasterInv, NEW k \in Cards, LentOf(k), master[k] \in {None, Foreign}
    PROVE  lent[k] = None
  <1>1. master[k] \notin Procs
    BY NamesAssumption
  <1>2. lent[k] \notin Conns
    BY <1>1, LentClient
  <1> QED
    BY <1>1, <1>2 DEF LentOf, TypeOK

\* A handler adds messages, and destroys the devices of a process or does not.
LEMMA DropLends ==
    ASSUME TypeOK, LentToMaster, NEW b \in BOOLEAN, owner' = owner,
           \A d \in Conns : outq'[d] = outq[d] \/ \E m \in Responses : outq'[d] = Append(outq[d], m),
           NEW k \in Cards, master'[k] = MasterIf(b)[k], lent'[k] = LentIf(b)[k]
    PROVE  LentOf(k)'
  <1>0. LentOf(k)
    BY LentParts
  <1>1. CASE b /\ k \in a_p.gdevs
    <2>1. lent'[k] = None
      BY <1>1 DEF LentIf
    <2> QED
      BY <2>1 DEF LentOf
  <1>2. CASE ~(b /\ k \in a_p.gdevs)
    <2>1. lent'[k] = lent[k] /\ master'[k] = master[k]
      BY <1>2 DEF LentIf, MasterIf
    <2>2. \A d \in Conns : Carries(outq[d], k) => Carries(outq'[d], k)
      <3> TAKE d \in Conns
      <3>1. outq[d] \in Seq(Responses)
        BY DEF TypeOK
      <3>2. ASSUME NEW m \in Responses, outq'[d] = Append(outq[d], m)
            PROVE  Carries(outq[d], k) => Carries(outq'[d], k)
        BY <3>1, <3>2, AppendCarries
      <3> QED
        BY <3>2
    <2> QED
      BY <1>0, <2>1, <2>2, LentStays
  <1> QED
    BY <1>1, <1>2

----------------------------------------------------------------------------
(* What the handlers of messages do to the cards.                           *)

Grown == \A d \in Conns : outq'[d] = outq[d] \/ \E m \in Responses : outq'[d] = Append(outq[d], m)

\* The process pid is served, and gets no card.
ServedPlain(pid) ==
    /\ Admitted(pid) /\ a_p'.pid = pid /\ a_p'.gdevs = Kept(pid).gdevs
    /\ master' = MasterIf(Replaces(pid)) /\ lent' = LentIf(Replaces(pid))

\* The process pid is served, and gets the card k by the connection c.
ServedCard(c, pid, k) ==
    /\ Admitted(pid) /\ a_p'.pid = pid /\ a_p'.gdevs = Kept(pid).gdevs \cup {k}
    /\ MasterIf(Replaces(pid))[k] = None
    /\ master' = [MasterIf(Replaces(pid)) EXCEPT ![k] = pid]
    /\ lent' = [LentIf(Replaces(pid)) EXCEPT ![k] = IF peer[c] = "up" THEN c ELSE None]
    /\ owner[c] = pid /\ (peer[c] = "up" => Carries(outq'[c], k))

TurnEnded == a_p' = NoAct /\ master' = MasterIf(TRUE) /\ lent' = LentIf(TRUE)

LEMMA SendGrows ==
    ASSUME TypeOK, NEW c \in Conns, NEW m \in Responses, Send(c, m) \/ SendError(c, m)
    PROVE  Grown
  BY SendQueues DEF Grown

LEMMA GrantCards ==
    ASSUME TypeOK, ConnsAccounted, MasterInv, NEW c \in Conns, GrantGdev(c)
    PROVE  /\ owner' = owner /\ Grown
           /\ owner[c] \in Procs /\ \E k \in Cards : ServedCard(c, owner[c], k)
  <1> DEFINE k == Head(inq[c]).path
  <1>1. inq[c] # <<>> /\ Head(inq[c]) \in Messages /\ Head(inq[c]).code = "gdev"
    BY PoppedTypes DEF GrantGdev, Received
  <1>2. k \in Cards /\ FdRes(k) \in Responses /\ owner[c] \in Procs
    BY <1>1, RequestKinds, ResponseKinds DEF MasterInv
  <1>3. Promoted(c) = c /\ Send(c, FdRes(k)) /\ owner' = owner
    BY TurnOwned DEF GrantGdev, Received, Promoted, Owned
  <1>4. peer[c] = "up" => Carries(outq'[c], k)
    <2>1. peer[c] = "up" => outq'[c] = Append(outq[c], FdRes(k))
      BY <1>3, ReplyQueues DEF Send
    <2>2. outq[c] \in Seq(Responses)
      BY DEF TypeOK
    <2> HIDE DEF k
    <2>3. Carries(Append(outq[c], FdRes(k)), k)
      BY <1>2, <2>2, AppendCarries
    <2> QED
      BY <2>1, <2>3
  <1>5. ServedCard(c, owner[c], k)
    BY <1>4 DEF GrantGdev, ServedCard
  <1> QED
    BY <1>2, <1>3, <1>5, SendGrows

LEMMA ServeCards ==
    ASSUME TypeOK, ConnsAccounted, MasterInv, NEW c \in Conns, Serve(c)
    PROVE  /\ owner' = owner /\ Grown
           /\ \/ owner[c] \in Procs /\ \E k \in Cards : ServedCard(c, owner[c], k)
              \/ \E pid \in Procs \cup {Bogus} : ServedPlain(pid)
              \/ TurnEnded
              \/ UNCHANGED <<a_p, master, lent>>
  <1>0. c \in Owned /\ Promoted(c) = c
    BY TurnOwned DEF Serve, GrantGdev, FailGdev, ServeDev, ServeQuit, Refuse, ServeGarbled,
       RefuseGarbled, HungUp, Received, Garbled, Promoted, Owned
  <1>1. CASE GrantGdev(c)
    BY <1>1, GrantCards
  <1>2. inq[c] # <<>> => Head(inq[c]) \in Messages /\ owner[c] \in Procs
    BY PoppedTypes DEF MasterInv
  <1>3. CASE FailGdev(c)
    <2>1. ErrRes(Head(inq[c]).path) \in Responses /\ owner[c] \in Procs
      BY <1>2, <1>3, RequestKinds, ResponseKinds DEF FailGdev, Received
    <2>2. ServedPlain(owner[c]) /\ owner' = owner
      BY <1>3 DEF FailGdev, ServedPlain
    <2>3. Grown
      BY <1>0, <1>3, <2>1, SendGrows DEF FailGdev
    <2> QED
      BY <2>1, <2>2, <2>3
  <1>4. ASSUME NEW opened \in BOOLEAN, ServeDev(c, opened)
        PROVE  /\ owner' = owner /\ Grown
               /\ \E pid \in Procs \cup {Bogus} : ServedPlain(pid)
    <2>1. /\ FdRes(Head(inq[c]).path) \in Responses /\ ErrRes(Head(inq[c]).path) \in Responses
          /\ owner[c] \in Procs
      BY <1>2, <1>4, RequestKinds, ResponseKinds DEF ServeDev, Received
    <2>2. ServedPlain(owner[c]) /\ owner' = owner
      BY <1>4 DEF ServeDev, ServedPlain
    <2>3. Grown
      BY <1>0, <1>4, <2>1, SendGrows DEF ServeDev
    <2> QED
      BY <2>1, <2>2, <2>3
  <1>5. CASE ServeQuit(c)
    BY <1>5 DEF ServeQuit, TurnEnded, Grown
  <1>6. CASE Refuse(c)
    <2>1. Grown
      BY <1>0, <1>6, ResponseKinds, SendGrows DEF Refuse
    <2> QED
      BY <1>6, <2>1 DEF Refuse, drmVars
  <1>7. ASSUME NEW pid \in Procs \cup {Bogus}, ServeGarbled(c, pid)
        PROVE  owner' = owner /\ Grown /\ ServedPlain(pid)
    BY <1>7 DEF ServeGarbled, ServedPlain, Grown
  <1>8. CASE HungUp(c) \/ \E pid \in Procs \cup {Bogus} : RefuseGarbled(c, pid)
    BY <1>8 DEF HungUp, RefuseGarbled, Grown, drmVars
  <1> QED
    BY <1>1, <1>3, <1>4, <1>5, <1>6, <1>7, <1>8 DEF Serve

----------------------------------------------------------------------------
(* LentToMaster holds in every reachable state.                             *)

LEMMA ServeLends ==
    ASSUME TypeOK, ConnsAccounted, MasterInv, LentToMaster, NEW c \in Conns, Serve(c)
    PROVE  LentToMaster'
  <1>0. owner' = owner /\ Grown
    BY ServeCards
  <1> SUFFICES ASSUME NEW k \in Cards PROVE LentOf(k)'
    BY DEF LentToMaster, LentOf, Carries
  <1>1. ASSUME NEW b \in BOOLEAN, master'[k] = MasterIf(b)[k], lent'[k] = LentIf(b)[k]
        PROVE  LentOf(k)'
    BY <1>0, <1>1, DropLends DEF Grown
  <1>2. ASSUME NEW g \in Cards, ServedCard(c, owner[c], g)
        PROVE  LentOf(k)'
    <2>1. /\ MasterIf(Replaces(owner[c])) \in [Cards -> Procs \cup {None, Foreign}]
          /\ LentIf(Replaces(owner[c])) \in [Cards -> Conns \cup Procs \cup {None}]
      BY DropTypes, ReplacesType
    <2>2. CASE k = g
      <3>1. master'[k] = owner[c] /\ lent'[k] = IF peer[c] = "up" THEN c ELSE None
        BY <1>2, <2>1, <2>2 DEF ServedCard
      <3>2. peer[c] = "up" => Carries(outq'[c], k)
        BY <1>2, <2>2 DEF ServedCard
      <3> QED
        BY <1>0, <3>1, <3>2 DEF LentOf
    <2>3. CASE k # g
      <3>1. /\ master'[k] = MasterIf(Replaces(owner[c]))[k]
            /\ lent'[k] = LentIf(Replaces(owner[c]))[k]
        BY <1>2, <2>1, <2>3 DEF ServedCard
      <3> QED
        BY <1>1, <3>1, ReplacesType
    <2> QED
      BY <2>2, <2>3
  <1>3. ASSUME NEW pid, ServedPlain(pid) PROVE LentOf(k)'
    BY <1>1, <1>3, ReplacesType DEF ServedPlain
  <1>4. CASE TurnEnded
    BY <1>1, <1>4 DEF TurnEnded
  <1>5. CASE UNCHANGED <<a_p, master, lent>>
    <2>1. master'[k] = MasterIf(FALSE)[k] /\ lent'[k] = LentIf(FALSE)[k]
      BY <1>5 DEF MasterIf, LentIf
    <2> QED
      BY <1>1, <2>1
  <1> QED
    BY <1>2, <1>3, <1>4, <1>5, ServeCards

LEMMA EndLends ==
    ASSUME TypeOK, LentToMaster, Death \/ CleanupSignal \/ Finish
    PROVE  LentToMaster'
  <1> SUFFICES ASSUME NEW k \in Cards PROVE LentOf(k)'
    BY DEF LentToMaster, LentOf, Carries
  <1>1. LentOf(k) /\ UNCHANGED <<owner, outq>>
    BY LentParts DEF Death, CleanupSignal, Finish
  <1>2. CASE Death
    <2>1. lent' = lent /\ (lent[k] # None => master'[k] = master[k])
      BY <1>2 DEF Death
    <2>2. CASE lent[k] = None
      BY <2>1, <2>2 DEF LentOf
    <2>3. CASE lent[k] # None
      BY <1>1, <2>1, <2>3, LentStays
    <2> QED
      BY <2>2, <2>3
  <1>3. CASE CleanupSignal \/ Finish
    <2>1. master' = MasterIf(TRUE) /\ lent' = LentIf(TRUE)
      BY <1>3 DEF CleanupSignal, Finish, Cleanup
    <2>2. \A d \in Conns : outq'[d] = outq[d]
      BY <1>1
    <2> QED
      BY <1>1, <2>1, <2>2, DropLends
  <1> QED
    BY <1>2, <1>3

\* Steps that neither move a descriptor nor take a message of it away.
LEMMA LoopLends ==
    ASSUME LentToMaster, UNCHANGED <<master, lent, owner, outq>>
    PROVE  LentToMaster'
  BY DEF LentToMaster

LEMMA EnvironmentLends ==
    ASSUME TypeOK, Ends, MasterInv, LentToMaster, Environment
    PROVE  LentToMaster'
  <1> USE DEF svVars, soVars, drmVars, appVars
  <1>0. \A k \in Cards : LentOf(k)
    BY LentParts
  <1>1. ASSUME NEW c \in Conns, NEW p \in Procs, Connect(c, p) PROVE LentToMaster'
    <2> SUFFICES ASSUME NEW k \in Cards PROVE LentOf(k)'
      BY DEF LentToMaster, LentOf, Carries
    <2>1. lent[k] # c
      BY <1>0, <1>1, LentClient DEF Connect
    <2>2. UNCHANGED <<master, lent, outq>> /\ \A d \in Conns \ {c} : owner'[d] = owner[d]
      BY <1>1 DEF Connect, TypeOK
    <2> QED
      BY <1>0, <2>1, <2>2, LentStays
  <1>2. ASSUME NEW c \in Conns, RecvRes(c) PROVE LentToMaster'
    <2> SUFFICES ASSUME NEW k \in Cards PROVE LentOf(k)'
      BY DEF LentToMaster, LentOf, Carries
    <2>1. /\ outq[c] # <<>> /\ outq[c] \in Seq(Responses) /\ UNCHANGED <<master, owner>>
          /\ \A d \in Conns : outq'[d] = IF d = c THEN Tail(outq[d]) ELSE outq[d]
          /\ lent'[k] = IF Head(outq[c]) = FdRes(k) /\ lent[k] = c THEN owner[c] ELSE lent[k]
      BY <1>2 DEF RecvRes, TypeOK
    <2>2. CASE Head(outq[c]) = FdRes(k) /\ lent[k] = c
      <3>1. owner[c] \in Procs /\ owner[c] = master[k]
        BY <1>0, <2>2, LentClient, NamesAssumption DEF LentOf
      <3>2. owner[c] \notin Conns
        BY <3>1, NamesAssumption
      <3> QED
        BY <2>1, <2>2, <3>1, <3>2 DEF LentOf
    <2>3. CASE Head(outq[c]) # FdRes(k) \/ lent[k] # c
      <3>1. lent'[k] = lent[k]
        BY <2>1, <2>3
      <3>2. \A d \in Conns : lent[k] = d => (Carries(outq[d], k) => Carries(outq'[d], k))
        BY <2>1, <2>3, TailCarries
      <3> QED
        BY <1>0, <2>1, <3>1, <3>2, LentStays
    <2> QED
      BY <2>2, <2>3
  <1>3. ASSUME NEW C, NEW P, Hangup(C, P) PROVE LentToMaster'
    <2> SUFFICES ASSUME NEW k \in Cards PROVE LentOf(k)'
      BY DEF LentToMaster, LentOf, Carries
    <2>1. /\ owner' = owner
          /\ \A d \in Conns \ C : outq'[d] = outq[d]
          /\ lent[k] \in C \cup P => lent'[k] = None
          /\ lent[k] \notin C \cup P => lent'[k] = lent[k] /\ master'[k] = master[k]
      BY <1>3 DEF Hangup
    <2>2. CASE lent[k] \in C \cup P
      BY <2>1, <2>2 DEF LentOf
    <2>3. CASE lent[k] \notin C \cup P
      BY <1>0, <2>1, <2>3, LentStays
    <2> QED
      BY <2>2, <2>3
  <1>4. ASSUME NEW g \in Cards, ForeignTakes(g) \/ ForeignDrops(g) PROVE LentToMaster'
    <2> SUFFICES ASSUME NEW k \in Cards PROVE LentOf(k)'
      BY DEF LentToMaster, LentOf, Carries
    <2>1. /\ lent[g] = None /\ UNCHANGED <<lent, owner, outq>>
          /\ \A h \in Cards \ {g} : master'[h] = master[h]
      BY <1>0, <1>4, NobodyLent DEF ForeignTakes, ForeignDrops, TypeOK
    <2>2. CASE k = g
      BY <2>1, <2>2 DEF LentOf
    <2>3. CASE k # g
      BY <1>0, <2>1, <2>3, LentStays
    <2> QED
      BY <2>2, <2>3
  <1>5. ASSUME NEW c \in Conns,
               (\E r \in Requests : SendReq(c, r)) \/ SendQuit(c) \/ RecvEnd(c)
        PROVE  LentToMaster'
    BY <1>5, LoopLends DEF SendReq, SendQuit, RecvEnd
  <1>6. CASE (\E s \in Sigs : Signal(s)) \/ EpollInterrupted \/ Restart
    BY <1>6, LoopLends DEF Signal, EpollInterrupted, Restart
  <1>7. ASSUME NEW c \in Conns, Disconnect(c) PROVE LentToMaster'
    BY <1>3, <1>7 DEF Disconnect
  <1>8. ASSUME NEW p \in Procs, Exit(p) PROVE LentToMaster'
    BY <1>3, <1>8 DEF Exit
  <1> QED
    BY <1>1, <1>2, <1>4, <1>5, <1>6, <1>7, <1>8, EndLends DEF Environment, Killed

\* Whoever has a usable descriptor of a card, or is about to receive it, is the
\* process the card's master was granted to: whatever connection the service
\* sent it on, and whatever was replaced, evicted or killed since.
THEOREM LentMastered == Spec => []LentToMaster
  <1>1. Init => LentToMaster
    BY DEF Init, LentToMaster
  <1>2. TypeOK /\ ConnsAccounted /\ Ends /\ MasterInv /\ LentToMaster /\ [Next]_vars
            => LentToMaster'
    <2> SUFFICES ASSUME TypeOK, ConnsAccounted, Ends, MasterInv, LentToMaster, [Next]_vars
                 PROVE  LentToMaster'
      OBVIOUS
    <2>1. CASE EpollWait \/ RecvBlocks \/ QuitSignal \/ Accept \/ AcceptFails
      BY <2>1, LoopLends
      DEF EpollWait, RecvBlocks, QuitSignal, Accept, AcceptFails, soVars, drmVars
    <2>2. CASE Service
      BY <2>1, <2>2, ServeLends, EndLends DEF Service, StaleCall
    <2>3. CASE Environment
      BY <2>3, EnvironmentLends
    <2>4. CASE UNCHANGED vars
      BY <2>4, LoopLends DEF vars, soVars, drmVars
    <2> QED
      BY <2>2, <2>3, <2>4 DEF Next
  <1> QED
    BY <1>1, <1>2, TypeCorrect, ConnectionsAccounted, EndsInductive, MastersInductive, PTL DEF Spec

----------------------------------------------------------------------------
(* TeaveSv implements CardLease.                                            *)

LeaseVars == <<a_p.pid, a_p.gdevs, Access>>

\* What the lease calls the end of everybody's access is what ~Act_proc does.
LEMMA RestAccess ==
    ASSUME TypeOK, NEW b \in BOOLEAN, owner' = owner, NEW k \in Cards, lent'[k] = LentIf(b)[k]
    PROVE  Access'[k] = IF b THEN Lease!Rest[k] ELSE Access[k]
  <1>0. None \notin Conns
    BY NamesAssumption
  <1>1. /\ Access'[k] = IF lent'[k] \in Conns THEN owner'[lent'[k]] ELSE lent'[k]
        /\ Access[k] = IF lent[k] \in Conns THEN owner[lent[k]] ELSE lent[k]
    BY DEF Access
  <1>2. Lease!Rest[k] = IF k \in a_p.gdevs THEN None ELSE Access[k]
    BY DEF Lease!Rest
  <1>3. lent'[k] = IF b /\ k \in a_p.gdevs THEN None ELSE lent[k]
    BY DEF LentIf
  <1> QED
    BY <1>0, <1>1, <1>2, <1>3

\* A card that nobody is master of, or will be when the turn ends, is not lent.
LEMMA FreeAccess ==
    ASSUME TypeOK, Ends, MasterInv, LentToMaster, NEW b \in BOOLEAN, NEW k \in Cards,
           MasterIf(b)[k] = None
    PROVE  (IF b THEN Lease!Rest[k] ELSE Access[k]) = None
  <1>0. None \notin Conns
    BY NamesAssumption
  <1>1. LentOf(k)
    BY LentParts
  <1>2. CASE b /\ k \in a_p.gdevs
    BY <1>2 DEF Lease!Rest
  <1>3. CASE ~(b /\ k \in a_p.gdevs)
    <2>1. master[k] = None
      BY <1>3 DEF MasterIf
    <2>2. lent[k] = None
      BY <1>1, <2>1, NobodyLent
    <2>3. Access[k] = None
      BY <1>0, <2>2 DEF Access
    <2> QED
      BY <1>3, <2>3 DEF Lease!Rest
  <1> QED
    BY <1>2, <1>3

\* Functions over the cards are equal when they agree on every card.
LEMMA AccessFunction ==
    ASSUME NEW f, f = [k \in Cards |-> f[k]], \A k \in Cards : Access'[k] = f[k]
    PROVE  Access' = f
  BY DEF Access

LEMMA ServeLease ==
    ASSUME TypeOK, ConnsAccounted, Ends, MasterInv, LentToMaster, NEW c \in Conns, Serve(c)
    PROVE  [Lease!Next]_LeaseVars
  <1>0. owner' = owner /\ None \notin Conns
    BY ServeCards, NamesAssumption
  <1>1. ASSUME NEW pid \in Procs \cup {Bogus}, NEW G, G \in {{}} \cup {{k} : k \in Cards},
               Admitted(pid), a_p'.pid = pid, a_p'.gdevs = Kept(pid).gdevs \cup G,
               \A k \in G : MasterIf(Replaces(pid))[k] = None,
               \A k \in Cards \ G : lent'[k] = LentIf(Replaces(pid))[k],
               \E got \in {pid, None} : \A k \in G : Access'[k] = got
        PROVE  Lease!Next
    <2> DEFINE b == Replaces(pid)
               accessNow == IF Lease!NewTurn THEN Lease!Rest ELSE Access
    <2>1. b \in BOOLEAN /\ (Lease!NewTurn <=> b)
      BY DEF Replaces, Lease!NewTurn
    <2>2. (Mode = "dev") \/ a_p.pid \in {None, pid}
      BY <1>1 DEF Admitted
    <2>3. a_p'.gdevs = (IF Lease!NewTurn THEN {} ELSE a_p.gdevs) \cup G
      BY <1>1, <2>1 DEF Kept
    <2>4. G \subseteq Cards
      BY <1>1
    <2>5. \A k \in Cards : accessNow[k] = IF b THEN Lease!Rest[k] ELSE Access[k]
      BY <2>1
    <2>6. \A k \in G : accessNow[k] = None
      BY <1>1, <2>1, <2>4, <2>5, FreeAccess
    <2>7. \A k \in Cards \ G : Access'[k] = accessNow[k]
      BY <1>0, <1>1, <2>1, <2>5, RestAccess
    <2>8. PICK got \in {pid, None} : \A k \in G : Access'[k] = got
      BY <1>1
    <2> HIDE DEF accessNow
    <2>9. Access' = [k \in Cards |-> IF k \in G THEN got ELSE accessNow[k]]
      BY <2>4, <2>7, <2>8 DEF Access
    <2>10. Lease!Serve(pid, G)
      BY <1>1, <2>2, <2>3, <2>6, <2>9 DEF Lease!Serve, accessNow
    <2> QED
      BY <1>1, <2>10 DEF Lease!Next
  <1>2. ASSUME NEW k \in Cards, owner[c] \in Procs, ServedCard(c, owner[c], k)
        PROVE  Lease!Next
    <2>1. /\ LentIf(Replaces(owner[c])) \in [Cards -> Conns \cup Procs \cup {None}]
      BY DropTypes, ReplacesType
    <2>2. /\ lent'[k] = IF peer[c] = "up" THEN c ELSE None
          /\ \A g \in Cards \ {k} : lent'[g] = LentIf(Replaces(owner[c]))[g]
      BY <1>2, <2>1 DEF ServedCard
    <2>3. Access'[k] \in {owner[c], None}
      BY <1>0, <2>2 DEF Access
    <2> DEFINE G == {k}
    <2>4. /\ G \in {{}} \cup {{g} : g \in Cards}
          /\ a_p'.gdevs = Kept(owner[c]).gdevs \cup G
          /\ \A g \in G : MasterIf(Replaces(owner[c]))[g] = None
          /\ \A g \in Cards \ G : lent'[g] = LentIf(Replaces(owner[c]))[g]
      BY <1>2, <2>2 DEF ServedCard
    <2>5. \E got \in {owner[c], None} : \A g \in G : Access'[g] = got
      BY <2>3
    <2>6. Admitted(owner[c]) /\ a_p'.pid = owner[c]
      BY <1>2 DEF ServedCard
    <2> HIDE DEF G
    <2> QED
      BY <1>1, <1>2, <2>4, <2>5, <2>6
  <1>3. ASSUME NEW pid \in Procs \cup {Bogus}, ServedPlain(pid) PROVE Lease!Next
    <2> DEFINE G == {}
    <2>1. /\ G \in {{}} \cup {{k} : k \in Cards}
          /\ a_p'.gdevs = Kept(pid).gdevs \cup G
          /\ \A k \in G : MasterIf(Replaces(pid))[k] = None
          /\ \A k \in Cards \ G : lent'[k] = LentIf(Replaces(pid))[k]
          /\ \E got \in {pid, None} : \A k \in G : Access'[k] = got
      BY <1>3 DEF ServedPlain
    <2>2. Admitted(pid) /\ a_p'.pid = pid
      BY <1>3 DEF ServedPlain
    <2> HIDE DEF G
    <2> QED
      BY <1>1, <2>1, <2>2
  <1>4. CASE TurnEnded
    <2>1. \A k \in Cards : Access'[k] = Lease!Rest[k]
      BY <1>0, <1>4, RestAccess DEF TurnEnded
    <2>2. Access' = Lease!Rest
      BY <2>1, AccessFunction DEF Lease!Rest
    <2> QED
      BY <1>4, <2>2 DEF TurnEnded, NoAct, Lease!Next, Lease!EndTurn
  <1>5. CASE UNCHANGED <<a_p, master, lent>>
    BY <1>0, <1>5 DEF LeaseVars, Access
  <1> QED
    BY <1>2, <1>3, <1>4, <1>5, ServeCards

LEMMA EndLease ==
    ASSUME TypeOK, Death \/ CleanupSignal \/ Finish
    PROVE  Lease!Next
  <1>1. CASE Death
    <2>1. a_p' = NoAct /\ Access' = Access
      BY <1>1 DEF Death, Ended, Access
    <2> QED
      BY <2>1 DEF NoAct, Lease!Next, Lease!Crash
  <1>2. CASE CleanupSignal \/ Finish
    <2>1. a_p' = NoAct /\ lent' = LentIf(TRUE) /\ owner' = owner
      BY <1>2 DEF CleanupSignal, Finish, Cleanup
    <2>2. \A k \in Cards : Access'[k] = Lease!Rest[k]
      BY <2>1, RestAccess
    <2>3. Access' = Lease!Rest
      BY <2>2, AccessFunction DEF Lease!Rest
    <2> QED
      BY <2>1, <2>3 DEF NoAct, Lease!Next, Lease!EndTurn
  <1> QED
    BY <1>1, <1>2

LEMMA EnvironmentLease ==
    ASSUME TypeOK, Ends, MasterInv, LentToMaster, Environment
    PROVE  [Lease!Next]_LeaseVars
  <1> USE DEF svVars, soVars, drmVars, appVars
  <1>0. (\A k \in Cards : LentOf(k)) /\ None \notin Conns
    BY LentParts, NamesAssumption
  <1>1. ASSUME NEW c \in Conns, NEW p \in Procs, Connect(c, p) PROVE UNCHANGED LeaseVars
    <2>1. /\ UNCHANGED <<a_p, lent>> /\ \A d \in Conns \ {c} : owner'[d] = owner[d]
          /\ \A k \in Cards : lent[k] # c
      BY <1>0, <1>1, LentClient DEF Connect, TypeOK
    <2> QED
      BY <2>1 DEF LeaseVars, Access
  <1>2. ASSUME NEW c \in Conns, RecvRes(c) PROVE UNCHANGED LeaseVars
    <2>1. UNCHANGED <<a_p, owner>>
      BY <1>2 DEF RecvRes
    <2>2. \A k \in Cards : Access'[k] = Access[k]
      <3> TAKE k \in Cards
      <3>1. lent'[k] = lent[k] \/ (lent[k] = c /\ lent'[k] = owner[c])
        BY <1>2 DEF RecvRes
      <3>2. lent[k] = c => owner[c] \notin Conns
        BY <1>0, LentClient, NamesAssumption
      <3> QED
        BY <2>1, <3>1, <3>2 DEF Access
    <2>3. Access' = Access
      BY <2>2, AccessFunction DEF Access
    <2> QED
      BY <2>1, <2>3 DEF LeaseVars
  <1>3. ASSUME NEW C, NEW P, Hangup(C, P) PROVE Lease!Next
    <2> DEFINE G == {k \in Cards : lent[k] \in C \cup P}
    <2>1. UNCHANGED <<a_p, owner>>
          /\ \A k \in Cards : lent'[k] = IF k \in G THEN None ELSE lent[k]
      BY <1>3 DEF Hangup
    <2>2. Access' = [k \in Cards |-> IF k \in G THEN None ELSE Access[k]]
      BY <1>0, <2>1 DEF Access
    <2>3. G \in SUBSET Cards
      OBVIOUS
    <2> HIDE DEF G
    <2> QED
      BY <2>1, <2>2, <2>3 DEF Lease!Next, Lease!Close
  <1>4. CASE UNCHANGED <<a_p, lent, owner>>
    BY <1>4 DEF LeaseVars, Access
  <1>5. ASSUME NEW c \in Conns,
               (\E r \in Requests : SendReq(c, r)) \/ SendQuit(c) \/ RecvEnd(c)
        PROVE  [Lease!Next]_LeaseVars
    BY <1>4, <1>5 DEF SendReq, SendQuit, RecvEnd
  <1>6. CASE \/ \E k \in Cards : ForeignTakes(k) \/ ForeignDrops(k)
             \/ \E s \in Sigs : Signal(s)
             \/ EpollInterrupted \/ Restart
    BY <1>4, <1>6 DEF ForeignTakes, ForeignDrops, Signal, EpollInterrupted, Restart
  <1>7. CASE (\E c \in Conns : Disconnect(c)) \/ (\E p \in Procs : Exit(p))
    BY <1>3, <1>7 DEF Disconnect, Exit
  <1> QED
    BY <1>1, <1>2, <1>5, <1>6, <1>7, EndLease DEF Environment, Killed

\* One process at a time holds the cards, gets them one by one, and loses them
\* all in the step that ends its turn; only a kill leaves access behind.
THEOREM LeaseKept == Spec => ImplementsLease
  <1>1. Init => Lease!Init
    <2>1. Init => Access = [k \in Cards |-> None]
      BY NamesAssumption DEF Init, Access
    <2> QED
      BY <2>1 DEF Init, Lease!Init, NoAct
  <1>2. TypeOK /\ ConnsAccounted /\ Ends /\ MasterInv /\ LentToMaster /\ [Next]_vars
            => [Lease!Next]_LeaseVars
    <2> SUFFICES ASSUME TypeOK, ConnsAccounted, Ends, MasterInv, LentToMaster, [Next]_vars
                 PROVE  [Lease!Next]_LeaseVars
      OBVIOUS
    <2>1. CASE EpollWait \/ RecvBlocks \/ QuitSignal \/ Accept \/ AcceptFails
      <3>1. UNCHANGED <<a_p, lent, owner>>
        BY <2>1 DEF EpollWait, RecvBlocks, QuitSignal, Accept, AcceptFails, soVars, drmVars
      <3> QED
        BY <3>1 DEF LeaseVars, Access
    <2>2. CASE Service
      BY <2>1, <2>2, ServeLease, EndLease DEF Service, StaleCall
    <2>3. CASE Environment
      BY <2>3, EnvironmentLease
    <2>4. CASE UNCHANGED vars
      BY <2>4 DEF vars, svVars, soVars, drmVars, LeaseVars, Access
    <2> QED
      BY <2>2, <2>3, <2>4 DEF Next
  <1> QED
    BY <1>1, <1>2, TypeCorrect, ConnectionsAccounted, EndsInductive, MastersInductive,
       LentMastered, PTL DEF Spec, ImplementsLease, Lease!Spec, Lease!vars, LeaseVars
=============================================================================
