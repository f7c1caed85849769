--------------------------- MODULE SvClientProofs ---------------------------
(* Theorems about SvClient, for every capacity and number of messages.      *)
EXTENDS SvClient, TLAPS

\* Bounds, and what a queue has at which place after a message is taken or added.
LEMMA Places ==
    ASSUME NEW S, NEW q \in Seq(S)
    PROVE  /\ Len(q) \in Nat
           /\ q # <<>> => /\ Len(q) >= 1 /\ Head(q) = q[1] /\ Head(q) \in S
                          /\ Tail(q) \in Seq(S) /\ Len(Tail(q)) = Len(q) - 1
                          /\ \A i \in 1..Len(q) - 1 : Tail(q)[i] = q[i + 1]
           /\ \A e \in S : /\ Append(q, e) \in Seq(S) /\ Len(Append(q, e)) = Len(q) + 1
                           /\ Append(q, e)[Len(q) + 1] = e
                           /\ \A i \in 1..Len(q) : Append(q, e)[i] = q[i]
  OBVIOUS

\* A message gets responses, to it.
LEMMA AnswerKinds ==
    ASSUME NEW m \in Sent, NEW a \in Answers(m)
    PROVE  a \in Responses /\ a.answers = m.number /\ (a.code = "fd_res" => a.path = m.path)
  BY DEF Sent, Responses, Answers

----------------------------------------------------------------------------
(* Types.  What is counted stays within the number of messages sent.        *)

Counted == leaked + abandoned + Waiting <= sent

Types == TypeOK /\ Counted /\ (st = "sending" => sent < MaxSent)

LEMMA ServiceTypes ==
    ASSUME Types, Answer \/ Lose
    PROVE  Types'
  <1> USE DEF Types, Counted, Waiting, link
  <1>1. CASE Link!Serve /\ Answer
    <2>1. req # <<>> /\ Head(req) \in Sent /\ req' \in Seq(Sent)
      BY <1>1, Places DEF Link!Serve, TypeOK
    <2>2. PICK a \in Answers(Head(req)) : res' = IF gone THEN res ELSE Append(res, a)
      BY <1>1 DEF Link!Serve
    <2>3. res' \in Seq(Responses)
      BY <2>1, <2>2, AnswerKinds, Places DEF TypeOK
    <2> QED
      BY <1>1, <2>1, <2>3 DEF Answer, Link!Serve, TypeOK
  <1>2. CASE (Link!Forget /\ Answer) \/ Lose
    <2>1. req' \in {req, <<>>} \/ (req # <<>> /\ req' = Tail(req))
      BY <1>2 DEF Link!Forget, Lose, Link!Drop
    <2>2. req \in Seq(Sent) /\ <<>> \in Seq(Sent)
      BY DEF TypeOK
    <2>3. req # <<>> => Tail(req) \in Seq(Sent)
      BY <2>2, Places
    <2>4. req' \in Seq(Sent)
      BY <2>1, <2>2, <2>3
    <2> QED
      BY <1>2, <2>4 DEF Answer, Link!Forget, Lose, Link!Drop, TypeOK
  <1> QED
    BY <1>1, <1>2 DEF Answer

LEMMA ClientTypes ==
    ASSUME Types, NEW c \in Paths \cup {Quit},
           Client \/ Begin(c) \/ SendFails \/ Interrupted \/ Leave
    PROVE  Types'
  <1> USE DEF Types, Counted, Waiting, link, Throws
  <1>0. sent \in Nat /\ abandoned \in Nat /\ leaked \in Nat /\ MaxSent \in Nat
    BY MaxSentAssumption DEF TypeOK
  <1>1. CASE Begin(c)
    BY <1>0, <1>1 DEF Begin, TypeOK
  <1>2. CASE Send
    <2> DEFINE m == [path |-> IF call = Quit THEN Junk ELSE call, number |-> sent + 1]
    <2>1. sent + 1 \in 1..MaxSent
      BY <1>0, <1>2 DEF Send, TypeOK
    <2>2. m \in Sent
      BY <2>1 DEF Sent, TypeOK
    <2>3. req' \in Seq(Sent)
      BY <1>2, <2>2, Places DEF Send, Link!Send, TypeOK
    <2> QED
      BY <1>0, <1>2, <2>1, <2>3 DEF Send, Link!Send, TypeOK
  <1>3. CASE SendFails \/ ReceiveEnd
    BY <1>0, <1>3 DEF SendFails, ReceiveEnd, TypeOK
  <1>4. CASE Interrupted
    BY <1>0, <1>4 DEF Interrupted, TypeOK
  <1>5. CASE Receive
    <2>1. Head(res) \in Responses /\ res' \in Seq(Responses)
      BY <1>5, Places DEF Receive, Link!Read, TypeOK
    <2>2. Head(res).answers \in 0..MaxSent
      BY <1>0, <2>1 DEF Responses
    <2> QED
      BY <1>0, <1>5, <2>1, <2>2 DEF Receive, Link!Read, TypeOK
  <1>6. CASE Leave
    BY <1>0, <1>6 DEF Leave, Link!Leave, TypeOK
  <1> QED
    BY <1>1, <1>2, <1>3, <1>4, <1>5, <1>6 DEF Client
LEMMA TypesKept == Spec => []Types
  <1>1. Init => Types
    <2> SUFFICES ASSUME Init PROVE Types
      OBVIOUS
    <2>1. 0 \in 0..MaxSent /\ st = "idle" /\ sent = 0
      BY MaxSentAssumption DEF Init
    <2>2. TypeOK
      <3>1. req \in Seq(Sent) /\ res \in Seq(Responses)
        BY DEF Init, Link!Init
      <3>3. open \in BOOLEAN /\ gone \in BOOLEAN
        BY Zenon DEF Init, Link!Init
      <3>2. got \in [message : 0..MaxSent, answers : 0..MaxSent]
        BY <2>1 DEF Init
      <3> QED
        BY <2>1, <3>1, <3>2, <3>3 DEF Init, TypeOK
    <2> QED
      BY <2>1, <2>2 DEF Init, Types, Counted, Waiting
  <1>2. Types /\ [Next]_vars => Types'
    <2> SUFFICES ASSUME Types, [Next]_vars PROVE Types'
      OBVIOUS
    <2>1. CASE Answer \/ Lose
      BY <2>1, ServiceTypes
    <2>2. CASE Client \/ SendFails \/ Interrupted \/ Leave
      BY <2>2, ClientTypes
    <2>3. CASE \E c \in Paths \cup {Quit} : Begin(c)
      BY <2>3, ClientTypes
    <2>4. CASE UNCHANGED vars
      BY <2>4 DEF vars, link, Types, TypeOK, Counted, Waiting
    <2> QED
      BY <2>1, <2>2, <2>3, <2>4 DEF Next
  <1> QED
    BY <1>1, <1>2, PTL DEF Spec

\* The variables keep their types, and no more calls are abandoned or
\* descriptors lost than messages were sent.
THEOREM ClientTypeCorrect == Spec => []TypeOK
  <1>1. Types => TypeOK
    BY DEF Types
  <1> QED
    BY <1>1, TypesKept, PTL

----------------------------------------------------------------------------
(* Numbers.  Skew says which response is read next; that it stays so needs  *)
(* the numbers of the messages still unread, and that nothing is left over  *)
(* of a connection the client has closed.                                   *)

\* Which messages the responses answer, and which are still to be answered.
Numbered ==
    /\ Skew
    /\ open /\ ~gone => \A i \in 1..Len(req) : req[i].number = sent - Len(req) + i
    /\ Len(res) <= abandoned + Waiting
    /\ gone => res = <<>> /\ st = "idle"

\* While nothing was abandoned, what is under way belongs to the call.
Matched ==
    abandoned = 0 =>
        /\ leaked = 0 /\ got.message = got.answers
        /\ \A i \in 1..Len(res) : res[i].code = "fd_res" => res[i].path = call
        /\ open /\ ~gone /\ st = "waiting" => \A i \in 1..Len(req) : req[i].path = call

ClientInv == Numbered /\ Matched

LEMMA ServeNumbers ==
    ASSUME Types, ClientInv, Answer, Link!Serve
    PROVE  ClientInv'
  <1> DEFINE n == Len(req)
             k == Len(res)
  <1>1. PICK a \in Answers(Head(req)) : res' = IF gone THEN res ELSE Append(res, a)
    BY DEF Link!Serve
  <1>2. /\ open /\ req # <<>> /\ req' = Tail(req) /\ open' = open /\ gone' = gone
        /\ UNCHANGED <<st, call, sent, abandoned, leaked, got>>
    BY DEF Link!Serve, Answer
  <1>3. /\ n \in Nat /\ n >= 1 /\ Head(req) = req[1] /\ Head(req) \in Sent
        /\ Len(req') = n - 1 /\ \A i \in 1..n - 1 : req'[i] = req[i + 1]
    BY <1>2, Places DEF Types, TypeOK
  <1>4. /\ a \in Responses /\ a.answers = req[1].number
        /\ a.code = "fd_res" => a.path = req[1].path
    BY <1>3, AnswerKinds
  <1>5. sent \in Nat /\ abandoned \in Nat /\ Waiting \in {0, 1} /\ Waiting' = Waiting
    BY <1>2, MaxSentAssumption DEF Waiting, Types, TypeOK
  <1>6. CASE gone
    BY <1>1, <1>2, <1>5, <1>6 DEF ClientInv, Numbered, Skew, Matched
  <1>7. CASE ~gone
    <2>1. /\ k \in Nat /\ Len(res') = k + 1 /\ res'[k + 1] = a
          /\ \A i \in 1..k : res'[i] = res[i]
      BY <1>1, <1>4, <1>7, Places DEF Types, TypeOK
    <2>2. k + n = abandoned + Waiting /\ req[1].number = sent - n + 1
      BY <1>2, <1>3, <1>7 DEF ClientInv, Numbered, Skew
    <2> HIDE DEF n, k
    <2>3. res'[k + 1].answers = sent - abandoned - Waiting + (k + 1)
      BY <1>3, <1>4, <1>5, <2>1, <2>2
    <2>4. \A i \in 1..Len(res') : res'[i].answers = sent - abandoned - Waiting + i
      <3>1. \A i \in 1..k : res[i].answers = sent - abandoned - Waiting + i
        BY DEF ClientInv, Numbered, Skew, k
      <3>2. \A i \in 1..Len(res') : i \in 1..k \/ i = k + 1
        BY <2>1
      <3> QED
        BY <2>1, <2>3, <3>1, <3>2
    <2>5. \A i \in 1..Len(req') : req'[i].number = sent - Len(req') + i
      <3> TAKE i \in 1..Len(req')
      <3>1. i + 1 \in 1..n /\ req'[i] = req[i + 1]
        BY <1>3
      <3>2. req[i + 1].number = sent - n + (i + 1)
        BY <1>2, <1>7, <3>1 DEF ClientInv, Numbered, n
      <3> QED
        BY <1>3, <1>5, <3>1, <3>2
    <2>6. Numbered'
      <3>1. Len(res') + Len(req') = abandoned + Waiting /\ Len(res') <= abandoned + Waiting
        BY <1>3, <1>5, <2>1, <2>2
      <3> QED
        BY <1>2, <1>5, <1>7, <2>4, <2>5, <3>1 DEF Numbered, Skew
    <2>7. Matched'
      <3> SUFFICES ASSUME abandoned = 0
                   PROVE  /\ leaked = 0 /\ got.message = got.answers
                          /\ \A i \in 1..Len(res') : res'[i].code = "fd_res" => res'[i].path = call
                          /\ st = "waiting" => \A i \in 1..Len(req') : req'[i].path = call
        BY <1>2, <1>7 DEF Matched
      <3>1. st = "waiting" /\ n = 1 /\ k = 0
        BY <1>3, <1>5, <2>1, <2>2 DEF Waiting
      <3>2. req[1].path = call
        BY <1>2, <1>3, <1>7, <3>1 DEF ClientInv, Matched
      <3> QED
        BY <1>3, <1>4, <2>1, <3>1, <3>2 DEF ClientInv, Matched
    <2> QED
      BY <2>6, <2>7 DEF ClientInv
  <1> QED
    BY <1>6, <1>7

\* Dropping a connection, or closing what was dropped, ends what Numbered and
\* Matched say of the unread messages.
LEMMA DropNumbers ==
    ASSUME ClientInv, (Answer /\ Link!Forget) \/ Lose
    PROVE  ClientInv'
  <1>1. /\ open' = FALSE /\ gone' = gone /\ res' = res
        /\ UNCHANGED <<st, call, sent, abandoned, leaked, got>>
    BY DEF Answer, Link!Forget, Lose, Link!Drop
  <1> QED
    BY <1>1 DEF ClientInv, Numbered, Skew, Matched, Waiting

LEMMA SendNumbers ==
    ASSUME Types, ClientInv, Send
    PROVE  ClientInv'
  <1> DEFINE n == Len(req)
             m == [path |-> IF call = Quit THEN Junk ELSE call, number |-> sent + 1]
  <1>1. /\ st = "sending" /\ ~gone /\ ~gone' /\ req' = Append(req, m) /\ res' = res
        /\ open' = open /\ sent' = sent + 1 /\ UNCHANGED <<call, leaked, got>>
        /\ \/ call = Quit /\ st' = "idle" /\ abandoned' = abandoned + 1
           \/ call # Quit /\ st' = "waiting" /\ abandoned' = abandoned
    BY DEF Send, Link!Send
  <1>2. /\ sent \in Nat /\ abandoned \in Nat /\ leaked \in Nat
        /\ Waiting = 0 /\ Waiting' \in {0, 1} /\ abandoned' + Waiting' = abandoned + 1
        /\ abandoned' \in Nat /\ Len(res) \in Nat
    BY <1>1, MaxSentAssumption DEF Waiting, Types, TypeOK
  <1>3. /\ n \in Nat /\ Len(req') = n + 1 /\ req'[n + 1] = m
        /\ \A i \in 1..n : req'[i] = req[i]
    <2>1. sent + 1 \in 1..MaxSent /\ m \in Sent
      BY <1>1, <1>2, MaxSentAssumption DEF Types, TypeOK, Sent
    <2> QED
      BY <1>1, <2>1, Places DEF Types, TypeOK
  <1> HIDE DEF n
  <1>4. \A i \in 1..Len(req') : i \in 1..n \/ i = n + 1
    BY <1>3
  <1>5. \A i \in 1..Len(res') : res'[i].answers = sent' - abandoned' - Waiting' + i
    <2>1. \A i \in 1..Len(res) : res[i].answers = sent - abandoned + i
      BY <1>2 DEF ClientInv, Numbered, Skew
    <2>2. sent' - abandoned' - Waiting' = sent - abandoned
      <3>1. CASE call = Quit
        <4>1. abandoned' = abandoned + 1 /\ Waiting' = 0 /\ sent' = sent + 1
          BY <1>1, <3>1 DEF Waiting
        <4> QED
          BY <1>2, <4>1
      <3>2. CASE call # Quit
        <4>1. abandoned' = abandoned /\ Waiting' = 1 /\ sent' = sent + 1
          BY <1>1, <3>2 DEF Waiting
        <4> QED
          BY <1>2, <4>1
      <3> QED
        BY <3>1, <3>2
    <2> QED
      BY <1>1, <2>1, <2>2
  <1>6. open => Len(res) + n = abandoned
    BY <1>1, <1>2 DEF ClientInv, Numbered, Skew, n
  <1>7. open => \A i \in 1..Len(req') : req'[i].number = sent' - Len(req') + i
    <2> SUFFICES ASSUME open, NEW i \in 1..Len(req')
                 PROVE  req'[i].number = sent' - Len(req') + i
      OBVIOUS
    <2>1. i \in 1..n => req'[i].number = sent - n + i
      BY <1>1, <1>3 DEF ClientInv, Numbered, n
    <2>2. i = n + 1 => req'[i].number = sent + 1
      BY <1>3
    <2>3. sent' - Len(req') = sent - n /\ i \in Int
      <3>1. sent' = sent + 1 /\ Len(req') = n + 1 /\ i \in Int
        BY <1>1, <1>3
      <3> QED
        BY <1>2, <1>3, <3>1
    <2>4. sent - n + (n + 1) = sent + 1
      BY <1>2, <1>3
    <2> QED
      BY <1>4, <2>1, <2>2, <2>3, <2>4
  <1>8. Numbered'
    <2>1. open => Len(res') + Len(req') = abandoned' + Waiting'
      BY <1>1, <1>2, <1>3, <1>6
    <2>2. Len(res') <= abandoned' + Waiting'
      <3>1. Len(res) <= abandoned
        BY <1>2 DEF ClientInv, Numbered
      <3> QED
        BY <1>1, <1>2, <3>1
    <2> QED
      BY <1>1, <1>5, <1>7, <2>1, <2>2 DEF Numbered, Skew
  <1>9. Matched'
    <2> SUFFICES ASSUME abandoned' = 0
                 PROVE  /\ leaked = 0 /\ got.message = got.answers
                        /\ \A i \in 1..Len(res) : res[i].code = "fd_res" => res[i].path = call
                        /\ open => \A i \in 1..Len(req') : req'[i].path = call
      BY <1>1 DEF Matched
    <2>1. abandoned = 0 /\ call # Quit
      BY <1>1, <1>2
    <2>2. open => n = 0
      BY <1>2, <1>3, <1>6, <2>1
    <2>3. m.path = call
      BY <2>1
    <2> QED
      BY <1>1, <1>3, <1>4, <2>1, <2>2, <2>3 DEF ClientInv, Matched
  <1> QED
    BY <1>8, <1>9 DEF ClientInv

LEMMA ReceiveNumbers ==
    ASSUME Types, ClientInv, Receive
    PROVE  ClientInv'
  <1> DEFINE k == Len(res)
  <1>1. /\ st = "waiting" /\ res # <<>> /\ res' = Tail(res) /\ req' = req
        /\ open' = open /\ gone' = gone /\ st' = "idle" /\ UNCHANGED <<call, sent, abandoned>>
    BY DEF Receive, Link!Read
  <1>2. /\ sent \in Nat /\ abandoned \in Nat /\ Waiting = 1 /\ Waiting' = 0 /\ Len(req) \in Nat
    BY <1>1, MaxSentAssumption DEF Waiting, Types, TypeOK
  <1>3. /\ k \in Nat /\ k >= 1 /\ Head(res) = res[1] /\ Len(res') = k - 1 /\ ~gone
        /\ \A i \in 1..k - 1 : res'[i] = res[i + 1]
    BY <1>1, Places DEF Types, TypeOK, ClientInv, Numbered
  <1>4. \A i \in 1..k : res[i].answers = sent - abandoned - 1 + i
    BY <1>2 DEF ClientInv, Numbered, Skew
  <1>5. k <= abandoned + 1
    BY <1>2 DEF ClientInv, Numbered
  <1> HIDE DEF k
  <1>6. \A i \in 1..Len(res') : res'[i].answers = sent - abandoned + i
    <2> TAKE i \in 1..Len(res')
    <2>1. i + 1 \in 1..k /\ res'[i] = res[i + 1]
      BY <1>3
    <2>2. res[i + 1].answers = sent - abandoned - 1 + (i + 1)
      BY <1>4, <2>1
    <2> QED
      BY <1>2, <1>3, <2>1, <2>2
  <1>7. Numbered'
    <2>1. open => Len(res') + Len(req') = abandoned
      BY <1>1, <1>2, <1>3 DEF ClientInv, Numbered, Skew, k
    <2>2. open => \A i \in 1..Len(req) : req[i].number = sent - Len(req) + i
      BY <1>3 DEF ClientInv, Numbered
    <2>3. \A i \in 1..Len(res') : res'[i].answers = sent' - abandoned' - Waiting' + i
      BY <1>1, <1>2, <1>6
    <2>4. Len(res') <= abandoned' + Waiting'
      BY <1>1, <1>2, <1>3, <1>5
    <2> QED
      BY <1>1, <1>2, <1>3, <2>1, <2>2, <2>3, <2>4 DEF Numbered, Skew
  <1>8. Matched'
    <2> SUFFICES ASSUME abandoned = 0
                 PROVE  leaked' = 0 /\ got'.message = got'.answers /\ 1..Len(res') = {}
      BY <1>1 DEF Matched
    <2>1. k = 1 /\ res[1].answers = sent /\ Len(res') = 0
      BY <1>2, <1>3, <1>4, <1>5
    <2>2. 1 \in 1..Len(res)
      BY <2>1 DEF k
    <2>3. res[1].code \in {"fd_res", "err_res"} /\ (res[1].code = "fd_res" => res[1].path = call)
      <3>1. res[1] \in Responses
        BY <1>1, <1>3, Places DEF Types, TypeOK
      <3>2. res[1].code = "fd_res" => res[1].path = call
        BY <2>2 DEF ClientInv, Matched
      <3> QED
        BY <3>1, <3>2 DEF Responses
    <2>4. leaked = 0 /\ got.message = got.answers
      BY DEF ClientInv, Matched
    <2>5. \/ UNCHANGED <<leaked, got>>
          \/ leaked' = leaked /\ got' = [message |-> sent, answers |-> res[1].answers]
      BY <1>3, <2>3 DEF Receive
    <2>6. 1..Len(res') = {}
      BY <2>1
    <2> QED
      BY <2>1, <2>4, <2>5, <2>6
  <1> QED
    BY <1>7, <1>8 DEF ClientInv

\* A call that throws leaves the messages under way to the calls after it.
LEMMA ThrowNumbers ==
    ASSUME Types, ClientInv,
           SendFails \/ ReceiveEnd \/ Interrupted \/ (\E c \in Paths \cup {Quit} : Begin(c))
    PROVE  ClientInv'
  <1>0. sent \in Nat /\ abandoned \in Nat /\ Len(req) \in Nat /\ Len(res) \in Nat
    BY MaxSentAssumption DEF Types, TypeOK
  <1>1. UNCHANGED <<link, sent, leaked, got>>
    BY DEF SendFails, ReceiveEnd, Interrupted, Begin, Throws, link
  <1>2. CASE SendFails \/ (\E c \in Paths \cup {Quit} : Begin(c))
    <2>1. /\ abandoned' = abandoned /\ Waiting = 0 /\ Waiting' = 0 /\ ~(st' = "waiting")
          /\ gone => st' = "idle"
      BY <1>2 DEF SendFails, Begin, Throws, Waiting
    <2>2. abandoned = 0 => 1..Len(res) = {}
      BY <1>0, <2>1 DEF ClientInv, Numbered
    <2>3. Matched'
      BY <1>1, <2>1, <2>2 DEF ClientInv, Matched, link
    <2>4. Numbered'
      BY <1>1, <2>1 DEF ClientInv, Numbered, Skew, link
    <2> QED
      BY <2>3, <2>4 DEF ClientInv
  <1>3. CASE ReceiveEnd
    <2>1. ~open /\ res = <<>> /\ Waiting' = 0 /\ st' = "idle" /\ abandoned' = abandoned
      BY <1>3 DEF ReceiveEnd, Throws, Waiting
    <2>2. 1..Len(res) = {} /\ Len(res) = 0
      BY <2>1
    <2> QED
      BY <1>0, <1>1, <2>1, <2>2 DEF ClientInv, Numbered, Skew, Matched, link
  <1>4. CASE Interrupted
    <2>1. /\ res = <<>> /\ st' = "idle" /\ abandoned' = abandoned + 1
          /\ Waiting = 1 /\ Waiting' = 0
      BY <1>4 DEF Interrupted, Throws, Waiting
    <2>2. 1..Len(res) = {} /\ Len(res) = 0 /\ abandoned' # 0
      BY <1>0, <2>1
    <2>3. abandoned' + Waiting' = abandoned + Waiting
      BY <1>0, <2>1
    <2> QED
      BY <1>0, <1>1, <2>1, <2>2, <2>3 DEF ClientInv, Numbered, Skew, Matched, link
  <1> QED
    BY <1>2, <1>3, <1>4

LEMMA LeaveNumbers ==
    ASSUME Types, ClientInv, Leave
    PROVE  ClientInv'
  <1>1. /\ gone' = TRUE /\ res' = <<>> /\ st' = "idle" /\ Waiting' = 0
        /\ UNCHANGED <<req, open, call, sent, abandoned, leaked, got>>
    BY DEF Leave, Link!Leave, Waiting
  <1>2. Len(res') = 0 /\ 1..Len(res') = {} /\ abandoned \in Nat
    BY <1>1, MaxSentAssumption DEF Types, TypeOK
  <1> QED
    BY <1>1, <1>2 DEF ClientInv, Numbered, Skew, Matched

LEMMA ClientInductive == Spec => []ClientInv
  <1>1. Init => ClientInv
    <2> SUFFICES ASSUME Init PROVE ClientInv
      OBVIOUS
    <2>1. /\ Len(res) = 0 /\ Len(req) = 0 /\ 1..Len(res) = {} /\ 1..Len(req) = {}
          /\ Waiting = 0 /\ abandoned = 0 /\ ~gone
      BY DEF Init, Link!Init, Waiting
    <2> QED
      BY <2>1 DEF Init, ClientInv, Numbered, Skew, Matched
  <1>2. Types /\ ClientInv /\ [Next]_vars => ClientInv'
    <2> SUFFICES ASSUME Types, ClientInv, [Next]_vars PROVE ClientInv'
      OBVIOUS
    <2>1. CASE Answer \/ Lose
      BY <2>1, ServeNumbers, DropNumbers DEF Answer
    <2>2. CASE Client
      BY <2>2, SendNumbers, ReceiveNumbers, ThrowNumbers DEF Client
    <2>3. CASE SendFails \/ Interrupted \/ (\E c \in Paths \cup {Quit} : Begin(c))
      BY <2>3, ThrowNumbers
    <2>4. CASE Leave
      BY <2>4, LeaveNumbers
    <2>5. CASE UNCHANGED vars
      BY <2>5 DEF vars, link, ClientInv, Numbered, Skew, Matched, Waiting
    <2> QED
      BY <2>1, <2>2, <2>3, <2>4, <2>5 DEF Next
  <1> QED
    BY <1>1, <1>2, TypesKept, PTL DEF Spec

\* A client is out of step by exactly the calls it abandoned, with buffers of
\* any size: the response read next answers the message that many before.
THEOREM ClientSkew == Spec => []Skew
  <1>1. ClientInv => Skew
    BY DEF ClientInv, Numbered
  <1> QED
    BY <1>1, ClientInductive, PTL

\* A client that abandons nothing gets its own descriptors and loses none.
THEOREM ClientSound == Spec => []SoundUntilAbandoned
  <1>1. ClientInv => SoundUntilAbandoned
    BY DEF ClientInv, Matched, SoundUntilAbandoned
  <1> QED
    BY <1>1, ClientInductive, PTL

\* More abandoned calls than fit the client's buffer are needed to make the
\* service wait, and everybody it serves with it, for a client that does not read.
THEOREM ServiceStaysFree == Spec => []ServiceFree
  <1>1. Types /\ ClientInv => ServiceFree
    <2> SUFFICES ASSUME Types, ClientInv, Blocked, st # "waiting"
                 PROVE  abandoned > Capacity
      BY DEF ServiceFree
    <2>1. /\ open /\ ~gone /\ req # <<>> /\ Len(res) = Capacity /\ Waiting = 0
      BY DEF Blocked, Waiting
    <2>2. Len(req) \in Nat /\ Len(req) >= 1 /\ abandoned \in Nat
      BY <2>1, Places, MaxSentAssumption DEF Types, TypeOK
    <2>3. Len(res) + Len(req) = abandoned + 0
      BY <2>1 DEF ClientInv, Numbered, Skew
    <2> QED
      BY <2>1, <2>2, <2>3, CapacityAssumption
  <1> QED
    BY <1>1, TypesKept, ClientInductive, PTL
=============================================================================
