-------------------------- MODULE ZephyrEdhocProofs --------------------------
(***************************************************************************)
(* Proofs about the mailboxes of the zephyr_edhoc sample, for any number   *)
(* of runs, timeouts and faults and any callbacks of the initiator.        *)
(***************************************************************************)
EXTENDS ZephyrEdhoc, TLAPS

\* Names of requests, messages of the mailboxes and datagrams.
Ids == {<<>>} \cup (Nat \X Nat)
Messages == [m : Nat, session : Nat, answers : Ids]
Datagrams == [type : {"post", "reply"}, id : Ids, payload : Messages]

\* The records that the threads and the datagrams are.
ShapeInv ==
  /\ imain \in [pc : {"router", "get1", "reply2", "put2", "get3", "reply4", "quit"},
                run : Nat, buffer : Messages]
  /\ iedhoc \in [pc : {"start", "put", "get", "compute", "ended"},
                 message : Messages]
  /\ rmain \in [pc : {"router", "recv", "put", "get"}, request : Ids,
                buffer : Messages]
  /\ redhoc \in [pc : {"get", "compute", "put"}, message : Messages,
                 stage : {1, 3}, session : Nat]
  /\ sent \subseteq Datagrams

\* What a thread puts into its tx_queue is a message of its side.
OutgoingInv ==
  /\ iedhoc.pc = "put" => iedhoc.message.m \in {1, 3}
  /\ redhoc.pc = "put" => redhoc.message.m = 2

\* While the responder's main waits, the EDHOC thread works on its request; and
\* the EDHOC thread works only while main waits, unless a wait has ended early.
MailboxInv ==
  /\ rmain.pc = "get" /\ redhoc.pc \in {"compute", "put"}
       => redhoc.message.answers = rmain.request
  /\ timeouts = 0 /\ redhoc.pc \in {"compute", "put"} => rmain.pc = "get"

ZephyrInv == TypeOK /\ ShapeInv /\ OutgoingInv /\ MailboxInv /\ RepliesAnswerRequests

\* What the record constructors of the model give.
LEMMA NothingType == Nothing \in Messages /\ Nothing.m = 0 /\ <<>> \in Ids
BY DEF Nothing, Messages, Ids

\* Identifiers of requests.
LEMMA IdType == \A run, m \in Nat : <<run, m>> \in Ids
BY DEF Ids

\* A message of the handshake is one, with its fields.
LEMMA MessageType ==
  ASSUME NEW m \in Nat, NEW session \in Nat, NEW answers \in Ids
  PROVE  /\ Message(m, session, answers) \in Messages
         /\ Message(m, session, answers).m = m
         /\ Message(m, session, answers).answers = answers
BY DEF Message, Messages

\* A message that answers another request is still a message.
LEMMA AnswersType ==
  ASSUME NEW x \in Messages, NEW id \in Ids
  PROVE  /\ x.m \in Nat /\ x.session \in Nat /\ x.answers \in Ids
         /\ [x EXCEPT !.answers = id] \in Messages
         /\ [x EXCEPT !.answers = id].answers = id
         /\ [x EXCEPT !.answers = id].m = x.m
BY DEF Messages

\* Requests and replies are datagrams, with their fields.
LEMMA DatagramType ==
  ASSUME NEW id \in Ids, NEW x \in Messages
  PROVE  /\ Post(id, x) \in Datagrams /\ Post(id, x).type = "post"
         /\ Post(id, x).id = id /\ Post(id, x).payload = x
         /\ Reply(id, x) \in Datagrams /\ Reply(id, x).type = "reply"
         /\ Reply(id, x).id = id /\ Reply(id, x).payload = x
BY DEF Post, Reply, Datagrams

\* The fields of a datagram.
LEMMA DatagramFields ==
  ASSUME NEW d \in Datagrams
  PROVE  d.type \in {"post", "reply"} /\ d.id \in Ids /\ d.payload \in Messages
BY DEF Datagrams

\* Nothing is on its way at first.
LEMMA ZephyrInit == Init => ZephyrInv
<1> SUFFICES ASSUME Init PROVE ZephyrInv
  OBVIOUS
<1> USE ZephyrAssumption, NothingType
    DEF Init, InitiatorBoot, ResponderBoot, EdhocBoot
<1>1. TypeOK
  BY DEF TypeOK
<1>2. ShapeInv
  BY DEF ShapeInv
<1>3. OutgoingInv /\ MailboxInv /\ RepliesAnswerRequests
  BY DEF OutgoingInv, MailboxInv, RepliesAnswerRequests
<1> QED BY <1>1, <1>2, <1>3 DEF ZephyrInv

\* The steps of the initiator leave the responder alone and send only posts.
LEMMA InitiatorStep ==
  ASSUME ZephyrInv,
         \/ InitiatorConnected \/ InitiatorStub \/ InitiatorEdhoc
         \/ InitiatorPost \/ InitiatorPut
         \/ \E early \in BOOLEAN : InitiatorTimeout(early)
         \/ \E d \in net : InitiatorReply(d, FALSE) \/ InitiatorReply(d, TRUE)
  PROVE  ZephyrInv'
<1> USE DEF ZephyrInv, responderVars
<1>1. CASE InitiatorConnected
  <2> USE <1>1 DEF InitiatorConnected
  <2>1. ShapeInv'
    BY DEF ShapeInv
  <2>2. TypeOK'
    BY DEF TypeOK, ShapeInv, OutgoingInv
  <2>3. (OutgoingInv /\ MailboxInv)'
    BY DEF TypeOK, ShapeInv, OutgoingInv, MailboxInv
  <2>4. RepliesAnswerRequests'
    BY DEF ShapeInv, MailboxInv, RepliesAnswerRequests
  <2> QED BY <2>1, <2>2, <2>3, <2>4
<1>2. CASE InitiatorStub
  <2> USE <1>2 DEF InitiatorStub
  <2>1. ShapeInv'
    BY DEF ShapeInv
  <2>2. TypeOK'
    BY DEF TypeOK, ShapeInv, OutgoingInv
  <2>3. (OutgoingInv /\ MailboxInv)'
    BY DEF TypeOK, ShapeInv, OutgoingInv, MailboxInv
  <2>4. RepliesAnswerRequests'
    BY DEF ShapeInv, MailboxInv, RepliesAnswerRequests
  <2> QED BY <2>1, <2>2, <2>3, <2>4
<1>3. CASE InitiatorEdhoc
  <2> USE <1>3 DEF InitiatorEdhoc
  <2>1. /\ imain.run \in Nat
        /\ \A m \in {1, 3} : /\ Message(m, imain.run, <<>>) \in Messages
                            /\ Message(m, imain.run, <<>>).m = m
    BY MessageType, NothingType DEF ShapeInv
  <2>2. ShapeInv'
    BY <2>1, NothingType DEF ShapeInv
  <2>3. TypeOK'
    BY <2>2 DEF TypeOK, ShapeInv
  <2>4. (OutgoingInv /\ MailboxInv /\ RepliesAnswerRequests)'
    BY <2>1 DEF OutgoingInv, MailboxInv, RepliesAnswerRequests
  <2> QED BY <2>2, <2>3, <2>4
<1>4. CASE InitiatorPost
  <2> USE <1>4 DEF InitiatorPost
  <2> DEFINE p == Post(<<imain.run, iedhoc.message.m>>, iedhoc.message)
  <2>1. /\ iedhoc.message \in Messages /\ imain.run \in Nat
        /\ iedhoc.message.m \in {1, 3}
    BY DEF ShapeInv, OutgoingInv
  <2>2. /\ p \in Datagrams /\ p.type = "post" /\ p.payload = iedhoc.message
    BY <2>1, IdType, DatagramType
  <2>3. sent' = sent \cup {p} /\ net' = net \cup {p}
    BY DEF Send
  <2> HIDE DEF p
  <2>4. ShapeInv'
    BY <2>1, <2>2, <2>3 DEF ShapeInv
  <2>5. TypeOK'
    BY <2>1, <2>2, <2>3, <2>4 DEF TypeOK, ShapeInv
  <2>6. (OutgoingInv /\ MailboxInv)'
    BY DEF ShapeInv, OutgoingInv, MailboxInv
  <2>7. RepliesAnswerRequests'
    BY <2>2, <2>3 DEF RepliesAnswerRequests
  <2> QED BY <2>4, <2>5, <2>6, <2>7
<1>5. ASSUME NEW early \in BOOLEAN, InitiatorTimeout(early)
      PROVE  ZephyrInv'
  <2> USE <1>5 DEF InitiatorTimeout
  <2>1. timeouts' \in 0 .. MaxTimeouts /\ (timeouts' = 0 => timeouts = 0)
    BY ZephyrAssumption DEF TypeOK, WaitEnds
  <2>2. ShapeInv'
    BY DEF ShapeInv
  <2>3. TypeOK'
    BY <2>1, <2>2 DEF TypeOK, ShapeInv
  <2>4. (OutgoingInv /\ MailboxInv /\ RepliesAnswerRequests)'
    BY <2>1 DEF OutgoingInv, MailboxInv, RepliesAnswerRequests
  <2> QED BY <2>2, <2>3, <2>4
<1>6. CASE InitiatorPut
  <2> USE <1>6 DEF InitiatorPut
  <2>1. ShapeInv'
    BY DEF ShapeInv
  <2>2. TypeOK'
    BY DEF TypeOK, ShapeInv, OutgoingInv
  <2>3. (OutgoingInv /\ MailboxInv)'
    BY DEF TypeOK, ShapeInv, OutgoingInv, MailboxInv
  <2>4. RepliesAnswerRequests'
    BY DEF ShapeInv, MailboxInv, RepliesAnswerRequests
  <2> QED BY <2>1, <2>2, <2>3, <2>4
<1>7. ASSUME NEW d \in net, InitiatorReply(d, FALSE) \/ InitiatorReply(d, TRUE)
      PROVE  ZephyrInv'
  <2>1. d.payload \in Messages
    BY DatagramFields DEF ShapeInv, TypeOK
  <2>2. /\ imain.pc \in {"reply2", "reply4"}
        /\ \/ imain' = [imain EXCEPT !.pc = "put2", !.buffer = Nothing]
           \/ imain' = [imain EXCEPT !.pc = "put2", !.buffer = d.payload]
           \/ imain' = [imain EXCEPT !.pc = "quit"]
    BY <1>7 DEF InitiatorReply
  <2>3. faults' = faults \/ (faults' = faults + 1 /\ faults < MaxFaults)
    BY <1>7 DEF InitiatorReply
  <2>4. /\ sent' = sent /\ net' \subseteq net /\ timeouts' = timeouts
        /\ iedhoc' = iedhoc /\ rmain' = rmain /\ redhoc' = redhoc
    BY <1>7 DEF InitiatorReply, Send
  <2>5. faults' \in 0 .. MaxFaults
    BY <2>3, ZephyrAssumption DEF TypeOK
  <2>6. ShapeInv'
    BY <2>1, <2>2, <2>4, NothingType DEF ShapeInv
  <2>7. TypeOK'
    BY <2>4, <2>5, <2>6 DEF TypeOK, ShapeInv
  <2>8. (OutgoingInv /\ MailboxInv /\ RepliesAnswerRequests)'
    BY <2>4 DEF OutgoingInv, MailboxInv, RepliesAnswerRequests
  <2> QED BY <2>6, <2>7, <2>8
<1> QED BY <1>1, <1>2, <1>3, <1>4, <1>5, <1>6, <1>7

\* The steps of the responder: a reply is sent only in EdhocPostGet, where
\* MailboxInv names the request that the message answers.
LEMMA ResponderStep ==
  ASSUME ZephyrInv,
         \/ ResponderConnected \/ EdhocPostPut \/ EdhocPostGet
         \/ \E early \in BOOLEAN : EdhocPostTimeout(early)
         \/ ResponderEdhoc \/ \E d \in net : ResponderReceive(d)
  PROVE  ZephyrInv'
<1> USE DEF ZephyrInv, initiatorVars
<1>1. CASE ResponderConnected
  <2> USE <1>1 DEF ResponderConnected
  <2>1. ShapeInv'
    BY DEF ShapeInv
  <2>2. TypeOK'
    BY DEF TypeOK, ShapeInv, OutgoingInv
  <2>3. (OutgoingInv /\ MailboxInv)'
    BY DEF TypeOK, ShapeInv, OutgoingInv, MailboxInv
  <2>4. RepliesAnswerRequests'
    BY DEF ShapeInv, MailboxInv, RepliesAnswerRequests
  <2> QED BY <2>1, <2>2, <2>3, <2>4
<1>2. CASE EdhocPostPut
  <2> USE <1>2 DEF EdhocPostPut
  <2> DEFINE x == [rmain.buffer EXCEPT !.answers = rmain.request]
  <2>1. x \in Messages /\ x.answers = rmain.request
    BY AnswersType DEF ShapeInv
  <2>2. /\ redhoc' = [redhoc EXCEPT !.pc = "compute", !.message = x]
        /\ rmain' = [rmain EXCEPT !.pc = "get"]
    OBVIOUS
  <2> HIDE DEF x
  <2>3. ShapeInv'
    BY <2>1, <2>2 DEF ShapeInv
  <2>4. TypeOK'
    BY <2>3 DEF TypeOK, ShapeInv
  <2>5. (OutgoingInv /\ MailboxInv /\ RepliesAnswerRequests)'
    BY <2>1, <2>2 DEF ShapeInv, OutgoingInv, MailboxInv, RepliesAnswerRequests
  <2> QED BY <2>3, <2>4, <2>5
<1>3. CASE EdhocPostGet
  <2> USE <1>3 DEF EdhocPostGet
  <2> DEFINE r == Reply(rmain.request, redhoc.message)
  <2>1. /\ redhoc.message \in Messages /\ rmain.request \in Ids
        /\ redhoc.message.m = 2
        /\ redhoc.message.answers = rmain.request
    BY DEF ShapeInv, OutgoingInv, MailboxInv
  <2>2. /\ r \in Datagrams /\ r.type = "reply" /\ r.id = rmain.request
        /\ r.payload = redhoc.message
    BY <2>1, DatagramType
  <2>3. sent' = sent \cup {r} /\ net' = net \cup {r}
    BY DEF Send
  <2> HIDE DEF r
  <2>4. ShapeInv'
    BY <2>1, <2>2, <2>3 DEF ShapeInv
  <2>5. TypeOK'
    BY <2>1, <2>2, <2>3, <2>4 DEF TypeOK, ShapeInv
  <2>6. (OutgoingInv /\ MailboxInv)'
    BY DEF ShapeInv, OutgoingInv, MailboxInv
  <2>7. RepliesAnswerRequests'
    BY <2>1, <2>2, <2>3 DEF RepliesAnswerRequests
  <2> QED BY <2>4, <2>5, <2>6, <2>7
<1>4. ASSUME NEW early \in BOOLEAN, EdhocPostTimeout(early)
      PROVE  ZephyrInv'
  <2> USE <1>4 DEF EdhocPostTimeout
  <2>1. /\ timeouts' \in 0 .. MaxTimeouts
        /\ timeouts' = 0 => redhoc.pc = "get"
    <3>1. /\ timeouts' \in 0 .. MaxTimeouts
          /\ timeouts' = 0 => ~early
      BY <1>4, ZephyrAssumption DEF TypeOK, WaitEnds, EdhocPostTimeout
    <3>2. ~early => redhoc.pc = "get"
      BY Zenon, <1>4 DEF EdhocPostTimeout
    <3> QED BY <3>1, <3>2
  <2>2. ShapeInv'
    BY DEF ShapeInv
  <2>3. TypeOK'
    BY <2>1, <2>2 DEF TypeOK, ShapeInv
  <2>4. (OutgoingInv /\ MailboxInv /\ RepliesAnswerRequests)'
    BY <2>1 DEF ShapeInv, OutgoingInv, MailboxInv, RepliesAnswerRequests
  <2> QED BY <2>2, <2>3, <2>4
<1>5. CASE ResponderEdhoc
  <2> USE <1>5 DEF ResponderEdhoc
  <2> DEFINE in == redhoc.message
             x == Message(2, in.session, in.answers)
  <2>1. /\ in \in Messages /\ in.m \in Nat /\ in.session \in Nat
        /\ in.answers \in Ids
    BY AnswersType, NothingType DEF ShapeInv
  <2>2. x \in Messages /\ x.m = 2 /\ x.answers = in.answers
    BY <2>1, MessageType
  <2>3. /\ redhoc.pc = "compute" /\ rmain' = rmain /\ sent' = sent
        /\ net' = net /\ timeouts' = timeouts /\ faults' = faults
        /\ imain' = imain /\ iedhoc' = iedhoc
    OBVIOUS
  <2>4. \/ redhoc' = [pc |-> "put", stage |-> 3, session |-> in.session,
                      message |-> x]
        \/ redhoc' = [pc |-> "get", message |-> Nothing, stage |-> 1, session |-> 0]
    BY DEF EdhocBoot
  <2> HIDE DEF x, in, ResponderEdhoc
  <2>5. ShapeInv'
    BY <2>1, <2>2, <2>3, <2>4, NothingType DEF ShapeInv
  <2>6. TypeOK'
    BY <2>3, <2>5 DEF TypeOK, ShapeInv
  <2>7. (OutgoingInv /\ MailboxInv)'
    BY <2>1, <2>2, <2>3, <2>4 DEF in, OutgoingInv, MailboxInv
  <2>8. RepliesAnswerRequests'
    BY <2>3 DEF RepliesAnswerRequests
  <2> QED BY <2>5, <2>6, <2>7, <2>8
<1>6. ASSUME NEW d \in net, ResponderReceive(d)
      PROVE  ZephyrInv'
  <2> USE <1>6 DEF ResponderReceive
  <2>1. d.id \in Ids /\ d.payload \in Messages
    BY DatagramFields DEF ShapeInv, TypeOK
  <2>2. sent' = sent /\ net' \subseteq net
    BY DEF Send
  <2>3. ShapeInv'
    BY <2>1, <2>2 DEF ShapeInv
  <2>4. TypeOK'
    BY <2>2, <2>3 DEF TypeOK, ShapeInv
  <2>5. (OutgoingInv /\ MailboxInv /\ RepliesAnswerRequests)'
    BY <2>2 DEF ShapeInv, OutgoingInv, MailboxInv, RepliesAnswerRequests
  <2> QED BY <2>3, <2>4, <2>5
<1> QED BY <1>1, <1>2, <1>3, <1>4, <1>5, <1>6

\* Faults send nothing that was not sent before; a reset device starts anew.
LEMMA FaultStep ==
  ASSUME ZephyrInv,
         \/ \E d \in net : Lose(d)
         \/ \E d \in sent : Repeat(d)
         \/ InitiatorReset \/ ResponderReset
  PROVE  ZephyrInv'
<1> USE ZephyrAssumption, NothingType
    DEF ZephyrInv, TypeOK, ShapeInv, OutgoingInv, MailboxInv, RepliesAnswerRequests,
        initiatorVars, responderVars, Fault, Send
<1>1. ASSUME NEW d \in net, Lose(d) PROVE ZephyrInv'
  BY <1>1 DEF Lose
<1>2. ASSUME NEW d \in sent, Repeat(d) PROVE ZephyrInv'
  BY <1>2 DEF Repeat
<1>3. CASE InitiatorReset
  BY <1>3 DEF InitiatorReset, InitiatorBoot
<1>4. CASE ResponderReset
  BY <1>4 DEF ResponderReset, ResponderBoot, EdhocBoot
<1> QED BY <1>1, <1>2, <1>3, <1>4

\* The inductive invariant of both devices: main and the EDHOC thread of the
\* responder agree on the request that is being answered.
THEOREM MailboxInvariant == Spec => []ZephyrInv
<1>1. ASSUME ZephyrInv, [Next]_zephyrVars
      PROVE  ZephyrInv'
  <2>1. CASE Next
    BY <1>1, <2>1, InitiatorStep, ResponderStep, FaultStep
       DEF Next, InitiatorMain, ResponderMain, EarlyTimeout
  <2>2. CASE UNCHANGED zephyrVars
    BY <1>1, <2>2
       DEF zephyrVars, ZephyrInv, TypeOK, ShapeInv, OutgoingInv, MailboxInv,
           RepliesAnswerRequests
  <2> QED BY <1>1, <2>1, <2>2
<1> QED BY <1>1, ZephyrInit, PTL DEF Spec

\* The threads are at one of their waits, and datagrams carry the messages of
\* their direction.
THEOREM ZephyrTypeCorrect == Spec => []TypeOK
<1>1. ZephyrInv => TypeOK
  BY DEF ZephyrInv
<1> QED BY <1>1, MailboxInvariant, PTL

\* Every reply of edhoc_post carries the answer to its own request, whatever was
\* lost, repeated or late.
THEOREM RepliesAnswerRequestsTheorem == Spec => []RepliesAnswerRequests
<1>1. ZephyrInv => RepliesAnswerRequests
  BY DEF ZephyrInv
<1> QED BY <1>1, MailboxInvariant, PTL

\* The two threads of the responder can block each other only after a k_mbox_get
\* of main has timed out before the answer was there.
THEOREM MutualWaitTheorem == Spec => []MutualWaitNeedsTimeout
<1>1. ZephyrInv => MutualWaitNeedsTimeout
  BY ZephyrAssumption DEF ZephyrInv, TypeOK, MailboxInv, MutualWaitNeedsTimeout
<1> QED BY <1>1, MailboxInvariant, PTL
=============================================================================
