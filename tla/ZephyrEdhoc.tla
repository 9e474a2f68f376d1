----------------------------- MODULE ZephyrEdhoc -----------------------------
(***************************************************************************)
(* The sample zephyr_edhoc: an initiator and a responder, each with a main *)
(* thread for CoAP and a thread for EDHOC.  The two threads of a device    *)
(* exchange messages through two mailboxes: main puts what arrives into    *)
(* rx_queue, without a limit of time, and takes what to send from          *)
(* tx_queue, waiting at most MBOX_WAIT_TIME.  A mailbox holds nothing: put *)
(* and get end together, in one step of both threads.                      *)
(*                                                                         *)
(* The callbacks of the EDHOC threads that use the mailboxes are not in    *)
(* the repository (the initiator's are stubs); "mailbox" callbacks wait    *)
(* without a limit, as main does when it puts.  One EDHOC run is reduced   *)
(* to its order of messages, see module Edhoc for the rest.                *)
(***************************************************************************)
EXTENDS Naturals, FiniteSets

CONSTANTS
  Callbacks,    \* the callbacks of the initiator: "mailbox", "stub"
  MaxRuns,      \* bound: runs of the initiator's device
  MaxTimeouts,  \* bound: waits that ended before the answer was there
  MaxFaults     \* bound: datagrams lost or repeated, buffers overwritten,
                \* devices reset

ASSUME ZephyrAssumption ==
  /\ Callbacks \subseteq {"mailbox", "stub"} /\ Callbacks # {}
  /\ MaxRuns \in Nat /\ MaxTimeouts \in Nat /\ MaxFaults \in Nat

VARIABLES
  callbacks,  \* those of the initiator
  imain,      \* initiator, main: pc, run and buffer
  iedhoc,     \* initiator, EDHOC thread: pc and message
  rmain,      \* responder, main: pc, request and buffer
  redhoc,     \* responder, EDHOC thread: pc, message, stage and session
  net,        \* datagrams under way
  sent,       \* datagrams ever sent
  finished,   \* sessions whose message 3 the responder has accepted
  timeouts, faults

zephyrVars == <<callbacks, imain, iedhoc, rmain, redhoc, net, sent, finished,
                timeouts, faults>>
initiatorVars == <<callbacks, imain, iedhoc>>
responderVars == <<rmain, redhoc, finished>>

Nothing == [m |-> 0, session |-> 0, answers |-> <<>>]
Message(m, session, answers) == [m |-> m, session |-> session, answers |-> answers]

\* The two kinds of datagrams.  A wait that ended without a message leaves the
\* size at MBOX_MSG_SIZE, which is more than MAX_COAP_MSG_LEN: there is none.
Post(id, payload) == [type |-> "post", id |-> id, payload |-> payload]
Reply(id, payload) == [type |-> "reply", id |-> id, payload |-> payload]

Send(taken, new) == /\ net' = (net \ taken) \cup new
                    /\ sent' = sent \cup new

\* A wait of main ends after MBOX_WAIT_TIME: too early when its EDHOC thread has
\* yet to put a message.
WaitEnds(early) ==
  /\ early => timeouts < MaxTimeouts
  /\ timeouts' = IF early THEN timeouts + 1 ELSE timeouts

\* K_THREAD_DEFINE starts the EDHOC thread of each device, main is the other.
\* Before anything else both mains wait for a datagram of the router.
InitiatorBoot(run) == [pc |-> "router", run |-> run, buffer |-> Nothing]
ResponderBoot == [pc |-> "router", request |-> <<>>, buffer |-> Nothing]

EdhocBoot == [pc |-> "get", message |-> Nothing, stage |-> 1, session |-> 0]

Init ==
  /\ callbacks \in Callbacks
  /\ imain = InitiatorBoot(1)
  /\ iedhoc = [pc |-> "start", message |-> Nothing]
  /\ rmain = ResponderBoot
  /\ redhoc = EdhocBoot
  /\ net = {} /\ sent = {} /\ finished = {} /\ timeouts = 0 /\ faults = 0

-----------------------------------------------------------------------------
(* Initiator                                                               *)

\* socket_init twice, then check_router_connection.
InitiatorConnected ==
  /\ imain.pc = "router"
  /\ imain' = [imain EXCEPT !.pc = "get1"]
  /\ UNCHANGED <<callbacks, iedhoc, responderVars, net, sent, timeouts, faults>>

\* tx and rx as they are: both return ok and do nothing, so that
\* edhoc_initiator_run fails on the message 2 it did not receive.
InitiatorStub ==
  /\ callbacks = "stub" /\ iedhoc.pc = "start"
  /\ iedhoc' = [iedhoc EXCEPT !.pc = "ended"]
  /\ UNCHANGED <<callbacks, imain, responderVars, net, sent, timeouts, faults>>

\* edhoc_initiator_run between its callbacks: message 1; message 3 when the
\* right message 2 was received; c_i.msg4 is set, so then rx once more.
InitiatorEdhoc ==
  /\ callbacks = "mailbox" /\ iedhoc.pc \in {"start", "compute"}
  /\ iedhoc' =
       IF iedhoc.pc = "start"
       THEN [pc |-> "put", message |-> Message(1, imain.run, <<>>)]
       ELSE IF iedhoc.message.m = 2 /\ iedhoc.message.session = imain.run
       THEN [pc |-> "put", message |-> Message(3, imain.run, <<>>)]
       ELSE [pc |-> "ended", message |-> Nothing]
  /\ UNCHANGED <<callbacks, imain, responderVars, net, sent, timeouts, faults>>

\* txrx_edhoc gets a message and posts it with a new token and message ID.
InitiatorPost ==
  /\ imain.pc \in {"get1", "get3"} /\ iedhoc.pc = "put"
  /\ iedhoc' = [iedhoc EXCEPT !.pc = "get"]
  /\ imain' = [imain EXCEPT !.pc = IF @ = "get1" THEN "reply2" ELSE "reply4",
                            !.buffer = iedhoc.message]
  /\ Send({}, {Post(<<imain.run, iedhoc.message.m>>, iedhoc.message)})
  /\ UNCHANGED <<callbacks, responderVars, timeouts, faults>>

\* The wait ends without a message: send_simple_coap_request fails, main quits.
InitiatorTimeout(early) ==
  /\ imain.pc \in {"get1", "get3"} /\ early = (iedhoc.pc # "ended")
  /\ WaitEnds(early)
  /\ imain' = [imain EXCEPT !.pc = "quit"]
  /\ UNCHANGED <<callbacks, iedhoc, responderVars, net, sent, faults>>

\* process_simple_coap_reply hands over a pointer into the block it has freed:
\* what it points to may be overwritten before main copies it.  A reply is not
\* compared with the request.  The one to message 3 goes nowhere.
InitiatorReply(d, overwritten) ==
  /\ imain.pc \in {"reply2", "reply4"} /\ d.type = "reply"
  /\ overwritten => faults < MaxFaults
  /\ imain' = IF imain.pc = "reply2"
              THEN [imain EXCEPT !.pc = "put2",
                      !.buffer = IF overwritten THEN Nothing ELSE d.payload]
              ELSE [imain EXCEPT !.pc = "quit"]
  /\ faults' = IF overwritten THEN faults + 1 ELSE faults
  /\ Send({d}, {})
  /\ UNCHANGED <<callbacks, iedhoc, responderVars, timeouts>>

InitiatorPut ==
  /\ imain.pc = "put2" /\ iedhoc.pc = "get"
  /\ iedhoc' = [pc |-> "compute", message |-> imain.buffer]
  /\ imain' = [imain EXCEPT !.pc = "get3"]
  /\ UNCHANGED <<callbacks, responderVars, net, sent, timeouts, faults>>

-----------------------------------------------------------------------------
(* Responder                                                               *)

\* start_coap_server and check_router_connection.
ResponderConnected ==
  /\ rmain.pc = "router"
  /\ rmain' = [rmain EXCEPT !.pc = "recv"]
  /\ UNCHANGED <<redhoc, finished, initiatorVars, net, sent, timeouts, faults>>

\* process_client_request and process_coap_request: pendings and observers
\* are never filled, so that every datagram goes to the handler of its path,
\* edhoc_post, which copies the payload.
ResponderReceive(d) ==
  /\ rmain.pc = "recv" /\ d.type = "post"
  /\ rmain' = [pc |-> "put", request |-> d.id, buffer |-> d.payload]
  /\ Send({d}, {})
  /\ UNCHANGED <<redhoc, finished, initiatorVars, timeouts, faults>>

\* Mutant: main does not wait for the answer to message 1.
EdhocPostPut_NoWaitAfter1 ==
  /\ rmain.pc = "put" /\ redhoc.pc = "get"
  /\ redhoc' = [redhoc EXCEPT !.pc = "compute",
                  !.message = [rmain.buffer EXCEPT !.answers = rmain.request]]
  /\ rmain' = [rmain EXCEPT !.pc = IF rmain.buffer.m = 1 THEN "recv" ELSE "get"]
  /\ UNCHANGED <<finished, initiatorVars, net, sent, timeouts, faults>>

\* Mutant: the put does not wait for the EDHOC thread.
EdhocPostPut_NoWait ==
  /\ rmain.pc = "put"
  /\ redhoc' = IF redhoc.pc = "get"
               THEN [redhoc EXCEPT !.pc = "compute",
                       !.message = [rmain.buffer EXCEPT !.answers = rmain.request]]
               ELSE redhoc
  /\ rmain' = [rmain EXCEPT !.pc = "get"]
  /\ UNCHANGED <<finished, initiatorVars, net, sent, timeouts, faults>>

\* edhoc_post, k_mbox_put to rx_queue: for ever, until the EDHOC thread gets.
EdhocPostPut ==
  /\ rmain.pc = "put" /\ redhoc.pc = "get"
  /\ redhoc' = [redhoc EXCEPT !.pc = "compute",
                  !.message = [rmain.buffer EXCEPT !.answers = rmain.request]]
  /\ rmain' = [rmain EXCEPT !.pc = "get"]
  /\ UNCHANGED <<finished, initiatorVars, net, sent, timeouts, faults>>

\* Mutant: message 2 is taken for "EDHOC successful".
EdhocPostGet_InvertedMemcmp ==
  /\ rmain.pc = "get" /\ redhoc.pc = "put"
  /\ redhoc' = [redhoc EXCEPT !.pc = "get"]
  /\ rmain' = [rmain EXCEPT !.pc = "recv", !.buffer = redhoc.message]
  /\ Send({}, {Reply(rmain.request, IF redhoc.message.m = 2 THEN Nothing
                                    ELSE redhoc.message)})
  /\ UNCHANGED <<finished, initiatorVars, timeouts, faults>>

\* edhoc_post, k_mbox_get from tx_queue, and the reply with the message.  (The
\* message "EDHOC successful", which would get a reply without payload, is put
\* by nothing in the repository.)
EdhocPostGet ==
  /\ rmain.pc = "get" /\ redhoc.pc = "put"
  /\ redhoc' = [redhoc EXCEPT !.pc = "get"]
  /\ rmain' = [rmain EXCEPT !.pc = "recv", !.buffer = redhoc.message]
  /\ Send({}, {Reply(rmain.request, redhoc.message)})
  /\ UNCHANGED <<finished, initiatorVars, timeouts, faults>>

\* Mutant: what the buffer holds is sent, with its own size.
EdhocPostTimeout_Sends(early) ==
  /\ rmain.pc = "get" /\ early = (redhoc.pc # "get")
  /\ WaitEnds(early)
  /\ rmain' = [rmain EXCEPT !.pc = "recv"]
  /\ Send({}, {Reply(rmain.request, rmain.buffer)})
  /\ UNCHANGED <<redhoc, finished, initiatorVars, faults>>

\* edhoc_post when k_mbox_get ends without a message, which it does not look
\* at: the buffer holds the payload of the request and does not fit, so that no
\* reply is sent.
EdhocPostTimeout(early) ==
  /\ rmain.pc = "get" /\ early = (redhoc.pc # "get")
  /\ WaitEnds(early)
  /\ rmain' = [rmain EXCEPT !.pc = "recv"]
  /\ UNCHANGED <<redhoc, finished, initiatorVars, net, sent, faults>>

\* edhoc_responder_run between its callbacks, in an endless loop: the right
\* message 1 is answered, any other message ends the run without an answer, also
\* the right message 3, because the initializer of c_r leaves out msg4.
ResponderEdhoc ==
  LET in == redhoc.message
      right == in.m = redhoc.stage /\ (in.m = 3 => in.session = redhoc.session)
  IN  /\ redhoc.pc = "compute"
      /\ redhoc' =
           IF right /\ in.m = 1
           THEN [pc |-> "put", stage |-> 3, session |-> in.session,
                 message |-> Message(2, in.session, in.answers)]
           ELSE EdhocBoot
      /\ finished' = IF right /\ in.m = 3 THEN finished \cup {in.session}
                     ELSE finished
      /\ UNCHANGED <<rmain, initiatorVars, net, sent, timeouts, faults>>

-----------------------------------------------------------------------------
(* Faults                                                                  *)

Fault == faults < MaxFaults /\ faults' = faults + 1

Lose(d) ==
  /\ Fault /\ Send({d}, {})
  /\ UNCHANGED <<initiatorVars, responderVars, timeouts>>

Repeat(d) ==
  /\ Fault /\ d \notin net /\ Send({}, {d})
  /\ UNCHANGED <<initiatorVars, responderVars, timeouts>>

InitiatorReset ==
  /\ Fault /\ imain.run < MaxRuns
  /\ imain' = InitiatorBoot(imain.run + 1)
  /\ iedhoc' = [pc |-> "start", message |-> Nothing]
  /\ UNCHANGED <<callbacks, responderVars, net, sent, timeouts>>

ResponderReset ==
  /\ Fault
  /\ rmain' = ResponderBoot /\ redhoc' = EdhocBoot
  /\ UNCHANGED <<finished, initiatorVars, net, sent, timeouts>>

-----------------------------------------------------------------------------
InitiatorMain ==
  \/ InitiatorConnected \/ InitiatorPost \/ InitiatorPut \/ InitiatorTimeout(FALSE)
  \/ \E d \in net : InitiatorReply(d, FALSE)

ResponderMain ==
  \/ ResponderConnected \/ EdhocPostPut \/ EdhocPostGet \/ EdhocPostTimeout(FALSE)
  \/ \E d \in net : ResponderReceive(d)

EarlyTimeout == InitiatorTimeout(TRUE) \/ EdhocPostTimeout(TRUE)

Next ==
  \/ InitiatorMain \/ InitiatorEdhoc \/ InitiatorStub
  \/ ResponderMain \/ ResponderEdhoc \/ EarlyTimeout
  \/ \E d \in net : Lose(d) \/ InitiatorReply(d, TRUE)
  \/ \E d \in sent : Repeat(d)
  \/ InitiatorReset \/ ResponderReset

Spec == Init /\ [][Next]_zephyrVars

\* The threads are scheduled, datagrams arrive, and a wait that nothing else can
\* end is over after MBOX_WAIT_TIME.
FairSpec ==
  /\ Spec
  /\ WF_zephyrVars(InitiatorMain) /\ WF_zephyrVars(InitiatorEdhoc)
  /\ WF_zephyrVars(ResponderMain) /\ WF_zephyrVars(ResponderEdhoc)

-----------------------------------------------------------------------------
\* Shape of the state.
TypeOK ==
  /\ imain.pc \in {"router", "get1", "reply2", "put2", "get3", "reply4", "quit"}
  /\ iedhoc.pc \in {"start", "put", "get", "compute", "ended"}
  /\ rmain.pc \in {"router", "recv", "put", "get"}
  /\ redhoc.pc \in {"get", "compute", "put"} /\ redhoc.stage \in {1, 3}
  /\ \A d \in sent : d.type = "post" <=> d.payload.m \in {1, 3}
  /\ net \subseteq sent
  /\ timeouts \in 0 .. MaxTimeouts /\ faults \in 0 .. MaxFaults

\* Every reply of the responder carries what its EDHOC thread answered to the
\* request it replies to, also when a request was repeated and when a wait for
\* an earlier answer ended too early: the late answer is not given to the next
\* request, because main's next put waits for the EDHOC thread's get.
RepliesAnswerRequests ==
  \A d \in sent : d.type = "reply" => d.payload.answers = d.id

\* The two threads of the responder wait for each other, main to put and the
\* EDHOC thread to put, only after a wait of main has ended too early.
MutualWaitNeedsTimeout ==
  rmain.pc = "put" /\ redhoc.pc = "put" => timeouts > 0

\* A session whose message 1 is on its way is finished by the responder, which
\* then, when main has waited for a message 4 that the EDHOC thread does not
\* put, receives again, if no wait ends too early and no fault happens.
SessionsFinish ==
  imain.pc = "reply2" ~>
    \/ timeouts > 0 \/ faults > 0
    \/ imain.run \in finished /\ rmain.pc = "recv"
=============================================================================
