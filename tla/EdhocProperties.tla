-------------------------- MODULE EdhocProperties ---------------------------
(***************************************************************************)
(* What the runs of module Edhoc promise.                                  *)
(***************************************************************************)
EXTENDS Edhoc

\* The shape of the state: stages, bounds, and whose messages are in net.
TypeOK ==
  /\ \A i \in Devices :
       /\ init[i].stage \in {"idle", "message_2", "message_4", "ok", "failed"}
       /\ init[i].run \in 0 .. MaxRunsI
  /\ resp.stage \in {"idle", "message_1", "message_3", "ok", "failed"}
  /\ resp.run \in 0 .. MaxRunsR
  /\ \A m \in net : /\ m.n \in 1 .. 4
                    /\ m.from = R <=> m.to \in Devices
                    /\ m.from = R <=> m.n \in {2, 4}
  /\ spent.runs \in 0 .. MaxRunsI
  /\ spent.crashes \in 0 .. MaxCrashes
  /\ spent.damaged \in 0 .. MaxDamaged
  /\ confirmed \subseteq {d.run : d \in derived}

\* An initiator that has verified message 2 and derived its key (msg3_gen) is
\* in one session with the responder it names: the responder answered this very
\* message 1, with the list of suites, the method, the EAD_1 and the connection
\* identifier that were sent, and has the same suite and PRK_3e2m.
InitiatorAgreement ==
  \A d \in derived :
    /\ d.responder = Id(R)
    /\ \E a \in answered :
         /\ a.msg1 = d.msg1 /\ a.th2 = d.th2
         /\ a.suite = d.suite /\ a.prk_3e2m = d.prk_3e2m

\* The runs implement an authenticated key exchange: derived keys are never
\* repeated, the responder returns ok at most once for a key and only for the
\* key, the device, the method and the suite of a run of an initiator, and
\* message 4 proves that it did.
KA == INSTANCE KeyAgreement WITH
        derived <- derived, accepted <- accepted, confirmed <- confirmed

KeyAgreementSpec == KA!Spec

\* A run of the responder that failed leaves no key in the caller's buffers
\* that an initiator derived and the responder has not accepted: msg3_process
\* writes PRK_4x3m before it verifies anything, but th4 only afterwards.
FailedRunLeavesNoKey ==
  resp.stage = "failed" =>
    \A d \in derived :
      d.key = SessionKey(resp.prk_4x3m, resp.th4)
        => \E a \in accepted : a.key = d.key

-----------------------------------------------------------------------------
(* Progress                                                                *)

\* Both processes are scheduled, and the responder's loop calls
\* edhoc_responder_run again.
FairSpec ==
  /\ Spec
  /\ WF_vars(ResponderStep)
  /\ \A i \in Devices : WF_vars(InitiatorReceives(i))

\* A run of an initiator on a network that delivers every message ends with a
\* key that the responder has accepted.
RunsComplete ==
  \A i \in Devices :
    init[i].stage = "message_2"
      ~> /\ init[i].stage = "ok"
         /\ \E d \in derived, a \in accepted :
              d.run = <<i, init[i].run>> /\ d.key = a.key

-----------------------------------------------------------------------------
(* What edhoc.h says of ead_2                                              *)

\* "the received in msg2 additional data is provided to the caller": a run
\* that received the answer to its message 1 does not fail, and has the content
\* of the responder's EAD_2.
Ead2Provided ==
  \A i \in Devices :
    /\ init[i].stage \in {"message_4", "ok", "failed"}
    /\ init[i].received.n = 2
    /\ \E a \in answered :
         a.th2 = th2_calculate(init[i].msg1, init[i].received.body.g_y,
                               init[i].received.body.c_r)
    => init[i].stage # "failed" /\ init[i].ead_2 = decode_byte_string(Ead2)

=============================================================================
