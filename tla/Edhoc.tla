------------------------------- MODULE Edhoc --------------------------------
(***************************************************************************)
(* Runs of edhoc_initiator_run and edhoc_responder_run over a network that *)
(* loses, repeats, reorders and damages messages and mixes the runs of     *)
(* several devices.                                                        *)
(*                                                                         *)
(* A run blocks only in rx, so it is cut there: one action from the start  *)
(* of a run, or from the return of rx, to the next rx or the end of the    *)
(* run.  rx has no timeout and hands over whatever datagram is next; a run *)
(* that waits ends otherwise only with its process.                        *)
(***************************************************************************)
EXTENDS EdhocTerms, SequencesExt, FiniteSets

CONSTANTS
  Devices,       \* devices that run the initiator
  R,             \* the device that runs the responder
  IdOf,          \* the device whose ID_CRED and CRED a device is configured with
  KnownI,        \* the ID_CREDs in the responder's cred_i_array
  KnownR,        \* the ID_CREDs in the initiators' cred_r_array
  SuitesR,       \* suites_r
  Msg4I, Msg4R,  \* c->msg4 of the two sides
  Ead2, Ead4,    \* c->ead_2 and c->ead_4 of the responder
  Configs,       \* method, suites_i, ead_1 and ead_3 of an initiator's run
  FreshKeys,     \* devices whose program gives each run a new ephemeral key
  Duplicating,   \* may a message be delivered more than once
  MaxRunsI,      \* bound: runs of all initiators together
  MaxRunsR,      \* bound: runs of the responder
  MaxCrashes,    \* bound: processes ended while a run waits
  MaxDamaged     \* bound: messages damaged on the way

ASSUME DevicesAssumption == R \notin Devices /\ IdOf \in [Devices \cup {R} -> Devices \cup {R}]
ASSUME ConfigsAssumption ==
  \A c \in Configs : c.method \in Methods /\ Len(c.suites_i) > 0
ASSUME BoundsAssumption ==
  /\ Msg4I \in BOOLEAN /\ Msg4R \in BOOLEAN /\ Duplicating \in BOOLEAN
  /\ FreshKeys \subseteq Devices \cup {R}
  /\ MaxRunsI \in Nat /\ MaxRunsR \in Nat
  /\ MaxCrashes \in Nat /\ MaxDamaged \in Nat

VARIABLES
  init,       \* per device: stage and runtime context of its run
  resp,       \* the same of the responder
  net,        \* messages that are or may still be under way
  spent,      \* numbers of initiators' runs, of crashes and of damaged
              \* messages
  answered,   \* what the responder has put into its messages 2
  derived,    \* runs of initiators that sent message 3, with the device that
              \* ran and its key
  accepted,   \* runs of the responder that returned ok, with their key
  confirmed   \* runs of initiators that received message 4

vars == <<init, resp, net, spent, answered, derived, accepted, confirmed>>

\* Mutant: the key pair of the test vectors, the same in every run.
Ephemeral_TestVector(device, run) == <<"ephemeral", device>>

\* The ephemeral key pair of a run, which the program puts into the context:
\* the one of the test vectors (run 0), as all samples do, or a new one.  Built
\* with USE_RANDOM_EPHEMERAL_DH_KEY, the initiator of linux_edhoc generates one
\* for its run; the responder generates one too, but its context has been set
\* to the test vector again.
Ephemeral(device, run) ==
  <<"ephemeral", device, IF device \in FreshKeys THEN run ELSE 0>>

StaticKey(device) == <<"static_dh", device>>
SignKey(device) == <<"signature", device>>
Id(device) == <<"id_cred", device>>
Cred(device) == <<"cred", device>>
C_x(device) == <<"c", device>>
AuthKey(static_dh, device) ==
  IF static_dh THEN StaticKey(device) ELSE SignKey(device)

\* The key that the OSCORE context is made from.
SessionKey(prk_4x3m, th4) ==
  edhoc_exporter(prk_4x3m, th4, "OSCORE_Master_Secret")

Init ==
  /\ init = [i \in Devices |-> [stage |-> "idle", run |-> 0]]
  /\ resp = [stage |-> "idle", run |-> 0, prk_4x3m |-> <<>>, th4 |-> <<>>]
  /\ net = {}
  /\ spent = [runs |-> 0, crashes |-> 0, damaged |-> 0]
  /\ answered = {} /\ derived = {} /\ accepted = {} /\ confirmed = {}

\* rx returns message m; tx sends messages.
Exchange(m, sent) == net' = sent \cup (IF Duplicating THEN net ELSE net \ {m})

\* Mutant: tx answers on the address it is bound to.
Message_ToSelf(from, to, n, body) ==
  [from |-> from, to |-> from, n |-> n, body |-> body]

Message(from, to, n, body) == [from |-> from, to |-> to, n |-> n, body |-> body]

Waits(stage) == stage \in {"message_1", "message_2", "message_3", "message_4"}

-----------------------------------------------------------------------------
(* Initiator                                                               *)

msg1_gen(i, run, c) ==
  [method |-> c.method, suites_i |-> c.suites_i, g_x |-> Ephemeral(i, run),
   c_i |-> C_x(i), ead_1 |-> c.ead_1]

\* A new call of edhoc_initiator_run, up to the first rx.
InitiatorRun(i, c) ==
  LET run == init[i].run + 1
      msg1 == msg1_gen(i, run, c)
  IN  /\ ~Waits(init[i].stage) /\ spent.runs < MaxRunsI
      /\ spent' = [spent EXCEPT !.runs = @ + 1]
      /\ init' = [init EXCEPT ![i] =
                    [stage |-> "message_2", run |-> run, c |-> c,
                     msg1 |-> msg1]]
      /\ net' = net \cup {Message(i, R, 1, msg1)}
      /\ UNCHANGED <<resp, answered, derived, accepted, confirmed>>

\* Mutant: the flag of the other side decides.
InitiatorPrk4x3m_OtherFlag(i, method, suite, PRK_3e2m, g_y) ==
  prk_derive(static_dh_r(method), PRK_3e2m,
             shared_secret_derive(suite, StaticKey(i), g_y))

\* msg3_gen derives PRK_4x3m with the initiator's static DH key, if it has one.
InitiatorPrk4x3m(i, method, suite, PRK_3e2m, g_y) ==
  prk_derive(static_dh_i(method), PRK_3e2m,
             shared_secret_derive(suite, StaticKey(i), g_y))

\* msg3_gen up to the verification of MAC_2: the values it works with.
Message2Values(i, msg2) ==
  LET c == init[i].c
      suite == get_suite(Last(c.suites_i))
      x == Ephemeral(i, init[i].run)
      PRK_2e == prk_derive(TRUE, <<>>,
                           shared_secret_derive(suite, x, msg2.g_y))
      cred_r == msg2.ciphertext_2.id_cred[2]
      PRK_3e2m == prk_derive(static_dh_r(c.method), PRK_2e,
                    shared_secret_derive(suite, x, StaticKey(cred_r)))
  IN  [suite |-> suite, PRK_2e |-> PRK_2e, PRK_3e2m |-> PRK_3e2m,
       prk_4x3m |-> InitiatorPrk4x3m(i, c.method, suite, PRK_3e2m, msg2.g_y),
       cred_r |-> cred_r,
       th2 |-> th2_calculate(init[i].msg1, msg2.g_y, msg2.c_r)]

\* The errors msg3_gen returns for message 2, in the order of the code: the
\* suite, the decryption, the credential, the MAC or signature.
AcceptsMessage2(i, msg2) ==
  LET v == Message2Values(i, msg2)
      p == plaintext_split(msg2.ciphertext_2)
      static == static_dh_r(init[i].c.method)
  IN  /\ Last(init[i].c.suites_i) \in SuiteLabels
      /\ Opens(CIPHERTEXT2, v.PRK_2e, v.th2, msg2.ciphertext_2)
      /\ p.id_cred \in {Id(d) : d \in KnownR}
      /\ Verifies(v.suite, static, AuthKey(static, v.cred_r), "MAC_2",
                  v.PRK_3e2m, v.th2, p, Cred(v.cred_r))

\* msg3_gen from th3 on: message 3, and the key in the caller's buffers.
Message3(i, msg2) ==
  LET v == Message2Values(i, msg2)
      c == init[i].c
      static == static_dh_i(c.method)
      th3 == th3_calculate(v.th2, msg2.ciphertext_2)
      sign_or_mac_3 ==
        signature_or_mac(v.suite, static, AuthKey(static, i), "MAC_3",
                         v.prk_4x3m, th3, Id(IdOf[i]), Cred(IdOf[i]), c.ead_3)
      ciphertext_3 == ciphertext_gen(CIPHERTEXT3, Id(IdOf[i]), sign_or_mac_3,
                                     c.ead_3, v.PRK_3e2m, th3)
  IN  [ciphertext |-> ciphertext_3, prk_4x3m |-> v.prk_4x3m,
       th4 |-> th4_calculate(th3, ciphertext_3)]

InitiatorFails(i, m) ==
  /\ init' = [init EXCEPT ![i] =
                [stage |-> "failed", run |-> @.run, c |-> @.c,
                 msg1 |-> @.msg1, received |-> m]]
  /\ Exchange(m, {})
  /\ UNCHANGED <<resp, spent, answered, derived, accepted, confirmed>>

\* Message 2, or what rx takes for it.
InitiatorMessage2(i, m) ==
  /\ init[i].stage = "message_2" /\ m.to = i
  /\ IF m.n = 2 /\ AcceptsMessage2(i, m.body)
     THEN LET v == Message2Values(i, m.body)
              g == Message3(i, m.body)
          IN  /\ init' = [init EXCEPT ![i] =
                   [stage |-> IF Msg4I THEN "message_4" ELSE "ok",
                    run |-> @.run, c |-> @.c, msg1 |-> @.msg1,
                    received |-> m, prk_4x3m |-> g.prk_4x3m, th4 |-> g.th4,
                    ead_2 |-> plaintext_split(m.body.ciphertext_2).ead]]
              /\ Exchange(m, {Message(i, R, 3, g.ciphertext)})
              /\ derived' = derived \cup
                   {[run |-> <<i, init[i].run>>, initiator |-> Id(i),
                     responder |-> Id(v.cred_r), suite |-> v.suite,
                     method |-> init[i].c.method, msg1 |-> init[i].msg1,
                     prk_3e2m |-> v.PRK_3e2m, th2 |-> v.th2,
                     key |-> SessionKey(g.prk_4x3m, g.th4)]}
              /\ UNCHANGED <<resp, spent, answered, accepted, confirmed>>
     ELSE InitiatorFails(i, m)

\* msg4_process.
InitiatorMessage4(i, m) ==
  /\ init[i].stage = "message_4" /\ m.to = i
  /\ IF /\ m.n \in {3, 4}
        /\ Opens(CIPHERTEXT4, init[i].prk_4x3m, init[i].th4, m.body)
        /\ Ead4Decodes(m.body)
     THEN /\ init' = [init EXCEPT ![i].stage = "ok"]
          /\ Exchange(m, {})
          /\ confirmed' = confirmed \cup {<<i, init[i].run>>}
          /\ UNCHANGED <<resp, spent, answered, derived, accepted>>
     ELSE InitiatorFails(i, m)

-----------------------------------------------------------------------------
(* Responder                                                               *)

\* A new call of edhoc_responder_run: the runtime context is zeroed, the
\* caller's buffers for the key keep what they had.
ResponderRun ==
  /\ ~Waits(resp.stage) /\ resp.run < MaxRunsR
  /\ resp' = [stage |-> "message_1", run |-> resp.run + 1,
              prk_4x3m |-> resp.prk_4x3m, th4 |-> resp.th4]
  /\ UNCHANGED <<init, net, spent, answered, derived, accepted, confirmed>>

\* The suite is the last of the list, which msg1_parse limits to five.
SelectedSuite(msg1) == Last(msg1.suites_i)

AcceptsMessage1(msg1) ==
  /\ Len(msg1.suites_i) <= 5
  /\ SelectedSuite(msg1) \in SuitesR
  /\ SelectedSuite(msg1) \in SuiteLabels

\* msg2_gen: message 2 and what the runtime context keeps for message 3.
Message2(msg1, run) ==
  LET suite == get_suite(SelectedSuite(msg1))
      static == static_dh_r(msg1.method)
      y == Ephemeral(R, run)
      th2 == th2_calculate(msg1, y, C_x(R))
      PRK_2e == prk_derive(TRUE, <<>>,
                           shared_secret_derive(suite, y, msg1.g_x))
      PRK_3e2m == prk_derive(static, PRK_2e,
                    shared_secret_derive(suite, StaticKey(R), msg1.g_x))
      sign_or_mac_2 ==
        signature_or_mac(suite, static, AuthKey(static, R), "MAC_2", PRK_3e2m,
                         th2, Id(IdOf[R]), Cred(IdOf[R]), Ead2)
      ciphertext_2 == ciphertext_gen(CIPHERTEXT2, Id(IdOf[R]), sign_or_mac_2,
                                     Ead2, PRK_2e, th2)
  IN  [msg2 |-> [g_y |-> y, c_r |-> C_x(R), ciphertext_2 |-> ciphertext_2],
       suite |-> suite, PRK_3e2m |-> PRK_3e2m, th2 |-> th2,
       th3 |-> th3_calculate(th2, ciphertext_2)]

ResponderFails(m, r) ==
  /\ resp' = [r EXCEPT !.stage = "failed"]
  /\ Exchange(m, {})
  /\ UNCHANGED <<init, spent, answered, derived, accepted, confirmed>>

\* Message 1.  For an unsupported suite msg2_gen returns error_message_sent
\* and sends nothing.
ResponderMessage1(m) ==
  /\ resp.stage = "message_1" /\ m.to = R
  /\ IF m.n = 1 /\ AcceptsMessage1(m.body)
     THEN LET g == Message2(m.body, resp.run)
          IN  /\ resp' = [stage |-> "message_3", run |-> resp.run,
                          prk_4x3m |-> resp.prk_4x3m, th4 |-> resp.th4,
                          method |-> m.body.method, suite |-> g.suite,
                          PRK_3e2m |-> g.PRK_3e2m, th3 |-> g.th3]
              /\ Exchange(m, {Message(R, m.from, 2, g.msg2)})
              /\ answered' = answered \cup
                   {[run |-> resp.run, suite |-> g.suite, msg1 |-> m.body,
                     prk_3e2m |-> g.PRK_3e2m, th2 |-> g.th2]}
              /\ UNCHANGED <<init, spent, derived, accepted, confirmed>>
     ELSE ResponderFails(m, resp)

\* msg3_process from the decryption to prk_4x3m, which is written to the
\* caller's buffer before anything is verified.
OpensMessage3(m) ==
  /\ m.n \in {3, 4}
  /\ Opens(CIPHERTEXT3, resp.PRK_3e2m, resp.th3, m.body)
  /\ m.body.id_cred \in {Id(d) : d \in KnownI}

WithPrk4x3m(ciphertext_3) ==
  [resp EXCEPT !.prk_4x3m =
     prk_derive(static_dh_i(resp.method), resp.PRK_3e2m,
                shared_secret_derive(resp.suite, Ephemeral(R, resp.run),
                                     StaticKey(ciphertext_3.id_cred[2])))]

\* Mutant: th4 is calculated before the verification.
AfterMessage3_Th4First(ciphertext_3, verified) ==
  [WithPrk4x3m(ciphertext_3) EXCEPT
     !.th4 = th4_calculate(resp.th3, ciphertext_3)]

\* The caller's buffers after msg3_process.
AfterMessage3(ciphertext_3, verified) ==
  [WithPrk4x3m(ciphertext_3) EXCEPT
     !.th4 = IF verified THEN th4_calculate(resp.th3, ciphertext_3) ELSE @]

\* Message 3; then message 4 when it is configured, and the run returns ok.
\* tx answers the sender of the last datagram.
ResponderMessage3(m) ==
  LET cred_i == m.body.id_cred[2]
      static == static_dh_i(resp.method)
      verified == Verifies(resp.suite, static, AuthKey(static, cred_i),
                           "MAC_3", WithPrk4x3m(m.body).prk_4x3m, resp.th3,
                           plaintext_split(m.body), Cred(cred_i))
      after == AfterMessage3(m.body, verified)
  IN  /\ resp.stage = "message_3" /\ m.to = R
      /\ IF OpensMessage3(m) /\ verified
         THEN /\ resp' = [after EXCEPT !.stage = "ok"]
              /\ accepted' = accepted \cup
                   {[run |-> resp.run, initiator |-> m.body.id_cred,
                     method |-> resp.method, suite |-> resp.suite,
                     key |-> SessionKey(after.prk_4x3m, after.th4)]}
              /\ Exchange(m, IF Msg4R
                   THEN {Message(R, m.from, 4,
                           ciphertext_gen(CIPHERTEXT4, <<>>, <<>>, Ead4,
                                          after.prk_4x3m, after.th4))}
                   ELSE {})
              /\ UNCHANGED <<init, spent, answered, derived, confirmed>>
         ELSE ResponderFails(m, IF OpensMessage3(m) THEN after ELSE resp)

-----------------------------------------------------------------------------
(* Processes that end, and the network                                     *)

InitiatorCrash(i) ==
  /\ Waits(init[i].stage) /\ spent.crashes < MaxCrashes
  /\ init' = [init EXCEPT ![i] = [stage |-> "idle", run |-> @.run]]
  /\ spent' = [spent EXCEPT !.crashes = @ + 1]
  /\ UNCHANGED <<resp, net, answered, derived, accepted, confirmed>>

ResponderCrash ==
  /\ Waits(resp.stage) /\ spent.crashes < MaxCrashes
  /\ resp' = [stage |-> "idle", run |-> resp.run, prk_4x3m |-> <<>>,
              th4 |-> <<>>]
  /\ spent' = [spent EXCEPT !.crashes = @ + 1]
  /\ UNCHANGED <<init, net, answered, derived, accepted, confirmed>>

\* What a message may arrive as when it is damaged and still decodes.
\* CIPHERTEXT_2 carries no tag: a damaged bit is one in the plaintext.
DamagedBodies(m) ==
  CASE m.n = 1 ->
         {[m.body EXCEPT !.method = k] : k \in {c.method : c \in Configs}}
         \cup {[m.body EXCEPT !.suites_i = s] :
                 s \in {c.suites_i : c \in Configs}}
         \cup {[m.body EXCEPT !.g_x = Noise], [m.body EXCEPT !.c_i = Noise],
               [m.body EXCEPT !.ead_1 = Noise]}
    [] m.n = 2 ->
         {[m.body EXCEPT !.g_y = Noise], [m.body EXCEPT !.c_r = Noise],
          [m.body EXCEPT !.ciphertext_2.signature_or_mac = Noise],
          [m.body EXCEPT !.ciphertext_2.ead = Noise]}
         \cup {[m.body EXCEPT !.ciphertext_2.id_cred = Id(d)] : d \in KnownR}
    [] OTHER -> {[m.body EXCEPT !.key = Noise]}

NetworkDamage(m) ==
  /\ spent.damaged < MaxDamaged
  /\ \E body \in DamagedBodies(m) : net' = net \cup {[m EXCEPT !.body = body]}
  /\ spent' = [spent EXCEPT !.damaged = @ + 1]
  /\ UNCHANGED <<init, resp, answered, derived, accepted, confirmed>>

-----------------------------------------------------------------------------
InitiatorReceives(i) ==
  \E m \in net : InitiatorMessage2(i, m) \/ InitiatorMessage4(i, m)

ResponderStep ==
  \/ ResponderRun
  \/ \E m \in net : ResponderMessage1(m) \/ ResponderMessage3(m)

Crash == ResponderCrash \/ \E i \in Devices : InitiatorCrash(i)

Next ==
  \/ \E i \in Devices, c \in Configs : InitiatorRun(i, c)
  \/ \E i \in Devices : InitiatorReceives(i)
  \/ ResponderStep
  \/ Crash
  \/ \E m \in net : NetworkDamage(m)

Spec == Init /\ [][Next]_vars
=============================================================================
