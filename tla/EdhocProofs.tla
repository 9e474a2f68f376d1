----------------------------- MODULE EdhocProofs -----------------------------
(***************************************************************************)
(* Proofs about the runs of module Edhoc.                                  *)
(***************************************************************************)
EXTENDS EdhocProperties, SequenceTheorems, TLAPS

-----------------------------------------------------------------------------
(* The constructors of terms are injective, and no term is Noise.          *)

\* okm_calc gives different outputs for different keys, hashes and labels.
LEMMA OkmInjective ==
  ASSUME NEW p, NEW t, NEW l, NEW q, NEW u, NEW k,
         okm_calc(p, t, l) = okm_calc(q, u, k)
  PROVE  p = q /\ t = u /\ l = k
BY DEF okm_calc

\* What okm_calc gives is never what damage puts in its place.
LEMMA OkmNotNoise ==
  ASSUME NEW p, NEW t, NEW l
  PROVE  okm_calc(p, t, l) # Noise
BY DEF okm_calc, Noise

\* TH_2 tells message 1, G_Y and C_R.
LEMMA Th2Injective ==
  ASSUME NEW a, NEW b, NEW c, NEW d, NEW e, NEW f,
         th2_calculate(a, b, c) = th2_calculate(d, e, f)
  PROVE  a = d /\ b = e /\ c = f
BY DEF th2_calculate

\* TH_3 tells TH_2 and CIPHERTEXT_2.
LEMMA Th3Injective ==
  ASSUME NEW a, NEW b, NEW c, NEW d, th3_calculate(a, b) = th3_calculate(c, d)
  PROVE  a = c /\ b = d
BY DEF th3_calculate

\* TH_4 tells TH_3 and CIPHERTEXT_3.
LEMMA Th4Injective ==
  ASSUME NEW a, NEW b, NEW c, NEW d, th4_calculate(a, b) = th4_calculate(c, d)
  PROVE  a = c /\ b = d
BY DEF th4_calculate

\* Every program generates the ephemeral keys of its runs.
AllKeysFresh == Devices \cup {R} \subseteq FreshKeys

\* ID_CRED and the keys of a device tell the device.
LEMMA NamesInjective ==
  ASSUME NEW d, NEW e, NEW m, NEW n
  PROVE  /\ Id(d) = Id(e) => d = e
         /\ Id(d)[2] = d
         /\ Ephemeral(d, m) = Ephemeral(e, n) => d = e
         /\ StaticKey(d) = StaticKey(e) => d = e
         /\ SignKey(d) = SignKey(e) => d = e
         /\ StaticKey(d) # Ephemeral(e, n)
BY DEF Id, Ephemeral, StaticKey, SignKey

\* An ephemeral key that is generated for the run tells the run.
LEMMA FreshKeysTellRuns ==
  ASSUME AllKeysFresh, NEW d \in Devices \cup {R}, NEW e, NEW m, NEW n,
         Ephemeral(d, m) = Ephemeral(e, n)
  PROVE  m = n
BY DEF Ephemeral, AllKeysFresh

\* A DH secret names its two key pairs: a party that has one of them in common
\* with the other has the other in common, too, when it is of another kind.
LEMMA SecretInjective ==
  ASSUME NEW s, NEW a, NEW b, NEW c, NEW d,
         shared_secret_derive(s, a, b) = shared_secret_derive(s, c, d)
  PROVE  {a, b} = {c, d}
BY DEF shared_secret_derive

\* What a verified MAC or signature vouches for.
LEMMA MacInjective ==
  ASSUME NEW suite, NEW static, static \in BOOLEAN, NEW label,
         NEW k1, NEW p1, NEW t1, NEW i1, NEW c1, NEW e1,
         NEW k2, NEW p2, NEW t2, NEW i2, NEW c2, NEW e2,
         signature_or_mac(suite, static, k1, label, p1, t1, i1, c1, e1)
           = signature_or_mac(suite, static, k2, label, p2, t2, i2, c2, e2)
  PROVE  /\ p1 = p2 /\ t1 = t2 /\ i1 = i2 /\ c1 = c2
         /\ ~static => k1 = k2
<1>1. CASE static
  BY <1>1 DEF signature_or_mac, mac
<1>2. CASE ~static
  BY <1>2 DEF signature_or_mac, mac
<1> QED BY <1>1, <1>2

\* What signature_or_mac gives is never what damage puts in its place.
LEMMA MacNotNoise ==
  ASSUME NEW suite, NEW static, static \in BOOLEAN, NEW label,
         NEW k, NEW p, NEW t, NEW i, NEW c, NEW e
  PROVE  signature_or_mac(suite, static, k, label, p, t, i, c, e) # Noise
<1>1. CASE static
  BY <1>1 DEF signature_or_mac, mac, Noise
<1>2. CASE ~static
  BY <1>2 DEF signature_or_mac, mac, Noise
<1> QED BY <1>1, <1>2

\* A sequence tells what was appended to it last.
LEMMA AppendedTells ==
  ASSUME NEW S, NEW p \in Seq(S), NEW c \in S, NEW d \in S,
         Append(p, c) = Append(p, d)
  PROVE  c = d
BY AppendProperties

\* A key is not extracted from two secrets: first and later extractions.
LEMMA PrkInjective ==
  ASSUME NEW static, static \in BOOLEAN, NEW a, NEW b, NEW c, NEW d,
         LET p == prk_derive(static, Append(<<>>, a), b)
         IN  Append(p, c) = Append(p, d)
  PROVE  c = d
<1> DEFINE S == {a, b, c, d}
           p == prk_derive(static, Append(<<>>, a), b)
<1>1. <<>> \in Seq(S) /\ a \in S /\ b \in S /\ c \in S /\ d \in S
  OBVIOUS
<1> HIDE DEF S
<1>2. Append(<<>>, a) \in Seq(S)
  BY <1>1, AppendProperties
<1>3. Append(Append(<<>>, a), b) \in Seq(S)
  BY <1>1, <1>2, AppendProperties
<1>4. p = Append(Append(<<>>, a), b) \/ p = Append(<<>>, a)
  BY DEF prk_derive
<1>5. p \in Seq(S)
  BY <1>2, <1>3, <1>4
<1> HIDE DEF p
<1>6. Append(p, c) = Append(p, d)
  BY DEF p
<1> QED BY <1>1, <1>5, <1>6, AppendedTells

\* PRK_3e2m over a PRK_2e tells the secret that was mixed in.
LEMMA Prk3e2mInjective ==
  ASSUME NEW a, NEW c, NEW d,
         Append(Append(<<>>, a), c) = Append(Append(<<>>, a), d)
  PROVE  c = d
<1> DEFINE S == {a, c, d}
           p == Append(<<>>, a)
<1>1. <<>> \in Seq(S) /\ a \in S /\ c \in S /\ d \in S
  OBVIOUS
<1>2. Append(p, c) = Append(p, d)
  OBVIOUS
<1> HIDE DEF S
<1>3. p \in Seq(S)
  BY <1>1, AppendProperties
<1> HIDE DEF p
<1> QED BY <1>1, <1>2, <1>3, AppendedTells

-----------------------------------------------------------------------------
(* The inductive invariant                                                 *)

\* The parts of a session key: what it was exported from.
Prk4x3m(key) == key[3]
Th4(key) == key[4]
Th3(key) == Th4(key)[2]
Th2(key) == Th3(key)[2]
SentMessage3(key) == Th4(key)[3]

\* A datagram has the shape of one that a run has sent.
Delivered(m) ==
  /\ m = Message(m.from, m.to, m.n, m.body)
  /\ \/ m.from \in Devices /\ m.to = R /\ m.n \in {1, 3}
     \/ m.from = R /\ m.to \in Devices /\ m.n \in {2, 4}

\* Whatever the network did to a message 2, its key stream is the one of an
\* answer, and its MAC or signature too, or noise.
GenuineMessage2(body) ==
  LET ct == body.ciphertext_2
  IN  /\ body = [g_y |-> body.g_y, c_r |-> body.c_r, ciphertext_2 |-> ct]
      /\ ct = [key |-> ct.key, id_cred |-> ct.id_cred,
               signature_or_mac |-> ct.signature_or_mac, ead |-> ct.ead]
      /\ \E a \in answered :
           LET answer == Message2(a.msg1, a.run).msg2.ciphertext_2
           IN  /\ ct.key = answer.key
               /\ ct.signature_or_mac \in {Noise, answer.signature_or_mac}

\* A message 3 is the one of a run that derived its key, or does not open.
GenuineMessage3(body) ==
  /\ "key" \in DOMAIN body
  /\ body.key = Noise \/ \E d \in derived : body = SentMessage3(d.key)

\* A message 4 is encrypted with an accepted key, or does not open.
GenuineMessage4(body) ==
  /\ "key" \in DOMAIN body
  /\ \/ body.key = Noise
     \/ \E a \in accepted :
          body.key = key_gen(CIPHERTEXT4, Prk4x3m(a.key), Th4(a.key))

GenuineMessage(m) ==
  /\ Delivered(m)
  /\ m.n = 2 => GenuineMessage2(m.body)
  /\ m.n = 3 => GenuineMessage3(m.body)
  /\ m.n = 4 => GenuineMessage4(m.body)

\* The run of an initiator: its message 1 is of this run, and a run that went
\* past message 2 has a key of this run; with message 4 configured, one that
\* returned ok has a key that the responder accepted.
InitiatorInv(i) ==
  LET s == init[i]
      key == SessionKey(s.prk_4x3m, s.th4)
  IN  /\ {"stage", "run"} \subseteq DOMAIN s
      /\ s.stage \in {"idle", "message_2", "message_4", "ok", "failed"}
      /\ s.run \in Nat /\ s.run <= spent.runs
      /\ s.stage = "message_2" => s.msg1 = msg1_gen(i, s.run, s.c)
      /\ s.stage \in {"message_4", "ok"} =>
           /\ {"prk_4x3m", "th4"} \subseteq DOMAIN s
           /\ \E d \in derived : d.run = <<i, s.run>> /\ d.key = key
      /\ s.stage = "ok" /\ Msg4I => \E a \in accepted : a.key = key

\* The run of the responder: one that waits for message 3 works with what it
\* answered, and th4 in the caller's buffer is of an accepted key.
ResponderInv ==
  /\ {"stage", "run", "prk_4x3m", "th4"} \subseteq DOMAIN resp
  /\ resp.stage \in {"idle", "message_1", "message_3", "ok", "failed"}
  /\ resp.run \in 0 .. MaxRunsR
  /\ resp.stage = "message_3" =>
       \E a \in answered :
         LET g == Message2(a.msg1, a.run)
         IN  /\ a.run = resp.run /\ resp.method = a.msg1.method
             /\ resp.suite = g.suite /\ resp.PRK_3e2m = g.PRK_3e2m
             /\ resp.th3 = g.th3
  /\ resp.th4 = <<>> \/ \E a \in accepted : Th4(a.key) = resp.th4

AnsweredInv(a) ==
  LET g == Message2(a.msg1, a.run)
  IN  a.suite = g.suite /\ a.prk_3e2m = g.PRK_3e2m /\ a.th2 = g.th2

Agrees(d) ==
  /\ d.responder = Id(R)
  /\ \E a \in answered :
       /\ a.msg1 = d.msg1 /\ a.th2 = d.th2
       /\ a.suite = d.suite /\ a.prk_3e2m = d.prk_3e2m

\* What a run of an initiator derived: the run is over or waits for message 4,
\* and its key is exported from its own transcript and message 3.
DerivedInv(d) ==
  LET i == d.run[1]
      static == static_dh_i(d.method)
      ct3 == SentMessage3(d.key)
  IN  /\ d.run = <<i, d.run[2]>> /\ i \in Devices
      /\ d.run[2] \in Nat /\ d.run[2] <= init[i].run
      /\ d.run[2] = init[i].run => init[i].stage # "message_2"
      /\ d.initiator = Id(i) /\ d.method = d.msg1.method
      /\ d.msg1.g_x = Ephemeral(i, d.run[2])
      /\ Agrees(d)
      /\ d.key = SessionKey(Prk4x3m(d.key), Th4(d.key))
      /\ Th4(d.key) = th4_calculate(Th3(d.key), ct3)
      /\ Th3(d.key) = th3_calculate(d.th2, Th3(d.key)[3])
      /\ Prk4x3m(d.key) =
           InitiatorPrk4x3m(i, d.method, d.suite, d.prk_3e2m, d.th2[3])
      /\ ct3 = ciphertext_gen(CIPHERTEXT3, Id(IdOf[i]),
                 signature_or_mac(d.suite, static, AuthKey(static, i), "MAC_3",
                                  Prk4x3m(d.key), Th3(d.key), Id(IdOf[i]),
                                  Cred(IdOf[i]), ct3.ead),
                 ct3.ead, d.prk_3e2m, Th3(d.key))

\* What a run of the responder accepted: the run is over, its ephemeral key is
\* in the transcript, and an initiator has derived the key.
AcceptedInv(a) ==
  /\ a.run \in Nat /\ a.run <= resp.run
  /\ a.run = resp.run => resp.stage \notin {"message_1", "message_3"}
  /\ a.key = SessionKey(Prk4x3m(a.key), Th4(a.key))
  /\ Th4(a.key) # <<>>
  /\ Th2(a.key)[3] = Ephemeral(R, a.run)
  /\ \E d \in derived : KA!Terms(d) = KA!Terms(a)

SpentInv ==
  /\ spent = [runs |-> spent.runs, crashes |-> spent.crashes,
              damaged |-> spent.damaged]
  /\ spent.runs \in 0 .. MaxRunsI
  /\ spent.crashes \in 0 .. MaxCrashes
  /\ spent.damaged \in 0 .. MaxDamaged

EdhocInv ==
  /\ DOMAIN init = Devices
  /\ \A i \in Devices : InitiatorInv(i)
  /\ ResponderInv
  /\ SpentInv
  /\ \A m \in net : GenuineMessage(m)
  /\ \A a \in answered : AnsweredInv(a)
  /\ \A d \in derived : DerivedInv(d)
  /\ \A d, e \in derived : d.run = e.run => d = e
  /\ \A a \in accepted : AcceptedInv(a)
  /\ confirmed \subseteq {d.run : d \in derived}

-----------------------------------------------------------------------------
(* What message 2 and message 3 vouch for                                  *)

\* What msg2_gen derives, field by field.
LEMMA Message2Fields ==
  ASSUME NEW msg1, NEW run
  PROVE  LET g == Message2(msg1, run)
             suite == get_suite(SelectedSuite(msg1))
             static == static_dh_r(msg1.method)
             y == Ephemeral(R, run)
             PRK_2e == Append(<<>>,
                                  shared_secret_derive(suite, y, msg1.g_x))
         IN  /\ g.suite = suite
             /\ g.th2 = th2_calculate(msg1, y, C_x(R))
             /\ g.PRK_3e2m = prk_derive(static, PRK_2e,
                  shared_secret_derive(suite, StaticKey(R), msg1.g_x))
             /\ g.th3 = th3_calculate(g.th2, g.msg2.ciphertext_2)
             /\ g.msg2.ciphertext_2 = ciphertext_gen(CIPHERTEXT2, Id(IdOf[R]),
                  signature_or_mac(suite, static, AuthKey(static, R), "MAC_2",
                                   g.PRK_3e2m, g.th2, Id(IdOf[R]),
                                   Cred(IdOf[R]), Ead2),
                  Ead2, PRK_2e, g.th2)
BY DEF Message2, prk_derive

\* Message 2 and its ciphertext are records of their fields.
LEMMA Message2Shape ==
  ASSUME NEW msg1, NEW run
  PROVE  LET msg2 == Message2(msg1, run).msg2
             ct == msg2.ciphertext_2
         IN  /\ msg2 = [g_y |-> Ephemeral(R, run), c_r |-> C_x(R),
                        ciphertext_2 |-> ct]
             /\ ct = [key |-> ct.key, id_cred |-> ct.id_cred,
                      signature_or_mac |-> ct.signature_or_mac, ead |-> ct.ead]
<1>1. Message2(msg1, run).msg2 =
        [g_y |-> Ephemeral(R, run), c_r |-> C_x(R),
         ciphertext_2 |-> Message2(msg1, run).msg2.ciphertext_2]
  BY DEF Message2
<1>2. LET ct == Message2(msg1, run).msg2.ciphertext_2
      IN  ct = [key |-> ct.key, id_cred |-> ct.id_cred,
                signature_or_mac |-> ct.signature_or_mac, ead |-> ct.ead]
  BY DEF Message2, ciphertext_gen
<1> QED BY <1>1, <1>2

\* What msg3_gen reads from message 2 and derives, field by field.
LEMMA Message2ValuesFields ==
  ASSUME NEW i, NEW msg2
  PROVE  LET v == Message2Values(i, msg2)
             c == init[i].c
             suite == get_suite(Last(c.suites_i))
             x == Ephemeral(i, init[i].run)
         IN  /\ v.suite = suite
             /\ v.cred_r = msg2.ciphertext_2.id_cred[2]
             /\ v.PRK_2e = Append(<<>>,
                  shared_secret_derive(suite, x, msg2.g_y))
             /\ v.PRK_3e2m = prk_derive(static_dh_r(c.method), v.PRK_2e,
                  shared_secret_derive(suite, x, StaticKey(v.cred_r)))
             /\ v.prk_4x3m = InitiatorPrk4x3m(i, c.method, v.suite, v.PRK_3e2m,
                                              msg2.g_y)
             /\ v.th2 = th2_calculate(init[i].msg1, msg2.g_y, msg2.c_r)
BY DEF Message2Values, prk_derive

\* What ciphertext_gen gives, field by field.
LEMMA CiphertextFields ==
  ASSUME NEW ctxt, NEW id_cred, NEW sign_or_mac, NEW ead, NEW prk, NEW th
  PROVE  LET ct == ciphertext_gen(ctxt, id_cred, sign_or_mac, ead, prk, th)
         IN  /\ ct.key = okm_calc(prk, th, ctxt)
             /\ ct.id_cred = id_cred /\ ct.signature_or_mac = sign_or_mac
             /\ ct.ead = ead
             /\ ct = [key |-> ct.key, id_cred |-> ct.id_cred,
                      signature_or_mac |-> ct.signature_or_mac, ead |-> ct.ead]
BY DEF ciphertext_gen, key_gen

\* A message 2 that opens and whose MAC or signature is verified comes from
\* the responder, and from a run of it that answered this message 1.
LEMMA Message2Vouches ==
  ASSUME NEW i \in Devices, InitiatorInv(i), init[i].stage = "message_2",
         NEW body, GenuineMessage2(body), AcceptsMessage2(i, body),
         \A a \in answered : AnsweredInv(a)
  PROVE  LET v == Message2Values(i, body)
         IN  /\ v.cred_r = R
             /\ \E a \in answered :
                  /\ a.msg1 = init[i].msg1 /\ a.th2 = v.th2
                  /\ a.suite = v.suite /\ a.prk_3e2m = v.PRK_3e2m
<1> DEFINE v == Message2Values(i, body)
           c == init[i].c
           ct == body.ciphertext_2
           static == static_dh_r(c.method)
           x == Ephemeral(i, init[i].run)
<1>1. PICK a \in answered :
        LET answer == Message2(a.msg1, a.run).msg2.ciphertext_2
        IN  /\ ct.key = answer.key
            /\ ct.signature_or_mac \in {Noise, answer.signature_or_mac}
  BY DEF GenuineMessage2
<1> DEFINE g == Message2(a.msg1, a.run)
           suite == get_suite(SelectedSuite(a.msg1))
           y == Ephemeral(R, a.run)
           PRK_2e == Append(<<>>,
                                shared_secret_derive(suite, y, a.msg1.g_x))
           stat == static_dh_r(a.msg1.method)
           answer == g.msg2.ciphertext_2
<1>2. /\ a.suite = g.suite /\ a.prk_3e2m = g.PRK_3e2m /\ a.th2 = g.th2
      /\ ct.key = answer.key
      /\ ct.signature_or_mac \in {Noise, answer.signature_or_mac}
  BY <1>1 DEF AnsweredInv
<1> HIDE DEF g
<1>3. /\ g.suite = suite
      /\ g.th2 = th2_calculate(a.msg1, y, C_x(R))
      /\ g.PRK_3e2m = prk_derive(stat, PRK_2e,
           shared_secret_derive(suite, StaticKey(R), a.msg1.g_x))
      /\ answer.key = okm_calc(PRK_2e, g.th2, CIPHERTEXT2)
      /\ answer.signature_or_mac =
           signature_or_mac(suite, stat, AuthKey(stat, R), "MAC_2",
                            g.PRK_3e2m, g.th2, Id(IdOf[R]), Cred(IdOf[R]),
                            Ead2)
  <2>1. /\ g.suite = suite
        /\ g.th2 = th2_calculate(a.msg1, y, C_x(R))
        /\ g.PRK_3e2m = prk_derive(stat, PRK_2e,
             shared_secret_derive(suite, StaticKey(R), a.msg1.g_x))
        /\ answer = ciphertext_gen(CIPHERTEXT2, Id(IdOf[R]),
             signature_or_mac(suite, stat, AuthKey(stat, R), "MAC_2",
                              g.PRK_3e2m, g.th2, Id(IdOf[R]),
                              Cred(IdOf[R]), Ead2),
             Ead2, PRK_2e, g.th2)
    BY Message2Fields DEF g
  <2> HIDE DEF answer, PRK_2e, y, stat, suite
  <2> QED BY <2>1, CiphertextFields
<1>4. /\ v.suite = get_suite(Last(c.suites_i))
      /\ v.cred_r = ct.id_cred[2]
      /\ v.PRK_2e = Append(<<>>,
           shared_secret_derive(get_suite(Last(c.suites_i)), x, body.g_y))
      /\ v.PRK_3e2m = prk_derive(static, v.PRK_2e,
           shared_secret_derive(get_suite(Last(c.suites_i)), x,
                                StaticKey(v.cred_r)))
      /\ v.th2 = th2_calculate(init[i].msg1, body.g_y, body.c_r)
  BY Message2ValuesFields
<1>5. /\ ct.key = okm_calc(v.PRK_2e, v.th2, CIPHERTEXT2)
      /\ ct.signature_or_mac =
           signature_or_mac(v.suite, static, AuthKey(static, v.cred_r), "MAC_2",
                            v.PRK_3e2m, v.th2, ct.id_cred, Cred(v.cred_r),
                            decode_byte_string(ct.ead))
  BY DEF AcceptsMessage2, Opens, Verifies, key_gen, plaintext_split
<1> HIDE DEF v, ct, answer
<1>6. v.PRK_2e = PRK_2e /\ v.th2 = g.th2
  BY <1>2, <1>3, <1>5, OkmInjective
<1>7. init[i].msg1 = a.msg1 /\ body.g_y = y
  <2>1. th2_calculate(init[i].msg1, body.g_y, body.c_r)
          = th2_calculate(a.msg1, y, C_x(R))
    BY <1>3, <1>4, <1>6
  <2> QED BY <2>1, Th2Injective
<1>8. a.msg1 = msg1_gen(i, init[i].run, c)
  BY <1>7 DEF InitiatorInv
<1>9. /\ a.msg1.method = c.method /\ SelectedSuite(a.msg1) = Last(c.suites_i)
      /\ a.msg1.g_x = x
  BY <1>8 DEF msg1_gen, SelectedSuite
<1>10. v.suite = suite /\ stat = static
  BY <1>9, <1>4
<1>11. static \in BOOLEAN
  BY DEF static_dh_r
<1>12. ct.signature_or_mac = answer.signature_or_mac
  BY <1>2, <1>5, <1>11, MacNotNoise
<1>13. /\ v.PRK_3e2m = g.PRK_3e2m
       /\ ~static => AuthKey(static, v.cred_r) = AuthKey(static, R)
  BY <1>12, <1>3, <1>5, <1>10, <1>11, MacInjective
<1>14. v.cred_r = R
  <2>1. CASE static
    <3>1. v.PRK_2e = Append(<<>>,
                                shared_secret_derive(suite, x, body.g_y))
      BY <1>4, <1>10
    <3>2. /\ v.PRK_3e2m = Append(v.PRK_2e,
               shared_secret_derive(suite, x, StaticKey(v.cred_r)))
          /\ g.PRK_3e2m = Append(v.PRK_2e,
               shared_secret_derive(suite, StaticKey(R), x))
      BY <1>3, <1>4, <1>6, <1>9, <1>10, <2>1 DEF prk_derive
    <3>3. shared_secret_derive(suite, x, StaticKey(v.cred_r))
            = shared_secret_derive(suite, StaticKey(R), x)
      BY <3>1, <3>2, <1>13, Prk3e2mInjective
    <3>4. {x, StaticKey(v.cred_r)} = {StaticKey(R), x}
      BY <3>3, SecretInjective
    <3>5. StaticKey(v.cred_r) # x
      BY NamesInjective
    <3>6. StaticKey(v.cred_r) = StaticKey(R)
      BY <3>4, <3>5
    <3> QED BY <3>6, NamesInjective
  <2>2. CASE ~static
    BY <2>2, <1>13, NamesInjective DEF AuthKey
  <2> QED BY <2>1, <2>2
<1> QED BY <1>2, <1>3, <1>6, <1>7, <1>10, <1>13, <1>14 DEF v

\* msg3_process derives PRK_4x3m from the device that message 3 names.
LEMMA ResponderPrk4x3m ==
  ASSUME NEW ct, ResponderInv
  PROVE  WithPrk4x3m(ct).prk_4x3m =
           prk_derive(static_dh_i(resp.method), resp.PRK_3e2m,
                      shared_secret_derive(resp.suite, Ephemeral(R, resp.run),
                                           StaticKey(ct.id_cred[2])))
BY DEF WithPrk4x3m, ResponderInv

\* A message 3 that opens and whose MAC or signature is verified is the one of
\* a run of an initiator that answers this message 2, and both sides have the
\* same key.
LEMMA Message3Vouches ==
  ASSUME ResponderInv, resp.stage = "message_3",
         NEW m, m.n = 3, GenuineMessage3(m.body), OpensMessage3(m),
         \A a \in answered : AnsweredInv(a),
         \A d \in derived : DerivedInv(d),
         LET cred_i == m.body.id_cred[2]
             static == static_dh_i(resp.method)
         IN  Verifies(resp.suite, static, AuthKey(static, cred_i), "MAC_3",
                      WithPrk4x3m(m.body).prk_4x3m, resp.th3,
                      plaintext_split(m.body), Cred(cred_i))
  PROVE  \E d \in derived :
           /\ d.key = SessionKey(WithPrk4x3m(m.body).prk_4x3m,
                                 th4_calculate(resp.th3, m.body))
           /\ d.initiator = m.body.id_cred
           /\ d.method = resp.method /\ d.suite = resp.suite
           /\ Th2(d.key)[3] = Ephemeral(R, resp.run)
<1> DEFINE ct == m.body
           cred_i == ct.id_cred[2]
           static == static_dh_i(resp.method)
           prk == WithPrk4x3m(ct).prk_4x3m
           y == Ephemeral(R, resp.run)
<1>1. /\ ct.key = okm_calc(resp.PRK_3e2m, resp.th3, CIPHERTEXT3)
      /\ ct.id_cred \in {Id(d) : d \in KnownI}
  BY DEF OpensMessage3, Opens, key_gen
<1>2. PICK d \in derived : ct = SentMessage3(d.key)
  BY <1>1, OkmNotNoise DEF GenuineMessage3
<1> DEFINE i == d.run[1]
           stat == static_dh_i(d.method)
<1>3. /\ Agrees(d)
      /\ d.initiator = Id(i)
      /\ d.method = d.msg1.method
      /\ d.key = SessionKey(Prk4x3m(d.key), Th4(d.key))
      /\ Th4(d.key) = th4_calculate(Th3(d.key), ct)
      /\ Th3(d.key) = th3_calculate(d.th2, Th3(d.key)[3])
      /\ Prk4x3m(d.key) =
           InitiatorPrk4x3m(i, d.method, d.suite, d.prk_3e2m, d.th2[3])
      /\ ct = ciphertext_gen(CIPHERTEXT3, Id(IdOf[i]),
                signature_or_mac(d.suite, stat, AuthKey(stat, i), "MAC_3",
                                 Prk4x3m(d.key), Th3(d.key), Id(IdOf[i]),
                                 Cred(IdOf[i]), ct.ead),
                ct.ead, d.prk_3e2m, Th3(d.key))
  BY <1>2 DEF DerivedInv
<1>4. /\ ct.key = okm_calc(d.prk_3e2m, Th3(d.key), CIPHERTEXT3)
      /\ ct.id_cred = Id(IdOf[i])
      /\ ct.signature_or_mac =
           signature_or_mac(d.suite, stat, AuthKey(stat, i), "MAC_3",
                            Prk4x3m(d.key), Th3(d.key), Id(IdOf[i]),
                            Cred(IdOf[i]), ct.ead)
  <2> HIDE DEF ct, stat, i
  <2> QED BY <1>3, CiphertextFields
<1>5. ct.signature_or_mac =
        signature_or_mac(resp.suite, static, AuthKey(static, cred_i), "MAC_3",
                         prk, resp.th3, ct.id_cred, Cred(cred_i),
                         decode_byte_string(ct.ead))
  BY DEF Verifies, plaintext_split
<1> HIDE DEF ct, stat, i, prk, static, cred_i, y
<1>6. d.prk_3e2m = resp.PRK_3e2m /\ Th3(d.key) = resp.th3
  <2>1. okm_calc(resp.PRK_3e2m, resp.th3, CIPHERTEXT3)
          = okm_calc(d.prk_3e2m, Th3(d.key), CIPHERTEXT3)
    BY <1>1, <1>4
  <2> QED BY <2>1, OkmInjective
<1>7. PICK a \in answered :
        LET g == Message2(a.msg1, a.run)
        IN  /\ a.run = resp.run /\ resp.method = a.msg1.method
            /\ resp.suite = g.suite /\ resp.PRK_3e2m = g.PRK_3e2m
            /\ resp.th3 = g.th3
  BY DEF ResponderInv
<1>8. PICK b \in answered :
        /\ b.msg1 = d.msg1 /\ b.th2 = d.th2
        /\ b.suite = d.suite /\ b.prk_3e2m = d.prk_3e2m
  BY <1>3 DEF Agrees
<1> DEFINE g == Message2(a.msg1, a.run)
           h == Message2(b.msg1, b.run)
<1>9. /\ resp.suite = get_suite(SelectedSuite(a.msg1))
      /\ resp.th3 = th3_calculate(th2_calculate(a.msg1, y, C_x(R)),
                                  g.msg2.ciphertext_2)
  <2>1. /\ g.suite = get_suite(SelectedSuite(a.msg1))
        /\ g.th2 = th2_calculate(a.msg1, Ephemeral(R, a.run), C_x(R))
        /\ g.th3 = th3_calculate(g.th2, g.msg2.ciphertext_2)
    BY ZenonT(40), Message2Fields
  <2> QED BY <1>7, <2>1 DEF y
<1>10. /\ d.suite = get_suite(SelectedSuite(d.msg1))
       /\ d.th2 = th2_calculate(d.msg1, Ephemeral(R, b.run), C_x(R))
  <2>1. /\ h.suite = get_suite(SelectedSuite(b.msg1))
        /\ h.th2 = th2_calculate(b.msg1, Ephemeral(R, b.run), C_x(R))
    BY ZenonT(40), Message2Fields
  <2>2. b.suite = h.suite /\ b.th2 = h.th2
    BY DEF AnsweredInv
  <2> QED BY <1>8, <2>1, <2>2
<1> HIDE DEF g, h
<1>11. d.th2 = th2_calculate(a.msg1, y, C_x(R))
  <2>1. th3_calculate(d.th2, Th3(d.key)[3])
          = th3_calculate(th2_calculate(a.msg1, y, C_x(R)), g.msg2.ciphertext_2)
    BY <1>3, <1>6, <1>9
  <2> QED BY <2>1, Th3Injective
<1>12. d.msg1 = a.msg1
  <2>1. th2_calculate(d.msg1, Ephemeral(R, b.run), C_x(R))
          = th2_calculate(a.msg1, y, C_x(R))
    BY <1>10, <1>11
  <2> QED BY <2>1, Th2Injective
<1>13. d.suite = resp.suite /\ d.method = resp.method /\ stat = static
  BY <1>3, <1>7, <1>9, <1>10, <1>12 DEF stat, static
<1>14. d.th2[3] = y
  BY <1>11 DEF th2_calculate
<1>15. static \in BOOLEAN
  BY DEF static, static_dh_i
<1>16. /\ prk = Prk4x3m(d.key)
       /\ ~static => AuthKey(static, cred_i) = AuthKey(static, i)
  <2> HIDE DEF prk, i, stat, static, cred_i
  <2> QED BY <1>4, <1>5, <1>13, <1>15, MacInjective
<1>17. cred_i = i
  <2>1. CASE static
    <3> DEFINE f == static_dh_r(a.msg1.method)
               s == shared_secret_derive(get_suite(SelectedSuite(a.msg1)),
                                         Ephemeral(R, a.run), a.msg1.g_x)
               t == shared_secret_derive(get_suite(SelectedSuite(a.msg1)),
                                         StaticKey(R), a.msg1.g_x)
    <3>1. resp.PRK_3e2m = prk_derive(f, Append(<<>>, s), t) /\ f \in BOOLEAN
      <4>1. g.PRK_3e2m = prk_derive(f, Append(<<>>, s), t)
        BY Message2Fields DEF g
      <4> QED BY <4>1, <1>7 DEF g, static_dh_r
    <3>2. prk = Append(resp.PRK_3e2m,
                  shared_secret_derive(resp.suite, y, StaticKey(cred_i)))
      BY <2>1, ResponderPrk4x3m DEF prk_derive, static, prk, y, cred_i
    <3>3. Prk4x3m(d.key) = Append(resp.PRK_3e2m,
                  shared_secret_derive(resp.suite, StaticKey(i), y))
      BY <1>3, <1>6, <1>13, <1>14, <2>1 DEF InitiatorPrk4x3m, prk_derive, stat
    <3>4. shared_secret_derive(resp.suite, y, StaticKey(cred_i))
            = shared_secret_derive(resp.suite, StaticKey(i), y)
      <4> DEFINE p == prk_derive(f, Append(<<>>, s), t)
                 u == shared_secret_derive(resp.suite, y, StaticKey(cred_i))
                 w == shared_secret_derive(resp.suite, StaticKey(i), y)
      <4>1. Append(p, u) = Append(p, w)
        BY <1>16, <3>1, <3>2, <3>3
      <4> HIDE DEF f, s, t, u, w
      <4> QED BY <4>1, <3>1, PrkInjective DEF u, w
    <3>5. {y, StaticKey(cred_i)} = {StaticKey(i), y}
      BY <3>4, SecretInjective
    <3>6. StaticKey(cred_i) # y
      BY NamesInjective DEF y
    <3>7. StaticKey(cred_i) = StaticKey(i)
      BY <3>5, <3>6
    <3> QED BY <3>7, NamesInjective
  <2>2. CASE ~static
    BY <2>2, <1>16, NamesInjective DEF AuthKey
  <2> QED BY <2>1, <2>2
<1>18. ct.id_cred = d.initiator
  BY <1>1, <1>3, <1>17, NamesInjective DEF cred_i, i
<1>19. Th2(d.key) = d.th2
  <2>1. Th3(d.key)[2] = d.th2
    BY <1>3 DEF th3_calculate
  <2> QED BY <2>1 DEF Th2
<1>20. d.key = SessionKey(prk, th4_calculate(resp.th3, ct))
  BY <1>3, <1>6, <1>16
<1> QED BY <1>13, <1>14, <1>18, <1>19, <1>20 DEF ct, prk, y

-----------------------------------------------------------------------------
(* What a step leaves as it was stays within the invariant: the sets of the *)
(* history only grow.                                                       *)

HistoryGrows ==
  /\ answered \subseteq answered' /\ derived \subseteq derived'
  /\ accepted \subseteq accepted'

\* The run of an initiator: its number never falls, and the run waits for
\* message 2 only from its start on.
InitiatorAdvances(i) ==
  \/ /\ init'[i].run = init[i].run
     /\ init'[i].stage = "message_2" => init[i].stage = "message_2"
  \/ init'[i].run = init[i].run + 1

ResponderAdvances ==
  \/ /\ resp'.run = resp.run
     /\ resp'.stage \in {"message_1", "message_3"}
          => resp.stage \in {"message_1", "message_3"}
  \/ resp'.run = resp.run + 1

\* A message that is genuine stays so: what was sent before stays sent.
LEMMA MessageKept ==
  ASSUME HistoryGrows, NEW m, GenuineMessage(m)
  PROVE  GenuineMessage(m)'
<1>1. Delivered(m)'
  BY DEF GenuineMessage, Delivered
<1>2. m.n = 2 => GenuineMessage2(m.body)'
  BY DEF HistoryGrows, GenuineMessage, GenuineMessage2
<1>3. m.n = 3 => GenuineMessage3(m.body)'
  BY DEF HistoryGrows, GenuineMessage, GenuineMessage3
<1>4. m.n = 4 => GenuineMessage4(m.body)'
  BY DEF HistoryGrows, GenuineMessage, GenuineMessage4
<1> QED BY <1>1, <1>2, <1>3, <1>4 DEF GenuineMessage

\* What is known of an initiator holds as long as it does nothing.
LEMMA InitiatorKept ==
  ASSUME HistoryGrows, NEW i, InitiatorInv(i), init'[i] = init[i],
         spent.runs \in Nat, spent.runs' \in Nat, spent.runs <= spent.runs'
  PROVE  InitiatorInv(i)'
BY DEF HistoryGrows, InitiatorInv

\* What is known of the responder holds as long as it does nothing.
LEMMA ResponderKept ==
  ASSUME HistoryGrows, ResponderInv, resp' = resp
  PROVE  ResponderInv'
BY DEF HistoryGrows, ResponderInv

\* What is known of a key that an initiator derived holds for ever.
LEMMA DerivedKept ==
  ASSUME HistoryGrows, NEW d, DerivedInv(d),
         init[d.run[1]].run \in Nat, InitiatorAdvances(d.run[1])
  PROVE  DerivedInv(d)'
<1>1. Agrees(d)'
  BY DEF HistoryGrows, DerivedInv, Agrees
<1>2. /\ d.run[2] \in Nat /\ d.run[2] <= init'[d.run[1]].run
      /\ d.run[2] = init'[d.run[1]].run => init'[d.run[1]].stage # "message_2"
  BY DEF DerivedInv, InitiatorAdvances
<1> QED BY <1>1, <1>2 DEF DerivedInv

\* What is known of a key that the responder accepted holds for ever.
LEMMA AcceptedKept ==
  ASSUME HistoryGrows, NEW a, AcceptedInv(a), resp.run \in Nat,
         ResponderAdvances
  PROVE  AcceptedInv(a)'
<1>1. \E d \in derived' : KA!Terms(d) = KA!Terms(a)
  BY DEF HistoryGrows, AcceptedInv
<1>2. /\ a.run \in Nat /\ a.run <= resp'.run
      /\ a.run = resp'.run => resp'.stage \notin {"message_1", "message_3"}
  BY DEF AcceptedInv, ResponderAdvances
<1> QED BY <1>1, <1>2 DEF AcceptedInv, KA!Terms

\* rx and tx: what is under way was under way or is sent.
LEMMA ExchangeSends ==
  ASSUME NEW m, NEW sent, Exchange(m, sent)
  PROVE  \A n \in net' : n \in net \/ n \in sent
BY DEF Exchange

\* The obligations of a step: what it changes, and what it adds.
LEMMA StepKeeps ==
  ASSUME EdhocInv, HistoryGrows, DOMAIN init' = Devices,
         \A i \in Devices : InitiatorInv(i)' /\ InitiatorAdvances(i),
         ResponderInv', ResponderAdvances, SpentInv',
         \A m \in net' : m \in net \/ GenuineMessage(m)',
         \A a \in answered' : a \in answered \/ AnsweredInv(a)',
         \A d \in derived' : d \in derived \/ DerivedInv(d)',
         \A d \in derived' \ derived : \A e \in derived' : d.run = e.run => d = e,
         \A a \in accepted' : a \in accepted \/ AcceptedInv(a)',
         \A r \in confirmed' : r \in confirmed \/ \E d \in derived' : r = d.run
  PROVE  EdhocInv'
<1>1. \A m \in net' : GenuineMessage(m)'
  BY MessageKept DEF EdhocInv
<1>2. \A a \in answered' : AnsweredInv(a)'
  BY DEF EdhocInv, AnsweredInv
<1>3. \A d \in derived' : DerivedInv(d)'
  <2> SUFFICES ASSUME NEW d \in derived' PROVE DerivedInv(d)'
    OBVIOUS
  <2>1. CASE d \in derived
    <3>1. DerivedInv(d) /\ d.run[1] \in Devices
      BY <2>1 DEF EdhocInv, DerivedInv
    <3>2. init[d.run[1]].run \in Nat
      BY <3>1 DEF EdhocInv, InitiatorInv
    <3> QED BY <3>1, <3>2, DerivedKept
  <2> QED BY <2>1
<1>4. \A a \in accepted' : AcceptedInv(a)'
  <2>1. resp.run \in Nat
    BY DEF EdhocInv, ResponderInv
  <2>2. \A a \in accepted : AcceptedInv(a)'
    BY <2>1, AcceptedKept DEF EdhocInv
  <2> QED BY <2>2
<1>5. \A d, e \in derived' : d.run = e.run => d = e
  <2>1. \A d, e \in derived : d.run = e.run => d = e
    BY DEF EdhocInv
  <2> QED BY <2>1
<1>6. confirmed' \subseteq {d.run : d \in derived'}
  <2>1. \A r \in confirmed : \E d \in derived : r = d.run
    BY DEF EdhocInv
  <2> QED BY <2>1 DEF HistoryGrows
<1> QED BY <1>1, <1>2, <1>3, <1>4, <1>5, <1>6 DEF EdhocInv

\* The initiators that a step of initiator k leaves alone.
LEMMA OthersKept ==
  ASSUME EdhocInv, HistoryGrows, SpentInv', spent.runs <= spent.runs',
         NEW k \in Devices, InitiatorInv(k)', InitiatorAdvances(k),
         \A i \in Devices \ {k} : init'[i] = init[i]
  PROVE  \A i \in Devices : InitiatorInv(i)' /\ InitiatorAdvances(i)
<1> SUFFICES ASSUME NEW i \in Devices, i # k
             PROVE  InitiatorInv(i)' /\ InitiatorAdvances(i)
  OBVIOUS
<1>1. spent.runs \in Nat /\ spent.runs' \in Nat
  BY DEF EdhocInv, SpentInv
<1>2. InitiatorInv(i)'
  BY <1>1, InitiatorKept DEF EdhocInv
<1>3. InitiatorAdvances(i)
  BY DEF InitiatorAdvances
<1> QED BY <1>2, <1>3

\* A step that leaves the initiators alone keeps all that is known of them.
LEMMA AllKept ==
  ASSUME EdhocInv, HistoryGrows, SpentInv', spent.runs <= spent.runs',
         init' = init
  PROVE  /\ DOMAIN init' = Devices
         /\ \A i \in Devices : InitiatorInv(i)' /\ InitiatorAdvances(i)
<1>1. spent.runs \in Nat /\ spent.runs' \in Nat
  BY DEF EdhocInv, SpentInv
<1> SUFFICES ASSUME NEW i \in Devices
             PROVE  InitiatorInv(i)' /\ InitiatorAdvances(i)
  BY DEF EdhocInv
<1>2. InitiatorInv(i)'
  BY <1>1, InitiatorKept DEF EdhocInv
<1>3. InitiatorAdvances(i)
  BY DEF InitiatorAdvances
<1> QED BY <1>2, <1>3

-----------------------------------------------------------------------------
(* The steps keep the invariant                                            *)

\* edhoc_initiator_run up to message 1 keeps the invariant.
LEMMA InitiatorRunKeeps ==
  ASSUME EdhocInv, NEW i \in Devices, NEW c \in Configs, InitiatorRun(i, c)
  PROVE  EdhocInv'
<1> DEFINE run == init[i].run + 1
           msg1 == msg1_gen(i, run, c)
<1>1. /\ init' = [init EXCEPT ![i] = [stage |-> "message_2", run |-> run,
                                      c |-> c, msg1 |-> msg1]]
      /\ net' = net \cup {Message(i, R, 1, msg1)}
      /\ spent.runs < MaxRunsI /\ spent' = [spent EXCEPT !.runs = @ + 1]
      /\ UNCHANGED <<resp, answered, derived, accepted, confirmed>>
  BY DEF InitiatorRun
<1> HIDE DEF msg1
<1>2. HistoryGrows
  BY <1>1 DEF HistoryGrows
<1>3. DOMAIN init' = Devices /\ \A j \in Devices \ {i} : init'[j] = init[j]
  BY <1>1 DEF EdhocInv
<1>4. init'[i] = [stage |-> "message_2", run |-> run, c |-> c, msg1 |-> msg1]
  BY <1>1 DEF EdhocInv
<1>5. SpentInv' /\ spent'.runs = spent.runs + 1 /\ spent.runs \in Nat
  BY <1>1, BoundsAssumption DEF EdhocInv, SpentInv
<1>6. InitiatorInv(i)'
  <2>1. init[i].run \in Nat /\ init[i].run <= spent.runs
    BY DEF EdhocInv, InitiatorInv
  <2> QED BY <1>4, <1>5, <2>1 DEF InitiatorInv, msg1
<1>7. InitiatorAdvances(i)
  BY <1>4 DEF InitiatorAdvances
<1>8. \A j \in Devices : InitiatorInv(j)' /\ InitiatorAdvances(j)
  BY <1>2, <1>3, <1>5, <1>6, <1>7, OthersKept
<1>9. ResponderInv' /\ ResponderAdvances
  BY <1>1, <1>2, ResponderKept DEF EdhocInv, ResponderAdvances
<1>10. \A m \in net' : m \in net \/ GenuineMessage(m)'
  <2> SUFFICES ASSUME NEW m, m = Message(i, R, 1, msg1)
               PROVE  GenuineMessage(m)'
    BY <1>1
  <2> QED BY DEF GenuineMessage, Delivered, Message
<1> QED BY <1>1, <1>2, <1>3, <1>5, <1>8, <1>9, <1>10, StepKeeps

\* An initiator that returns an error keeps the invariant.
LEMMA InitiatorFailsKeeps ==
  ASSUME EdhocInv, NEW i \in Devices, NEW m, InitiatorFails(i, m)
  PROVE  EdhocInv'
<1>1. /\ init' = [init EXCEPT ![i] =
                    [stage |-> "failed", run |-> @.run, c |-> @.c,
                     msg1 |-> @.msg1, received |-> m]]
      /\ Exchange(m, {})
      /\ UNCHANGED <<resp, spent, answered, derived, accepted, confirmed>>
  BY DEF InitiatorFails
<1>2. HistoryGrows
  BY <1>1 DEF HistoryGrows
<1>3. DOMAIN init' = Devices /\ \A j \in Devices \ {i} : init'[j] = init[j]
  BY <1>1 DEF EdhocInv
<1>4. /\ init'[i].stage = "failed" /\ init'[i].run = init[i].run
      /\ {"stage", "run"} \subseteq DOMAIN init'[i]
  BY <1>1 DEF EdhocInv
<1>5. SpentInv' /\ spent'.runs = spent.runs /\ spent.runs \in Nat
  BY <1>1 DEF EdhocInv, SpentInv
<1>6. InitiatorInv(i)'
  BY <1>4, <1>5 DEF EdhocInv, InitiatorInv
<1>7. InitiatorAdvances(i)
  BY <1>4 DEF InitiatorAdvances
<1>8. \A j \in Devices : InitiatorInv(j)' /\ InitiatorAdvances(j)
  BY <1>2, <1>3, <1>5, <1>6, <1>7, OthersKept
<1>9. ResponderInv' /\ ResponderAdvances
  BY <1>1, <1>2, ResponderKept DEF EdhocInv, ResponderAdvances
<1>10. \A n \in net' : n \in net
  BY <1>1, ExchangeSends
<1> QED BY <1>1, <1>2, <1>3, <1>5, <1>8, <1>9, <1>10, StepKeeps

\* The process of an initiator ends: only its number of runs is left of it.
LEMMA InitiatorStopsKeeps ==
  ASSUME EdhocInv, NEW i \in Devices,
         init' = [init EXCEPT ![i] = [stage |-> "idle", run |-> @.run]],
         spent.crashes < MaxCrashes,
         spent' = [spent EXCEPT !.crashes = @ + 1],
         UNCHANGED <<resp, net, answered, derived, accepted, confirmed>>
  PROVE  EdhocInv'
<1>1. HistoryGrows
  BY DEF HistoryGrows
<1>2. /\ DOMAIN init' = Devices /\ \A j \in Devices \ {i} : init'[j] = init[j]
      /\ init'[i] = [stage |-> "idle", run |-> init[i].run]
  BY DEF EdhocInv
<1>3. SpentInv' /\ spent'.runs = spent.runs /\ spent.runs \in Nat
  BY BoundsAssumption DEF EdhocInv, SpentInv
<1>4. InitiatorInv(i)'
  BY <1>2, <1>3 DEF EdhocInv, InitiatorInv
<1>5. InitiatorAdvances(i)
  BY <1>2 DEF InitiatorAdvances
<1>6. \A j \in Devices : InitiatorInv(j)' /\ InitiatorAdvances(j)
  BY <1>1, <1>2, <1>3, <1>4, <1>5, OthersKept
<1>7. ResponderInv' /\ ResponderAdvances
  BY <1>1, ResponderKept DEF EdhocInv, ResponderAdvances
<1> QED BY <1>1, <1>2, <1>3, <1>6, <1>7, StepKeeps

\* The session's keys tell PRK_4x3m and TH_4.
LEMMA SessionKeyParts ==
  ASSUME NEW prk, NEW th4
  PROVE  Prk4x3m(SessionKey(prk, th4)) = prk /\ Th4(SessionKey(prk, th4)) = th4
BY DEF SessionKey, edhoc_exporter, okm_calc, Prk4x3m, Th4

\* The session's keys tell the transcript: TH_2 and both ciphertexts.
LEMMA TranscriptParts ==
  ASSUME NEW prk, NEW th2, NEW ct2, NEW ct3
  PROVE  LET th3 == th3_calculate(th2, ct2)
             key == SessionKey(prk, th4_calculate(th3, ct3))
         IN  /\ Th3(key) = th3 /\ Th2(key) = th2 /\ SentMessage3(key) = ct3
             /\ th3[3] = ct2
BY SessionKeyParts DEF Th3, Th2, SentMessage3, th3_calculate, th4_calculate

\* What msg3_gen derives, field by field.
LEMMA Message3Fields ==
  ASSUME NEW i, NEW msg2
  PROVE  LET v == Message2Values(i, msg2)
             g == Message3(i, msg2)
             c == init[i].c
             static == static_dh_i(c.method)
             th3 == th3_calculate(v.th2, msg2.ciphertext_2)
         IN  /\ g.prk_4x3m = v.prk_4x3m
             /\ g.th4 = th4_calculate(th3, g.ciphertext)
             /\ g.ciphertext = ciphertext_gen(CIPHERTEXT3, Id(IdOf[i]),
                  signature_or_mac(v.suite, static, AuthKey(static, i), "MAC_3",
                                   v.prk_4x3m, th3, Id(IdOf[i]), Cred(IdOf[i]),
                                   c.ead_3),
                  c.ead_3, v.PRK_3e2m, th3)
BY DEF Message3

\* The key of a run has its message 1 in the transcript, and so its ephemeral
\* key.
LEMMA KeyNamesRun ==
  ASSUME NEW d, DerivedInv(d), \A a \in answered : AnsweredInv(a)
  PROVE  /\ Th2(d.key) = d.th2
         /\ \E x, y : d.th2 = th2_calculate(d.msg1, x, y)
<1>1. /\ Th3(d.key) = th3_calculate(d.th2, Th3(d.key)[3])
      /\ Agrees(d)
  BY DEF DerivedInv
<1>2. Th2(d.key) = d.th2
  BY <1>1 DEF Th2, th3_calculate
<1>3. PICK a \in answered : a.msg1 = d.msg1 /\ a.th2 = d.th2
  BY <1>1 DEF Agrees
<1>4. a.th2 = Message2(a.msg1, a.run).th2
  BY DEF AnsweredInv
<1>5. Message2(a.msg1, a.run).th2
        = th2_calculate(a.msg1, Ephemeral(R, a.run), C_x(R))
  BY Message2Fields
<1> QED BY <1>2, <1>3, <1>4, <1>5

\* Runs of initiators over the same TH_2 are runs of one device with one
\* message 1, whose keys differ at most in TH_4.
LEMMA TranscriptNamesKey ==
  ASSUME NEW d, NEW e, DerivedInv(d), DerivedInv(e), d.th2 = e.th2,
         Th4(d.key) = Th4(e.key), \A a \in answered : AnsweredInv(a)
  PROVE  d.key = e.key
<1>1. PICK a \in answered :
        a.msg1 = d.msg1 /\ a.th2 = d.th2
        /\ a.suite = d.suite /\ a.prk_3e2m = d.prk_3e2m
  BY DEF DerivedInv, Agrees
<1>2. PICK b \in answered :
        b.msg1 = e.msg1 /\ b.th2 = e.th2
        /\ b.suite = e.suite /\ b.prk_3e2m = e.prk_3e2m
  BY DEF DerivedInv, Agrees
<1> DEFINE g == Message2(a.msg1, a.run)
           h == Message2(b.msg1, b.run)
<1>3. /\ a.suite = g.suite /\ a.prk_3e2m = g.PRK_3e2m /\ a.th2 = g.th2
      /\ b.suite = h.suite /\ b.prk_3e2m = h.PRK_3e2m /\ b.th2 = h.th2
  BY DEF AnsweredInv
<1>4. /\ g.th2 = th2_calculate(a.msg1, Ephemeral(R, a.run), C_x(R))
      /\ h.th2 = th2_calculate(b.msg1, Ephemeral(R, b.run), C_x(R))
  BY Message2Fields
<1>5. a.msg1 = b.msg1 /\ Ephemeral(R, a.run) = Ephemeral(R, b.run)
  BY <1>1, <1>2, <1>3, <1>4, Th2Injective
<1>6. g.suite = h.suite /\ g.PRK_3e2m = h.PRK_3e2m
  <2> DEFINE K(msg1, y) ==
        prk_derive(static_dh_r(msg1.method),
          Append(<<>>, shared_secret_derive(get_suite(SelectedSuite(msg1)), y,
                                            msg1.g_x)),
          shared_secret_derive(get_suite(SelectedSuite(msg1)), StaticKey(R),
                               msg1.g_x))
  <2>1. g.PRK_3e2m = K(a.msg1, Ephemeral(R, a.run))
    BY Message2Fields
  <2>2. h.PRK_3e2m = K(b.msg1, Ephemeral(R, b.run))
    BY Message2Fields
  <2>3. g.suite = get_suite(SelectedSuite(a.msg1))
        /\ h.suite = get_suite(SelectedSuite(b.msg1))
    BY Message2Fields
  <2> HIDE DEF K, g, h
  <2> QED BY <1>5, <2>1, <2>2, <2>3
<1> HIDE DEF g, h
<1>7. d.msg1 = e.msg1 /\ d.suite = e.suite /\ d.prk_3e2m = e.prk_3e2m
  BY <1>1, <1>2, <1>3, <1>5, <1>6
<1>8. d.run[1] = e.run[1] /\ d.method = e.method
  <2>1. /\ d.msg1.g_x = Ephemeral(d.run[1], d.run[2])
        /\ e.msg1.g_x = Ephemeral(e.run[1], e.run[2])
        /\ d.method = d.msg1.method /\ e.method = e.msg1.method
    BY DEF DerivedInv
  <2> QED BY <1>7, <2>1, NamesInjective
<1>9. /\ Prk4x3m(d.key) =
           InitiatorPrk4x3m(d.run[1], d.method, d.suite, d.prk_3e2m, d.th2[3])
      /\ Prk4x3m(e.key) =
           InitiatorPrk4x3m(e.run[1], e.method, e.suite, e.prk_3e2m, e.th2[3])
      /\ d.key = SessionKey(Prk4x3m(d.key), Th4(d.key))
      /\ e.key = SessionKey(Prk4x3m(e.key), Th4(e.key))
  BY DEF DerivedInv
<1> QED BY <1>7, <1>8, <1>9

\* msg3_gen returns ok: the run has derived a key in one session with the
\* responder, and with a generated ephemeral key one that no run has derived
\* before.
LEMMA InitiatorDerives ==
  ASSUME EdhocInv, NEW i \in Devices, NEW m \in net, InitiatorMessage2(i, m),
         m.n = 2, AcceptsMessage2(i, m.body)
  PROVE  EdhocInv' /\ (AllKeysFresh => KA!Derive)
<1> DEFINE body == m.body
           v == Message2Values(i, body)
           g == Message3(i, body)
           c == init[i].c
           th3 == th3_calculate(v.th2, body.ciphertext_2)
           key == SessionKey(g.prk_4x3m, g.th4)
           static == static_dh_i(c.method)
           d == [run |-> <<i, init[i].run>>, initiator |-> Id(i),
                 responder |-> Id(v.cred_r), suite |-> v.suite,
                 method |-> c.method, msg1 |-> init[i].msg1,
                 prk_3e2m |-> v.PRK_3e2m, th2 |-> v.th2, key |-> key]
<1>1. /\ init[i].stage = "message_2"
      /\ init' = [init EXCEPT ![i] =
           [stage |-> IF Msg4I THEN "message_4" ELSE "ok",
            run |-> @.run, c |-> @.c, msg1 |-> @.msg1,
            received |-> m, prk_4x3m |-> g.prk_4x3m, th4 |-> g.th4,
            ead_2 |-> plaintext_split(body.ciphertext_2).ead]]
      /\ Exchange(m, {Message(i, R, 3, g.ciphertext)})
      /\ derived' = derived \cup {d}
      /\ UNCHANGED <<resp, spent, answered, accepted, confirmed>>
  BY DEF InitiatorMessage2
<1>2. HistoryGrows
  BY <1>1 DEF HistoryGrows
<1>3. /\ DOMAIN init' = Devices /\ \A j \in Devices \ {i} : init'[j] = init[j]
      /\ init'[i].stage \in {"message_4", "ok"}
      /\ Msg4I => init'[i].stage = "message_4"
      /\ init'[i].run = init[i].run
      /\ init'[i].prk_4x3m = g.prk_4x3m /\ init'[i].th4 = g.th4
      /\ {"stage", "run", "prk_4x3m", "th4"} \subseteq DOMAIN init'[i]
  BY <1>1, BoundsAssumption DEF EdhocInv
<1>4. /\ InitiatorInv(i) /\ GenuineMessage2(body)
      /\ \A a \in answered : AnsweredInv(a)
      /\ \A e \in derived : DerivedInv(e)
  BY DEF EdhocInv, GenuineMessage
<1>5. PICK a \in answered :
        /\ a.msg1 = init[i].msg1 /\ a.th2 = v.th2
        /\ a.suite = v.suite /\ a.prk_3e2m = v.PRK_3e2m
  BY <1>1, <1>4, Message2Vouches
<1>6. v.cred_r = R
  BY <1>1, <1>4, Message2Vouches
<1>7. /\ g.prk_4x3m = v.prk_4x3m
      /\ g.th4 = th4_calculate(th3, g.ciphertext)
      /\ g.ciphertext = ciphertext_gen(CIPHERTEXT3, Id(IdOf[i]),
           signature_or_mac(v.suite, static, AuthKey(static, i), "MAC_3",
                            v.prk_4x3m, th3, Id(IdOf[i]), Cred(IdOf[i]),
                            c.ead_3),
           c.ead_3, v.PRK_3e2m, th3)
  BY Message3Fields
<1>8. /\ v.th2 = th2_calculate(init[i].msg1, body.g_y, body.c_r)
      /\ v.prk_4x3m = InitiatorPrk4x3m(i, c.method, v.suite, v.PRK_3e2m,
                                       body.g_y)
  BY Message2ValuesFields
<1>9. init[i].msg1 = msg1_gen(i, init[i].run, c) /\ init[i].run \in Nat
  BY <1>1, <1>4 DEF InitiatorInv
<1> HIDE DEF v, g, th3, key
<1>10. /\ Prk4x3m(key) = g.prk_4x3m /\ Th4(key) = g.th4 /\ Th3(key) = th3
       /\ Th2(key) = v.th2 /\ SentMessage3(key) = g.ciphertext
       /\ th3[3] = body.ciphertext_2
  <2>1. Prk4x3m(key) = g.prk_4x3m /\ Th4(key) = g.th4
    BY SessionKeyParts DEF key
  <2>2. key = SessionKey(g.prk_4x3m, th4_calculate(
                th3_calculate(v.th2, body.ciphertext_2), g.ciphertext))
    BY <1>7 DEF key, th3
  <2>3. /\ Th3(key) = th3_calculate(v.th2, body.ciphertext_2)
        /\ Th2(key) = v.th2 /\ SentMessage3(key) = g.ciphertext
        /\ th3_calculate(v.th2, body.ciphertext_2)[3] = body.ciphertext_2
    BY <2>2, TranscriptParts
  <2> QED BY <2>1, <2>3 DEF th3
<1> DEFINE nd == d
<1>11. /\ nd.run = <<i, init[i].run>> /\ nd.initiator = Id(i)
       /\ nd.responder = Id(R) /\ nd.suite = v.suite /\ nd.method = c.method
       /\ nd.msg1 = init[i].msg1 /\ nd.prk_3e2m = v.PRK_3e2m /\ nd.th2 = v.th2
       /\ nd.key = key
  BY <1>6
<1>12. derived' = derived \cup {nd}
  BY <1>1
<1> HIDE DEF nd
<1>13. /\ nd.run[1] = i /\ nd.run[2] = init[i].run
       /\ nd.msg1.method = c.method /\ nd.msg1.g_x = Ephemeral(i, init[i].run)
  BY <1>9, <1>11 DEF msg1_gen
<1>14. ASSUME NEW e, e = nd PROVE DerivedInv(e)'
  <2> USE <1>14
  <2>1. Agrees(e)'
    BY <1>1, <1>5, <1>11 DEF Agrees
  <2>2. /\ e.run[2] \in Nat /\ e.run[2] <= init'[i].run
        /\ init'[i].stage # "message_2"
    BY <1>3, <1>9, <1>13
  <2>3. /\ e.key = SessionKey(Prk4x3m(e.key), Th4(e.key))
        /\ Th4(e.key) = th4_calculate(Th3(e.key), SentMessage3(e.key))
        /\ Th3(e.key) = th3_calculate(e.th2, Th3(e.key)[3])
    BY <1>7, <1>10, <1>11 DEF key, th3
  <2>4. v.th2[3] = body.g_y
    BY <1>8 DEF th2_calculate
  <2>5. Prk4x3m(e.key) =
          InitiatorPrk4x3m(i, e.method, e.suite, e.prk_3e2m, e.th2[3])
    BY <1>7, <1>8, <1>10, <1>11, <2>4
  <2>6. g.ciphertext.ead = c.ead_3
    BY <1>7, CiphertextFields
  <2> DEFINE st == static_dh_i(e.method)
             ct3 == SentMessage3(e.key)
  <2>7. ct3 = ciphertext_gen(CIPHERTEXT3, Id(IdOf[i]),
                signature_or_mac(e.suite, st, AuthKey(st, i), "MAC_3",
                                 Prk4x3m(e.key), Th3(e.key), Id(IdOf[i]),
                                 Cred(IdOf[i]), ct3.ead),
                ct3.ead, e.prk_3e2m, Th3(e.key))
    BY <1>7, <1>10, <1>11, <2>6
  <2> HIDE DEF st, ct3
  <2> QED
    BY <1>11, <1>13, <2>1, <2>2, <2>3, <2>5, <2>7 DEF DerivedInv, st, ct3
<1>15. \A e \in derived :
         e.run # nd.run /\ (AllKeysFresh => e.key # nd.key)
  <2> SUFFICES ASSUME NEW e \in derived,
                      \/ e.run = nd.run
                      \/ e.key = nd.key /\ AllKeysFresh
               PROVE  FALSE
    OBVIOUS
  <2>1. DerivedInv(e)
    BY <1>4
  <2>2. e.run = nd.run
    <3> SUFFICES ASSUME e.key = nd.key, AllKeysFresh
                 PROVE  e.run = nd.run
      OBVIOUS
    <3>1. PICK x, y : e.th2 = th2_calculate(e.msg1, x, y)
      BY <1>4, <2>1, KeyNamesRun
    <3>2. e.th2 = v.th2
      BY <1>4, <2>1, <1>10, <1>11, KeyNamesRun
    <3>3. th2_calculate(e.msg1, x, y)
            = th2_calculate(init[i].msg1, body.g_y, body.c_r)
      BY <3>1, <3>2, <1>8
    <3>4. e.msg1 = init[i].msg1
      BY <3>3, Th2Injective
    <3>5. Ephemeral(e.run[1], e.run[2]) = Ephemeral(i, init[i].run)
      BY <2>1, <3>4, <1>11, <1>13 DEF DerivedInv
    <3>6. e.run[1] = i /\ e.run[2] = init[i].run
      BY <3>5, NamesInjective, FreshKeysTellRuns
    <3> QED BY <2>1, <3>6, <1>11 DEF DerivedInv
  <2>3. e.run[1] = i /\ e.run[2] = init[i].run
    BY <2>2, <1>13
  <2> QED BY <2>1, <2>3, <1>1 DEF DerivedInv
<1>16. SpentInv' /\ spent'.runs = spent.runs /\ spent.runs \in Nat
  BY <1>1 DEF EdhocInv, SpentInv
<1>17. InitiatorInv(i)'
  <2>1. init[i].run <= spent.runs
    BY <1>4 DEF InitiatorInv
  <2>2. nd.key = SessionKey(init'[i].prk_4x3m, init'[i].th4)
    BY <1>3, <1>11 DEF key
  <2>3. \E e \in derived' : /\ e.run = <<i, init'[i].run>>
                            /\ e.key = SessionKey(init'[i].prk_4x3m, init'[i].th4)
    BY <2>2, <1>3, <1>11, <1>12
  <2> QED BY <1>3, <1>9, <1>16, <2>1, <2>3 DEF InitiatorInv
<1>18. InitiatorAdvances(i)
  BY <1>1, <1>3 DEF InitiatorAdvances
<1>19. \A j \in Devices : InitiatorInv(j)' /\ InitiatorAdvances(j)
  BY <1>2, <1>3, <1>16, <1>17, <1>18, OthersKept
<1>20. ResponderInv' /\ ResponderAdvances
  BY <1>1, <1>2, ResponderKept DEF EdhocInv, ResponderAdvances
<1>21. \A n \in net' : n \in net \/ GenuineMessage(n)'
  <2> SUFFICES ASSUME NEW n, n = Message(i, R, 3, g.ciphertext)
               PROVE  GenuineMessage(n)'
    BY <1>1, ExchangeSends
  <2>1. Delivered(n)'
    BY DEF Delivered, Message
  <2>2. "key" \in DOMAIN g.ciphertext
    <3>1. g.ciphertext = [key |-> g.ciphertext.key,
             id_cred |-> g.ciphertext.id_cred,
             signature_or_mac |-> g.ciphertext.signature_or_mac,
             ead |-> g.ciphertext.ead]
      BY <1>7, CiphertextFields
    <3> QED BY <3>1
  <2>3. n.body = g.ciphertext /\ n.n = 3
    BY DEF Message
  <2>4. GenuineMessage3(n.body)'
    BY <2>2, <2>3, <1>10, <1>11, <1>12 DEF GenuineMessage3
  <2> QED BY <2>1, <2>3, <2>4 DEF GenuineMessage
<1>22. \A e \in derived' : e \in derived \/ DerivedInv(e)'
  <2> SUFFICES ASSUME NEW e, e = nd PROVE DerivedInv(e)'
    BY <1>12
  <2> QED BY <1>14
<1>23. \A e \in derived' \ derived : \A f \in derived' : e.run = f.run => e = f
  BY <1>12, <1>15
<1>24. EdhocInv'
  BY <1>1, <1>2, <1>3, <1>16, <1>19, <1>20, <1>21, <1>22, <1>23, StepKeeps
<1>25. AllKeysFresh => KA!Derive
  BY <1>1, <1>12, <1>15 DEF KA!Derive
<1> QED BY <1>24, <1>25

\* msg4_process returns ok: the responder has accepted the key of the run.
LEMMA InitiatorConfirms ==
  ASSUME EdhocInv, NEW i \in Devices, NEW m \in net, InitiatorMessage4(i, m),
         m.n \in {3, 4},
         Opens(CIPHERTEXT4, init[i].prk_4x3m, init[i].th4, m.body),
         Ead4Decodes(m.body)
  PROVE  EdhocInv' /\ KA!Confirm
<1> DEFINE s == init[i]
           key == SessionKey(s.prk_4x3m, s.th4)
<1>1. /\ s.stage = "message_4" /\ m.to = i
      /\ init' = [init EXCEPT ![i].stage = "ok"]
      /\ Exchange(m, {})
      /\ confirmed' = confirmed \cup {<<i, s.run>>}
      /\ UNCHANGED <<resp, spent, answered, derived, accepted>>
  BY DEF InitiatorMessage4
<1>2. HistoryGrows
  BY <1>1 DEF HistoryGrows
<1>3. InitiatorInv(i) /\ GenuineMessage(m) /\ \A a \in accepted : AcceptedInv(a)
  BY DEF EdhocInv
<1>4. /\ DOMAIN init' = Devices /\ \A j \in Devices \ {i} : init'[j] = init[j]
      /\ init'[i] = [s EXCEPT !.stage = "ok"]
  BY <1>1 DEF EdhocInv
<1>5. /\ init'[i].stage = "ok" /\ init'[i].run = s.run
      /\ init'[i].prk_4x3m = s.prk_4x3m /\ init'[i].th4 = s.th4
      /\ {"stage", "run", "prk_4x3m", "th4"} \subseteq DOMAIN init'[i]
  <2>1. {"stage", "run", "prk_4x3m", "th4"} \subseteq DOMAIN s
    BY <1>1, <1>3 DEF InitiatorInv
  <2> HIDE DEF s
  <2> QED BY <1>4, <2>1
<1>6. PICK d \in derived : d.run = <<i, s.run>> /\ d.key = key
  BY <1>1, <1>3 DEF InitiatorInv
<1>7. PICK a \in accepted : a.key = key
  <2>1. m.n = 4
    BY <1>1, <1>3, DevicesAssumption DEF GenuineMessage, Delivered
  <2>2. m.body.key = okm_calc(s.prk_4x3m, s.th4, CIPHERTEXT4)
    BY DEF Opens, key_gen
  <2>3. PICK a \in accepted :
          m.body.key = okm_calc(Prk4x3m(a.key), Th4(a.key), CIPHERTEXT4)
    BY <1>3, <2>1, <2>2, OkmNotNoise DEF GenuineMessage, GenuineMessage4, key_gen
  <2>4. okm_calc(Prk4x3m(a.key), Th4(a.key), CIPHERTEXT4)
          = okm_calc(s.prk_4x3m, s.th4, CIPHERTEXT4)
    BY <2>2, <2>3
  <2>5. Prk4x3m(a.key) = s.prk_4x3m /\ Th4(a.key) = s.th4
    BY <2>4, OkmInjective
  <2>6. a.key = SessionKey(Prk4x3m(a.key), Th4(a.key))
    BY <1>3 DEF AcceptedInv
  <2> QED BY <2>5, <2>6
<1>8. SpentInv' /\ spent'.runs = spent.runs /\ spent.runs \in Nat
  BY <1>1 DEF EdhocInv, SpentInv
<1>9. InitiatorInv(i)'
  <2>1. s.run \in Nat /\ s.run <= spent.runs
    BY <1>3 DEF InitiatorInv
  <2>2. \E e \in derived' : /\ e.run = <<i, init'[i].run>>
                            /\ e.key = SessionKey(init'[i].prk_4x3m, init'[i].th4)
    BY <1>1, <1>5, <1>6
  <2>3. \E b \in accepted' :
          b.key = SessionKey(init'[i].prk_4x3m, init'[i].th4)
    BY <1>1, <1>5, <1>7
  <2> QED BY <1>5, <1>8, <2>1, <2>2, <2>3 DEF InitiatorInv
<1>10. InitiatorAdvances(i)
  BY <1>5 DEF InitiatorAdvances
<1>11. \A j \in Devices : InitiatorInv(j)' /\ InitiatorAdvances(j)
  BY <1>2, <1>4, <1>8, <1>9, <1>10, OthersKept
<1>12. ResponderInv' /\ ResponderAdvances
  BY <1>1, <1>2, ResponderKept DEF EdhocInv, ResponderAdvances
<1>13. \A n \in net' : n \in net
  BY <1>1, ExchangeSends
<1>14. \A r \in confirmed' : r \in confirmed \/ \E e \in derived' : r = e.run
  BY <1>1, <1>6
<1>15. EdhocInv'
  BY <1>1, <1>2, <1>4, <1>8, <1>11, <1>12, <1>13, <1>14, StepKeeps
<1>16. KA!Confirm
  BY <1>1, <1>6, <1>7 DEF KA!Confirm
<1> QED BY <1>15, <1>16

-----------------------------------------------------------------------------
(* The steps of the responder                                              *)

\* A new run of edhoc_responder_run keeps the invariant.
LEMMA ResponderRunKeeps ==
  ASSUME EdhocInv, ResponderRun
  PROVE  EdhocInv'
<1>1. /\ resp.run < MaxRunsR
      /\ resp' = [stage |-> "message_1", run |-> resp.run + 1,
                  prk_4x3m |-> resp.prk_4x3m, th4 |-> resp.th4]
      /\ UNCHANGED <<init, net, spent, answered, derived, accepted, confirmed>>
  BY DEF ResponderRun
<1>2. HistoryGrows
  BY <1>1 DEF HistoryGrows
<1>3. SpentInv' /\ spent'.runs = spent.runs /\ spent.runs \in Nat
  BY <1>1 DEF EdhocInv, SpentInv
<1>4. ResponderInv' /\ ResponderAdvances
  BY <1>1, BoundsAssumption DEF EdhocInv, ResponderInv, ResponderAdvances
<1>5. /\ DOMAIN init' = Devices
      /\ \A i \in Devices : InitiatorInv(i)' /\ InitiatorAdvances(i)
  BY <1>1, <1>2, <1>3, AllKept
<1> QED BY <1>1, <1>2, <1>3, <1>4, <1>5, StepKeeps

\* The process of the responder ends, and the buffers of its caller with it.
LEMMA ResponderStopsKeeps ==
  ASSUME EdhocInv,
         resp' = [stage |-> "idle", run |-> resp.run, prk_4x3m |-> <<>>,
                  th4 |-> <<>>],
         spent.crashes < MaxCrashes,
         spent' = [spent EXCEPT !.crashes = @ + 1],
         UNCHANGED <<init, net, answered, derived, accepted, confirmed>>
  PROVE  EdhocInv'
<1>1. HistoryGrows
  BY DEF HistoryGrows
<1>2. SpentInv' /\ spent'.runs = spent.runs /\ spent.runs \in Nat
  BY BoundsAssumption DEF EdhocInv, SpentInv
<1>3. ResponderInv' /\ ResponderAdvances
  BY DEF EdhocInv, ResponderInv, ResponderAdvances
<1>4. /\ DOMAIN init' = Devices
      /\ \A i \in Devices : InitiatorInv(i)' /\ InitiatorAdvances(i)
  BY <1>1, <1>2, AllKept
<1> QED BY <1>1, <1>2, <1>3, <1>4, StepKeeps

\* A run of the responder fails with r in place of its state: prk_4x3m may
\* have been written, th4 has not.
LEMMA ResponderFailsKeeps ==
  ASSUME EdhocInv, NEW m, NEW r, ResponderFails(m, r), r.run = resp.run,
         r.th4 = resp.th4, {"stage", "run", "prk_4x3m", "th4"} \subseteq DOMAIN r
  PROVE  EdhocInv'
<1>1. /\ resp' = [r EXCEPT !.stage = "failed"]
      /\ Exchange(m, {})
      /\ UNCHANGED <<init, spent, answered, derived, accepted, confirmed>>
  BY DEF ResponderFails
<1>2. HistoryGrows
  BY <1>1 DEF HistoryGrows
<1>3. SpentInv' /\ spent'.runs = spent.runs /\ spent.runs \in Nat
  BY <1>1 DEF EdhocInv, SpentInv
<1>4. /\ resp'.stage = "failed" /\ resp'.run = resp.run /\ resp'.th4 = resp.th4
      /\ {"stage", "run", "prk_4x3m", "th4"} \subseteq DOMAIN resp'
  BY <1>1
<1>5. ResponderInv' /\ ResponderAdvances
  BY <1>1, <1>4 DEF EdhocInv, ResponderInv, ResponderAdvances
<1>6. /\ DOMAIN init' = Devices
      /\ \A i \in Devices : InitiatorInv(i)' /\ InitiatorAdvances(i)
  BY <1>1, <1>2, <1>3, AllKept
<1>7. \A n \in net' : n \in net
  BY <1>1, ExchangeSends
<1> QED BY <1>1, <1>2, <1>3, <1>5, <1>6, <1>7, StepKeeps

\* msg2_gen returns ok.
LEMMA ResponderAnswers ==
  ASSUME EdhocInv, NEW m \in net, ResponderMessage1(m), m.n = 1,
         AcceptsMessage1(m.body)
  PROVE  EdhocInv'
<1> DEFINE g == Message2(m.body, resp.run)
           a == [run |-> resp.run, suite |-> g.suite, msg1 |-> m.body,
                 prk_3e2m |-> g.PRK_3e2m, th2 |-> g.th2]
<1>1. /\ m.to = R /\ resp.stage = "message_1"
      /\ resp' = [stage |-> "message_3", run |-> resp.run,
                  prk_4x3m |-> resp.prk_4x3m, th4 |-> resp.th4,
                  method |-> m.body.method, suite |-> g.suite,
                  PRK_3e2m |-> g.PRK_3e2m, th3 |-> g.th3]
      /\ Exchange(m, {Message(R, m.from, 2, g.msg2)})
      /\ answered' = answered \cup {a}
      /\ UNCHANGED <<init, spent, derived, accepted, confirmed>>
  BY DEF ResponderMessage1
<1>2. HistoryGrows
  BY <1>1 DEF HistoryGrows
<1>3. SpentInv' /\ spent'.runs = spent.runs /\ spent.runs \in Nat
  BY <1>1 DEF EdhocInv, SpentInv
<1>4. /\ DOMAIN init' = Devices
      /\ \A i \in Devices : InitiatorInv(i)' /\ InitiatorAdvances(i)
  BY <1>1, <1>2, <1>3, AllKept
<1>5. ASSUME NEW b, b = a
      PROVE  /\ b.run = resp.run /\ b.msg1 = m.body /\ b.suite = g.suite
             /\ b.prk_3e2m = g.PRK_3e2m /\ b.th2 = g.th2
             /\ Message2(b.msg1, b.run) = g
  BY <1>5
<1> HIDE DEF g
<1>6. \A b \in answered' : b \in answered \/ AnsweredInv(b)'
  <2> SUFFICES ASSUME NEW b, b = a PROVE AnsweredInv(b)'
    BY <1>1
  <2> QED BY <1>5 DEF AnsweredInv
<1>7. ResponderInv' /\ ResponderAdvances
  <2>1. PICK b \in answered' : b = a
    BY <1>1
  <2>2. resp'.run \in 0 .. MaxRunsR
        /\ (resp.th4 = <<>> \/ \E c \in accepted : Th4(c.key) = resp.th4)
    BY <1>1 DEF EdhocInv, ResponderInv
  <2>3. /\ b.run = resp'.run /\ resp'.method = b.msg1.method
        /\ resp'.suite = Message2(b.msg1, b.run).suite
        /\ resp'.PRK_3e2m = Message2(b.msg1, b.run).PRK_3e2m
        /\ resp'.th3 = Message2(b.msg1, b.run).th3
    BY <1>1, <1>5, <2>1
  <2>4. /\ resp'.stage = "message_3" /\ resp'.run = resp.run
        /\ resp'.th4 = resp.th4
        /\ {"stage", "run", "prk_4x3m", "th4"} \subseteq DOMAIN resp'
    BY <1>1
  <2>5. ResponderInv'
    BY <1>1, <2>2, <2>3, <2>4 DEF ResponderInv
  <2>6. ResponderAdvances
    BY <1>1, <2>4 DEF ResponderAdvances
  <2> QED BY <2>5, <2>6
<1>8. \A n \in net' : n \in net \/ GenuineMessage(n)'
  <2> SUFFICES ASSUME NEW n, n = Message(R, m.from, 2, g.msg2)
               PROVE  GenuineMessage(n)'
    BY <1>1, ExchangeSends
  <2>1. m.from \in Devices
    BY <1>1, DevicesAssumption DEF EdhocInv, GenuineMessage, Delivered
  <2>2. Delivered(n)' /\ n.n = 2 /\ n.body = g.msg2
    BY <2>1 DEF Delivered, Message
  <2> DEFINE ct == g.msg2.ciphertext_2
  <2>3. g.msg2 = [g_y |-> Ephemeral(R, resp.run), c_r |-> C_x(R),
                  ciphertext_2 |-> ct]
    BY Message2Shape DEF g
  <2>4. ct = [key |-> ct.key, id_cred |-> ct.id_cred,
              signature_or_mac |-> ct.signature_or_mac, ead |-> ct.ead]
    BY Message2Shape DEF g
  <2>5. PICK b \in answered' : b = a
    BY <1>1
  <2>6. Message2(b.msg1, b.run).msg2.ciphertext_2 = ct
    BY <1>5, <2>5
  <2> HIDE DEF ct
  <2>7. /\ n.body = [g_y |-> n.body.g_y, c_r |-> n.body.c_r, ciphertext_2 |-> ct]
        /\ n.body.ciphertext_2 = ct
    BY <2>2, <2>3
  <2>8. GenuineMessage2(n.body)'
    BY <2>4, <2>6, <2>7 DEF GenuineMessage2
  <2> QED BY <2>2, <2>8 DEF GenuineMessage
<1> QED BY <1>1, <1>2, <1>3, <1>4, <1>6, <1>7, <1>8, StepKeeps

\* msg3_process returns ok: the responder accepts, for the first time, a key
\* that an initiator has derived.
LEMMA ResponderAccepts ==
  ASSUME EdhocInv, NEW m \in net, ResponderMessage3(m), OpensMessage3(m),
         LET cred_i == m.body.id_cred[2]
             static == static_dh_i(resp.method)
         IN  Verifies(resp.suite, static, AuthKey(static, cred_i), "MAC_3",
                      WithPrk4x3m(m.body).prk_4x3m, resp.th3,
                      plaintext_split(m.body), Cred(cred_i))
  PROVE  EdhocInv' /\ (AllKeysFresh => KA!Accept)
<1> DEFINE w == WithPrk4x3m(m.body)
           th4 == th4_calculate(resp.th3, m.body)
           after == AfterMessage3(m.body, TRUE)
           a == [run |-> resp.run, initiator |-> m.body.id_cred,
                 method |-> resp.method, suite |-> resp.suite,
                 key |-> SessionKey(after.prk_4x3m, after.th4)]
           answer == Message(R, m.from, 4,
                       ciphertext_gen(CIPHERTEXT4, <<>>, <<>>, Ead4,
                                      after.prk_4x3m, after.th4))
<1>1. /\ resp.stage = "message_3" /\ m.to = R
      /\ resp' = [after EXCEPT !.stage = "ok"]
      /\ accepted' = accepted \cup {a}
      /\ Exchange(m, IF Msg4R THEN {answer} ELSE {})
      /\ UNCHANGED <<init, spent, answered, derived, confirmed>>
  BY DEF ResponderMessage3, AfterMessage3
<1>2. HistoryGrows
  BY <1>1 DEF HistoryGrows
<1>3. SpentInv' /\ spent'.runs = spent.runs /\ spent.runs \in Nat
  BY <1>1 DEF EdhocInv, SpentInv
<1>4. /\ DOMAIN init' = Devices
      /\ \A i \in Devices : InitiatorInv(i)' /\ InitiatorAdvances(i)
  BY <1>1, <1>2, <1>3, AllKept
<1>5. /\ ResponderInv /\ GenuineMessage(m)
      /\ \A b \in answered : AnsweredInv(b)
      /\ \A d \in derived : DerivedInv(d)
      /\ \A b \in accepted : AcceptedInv(b)
  BY DEF EdhocInv
<1>6. m.n = 3 /\ m.from \in Devices
  BY <1>1, <1>5, DevicesAssumption DEF OpensMessage3, GenuineMessage, Delivered
<1>7. /\ after.prk_4x3m = w.prk_4x3m /\ after.th4 = th4
      /\ after.run = resp.run
      /\ {"stage", "run", "prk_4x3m", "th4"} \subseteq DOMAIN after
  BY <1>5 DEF AfterMessage3, WithPrk4x3m, ResponderInv
<1>8. PICK d \in derived :
        /\ d.key = SessionKey(w.prk_4x3m, th4)
        /\ d.initiator = m.body.id_cred
        /\ d.method = resp.method /\ d.suite = resp.suite
        /\ Th2(d.key)[3] = Ephemeral(R, resp.run)
  BY <1>1, <1>5, <1>6, Message3Vouches DEF GenuineMessage
<1> HIDE DEF w, th4, after
<1>9. ASSUME NEW b, b = a
      PROVE  /\ b.run = resp.run /\ KA!Terms(d) = KA!Terms(b)
             /\ b.key = d.key /\ Th2(b.key)[3] = Ephemeral(R, resp.run)
             /\ b.key = SessionKey(after.prk_4x3m, after.th4)
             /\ Prk4x3m(b.key) = after.prk_4x3m /\ Th4(b.key) = after.th4
  <2>1. /\ b.run = resp.run /\ b.initiator = m.body.id_cred
        /\ b.method = resp.method /\ b.suite = resp.suite
        /\ b.key = SessionKey(after.prk_4x3m, after.th4)
    BY <1>9
  <2>2. b.key = d.key
    BY <1>7, <1>8, <2>1
  <2>3. KA!Terms(d) = KA!Terms(b)
    BY <1>8, <2>1, <2>2 DEF KA!Terms
  <2>4. /\ Prk4x3m(SessionKey(after.prk_4x3m, after.th4)) = after.prk_4x3m
        /\ Th4(SessionKey(after.prk_4x3m, after.th4)) = after.th4
    BY SessionKeyParts
  <2> QED BY <1>8, <2>1, <2>2, <2>3, <2>4
<1>10. /\ resp'.stage = "ok" /\ resp'.run = resp.run
       /\ resp'.th4 = after.th4
       /\ {"stage", "run", "prk_4x3m", "th4"} \subseteq DOMAIN resp'
  BY <1>1, <1>7
<1>11. PICK na \in accepted' : na = a
  BY <1>1
<1>12. ResponderInv' /\ ResponderAdvances
  <2>1. Th4(na.key) = resp'.th4
    BY <1>9, <1>10, <1>11
  <2>2. resp'.run \in 0 .. MaxRunsR
    BY <1>5, <1>10 DEF ResponderInv
  <2>3. ResponderInv'
    BY <1>10, <2>1, <2>2 DEF ResponderInv
  <2> QED BY <2>3, <1>10 DEF ResponderAdvances
<1>13. \A b \in accepted :
         b.run # na.run /\ (AllKeysFresh => b.key # na.key)
  <2> SUFFICES ASSUME NEW b \in accepted,
                      \/ b.run = na.run
                      \/ b.key = na.key /\ AllKeysFresh
               PROVE  FALSE
    OBVIOUS
  <2>1. /\ b.run = resp.run => resp.stage # "message_3"
        /\ Th2(b.key)[3] = Ephemeral(R, b.run)
    BY <1>5 DEF AcceptedInv
  <2>2. na.run = resp.run /\ Th2(na.key)[3] = Ephemeral(R, resp.run)
    BY <1>9, <1>11
  <2>3. b.key = na.key => Ephemeral(R, b.run) = Ephemeral(R, resp.run)
    BY <2>1, <2>2
  <2>4. b.run = resp.run
    BY <2>2, <2>3, FreshKeysTellRuns
  <2> QED BY <1>1, <2>1, <2>4
<1>14. \A b \in accepted' : b \in accepted \/ AcceptedInv(b)'
  <2> SUFFICES ASSUME NEW b, b = a PROVE AcceptedInv(b)'
    BY <1>1
  <2>1. /\ b.run \in Nat /\ b.run <= resp'.run
        /\ resp'.stage \notin {"message_1", "message_3"}
    BY <1>5, <1>9, <1>10 DEF ResponderInv
  <2>2. Th4(b.key) # <<>>
    <3>1. th4 # <<>>
      BY DEF th4, th4_calculate
    <3> QED BY <1>7, <1>9, <3>1
  <2>3. /\ b.key = SessionKey(Prk4x3m(b.key), Th4(b.key))
        /\ Th2(b.key)[3] = Ephemeral(R, b.run)
    BY <1>9
  <2>4. \E e \in derived' : KA!Terms(e) = KA!Terms(b)
    BY <1>1, <1>9
  <2> QED BY <2>1, <2>2, <2>3, <2>4 DEF AcceptedInv, KA!Terms
<1>15. \A n \in net' : n \in net \/ GenuineMessage(n)'
  <2> SUFFICES ASSUME NEW n, n = answer PROVE GenuineMessage(n)'
    BY <1>1, ExchangeSends
  <2> DEFINE ct == ciphertext_gen(CIPHERTEXT4, <<>>, <<>>, Ead4,
                                  after.prk_4x3m, after.th4)
  <2>1. Delivered(n)' /\ n.n = 4 /\ n.body = ct
    BY <1>6 DEF Delivered, Message
  <2>2. "key" \in DOMAIN ct
        /\ ct.key = key_gen(CIPHERTEXT4, after.prk_4x3m, after.th4)
    BY DEF ciphertext_gen
  <2>3. ct.key = key_gen(CIPHERTEXT4, Prk4x3m(na.key), Th4(na.key))
    BY <1>9, <1>11, <2>2
  <2> HIDE DEF ct
  <2>4. GenuineMessage4(n.body)'
    BY <2>1, <2>2, <2>3 DEF GenuineMessage4
  <2> QED BY <2>1, <2>4 DEF GenuineMessage
<1>16. EdhocInv'
  BY <1>1, <1>2, <1>3, <1>4, <1>12, <1>14, <1>15, StepKeeps
<1>17. AllKeysFresh => KA!Accept
  <2>1. accepted' = accepted \cup {na}
    BY <1>1, <1>11
  <2>2. KA!Terms(d) = KA!Terms(na)
    BY <1>9, <1>11
  <2> QED BY <1>1, <1>13, <2>1, <2>2 DEF KA!Accept
<1> QED BY <1>16, <1>17

-----------------------------------------------------------------------------
(* The steps of the network                                                *)

\* Damage leaves the key stream of a message 2 as it was, and its MAC or
\* signature, unless that becomes noise; a damaged message 3 or 4 never opens.
LEMMA NetworkDamageKeeps ==
  ASSUME EdhocInv, NEW m \in net, NetworkDamage(m)
  PROVE  EdhocInv'
<1>1. PICK body \in DamagedBodies(m) : net' = net \cup {[m EXCEPT !.body = body]}
  BY DEF NetworkDamage
<1>2. /\ spent.damaged < MaxDamaged
      /\ spent' = [spent EXCEPT !.damaged = @ + 1]
      /\ UNCHANGED <<init, resp, answered, derived, accepted, confirmed>>
  BY DEF NetworkDamage
<1>3. HistoryGrows
  BY <1>2 DEF HistoryGrows
<1>4. SpentInv' /\ spent'.runs = spent.runs /\ spent.runs \in Nat
  BY <1>2, BoundsAssumption DEF EdhocInv, SpentInv
<1>5. /\ DOMAIN init' = Devices
      /\ \A i \in Devices : InitiatorInv(i)' /\ InitiatorAdvances(i)
  BY <1>2, <1>3, <1>4, AllKept
<1>6. ResponderInv' /\ ResponderAdvances
  BY <1>2, <1>3, ResponderKept DEF EdhocInv, ResponderAdvances
<1>7. GenuineMessage(m)
  BY DEF EdhocInv
<1> DEFINE n == [m EXCEPT !.body = body]
<1>8. /\ n = Message(m.from, m.to, m.n, body)
      /\ n.n = m.n /\ n.body = body /\ n.from = m.from /\ n.to = m.to
  <2>1. m = [from |-> m.from, to |-> m.to, n |-> m.n, body |-> m.body]
    BY <1>7 DEF GenuineMessage, Delivered, Message
  <2> QED BY <2>1 DEF Message
<1>9. m.n = 2 => GenuineMessage2(body)
  <2> SUFFICES ASSUME m.n = 2 PROVE GenuineMessage2(body)
    OBVIOUS
  <2> DEFINE b == m.body
             ct == b.ciphertext_2
  <2>1. GenuineMessage2(b)
    BY <1>7 DEF GenuineMessage
  <2>2. /\ b = [g_y |-> b.g_y, c_r |-> b.c_r, ciphertext_2 |-> ct]
        /\ ct = [key |-> ct.key, id_cred |-> ct.id_cred,
                 signature_or_mac |-> ct.signature_or_mac, ead |-> ct.ead]
    BY <2>1 DEF GenuineMessage2
  <2>3. PICK a \in answered :
          LET answer == Message2(a.msg1, a.run).msg2.ciphertext_2
          IN  /\ ct.key = answer.key
              /\ ct.signature_or_mac \in {Noise, answer.signature_or_mac}
    BY <2>1 DEF GenuineMessage2
  <2>4. \/ body = [b EXCEPT !.g_y = Noise]
        \/ body = [b EXCEPT !.c_r = Noise]
        \/ body = [b EXCEPT !.ciphertext_2.signature_or_mac = Noise]
        \/ body = [b EXCEPT !.ciphertext_2.ead = Noise]
        \/ \E d \in KnownR : body = [b EXCEPT !.ciphertext_2.id_cred = Id(d)]
    BY DEF DamagedBodies
  <2> HIDE DEF b, ct
  <2> DEFINE ct1 == body.ciphertext_2
  <2>5. /\ body = [g_y |-> body.g_y, c_r |-> body.c_r, ciphertext_2 |-> ct1]
        /\ ct1 = [key |-> ct1.key, id_cred |-> ct1.id_cred,
                  signature_or_mac |-> ct1.signature_or_mac, ead |-> ct1.ead]
        /\ ct1.key = ct.key
        /\ ct1.signature_or_mac \in {Noise, ct.signature_or_mac}
    <3>1. CASE body = [b EXCEPT !.g_y = Noise]
      BY <2>2, <3>1 DEF ct
    <3>2. CASE body = [b EXCEPT !.c_r = Noise]
      BY <2>2, <3>2 DEF ct
    <3>3. CASE body = [b EXCEPT !.ciphertext_2.signature_or_mac = Noise]
      BY <2>2, <3>3 DEF ct
    <3>4. CASE body = [b EXCEPT !.ciphertext_2.ead = Noise]
      BY <2>2, <3>4 DEF ct
    <3>5. ASSUME NEW d \in KnownR,
                 body = [b EXCEPT !.ciphertext_2.id_cred = Id(d)]
          PROVE  /\ body = [g_y |-> body.g_y, c_r |-> body.c_r,
                            ciphertext_2 |-> ct1]
                 /\ ct1 = [key |-> ct1.key, id_cred |-> ct1.id_cred,
                           signature_or_mac |-> ct1.signature_or_mac,
                           ead |-> ct1.ead]
                 /\ ct1.key = ct.key
                 /\ ct1.signature_or_mac \in {Noise, ct.signature_or_mac}
      BY <2>2, <3>5 DEF ct
    <3> QED BY <2>4, <3>1, <3>2, <3>3, <3>4, <3>5
  <2> QED BY <2>3, <2>5 DEF GenuineMessage2
<1>10. m.n \in {3, 4} => "key" \in DOMAIN body /\ body.key = Noise
  <2> SUFFICES ASSUME m.n \in {3, 4}
               PROVE  "key" \in DOMAIN body /\ body.key = Noise
    OBVIOUS
  <2>1. "key" \in DOMAIN m.body
    BY <1>7 DEF GenuineMessage, GenuineMessage3, GenuineMessage4
  <2>2. body = [m.body EXCEPT !.key = Noise]
    BY DEF DamagedBodies
  <2> QED BY <2>1, <2>2
<1> HIDE DEF n
<1>11. \A k \in net' : k \in net \/ GenuineMessage(k)'
  <2> SUFFICES ASSUME NEW k, k = n PROVE GenuineMessage(k)'
    BY <1>1 DEF n
  <2>1. GenuineMessage(k)
    <3>1. Delivered(k)
      BY <1>7, <1>8 DEF GenuineMessage, Delivered
    <3>2. k.n = 2 => GenuineMessage2(k.body)
      BY <1>8, <1>9
    <3>3. k.n = 3 => GenuineMessage3(k.body)
      BY <1>8, <1>10 DEF GenuineMessage3
    <3>4. k.n = 4 => GenuineMessage4(k.body)
      BY <1>8, <1>10 DEF GenuineMessage4
    <3> QED BY <3>1, <3>2, <3>3, <3>4 DEF GenuineMessage
  <2> QED BY <1>3, <2>1, MessageKept
<1> QED BY <1>2, <1>3, <1>4, <1>5, <1>6, <1>11, StepKeeps

-----------------------------------------------------------------------------
(* Every step keeps the invariant, and is a step or a stutter of the        *)
(* abstract key agreement                                                   *)

\* With ephemeral keys that are generated for each run.
AbstractStep ==
  AllKeysFresh =>
    KA!Next \/ UNCHANGED <<derived, accepted, confirmed>>

\* A message at an initiator keeps the invariant, and is a step of KeyAgreement.
LEMMA InitiatorStep ==
  ASSUME EdhocInv, NEW i \in Devices, InitiatorReceives(i)
  PROVE  EdhocInv' /\ AbstractStep
<1>1. PICK m \in net : InitiatorMessage2(i, m) \/ InitiatorMessage4(i, m)
  BY DEF InitiatorReceives
<1>2. CASE InitiatorFails(i, m)
  <2>1. UNCHANGED <<derived, accepted, confirmed>>
    BY <1>2 DEF InitiatorFails
  <2> QED BY <1>2, <2>1, InitiatorFailsKeeps DEF AbstractStep
<1>3. CASE InitiatorMessage2(i, m) /\ ~InitiatorFails(i, m)
  <2>1. m.n = 2 /\ AcceptsMessage2(i, m.body)
    BY <1>3 DEF InitiatorMessage2
  <2> QED BY <1>3, <2>1, InitiatorDerives DEF AbstractStep, KA!Next
<1>4. CASE InitiatorMessage4(i, m) /\ ~InitiatorFails(i, m)
  <2>1. /\ m.n \in {3, 4}
        /\ Opens(CIPHERTEXT4, init[i].prk_4x3m, init[i].th4, m.body)
        /\ Ead4Decodes(m.body)
    BY <1>4 DEF InitiatorMessage4
  <2> QED BY <1>4, <2>1, InitiatorConfirms DEF AbstractStep, KA!Next
<1> QED BY <1>1, <1>2, <1>3, <1>4

\* A step of the responder keeps the invariant, and is one of KeyAgreement.
LEMMA ResponderStepKeeps ==
  ASSUME EdhocInv, ResponderStep
  PROVE  EdhocInv' /\ AbstractStep
<1>1. CASE ResponderRun
  <2>1. UNCHANGED <<derived, accepted, confirmed>>
    BY <1>1 DEF ResponderRun
  <2> QED BY <1>1, <2>1, ResponderRunKeeps DEF AbstractStep
<1>2. ASSUME NEW m \in net, ResponderMessage1(m)
      PROVE  EdhocInv' /\ AbstractStep
  <2>1. CASE m.n = 1 /\ AcceptsMessage1(m.body)
    <3>1. UNCHANGED <<derived, accepted, confirmed>>
      BY <1>2, <2>1 DEF ResponderMessage1
    <3> QED BY <1>2, <2>1, <3>1, ResponderAnswers DEF AbstractStep
  <2>2. CASE ~(m.n = 1 /\ AcceptsMessage1(m.body))
    <3>1. ResponderFails(m, resp)
      BY <1>2, <2>2 DEF ResponderMessage1
    <3>2. {"stage", "run", "prk_4x3m", "th4"} \subseteq DOMAIN resp
      BY DEF EdhocInv, ResponderInv
    <3>3. UNCHANGED <<derived, accepted, confirmed>>
      BY <3>1 DEF ResponderFails
    <3> QED BY <3>1, <3>2, <3>3, ResponderFailsKeeps DEF AbstractStep
  <2> QED BY <2>1, <2>2
<1>3. ASSUME NEW m \in net, ResponderMessage3(m)
      PROVE  EdhocInv' /\ AbstractStep
  <2> DEFINE cred_i == m.body.id_cred[2]
             static == static_dh_i(resp.method)
             verified == Verifies(resp.suite, static, AuthKey(static, cred_i),
                           "MAC_3", WithPrk4x3m(m.body).prk_4x3m, resp.th3,
                           plaintext_split(m.body), Cred(cred_i))
  <2>1. CASE OpensMessage3(m) /\ verified
    BY <1>3, <2>1, ResponderAccepts DEF AbstractStep, KA!Next
  <2>2. CASE ~(OpensMessage3(m) /\ verified)
    <3>1. \/ ResponderFails(m, AfterMessage3(m.body, verified)) /\ ~verified
          \/ ResponderFails(m, resp)
      BY <1>3, <2>2 DEF ResponderMessage3
    <3> HIDE DEF verified
    <3>2. PICK r : /\ ResponderFails(m, r)
                   /\ r = [WithPrk4x3m(m.body) EXCEPT !.th4 = @] \/ r = resp
      BY <3>1 DEF AfterMessage3
    <3>3. {"stage", "run", "prk_4x3m", "th4"} \subseteq DOMAIN resp
      BY DEF EdhocInv, ResponderInv
    <3>4. /\ r.run = resp.run
          /\ {"stage", "run", "prk_4x3m", "th4"} \subseteq DOMAIN r
          /\ r.th4 = resp.th4
      BY <3>2, <3>3 DEF WithPrk4x3m
    <3>5. UNCHANGED <<derived, accepted, confirmed>>
      BY <3>2 DEF ResponderFails
    <3> QED BY <3>2, <3>4, <3>5, ResponderFailsKeeps DEF AbstractStep
  <2> QED BY <2>1, <2>2
<1> QED BY <1>1, <1>2, <1>3 DEF ResponderStep

\* Every step keeps the invariant, and is a step or a stutter of KeyAgreement.
LEMMA NextKeeps ==
  ASSUME EdhocInv, [Next]_vars
  PROVE  EdhocInv' /\ AbstractStep
<1>1. ASSUME NEW i \in Devices, NEW c \in Configs, InitiatorRun(i, c)
      PROVE  EdhocInv' /\ AbstractStep
  <2>1. UNCHANGED <<derived, accepted, confirmed>>
    BY <1>1 DEF InitiatorRun
  <2> QED BY <1>1, <2>1, InitiatorRunKeeps DEF AbstractStep
<1>2. ASSUME NEW i \in Devices, InitiatorCrash(i)
      PROVE  EdhocInv' /\ AbstractStep
  <2>1. /\ init' = [init EXCEPT ![i] = [stage |-> "idle", run |-> @.run]]
        /\ spent.crashes < MaxCrashes
        /\ spent' = [spent EXCEPT !.crashes = @ + 1]
        /\ UNCHANGED <<resp, net, answered, derived, accepted, confirmed>>
    BY <1>2 DEF InitiatorCrash
  <2> QED BY <2>1, InitiatorStopsKeeps DEF AbstractStep
<1>3. CASE ResponderCrash
  <2>1. /\ resp' = [stage |-> "idle", run |-> resp.run, prk_4x3m |-> <<>>,
                    th4 |-> <<>>]
        /\ spent.crashes < MaxCrashes
        /\ spent' = [spent EXCEPT !.crashes = @ + 1]
        /\ UNCHANGED <<init, net, answered, derived, accepted, confirmed>>
    BY <1>3 DEF ResponderCrash
  <2> QED BY <2>1, ResponderStopsKeeps DEF AbstractStep
<1>4. ASSUME NEW m \in net, NetworkDamage(m)
      PROVE  EdhocInv' /\ AbstractStep
  <2>1. UNCHANGED <<derived, accepted, confirmed>>
    BY <1>4 DEF NetworkDamage
  <2> QED BY <1>4, <2>1, NetworkDamageKeeps DEF AbstractStep
<1>5. CASE UNCHANGED vars
  <2>1. HistoryGrows /\ UNCHANGED <<derived, accepted, confirmed>>
    BY <1>5 DEF HistoryGrows, vars
  <2>2. SpentInv' /\ spent'.runs = spent.runs /\ spent.runs \in Nat
    BY <1>5 DEF EdhocInv, SpentInv, vars
  <2>3. /\ DOMAIN init' = Devices
        /\ \A i \in Devices : InitiatorInv(i)' /\ InitiatorAdvances(i)
    BY <1>5, <2>1, <2>2, AllKept DEF vars
  <2>4. ResponderInv' /\ ResponderAdvances
    BY <1>5, <2>1, ResponderKept DEF EdhocInv, ResponderAdvances, vars
  <2> QED BY <1>5, <2>1, <2>2, <2>3, <2>4, StepKeeps DEF vars, AbstractStep
<1> QED
  BY <1>1, <1>2, <1>3, <1>4, <1>5, InitiatorStep, ResponderStepKeeps
  DEF Next, Crash

\* Nothing has been sent at first.
LEMMA InitEdhocInv == Init => EdhocInv
<1> SUFFICES ASSUME Init PROVE EdhocInv
  OBVIOUS
<1>1. DOMAIN init = Devices /\ \A i \in Devices : InitiatorInv(i)
  BY BoundsAssumption DEF Init, InitiatorInv
<1>2. ResponderInv /\ SpentInv
  BY BoundsAssumption DEF Init, ResponderInv, SpentInv
<1> QED BY <1>1, <1>2 DEF Init, EdhocInv

\* Every reachable state satisfies the inductive invariant.
THEOREM EdhocInvariant == Spec => []EdhocInv
<1>1. EdhocInv /\ [Next]_vars => EdhocInv'
  BY NextKeeps
<1> QED BY InitEdhocInv, <1>1, PTL DEF Spec

-----------------------------------------------------------------------------
(* What follows                                                            *)

\* The stages, counters and messages have their types in every reachable state.
THEOREM EdhocTypeOK == Spec => []TypeOK
<1>1. EdhocInv => TypeOK
  <2> SUFFICES ASSUME EdhocInv PROVE TypeOK
    OBVIOUS
  <2>1. \A i \in Devices :
          /\ init[i].stage \in {"idle", "message_2", "message_4", "ok", "failed"}
          /\ init[i].run \in 0 .. MaxRunsI
    <3> SUFFICES ASSUME NEW i \in Devices
                 PROVE  /\ init[i].stage \in {"idle", "message_2", "message_4",
                                              "ok", "failed"}
                        /\ init[i].run \in 0 .. MaxRunsI
      OBVIOUS
    <3>1. InitiatorInv(i) /\ SpentInv
      BY DEF EdhocInv
    <3>2. init[i].run \in Nat /\ init[i].run <= spent.runs
      BY <3>1 DEF InitiatorInv
    <3>3. spent.runs \in 0 .. MaxRunsI
      BY <3>1 DEF SpentInv
    <3> QED BY <3>1, <3>2, <3>3, BoundsAssumption DEF InitiatorInv
  <2>2. /\ resp.stage \in {"idle", "message_1", "message_3", "ok", "failed"}
        /\ resp.run \in 0 .. MaxRunsR
    BY DEF EdhocInv, ResponderInv
  <2>3. \A m \in net : /\ m.n \in 1 .. 4
                       /\ m.from = R <=> m.to \in Devices
                       /\ m.from = R <=> m.n \in {2, 4}
    BY DevicesAssumption DEF EdhocInv, GenuineMessage, Delivered
  <2>4. /\ spent.runs \in 0 .. MaxRunsI
        /\ spent.crashes \in 0 .. MaxCrashes
        /\ spent.damaged \in 0 .. MaxDamaged
    BY DEF EdhocInv, SpentInv
  <2> QED BY <2>1, <2>2, <2>3, <2>4 DEF TypeOK, EdhocInv
<1> QED BY <1>1, EdhocInvariant, PTL

\* A run of edhoc_initiator_run that derives its key is in one session with the
\* responder, which answered this very message 1, whatever the network did.
THEOREM InitiatorAgreementTheorem == Spec => []InitiatorAgreement
<1>1. EdhocInv => InitiatorAgreement
  BY DEF EdhocInv, DerivedInv, Agrees, InitiatorAgreement
<1> QED BY <1>1, EdhocInvariant, PTL

\* th4 in the buffer of edhoc_responder_run's caller is of an accepted key, so
\* a failed run cannot leave a key there that only the initiator holds.
THEOREM FailedRunLeavesNoKeyTheorem == Spec => []FailedRunLeavesNoKey
<1>1. EdhocInv => FailedRunLeavesNoKey
  <2> SUFFICES ASSUME EdhocInv, NEW d \in derived,
                      d.key = SessionKey(resp.prk_4x3m, resp.th4)
               PROVE  \E a \in accepted : a.key = d.key
    BY DEF FailedRunLeavesNoKey
  <2>1. /\ DerivedInv(d)
        /\ \A a \in answered : AnsweredInv(a)
        /\ \A a \in accepted : AcceptedInv(a)
        /\ resp.th4 = <<>> \/ \E a \in accepted : Th4(a.key) = resp.th4
    BY DEF EdhocInv, ResponderInv
  <2>2. Th4(d.key) = resp.th4
    BY SessionKeyParts
  <2>3. Th4(d.key) # <<>>
    <3>1. \A x, y : th4_calculate(x, y) # <<>>
      BY DEF th4_calculate
    <3> QED BY <2>1, <3>1 DEF DerivedInv
  <2>4. PICK a \in accepted : Th4(a.key) = Th4(d.key)
    BY <2>1, <2>2, <2>3
  <2>5. PICK e \in derived : KA!Terms(e) = KA!Terms(a)
    BY <2>1 DEF AcceptedInv
  <2>6. e.key = a.key
    BY <2>5 DEF KA!Terms
  <2>7. DerivedInv(e)
    BY DEF EdhocInv
  <2>8. Th2(e.key) = Th2(d.key)
    BY <2>4, <2>6 DEF Th2, Th3
  <2>9. e.th2 = d.th2
    <3>1. Th2(e.key) = e.th2
      BY <2>1, <2>7, KeyNamesRun
    <3>2. Th2(d.key) = d.th2
      BY <2>1, KeyNamesRun
    <3> QED BY <2>8, <3>1, <3>2
  <2>10. e.key = d.key
    BY <2>1, <2>4, <2>6, <2>7, <2>9, TranscriptNamesKey
  <2> QED BY <2>6, <2>10
<1> QED BY <1>1, EdhocInvariant, PTL

-----------------------------------------------------------------------------
(* The abstract key agreement                                              *)

\* A key belongs to one run on each side, and both sides of it agree.
AgreementInv ==
  /\ \A d, e \in derived : d.key = e.key => d = e
  /\ \A a, b \in accepted : a.key = b.key => a = b
  /\ \A a \in accepted : \E d \in derived : KA!Terms(d) = KA!Terms(a)
  /\ KA!ConfirmedByPeer

\* Derive, Accept and Confirm keep the invariant: a key is new when it is
\* derived and when it is accepted, so the run that is confirmed is the one
\* whose terms the responder accepted.
LEMMA AgreementStep ==
  ASSUME AgreementInv, [KA!Next]_KA!kaVars
  PROVE  AgreementInv'
<1>1. CASE KA!Derive
  <2>1. PICK d \in derived' :
          /\ derived' = derived \cup {d}
          /\ \A e \in derived : e.run # d.run /\ e.key # d.key
          /\ UNCHANGED <<accepted, confirmed>>
    BY <1>1 DEF KA!Derive
  <2>2. (\A c, e \in derived : c.key = e.key => c = e)'
    BY <2>1 DEF AgreementInv
  <2>3. (\A a, b \in accepted : a.key = b.key => a = b)'
    BY <2>1 DEF AgreementInv
  <2>4. (\A a \in accepted : \E e \in derived : KA!Terms(e) = KA!Terms(a))'
    BY <2>1 DEF AgreementInv, KA!Terms
  <2>5. KA!ConfirmedByPeer'
    BY <2>1 DEF AgreementInv, KA!ConfirmedByPeer, KA!Terms
  <2> QED BY <2>2, <2>3, <2>4, <2>5 DEF AgreementInv
<1>2. CASE KA!Accept
  <2>1. PICK a \in accepted' :
          /\ accepted' = accepted \cup {a}
          /\ \A b \in accepted : b.run # a.run /\ b.key # a.key
          /\ \E d \in derived : KA!Terms(d) = KA!Terms(a)
          /\ UNCHANGED <<derived, confirmed>>
    BY <1>2 DEF KA!Accept
  <2>2. (\A c, e \in derived : c.key = e.key => c = e)'
    BY <2>1 DEF AgreementInv
  <2>3. (\A b, c \in accepted : b.key = c.key => b = c)'
    BY <2>1 DEF AgreementInv
  <2>4. (\A b \in accepted : \E e \in derived : KA!Terms(e) = KA!Terms(b))'
    BY <2>1 DEF AgreementInv, KA!Terms
  <2>5. KA!ConfirmedByPeer'
    BY <2>1 DEF AgreementInv, KA!ConfirmedByPeer, KA!Terms
  <2> QED BY <2>2, <2>3, <2>4, <2>5 DEF AgreementInv
<1>3. CASE KA!Confirm
  <2>1. PICK d \in derived, a \in accepted :
          /\ d.key = a.key
          /\ confirmed' = confirmed \cup {d.run}
          /\ UNCHANGED <<derived, accepted>>
    BY <1>3 DEF KA!Confirm
  <2>2. KA!Terms(d) = KA!Terms(a)
    <3>1. PICK e \in derived : KA!Terms(e) = KA!Terms(a)
      BY DEF AgreementInv
    <3>2. e = d
      BY <2>1, <3>1 DEF AgreementInv, KA!Terms
    <3> QED BY <3>1, <3>2
  <2>3. KA!ConfirmedByPeer'
    BY <2>1, <2>2 DEF AgreementInv, KA!ConfirmedByPeer, KA!Terms
  <2> QED BY <2>1, <2>3 DEF AgreementInv, KA!Terms
<1>4. CASE UNCHANGED KA!kaVars
  BY <1>4 DEF AgreementInv, KA!ConfirmedByPeer, KA!Terms, KA!kaVars
<1> QED BY <1>1, <1>2, <1>3, <1>4 DEF KA!Next

\* The invariant holds in every behaviour of the abstract specification, which
\* edhoc_initiator_run and edhoc_responder_run implement.
THEOREM AgreementInvariant == KA!Spec => []AgreementInv
<1>1. KA!Init => AgreementInv
  BY DEF KA!Init, AgreementInv, KA!ConfirmedByPeer
<1>2. AgreementInv /\ [KA!Next]_KA!kaVars => AgreementInv'
  BY AgreementStep
<1> QED BY <1>1, <1>2, PTL DEF KA!Spec

\* A responder's run belongs to one run of one initiator, with the same key,
\* credential, method and suite.
THEOREM InjectiveAgreementTheorem == KA!Spec => []KA!InjectiveAgreement
<1>1. AgreementInv => KA!InjectiveAgreement
  <2> SUFFICES ASSUME AgreementInv, NEW a \in accepted
               PROVE  \E d \in derived :
                        /\ KA!Terms(d) = KA!Terms(a)
                        /\ \A e \in derived : e.key = a.key => e = d
                        /\ \A b \in accepted : b.key = a.key => b = a
    BY DEF KA!InjectiveAgreement
  <2>1. PICK d \in derived : KA!Terms(d) = KA!Terms(a)
    BY DEF AgreementInv
  <2>2. d.key = a.key
    BY <2>1 DEF KA!Terms
  <2>3. \A e \in derived : e.key = a.key => e = d
    BY <2>2 DEF AgreementInv
  <2>4. \A b \in accepted : b.key = a.key => b = a
    BY DEF AgreementInv
  <2> QED BY <2>1, <2>3, <2>4
<1> QED BY <1>1, AgreementInvariant, PTL

\* A run of an initiator that received message 4 has a peer that accepted its
\* key on its terms.
THEOREM ConfirmedByPeerTheorem == KA!Spec => []KA!ConfirmedByPeer
<1>1. AgreementInv => KA!ConfirmedByPeer
  BY DEF AgreementInv
<1> QED BY <1>1, AgreementInvariant, PTL

-----------------------------------------------------------------------------
(* The refinement                                                          *)

\* The runs of edhoc_initiator_run and edhoc_responder_run implement the
\* abstract key agreement when their callers generate an ephemeral key for each
\* run: every step derives, accepts or confirms a key as it allows, or is a
\* stutter of it.
THEOREM EdhocImplementsKeyAgreement ==
  ASSUME AllKeysFresh
  PROVE  Spec => KeyAgreementSpec
<1>1. Init => KA!Init
  BY DEF Init, KA!Init
<1>2. EdhocInv /\ [Next]_vars => [KA!Next]_<<derived, accepted, confirmed>>
  BY NextKeeps DEF AbstractStep
<1> QED
  BY <1>1, <1>2, EdhocInvariant, PTL
  DEF Spec, KeyAgreementSpec, KA!Spec, KA!kaVars

\* A run of the responder that returned ok belongs to one run of one initiator,
\* which agrees with it on key, credential, method and suite, and to which no
\* other run of the responder belongs: inherited from the abstract protocol,
\* for ephemeral keys that are generated for each run.
THEOREM EdhocInjectiveAgreement ==
  ASSUME AllKeysFresh
  PROVE  Spec => []KA!InjectiveAgreement
BY EdhocImplementsKeyAgreement, InjectiveAgreementTheorem, PTL
   DEF KeyAgreementSpec

\* A run of edhoc_initiator_run that message 4 has confirmed is a run whose key
\* a run of the responder has accepted on the same terms, for ephemeral keys
\* that are generated for each run.
THEOREM EdhocConfirmedByPeer ==
  ASSUME AllKeysFresh
  PROVE  Spec => []KA!ConfirmedByPeer
BY EdhocImplementsKeyAgreement, ConfirmedByPeerTheorem, PTL
   DEF KeyAgreementSpec
=============================================================================
