---------------------------- MODULE MCEdhocWire ----------------------------
(***************************************************************************)
(* Instances of EdhocWire for TLC.  An initiator of any context meets a    *)
(* responder of any context, and a second initiator comes before, while or *)
(* after the responder serves the first.                                   *)
(***************************************************************************)
EXTENDS EdhocVectors

MCVectors == {test_vector_1, test_vector_2, test_vector_3, test_vector_4,
              test_vector_5, test_vector_6, test_vector_7, test_vector_8,
              test_vector_9, test_vector_10, test_vector_11, test_vector_12,
              test_vector_13}

V1 == initiator_context(test_vector_1)
V4 == initiator_context(test_vector_4)

\* Message 1 as recorded in the vectors 8 and 9.
Recorded == {[initiator_context(v) EXCEPT !.suites_i = <<0, 2, 1>>] :
               v \in {test_vector_8, test_vector_9}}

\* One suite too many, and the most there may be.
LongSuites == {[V1 EXCEPT !.suites_i = suites] :
                 suites \in {<<1, 2, 3, 1, 2, 0>>, <<1, 2, 3, 1, 0>>}}
Eads1 == {[V1 EXCEPT !.ead_1 = ead] :
            ead \in {<<"a">>, <<"a", "b", "c">>, <<"a", "b", "c", "d", "e">>}}
Eads3 == {[V1 EXCEPT !.ead_3 = <<"bstr", "a">>]}
TextAlgorithm == {[V4 EXCEPT !.id_cred_i = X5t(tstr("sha"), "4i")]}

\* Certificates of the CAs A, B and of others, for initiators that sign.
CertifiedBy(cert) ==
  [V4 EXCEPT !.id_cred_i = Labelled(x5chain, bstr(cert)),
             !.cred_i = <<bstr(cert)>>, !.sk_i = <<"sk", "c">>]
Issuer(name) == << <<"O", <<"X">>>>, <<"CN", name>> >>
X509(name, alg, short, ca_sk) ==
  x509(Issuer(name), <<"sk", "c">>, alg, short, <<"ca", ca_sk>>)
Certified == {CertifiedBy(cert) : cert \in
  {X509(<<"A">>, "ES256", FALSE, "A"), X509(<<"A", "B">>, "ES256", FALSE, "A"),
   X509(<<"B">>, "ES256", FALSE, "A"), X509(<<"A">>, "ES256", TRUE, "A"),
   X509(<<"A">>, "RSA", FALSE, "A"), X509(<<"C">>, "ES256", FALSE, "C")}}

Firsts == {initiator_context(v) : v \in MCVectors} \cup Recorded \cup LongSuites
            \cup Eads1 \cup Eads3 \cup TextAlgorithm \cup Certified
Seconds == {V1, V4} \cup Eads1 \cup {CertifiedBy(X509(<<"A">>, "ES256", FALSE, "A"))}
MCContexts == {<<first, second>> : first \in Firsts, second \in Seconds}

-----------------------------------------------------------------------------
Ca(name) == [id_cred |-> <<>>, cred |-> <<>>, pk |-> NoKey, g |-> NoKey,
             ca |-> <<name>>, ca_pk |-> <<"ca", name>>]
Renewed(device) == [device EXCEPT !.cred = <<bstr(<<"renewed", 1>>)>>]
R1 == responder_context(test_vector_1)
R4 == responder_context(test_vector_4)
Cred1 == other_party_cred_i(test_vector_1)
Cred4 == other_party_cred_i(test_vector_4)

\* Responders that know CAs, one that has a renewed credential under the same
\* name, one whose first entry has no CA, responders with an EAD.
MCResponderContexts ==
  {responder_context(v) : v \in MCVectors}
    \cup {[R4 EXCEPT !.cred_i_array = <<Ca("A"), Ca("B"), Cred4>>],
          [R4 EXCEPT !.cred_i_array = <<Cred4, Ca("A")>>],
          [R1 EXCEPT !.cred_i_array = <<Renewed(Cred1), Cred1>>],
          [R1 EXCEPT !.suites_r = <<3, 0>>, !.ead_4 = <<"bstr", "a">>],
          [R1 EXCEPT !.ead_2 = <<"bstr", "a">>]}
=============================================================================
