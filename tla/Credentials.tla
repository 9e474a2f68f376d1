----------------------------- MODULE Credentials -----------------------------
(***************************************************************************)
(* Finding the credential an ID_CRED_x names (src/src/edhoc/               *)
(* retrieve_cred.c) and verifying certificates (cert.c).  A device knows   *)
(* the other parties by the array cred_array of records                    *)
(*   [id_cred, cred, pk, g, ca, ca_pk]                                     *)
(* A key pair is one name, whatever the encoding of the key; NoKey is the  *)
(* key of a pointer that is NULL.  A CA's name is a sequence of letters.   *)
(* A function that can fail returns [err |-> "ok" or the error, ...].      *)
(***************************************************************************)
EXTENDS EdhocCbor, SequencesExt

CONSTANT MBEDTLS        \* the library is built with mbed TLS

ASSUME MbedtlsAssumption == MBEDTLS \in BOOLEAN

NoKey == <<"NULL">>
Failed(error) == [err |-> error]

-----------------------------------------------------------------------------
(* Certificates                                                            *)

\* sign and verify; what is signed is a sequence of items.
sign(alg, sk, items) == <<"signature", alg, sk, items>>
verify(alg, pk, items, signature) == signature = sign(alg, pk, items)

\* Mutant: the first CA of the array is taken, whatever its name.
ca_pk_get_First(cred_array, issuer) ==
  IF cred_array = <<>> THEN Failed("no_such_ca")
  ELSE [err |-> "ok", root_pk |-> cred_array[1].ca_pk]

\* memcmp compares as many bytes as the CA of the entry has: a CA matches all
\* issuers that begin with its name, and an entry without CA matches them all.
ca_pk_get(cred_array, issuer) ==
  LET known == {k \in DOMAIN cred_array : IsPrefix(cred_array[k].ca, issuer)}
  IN  IF known = {} THEN Failed("no_such_ca")
      ELSE [err |-> "ok", root_pk |-> cred_array[Min(known)].ca_pk]

\* The signature covers what precedes the last item, its own 64 bytes.
cert_c509_verify(cert, cred_array) ==
  IF cbor_decode_cert(cert) = {} THEN Failed("unexpected_result_from_ext_lib")
  ELSE LET c == CHOOSE c \in cbor_decode_cert(cert) : TRUE
           ca == ca_pk_get(cred_array, c.issuer)
       IN  IF ca.err # "ok" THEN ca
           ELSE [err |-> "ok", pk |-> c.pk,
                 verified |-> verify(c.signature_algorithm, ca.root_pk,
                                     SubSeq(cert, 1, 10), c.signature)]

\* An X.509 certificate: the part to be signed and the signature.  The first is
\* the names of the issuer as <<type, name>>, the subject's key and the
\* signature algorithm; "short" says that R or S has leading zero bytes, which
\* DER leaves out.
x509(names, pk, alg, short, ca_sk) ==
  LET tbs == <<"tbs", names, pk, alg, short>>
  IN  <<"x509", tbs, sign(alg, ca_sk, tbs)>>

\* deser_sign_cb copies the last 32 bytes of each integer: from before its
\* start when it is shorter.
deser_sign(cert) == IF cert[2][5] THEN <<"garbage">> ELSE cert[3]

\* The last common name of the issuer.
issuer_id(cert) ==
  LET names == cert[2][2]
  IN  names[Max({k \in DOMAIN names : names[k][1] = "CN"})][2]

cert_x509_verify(cert, cred_array) ==
  IF ~ MBEDTLS THEN [err |-> "ok", pk |-> NoKey, verified |-> FALSE]
  ELSE LET ca == ca_pk_get(cred_array, issuer_id(cert))
       IN  IF cert[1] # "x509" THEN Failed("unexpected_result_from_ext_lib")
           ELSE IF cert[2][4] # "ES256"
             THEN Failed("unsupported_signature_algorithm")
           ELSE IF ca.err # "ok" THEN ca
           ELSE [err |-> "ok", pk |-> cert[2][3],
                 verified |-> verify("ES256", ca.root_pk, cert[2],
                                     deser_sign(cert))]

-----------------------------------------------------------------------------
(* Credentials                                                             *)

\* The certificate itself is CRED_x.  The key it contains is a static DH key or
\* a signature key, as the method says.
verify_cert2cred(cred_array, label, cert) ==
  LET v == IF label \in {x5bag, x5chain} THEN cert_x509_verify(cert, cred_array)
           ELSE cert_c509_verify(cert, cred_array)
  IN  IF v.err # "ok" THEN v
      ELSE IF ~ v.verified THEN Failed("certificate_authentication_failed")
      ELSE [err |-> "ok", cred |-> cbor_encode_bstr_type_b_str(cert),
            key |-> v.pk]

get_local_cred(static_dh_auth, cred_array, id_cred) ==
  LET known == {k \in DOMAIN cred_array : cred_array[k].id_cred = id_cred}
      entry == cred_array[Min(known)]
  IN  IF known = {} THEN Failed("credential_not_found")
      ELSE [err |-> "ok", cred |-> entry.cred,
            key |-> IF static_dh_auth THEN entry.g ELSE entry.pk]

\* The labels of certificates in the order they are looked for.
certificate_labels == <<x5chain, x5bag, c5c, c5b>>

retrieve_cred(static_dh_auth, cred_array, id_cred) ==
  IF cbor_decode_id_cred_x_map(id_cred) = {}
    THEN Failed("unexpected_result_from_ext_lib")
  ELSE LET present == CHOOSE m \in cbor_decode_id_cred_x_map(id_cred) : TRUE
           certs == {k \in DOMAIN certificate_labels :
                       certificate_labels[k] \in DOMAIN present}
           label == certificate_labels[Min(certs)]
       IN  IF DOMAIN present \cap {kid, x5u, x5t, c5u, c5t} # {}
             THEN get_local_cred(static_dh_auth, cred_array, id_cred)
           ELSE IF certs # {}
             THEN verify_cert2cred(cred_array, label, present[label][2])
           ELSE Failed("credential_not_found")
=============================================================================
