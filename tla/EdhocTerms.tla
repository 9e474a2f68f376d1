----------------------------- MODULE EdhocTerms -----------------------------
(***************************************************************************)
(* The values EDHOC computes with, as terms.  Hashes, HKDF, AEAD, MACs and *)
(* signatures are the constructor applied to its arguments: equal outputs  *)
(* mean equal inputs, and only the holder of a key can make or open one.   *)
(* A key pair is one name, used for its public and its secret half.        *)
(*                                                                         *)
(* External additional data (EAD) is a sequence of bytes of which only one *)
(* matters: "bstr", the head of a CBOR byte string.                        *)
(***************************************************************************)
EXTENDS Naturals, Sequences

\* What a damaged field holds: no party knows it or can have computed it.
Noise == <<"noise">>

\* get_suite: curve, signature algorithm and MAC length for static DH keys.
\* SHA-256 is the hash of all four suites.
SuiteParams == << <<"X25519", "EdDSA", 8>>, <<"X25519", "EdDSA", 16>>,
                  <<"P256", "ES256", 8>>, <<"P256", "ES256", 16>> >>
SuiteLabels == 0 .. 3
get_suite(label) == SuiteParams[label + 1]
ecdh(suite) == suite[1]
sign_alg(suite) == suite[2]
mac_len_static_dh(suite) == suite[3]
HashLen == 32

\* authentication_type_get: who authenticates with a static DH key.
Methods == 0 .. 3
static_dh_i(method) == method \in {2, 3}
static_dh_r(method) == method \in {1, 3}

-----------------------------------------------------------------------------
(* Key schedule                                                            *)

shared_secret_derive(suite, a, b) == <<ecdh(suite), {a, b}>>

\* A pseudorandom key is the sequence of the DH secrets extracted into it.
prk_derive(static_dh_auth, prk_in, secret) ==
  IF static_dh_auth THEN Append(prk_in, secret) ELSE prk_in

okm_calc(prk, th, label) == <<"okm", label, prk, th>>
edhoc_exporter(prk_4x3m, th4, label) == okm_calc(prk_4x3m, th4, label)

\* Mutant: message_1 is left out of the transcript.
th2_calculate_NoMsg1(msg1, g_y, c_r) == <<"th2", g_y, c_r>>

th2_calculate(msg1, g_y, c_r) == <<"th2", msg1, g_y, c_r>>
th3_calculate(th2, ciphertext_2) == <<"th3", th2, ciphertext_2>>
th4_calculate(th3, ciphertext_3) == <<"th4", th3, ciphertext_3>>

-----------------------------------------------------------------------------
(* Authentication                                                          *)

mac(suite, static_dh, label, prk, th, id_cred, cred, ead) ==
  <<"mac", label, IF static_dh THEN mac_len_static_dh(suite) ELSE HashLen,
    prk, th, id_cred, cred, ead>>

\* signature_or_mac with GENERATE: the MAC itself when the party has a static
\* DH key, a signature over it otherwise.
signature_or_mac(suite, static_dh, sk, label, prk, th, id_cred, cred, ead) ==
  LET m == mac(suite, static_dh, label, prk, th, id_cred, cred, ead)
  IN  IF static_dh THEN m
      ELSE <<"signature", sign_alg(suite), sk, th, id_cred, cred, ead, m>>

\* signature_or_mac with VERIFY, for the parts p of a plaintext.  The code
\* compares as many bytes as it received; all MACs of a suite are equally long.
Verifies(suite, static_dh, pk, label, prk, th, p, cred) ==
  p.signature_or_mac =
    signature_or_mac(suite, static_dh, pk, label, prk, th, p.id_cred, cred,
                     p.ead)

-----------------------------------------------------------------------------
(* Ciphertexts                                                             *)

CIPHERTEXT2 == "KEYSTREAM_2"
CIPHERTEXT3 == "K_3"
CIPHERTEXT4 == "EDHOC_K_4"

\* key_gen: the key, the IV and the associated data are functions of the same
\* pseudorandom key and transcript hash.
key_gen(ctxt, prk, th) == okm_calc(prk, th, ctxt)

\* ciphertext_gen writes the EAD behind the rest of the plaintext as it is.
ciphertext_gen(ctxt, id_cred, sign_or_mac, ead, prk, th) ==
  [key |-> key_gen(ctxt, prk, th), id_cred |-> id_cred,
   signature_or_mac |-> sign_or_mac, ead |-> ead]

\* The content of the byte string at the head of bytes; nothing when there is
\* none.
decode_byte_string(bytes) ==
  IF bytes # <<>> /\ Head(bytes) = "bstr" THEN Tail(bytes) ELSE <<>>

\* Does the ciphertext open?  CIPHERTEXT_2 is xored with a key stream: with the
\* wrong one it opens to noise, which names no credential.
Opens(ctxt, prk, th, ciphertext) == ciphertext.key = key_gen(ctxt, prk, th)

\* ciphertext_decrypt_split of message 2 and 3: what plaintext_split makes of
\* the plaintext.  The EAD is read as a byte string, unlike it was written.
plaintext_split(ciphertext) ==
  [id_cred |-> ciphertext.id_cred,
   signature_or_mac |-> ciphertext.signature_or_mac,
   ead |-> decode_byte_string(ciphertext.ead)]

\* ciphertext_decrypt_split of message 4: an EAD_4 that is no byte string is an
\* error.
Ead4Decodes(ciphertext) ==
  ciphertext.ead = <<>> \/ Head(ciphertext.ead) = "bstr"
=============================================================================
