----------------------------- MODULE EdhocCodec -----------------------------
(***************************************************************************)
(* What EDHOC makes of its messages: message 1 and its parser, ID_CRED_x   *)
(* in a plaintext, the inputs of the transcript hashes, of the MACs and of *)
(* the signatures.  Data is encoded as in EdhocCbor, secrets are terms as  *)
(* in EdhocTerms.                                                          *)
(***************************************************************************)
EXTENDS Credentials

Terms == INSTANCE EdhocTerms

\* An int read from memory nobody wrote: none that is used on purpose.
Uninitialized == 12345

-----------------------------------------------------------------------------
(* Message 1                                                               *)

SUITES_I_LEN == 5       \* the size of suites_i in msg2_gen

\* One suite is encoded as an int, several as a list.
msg1_gen(c) ==
  LET suites == IF Len(c.suites_i) = 1 THEN int(c.suites_i[1])
                ELSE list([k \in DOMAIN c.suites_i |-> int(c.suites_i[k])])
  IN  cbor_encode_message_1(c.method, suites, c.x, c.c_i, c.ead_1)

\* C_x is an int or a byte string.  The caller of c_x_set gives the length of
\* the byte string.
c_x_set(item, len) ==
  IF item[1] = "int" THEN item ELSE bstr(SubSeq(item[2], 1, len))

\* Mutant: EAD_1 is copied without looking at the size of the buffer.
msg1_parse_Unchecked(msg1, ad1_len) ==
  IF cbor_decode_message_1(msg1) = {}
    THEN Failed("unexpected_result_from_ext_lib")
  ELSE LET m == CHOOSE m \in cbor_decode_message_1(msg1) : TRUE
           suites == IF m.suites[1] = "int" THEN <<m.suites>> ELSE m.suites[2]
       IN  IF Len(suites) > SUITES_I_LEN
             THEN Failed("suites_i_list_to_long")
             ELSE [err |-> "ok", method |-> m.method,
                   suites_i |-> [k \in DOMAIN suites |-> suites[k][2] % 256],
                   g_x |-> m.g_x, c_i |-> c_x_set(m.c_i, 0),
                   ead_1 |-> m.ead_1]

\* C_I loses its bytes when it is a byte string: its length is given as 0.
\* ead_1 is the set of what is to be copied to ad1, at most one byte string.
msg1_parse(msg1, ad1_len) ==
  IF cbor_decode_message_1(msg1) = {}
    THEN Failed("unexpected_result_from_ext_lib")
  ELSE LET m == CHOOSE m \in cbor_decode_message_1(msg1) : TRUE
           suites == IF m.suites[1] = "int" THEN <<m.suites>> ELSE m.suites[2]
       IN  IF Len(suites) > SUITES_I_LEN THEN Failed("suites_i_list_to_long")
           ELSE IF \E ead \in m.ead_1 : Len(ead) > ad1_len
             THEN Failed("buffer_to_small")
           ELSE [err |-> "ok", method |-> m.method,
                 suites_i |-> [k \in DOMAIN suites |-> suites[k][2] % 256],
                 g_x |-> m.g_x, c_i |-> c_x_set(m.c_i, 0),
                 ead_1 |-> m.ead_1]

-----------------------------------------------------------------------------
(* Hashes and key derivation                                               *)

hash(items) == <<"hash", items>>

th2_input_encode(hash_msg1, g_y, c_r) == cbor_encode_th2(hash_msg1, g_y, c_r)
th2_calculate(msg1, g_y, c_r) == hash(th2_input_encode(hash(msg1), g_y, c_r))
th3_input_encode(th2, ciphertext_2) == cbor_encode_th3(th2, ciphertext_2)
th3_calculate(th2, ciphertext_2) == hash(th3_input_encode(th2, ciphertext_2))
th4_input_encode(th3, ciphertext_3) == cbor_encode_th4(th3, ciphertext_3)
th4_calculate(th3, ciphertext_3) == hash(th4_input_encode(th3, ciphertext_3))

create_hkdf_info(th, label, context, okm_len) ==
  cbor_encode_info(th, label, context, okm_len)
okm_calc(prk, th, label, context, okm_len) ==
  <<"okm", prk, create_hkdf_info(th, label, context, okm_len)>>

-----------------------------------------------------------------------------
(* Authentication                                                          *)

\* Mutant: the credential itself is not authenticated.
context_mac_NoCred(id_cred, cred, ead) == id_cred \o <<raw(ead)>>

\* The MAC covers the bytes of the three behind each other.
context_mac(id_cred, cred, ead) == id_cred \o cred \o <<raw(ead)>>

mac(suite, static_dh, prk, th, label, context) ==
  okm_calc(prk, th, label, context,
           IF static_dh THEN Terms!mac_len_static_dh(suite) ELSE Terms!HashLen)

cose_sig_structure_encode(context, protected, external_aad, payload) ==
  cbor_encode_sig_structure(context, protected, external_aad, payload)
signature_struct_gen(th, id_cred, cred, ead, m) ==
  cose_sig_structure_encode("Signature1", id_cred,
    cbor_encode_bstr_type_b_str(th) \o cred \o <<raw(ead)>>, m)

\* GENERATE with the secret key; VERIFY compares with what the owner of the
\* public key generates.
signature_or_mac(suite, static_dh, key, prk, th, label, id_cred, cred, ead) ==
  LET m == mac(suite, static_dh, prk, th, label, context_mac(id_cred, cred, ead))
  IN  IF static_dh THEN m
      ELSE sign(Terms!sign_alg(suite), key,
                signature_struct_gen(th, id_cred, cred, ead, m))

-----------------------------------------------------------------------------
(* Plaintexts                                                              *)

\* Nothing for an ID_CRED_x that cannot be decoded.  A kid is sent alone.
id_cred2kid(id_cred) ==
  {IF kid \in DOMAIN m THEN cbor_encode_int_type_i(m[kid][2]) ELSE <<>> :
     m \in cbor_decode_id_cred_x_map(id_cred)}

\* Mutant: the map is sent for a kid too, as the draft does not.
plaintext_encode_WholeMap(id_cred, sgn_or_mac, ad) ==
  {id_cred \o cbor_encode_bstr_type_b_str(sgn_or_mac) \o <<raw(ad)>> :
     k \in id_cred2kid(id_cred)}

\* The plaintext ciphertext_gen builds: the EAD is appended as it is.
plaintext_encode(id_cred, sgn_or_mac, ad) ==
  {(IF k = <<>> THEN id_cred ELSE k)
     \o cbor_encode_bstr_type_b_str(sgn_or_mac) \o <<raw(ad)>> :
     k \in id_cred2kid(id_cred)}

\* Only int is encoded for the algorithm of x5t, whatever was decoded.
id_cred_x_encode(label, item) ==
  IF label = x5t /\ item[2][1][1] # "int"
    THEN cbor_encode_id_cred_x_map(x5t, list(<<int(Uninitialized), item[2][2]>>))
    ELSE cbor_encode_id_cred_x_map(label, item)

\* The map is rebuilt for kid, x5chain and x5t.  For the other labels the
\* buffer keeps what was in it, up to its capacity.  Four bytes of a kid that
\* is a byte string are read as an int.  Nothing when an item has the wrong type
\* or the EAD exceeds its buffer.
plaintext_split(ptxt, leftover, ad_len) ==
  {LET given == CHOOSE m \in cbor_decode_id_cred_x_map(<<p.id_cred>>) : TRUE
   IN [id_cred |->
         IF p.id_cred[1] = "int" THEN id_cred_x_encode(kid, p.id_cred)
         ELSE IF p.id_cred[1] = "bstr"
           THEN id_cred_x_encode(kid, int(Uninitialized))
         ELSE IF x5t \in DOMAIN given THEN id_cred_x_encode(x5t, given[x5t])
         ELSE IF x5chain \in DOMAIN given
           THEN id_cred_x_encode(x5chain, given[x5chain])
         ELSE leftover,
       sgn_or_mac |-> p.sgn_or_mac,
       ad |-> IF p.ad = {} THEN <<>> ELSE CHOOSE ad \in p.ad : TRUE] :
   p \in {q \in cbor_decode_plaintext(ptxt) : \A ad \in q.ad : Len(ad) <= ad_len}}

cose_enc_structure_encode(context, protected, external_aad) ==
  cbor_encode_enc_structure(context, protected, external_aad)
associated_data_encode(th) == cose_enc_structure_encode("Encrypt0", <<>>, th)

\* CIPHERTEXT_2 is a plaintext xored with a key stream, the others are AEAD.
encrypt(ctxt, prk, th, plaintext) ==
  <<"ciphertext", Terms!key_gen(ctxt, prk, th),
    IF ctxt = Terms!CIPHERTEXT2 THEN <<>> ELSE associated_data_encode(th),
    plaintext>>

\* Nothing when the ciphertext was made with something else: AEAD fails, and
\* what a wrong key stream leaves is no plaintext.
decrypt(ctxt, prk, th, ciphertext) ==
  {p \in {ciphertext[4]} : ciphertext = encrypt(ctxt, prk, th, p)}
=============================================================================
