------------------------------ MODULE EdhocCbor ------------------------------
(***************************************************************************)
(* The generated CBOR codec of EDHOC (src/src/cbor/edhoc_*.c).  Encoded    *)
(* data is the sequence of its items; an item is a type and a content.     *)
(* Bytes an encoder copies without encoding them are an item "raw".        *)
(*                                                                         *)
(* A decoder returns a set: the one result, or nothing when the types of   *)
(* the items are not the expected ones.  As in zcbor, what follows the     *)
(* last expected item is ignored and an optional item is absent when the   *)
(* next item has another type.                                             *)
(***************************************************************************)
EXTENDS Integers, Sequences

int(n) == <<"int", n>>
bstr(b) == <<"bstr", b>>
tstr(s) == <<"tstr", s>>
list(items) == <<"list", items>>
map(entries) == <<"map", entries>>      \* a sequence of <<label, item>>
raw(bytes) == <<"raw", bytes>>

\* The k-th item has one of these types.
Is(items, k, types) == k \in DOMAIN items /\ items[k][1] \in types

-----------------------------------------------------------------------------
(* Single items                                                            *)

cbor_encode_int_type_i(n) == <<int(n)>>
cbor_encode_bstr_type_b_str(b) == <<bstr(b)>>
cbor_decode_bstr_type_b_str(items) ==
  IF Is(items, 1, {"bstr"}) THEN {items[1][2]} ELSE {}

-----------------------------------------------------------------------------
(* ID_CRED_x: a map whose labels come in this order, each at most once     *)

kid == 4
x5bag == 32
x5chain == 33
x5t == 34
x5u == 35
c5b == 52
c5c == 53
c5t == 54
c5u == 55
Labels == {kid, x5bag, x5chain, x5t, x5u, c5b, c5c, c5t, c5u}

\* A hash is a list of algorithm and value, a kid an int, the rest byte strings.
WellTyped(label, item) ==
  IF label \in {x5t, c5t}
    THEN /\ item[1] = "list" /\ Len(item[2]) = 2
         /\ Is(item[2], 1, {"int", "tstr"}) /\ Is(item[2], 2, {"bstr"})
    ELSE item[1] = IF label = kid THEN "int" ELSE "bstr"

cbor_encode_id_cred_x_map(label, item) == <<map(<<<<label, item>>>>)>>

\* The result gives the item of each label that is present.
cbor_decode_id_cred_x_map(items) ==
  LET entries == items[1][2]
      labels == {entries[k][1] : k \in DOMAIN entries}
  IN  IF /\ Is(items, 1, {"map"})
         /\ labels \subseteq Labels
         /\ \A k \in DOMAIN entries :
              /\ WellTyped(entries[k][1], entries[k][2])
              /\ k > 1 => entries[k - 1][1] < entries[k][1]
        THEN {[label \in labels |->
                entries[CHOOSE k \in DOMAIN entries : entries[k][1] = label][2]]}
        ELSE {}

-----------------------------------------------------------------------------
(* Messages                                                                *)

\* SUITES_I is an int or a list of 2 to 10 ints; the EAD is optional.
IsSuites(items, k) ==
  \/ Is(items, k, {"int"})
  \/ /\ Is(items, k, {"list"}) /\ Len(items[k][2]) \in 2 .. 10
     /\ \A n \in DOMAIN items[k][2] : Is(items[k][2], n, {"int"})

cbor_encode_message_1(method, suites, g_x, c_i, ead_1) ==
  LET items == <<int(method), suites, bstr(g_x), c_i>>
  IN  IF ~ IsSuites(items, 2) THEN {}
      ELSE IF ead_1 # <<>> THEN {Append(items, bstr(ead_1))}
      ELSE {items}

cbor_decode_message_1(items) ==
  IF /\ Is(items, 1, {"int"}) /\ IsSuites(items, 2) /\ Is(items, 3, {"bstr"})
     /\ Is(items, 4, {"int", "bstr"})
    THEN {[method |-> items[1][2], suites |-> items[2], g_x |-> items[3][2],
           c_i |-> items[4],
           ead_1 |-> {items[k][2] : k \in {n \in {5} : Is(items, n, {"bstr"})}}]}
    ELSE {}

\* G_Y and CIPHERTEXT_2 travel in one byte string.
cbor_encode_m2(g_y, ciphertext_2, c_r) == <<bstr(<<g_y, ciphertext_2>>), c_r>>
cbor_decode_m2(items) ==
  IF Is(items, 1, {"bstr"}) /\ Is(items, 2, {"int", "bstr"})
    THEN {[g_y |-> items[1][2][1], ciphertext_2 |-> items[1][2][2],
           c_r |-> items[2]]}
    ELSE {}

\* The head of raw bytes as a decoder sees it.
Read(item) ==
  IF item[1] = "raw" /\ item[2] # <<>> /\ Head(item[2]) = "bstr"
    THEN bstr(Tail(item[2])) ELSE item

\* A map that is no ID_CRED_x is not decoded as something else instead.
cbor_decode_plaintext(items) ==
  LET tail == IF Len(items) > 2 THEN <<Read(items[3])>> ELSE <<>>
  IN  IF /\ \/ Is(items, 1, {"int", "bstr"})
            \/ cbor_decode_id_cred_x_map(items) # {}
         /\ Is(items, 2, {"bstr"})
        THEN {[id_cred |-> items[1], sgn_or_mac |-> items[2][2],
               ad |-> cbor_decode_bstr_type_b_str(tail)]}
        ELSE {}

-----------------------------------------------------------------------------
(* Inputs of hashes, key derivation and signatures                         *)

cbor_encode_th2(hash_msg1, g_y, c_r) == <<bstr(hash_msg1), bstr(g_y), c_r>>
cbor_encode_th3(th_2, ciphertext_2) == <<bstr(th_2), bstr(ciphertext_2)>>
cbor_encode_th4(th_3, ciphertext_3) == <<bstr(th_3), bstr(ciphertext_3)>>
cbor_encode_info(th, label, context, length) ==
  <<bstr(th), tstr(label), bstr(context), int(length)>>
cbor_encode_enc_structure(context, protected, external_aad) ==
  <<list(<<tstr(context), bstr(protected), bstr(external_aad)>>)>>
cbor_encode_sig_structure(context, protected, external_aad, payload) ==
  <<list(<<tstr(context), bstr(protected), bstr(external_aad),
           bstr(payload)>>)>>

\* A C509 certificate: eleven items, all but the issuer's name (tstr) and three
\* byte strings (subject, public key, signature) ints.
cert_types == <<"int", "int", "tstr", "int", "int", "bstr", "int", "bstr",
                "int", "int", "bstr">>
cbor_decode_cert(items) ==
  IF \A k \in DOMAIN cert_types : Is(items, k, {cert_types[k]})
    THEN {[issuer |-> items[3][2], pk |-> items[8][2],
           signature_algorithm |-> items[10][2], signature |-> items[11][2]]}
    ELSE {}
=============================================================================
