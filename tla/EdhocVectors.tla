---------------------------- MODULE EdhocVectors ----------------------------
(***************************************************************************)
(* The test vectors of src/test_vectors/edhoc_test_vectors.h, the contexts *)
(* the tests and the linux_edhoc samples make of them, and contexts of     *)
(* other applications.  What a vector gives is the method, the suites, the *)
(* connection identifiers, the ID_CREDs and the EADs; keys, credentials    *)
(* and hashes are names with the vector's number.  An EAD is shorter here, *)
(* its first symbol is the type of the item it begins with.                *)
(***************************************************************************)
EXTENDS EdhocWire

Kid(n) == <<map(<< <<kid, int(n)>> >>)>>
X5t(alg, n) == <<map(<< <<x5t, list(<<alg, bstr(<<"digest", n>>)>>)>> >>)>>
Labelled(label, item) == <<map(<< <<label, item>> >>)>>
NoEads == <<<<>>, <<>>, <<>>, <<>>>>

\* The members of test_vectors[n - 1] that name a key or are NULL.
vector(n, method, suites_i, suites_r, c_i, c_r, id_cred_i, id_cred_r, eads) ==
  [n |-> n, method |-> method, suites_i |-> suites_i, suites_r |-> suites_r,
   c_i |-> c_i, c_r |-> c_r, id_cred_i |-> id_cred_i, id_cred_r |-> id_cred_r,
   ead |-> eads]

test_vector_1 == vector(1, 3, <<0>>, <<0>>, int(12), bstr(<<>>),
  Kid(-10), Kid(5), NoEads)
test_vector_2 == vector(2, 2, <<0>>, <<0>>, int(-9), int(6),
  Kid(-10), X5t(int(-15), "2r"), NoEads)
test_vector_3 == vector(3, 1, <<0>>, <<0>>, int(-13), int(-14),
  X5t(int(-15), "3i"), Kid(-14), NoEads)
test_vector_4 == vector(4, 0, <<0>>, <<0>>, int(14), int(-19),
  X5t(int(-15), "4i"), X5t(int(-15), "4r"), NoEads)

\* The URI is a tagged text, not the byte string the decoder wants.
test_vector_5 == vector(5, 3, <<0>>, <<0>>, int(4), int(20),
  Labelled(x5u, tstr("uri i")), Labelled(x5u, tstr("uri r")), NoEads)
test_vector_6 == vector(6, 2, <<0>>, <<0>>, int(18), int(-13),
  Labelled(x5chain, bstr(<<"cert", "6i">>)),
  Labelled(x5bag, bstr(<<"cert", "6r">>)), NoEads)

\* Labels of an older draft, and a map inside the map.
test_vector_7 == vector(7, 2, <<0>>, <<0>>, int(10), int(1),
  Labelled(43, map(<<>>)), Labelled(42, map(<<>>)), NoEads)

\* suites_i is the encoded list, not the list.
test_vector_8 == vector(8, 3, <<131, 0, 2, 1>>, <<1>>, int(-11), int(-4),
  Kid(-19), Kid(-17), NoEads)
test_vector_9 == vector(9, 0, <<131, 0, 2, 1>>, <<1>>, int(-9), int(15),
  X5t(int(-15), "9i"), X5t(int(-15), "9r"), NoEads)
test_vector_10 == vector(10, 3, <<0>>, <<0>>, bstr(<<"de", "ee">>),
  bstr(<<"97", "7c">>), Kid(15134), Kid(15268),
  << <<"int", "map", "a">>, <<"int", "map", "b">>, <<"int", "map", "c">>,
     <<"int", "map", "d">> >>)
test_vector_11 == vector(11, 0, <<0>>, <<0>>, int(29854), bstr(<<"12", "b7">>),
  X5t(int(-15), "11i"), X5t(int(-15), "11r"),
  << <<"int", "int">>, <<"int", "bstr">>, <<"int", "true">>,
     <<"int", "bstr">> >>)
test_vector_12 == vector(12, 3, <<0>>, <<0>>, int(-10), int(-19),
  X5t(int(-15), "12i"), X5t(int(-15), "12r"), NoEads)
test_vector_13 == vector(13, 0, <<0>>, <<0>>, int(-20), int(-15),
  Kid(21), Kid(-15), NoEads)

-----------------------------------------------------------------------------
(* Contexts                                                                *)

\* A key of the vector, NULL when the method has no use for it.
key(used, name, v) == IF used THEN <<name, v.n>> ELSE NoKey
dh_i(v) == key(Terms!static_dh_i(v.method), "i", v)
dh_r(v) == key(Terms!static_dh_r(v.method), "r", v)
signature_i(v) == key(~ Terms!static_dh_i(v.method), "sk_i", v)
signature_r(v) == key(~ Terms!static_dh_r(v.method), "sk_r", v)

cred_i(v) == <<bstr(<<"cred_i", v.n>>)>>
cred_r(v) == <<bstr(<<"cred_r", v.n>>)>>

\* The only element of cred_i_array and cred_r_array.  ca is NULL.
other_party_cred_i(v) ==
  [id_cred |-> v.id_cred_i, cred |-> cred_i(v), pk |-> signature_i(v),
   g |-> dh_i(v), ca |-> <<>>, ca_pk |-> NoKey]
other_party_cred_r(v) ==
  [id_cred |-> v.id_cred_r, cred |-> cred_r(v), pk |-> signature_r(v),
   g |-> dh_r(v), ca |-> <<>>, ca_pk |-> NoKey]

initiator_context(v) ==
  [method |-> v.method, suites_i |-> v.suites_i, c_i |-> v.c_i,
   x |-> <<"x", v.n>>, ead_1 |-> v.ead[1], ead_3 |-> v.ead[3],
   id_cred_i |-> v.id_cred_i, cred_i |-> cred_i(v), i |-> dh_i(v),
   sk_i |-> signature_i(v), cred_r_array |-> <<other_party_cred_r(v)>>]

responder_context(v) ==
  [suites_r |-> v.suites_r, c_r |-> v.c_r, y |-> <<"y", v.n>>,
   ead_2 |-> v.ead[2], ead_4 |-> v.ead[4], id_cred_r |-> v.id_cred_r,
   cred_r |-> cred_r(v), r |-> dh_r(v), sk_r |-> signature_r(v),
   cred_i_array |-> <<other_party_cred_i(v)>>]
=============================================================================
