------------------------------ MODULE MCEdhoc -------------------------------
(***************************************************************************)
(* Instances of Edhoc for TLC.                                             *)
(***************************************************************************)
EXTENDS EdhocProperties

CONSTANTS i1, i2

\* i2 is configured with the ID_CRED and CRED of i1 and with keys of its own.
MCIdOf == [d \in Devices \cup {R} |-> IF d = i2 THEN i1 ELSE d]

NoEad == <<>>
SomeEad == <<"bstr", "data">>

\* All methods, a list of one suite and one of two, with and without EAD_1.
MCAllConfigs ==
  [method : Methods, suites_i : {<<0>>, <<0, 3>>}, ead_1 : {NoEad, SomeEad},
   ead_3 : {NoEad}]

\* One side signs and the other has a static DH key, in both directions.
MCConfigs ==
  {c \in [method : {1, 2}, suites_i : {<<0>>, <<0, 3>>}, ead_1 : {NoEad},
          ead_3 : {NoEad}] : Len(c.suites_i) = c.method}
=============================================================================
