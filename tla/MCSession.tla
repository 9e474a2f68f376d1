------------------------------ MODULE MCSession ------------------------------
(***************************************************************************)
(* Instance of SecureSession for TLC.                                      *)
(***************************************************************************)
EXTENDS SecureSession

CONSTANTS i1, none

MCIdOf == [d \in Devices \cup {R} |-> d]
MCNoEad == <<>>
MCConfigs ==
  {[method |-> 3, suites_i |-> <<0>>, ead_1 |-> MCNoEad, ead_3 |-> MCNoEad]}
MCIdLen == [i \in IdContexts |-> 0]
=============================================================================
