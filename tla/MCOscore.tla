------------------------------ MODULE MCOscore ------------------------------
(***************************************************************************)
(* Instances of Oscore for TLC.                                            *)
(***************************************************************************)
EXTENDS OscoreProperties, TLC

CONSTANTS none, short, long, long2

\* Lengths of the ID Contexts: absent, 2 bytes, and 8 bytes twice.
LenOf == (none :> 0) @@ (short :> 2) @@ (long :> 8) @@ (long2 :> 8)

MCIdLen == [i \in IdContexts |-> LenOf[i]]
=============================================================================
