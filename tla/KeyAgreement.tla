---------------------------- MODULE KeyAgreement ----------------------------
(***************************************************************************)
(* What an authenticated key exchange promises to the applications that    *)
(* use its keys.  A run of the initiator derives a key that no other run   *)
(* has derived; a run of the responder accepts only a key that an          *)
(* initiator has derived in a run with the same credential, method and     *)
(* suite, and no run accepts a key twice; the initiator takes a key for    *)
(* confirmed only when the responder has accepted it.                      *)
(***************************************************************************)

VARIABLES
  derived,    \* keys of the initiators' runs
  accepted,   \* keys of the responder's runs
  confirmed   \* runs of initiators that know that the responder has the key

kaVars == <<derived, accepted, confirmed>>

\* What the two parties of a session agree on.
Terms(r) == <<r.key, r.initiator, r.method, r.suite>>

Init == derived = {} /\ accepted = {} /\ confirmed = {}

Derive ==
  \E d \in derived' :
    /\ derived' = derived \cup {d}
    /\ \A e \in derived : e.run # d.run /\ e.key # d.key
    /\ UNCHANGED <<accepted, confirmed>>

Accept ==
  \E a \in accepted' :
    /\ accepted' = accepted \cup {a}
    /\ \A b \in accepted : b.run # a.run /\ b.key # a.key
    /\ \E d \in derived : Terms(d) = Terms(a)
    /\ UNCHANGED <<derived, confirmed>>

Confirm ==
  \E d \in derived, a \in accepted :
    /\ d.key = a.key
    /\ confirmed' = confirmed \cup {d.run}
    /\ UNCHANGED <<derived, accepted>>

Next == Derive \/ Accept \/ Confirm

Spec == Init /\ [][Next]_kaVars

-----------------------------------------------------------------------------
\* Injective agreement: a run of the responder belongs to one run of one
\* initiator, which agrees with it on key, credential, method and suite, and
\* to which no other run of the responder belongs.
InjectiveAgreement ==
  \A a \in accepted :
    \E d \in derived :
      /\ Terms(d) = Terms(a)
      /\ \A e \in derived : e.key = a.key => e = d
      /\ \A b \in accepted : b.key = a.key => b = a

\* A confirmed run is one whose key the responder has.
ConfirmedByPeer ==
  \A r \in confirmed :
    \E d \in derived, a \in accepted : d.run = r /\ Terms(d) = Terms(a)
=============================================================================
