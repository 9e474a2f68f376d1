------------------------------- MODULE MCCoap -------------------------------
(***************************************************************************)
(* Instances of CoapConversion for TLC.  The application writes its        *)
(* messages as RFC 7252 says, which is what encode_options does.           *)
(***************************************************************************)
EXTENDS CoapConversion

CONSTANTS
  OptionNumbers, ValueLens, MaxOptions,   \* bounds on the options of a message
  PayloadLens, TokenLens, Headers         \* and on the rest; a header is
                                          \* <<type, code>>

\* Every byte of a value is the number of its option, every byte of a token or
\* of a payload is one that could open an option.
Filled(n, byte) == [k \in 1 .. n |-> byte]

Headers4 == {<<"CON", 1>>, <<"ACK", 69>>, <<"ACK", 0>>, <<"CON", 0>>}
GetOnly == {<<"CON", 1>>}

Option == [number : OptionNumbers, length : ValueLens]
OptionLists ==
  {s \in UNION {[1 .. n -> Option] : n \in 0 .. MaxOptions} :
     \A k \in 2 .. Len(s) : s[k - 1].number <= s[k].number}

Write(list) ==
  encode_options(Renumber([k \in DOMAIN list |->
    [delta |-> 0, number |-> list[k].number,
     value |-> Filled(list[k].length, list[k].number)]]),
    0 .. 65535)

MCMessages ==
  {[type |-> h[1], code |-> h[2], tkl |-> t,
    bytes |-> Filled(t, 65) \o Write(list) \o PayloadPart(Filled(n, 66))] :
   h \in Headers, t \in TokenLens, list \in OptionLists, n \in PayloadLens}

\* And the messages that have many empty Uri-Host and Uri-Path options, up to
\* as many as the arrays of the sender hold.
UriHost == 3
UriPath == 11

MCEmptyOptions ==
  {[type |-> "CON", code |-> 1, tkl |-> 0,
    bytes |-> Write([k \in 1 .. (n + m) |->
                       [number |-> IF k <= n THEN UriHost ELSE UriPath,
                        length |-> 0]]) \o PayloadPart(<<66>>)] :
   n \in 0 .. 8, m \in 0 .. (MAX_OPTION_COUNT - 8)}

MCRoundTrip == MCMessages \cup MCEmptyOptions

MCOscoreValue == <<9, 0, 1>>

\* With short values all these messages are those that the proofs are about.
ASSUME ProofsApply ==
  (\A n \in ValueLens : n <= 12) => Regulars /\ Sendables /\ ArrayHoldsLimit
=============================================================================
