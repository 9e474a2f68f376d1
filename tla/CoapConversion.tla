--------------------------- MODULE CoapConversion ---------------------------
(***************************************************************************)
(* One CoAP message after another through coap2oscore, over the network,   *)
(* and through oscore2coap of the peer: what the application of the peer   *)
(* gets, against what the application sent. Losses, duplicates and the     *)
(* security context are the subject of Oscore, not of this module.         *)
(***************************************************************************)
EXTENDS CoapOptions

CONSTANTS
  Messages,      \* the CoAP messages of the application
  OscoreValue,   \* the value of the OSCORE option of a request
  Strays         \* bytes that may be found in memory never written

ASSUME StraysAssumption == Strays \subseteq 0 .. 255

VARIABLES
  app,        \* what the application passed to coap2oscore
  protected,  \* what coap2oscore made of it
  delivered,  \* what oscore2coap made of that
  stray       \* the byte read from memory never written

vars == <<app, protected, delivered, stray>>

NoMessage == [err |-> "none"]

Init ==
  /\ app = NoMessage
  /\ protected = NoMessage
  /\ delivered = NoMessage
  /\ stray \in Strays

Protect ==
  /\ app = NoMessage
  /\ \E m \in Messages :
       /\ app' = m
       /\ protected' = coap2oscore(m, OscoreValue, stray)
  /\ UNCHANGED <<delivered, stray>>

Unprotect ==
  /\ protected.err = "ok"
  /\ delivered = NoMessage
  /\ delivered' = oscore2coap(protected.msg,
                    IF IsEmptyAck(app) THEN <<>> ELSE protected.sealed, stray)
  /\ UNCHANGED <<app, protected, stray>>

\* The application goes on to its next message; what is on the stack changes.
Done ==
  /\ protected.err \notin {"none", "ok"} \/ delivered # NoMessage
  /\ app' = NoMessage
  /\ protected' = NoMessage
  /\ delivered' = NoMessage
  /\ stray' \in Strays

Next == Protect \/ Unprotect \/ Done

Spec == Init /\ [][Next]_vars

-----------------------------------------------------------------------------
\* The type of the state: a result carries a message exactly when the call
\* returned ok (a packet that is not an OSCORE one leaves buf_out unwritten),
\* and only the empty ACK of the messaging layer goes unprotected, both ways.
TypeOK ==
  /\ app = NoMessage <=> protected = NoMessage
  /\ ("msg" \in DOMAIN protected) <=> (protected.err = "ok")
  /\ delivered # NoMessage =>
       /\ ("msg" \in DOMAIN delivered)
            <=> (delivered.err = "ok" /\ delivered.oscore)
       /\ delivered.oscore <=> ~ (app.type = "ACK" /\ app.code = 0)
  /\ stray \in Strays

\* The application of the peer gets, byte for byte, the message that was
\* protected: type, code, token, every option in order, and the payload,
\* though the options travelled in two halves in two encodings.
MessageRestored ==
  delivered # NoMessage /\ ~ IsEmptyAck(app) =>
    delivered.err = "ok" /\ delivered.oscore /\ delivered.msg = app

\* What RFC 8613 hides is hidden: the packet on the wire, read without the
\* key, has class U options only, the OSCORE option exactly once, and one of
\* the two outer codes.  An empty ACK is the exception, copied as it is.
OnlyClassUOnTheWire ==
  protected.err = "ok" /\ ~ IsEmptyAck(app) =>
    LET outer == buf2coap(protected.msg, stray) IN
      /\ outer.err = "ok"
      /\ \A k \in DOMAIN outer.options : outer.options[k].number \in {3, 7, 9, 35, 39}
      /\ Cardinality({k \in DOMAIN outer.options :
                        outer.options[k].number = COAP_OPTION_OSCORE}) = 1
      /\ protected.msg.code \in {2, 68}

\* coap2oscore refuses no message whose class E options fit the stack buffer
\* of plaintext_setup: the plaintext length computed from the incoming options
\* is the one the class E options take.
FittingMessagesSent ==
  protected.err = "buffer_to_small" =>
    MaxEncodedLen(ClassE(buf2coap(app, stray).options)) > MAX_E_OPTIONS

\* o_coap_pkg_generate has room for ten class E options, and its caller's
\* packet for MAX_OPTION_COUNT: whatever coap2oscore lets through fits both.
EOptionsCapacity == 10
OptionsFitArrays ==
  protected.err = "ok" /\ ~ IsEmptyAck(app) =>
    LET sealed == protected.sealed[2]
        inner == oscore_decrypted_payload_parser(
                   SubSeq(sealed, 1, Len(sealed) - AUTH_TAG_LEN), stray)
    IN /\ Len(inner.options) <= EOptionsCapacity
       /\ Len(inner.options) + Len(buf2coap(protected.msg, stray).options) - 1
            <= MAX_OPTION_COUNT

-----------------------------------------------------------------------------
(* The messages that the properties are proved for.                        *)

\* Options that all writers and readers of the code take alike: deltas and
\* lengths below 13, and no byte in a value that is taken for the marker.
ShortValues == {v \in Seq(0 .. 254) : Len(v) <= 12}
ShortOptions == [delta : 0 .. 12, number : 0 .. 255, value : ShortValues]

\* The deltas and the numbers say the same.
NumberBefore(list, k) == IF k = 1 THEN 0 ELSE list[k - 1].number
ShortList(list) ==
  /\ list \in Seq(ShortOptions)
  /\ \A k \in 1 .. Len(list) : list[k].number = NumberBefore(list, k) + list[k].delta

\* No class U option that goes behind the OSCORE option, and none of those.
NoProxy(list) == \A k \in 1 .. Len(list) : list[k].number \notin {9, 35, 39}

\* A message of such options, whose two halves are such lists too.
SealedValue(m) == IF IsRequest(m.code) THEN OscoreValue ELSE <<>>
OuterOptions(m) == WithOscoreOption(ClassU(buf2coap(m, 0).options), SealedValue(m))
Plain(m) ==
  LET in == buf2coap(m, 0)
  IN /\ in.err = "ok"
     /\ m = coap2buf(m.type, m.code, Len(in.token), in.token, in.options, in.payload)
     /\ m.code \in 0 .. 255
     /\ in.token \in Seq(0 .. 255) /\ Len(in.token) <= 8
     /\ in.payload \in Seq(0 .. 255)
     /\ in.options # <<>> \/ in.payload # <<>>
     /\ SealedValue(m) \in ShortValues
     /\ ShortList(in.options) /\ NoProxy(in.options)
     /\ ShortList(ClassE(in.options)) /\ ShortList(OuterOptions(m))

\* The peer has room for the options it puts together.
Storable(m) ==
  LET options == buf2coap(m, 0).options
  IN Len(options) <= MAX_OPTION_COUNT /\ OptionsFit(options)

\* The sender has room for the plaintext and for the options in clear.
Sendable(m) ==
  LET in == buf2coap(m, 0)
  IN /\ PlaintextLen(in.options, in.payload) <= MAX_PLAINTEXT_LEN
     /\ OptionsFit(OuterOptions(m))

\* A token that coap2oscore refuses.
Refused(m) ==
  /\ m = [type |-> m.type, code |-> m.code, tkl |-> m.tkl, bytes |-> m.bytes]
  /\ m.tkl > 8 /\ m.bytes # <<>>
Regular(m) == Refused(m) \/ (Plain(m) /\ Storable(m))
Regulars == \A m \in Messages : Regular(m)
Sendables == \A m \in Messages : Refused(m) \/ Sendable(m)

\* The sender's limit of five bytes for an option, and more for its value, is
\* reached before the receiver's array is full.
ArrayHoldsLimit == MAX_E_OPTIONS < 5 * (EOptionsCapacity + 1)
=============================================================================
