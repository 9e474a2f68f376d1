---------------------------- MODULE CoapOptions ----------------------------
(***************************************************************************)
(* How coap2oscore and oscore2coap take a CoAP message apart, split its    *)
(* options in the protected (class E) and the unprotected (class U) ones,  *)
(* and put the two halves together again.  The cryptography and the        *)
(* security context are those of OscoreContext; here a ciphertext is its   *)
(* plaintext followed by a tag.                                            *)
(*                                                                         *)
(* A message is [type, code, tkl, bytes]: bytes is everything after the    *)
(* four byte header.  An option is [delta, number, value], its length      *)
(* being that of value.  stray is what the program finds where it reads    *)
(* memory that it never wrote.                                             *)
(***************************************************************************)
EXTENDS Integers, FiniteSets, SequencesExt

CONSTANTS
  MAX_PLAINTEXT_LEN,
  MAX_COAP_OPTIONS_LEN,
  MAX_E_OPTIONS,
  MAX_OPTION_COUNT

ASSUME LimitsAssumption ==
  \A n \in {MAX_PLAINTEXT_LEN, MAX_COAP_OPTIONS_LEN, MAX_E_OPTIONS,
            MAX_OPTION_COUNT} : n \in Nat \ {0}

PayloadMarker == 255
COAP_OPTION_OSCORE == 9
AUTH_TAG_LEN == 8

U8(n) == n % 256
U16(n) == n % 65536

\* check_buffer_size, called with a difference of two unsigned lengths: one
\* that wraps around is greater than any length.
DestFits(size, needed) == size < 0 \/ needed <= size

At(bytes, stray, p) == IF p \in DOMAIN bytes THEN bytes[p] ELSE stray

-----------------------------------------------------------------------------
(* Option classes *)

is_class_e_Listed(number) == number \in {4, 5, 6, 8, 11, 12, 14, 15, 17, 20}
is_class_e(number) == number \notin {3, 7, COAP_OPTION_OSCORE, 35, 39}

\* The number of each option, from the deltas that were read.
Numbered(options) ==
  FoldLeft(LAMBDA done, o :
             Append(done, [o EXCEPT !.number =
               U8((IF done = <<>> THEN 0 ELSE Last(done).number) + o.delta)]),
           <<>>, options)

\* The delta of each option, from the numbers.
Renumber(options) ==
  [k \in DOMAIN options |->
     [options[k] EXCEPT !.delta =
        U16(options[k].number
              - (IF k = 1 THEN 0 ELSE options[k - 1].number))]]

\* The options with a number of the class, a set of numbers, in their order.
OptionsOf(options, class) ==
  FoldLeft(LAMBDA done, o : IF o.number \in class THEN Append(done, o) ELSE done,
           <<>>, options)

ClassENumbers == {n \in 0 .. 255 : is_class_e(n)}
ClassE(options) == Renumber(OptionsOf(options, ClassENumbers))
ClassU(options) == Renumber(OptionsOf(options, (0 .. 255) \ ClassENumbers))

-----------------------------------------------------------------------------
(* Writing options *)

\* options_into_byte_string: the nibble and the extension bytes of a delta or
\* of a length.  An extended value is written PLUS 13 or PLUS 269.
Nibble(n) == IF n < 13 THEN n ELSE IF n < 243 THEN 13 ELSE 14
Extension(n) ==
  CASE Nibble(n) = 13 -> <<U8(n + 13)>>
    [] Nibble(n) = 14 -> <<U16(n + 269) \div 256, U8(n + 269)>>
    [] OTHER -> <<>>

EncodeOption(o) ==
  <<16 * Nibble(o.delta) + Nibble(Len(o.value))>>
    \o Extension(o.delta) \o Extension(Len(o.value)) \o o.value

options_into_byte_string(options) ==
  FlattenSeq([k \in DOMAIN options |-> EncodeOption(options[k])])

\* encode_options: the extensions of RFC 7252, MINUS 13 or 269.
option_field_len(n) == IF n < 13 THEN 0 ELSE IF n < 269 THEN 1 ELSE 2
RfcNibble(n) == IF n < 13 THEN n ELSE 12 + option_field_len(n)
RfcExtension(n) ==
  CASE option_field_len(n) = 1 -> <<n - 13>>
    [] option_field_len(n) = 2 -> <<(n - 269) \div 256, (n - 269) % 256>>
    [] OTHER -> <<>>
RfcOption(delta, value) ==
  <<16 * RfcNibble(delta) + RfcNibble(Len(value))>>
    \o RfcExtension(delta) \o RfcExtension(Len(value)) \o value

\* The class, a set of option numbers, is asked about the distance from the
\* last option written, not about the number of the option.
encode_options(options, class) ==
  LET Take(st, o) ==
        LET delta == U16(o.delta + st.skipped)
        IN IF delta \in class
           THEN [skipped |-> 0, out |-> st.out \o RfcOption(delta, o.value)]
           ELSE [st EXCEPT !.skipped = delta]
  IN FoldLeft(Take, [skipped |-> 0, out |-> <<>>], options).out

\* Room for options: five bytes of header at most, and the value.
MaxEncodedLen(options) ==
  FoldLeft(LAMBDA n, o : n + 5 + Len(o.value), 0, options)

PayloadPart(payload) ==
  IF payload = <<>> THEN <<>> ELSE <<PayloadMarker>> \o payload

\* coap2buf: whether the options fit, and the message.
OptionsFit(options) == MaxEncodedLen(options) <= MAX_COAP_OPTIONS_LEN
coap2buf(type, code, tkl, token, options, payload) ==
  [type |-> type, code |-> code, tkl |-> tkl,
   bytes |-> token \o options_into_byte_string(options) \o PayloadPart(payload)]

-----------------------------------------------------------------------------
(* Reading options *)

\* One pass over the bytes first .. last, as in buf2options.  An extended
\* delta is the (low) byte MINUS 13 in 8 bits, for two extension bytes too
\* since 269 = 13 + 256; lenShift is what is added to an extended length.
ReadOptions(bytes, stray, first, last, lenShift) ==
  LET Width(nibble) == IF nibble < 13 THEN 0 ELSE nibble - 12
      Value(nibble, p, shift) ==
        IF nibble < 13 THEN nibble
        ELSE U8(At(bytes, stray, p + Width(nibble) - 1) + shift)
      from[p \in first .. last + 1] ==
        IF p > last THEN [err |-> "ok", options |-> <<>>]
        ELSE LET d == At(bytes, stray, p) \div 16
                 l == At(bytes, stray, p) % 16
                 length == Value(l, p + 1 + Width(d), lenShift)
                 start == p + 1 + Width(d) + Width(l)
                 option == [delta |-> Value(d, p + 1, -13), number |-> 0,
                            value |-> [k \in 1 .. length |->
                                         At(bytes, stray, start + k - 1)]]
                 rest == from[IF start + length > last + 1 THEN last + 1
                              ELSE start + length]
             IN CASE d = 15 -> [err |-> "oscore_inpkt_invalid_option_delta",
                                options |-> <<>>]
                  [] d # 15 /\ l = 15 -> [err |-> "oscore_inpkt_invalid_optionlen",
                                         options |-> <<>>]
                  [] OTHER -> [rest EXCEPT !.options = <<option>> \o @]
      read == from[first]
  IN [read EXCEPT !.options = Numbered(@)]

\* The first payload marker at or after first, inside an option or not; one
\* past the end if there is none.
MarkerPos(bytes, first) ==
  LET after == SelectInSubSeq(bytes, first, Len(bytes),
                              LAMBDA b : b = PayloadMarker)
  IN IF after = 0 THEN Len(bytes) + 1 ELSE after

\* buf2coap.  A message that ends after its token leaves options_cnt unset:
\* stray says whether the caller sees no option or one that is not there.
buf2coap(msg, stray) ==
  LET first == msg.tkl + 1
      marker == MarkerPos(msg.bytes, first)
      read == ReadOptions(msg.bytes, stray, first, marker - 1, 13)
      unset == IF stray = 0 THEN <<>>
               ELSE <<[delta |-> stray, number |-> stray, value |-> <<>>]>>
  IN IF msg.bytes # <<>> /\ msg.tkl > 8
     THEN [err |-> "oscore_inpkt_invalid_tkl"]
     ELSE [err |-> read.err,
           token |-> SubSeq(msg.bytes, 1, msg.tkl),
           options |-> IF Len(msg.bytes) < first THEN unset ELSE read.options,
           payload |-> SubSeq(msg.bytes, marker + 1, Len(msg.bytes))]

-----------------------------------------------------------------------------
(* coap2oscore *)

\* The length of the plaintext as it is computed from the incoming options,
\* before the class E ones are written.
ExtraBytes(n) == IF n <= 13 THEN 0 ELSE IF n < 243 THEN 1 ELSE 2

PlaintextLen_NoCode(options, payload) ==
  FoldLeft(LAMBDA n, o : n + 1 + Len(o.value), Len(PayloadPart(payload)),
           OptionsOf(options, ClassENumbers))
PlaintextLen(options, payload) ==
  FoldLeft(LAMBDA n, o : n + 1 + ExtraBytes(o.delta)
                           + ExtraBytes(Len(o.value)) + Len(o.value),
           1 + Len(PayloadPart(payload)),
           OptionsOf(options, ClassENumbers))

\* plaintext_setup: code, class E options and payload in a buffer of len bytes;
\* what does not fit in len is written behind it and not encrypted.
plaintext_setup_NoLimit(code, options, payload, len) ==
  [err |-> "ok", plaintext |->
     <<code>> \o options_into_byte_string(options) \o PayloadPart(payload)]
plaintext_setup(code, options, payload, len) ==
  LET written == options_into_byte_string(options)
  IN IF \/ MaxEncodedLen(options) > MAX_E_OPTIONS
        \/ ~ DestFits(len - 1, Len(written))
        \/ payload # <<>> /\ ~ DestFits(len - 2 - Len(written), Len(payload))
     THEN [err |-> "buffer_to_small"]
     ELSE [err |-> "ok",
           plaintext |-> SubSeq(<<code>> \o written \o PayloadPart(payload),
                                1, len)]

\* oscore_pkg_generate: the OSCORE option goes before the first class U option
\* with a greater number.
WithOscoreOption(options, value) ==
  LET oscore == [delta |-> 0, number |-> COAP_OPTION_OSCORE, value |-> value]
      after == SelectInSeq(options, LAMBDA o : o.number > COAP_OPTION_OSCORE)
      position == IF after = 0 THEN Len(options) + 1 ELSE after
  IN Renumber(InsertAt(options, position, oscore))

Ciphertext(plaintext) == plaintext \o [k \in 1 .. AUTH_TAG_LEN |-> 0]

IsRequest(code) == code < 32
IsEmptyAck_AnyType(msg) == msg.code = 0
IsEmptyAck(msg) == msg.type = "ACK" /\ msg.code = 0

\* oscoreValue is the value that oscore_option_generate gives a request.
\* sealed is what the peer must read for the decryption to succeed.
coap2oscore(msg, oscoreValue, stray) ==
  LET in == buf2coap(msg, stray)
      value == IF IsRequest(msg.code) THEN oscoreValue ELSE <<>>
      len == PlaintextLen(in.options, in.payload)
      setup == plaintext_setup(msg.code, ClassE(in.options), in.payload, len)
      outer == WithOscoreOption(ClassU(in.options), value)
  IN IF in.err # "ok" THEN [err |-> in.err]
     ELSE IF IsEmptyAck(msg) THEN [err |-> "ok", msg |-> msg]
     ELSE IF len > MAX_PLAINTEXT_LEN THEN [err |-> "buffer_to_small"]
     ELSE IF setup.err # "ok" THEN [err |-> setup.err]
     ELSE IF ~ OptionsFit(outer) THEN [err |-> "buffer_to_small"]
     ELSE [err |-> "ok", sealed |-> <<value, Ciphertext(setup.plaintext)>>,
           msg |-> coap2buf(msg.type, IF IsRequest(msg.code) THEN 2 ELSE 68,
                     msg.tkl, in.token, outer, Ciphertext(setup.plaintext))]

-----------------------------------------------------------------------------
(* oscore2coap *)

\* oscore_decrypted_payload_parser: code, class E options, payload.  Extended
\* lengths are read MINUS 13 here.
oscore_decrypted_payload_parser(plaintext, stray) ==
  LET marker == MarkerPos(plaintext, 2)
      read == ReadOptions(plaintext, stray, 2, marker - 1, -13)
  IN [err |-> read.err, code |-> plaintext[1], options |-> read.options,
      payload |-> SubSeq(plaintext, marker + 1, Len(plaintext))]

\* The numbers in increasing order: each at the place of its rank.
Rank(numbers, k) ==
  Cardinality({j \in DOMAIN numbers : \/ numbers[j] < numbers[k]
                                      \/ numbers[j] = numbers[k] /\ j <= k})
Increasing(numbers) ==
  [i \in DOMAIN numbers |->
     numbers[CHOOSE k \in DOMAIN numbers : Rank(numbers, k) = i]]

\* options_from_oscore_reorder: for each number in increasing order, the next
\* option of the packet if it has that number, else the next class E option
\* if it has.  The OSCORE option has none of the numbers and is never passed.
NotOscore == (0 .. 255) \ {COAP_OPTION_OSCORE}
options_from_oscore_reorder_InnerFirst(outer, inner, stray) ==
  Renumber(inner \o OptionsOf(outer, NotOscore))
options_from_oscore_reorder(outer, inner, stray) ==
  LET both == OptionsOf(outer, NotOscore) \o inner
      unwritten == [delta |-> stray, number |-> stray, value |-> <<>>]
      Nth(options, k) == IF k \in DOMAIN options THEN options[k] ELSE unwritten
      Take(st, number) ==
        IF number = Nth(outer, st.u).number
        THEN [st EXCEPT !.u = @ + 1, !.out = Append(@, Nth(outer, st.u))]
        ELSE IF number = Nth(inner, st.e).number
        THEN [st EXCEPT !.e = @ + 1, !.out = Append(@, Nth(inner, st.e))]
        ELSE st
  IN Renumber(FoldLeft(Take, [u |-> 1, e |-> 1, out |-> <<>>],
                Increasing([k \in DOMAIN both |-> both[k].number])).out)

OscoreValues(options) ==
  {options[k].value : k \in {n \in DOMAIN options :
                               options[n].number = COAP_OPTION_OSCORE}}

\* A payload or an OSCORE option other than the ones sealed does not decrypt.
oscore2coap(msg, sealed, stray) ==
  LET in == buf2coap(msg, stray)
      plaintext == SubSeq(in.payload, 1, Len(in.payload) - AUTH_TAG_LEN)
      inner == oscore_decrypted_payload_parser(plaintext, stray)
      options == options_from_oscore_reorder(in.options, inner.options, stray)
  IN IF in.err # "ok" THEN [err |-> in.err, oscore |-> FALSE]
     ELSE IF OscoreValues(in.options) = {}
     THEN [err |-> "ok", oscore |-> FALSE]
     ELSE IF <<OscoreValues(in.options), in.payload>> # <<{sealed[1]}, sealed[2]>>
     THEN [err |-> "decryption failed", oscore |-> TRUE]
     ELSE IF inner.err # "ok" THEN [err |-> inner.err, oscore |-> TRUE]
     ELSE IF \/ Len(in.options) + Len(inner.options) - 1 > MAX_OPTION_COUNT
             \/ ~ OptionsFit(options)
     THEN [err |-> "buffer_to_small", oscore |-> TRUE]
     ELSE [err |-> "ok", oscore |-> TRUE,
           msg |-> coap2buf(msg.type, inner.code, msg.tkl, in.token, options,
                            inner.payload)]
=============================================================================
