---------------------------- MODULE OscoreContext ----------------------------
(***************************************************************************)
(* The OSCORE security context (struct context) and the functions that     *)
(* read and change it.  Every function of the code that can fail is an     *)
(* operator that returns [err |-> ..., ctx |-> ...]: the context is part   *)
(* of the result also when the function fails, because the code writes it  *)
(* step by step and returns in the middle.                                 *)
(*                                                                         *)
(* A byte takes Byte values (256 in the code).  Cryptography is symbolic:  *)
(* a derived key or IV is the tuple of what it was derived from, a nonce   *)
(* the tuple of what is XORed into it, and decryption succeeds if and only *)
(* if key, nonce and AAD are those of the encryption.                      *)
(***************************************************************************)
EXTENDS Naturals, Sequences, ReplayWindow

CONSTANTS
  Byte,          \* number of values of a byte; 256 in the code
  WindowLen,     \* REPLAY_WINDOW_LEN; 32 in the code
  ClientId,      \* Sender ID of the client, Recipient ID of the server
  ServerId,      \* Sender ID of the server, Recipient ID of the client
  KidLen,        \* length of ClientId in bytes
  IdContexts,    \* the ID Contexts that occur
  IdLen          \* the length in bytes of each of them

ASSUME ByteAssumption == Byte \in Nat /\ Byte >= 2
ASSUME WindowLenAssumption == WindowLen \in Nat /\ WindowLen >= 2
ASSUME IdsAssumption == ClientId # ServerId
\* oscore_context_init copies the KID into a buffer of MAX_KID_LEN bytes.
ASSUME KidLenAssumption == KidLen \in 0 .. 7
ASSUME IdLenAssumption == IdLen \in [IdContexts -> Nat]

MAX_PIV_LEN == 5
MAX_KID_CONTEXT_LEN == 8
MAX_AAD_LEN == 30
OSCORE_OPT_VALUE_LEN == 22
ENCRYPT0_ENCODING_OVERHEAD == 16

-----------------------------------------------------------------------------
(* Partial IV, nonce and AAD                                               *)

\* Weight[i] is the weight of byte i of a uint64_t, least significant first.
Weight ==
  LET b2 == Byte * Byte
      b4 == b2 * b2
  IN  <<1, Byte, b2, b2 * Byte, b4, b4 * Byte, b4 * b2, b4 * b2 * Byte>>

\* The number of values of a uint64_t.
U64 == Weight[8] * Byte

\* The bytes that sender_seq_num2piv copies: up to the most significant one
\* that is not zero, one byte for the number 0.
UsedBytes(ssn) ==
  CHOOSE n \in 1 .. 8 : /\ n = 1 \/ ssn >= Weight[n]
                        /\ n = 8 \/ ssn < Weight[n + 1]

\* The bytes of ssn in host order: least significant byte first.
LittleEndian(ssn) ==
  [i \in 1 .. UsedBytes(ssn) |-> (ssn \div Weight[i]) % Byte]

\* sender_seq_num2piv: the Partial IV goes to c->rrc.piv if it fits.
sender_seq_num2piv(ssn, c) ==
  IF UsedBytes(ssn) > MAX_PIV_LEN
  THEN [err |-> "buffer_to_small", ctx |-> c]
  ELSE [err |-> "ok", ctx |-> [c EXCEPT !.piv = LittleEndian(ssn)]]

\* padded_piv of create_nonce: the PIV at the right end of MAX_PIV_LEN zeros.
LeftPad(piv) ==
  [i \in 1 .. MAX_PIV_LEN |->
     IF i > MAX_PIV_LEN - Len(piv) THEN piv[i - (MAX_PIV_LEN - Len(piv))]
     ELSE 0]

\* Mutant: the copy of the PIV into padded_piv is missing.
create_nonce_NoPiv(kid, piv, common_iv) == <<common_iv, kid, LeftPad(<<>>)>>

\* create_nonce.
create_nonce(kid, piv, common_iv) == <<common_iv, kid, LeftPad(piv)>>

\* The CBOR array [1, [10], kid, piv, h'']: seven bytes of heads and numbers.
AadLen(piv) == 7 + KidLen + Len(piv)

\* Mutant: the capacity is the size of the buffer on every call.
create_aad_FullBuffer(c) ==
  [err |-> "ok",
   ctx |-> [c EXCEPT !.aad = <<c.kid, c.piv, TRUE>>,
                     !.aad_len = AadLen(c.piv)]]

\* create_aad: aad_len is at once the capacity that the encoder is given and
\* the length of what it wrote.  When the array does not fit, the buffer has
\* been overwritten up to its end and the length stays (an AAD marked FALSE).
create_aad(c) ==
  IF AadLen(c.piv) <= c.aad_len
  THEN [err |-> "ok",
        ctx |-> [c EXCEPT !.aad = <<c.kid, c.piv, TRUE>>,
                          !.aad_len = AadLen(c.piv)]]
  ELSE [err |-> "unexpected_result_from_ext_lib",
        ctx |-> [c EXCEPT !.aad = <<c.kid, c.piv, FALSE>>]]

-----------------------------------------------------------------------------
(* Key derivation, initialisation and update of the context                *)

\* derive with type IV: HKDF over the ID Context and the empty identifier.
derive_common_iv(id_context) == <<"IV", id_context>>

\* derive with type KEY: HKDF over the ID Context and the owner's identifier.
derive_key(id_context, id) == <<"KEY", id_context, id>>

derive_sender_key(c) ==
  [c EXCEPT !.sender_key = derive_key(c.id_context, c.sender_id)]

derive_recipient_key(c) ==
  [c EXCEPT !.recipient_key = derive_key(c.id_context, c.recipient_id)]

\* oscore_context_init with the supported algorithms.  The nonce and AAD
\* buffers hold nothing that was derived yet; their lengths are their sizes.
oscore_context_init(dev, id_context) ==
  LET sender_id == IF dev = "CLIENT" THEN ClientId ELSE ServerId
      recipient_id == IF dev = "CLIENT" THEN ServerId ELSE ClientId
  IN  [id_context     |-> id_context,
       common_iv      |-> derive_common_iv(id_context),
       sender_id      |-> sender_id,
       sender_key     |-> derive_key(id_context, sender_id),
       sender_seq_num |-> 0,
       recipient_id   |-> recipient_id,
       recipient_key  |-> derive_key(id_context, recipient_id),
       replay_window  |-> [i \in 1 .. WindowLen |-> 0],
       nonce          |-> <<>>,
       aad            |-> <<>>,
       aad_len        |-> MAX_AAD_LEN,
       piv            |-> <<>>,
       kid_context    |-> id_context,
       kid            |-> ClientId]

\* The part of context_update that both roles share: nonce, then AAD.
UpdateNonceAndAad(c) ==
  create_aad([c EXCEPT !.nonce = create_nonce(c.kid, c.piv, c.common_iv)])

\* Mutant: the recipient key is not derived again.
UpdateIdContext_OldRecipientKey(c, new) ==
  IF IdLen[new] > IdLen[c.id_context]
  THEN [err |-> "buffer_to_small", ctx |-> [c EXCEPT !.kid_context = new]]
  ELSE [err |-> "ok",
        ctx |-> derive_sender_key([c EXCEPT !.kid_context = new,
                                            !.id_context = new,
                                            !.common_iv = derive_common_iv(new)])]

\* The server's change of ID Context.  The destination size of the copy into
\* cc.id_context is its current length, and rrc.kid_context is written first.
UpdateIdContext(c, new) ==
  IF IdLen[new] > MAX_KID_CONTEXT_LEN
  THEN [err |-> "buffer_to_small", ctx |-> c]
  ELSE IF IdLen[new] > IdLen[c.id_context]
  THEN [err |-> "buffer_to_small", ctx |-> [c EXCEPT !.kid_context = new]]
  ELSE [err |-> "ok",
        ctx |-> derive_recipient_key(derive_sender_key(
                  [c EXCEPT !.kid_context = new,
                            !.id_context = new,
                            !.common_iv = derive_common_iv(new)]))]

\* context_update(CLIENT, ...): piv has been written by the caller.
context_update_client(c) == UpdateNonceAndAad(c)

\* Mutant: an early return when the ID Context has not changed.
context_update_server_EarlyReturn(c, new_piv, new_kid_context) ==
  LET c1 == [c EXCEPT !.piv = new_piv]
      u  == UpdateIdContext(c1, new_kid_context)
  IN  IF c1.id_context = new_kid_context THEN [err |-> "ok", ctx |-> c1]
      ELSE IF u.err # "ok" THEN u ELSE UpdateNonceAndAad(u.ctx)

\* context_update(SERVER, ...).
context_update_server(c, new_piv, new_kid_context) ==
  LET c1 == [c EXCEPT !.piv = new_piv]
      u  == IF c1.id_context = new_kid_context
            THEN [err |-> "ok", ctx |-> c1]
            ELSE UpdateIdContext(c1, new_kid_context)
  IN  IF u.err # "ok" THEN u ELSE UpdateNonceAndAad(u.ctx)

-----------------------------------------------------------------------------
(* Encryption, decryption and the OSCORE option on the wire                *)

\* The bound of oscore_cose_encrypt and oscore_cose_decrypt on the AAD.
CoseAadFits(c) == c.aad_len + ENCRYPT0_ENCODING_OVERHEAD <= MAX_AAD_LEN

\* get_oscore_opt_val_len: the flag byte, the PIV, the ID Context after its
\* length byte (if there is one) and the KID.
get_oscore_opt_val_len(c) ==
  1 + Len(c.piv) + KidLen
    + (IF IdLen[c.kid_context] > 0 THEN 1 + IdLen[c.kid_context] ELSE 0)

\* options_into_byte_string writes an option length from 13 on as length + 13
\* in an extra byte and buf2options adds 13 again, so that the KID at the end
\* of the option value comes out 26 bytes too long.
ReadKid(m) == IF m.opt_len >= 13 THEN <<"longer", m.kid>> ELSE m.kid

\* buf2coap takes the first byte 0xFF as the payload marker, inside an option
\* too: from a PIV that holds one, everything behind it becomes the payload.
MarkerInOption(m) == \E i \in DOMAIN m.piv : m.piv[i] = Byte - 1

\* oscore_cose_decrypt with the context's parameters.
Decrypts(c, m, intact) ==
  /\ CoseAadFits(c)
  /\ intact
  /\ m.key = c.recipient_key
  /\ m.nonce = c.nonce
  /\ m.aad = c.aad

-----------------------------------------------------------------------------
(* The two conversions                                                     *)

\* What oscore_option_generate and plaintext_encrypt put into a request.
RequestPacket(c, plain) ==
  [kid |-> c.kid, piv |-> c.piv, kid_context |-> c.kid_context,
   opt_len |-> get_oscore_opt_val_len(c),
   key |-> c.sender_key, nonce |-> c.nonce, aad |-> c.aad, plain |-> plain]

\* Mutant: the sequence number is used and not incremented.
coap2oscore_request_NoIncrement(c) ==
  LET p == sender_seq_num2piv(c.sender_seq_num, c)
      u == IF p.err # "ok" THEN p ELSE context_update_client(p.ctx)
  IN  IF u.err = "ok" /\ ~CoseAadFits(u.ctx)
      THEN [err |-> "buffer_to_small", ctx |-> u.ctx] ELSE u

\* Mutant: the sequence number is incremented before and after its use.
coap2oscore_request_TwoIncrements(c) ==
  LET p == sender_seq_num2piv(c.sender_seq_num + 1,
             [c EXCEPT !.sender_seq_num = (c.sender_seq_num + 2) % U64])
      u == IF p.err # "ok" THEN p ELSE context_update_client(p.ctx)
  IN  IF u.err = "ok" /\ ~CoseAadFits(u.ctx)
      THEN [err |-> "buffer_to_small", ctx |-> u.ctx] ELSE u

\* coap2oscore for a request whose plaintext fits its buffer, up to the call
\* of coap2buf: the sequence number is consumed before anything can fail.
coap2oscore_request(c) ==
  LET p == sender_seq_num2piv(c.sender_seq_num,
             [c EXCEPT !.sender_seq_num = (c.sender_seq_num + 1) % U64])
      u == IF p.err # "ok" THEN p ELSE context_update_client(p.ctx)
  IN  IF u.err # "ok" THEN u
      ELSE IF get_oscore_opt_val_len(u.ctx) > OSCORE_OPT_VALUE_LEN
           THEN [err |-> "oscore_valuelen_to_long_error", ctx |-> u.ctx]
      ELSE IF ~CoseAadFits(u.ctx)
           THEN [err |-> "buffer_to_small", ctx |-> u.ctx]
      ELSE u

\* coap2oscore for a response: an empty OSCORE option, the stored parameters
\* and no change of the context.
ResponsePacket(c, plain) ==
  [key |-> c.sender_key, nonce |-> c.nonce, aad |-> c.aad, plain |-> plain]

\* oscore2coap for a request, up to and including update_replay_window.  The
\* window is given the first byte of the PIV.
oscore2coap_request(c, m, intact) ==
  IF ReadKid(m) # c.recipient_id
  THEN [err |-> "oscore_kid_recipent_id_mismatch", ctx |-> c]
  ELSE IF replay_check(m.piv[1], c.replay_window) # "ok"
  THEN [err |-> "replayed_packed_received", ctx |-> c]
  ELSE
    LET u == context_update_server(c, m.piv, m.kid_context)
    IN  IF u.err # "ok" THEN u
        ELSE IF ~Decrypts(u.ctx, m, intact /\ ~MarkerInOption(m))
        THEN [err |-> "decryption_failed", ctx |-> u.ctx]
        ELSE [err |-> "ok",
              ctx |-> [u.ctx EXCEPT !.replay_window =
                         update_replay_window(m.piv[1], @)]]

\* oscore2coap for a response: no KID, replay or context step.
oscore2coap_response(c, m, intact) ==
  IF Decrypts(c, m, intact) THEN "ok" ELSE "decryption_failed"

-----------------------------------------------------------------------------
(* Names for contexts and requests                                         *)

\* The members of struct context that the model keeps.
ContextFields ==
  {"id_context", "common_iv", "sender_id", "sender_key", "sender_seq_num",
   "recipient_id", "recipient_key", "replay_window", "nonce", "aad",
   "aad_len", "piv", "kid_context", "kid"}

IsContext(c) == c = [f \in ContextFields |-> c[f]]

\* The Partial IV of a number below Byte.
OneBytePiv(n) == [k \in 1 .. 1 |-> n]

\* The request that coap2oscore makes of a payload and sequence number
\* n < Byte while the client's ID Context is i.
RequestFor(i, n, plain) ==
  [kid |-> ClientId, piv |-> OneBytePiv(n), kid_context |-> i,
   opt_len |-> 2 + KidLen + (IF IdLen[i] > 0 THEN 1 + IdLen[i] ELSE 0),
   key |-> derive_key(i, ClientId),
   nonce |-> create_nonce(ClientId, OneBytePiv(n), derive_common_iv(i)),
   aad |-> <<ClientId, OneBytePiv(n), TRUE>>,
   plain |-> plain]
=============================================================================
