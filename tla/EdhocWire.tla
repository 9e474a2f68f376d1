------------------------------ MODULE EdhocWire ------------------------------
(***************************************************************************)
(* EDHOC runs with encoded messages: the linux_edhoc responder, which runs *)
(* the protocol in a loop with the same buffers, and initiators with       *)
(* contexts of their own that send to it.  Every message is encoded,       *)
(* parsed, and its credentials looked up as in EdhocCodec and Credentials. *)
(* The network is reliable; messages of two initiators may interleave.     *)
(*                                                                         *)
(* An initiator's context c is                                             *)
(*   [method, suites_i, c_i, x, ead_1, ead_3, id_cred_i, cred_i, i, sk_i,  *)
(*    cred_r_array], the responder's                                       *)
(*   [suites_r, c_r, y, ead_2, ead_4, id_cred_r, cred_r, r, sk_r,          *)
(*    cred_i_array].                                                       *)
(***************************************************************************)
EXTENDS EdhocCodec

CONSTANTS Contexts,           \* the initiators' contexts, as sequences
          ResponderContexts,  \* the contexts the responder may have
          AD_DEFAULT_SIZE     \* the size of the buffers for EAD

ASSUME AdAssumption == AD_DEFAULT_SIZE \in Nat

\* What struct edhoc_initiator_context and edhoc_responder_context hold: suites
\* are uint8_t, a C_x is an int or bytes, an ID_CRED_x is one map, a CRED_x
\* encoded data.
IsSeq(s) == s \in Seq({s[k] : k \in DOMAIN s})
IsCx(c_x) == c_x[1] = "int" \/ (c_x = bstr(c_x[2]) /\ IsSeq(c_x[2]))
IsEntry(entry) == entry = <<entry[1], <<entry[2][1], entry[2][2]>>>>
IsIdCred(id_cred) ==
  /\ id_cred = <<map(id_cred[1][2])>> /\ IsSeq(id_cred[1][2])
  /\ \A k \in DOMAIN id_cred[1][2] : IsEntry(id_cred[1][2][k])
IsCred(cred) == IsSeq(cred) /\ \A k \in DOMAIN cred : cred[k][1] # "raw"
IsCredArray(cred_array) ==
  IsSeq(cred_array) /\ \A k \in DOMAIN cred_array : IsCred(cred_array[k].cred)

InitiatorContexts ==
  UNION {{contexts[k] : k \in DOMAIN contexts} : contexts \in Contexts}

ASSUME ContextsAssumption ==
  /\ Contexts \subseteq Seq(InitiatorContexts)
  /\ \A c \in InitiatorContexts :
       /\ c.suites_i \in Seq(0 .. 255) /\ IsCx(c.c_i)
       /\ c.ead_1 \in Seq(STRING) /\ c.ead_3 \in Seq(STRING)
       /\ IsIdCred(c.id_cred_i) /\ IsCred(c.cred_i) /\ IsCredArray(c.cred_r_array)
  /\ \A c \in ResponderContexts :
       /\ IsCx(c.c_r)
       /\ IsIdCred(c.id_cred_r) /\ IsCred(c.cred_r) /\ IsCredArray(c.cred_i_array)

VARIABLES initiator,    \* the initiators, in the order of Contexts
          responder,
          inbox,        \* datagrams to the responder: <<sender, message>>
          reply         \* what was sent to each initiator

vars == <<initiator, responder, inbox, reply>>

Garbage == <<raw(<<"garbage">>)>>

-----------------------------------------------------------------------------
(* What a party computes from a message                                    *)

prk_2e(suite, a, b) ==
  Terms!prk_derive(TRUE, <<>>, Terms!shared_secret_derive(suite, a, b))
prk_next(static_dh, suite, prk, a, b) ==
  Terms!prk_derive(static_dh, prk, Terms!shared_secret_derive(suite, a, b))

\* A context for the other kind of authentication has a NULL pointer here: the
\* process dies or the cryptographic library returns an error.
MissingKey(static_dh, dh_key, signature_key) ==
  NoKey = IF static_dh THEN dh_key ELSE signature_key

msg2_encode(g_y, c_r, ciphertext_2) == cbor_encode_m2(g_y, ciphertext_2, c_r)
msg2_parse(msg2) ==
  {[m EXCEPT !.c_r = c_x_set(m.c_r, Len(m.c_r[2]))] : m \in cbor_decode_m2(msg2)}

selected_suite_is_supported(selected, suites_r) ==
  \E k \in DOMAIN suites_r : suites_r[k] = selected

\* p is what msg1_parse returned.
msg2_gen(c, msg1, p) ==
  LET selected == Last(p.suites_i)
      suite == Terms!get_suite(selected)
      static_dh_r == Terms!static_dh_r(p.method)
      th2 == th2_calculate(msg1, c.y, c.c_r)
      PRK_2e == prk_2e(suite, c.y, p.g_x)
      PRK_3e2m == prk_next(static_dh_r, suite, PRK_2e, p.g_x, c.r)
      sign_or_mac_2 == signature_or_mac(suite, static_dh_r, c.sk_r, PRK_3e2m,
                         th2, "MAC_2", c.id_cred_r, c.cred_r, c.ead_2)
      plaintexts == plaintext_encode(c.id_cred_r, sign_or_mac_2, c.ead_2)
      ciphertext_2 == encrypt(Terms!CIPHERTEXT2, PRK_2e, th2,
                              CHOOSE ptxt \in plaintexts : TRUE)
  IN  IF ~ selected_suite_is_supported(selected, c.suites_r)
        THEN Failed("error_message_sent")
      ELSE IF MissingKey(static_dh_r, c.r, c.sk_r) THEN Failed("no_key")
      ELSE IF plaintexts = {} THEN Failed("unexpected_result_from_ext_lib")
      ELSE [err |-> "ok", th3 |-> th3_calculate(th2, ciphertext_2),
            PRK_3e2m |-> PRK_3e2m,
            msg2 |-> msg2_encode(c.y, c.c_r, ciphertext_2)]

msg3_gen(c, msg1, msg2) ==
  LET suite == Terms!get_suite(Last(c.suites_i))
      static_dh_i == Terms!static_dh_i(c.method)
      static_dh_r == Terms!static_dh_r(c.method)
      m == CHOOSE m \in msg2_parse(msg2) : TRUE
      th2 == th2_calculate(msg1, m.g_y, m.c_r)
      PRK_2e == prk_2e(suite, c.x, m.g_y)
      parts == UNION {plaintext_split(ptxt, Garbage, AD_DEFAULT_SIZE) :
                ptxt \in decrypt(Terms!CIPHERTEXT2, PRK_2e, th2, m.ciphertext_2)}
      p == CHOOSE p \in parts : TRUE
      peer == retrieve_cred(static_dh_r, c.cred_r_array, p.id_cred)
      PRK_3e2m == prk_next(static_dh_r, suite, PRK_2e, c.x, peer.key)
      verified == p.sgn_or_mac =
                    signature_or_mac(suite, static_dh_r, peer.key, PRK_3e2m,
                      th2, "MAC_2", p.id_cred, peer.cred, p.ad)
      th3 == th3_calculate(th2, m.ciphertext_2)
      prk_4x3m == prk_next(static_dh_i, suite, PRK_3e2m, m.g_y, c.i)
      sign_or_mac_3 == signature_or_mac(suite, static_dh_i, c.sk_i, prk_4x3m,
                         th3, "MAC_3", c.id_cred_i, c.cred_i, c.ead_3)
      plaintexts == plaintext_encode(c.id_cred_i, sign_or_mac_3, c.ead_3)
      ciphertext_3 == encrypt(Terms!CIPHERTEXT3, PRK_3e2m, th3,
                              CHOOSE ptxt \in plaintexts : TRUE)
  IN  IF msg2_parse(msg2) = {} \/ parts = {}
        THEN Failed("unexpected_result_from_ext_lib")
      ELSE IF peer.err # "ok" THEN peer
      ELSE IF ~ verified THEN Failed("authentication_failed")
      ELSE IF MissingKey(static_dh_i, c.i, c.sk_i) THEN Failed("no_key")
      ELSE IF plaintexts = {} THEN Failed("unexpected_result_from_ext_lib")
      ELSE [err |-> "ok", prk_4x3m |-> prk_4x3m,
            th4 |-> th4_calculate(th3, ciphertext_3),
            accepted |-> <<p.id_cred, peer.cred>>,
            msg3 |-> cbor_encode_bstr_type_b_str(ciphertext_3)]

\* rc is the runtime context; leftover is what the buffer of id_cred_i holds.
msg3_process(c, rc, msg3, leftover, ead_3_len) ==
  LET suite == rc.suite
      ciphertexts == cbor_decode_bstr_type_b_str(msg3)
      ciphertext_3 == CHOOSE ciphertext \in ciphertexts : TRUE
      parts == UNION {plaintext_split(ptxt, leftover, ead_3_len) :
                ptxt \in decrypt(Terms!CIPHERTEXT3, rc.PRK_3e2m, rc.th3,
                                 ciphertext_3)}
      p == CHOOSE p \in parts : TRUE
      peer == retrieve_cred(rc.static_dh_i, c.cred_i_array, p.id_cred)
      prk_4x3m == prk_next(rc.static_dh_i, suite, rc.PRK_3e2m, c.y, peer.key)
      verified == p.sgn_or_mac =
                    signature_or_mac(suite, rc.static_dh_i, peer.key, prk_4x3m,
                      rc.th3, "MAC_3", p.id_cred, peer.cred, p.ad)
  IN  IF ciphertexts = {} \/ parts = {}
        THEN Failed("unexpected_result_from_ext_lib")
      ELSE IF peer.err # "ok" THEN peer
      ELSE IF ~ verified THEN Failed("authentication_failed")
      ELSE [err |-> "ok", prk_4x3m |-> prk_4x3m, ead_3_len |-> Len(p.ad),
            th4 |-> th4_calculate(rc.th3, ciphertext_3),
            accepted |-> <<p.id_cred, peer.cred>>]

msg4_gen(c, prk_4x3m, th4) ==
  cbor_encode_bstr_type_b_str(
    encrypt(Terms!CIPHERTEXT4, prk_4x3m, th4, <<raw(c.ead_4)>>))

\* Does message 4 open, and is its EAD_4 empty or a byte string?
msg4_process(msg4, prk_4x3m, th4) ==
  \E ciphertext \in cbor_decode_bstr_type_b_str(msg4) :
    \E ptxt \in decrypt(Terms!CIPHERTEXT4, prk_4x3m, th4, ciphertext) :
      \/ ptxt[1][2] = <<>>
      \/ cbor_decode_bstr_type_b_str(<<Read(ptxt[1])>>) # {}

-----------------------------------------------------------------------------
(* The initiator                                                           *)

Initiators == 1 .. Len(initiator)

edhoc_initiator_run_Init(c) ==
  [c |-> c, pc |-> "start", msg1 |-> <<>>, prk_4x3m |-> <<>>, th4 |-> <<>>,
   accepted |-> <<>>]

Send(k, msg) == inbox' = Append(inbox, <<k, msg>>)

\* msg1_gen and tx.
InitiatorStart(k) ==
  /\ initiator[k].pc = "start"
  /\ \E msg1 \in msg1_gen(initiator[k].c) :
       /\ initiator' = [initiator EXCEPT ![k].pc = "message_2", ![k].msg1 = msg1]
       /\ Send(k, msg1)
  /\ UNCHANGED <<responder, reply>>

\* rx, msg3_gen and tx; an error ends the run.
InitiatorMessage2(k) ==
  /\ initiator[k].pc = "message_2" /\ reply[k] # <<>>
  /\ reply' = [reply EXCEPT ![k] = Tail(@)]
  /\ LET i == initiator[k]
         m == msg3_gen(i.c, i.msg1, Head(reply[k]))
     IN  \/ /\ m.err # "ok"
            /\ initiator' = [initiator EXCEPT ![k].pc = "failed"]
            /\ UNCHANGED inbox
         \/ /\ m.err = "ok"
            /\ initiator' = [initiator EXCEPT ![k].pc = "message_4",
                 ![k].prk_4x3m = m.prk_4x3m, ![k].th4 = m.th4,
                 ![k].accepted = m.accepted]
            /\ Send(k, m.msg3)
  /\ UNCHANGED responder

\* rx and msg4_process: the samples set msg4.
InitiatorMessage4(k) ==
  /\ initiator[k].pc = "message_4" /\ reply[k] # <<>>
  /\ reply' = [reply EXCEPT ![k] = Tail(@)]
  /\ initiator' = [initiator EXCEPT ![k].pc =
       IF msg4_process(Head(reply[k]), initiator[k].prk_4x3m, initiator[k].th4)
         THEN "done" ELSE "failed"]
  /\ UNCHANGED <<responder, inbox>>

-----------------------------------------------------------------------------
(* The responder                                                           *)

\* main: the buffers for the EADs live as long as the loop.
responder_main(c) ==
  [c |-> c, pc |-> "message_1", peer |-> 0, view |-> <<>>, rc |-> <<>>,
   ad_1 |-> <<>>, ad_1_len |-> AD_DEFAULT_SIZE, ad_3_len |-> AD_DEFAULT_SIZE,
   id_cred_i |-> Garbage, prk_4x3m |-> <<>>, th4 |-> <<>>, accepted |-> <<>>]

\* An error of edhoc_responder_run ends main.
Ends(r) == [r EXCEPT !.pc = "failed"]

\* Mutant: ad_1_len keeps the length of the EAD_1 before.
AfterEad1_KeepLength(r, ead_1) ==
  [r EXCEPT !.ad_1 = IF ead_1 = {} THEN @ ELSE CHOOSE ead \in ead_1 : TRUE]

\* EAD_1 goes to ad_1, its length to ad_1_len; both stay when there is none.
AfterEad1(r, ead_1) ==
  [r EXCEPT !.ad_1 = IF ead_1 = {} THEN @ ELSE CHOOSE ead \in ead_1 : TRUE,
            !.ad_1_len = IF ead_1 = {} THEN @
                         ELSE Len(CHOOSE ead \in ead_1 : TRUE)]

\* rx, msg2_gen and tx.
ResponderMessage1 ==
  /\ responder.pc = "message_1" /\ inbox # <<>>
  /\ inbox' = Tail(inbox)
  /\ LET peer == Head(inbox)[1]
         msg1 == Head(inbox)[2]
         r == [responder EXCEPT !.peer = peer]
         p == msg1_parse(msg1, r.ad_1_len)
         m == msg2_gen(r.c, msg1, p)
     IN  \/ /\ p.err # "ok"
            /\ responder' = Ends(r) /\ UNCHANGED reply
         \/ /\ p.err = "ok" /\ m.err # "ok"
            /\ responder' = Ends(AfterEad1(r, p.ead_1)) /\ UNCHANGED reply
         \/ /\ p.err = "ok" /\ m.err = "ok"
            /\ responder' = [AfterEad1(r, p.ead_1) EXCEPT !.pc = "message_3",
                 !.view = p,
                 !.rc = [suite |-> Terms!get_suite(Last(p.suites_i)),
                         th3 |-> m.th3,
                         static_dh_i |-> Terms!static_dh_i(p.method),
                         PRK_3e2m |-> m.PRK_3e2m]]
            /\ reply' = [reply EXCEPT ![peer] = Append(@, m.msg2)]
  /\ UNCHANGED initiator

\* rx, msg3_process, msg4_gen and tx; then the loop starts over.  The datagram
\* is the next one whoever sent it, and the reply goes to its sender.  An
\* ID_CRED_I that is not rebuilt leaves in the buffer whatever the stack held.
ResponderMessage3 ==
  /\ responder.pc = "message_3" /\ inbox # <<>>
  /\ inbox' = Tail(inbox)
  /\ \E leftover \in {Garbage, responder.id_cred_i \o Garbage} :
       LET r == responder
           peer == Head(inbox)[1]
           m == msg3_process(r.c, r.rc, Head(inbox)[2], leftover, r.ad_3_len)
       IN  \/ /\ m.err # "ok"
              /\ responder' = Ends([r EXCEPT !.peer = peer])
              /\ UNCHANGED reply
           \/ /\ m.err = "ok"
              /\ responder' = [r EXCEPT !.pc = "message_1", !.peer = peer,
                   !.rc = <<>>, !.ad_3_len = m.ead_3_len, !.id_cred_i = m.accepted[1],
                   !.accepted = m.accepted, !.prk_4x3m = m.prk_4x3m,
                   !.th4 = m.th4]
              /\ reply' = [reply EXCEPT ![peer] =
                   Append(@, msg4_gen(r.c, m.prk_4x3m, m.th4))]
  /\ UNCHANGED initiator

-----------------------------------------------------------------------------
Init ==
  /\ \E contexts \in Contexts :
       /\ initiator = [k \in DOMAIN contexts |->
                         edhoc_initiator_run_Init(contexts[k])]
       /\ reply = [k \in DOMAIN contexts |-> <<>>]
  /\ \E c \in ResponderContexts : responder = responder_main(c)
  /\ inbox = <<>>

Next ==
  \/ \E k \in Initiators :
       InitiatorStart(k) \/ InitiatorMessage2(k) \/ InitiatorMessage4(k)
  \/ ResponderMessage1
  \/ ResponderMessage3

Spec == Init /\ [][Next]_vars

-----------------------------------------------------------------------------
(* Properties                                                              *)

\* After a message 1 the responder knows what its sender put into it: method,
\* suites, key and EAD_1 (of a C_I that is a byte string the bytes are lost).
Message1AsSent ==
  responder.pc = "message_3" =>
    LET c == initiator[responder.peer].c
    IN  /\ responder.view.method = c.method
        /\ responder.view.suites_i = c.suites_i
        /\ responder.view.g_x = c.x
        /\ c.c_i[1] = "int" => responder.view.c_i = c.c_i
        /\ c.ead_1 # <<>> => /\ responder.ad_1 = c.ead_1
                             /\ responder.ad_1_len = Len(c.ead_1)

\* The ID_CRED and the credential a run ends with are those of the party at the
\* other end, though the ID_CRED travels in another form, the credential not at
\* all, and another device may use the same key or the same key identifier.
OnlySenderAuthenticated ==
  /\ \A k \in Initiators :
       initiator[k].pc \in {"message_4", "done"} =>
         initiator[k].accepted = <<responder.c.id_cred_r, responder.c.cred_r>>
  /\ responder.pc = "message_1" /\ responder.peer # 0 =>
       LET i == initiator[responder.peer]
       IN  /\ responder.accepted = <<i.c.id_cred_i, i.c.cred_i>>
           /\ <<responder.prk_4x3m, responder.th4>> = <<i.prk_4x3m, i.th4>>

\* A certificate is accepted only with the signature of a CA of the array whose
\* name its issuer's common name begins with.
SignedByKnownCa(cred_array, cert) ==
  \E k \in DOMAIN cred_array :
    /\ IsPrefix(cred_array[k].ca, issuer_id(cert))
    /\ cert[3] = sign("ES256", cred_array[k].ca_pk, cert[2])
CertificateNeedsCa ==
  responder.accepted # <<>> =>
    \A cred \in cbor_decode_id_cred_x_map(responder.accepted[1]) :
      x5chain \in DOMAIN cred =>
        SignedByKnownCa(responder.c.cred_i_array, cred[x5chain][2])

\* The contexts of which a run can succeed: the suite is supported and its list
\* fits, the keys are there for the method, each side can name its credential
\* in a message and the other side knows it, and there is no EAD that is
\* written as raw bytes but read as a byte string.
Carried(id_cred) ==
  \E cred \in cbor_decode_id_cred_x_map(id_cred) :
    \/ DOMAIN cred = {kid} \/ DOMAIN cred = {x5chain}
    \/ DOMAIN cred = {x5t} /\ cred[x5t][2][1][1] = "int"
Knows(static_dh, cred_array, id_cred, cred, key) ==
  LET found == retrieve_cred(static_dh, cred_array, id_cred)
  IN  found.err = "ok" /\ found.cred = cred /\ found.key = key
Fits(i, r) ==
  LET static_dh_i == Terms!static_dh_i(i.method)
      static_dh_r == Terms!static_dh_r(i.method)
      key_i == IF static_dh_i THEN i.i ELSE i.sk_i
      key_r == IF static_dh_r THEN r.r ELSE r.sk_r
  IN  /\ Len(i.suites_i) <= SUITES_I_LEN
      /\ selected_suite_is_supported(Last(i.suites_i), r.suites_r)
      /\ NoKey \notin {key_i, key_r}
      /\ Carried(i.id_cred_i) /\ Carried(r.id_cred_r)
      /\ Knows(static_dh_r, i.cred_r_array, r.id_cred_r, r.cred_r, key_r)
      /\ Knows(static_dh_i, r.cred_i_array, i.id_cred_i, i.cred_i, key_i)
      /\ r.ead_2 = <<>> /\ i.ead_3 = <<>>
      /\ r.ead_4 # <<>> => Head(r.ead_4) = "bstr"

\* A run fails only for a reason: the contexts do not fit, EAD_1 is longer than
\* what the runs before left of the buffer, or the message 1 of a second
\* initiator was taken for the message 3 of the first.
Interrupted ==
  responder.rc # <<>> /\ initiator[responder.peer].pc = "message_2"
FailureHasReason ==
  LET Reason(k) == \/ ~ Fits(initiator[k].c, responder.c)
                   \/ Len(initiator[k].c.ead_1) > responder.ad_1_len
  IN  /\ responder.pc = "failed" => Reason(responder.peer) \/ Interrupted
      /\ \A k \in Initiators : initiator[k].pc = "failed" => Reason(k)

\* Taking what was received last for the size of the buffer loses space from
\* run to run; the reverse would be an overflow.
BuffersNeverGrow ==
  [][/\ responder'.ad_1_len <= responder.ad_1_len
     /\ responder'.ad_3_len <= responder.ad_3_len]_vars
=============================================================================
