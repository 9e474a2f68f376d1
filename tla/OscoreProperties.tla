-------------------------- MODULE OscoreProperties --------------------------
(***************************************************************************)
(* What the exchange of module Oscore promises.                            *)
(***************************************************************************)
EXTENDS Oscore

\* Shape of the state.  The Partial IV, nonce and AAD are left to the
\* invariants that say what they contain.
TypeOK ==
  /\ IsContext(client) /\ IsContext(server)
  /\ client.id_context \in used /\ used \subseteq IdContexts
  /\ client.sender_seq_num \in 0 .. calls /\ calls \in 0 .. MaxCalls
  /\ client.aad_len \in 0 .. MAX_AAD_LEN
  /\ server.id_context \in IdContexts
  /\ server.aad_len \in 0 .. MAX_AAD_LEN
  /\ server.replay_window \in [1 .. WindowLen -> 0 .. Byte - 1]
  /\ accepted \subseteq requests
  /\ replayed \subseteq accepted
  /\ rejected \subseteq requests

\* No two requests that were sent are encrypted with the same key and nonce,
\* although the Partial IV is a little-endian number that create_nonce pads
\* on the left (1 and 256 would give the same nonce): coap2oscore and
\* create_aad stop sending before that happens.
RequestNonceUnique ==
  \A a, b \in requests : a.key = b.key /\ a.nonce = b.nonce => a = b

\* A response that oscore2coap accepts on the client answers the request that
\* the client sent last: late, duplicated and damaged responses are refused,
\* also after a request that consumed a sequence number and was never sent.
ResponseBinding == \A d \in delivered : d[1] = d[2]

\* Two responses under one key and nonce answer the same request: the server
\* never encrypts answers to two requests with the nonce of one of them.
ResponseNonceBinding ==
  \A a, b \in responses : a.key = b.key /\ a.nonce = b.nonce
                            => a.plain = b.plain

\* Both contexts always hold the keys and the IV of the ID Context they name,
\* whatever requests of an earlier or a later ID Context arrive and fail in
\* the middle of context_update.
KeysMatchIdContext ==
  \A c \in {client, server} :
    /\ c.common_iv = derive_common_iv(c.id_context)
    /\ c.sender_key = derive_key(c.id_context, c.sender_id)
    /\ c.recipient_key = derive_key(c.id_context, c.recipient_id)

\* The only undamaged requests that oscore2coap refuses are those whose
\* Partial IV holds the byte that buf2coap takes for the payload marker; what
\* arrived before, in which order and how damaged, makes no difference.
RefusedOnlyForMarker == \A m \in rejected : MarkerInOption(m)

\* coap2oscore protects the first Byte requests of a context and no later
\* one: after the first request, create_aad has room for one byte of PIV.
SendsExactlyOneBytePivs ==
  /\ \A n \in failed : n >= Byte
  /\ \A m \in requests : Len(m.piv) = 1

-----------------------------------------------------------------------------
(* The strengthening behind RequestNonceUnique                             *)

\* The client's context between two calls: everything but the sequence number
\* and the request-response parameters is a function of its ID Context, and
\* the AAD buffer, once used, has room for a Partial IV of one byte.
ClientInv ==
  /\ IsContext(client)
  /\ used \subseteq IdContexts /\ client.id_context \in used
  /\ calls \in 0 .. MaxCalls /\ client.sender_seq_num \in 0 .. calls
  /\ client.kid = ClientId
  /\ client.kid_context = client.id_context
  /\ client.common_iv = derive_common_iv(client.id_context)
  /\ client.sender_key = derive_key(client.id_context, ClientId)
  /\ client.aad_len = IF client.sender_seq_num = 0 THEN MAX_AAD_LEN
                      ELSE 8 + KidLen

\* Every request that was sent is RequestFor a number that its context has
\* already consumed, and no number of an ID Context was used for two.
RequestsInv ==
  /\ \A m \in requests :
       \E i \in used, n \in 0 .. Byte - 1 :
         /\ m = RequestFor(i, n, m.plain)
         /\ i = client.id_context => n < client.sender_seq_num
  /\ \A a, b \in requests :
       a.kid_context = b.kid_context /\ a.piv = b.piv => a = b

NonceInv == ClientInv /\ RequestsInv

-----------------------------------------------------------------------------
(* What comments of the code say, and the code does not do.                *)

\* oscore2coap: "check is the packet is replayed".
NoReplayAccepted == replayed = {}

-----------------------------------------------------------------------------
(* Progress                                                                *)

\* The request that the client waits for and the server can parse.
Waiting(m) == m.plain = current /\ ~MarkerInOption(m)

\* Fair-lossy network and a server that does answer: the client sends the
\* request it waits for again and again, so it is received undamaged some time,
\* an accepted request is answered, and the answer reaches the client.
Fairness ==
  /\ WF_vars(\E p \in pending, sent \in BOOLEAN : ServerResponse(p, sent))
  /\ SF_vars(\E m \in requests : m.plain = current /\ ServerRequest(m, TRUE, TRUE))
  /\ SF_vars(current \in pending /\ ServerResponse(current, TRUE))
  /\ SF_vars(\E m \in responses : m.plain = current /\ ClientResponse(m, TRUE))

FairSpec == Spec /\ Fairness

\* Every request that can be parsed is answered, unless the client moves on to
\* another request or initialises its context anew.
AnsweredOrSuperseded ==
  \A p \in Payloads :
    (\E m \in requests : m.plain = p /\ Waiting(m))
      ~> (<<p, p>> \in delivered \/ current # p)
=============================================================================
