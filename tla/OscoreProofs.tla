---------------------------- MODULE OscoreProofs ----------------------------
(***************************************************************************)
(* Proofs about module Oscore: the nonces of its requests, the type of     *)
(* both contexts, that their keys always belong to the ID Context they     *)
(* name, and then whole exchanges: which requests can be sent at all, to   *)
(* which request an accepted response belongs, and what a server refuses.  *)
(***************************************************************************)
EXTENDS OscoreProperties, OscoreContextLemmas

-----------------------------------------------------------------------------
(* Nonces of the requests                                                  *)

\* ClientInv and RequestsInv are inductive.
THEOREM NonceInvariant == Spec => []NonceInv
<1>1. Init => NonceInv
  <2> SUFFICES ASSUME Init PROVE NonceInv
    OBVIOUS
  <2>1. ClientIdContext \in IdContexts /\ MaxCalls \in Nat
    BY IdContextAssumption, MaxCallsAssumption
  <2>2. ClientInv
    BY <2>1, InitFacts DEF Init, ClientInv
  <2>3. RequestsInv
    BY DEF Init, RequestsInv
  <2> QED BY <2>2, <2>3 DEF NonceInv
<1>2. NonceInv /\ [Next]_vars => NonceInv'
  <2> SUFFICES ASSUME NonceInv, [Next]_vars PROVE NonceInv'
    OBVIOUS
  <2> USE DEF NonceInv
  <2>1. ASSUME NEW sent \in BOOLEAN, ClientRequest(sent) PROVE NonceInv'
    <3> DEFINE i == client.id_context
               n == client.sender_seq_num
               plain == calls + 1
               r == coap2oscore_request(client)
               new == RequestFor(i, n, plain)
    <3>1. /\ i \in IdContexts /\ n \in 0 .. calls /\ calls \in 0 .. MaxCalls
          /\ calls < MaxCalls /\ MaxCalls \in Nat
          /\ n \in Nat /\ n + 1 < U64 /\ IdLen[i] <= MAX_KID_CONTEXT_LEN
      BY <2>1, MaxCallsAssumption, IdContextAssumption, U64Type
         DEF ClientInv, ClientRequest
    <3>2. /\ client' = r.ctx /\ used' = used /\ calls' = calls + 1
          /\ \/ requests' = requests
             \/ /\ r.err = "ok"
                /\ requests' = requests \cup {RequestPacket(r.ctx, plain)}
      BY <2>1 DEF ClientRequest
    <3>3. /\ ClientContext(r.ctx, i, n + 1)
          /\ r.err = "ok" => n < Byte /\ RequestPacket(r.ctx, plain) = new
      <4>1. ClientContext(client, i, n)
        BY DEF ClientInv, ClientContext
      <4> HIDE DEF i, n, r
      <4> QED BY <3>1, <4>1, RequestStep DEF r
    <3> HIDE DEF r
    <3>4. ClientInv'
      BY <3>1, <3>2, <3>3 DEF ClientInv, ClientContext
    <3>5. \/ requests' = requests
          \/ n \in 0 .. Byte - 1 /\ requests' = requests \cup {new}
      BY <3>1, <3>2, <3>3, ByteAssumption
    <3>6. new.plain = plain /\ new.kid_context = i /\ new.piv = OneBytePiv(n)
      BY DEF RequestFor
    <3>7. i \in used /\ client'.id_context = i /\ client'.sender_seq_num = n + 1
      BY <3>2, <3>3 DEF ClientInv, ClientContext
    <3>8. ASSUME NEW m \in requests'
          PROVE  \E j \in used', k \in 0 .. Byte - 1 :
                   /\ m = RequestFor(j, k, m.plain)
                   /\ j = client'.id_context => k < client'.sender_seq_num
      <4> HIDE DEF new
      <4>1. CASE m \in requests
        <5>1. PICK j \in used, k \in 0 .. Byte - 1 :
                m = RequestFor(j, k, m.plain) /\ (j = i => k < n)
          BY <4>1 DEF RequestsInv
        <5>2. j = client'.id_context => k < client'.sender_seq_num
          BY <5>1, <3>1, <3>7, ByteAssumption
        <5> QED BY <5>1, <5>2, <3>2
      <4>2. CASE m \notin requests
        <5>1. m = RequestFor(i, n, m.plain) /\ n \in 0 .. Byte - 1
          BY <4>2, <3>5, <3>6 DEF new
        <5>2. n < n + 1
          BY <3>1
        <5> QED BY <5>1, <5>2, <3>2, <3>7
      <4> QED BY <4>1, <4>2
    <3>9. ASSUME NEW m \in requests PROVE ~(m.kid_context = i /\ m.piv = new.piv)
      <4>1. PICK j \in used, k \in 0 .. Byte - 1 :
              m = RequestFor(j, k, m.plain) /\ (j = i => k < n)
        BY DEF RequestsInv
      <4>2. m.kid_context = j /\ m.piv = OneBytePiv(k)
        BY <4>1 DEF RequestFor
      <4>3. OneBytePiv(k)[1] = k /\ OneBytePiv(n)[1] = n
        BY DEF OneBytePiv
      <4> QED BY <3>1, <3>6, <4>1, <4>2, <4>3, ByteAssumption
    <3>10. ASSUME NEW a \in requests', NEW b \in requests',
                  a.kid_context = b.kid_context, a.piv = b.piv
           PROVE  a = b
      <4> HIDE DEF new
      <4>1. CASE a \in requests /\ b \in requests
        BY <3>10, <4>1 DEF RequestsInv
      <4>2. CASE a \in requests /\ b \notin requests
        BY <3>5, <3>6, <3>9, <3>10, <4>2
      <4>3. CASE a \notin requests /\ b \in requests
        BY <3>5, <3>6, <3>9, <3>10, <4>3
      <4>4. CASE a \notin requests /\ b \notin requests
        BY <3>5, <4>4
      <4> QED BY <4>1, <4>2, <4>3, <4>4
    <3>11. RequestsInv'
      BY <3>8, <3>10 DEF RequestsInv
    <3> QED BY <3>4, <3>11
  <2>2. ASSUME NEW j \in IdContexts, ClientReinit(j) PROVE NonceInv'
    <3>1. /\ client' = oscore_context_init("CLIENT", j) /\ calls' = calls
          /\ used' = used \cup {j} /\ requests' = requests /\ j \notin used
      BY <2>2 DEF ClientReinit, netVars
    <3>2. ClientInv'
      BY <3>1, InitFacts, MaxCallsAssumption DEF ClientInv
    <3>3. client'.id_context = j
      BY <3>1, InitFacts
    <3>4. RequestsInv'
      BY <3>1, <3>3 DEF RequestsInv
    <3> QED BY <3>2, <3>4
  <2>3. CASE UNCHANGED <<client, calls, used, requests>>
    BY <2>3 DEF ClientInv, RequestsInv, IsContext
  <2>4. ASSUME NEW m, NEW intact, ClientResponse(m, intact) PROVE NonceInv'
    BY <2>3, <2>4 DEF ClientResponse, netVars
  <2>5. ASSUME NEW m, NEW intact, NEW fits, ServerRequest(m, intact, fits)
        PROVE NonceInv'
    BY <2>3, <2>5 DEF ServerRequest, netVars, clientVars
  <2>6. ASSUME NEW plain, NEW sent, ServerResponse(plain, sent)
        PROVE NonceInv'
    BY <2>3, <2>6 DEF ServerResponse, clientVars
  <2>7. CASE UNCHANGED vars
    BY <2>3, <2>7 DEF vars
  <2> QED BY <2>1, <2>2, <2>4, <2>5, <2>6, <2>7 DEF Next, Client, Server
<1> QED BY <1>1, <1>2, PTL DEF Spec

\* No key and nonce are used for two requests.
THEOREM RequestNonceUniqueness == Spec => []RequestNonceUnique
<1>1. NonceInv => RequestNonceUnique
  <2> SUFFICES ASSUME NonceInv, NEW a \in requests, NEW b \in requests,
                      a.key = b.key, a.nonce = b.nonce
               PROVE  a = b
    BY DEF RequestNonceUnique
  <2>1. PICK i \in used, k \in 0 .. Byte - 1 : a = RequestFor(i, k, a.plain)
    BY DEF NonceInv, RequestsInv
  <2>2. PICK j \in used, n \in 0 .. Byte - 1 : b = RequestFor(j, n, b.plain)
    BY DEF NonceInv, RequestsInv
  <2>3. i = j /\ k = n
    BY <2>1, <2>2, RequestForInjective
  <2>4. a.kid_context = b.kid_context /\ a.piv = b.piv
    BY <2>1, <2>2, <2>3 DEF RequestFor
  <2> QED BY <2>4 DEF NonceInv, RequestsInv
<1> QED BY <1>1, NonceInvariant, PTL

-----------------------------------------------------------------------------
(* Both contexts                                                           *)

\* The invariant of both contexts, also in the middle of context_update.
ContextInv ==
  /\ NonceInv
  /\ KeysMatch(client)
  /\ ServerContext(server)
  /\ accepted \subseteq requests
  /\ replayed \subseteq accepted
  /\ rejected \subseteq requests

\* ContextInv is inductive, given that NonceInv is.
THEOREM ContextInvariant == Spec => []ContextInv
<1>1. Init /\ NonceInv => ContextInv
  <2> SUFFICES ASSUME Init, NonceInv PROVE ContextInv
    OBVIOUS
  <2>1. KeysMatch(client) /\ ServerContext(server)
    BY IdContextAssumption, ContextInitFacts DEF Init
  <2> QED BY <2>1 DEF Init, ContextInv
<1>2. ContextInv /\ NonceInv' /\ [Next]_vars => ContextInv'
  <2> SUFFICES ASSUME ContextInv, NonceInv', [Next]_vars PROVE ContextInv'
    OBVIOUS
  <2>1. ASSUME NEW sent \in BOOLEAN, ClientRequest(sent) PROVE ContextInv'
    <3> DEFINE r == coap2oscore_request(client)
    <3>1. /\ client' = r.ctx /\ requests \subseteq requests'
          /\ UNCHANGED serverVars
      BY <2>1 DEF ClientRequest
    <3>2. /\ r.ctx.id_context = client.id_context
          /\ r.ctx.common_iv = derive_common_iv(client.id_context)
          /\ r.ctx.sender_key = derive_key(client.id_context, ClientId)
          /\ \A f \in {"sender_id", "recipient_id", "recipient_key"} :
               r.ctx[f] = client[f]
      <4> DEFINE i == client.id_context
                 n == client.sender_seq_num
      <4>1. /\ i \in IdContexts /\ IdLen[i] <= MAX_KID_CONTEXT_LEN
            /\ n \in Nat /\ n + 1 < U64
        BY <2>1, MaxCallsAssumption, IdContextAssumption, U64Type
           DEF ContextInv, NonceInv, ClientInv, ClientRequest
      <4>2. ClientContext(client, i, n)
        BY DEF ContextInv, NonceInv, ClientInv, ClientContext
      <4>3. ClientContext(r.ctx, i, n + 1) /\ RequestParameters(client, r.ctx, i, n)
        <5> HIDE DEF i, n, r
        <5> QED BY <4>1, <4>2, RequestStep DEF r
      <4> QED BY <4>3 DEF ClientContext, RequestParameters
    <3>3. client.sender_key = derive_key(client.id_context, ClientId)
      BY DEF ContextInv, NonceInv, ClientInv
    <3> HIDE DEF r
    <3>4. KeysMatch(client)'
      BY <3>1, <3>2, <3>3 DEF ContextInv, KeysMatch
    <3> QED BY <3>1, <3>4 DEF ContextInv, serverVars
  <2>2. ASSUME NEW j \in IdContexts, ClientReinit(j) PROVE ContextInv'
    <3>1. KeysMatch(client)'
      BY <2>2, ContextInitFacts DEF ClientReinit
    <3> QED BY <2>2, <3>1 DEF ContextInv, ClientReinit, serverVars, netVars
  <2>3. ASSUME NEW m, NEW intact, ClientResponse(m, intact) PROVE ContextInv'
    BY <2>3 DEF ContextInv, ClientResponse, netVars, serverVars
  <2>4. ASSUME NEW m \in requests, NEW intact, NEW fits,
               ServerRequest(m, intact, fits)
        PROVE ContextInv'
    <3>1. PICK i \in used, n \in 0 .. Byte - 1 : m = RequestFor(i, n, m.plain)
      BY DEF ContextInv, NonceInv, RequestsInv
    <3>2. i \in IdContexts
      BY <3>1 DEF ContextInv, NonceInv, ClientInv
    <3>3. ServerContext(server)'
      <4>1. ServerContext(oscore2coap_request(server, m, intact).ctx)
        BY <3>1, <3>2, ServerRequestStep DEF ContextInv
      <4> QED BY <2>4, <4>1 DEF ServerRequest
    <3>4. /\ accepted' \subseteq requests' /\ replayed' \subseteq accepted'
          /\ rejected' \subseteq requests' /\ client' = client
      BY <2>4 DEF ContextInv, ServerRequest, netVars, clientVars
    <3> QED BY <3>3, <3>4 DEF ContextInv
  <2>5. ASSUME NEW plain, NEW sent, ServerResponse(plain, sent)
        PROVE ContextInv'
    BY <2>5 DEF ContextInv, ServerResponse, clientVars
  <2>6. CASE UNCHANGED vars
    BY <2>6 DEF ContextInv, vars
  <2> QED BY <2>1, <2>2, <2>3, <2>4, <2>5, <2>6 DEF Next, Client, Server
<1> QED BY <1>1, <1>2, NonceInvariant, PTL DEF Spec

\* The state always has the shape of struct context and of the bookkeeping
\* around it.
THEOREM TypeCorrect == Spec => []TypeOK
<1>1. ContextInv => TypeOK
  <2> SUFFICES ASSUME ContextInv PROVE TypeOK
    OBVIOUS
  <2>1. client.aad_len \in 0 .. MAX_AAD_LEN
    <3>1. client.aad_len \in {MAX_AAD_LEN, 8 + KidLen}
      BY DEF ContextInv, NonceInv, ClientInv
    <3> QED BY <3>1, KidLenAssumption DEF MAX_AAD_LEN
  <2> QED BY <2>1
          DEF ContextInv, NonceInv, ClientInv, ServerContext, TypeOK
<1> QED BY <1>1, ContextInvariant, PTL

\* No context ever mixes the keys or the IV of two ID Contexts, wherever
\* context_update returned.
THEOREM KeysMatchIdContextTheorem == Spec => []KeysMatchIdContext
<1>1. ContextInv => KeysMatchIdContext
  BY DEF ContextInv, ServerContext, KeysMatch, KeysMatchIdContext
<1> QED BY <1>1, ContextInvariant, PTL

-----------------------------------------------------------------------------
(* What can be sent                                                        *)

\* With a KID of at most six bytes exactly the numbers below Byte can be sent:
\* coap2oscore fails for none of them and for all others.
THEOREM OneBytePivsTheorem ==
  ASSUME KidLen <= 6
  PROVE  Spec => []SendsExactlyOneBytePivs
<1>1. Init => SendsExactlyOneBytePivs
  BY DEF Init, SendsExactlyOneBytePivs
<1>2. SendsExactlyOneBytePivs /\ NonceInv /\ NonceInv' /\ [Next]_vars
        => SendsExactlyOneBytePivs'
  <2> SUFFICES ASSUME SendsExactlyOneBytePivs, NonceInv, NonceInv', [Next]_vars
               PROVE  SendsExactlyOneBytePivs'
    OBVIOUS
  <2>1. ASSUME NEW m \in requests' PROVE Len(m.piv) = 1
    <3>1. PICK i \in used', n \in 0 .. Byte - 1 : m = RequestFor(i, n, m.plain)
      BY <2>1 DEF NonceInv, RequestsInv
    <3>2. m.piv = OneBytePiv(n)
      BY <3>1 DEF RequestFor
    <3> QED BY <3>2 DEF OneBytePiv
  <2>2. ASSUME NEW sent \in BOOLEAN, ClientRequest(sent)
        PROVE  \A n \in failed' : n >= Byte
    <3> DEFINE i == client.id_context
               n == client.sender_seq_num
               r == coap2oscore_request(client)
    <3>1. /\ i \in IdContexts /\ IdLen[i] <= MAX_KID_CONTEXT_LEN
          /\ n \in Nat /\ n + 1 < U64 /\ ClientContext(client, i, n)
      BY <2>2, MaxCallsAssumption, IdContextAssumption, U64Type
         DEF NonceInv, ClientInv, ClientContext, ClientRequest
    <3>2. n < Byte => r.err = "ok"
      <4> HIDE DEF i, n, r
      <4> QED BY <3>1, RequestStep DEF r
    <3>3. failed' = IF r.err # "ok" THEN failed \cup {n} ELSE failed
      BY <2>2 DEF ClientRequest
    <3> HIDE DEF r, n
    <3> QED BY <3>1, <3>2, <3>3, ByteAssumption DEF SendsExactlyOneBytePivs
  <2>3. CASE failed' = failed
    BY <2>1, <2>3 DEF SendsExactlyOneBytePivs
  <2>4. ASSUME NEW j \in IdContexts, ClientReinit(j) PROVE failed' = failed
    BY <2>4 DEF ClientReinit
  <2>5. ASSUME NEW m, NEW intact, ClientResponse(m, intact)
        PROVE  failed' = failed
    BY <2>5 DEF ClientResponse
  <2>6. ASSUME NEW m, NEW intact, NEW fits, ServerRequest(m, intact, fits)
        PROVE  failed' = failed
    BY <2>6 DEF ServerRequest, clientVars
  <2>7. ASSUME NEW plain, NEW sent, ServerResponse(plain, sent)
        PROVE  failed' = failed
    BY <2>7 DEF ServerResponse, clientVars
  <2>8. CASE UNCHANGED vars
    BY <2>3, <2>8 DEF vars
  <2>9. ASSUME NEW sent \in BOOLEAN, ClientRequest(sent)
        PROVE  SendsExactlyOneBytePivs'
    BY <2>1, <2>2, <2>9 DEF SendsExactlyOneBytePivs
  <2> QED BY <2>3, <2>4, <2>5, <2>6, <2>7, <2>8, <2>9 DEF Next, Client, Server
<1> QED BY <1>1, <1>2, NonceInvariant, PTL DEF Spec

-----------------------------------------------------------------------------
(* To which request a response belongs                                     *)

\* Between the acceptance of a request and its answer, the server's context
\* holds the nonce, AAD and ID Context of that request.
PendingInv ==
  /\ server.sender_id = ServerId
  /\ \A p \in pending :
       \E q \in requests :
         /\ q.plain = p /\ q.nonce = server.nonce /\ q.aad = server.aad
         /\ q.kid_context = server.id_context

\* A response has the nonce and AAD of the request it answers, and the
\* server's key of the ID Context of that request.
ResponsesInv ==
  \A m \in responses :
    \E q \in requests :
      /\ q.plain = m.plain /\ q.nonce = m.nonce /\ q.aad = m.aad
      /\ m.key = derive_key(q.kid_context, ServerId)

\* The client can open a response only while the nonce in its context is that
\* of the number it used last, and the request with this number is current.
\* After a number that could not be sent, the AAD in its context is that of no
\* request, although the nonce may be that of an earlier one.
CurrentInv ==
  /\ client.recipient_id = ServerId
  /\ LET n == client.sender_seq_num
         i == client.id_context
     IN  \/ n = 0 /\ client.aad = <<>>
         \/ n > Byte /\ client.aad[3] = FALSE
         \/ /\ n \in 1 .. Byte
            /\ client.nonce = create_nonce(ClientId, OneBytePiv(n - 1),
                                           derive_common_iv(i))
            /\ \A q \in requests :
                 q.kid_context = i /\ q.piv = OneBytePiv(n - 1)
                   => q.plain = current

BindingInv == PendingInv /\ ResponsesInv /\ CurrentInv /\ ResponseBinding

\* A response that opens under the client's parameters answers the current
\* request.
LEMMA OpensOnlyCurrent ==
  ASSUME ContextInv, BindingInv, NEW m \in responses, NEW intact,
         oscore2coap_response(client, m, intact) = "ok"
  PROVE  m.plain = current
<1> DEFINE n == client.sender_seq_num
<1>1. /\ m.key = client.recipient_key /\ m.nonce = client.nonce
      /\ m.aad = client.aad
  BY DEF oscore2coap_response, Decrypts
<1>2. PICK q \in requests :
        /\ q.plain = m.plain /\ q.nonce = m.nonce /\ q.aad = m.aad
        /\ m.key = derive_key(q.kid_context, ServerId)
  BY DEF BindingInv, ResponsesInv
<1>3. PICK i \in used, k \in 0 .. Byte - 1 : q = RequestFor(i, k, q.plain)
  BY DEF ContextInv, NonceInv, RequestsInv
<1>4. /\ q.kid_context = i /\ q.piv = OneBytePiv(k)
      /\ q.nonce = create_nonce(ClientId, OneBytePiv(k), derive_common_iv(i))
      /\ q.aad = <<ClientId, OneBytePiv(k), TRUE>>
  <2>1. q.aad = <<ClientId, OneBytePiv(k), TRUE>>
    BY <1>3, RequestForAad
  <2> QED BY <1>3, <2>1, RequestForFields
<1>5. i = client.id_context
  <2>1. client.recipient_key = derive_key(client.id_context, ServerId)
    BY DEF ContextInv, KeysMatch, BindingInv, CurrentInv
  <2>2. derive_key(i, ServerId) = derive_key(client.id_context, ServerId)
    BY <1>1, <1>2, <1>4, <2>1
  <2> QED BY <2>2 DEF derive_key
<1>6. client.aad = <<ClientId, OneBytePiv(k), TRUE>>
  BY <1>1, <1>2, <1>4
<1>7. client.aad # <<>> /\ client.aad[3] # FALSE
  BY <1>6
<1>8. /\ n \in 1 .. Byte
      /\ client.nonce = create_nonce(ClientId, OneBytePiv(n - 1),
                                     derive_common_iv(i))
      /\ \A p \in requests :
           p.kid_context = i /\ p.piv = OneBytePiv(n - 1) => p.plain = current
  BY <1>5, <1>7 DEF BindingInv, CurrentInv
<1>9. k = n - 1
  <2>1. n - 1 \in 0 .. Byte - 1
    BY <1>8, ByteAssumption
  <2> HIDE DEF n
  <2> QED BY ZenonT(40), <1>1, <1>2, <1>4, <1>8, <2>1, PaddedPivInjective
<1> QED BY <1>2, <1>4, <1>8, <1>9

\* A request of the client: the parameters in its context are those of the new
\* number, and no earlier request has this number.
LEMMA CurrentStep ==
  ASSUME ContextInv, NonceInv', CurrentInv, NEW sent \in BOOLEAN,
         ClientRequest(sent)
  PROVE  CurrentInv'
<1> DEFINE i == client.id_context
           n == client.sender_seq_num
           r == coap2oscore_request(client)
           plain == calls + 1
<1>1. /\ i \in IdContexts /\ IdLen[i] <= MAX_KID_CONTEXT_LEN
      /\ n \in Nat /\ n + 1 < U64
      /\ Byte \in Nat /\ Byte >= 2
  BY MaxCallsAssumption, IdContextAssumption, U64Type, ByteAssumption
     DEF ContextInv, NonceInv, ClientInv, ClientRequest
<1>2. ClientContext(client, i, n)
  BY DEF ContextInv, NonceInv, ClientInv, ClientContext
<1>3. /\ ClientContext(r.ctx, i, n + 1)
      /\ RequestParameters(client, r.ctx, i, n)
      /\ r.err = "ok" => RequestPacket(r.ctx, plain) = RequestFor(i, n, plain)
  <2> HIDE DEF i, n, r, plain
  <2> QED BY <1>1, <1>2, RequestStep DEF r
<1>4. /\ client' = r.ctx /\ current' = plain
      /\ \/ requests' = requests
         \/ requests' = requests \cup {RequestFor(i, n, plain)}
  BY <1>3 DEF ClientRequest
<1>5. /\ client'.id_context = i /\ client'.sender_seq_num = n + 1
      /\ client'.recipient_id = ServerId
  BY <1>3, <1>4 DEF ClientContext, RequestParameters, CurrentInv
<1>6. CASE n < Byte
  <2>1. client'.nonce = create_nonce(ClientId, OneBytePiv(n),
                                     derive_common_iv(i))
    BY <1>3, <1>4, <1>6 DEF RequestParameters
  <2>2. ASSUME NEW q \in requests', q.kid_context = i, q.piv = OneBytePiv(n)
        PROVE  q.plain = plain
    <3>1. CASE q \in requests
      <4>1. PICK j \in used, k \in 0 .. Byte - 1 :
              q = RequestFor(j, k, q.plain) /\ (j = i => k < n)
        BY <3>1 DEF ContextInv, NonceInv, RequestsInv
      <4>2. j = i /\ OneBytePiv(k) = OneBytePiv(n)
        BY <2>2, <4>1, RequestForFields
      <4>3. k = n
        BY <4>2 DEF OneBytePiv
      <4> QED BY <1>1, <4>1, <4>2, <4>3
    <3>2. CASE q \notin requests
      BY <1>4, <3>2, RequestForFields
    <3> QED BY <3>1, <3>2
  <2>3. n + 1 \in 1 .. Byte /\ (n + 1) - 1 = n
    BY <1>1, <1>6
  <2> HIDE DEF i, n, plain
  <2> QED BY <1>4, <1>5, <2>1, <2>2, <2>3 DEF CurrentInv
<1>7. CASE ~(n < Byte)
  <2>1. client'.aad[3] = FALSE
    <3>1. \/ client'.aad[3] = FALSE
          \/ n > Byte /\ client'.aad = client.aad
      BY <1>3, <1>4, <1>7 DEF RequestParameters
    <3>2. n > Byte => client.aad[3] = FALSE
      BY <1>1 DEF CurrentInv
    <3> QED BY <3>1, <3>2
  <2>2. n + 1 > Byte
    BY <1>1, <1>7
  <2> HIDE DEF n
  <2> QED BY <1>5, <2>1, <2>2 DEF CurrentInv
<1> QED BY <1>6, <1>7

\* oscore2coap on the server: from an accepted request to its answer, the
\* context is that of the request.
LEMMA PendingStep ==
  ASSUME ContextInv, BindingInv, NEW m \in requests, NEW intact, NEW fits,
         ServerRequest(m, intact, fits)
  PROVE  PendingInv'
<1> DEFINE r == oscore2coap_request(server, m, intact)
<1>1. /\ pending = {} /\ server' = r.ctx /\ requests' = requests
      /\ pending' = IF r.err = "ok" /\ fits THEN pending \cup {m.plain}
                    ELSE pending
  BY DEF ServerRequest, Listening, netVars
<1>2. PICK i \in used, n \in 0 .. Byte - 1 : m = RequestFor(i, n, m.plain)
  BY DEF ContextInv, NonceInv, RequestsInv
<1>3. /\ ServerContext(r.ctx)
      /\ r.err = "ok" => /\ r.ctx.nonce = m.nonce /\ r.ctx.aad = m.aad
                         /\ r.ctx.recipient_key = m.key
  <2>1. i \in IdContexts /\ ServerContext(server)
    BY <1>2 DEF ContextInv, NonceInv, ClientInv
  <2> HIDE DEF r
  <2> QED BY <1>2, <2>1, ServerRequestStep DEF r
<1> HIDE DEF r
<1>4. server'.sender_id = ServerId
  BY <1>1, <1>3 DEF ServerContext
<1>5. ASSUME NEW p \in pending'
      PROVE  \E q \in requests' :
               /\ q.plain = p /\ q.nonce = server'.nonce /\ q.aad = server'.aad
               /\ q.kid_context = server'.id_context
  <2>1. p = m.plain /\ r.err = "ok"
    BY <1>1
  <2>2. m.kid_context = i /\ m.key = derive_key(i, ClientId)
    BY <1>2 DEF RequestFor
  <2>3. r.ctx.recipient_key = derive_key(r.ctx.id_context, ClientId)
    BY <1>3 DEF ServerContext, KeysMatch
  <2>4. derive_key(i, ClientId) = derive_key(r.ctx.id_context, ClientId)
    BY <1>3, <2>1, <2>2, <2>3
  <2>5. r.ctx.id_context = m.kid_context
    BY <2>2, <2>4 DEF derive_key
  <2> QED BY <1>1, <1>3, <2>1, <2>5
<1> QED BY <1>4, <1>5 DEF PendingInv

\* BindingInv is inductive, given that ContextInv is.
THEOREM BindingInvariant == Spec => []BindingInv
<1>1. Init /\ ContextInv => BindingInv
  <2> SUFFICES ASSUME Init, ContextInv PROVE BindingInv
    OBVIOUS
  <2>1. /\ client.recipient_id = ServerId /\ client.sender_seq_num = 0
        /\ client.aad = <<>> /\ server.sender_id = ServerId
    BY DEF Init, oscore_context_init
  <2> QED BY <2>1
          DEF Init, BindingInv, PendingInv, ResponsesInv, CurrentInv,
              ResponseBinding
<1>2. BindingInv /\ ContextInv /\ ContextInv' /\ [Next]_vars => BindingInv'
  <2> SUFFICES ASSUME BindingInv, ContextInv, ContextInv', [Next]_vars
               PROVE  BindingInv'
    OBVIOUS
  <2>1. ASSUME NEW sent \in BOOLEAN, ClientRequest(sent) PROVE BindingInv'
    <3>1. /\ requests \subseteq requests'
          /\ UNCHANGED <<server, pending, responses, delivered>>
      BY <2>1 DEF ClientRequest, serverVars
    <3>2. PendingInv' /\ ResponsesInv' /\ ResponseBinding'
      BY <3>1 DEF BindingInv, PendingInv, ResponsesInv, ResponseBinding
    <3>3. CurrentInv'
      BY <2>1, CurrentStep DEF ContextInv, BindingInv
    <3> QED BY <3>2, <3>3 DEF BindingInv
  <2>2. ASSUME NEW m \in responses, NEW intact, ClientResponse(m, intact)
        PROVE  BindingInv'
    <3>1. /\ delivered' = delivered \cup {<<current, m.plain>>}
          /\ UNCHANGED <<client, server, pending, current, requests, responses>>
      BY <2>2 DEF ClientResponse, netVars, serverVars
    <3>2. m.plain = current
      BY <2>2, OpensOnlyCurrent DEF ClientResponse
    <3>3. ResponseBinding'
      BY <3>1, <3>2 DEF BindingInv, ResponseBinding
    <3>4. PendingInv' /\ ResponsesInv' /\ CurrentInv'
      BY <3>1 DEF BindingInv, PendingInv, ResponsesInv, CurrentInv
    <3> QED BY <3>3, <3>4 DEF BindingInv
  <2>3. ASSUME NEW j \in IdContexts, ClientReinit(j) PROVE BindingInv'
    <3>1. /\ client' = oscore_context_init("CLIENT", j)
          /\ UNCHANGED <<server, pending, requests, responses, delivered>>
      BY <2>3 DEF ClientReinit, netVars, serverVars
    <3>2. /\ client'.recipient_id = ServerId /\ client'.sender_seq_num = 0
          /\ client'.aad = <<>>
      BY <3>1 DEF oscore_context_init
    <3>3. CurrentInv'
      BY <3>2 DEF CurrentInv
    <3>4. PendingInv' /\ ResponsesInv' /\ ResponseBinding'
      BY <3>1 DEF BindingInv, PendingInv, ResponsesInv, ResponseBinding
    <3> QED BY <3>3, <3>4 DEF BindingInv
  <2>4. ASSUME NEW m \in requests, NEW intact, NEW fits,
               ServerRequest(m, intact, fits)
        PROVE  BindingInv'
    <3>1. UNCHANGED <<client, current, requests, responses, delivered>>
      BY <2>4 DEF ServerRequest, netVars, clientVars
    <3>2. ResponsesInv' /\ CurrentInv' /\ ResponseBinding'
      BY <3>1 DEF BindingInv, ResponsesInv, CurrentInv, ResponseBinding
    <3>3. PendingInv'
      BY <2>4, PendingStep
    <3> QED BY <3>2, <3>3 DEF BindingInv
  <2>5. ASSUME NEW plain \in pending, NEW sent, ServerResponse(plain, sent)
        PROVE  BindingInv'
    <3>1. /\ pending' \subseteq pending
          /\ UNCHANGED <<client, server, current, requests, delivered>>
          /\ \/ responses' = responses
             \/ responses' = responses \cup {ResponsePacket(server, plain)}
      BY <2>5 DEF ServerResponse, clientVars
    <3>2. PendingInv' /\ CurrentInv' /\ ResponseBinding'
      BY <3>1 DEF BindingInv, PendingInv, CurrentInv, ResponseBinding
    <3>3. PICK q \in requests :
            /\ q.plain = plain /\ q.nonce = server.nonce /\ q.aad = server.aad
            /\ q.kid_context = server.id_context
      BY DEF BindingInv, PendingInv
    <3>4. server.sender_key = derive_key(q.kid_context, ServerId)
      BY <3>3 DEF ContextInv, ServerContext, KeysMatch
    <3>5. ResponsesInv'
      BY <3>1, <3>3, <3>4 DEF BindingInv, ResponsesInv, ResponsePacket
    <3> QED BY <3>2, <3>5 DEF BindingInv
  <2>6. CASE UNCHANGED vars
    BY <2>6 DEF vars, BindingInv, PendingInv, ResponsesInv, CurrentInv,
                ResponseBinding
  <2> QED BY <2>1, <2>2, <2>3, <2>4, <2>5, <2>6 DEF Next, Client, Server
<1> QED BY <1>1, <1>2, ContextInvariant, PTL DEF Spec

\* A response that the client accepts answers its latest request.
THEOREM ResponseBindingTheorem == Spec => []ResponseBinding
<1>1. BindingInv => ResponseBinding
  BY DEF BindingInv
<1> QED BY <1>1, BindingInvariant, PTL

\* Responses under one key and nonce answer one request.
THEOREM ResponseNonceTheorem == Spec => []ResponseNonceBinding
<1>1. BindingInv /\ ContextInv => ResponseNonceBinding
  <2> SUFFICES ASSUME BindingInv, ContextInv,
                      NEW a \in responses, NEW b \in responses,
                      a.key = b.key, a.nonce = b.nonce
               PROVE  a.plain = b.plain
    BY DEF ResponseNonceBinding
  <2>1. PICK p \in requests :
          /\ p.plain = a.plain /\ p.nonce = a.nonce
          /\ a.key = derive_key(p.kid_context, ServerId)
    BY DEF BindingInv, ResponsesInv
  <2>2. PICK q \in requests :
          /\ q.plain = b.plain /\ q.nonce = b.nonce
          /\ b.key = derive_key(q.kid_context, ServerId)
    BY DEF BindingInv, ResponsesInv
  <2>3. p.kid_context = q.kid_context
    <3>1. derive_key(p.kid_context, ServerId) = derive_key(q.kid_context, ServerId)
      BY <2>1, <2>2
    <3> QED BY <3>1 DEF derive_key
  <2>4. PICK i \in used, k \in 0 .. Byte - 1 : p = RequestFor(i, k, p.plain)
    BY DEF ContextInv, NonceInv, RequestsInv
  <2>5. PICK j \in used, n \in 0 .. Byte - 1 : q = RequestFor(j, n, q.plain)
    BY DEF ContextInv, NonceInv, RequestsInv
  <2>6. /\ p.piv = OneBytePiv(k)
        /\ p.nonce = create_nonce(ClientId, OneBytePiv(k), derive_common_iv(i))
    BY <2>4, RequestForFields
  <2>7. /\ q.piv = OneBytePiv(n)
        /\ q.nonce = create_nonce(ClientId, OneBytePiv(n), derive_common_iv(j))
    BY <2>5, RequestForFields
  <2>8. k = n
    BY <2>1, <2>2, <2>6, <2>7, PaddedPivInjective
  <2>9. p = q
    BY <2>3, <2>6, <2>7, <2>8 DEF ContextInv, NonceInv, RequestsInv
  <2> QED BY <2>1, <2>2, <2>9
<1> QED BY <1>1, BindingInvariant, ContextInvariant, PTL

-----------------------------------------------------------------------------
(* What the server refuses                                                 *)

\* The server has room for the AAD of every request that was sent, and has
\* refused none that arrived undamaged but those with a marker.
RefusalInv == AadRoom(server) /\ RefusedOnlyForMarker

\* oscore2coap with a request that was sent refuses it, undamaged, only for
\* the byte that buf2coap takes for the payload marker in its Partial IV: when
\* a KID has at most six bytes, all ID Contexts are equally long, and the value
\* of the OSCORE option is shorter than 13 bytes.
THEOREM RefusedOnlyForMarkerTheorem ==
  ASSUME KidLen <= 6,
         \A i, j \in IdContexts : IdLen[i] = IdLen[j],
         \A i \in IdContexts :
           2 + KidLen + (IF IdLen[i] > 0 THEN 1 + IdLen[i] ELSE 0) < 13
  PROVE  Spec => []RefusedOnlyForMarker
<1>1. Init => RefusalInv
  <2> SUFFICES ASSUME Init PROVE RefusalInv
    OBVIOUS
  <2>1. server.kid = ClientId /\ server.aad_len = MAX_AAD_LEN
    BY DEF Init, oscore_context_init
  <2> QED BY <2>1 DEF Init, RefusalInv, AadRoom, RefusedOnlyForMarker
<1>2. RefusalInv /\ ContextInv /\ [Next]_vars => RefusalInv'
  <2> SUFFICES ASSUME RefusalInv, ContextInv, [Next]_vars PROVE RefusalInv'
    OBVIOUS
  <2>1. ASSUME NEW m \in requests, NEW intact, NEW fits,
               ServerRequest(m, intact, fits)
        PROVE  RefusalInv'
    <3> DEFINE r == oscore2coap_request(server, m, intact)
    <3>1. /\ server' = r.ctx
          /\ rejected' = IF intact /\ r.err # "ok" THEN rejected \cup {m}
                         ELSE rejected
      BY <2>1 DEF ServerRequest
    <3>2. PICK i \in IdContexts, n \in 0 .. Byte - 1 :
                 m = RequestFor(i, n, m.plain)
      BY DEF ContextInv, NonceInv, RequestsInv, ClientInv
    <3>3. /\ ServerContext(server) /\ server.id_context \in IdContexts
          /\ AadRoom(server)
      BY DEF ContextInv, ServerContext, RefusalInv
    <3>4. m.opt_len < 13
      <4>1. m.opt_len
              = 2 + KidLen + (IF IdLen[i] > 0 THEN 1 + IdLen[i] ELSE 0)
        BY <3>2 DEF RequestFor
      <4> QED BY <4>1
    <3>5. IdLen[i] <= MAX_KID_CONTEXT_LEN /\ IdLen[i] <= IdLen[server.id_context]
      BY <3>3, IdContextAssumption, IdLenAssumption
    <3>6. \A q : q = r =>
            AadRoom(q.ctx) /\ (q.err = "ok" <=> Undamaged(m, intact))
      <4> SUFFICES ASSUME NEW q, q = oscore2coap_request(server, m, intact)
                   PROVE  /\ AadRoom(q.ctx)
                          /\ q.err = "ok" <=> Undamaged(m, intact)
        OBVIOUS
      <4> QED BY <3>2, <3>3, <3>4, <3>5, RequestRead
    <3> HIDE DEF r
    <3>7. \A q \in rejected' : MarkerInOption(q)
      BY <3>1, <3>6 DEF RefusalInv, RefusedOnlyForMarker, Undamaged
    <3>8. AadRoom(server)'
      BY <3>1, <3>6 DEF AadRoom
    <3> QED BY <3>7, <3>8 DEF RefusalInv, RefusedOnlyForMarker
  <2>2. CASE UNCHANGED <<server, rejected>>
    BY <2>2 DEF RefusalInv, AadRoom, RefusedOnlyForMarker
  <2>3. ASSUME NEW sent \in BOOLEAN, ClientRequest(sent) PROVE RefusalInv'
    BY <2>2, <2>3 DEF ClientRequest, serverVars
  <2>4. ASSUME NEW j \in IdContexts, ClientReinit(j) PROVE RefusalInv'
    BY <2>2, <2>4 DEF ClientReinit, serverVars
  <2>5. ASSUME NEW m, NEW intact, ClientResponse(m, intact) PROVE RefusalInv'
    BY <2>2, <2>5 DEF ClientResponse, serverVars
  <2>6. ASSUME NEW plain, NEW sent, ServerResponse(plain, sent)
        PROVE  RefusalInv'
    BY <2>2, <2>6 DEF ServerResponse
  <2>7. CASE UNCHANGED vars
    BY <2>2, <2>7 DEF vars
  <2> QED BY <2>1, <2>3, <2>4, <2>5, <2>6, <2>7 DEF Next, Client, Server
<1>3. RefusalInv => RefusedOnlyForMarker
  BY DEF RefusalInv
<1> QED BY <1>1, <1>2, <1>3, ContextInvariant, PTL DEF Spec
=============================================================================
