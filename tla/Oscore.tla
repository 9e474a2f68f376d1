------------------------------- MODULE Oscore -------------------------------
(***************************************************************************)
(* A client and a server that protect their CoAP traffic with the two      *)
(* conversions of the library, over a network that loses, duplicates,      *)
(* reorders and damages packets.                                           *)
(*                                                                         *)
(* A packet that was sent stays in requests or responses and may be        *)
(* delivered any number of times, at any later moment, or never.  Each     *)
(* action is one call of coap2oscore, oscore2coap or oscore_context_init,  *)
(* which run to completion in the caller's thread.  Calls that return      *)
(* before they touch the context (a packet that does not parse, a          *)
(* plaintext over MAX_PLAINTEXT_LEN, an unprotected CoAP packet, the empty *)
(* ACK that coap2oscore copies through) change nothing and are the         *)
(* stuttering steps.                                                       *)
(***************************************************************************)
EXTENDS OscoreContext, FiniteSets

CONSTANTS
  ClientIdContext,   \* ID Context of the client's first initialisation
  ServerIdContext,   \* ID Context the server is initialised with
  MaxCalls           \* bound: calls of coap2oscore by the client

ASSUME IdContextAssumption == /\ ClientIdContext \in IdContexts
                              /\ ServerIdContext \in IdContexts
                              /\ \A i \in IdContexts :
                                   IdLen[i] <= MAX_KID_CONTEXT_LEN
ASSUME MaxCallsAssumption == MaxCalls \in Nat /\ MaxCalls < U64

VARIABLES
  client,     \* struct context of the client
  server,     \* struct context of the server
  calls,      \* number of requests the client has called coap2oscore with
  used,       \* ID Contexts the client has been initialised with
  requests,   \* OSCORE requests that were sent
  responses,  \* OSCORE responses that were sent
  pending,    \* payloads of the requests that the server has yet to answer
  current,    \* payload of the client's latest request, 0 before the first
  accepted,   \* requests for which oscore2coap returned ok
  replayed,   \* requests for which it returned ok more than once
  rejected,   \* requests that arrived undamaged and were refused
  failed,     \* sequence numbers for which coap2oscore failed on the client
  delivered   \* <<payload the client waits for, payload that was answered>>

vars == <<client, server, calls, used, requests, responses, pending, current,
          accepted, replayed, rejected, failed, delivered>>

netVars == <<requests, responses>>
serverVars == <<server, pending, accepted, replayed, rejected>>
clientVars == <<client, calls, used, current, failed, delivered>>

\* The payload of a request is the number of the call: the application never
\* sends the same request twice, whatever the context does.
Payloads == 1 .. MaxCalls

Init ==
  /\ client = oscore_context_init("CLIENT", ClientIdContext)
  /\ server = oscore_context_init("SERVER", ServerIdContext)
  /\ calls = 0
  /\ used = {ClientIdContext}
  /\ requests = {} /\ responses = {}
  /\ pending = {}
  /\ current = 0
  /\ accepted = {} /\ replayed = {} /\ rejected = {}
  /\ failed = {}
  /\ delivered = {}

-----------------------------------------------------------------------------
(* Client                                                                  *)

\* coap2oscore with a request.  sent is FALSE when the caller's output buffer
\* is too small for coap2buf, the last step.
ClientRequest(sent) ==
  LET plain == calls + 1
      r == coap2oscore_request(client)
  IN  /\ calls < MaxCalls
      /\ calls' = plain
      /\ client' = r.ctx
      /\ current' = plain
      /\ requests' = IF r.err = "ok" /\ sent
                     THEN requests \cup {RequestPacket(r.ctx, plain)}
                     ELSE requests
      /\ failed' = IF r.err # "ok" THEN failed \cup {client.sender_seq_num}
                   ELSE failed
      /\ UNCHANGED <<used, responses, delivered, serverVars>>

\* oscore2coap with a response: the parameters of the latest request decide.
ClientResponse(m, intact) ==
  /\ oscore2coap_response(client, m, intact) = "ok"
  /\ delivered' = delivered \cup {<<current, m.plain>>}
  /\ UNCHANGED <<client, calls, used, current, failed, netVars, serverVars>>

\* oscore_context_init with an ID Context that was not in use before (the
\* sequence number starts again at 0, so that reusing one is the caller's
\* mistake).
ClientReinit(id_context) ==
  /\ id_context \notin used
  /\ client' = oscore_context_init("CLIENT", id_context)
  /\ used' = used \cup {id_context}
  /\ current' = 0
  /\ UNCHANGED <<calls, failed, delivered, netVars, serverVars>>

-----------------------------------------------------------------------------
(* Server                                                                  *)

\* Mutant: the server reads the next request before it has answered.
Listening_Always == TRUE

\* May the server's loop call oscore2coap now?  The library keeps one set of
\* request-response parameters and leaves it to its caller to answer a request
\* before it reads the next one, as the loop of the sample server does.
Listening == pending = {}

\* oscore2coap with a request.  intact is FALSE when the ciphertext was cut or
\* damaged on the way; fits is FALSE when the decrypted packet is refused
\* after the window was updated (o_coap_pkg_generate, coap2buf).
ServerRequest(m, intact, fits) ==
  LET r == oscore2coap_request(server, m, intact)
      ok == r.err = "ok"
  IN  /\ Listening
      /\ server' = r.ctx
      /\ pending' = IF ok /\ fits THEN pending \cup {m.plain} ELSE pending
      /\ accepted' = IF ok THEN accepted \cup {m} ELSE accepted
      /\ replayed' = IF ok /\ m \in accepted THEN replayed \cup {m}
                     ELSE replayed
      /\ rejected' = IF intact /\ ~ok THEN rejected \cup {m} ELSE rejected
      /\ UNCHANGED <<netVars, clientVars>>

\* coap2oscore with the response to an accepted request.  sent is FALSE when
\* it fails (no room for the AAD or the packet) or the server drops it.
ServerResponse(plain, sent) ==
  /\ responses' = IF sent /\ CoseAadFits(server)
                  THEN responses \cup {ResponsePacket(server, plain)}
                  ELSE responses
  /\ pending' = pending \ {plain}
  /\ UNCHANGED <<server, accepted, replayed, rejected, requests, clientVars>>

-----------------------------------------------------------------------------
Client ==
  \/ \E sent \in BOOLEAN : ClientRequest(sent)
  \/ \E m \in responses, intact \in BOOLEAN : ClientResponse(m, intact)
  \/ \E id_context \in IdContexts : ClientReinit(id_context)

Server ==
  \/ \E m \in requests, intact, fits \in BOOLEAN :
       ServerRequest(m, intact, fits)
  \/ \E plain \in pending, sent \in BOOLEAN : ServerResponse(plain, sent)

Next == Client \/ Server

Spec == Init /\ [][Next]_vars
=============================================================================
