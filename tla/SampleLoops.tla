----------------------------- MODULE SampleLoops -----------------------------
(***************************************************************************)
(* The endless loops of the sample programs linux_oscore,                  *)
(* linux_edhoc_oscore and zephyr_oscore, one operator for one turn.  A     *)
(* turn maps the state of a process, and the datagram it received, to what *)
(* it may become and send.                                                 *)
(*                                                                         *)
(* A process is a record                                                   *)
(*   stage   "down", "edhoc", "send", "wait" (client) or "loop" (server)   *)
(*   secret  the master secret and salt, ctx the struct context            *)
(*   token   the counter of the requests, secure request_secure_resource   *)
(*   rx      the request or answer that coap_rx_buf holds, NoMessage at    *)
(*           first                                                         *)
(*   out     what buf_oscore holds                                         *)
(* A datagram is a record: its destination, proto ("oscore", "coap" or,    *)
(* from module Edhoc, none) and its content.  All messages of the samples  *)
(* of one direction are equally long, so that none fails to fit where      *)
(* another one did.                                                        *)
(***************************************************************************)
EXTENDS OscoreContext

CONSTANTS IdContext   \* the ID Context of the samples, which is empty
ASSUME IdContextOfSamples == IdContext \in IdContexts /\ IdLen[IdContext] = 0

NoMessage == <<>>

\* The program has left main: TRY of oscore_edhoc_error.h returns from the
\* function it stands in.
TRY_Exit == [stage |-> "down"]

\* The two sides compare equal when they were derived from the same secret.
SameSecret(d, process) == d.secret = process.secret

\* sock_init connects the socket of a client to its server, so that only what
\* the server sends it arrives, and binds the one of a server to its port.
Arrives(d, address) == d.to = address

IsOscore(d) == "proto" \in DOMAIN d /\ d.proto = "oscore"

CoapDatagram(to, content) == [to |-> to, proto |-> "coap", content |-> content]

OscoreDatagram(to, process, packet) ==
  [to |-> to, proto |-> "oscore", secret |-> process.secret, content |-> packet]

\* What a socket that was given an uninitialized buffer sends.
Garbage(to) == CoapDatagram(to, NoMessage)

-----------------------------------------------------------------------------
(* Clients                                                                 *)

\* From the initialisation of the context to the loop.
LinuxClientInit(secret) ==
  [stage |-> "send", secret |-> secret,
   ctx |-> oscore_context_init("CLIENT", IdContext),
   token |-> 0, secure |-> TRUE, rx |-> NoMessage, out |-> NoMessage]

\* One request, before the blocking receive.  An error of coap2oscore is
\* printed, and buf_oscore sent with what it held.
LinuxClientSend(client, to, id) ==
  LET r == coap2oscore_request(client.ctx)
      next == [client EXCEPT !.stage = "wait", !.token = @ + 1,
                             !.secure = ~client.secure]
      out == IF r.err = "ok"
             THEN OscoreDatagram(to, client, RequestPacket(r.ctx, id))
             ELSE client.out
  IN  IF client.secure
      THEN [client |-> [next EXCEPT !.ctx = r.ctx, !.out = out],
            sent |-> IF out = NoMessage THEN Garbage(to) ELSE out]
      ELSE [client |-> next, sent |-> CoapDatagram(to, id)]

\* The same in linux_edhoc_oscore, where TRY ends the program.
EdhocOscoreClientSend(client, to, id) ==
  LET s == LinuxClientSend(client, to, id)
  IN  IF client.secure /\ coap2oscore_request(client.ctx).err # "ok"
      THEN [client |-> TRY_Exit, sent |-> NoMessage]
      ELSE s

\* What follows the receive.  The secure branch does not look at oscore_flag:
\* after an error, or a datagram without OSCORE option, it shows what
\* coap_rx_buf has held since before.  The other branch shows the datagram.
LinuxClientReceive(client, d) ==
  LET asked_secure == ~client.secure
  IN  IF /\ asked_secure /\ IsOscore(d)
         /\ oscore2coap_response(client.ctx, d.content, SameSecret(d, client)) = "ok"
      THEN [client EXCEPT !.stage = "send", !.rx = d.content.plain]
      ELSE [client EXCEPT !.stage = "send"]

EdhocOscoreClientReceive(client, d) ==
  IF /\ ~client.secure /\ IsOscore(d)
     /\ oscore2coap_response(client.ctx, d.content, SameSecret(d, client)) # "ok"
  THEN TRY_Exit
  ELSE LinuxClientReceive(client, d)

\* The message the program takes for the answer to its request; NoMessage when
\* it has nothing new.
Taken(client, d) ==
  CASE ~client.secure /\ IsOscore(d) ->
         IF oscore2coap_response(client.ctx, d.content, SameSecret(d, client)) = "ok"
         THEN d.content.plain ELSE NoMessage
    [] client.secure /\ "proto" \in DOMAIN d /\ ~IsOscore(d) -> d.content
    [] OTHER -> NoMessage

-----------------------------------------------------------------------------
(* Servers                                                                 *)

LinuxServerInit(secret) ==
  [stage |-> "loop", secret |-> secret,
   ctx |-> oscore_context_init("SERVER", IdContext),
   rx |-> NoMessage, out |-> NoMessage]

\* Mutant: the answer has no token.
prepare_CoAP_response_NoToken(request) == NoMessage

\* main of zephyr_oscore's server up to its loop.
ZephyrServerInit(secret) == LinuxServerInit(secret)

\* prepare_CoAP_response takes token and message ID from the request, so the
\* answer names the request it answers.
prepare_CoAP_response(request) == request

\* Mutant: the answer is prepared before the request is converted.
LinuxServerTurn_PreparedEarly(server, d, client) ==
  LET r == oscore2coap_request(server.ctx, d.content, SameSecret(d, server))
      rx == IF r.err = "ok" THEN d.content.plain ELSE server.rx
  IN  IF IsOscore(d)
      THEN [server |-> [server EXCEPT !.ctx = r.ctx, !.rx = rx],
            reply |-> OscoreDatagram(client, server,
                        ResponsePacket(r.ctx, prepare_CoAP_response(server.rx)))]
      ELSE [server |-> server, reply |-> CoapDatagram(client, NoMessage)]

\* A turn of linux_oscore's server.  Errors are printed; oscore_flag is set
\* before any of them, so that a request that was refused is answered as if it
\* were the last one that was not, with the parameters of the context as the
\* refusal left them.
LinuxServerTurn(server, d, client) ==
  LET r == oscore2coap_request(server.ctx, d.content, SameSecret(d, server))
      rx == IF r.err = "ok" THEN d.content.plain ELSE server.rx
      out == IF CoseAadFits(r.ctx)
             THEN OscoreDatagram(client, server,
                    ResponsePacket(r.ctx, prepare_CoAP_response(rx)))
             ELSE server.out
  IN  IF IsOscore(d)
      THEN [server |-> [server EXCEPT !.ctx = r.ctx, !.rx = rx, !.out = out],
            reply |-> IF out = NoMessage THEN Garbage(client) ELSE out]
      ELSE [server |-> server,
            reply |-> IF "proto" \in DOMAIN d
                      THEN CoapDatagram(client, prepare_CoAP_response(d.content))
                      ELSE CoapDatagram(client, NoMessage)]

\* A turn of linux_edhoc_oscore's server: TRY ends the program.
EdhocOscoreServerTurn(server, d, client) ==
  LET r == oscore2coap_request(server.ctx, d.content, SameSecret(d, server))
  IN  IF IsOscore(d) /\ (r.err # "ok" \/ ~CoseAadFits(r.ctx))
      THEN [server |-> TRY_Exit, reply |-> NoMessage]
      ELSE LinuxServerTurn(server, d, client)

\* oscore_secured_get of zephyr_oscore, the handler of tv1, for the request
\* that was parsed: the result of coap2oscore is ignored, its buffer is new in
\* every call.
oscore_secured_get(server, request, client) ==
  IF CoseAadFits(server.ctx)
  THEN OscoreDatagram(client, server, ResponsePacket(server.ctx, request))
  ELSE Garbage(client)

\* process_coap_request: the errors of oscore2coap are positive and the test
\* is for negative ones.  decrypted_oscore and its length, which is also its
\* capacity, are not initialized: when nothing was written, or it did not
\* fit, the buffer may hold the request of an earlier call or nothing that
\* parses (then there is no reply).  tv1 is the only resource of the three
\* that the clients ask for.
process_coap_request(server, d, client) ==
  LET r == oscore2coap_request(server.ctx, d.content, SameSecret(d, server))
      parsed == {server.rx, NoMessage}
                  \cup (IF r.err = "ok" THEN {d.content.plain} ELSE {})
      after(rx) == [server EXCEPT !.ctx = r.ctx,
                                  !.rx = IF rx = NoMessage THEN @ ELSE rx]
  IN  IF IsOscore(d)
      THEN {[server |-> after(rx),
             reply |-> IF rx = NoMessage THEN NoMessage
                       ELSE oscore_secured_get(after(rx), rx, client)] :
              rx \in parsed}
      ELSE {[server |-> server, reply |-> NoMessage]}
=============================================================================
