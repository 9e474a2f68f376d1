------------------------ MODULE SecureSessionProofs -------------------------
(***************************************************************************)
(* Proofs about the sample programs of module SecureSession.  The          *)
(* inductive invariant speaks of the samples whose behaviour is            *)
(* determined, "linux" and "edhoc"; the properties make the same           *)
(* distinction.                                                            *)
(***************************************************************************)
EXTENDS SecureSession, EdhocProofs, OscoreContextLemmas

-----------------------------------------------------------------------------
(* The inductive invariant                                                 *)

\* The datagrams that coap2oscore has made.
Protected == {d \in sent : IsOscore(d)}

\* The sequence number in the Partial IV of a request.
Number(q) == q.content.piv[1]

\* A datagram is a request of the client with a Partial IV of one byte, the
\* only ones that can be sent.  Every process protects each second request, so
\* that the sequence number tells the token, whatever the secret is.
IsRequest(d) ==
  /\ d.to = R
  /\ d = [to |-> R, proto |-> "oscore", secret |-> d.secret,
          content |-> RequestFor(IdContext, Number(d), d.content.plain)]
  /\ Number(d) \in 0 .. Byte - 1 /\ KidLen <= 6
  /\ Token(d.content.plain) = 2 * Number(d) + 1

Requests == {d \in Protected : IsRequest(d)}

\* Answer d has the parameters of request q, and answers it unless the server
\* had to refuse q.
Answers(d, q) ==
  /\ d.secret = q.secret
  /\ d.content.nonce = q.content.nonce /\ d.content.aad = q.content.aad
  /\ Number(q) = Byte - 1 \/ d.content.plain = q.content.plain

IsAnswer(d) ==
  /\ d.to = Client /\ d.content.key = derive_key(IdContext, ServerId)
  /\ \E q \in Requests : Answers(d, q)

\* What was sent.
DatagramsInv ==
  /\ net \cup wire \subseteq sent
  /\ \A d \in Protected : d \in Requests \/ IsAnswer(d)

\* Without EDHOC the secret of all requests is the one that is built in.
SecretsInv ==
  kind = "linux" => \A q \in Requests : q.secret = PreSharedSecret

\* The client's request-response parameters are those of the last sequence
\* number it used; after a number that could not be sent, its AAD is that of
\* no request.
ParametersInv(c) ==
  LET n == c.sender_seq_num
  IN  \/ n = 0
      \/ n > Byte /\ c.aad[3] = FALSE
      \/ /\ n \in 1 .. Byte
         /\ KidLen <= 6 =>
              /\ c.piv = OneBytePiv(n - 1)
              /\ c.nonce = create_nonce(ClientId, OneBytePiv(n - 1),
                                        derive_common_iv(IdContext))

\* The client in its loop: its requests are protected in turns, so that the
\* next sequence number follows from the token.
ClientInv ==
  LET n == client.ctx.sender_seq_num
  IN  Looping(client) =>
        /\ client = [stage |-> client.stage, secret |-> client.secret,
                     ctx |-> client.ctx, token |-> client.token,
                     secure |-> client.secure, rx |-> client.rx,
                     out |-> client.out]
        /\ n \in Nat /\ client.token \in 0 .. MaxTokens
        /\ client.secure \in BOOLEAN
        /\ client.token = IF client.secure THEN 2 * n ELSE 2 * n - 1
        /\ ClientContext(client.ctx, IdContext, n) /\ ParametersInv(client.ctx)
        /\ client.out = NoMessage \/ client.out \in sent

\* The client's secret is the one that is built in, or that of the run of
\* EDHOC that has just returned ok.
ClientSecretInv ==
  /\ kind = "linux" => client.secret = PreSharedSecret
  /\ kind = "edhoc" /\ Looping(client) =>
       /\ init[Client].stage = "ok"
       /\ client.secret = SessionKey(init[Client].prk_4x3m, init[Client].th4)

\* The server in its loop can always answer, wherever oscore2coap returned.
ServerInv ==
  /\ kind = "linux" => server.secret = PreSharedSecret
  /\ server.stage = "loop" =>
       /\ server = [stage |-> "loop", secret |-> server.secret,
                    ctx |-> server.ctx, rx |-> server.rx, out |-> server.out]
       /\ ServerContext(server.ctx) /\ AadRoom(server.ctx)
       /\ server.ctx.id_context = IdContext

\* The runs of EDHOC, and what was ever sent in them.
RunsInv ==
  kind = "edhoc" =>
    /\ EdhocInv
    /\ \A d \in sent : "proto" \notin DOMAIN d => GenuineMessage(d)

\* The programs that do not run EDHOC never leave their loops.
LoopsInv ==
  kind # "edhoc" =>
    /\ "stage" \in DOMAIN client /\ Looping(client)
    /\ "stage" \in DOMAIN server /\ server.stage = "loop"

SessionInv ==
  /\ kind \in Kinds /\ LoopsInv /\ RunsInv
  /\ kind # "zephyr" =>
       /\ DatagramsInv /\ SecretsInv /\ ClientInv /\ ClientSecretInv
       /\ ServerInv /\ AnswersBelong

-----------------------------------------------------------------------------
(* What the invariant says of requests and answers                         *)

\* The members of a request on which nonces and answers depend.
LEMMA RequestFields ==
  ASSUME NEW q, IsRequest(q)
  PROVE  /\ q.content = RequestFor(IdContext, Number(q), q.content.plain)
         /\ q.content.piv = OneBytePiv(Number(q))
         /\ q.content.nonce = create_nonce(ClientId, OneBytePiv(Number(q)),
                                           derive_common_iv(IdContext))
         /\ q.content.aad = <<ClientId, OneBytePiv(Number(q)), TRUE>>
         /\ q.content.key = derive_key(IdContext, ClientId)
         /\ q.content.opt_len < 13
<1>1. q.content = RequestFor(IdContext, Number(q), q.content.plain)
  BY DEF IsRequest
<1>2. q.content.aad = <<ClientId, OneBytePiv(Number(q)), TRUE>>
  BY <1>1, RequestForAad
<1>3. /\ q.content.piv = OneBytePiv(Number(q))
      /\ q.content.nonce = create_nonce(ClientId, OneBytePiv(Number(q)),
                                        derive_common_iv(IdContext))
  BY <1>1, RequestForFields
<1>4. q.content.key = derive_key(IdContext, ClientId)
  BY <1>1 DEF RequestFor
<1>5. q.content.opt_len < 13
  <2>1. q.content.opt_len
          = 2 + KidLen
              + (IF IdLen[IdContext] > 0 THEN 1 + IdLen[IdContext] ELSE 0)
    BY <1>1 DEF RequestFor
  <2>2. KidLen \in 0 .. 7 /\ IdLen[IdContext] = 0
    BY KidLenAssumption, IdContextOfSamples
  <2> QED BY <2>1, <2>2
<1> QED BY <1>1, <1>2, <1>3, <1>4, <1>5

\* A nonce names the number of its request.
LEMMA NonceNamesNumber ==
  ASSUME NEW p, NEW q, IsRequest(p), IsRequest(q),
         p.content.nonce = q.content.nonce
  PROVE  Number(p) = Number(q)
<1>1. Number(p) \in 0 .. Byte - 1 /\ Number(q) \in 0 .. Byte - 1
  BY DEF IsRequest
<1>2. create_nonce(ClientId, OneBytePiv(Number(p)), derive_common_iv(IdContext))
        = create_nonce(ClientId, OneBytePiv(Number(q)),
                       derive_common_iv(IdContext))
  BY RequestFields
<1> QED BY <1>1, <1>2, PaddedPivInjective

\* The last byte of the padded Partial IV is the number of the request.
LEMMA MarkerInNonce ==
  ASSUME NEW q, IsRequest(q)
  PROVE  q.content.nonce[3][5] = Number(q)
<1>1. Number(q) \in 0 .. Byte - 1
  BY DEF IsRequest
<1>2. LeftPad(OneBytePiv(Number(q)))[5] = Number(q)
  BY <1>1 DEF LeftPad, OneBytePiv, MAX_PIV_LEN
<1>3. q.content.nonce[3] = LeftPad(OneBytePiv(Number(q)))
  <2>1. q.content.nonce = create_nonce(ClientId, OneBytePiv(Number(q)),
                                       derive_common_iv(IdContext))
    BY RequestFields
  <2> QED BY <2>1 DEF create_nonce
<1> QED BY <1>2, <1>3

\* The invariant implies that no secret, key and nonce protect two different
\* messages.
LEMMA FreshNonces == SessionInv => NoncesFresh
<1> SUFFICES ASSUME SessionInv PROVE NoncesFresh
  OBVIOUS
<1> SUFFICES ASSUME NEW d \in Protected, NEW e \in Protected,
                    kind # "zephyr",
                    \A i \in 1 .. MAX_PIV_LEN : d.content.nonce[3][i] # Byte - 1,
                    d.secret = e.secret, d.content.key = e.content.key,
                    d.content.nonce = e.content.nonce
             PROVE  Token(d.content.plain) = Token(e.content.plain)
  BY DEF NoncesFresh, Protected
<1>1. /\ d \in Requests \/ IsAnswer(d)
      /\ e \in Requests \/ IsAnswer(e)
  BY DEF SessionInv, DatagramsInv
<1>2. derive_key(IdContext, ClientId) # derive_key(IdContext, ServerId)
  BY IdsAssumption DEF derive_key
<1>3. \A p, q \in Requests :
        p.content.nonce = q.content.nonce
          => Token(p.content.plain) = Token(q.content.plain)
  BY NonceNamesNumber DEF Requests, IsRequest
<1>4. d.content.nonce[3][5] # Byte - 1
  BY DEF MAX_PIV_LEN
<1>5. CASE d \in Requests
  <2>1. ~IsAnswer(e)
    BY <1>2, <1>5, RequestFields DEF IsAnswer, Requests
  <2> QED BY <1>1, <1>3, <1>5, <2>1
<1>6. CASE IsAnswer(d)
  <2>1. e \notin Requests
    BY <1>2, <1>6, RequestFields DEF IsAnswer, Requests
  <2>2. PICK p \in Requests : Answers(d, p)
    BY <1>6 DEF IsAnswer
  <2>3. PICK q \in Requests : Answers(e, q)
    BY <1>1, <2>1 DEF IsAnswer
  <2>4. /\ Token(p.content.plain) = Token(q.content.plain)
        /\ Number(p) = Number(q)
    BY <1>3, <2>2, <2>3, NonceNamesNumber DEF Answers, Requests
  <2>5. Number(p) # Byte - 1
    BY <1>4, <2>2, MarkerInNonce DEF Answers, Requests
  <2> QED BY <2>2, <2>3, <2>4, <2>5 DEF Answers
<1> QED BY <1>1, <1>5, <1>6

\* With message 4 the client's run has returned ok only with a key that the
\* server has accepted.
LEMMA PairedContexts ==
  ASSUME Msg4I, SessionInv
  PROVE  ContextsPaired
<1> SUFFICES ASSUME kind = "edhoc", Looping(client)
             PROVE  \E a \in accepted : a.key = client.secret
  BY DEF ContextsPaired
<1>1. Client \in Devices
  BY SessionAssumption
<1>2. InitiatorInv(Client)
  BY <1>1 DEF SessionInv, RunsInv, EdhocInv
<1>3. /\ init[Client].stage = "ok"
      /\ client.secret = SessionKey(init[Client].prk_4x3m, init[Client].th4)
  BY DEF SessionInv, ClientSecretInv
<1> QED BY <1>2, <1>3 DEF InitiatorInv

-----------------------------------------------------------------------------
(* Steps that send no request                                              *)

\* A step that sends no protected request, but maybe an answer to one.
QuietStep ==
  /\ sent' = sent \cup net' \cup wire'
  /\ \A d \in net' : d \in sent \/ "proto" \notin DOMAIN d
  /\ \A d \in wire' :
       \/ d \in sent
       \/ "proto" \in DOMAIN d /\ (IsOscore(d) => IsAnswer(d))
  /\ kind' = kind

\* An answer is no request.
LEMMA AnswerIsNoRequest ==
  ASSUME NEW d, IsAnswer(d)
  PROVE  ~IsRequest(d)
BY SessionAssumption, DevicesAssumption DEF IsAnswer, IsRequest

\* Such a step leaves the requests as they were.
LEMMA QuietRequests ==
  ASSUME QuietStep, DatagramsInv
  PROVE  Requests' = Requests /\ DatagramsInv'
<1>1. \A d \in sent' : IsOscore(d) => d \in sent \/ IsAnswer(d)
  BY DEF QuietStep, IsOscore
<1>2. Requests' = Requests
  <2>1. \A d : IsRequest(d)' <=> IsRequest(d)
    BY DEF IsRequest, Number
  <2>2. \A d \in Requests' : d \in Requests
    BY <1>1, <2>1, AnswerIsNoRequest DEF Requests, Protected
  <2>3. \A d \in Requests : d \in Requests'
    BY <2>1 DEF Requests, Protected, QuietStep
  <2> QED BY <2>2, <2>3
<1>3. net' \cup wire' \subseteq sent'
  BY DEF QuietStep
<1>4. \A d : IsAnswer(d) => IsAnswer(d)'
  BY <1>2 DEF IsAnswer, Answers, Number
<1>5. \A d \in Protected' : d \in Requests' \/ IsAnswer(d)'
  BY <1>1, <1>2, <1>4 DEF DatagramsInv, Protected
<1> QED BY <1>2, <1>3, <1>5 DEF DatagramsInv, Number

\* A message of EDHOC is none of the other protocols.
LEMMA DeliveredHasNoProto ==
  ASSUME NEW m, Delivered(m)
  PROVE  "proto" \notin DOMAIN m
BY DEF Delivered, Message

\* The runs of EDHOC stay within their invariant, and nothing else that is
\* sent looks like a message of theirs.
LEMMA RunsKept ==
  ASSUME RunsInv, kind' = kind, sent' = sent \cup net' \cup wire',
         kind = "edhoc" => EdhocInv' /\ HistoryGrows,
         \A d \in wire' : d \in sent \/ "proto" \in DOMAIN d
  PROVE  RunsInv'
<1> SUFFICES ASSUME kind = "edhoc", NEW d \in sent', "proto" \notin DOMAIN d
             PROVE  GenuineMessage(d)'
  BY DEF RunsInv
<1>1. CASE d \in sent
  BY <1>1, MessageKept DEF RunsInv
<1>2. CASE d \in net'
  BY <1>2 DEF EdhocInv
<1> QED BY <1>1, <1>2

\* What a run of EDHOC sends has no "proto".
LEMMA RunsSendMessages ==
  ASSUME EdhocInv'
  PROVE  \A d \in net' : "proto" \notin DOMAIN d
<1> SUFFICES ASSUME NEW d \in net' PROVE "proto" \notin DOMAIN d
  OBVIOUS
<1>1. GenuineMessage(d)'
  BY DEF EdhocInv
<1>2. Delivered(d)
  BY <1>1 DEF GenuineMessage, Delivered
<1> QED BY <1>2, DeliveredHasNoProto

\* A change of the messages under way to others that were sent.
LEMMA NetworkKeeps ==
  ASSUME EdhocInv,
         UNCHANGED <<init, resp, spent, answered, derived, accepted, confirmed>>,
         \A m \in net' : GenuineMessage(m)
  PROVE  EdhocInv' /\ HistoryGrows
<1>1. HistoryGrows
  BY DEF HistoryGrows
<1>2. \A m \in net' : GenuineMessage(m)'
  BY <1>1, MessageKept
<1>3. spent.runs \in Nat
  BY BoundsAssumption DEF EdhocInv, SpentInv
<1>4. \A i \in Devices : InitiatorInv(i)'
  BY <1>1, <1>3, InitiatorKept DEF EdhocInv
<1>5. \A d \in derived : DerivedInv(d)'
  BY <1>1, DerivedKept DEF EdhocInv, DerivedInv, InitiatorAdvances, InitiatorInv
<1>6. resp.run \in Nat /\ ResponderAdvances
  BY BoundsAssumption DEF EdhocInv, ResponderInv, ResponderAdvances
<1>7. \A a \in accepted : AcceptedInv(a)'
  BY <1>1, <1>6, AcceptedKept DEF EdhocInv
<1>8. ResponderInv' /\ SpentInv'
  BY <1>1, ResponderKept DEF EdhocInv, SpentInv
<1>9. \A a \in answered : AnsweredInv(a)'
  BY DEF EdhocInv, AnsweredInv
<1> QED BY <1>1, <1>2, <1>4, <1>5, <1>7, <1>8, <1>9 DEF EdhocInv

\* The client stays in its loop as it is.
LEMMA ClientKept ==
  ASSUME ClientInv, sent \subseteq sent', client' = client
  PROVE  ClientInv'
BY DEF ClientInv, Looping, ParametersInv, ClientContext, IsContext

\* What a step that protects nothing has to show.
LEMMA QuietKeeps ==
  ASSUME SessionInv, QuietStep, LoopsInv', RunsInv',
         kind # "zephyr" =>
           /\ ClientInv' /\ ClientSecretInv' /\ ServerInv' /\ AnswersBelong'
  PROVE  SessionInv'
<1>1. kind' = kind /\ kind' \in Kinds
  BY DEF SessionInv, QuietStep
<1>2. CASE kind = "zephyr"
  BY <1>1, <1>2 DEF SessionInv
<1>3. CASE kind # "zephyr"
  <2>1. Requests' = Requests /\ DatagramsInv'
    BY <1>3, QuietRequests DEF SessionInv
  <2>2. SecretsInv'
    BY <1>1, <1>3, <2>1 DEF SessionInv, SecretsInv
  <2> QED BY <1>1, <1>3, <2>1, <2>2 DEF SessionInv
<1> QED BY <1>2, <1>3

\* Nothing new is taken for an answer.
LEMMA TakenKept ==
  ASSUME AnswersBelong, taken' = taken, kind' = kind
  PROVE  AnswersBelong'
BY DEF AnswersBelong

-----------------------------------------------------------------------------
(* The steps of EDHOC                                                      *)

\* edhoc_initiator_run and edhoc_responder_run, called or receiving: neither
\* process is in its loop when its run makes a step.
LEMMA RunStepKeeps ==
  ASSUME SessionInv, kind = "edhoc", EdhocInv', HistoryGrows,
         sent' = sent \cup net' \cup wire', wire' \subseteq wire,
         kind' = kind, taken' = taken,
         \/ client' = client /\ init' = init
         \/ client'.stage \in {"edhoc", "down"},
         server' = server \/ server'.stage # "loop"
  PROVE  SessionInv'
<1>1. /\ DatagramsInv /\ ClientInv /\ ClientSecretInv /\ ServerInv /\ EdhocInv
      /\ AnswersBelong'
  BY TakenKept DEF SessionInv, RunsInv
<1>2. wire' \subseteq sent
  BY <1>1 DEF DatagramsInv
<1>3. QuietStep
  BY <1>2, RunsSendMessages DEF QuietStep
<1>4. RunsInv'
  BY <1>2, RunsKept DEF SessionInv
<1>5. ClientInv'
  <2>1. sent \subseteq sent'
    OBVIOUS
  <2>2. CASE client' = client /\ init' = init
    BY <1>1, <2>1, <2>2, ClientKept
  <2>3. CASE client'.stage \in {"edhoc", "down"}
    BY <2>3 DEF ClientInv, Looping
  <2> QED BY <2>2, <2>3
<1>6. ClientSecretInv'
  BY <1>1 DEF ClientSecretInv, Looping
<1>7. ServerInv'
  BY <1>1 DEF ServerInv
<1>8. LoopsInv'
  BY DEF LoopsInv
<1> QED BY <1>1, <1>3, <1>4, <1>5, <1>6, <1>7, <1>8, QuietKeeps

\* What the client's run of EDHOC does with a message leaves the histories.
LEMMA InitiatorReceivesGrows ==
  ASSUME InitiatorReceives(Client)
  PROVE  HistoryGrows
<1>1. PICK m \in net :
        InitiatorMessage2(Client, m) \/ InitiatorMessage4(Client, m)
  BY DEF InitiatorReceives
<1>2. CASE InitiatorFails(Client, m)
  BY <1>2 DEF InitiatorFails, HistoryGrows
<1>3. CASE InitiatorMessage2(Client, m) /\ ~InitiatorFails(Client, m)
  BY <1>3 DEF InitiatorMessage2, HistoryGrows
<1>4. CASE InitiatorMessage4(Client, m) /\ ~InitiatorFails(Client, m)
  BY <1>4 DEF InitiatorMessage4, HistoryGrows
<1> QED BY <1>1, <1>2, <1>3, <1>4

\* Every step in which a run of EDHOC starts, receives, or ends with its
\* process.
LEMMA EdhocKeeps ==
  ASSUME SessionInv, sent' = sent \cup net' \cup wire',
         \/ \E c \in Configs : ClientMain(c)
         \/ ServerMain \/ ClientEdhoc \/ ServerEdhoc
         \/ ClientStops \/ ServerStops
  PROVE  SessionInv'
<1>1. kind = "edhoc" /\ EdhocInv
  <2>1. \/ kind = "edhoc"
        \/ client.stage = "edhoc" \/ server.stage = "edhoc"
    BY DEF ClientMain, ServerMain, ClientEdhoc, ServerEdhoc, ClientStops,
           ServerStops
  <2>2. kind = "edhoc"
    BY <2>1 DEF SessionInv, LoopsInv, Looping
  <2> QED BY <2>2 DEF SessionInv, RunsInv
<1>2. Client \in Devices /\ Client \in DOMAIN init
  BY <1>1, SessionAssumption DEF EdhocInv
<1>3. ASSUME NEW c \in Configs, ClientMain(c) PROVE SessionInv'
  <2>1. EdhocInv'
    BY <1>1, <1>2, <1>3, InitiatorRunKeeps DEF ClientMain
  <2>2. HistoryGrows
    BY <1>3 DEF ClientMain, InitiatorRun, HistoryGrows
  <2> QED BY <1>1, <1>3, <2>1, <2>2, RunStepKeeps DEF ClientMain
<1>4. CASE ServerMain
  <2>1. EdhocInv'
    BY <1>1, <1>4, ResponderRunKeeps DEF ServerMain
  <2>2. HistoryGrows /\ init' = init
    BY <1>4 DEF ServerMain, ResponderRun, HistoryGrows
  <2> QED BY <1>1, <1>4, <2>1, <2>2, RunStepKeeps DEF ServerMain
<1>5. CASE ClientEdhoc
  <2>1. CASE InitiatorReceives(Client) /\ UNCHANGED sampleVars
    <3>1. EdhocInv'
      BY <1>1, <1>2, <2>1, InitiatorStep
    <3>2. HistoryGrows
      BY <2>1, InitiatorReceivesGrows
    <3> QED BY <1>1, <1>5, <2>1, <3>1, <3>2, RunStepKeeps
            DEF ClientEdhoc, sampleVars
  <2>2. ASSUME NEW d \in wire, InitiatorFails(Client, d), wire' = wire \ {d},
               UNCHANGED <<kind, client, server, taken, faults>>
        PROVE  SessionInv'
    <3>1. EdhocInv'
      BY <1>1, <1>2, <2>2, InitiatorFailsKeeps
    <3>2. HistoryGrows
      BY <2>2 DEF InitiatorFails, HistoryGrows
    <3> QED BY <1>1, <1>5, <2>2, <3>1, <3>2, RunStepKeeps DEF ClientEdhoc
  <2> QED BY <1>5, <2>1, <2>2 DEF ClientEdhoc
<1>6. CASE ServerEdhoc
  <2>1. ASSUME NEW m \in net, ResponderMessage1(m) \/ ResponderMessage3(m),
               UNCHANGED sampleVars
        PROVE  SessionInv'
    <3>1. EdhocInv'
      BY <1>1, <2>1, ResponderStepKeeps DEF ResponderStep
    <3>2. HistoryGrows /\ init' = init
      BY <2>1 DEF ResponderMessage1, ResponderMessage3, ResponderFails,
                  HistoryGrows
    <3> QED BY <1>1, <2>1, <3>1, <3>2, RunStepKeeps DEF sampleVars
  <2>2. ASSUME NEW d \in wire, ResponderFails(d, resp), wire' = wire \ {d},
               UNCHANGED <<kind, client, server, taken, faults>>
        PROVE  SessionInv'
    <3>1. EdhocInv'
      BY <1>1, <2>2, ResponderFailsKeeps DEF EdhocInv, ResponderInv
    <3>2. HistoryGrows /\ init' = init
      BY <2>2 DEF ResponderFails, HistoryGrows
    <3> QED BY <1>1, <2>2, <3>1, <3>2, RunStepKeeps
  <2> QED BY <1>6, <2>1, <2>2 DEF ServerEdhoc
<1>7. CASE ClientStops
  <2>1. EdhocInv'
    BY <1>1, <1>2, <1>7, InitiatorStopsKeeps DEF ClientStops
  <2>2. HistoryGrows /\ client'.stage = "down"
    BY <1>7 DEF ClientStops, HistoryGrows, TRY_Exit
  <2> QED BY <1>1, <1>7, <2>1, <2>2, RunStepKeeps DEF ClientStops
<1>8. CASE ServerStops
  <2>1. EdhocInv'
    BY <1>1, <1>8, ResponderStopsKeeps DEF ServerStops
  <2>2. /\ HistoryGrows /\ init' = init /\ server'.stage # "loop"
        /\ wire' \subseteq wire
    BY <1>8 DEF ServerStops, HistoryGrows, TRY_Exit
  <2> QED BY <1>1, <1>8, <2>1, <2>2, RunStepKeeps DEF ServerStops
<1> QED BY <1>3, <1>4, <1>5, <1>6, <1>7, <1>8

\* A step that leaves EDHOC's runs and messages alone.
LEMMA UntouchedRuns ==
  ASSUME EdhocInv, UNCHANGED vars
  PROVE  EdhocInv' /\ HistoryGrows
<1>1. /\ UNCHANGED <<init, resp, spent, answered, derived, accepted, confirmed>>
      /\ net' = net
  BY DEF vars
<1> QED BY <1>1, NetworkKeeps DEF EdhocInv

\* edhoc_initiator_run returned ok and the client has derived its context.
LEMMA ClientRunReturnedKeeps ==
  ASSUME SessionInv, ClientRunReturned, sent' = sent \cup net' \cup wire'
  PROVE  SessionInv'
<1>1. kind = "edhoc"
  BY DEF SessionInv, LoopsInv, Looping, ClientRunReturned
<1>2. /\ DatagramsInv /\ SecretsInv /\ ClientSecretInv /\ ServerInv /\ EdhocInv
  BY <1>1 DEF SessionInv, RunsInv
<1>3. /\ UNCHANGED <<kind, server, wire, taken, init, derived>> /\ net' = net
      /\ UNCHANGED vars /\ AnswersBelong'
  BY <1>1, TakenKept DEF SessionInv, ClientRunReturned, vars
<1>4. EdhocInv' /\ HistoryGrows
  BY <1>2, <1>3, UntouchedRuns
<1>5. QuietStep
  BY <1>2, <1>3 DEF QuietStep, DatagramsInv
<1>6. RunsInv'
  BY <1>3, <1>4, <1>5, RunsKept DEF SessionInv, QuietStep
<1>7. LoopsInv' /\ ServerInv'
  BY <1>1, <1>2, <1>3 DEF LoopsInv, ServerInv
<1>8. ASSUME init[Client].stage # "ok"
      PROVE  client'.stage = "down"
  BY <1>8 DEF ClientRunReturned, TRY_Exit
<1>9. ASSUME init[Client].stage = "ok"
      PROVE  ClientInv' /\ ClientSecretInv'
  <2> DEFINE key == SessionKey(init[Client].prk_4x3m, init[Client].th4)
             c == oscore_context_init("CLIENT", IdContext)
  <2>1. client' = [stage |-> "send", secret |-> key, ctx |-> c, token |-> 0,
                   secure |-> TRUE, rx |-> NoMessage, out |-> NoMessage]
    BY <1>9 DEF ClientRunReturned, LinuxClientInit
  <2>2. /\ IsContext(c) /\ c.id_context = IdContext /\ c.kid = ClientId
        /\ c.kid_context = IdContext
        /\ c.common_iv = derive_common_iv(IdContext)
        /\ c.sender_key = derive_key(IdContext, ClientId)
        /\ c.sender_seq_num = 0 /\ c.aad_len = MAX_AAD_LEN
    <3> HIDE DEF c
    <3> QED BY IdContextOfSamples, InitFacts DEF c
  <2> HIDE DEF key, c
  <2>3. /\ client'.stage = "send" /\ client'.secret = key /\ client'.ctx = c
        /\ client'.token = 0 /\ client'.secure = TRUE
        /\ client'.out = NoMessage
        /\ client' = [stage |-> client'.stage, secret |-> client'.secret,
                      ctx |-> client'.ctx, token |-> client'.token,
                      secure |-> client'.secure, rx |-> client'.rx,
                      out |-> client'.out]
    BY <2>1
  <2>4. ClientContext(c, IdContext, 0) /\ ParametersInv(c)
    BY <2>2 DEF ClientContext, ParametersInv
  <2>5. ClientInv'
    <3>1. /\ client'.secure \in BOOLEAN /\ client'.token \in 0 .. MaxTokens
          /\ client'.token = IF client'.secure THEN 2 * 0 ELSE 2 * 0 - 1
      <4>1. client'.token \in 0 .. MaxTokens
        BY <2>3, SessionAssumption
      <4>2. client'.secure \in BOOLEAN
        BY Zenon, <2>3
      <4>3. IF client'.secure THEN client'.token = 2 * 0
            ELSE client'.token = 2 * 0 - 1
        BY <2>3
      <4> QED BY Zenon, <4>1, <4>2, <4>3
    <3>2. client'.ctx.sender_seq_num = 0
      BY <2>2, <2>3
    <3>3. ParametersInv(client.ctx)' /\ ClientContext(client.ctx, IdContext, 0)'
      BY <2>3, <2>4 DEF ParametersInv, ClientContext
    <3> QED BY <2>3, <3>1, <3>2, <3>3 DEF ClientInv
  <2>6. ClientSecretInv'
    BY <1>1, <1>3, <1>9, <2>3 DEF ClientSecretInv, key
  <2> QED BY <2>5, <2>6
<1>10. ClientInv' /\ ClientSecretInv'
  BY <1>1, <1>3, <1>8, <1>9 DEF ClientInv, ClientSecretInv, Looping
<1> QED BY <1>3, <1>5, <1>6, <1>7, <1>10, QuietKeeps

\* edhoc_responder_run returned ok and the server has derived its context.
LEMMA ServerRunReturnedKeeps ==
  ASSUME SessionInv, ServerRunReturned, sent' = sent \cup net' \cup wire'
  PROVE  SessionInv'
<1>1. kind = "edhoc"
  BY DEF SessionInv, LoopsInv, ServerRunReturned
<1>2. DatagramsInv /\ ClientInv /\ ClientSecretInv /\ EdhocInv
  BY <1>1 DEF SessionInv, RunsInv
<1>3. /\ UNCHANGED <<kind, client, wire, taken, init, derived>> /\ net' = net
      /\ UNCHANGED vars /\ AnswersBelong'
  BY <1>1, TakenKept DEF SessionInv, ServerRunReturned, vars
<1>4. EdhocInv' /\ HistoryGrows
  BY <1>2, <1>3, UntouchedRuns
<1>5. QuietStep
  BY <1>2, <1>3 DEF QuietStep, DatagramsInv
<1>6. RunsInv'
  BY <1>3, <1>4, <1>5, RunsKept DEF SessionInv, QuietStep
<1>7. LoopsInv' /\ ClientSecretInv'
  BY <1>1, <1>2, <1>3 DEF LoopsInv, ClientSecretInv, Looping
<1>8. ClientInv'
  BY <1>2, <1>3, <1>5, ClientKept DEF QuietStep
<1>9. ServerInv'
  <2>1. CASE resp.stage = "ok"
    <3> DEFINE key == ServerExporter(resp.prk_4x3m, resp.th4)
               c == oscore_context_init("SERVER", IdContext)
    <3>1. server' = [stage |-> "loop", secret |-> key, ctx |-> c,
                     rx |-> NoMessage, out |-> NoMessage]
      BY <2>1 DEF ServerRunReturned, LinuxServerInit
    <3>2. ServerContext(c)
      BY IdContextOfSamples, ContextInitFacts
    <3>3. c.kid = ClientId /\ c.aad_len = MAX_AAD_LEN /\ c.id_context = IdContext
      BY DEF oscore_context_init
    <3> HIDE DEF key, c
    <3> QED BY <1>1, <1>3, <3>1, <3>2, <3>3 DEF ServerInv, AadRoom
  <2>2. CASE resp.stage # "ok"
    BY <1>1, <1>3, <2>2 DEF ServerRunReturned, TRY_Exit, ServerInv
  <2> QED BY <2>1, <2>2
<1> QED BY <1>3, <1>5, <1>6, <1>7, <1>8, <1>9, QuietKeeps

-----------------------------------------------------------------------------
(* The steps of the network                                                *)

\* What is under way is lost, received or delivered again.
LEMMA NetworkRuns ==
  ASSUME SessionInv, kind = "edhoc",
         UNCHANGED <<init, resp, spent, answered, derived, accepted, confirmed>>,
         \A m \in net' : m \in net \/ (m \in sent /\ "proto" \notin DOMAIN m)
  PROVE  EdhocInv' /\ HistoryGrows
<1>1. EdhocInv /\ \A m \in net' : GenuineMessage(m)
  BY DEF SessionInv, RunsInv, EdhocInv
<1> QED BY <1>1, NetworkKeeps

\* The network loses a datagram or delivers it again.
LEMMA FaultKeeps ==
  ASSUME SessionInv, sent' = sent \cup net' \cup wire',
         \/ \E d \in net \cup wire : Lose(d)
         \/ \E d \in sent : Repeat(d)
  PROVE  SessionInv'
<1>1. /\ UNCHANGED <<init, resp, spent, answered, derived, accepted, confirmed>>
      /\ UNCHANGED <<kind, client, server, taken>>
  BY DEF Lose, Repeat, Consume
<1>2. /\ \A m \in net' : m \in net \/ (m \in sent /\ "proto" \notin DOMAIN m)
      /\ \A m \in wire' : m \in wire \/ (m \in sent /\ "proto" \in DOMAIN m)
  <2>1. ASSUME NEW d, Lose(d)
        PROVE  net' \subseteq net /\ wire' \subseteq wire
    BY <2>1 DEF Lose, Consume
  <2>2. ASSUME NEW d \in sent, Repeat(d)
        PROVE  \/ "proto" \in DOMAIN d /\ wire' = wire \cup {d} /\ net' = net
               \/ "proto" \notin DOMAIN d /\ net' = net \cup {d} /\ wire' = wire
    BY <2>2 DEF Repeat
  <2>3. CASE \E d \in net \cup wire : Lose(d)
    <3>1. PICK d \in net \cup wire : Lose(d)
      BY <2>3
    <3> QED BY <2>1, <3>1
  <2>4. CASE \E d \in sent : Repeat(d)
    <3>1. PICK d \in sent : Repeat(d)
      BY <2>4
    <3>2. \/ "proto" \in DOMAIN d /\ wire' = wire \cup {d} /\ net' = net
          \/ "proto" \notin DOMAIN d /\ net' = net \cup {d} /\ wire' = wire
      BY <2>2, <3>1
    <3> QED BY <3>2
  <2> QED BY <2>3, <2>4
<1>3. kind = "edhoc" => EdhocInv' /\ HistoryGrows
  BY <1>1, <1>2, NetworkRuns
<1>4. CASE kind = "zephyr"
  <2>1. RunsInv' /\ LoopsInv' /\ kind' \in Kinds
    BY <1>1, <1>4 DEF RunsInv, LoopsInv, SessionInv, Looping
  <2> QED BY <1>1, <1>4, <2>1 DEF SessionInv
<1>5. CASE kind # "zephyr"
  <2>1. DatagramsInv /\ ClientInv /\ ClientSecretInv /\ ServerInv
    BY <1>5 DEF SessionInv
  <2>2. QuietStep
    BY <1>1, <1>2, <2>1 DEF QuietStep, DatagramsInv
  <2>3. RunsInv'
    BY <1>1, <1>3, <2>2, RunsKept DEF SessionInv, QuietStep
  <2>4. /\ LoopsInv' /\ ClientSecretInv' /\ ServerInv'
        /\ AnswersBelong'
    BY <1>1, <1>5, <2>1, TakenKept
       DEF SessionInv, LoopsInv, ClientSecretInv, ServerInv, Looping
  <2>5. ClientInv'
    BY <1>1, <2>1, <2>2, ClientKept DEF QuietStep
  <2> QED BY <1>1, <2>2, <2>3, <2>4, <2>5, QuietKeeps
<1> QED BY <1>4, <1>5

-----------------------------------------------------------------------------
(* The steps of the loops                                                  *)

\* The samples without EDHOC in them, and the client or server of zephyr_oscore.
LEMMA ZephyrKeeps ==
  ASSUME SessionInv, kind = "zephyr", kind' = kind, LoopsInv'
  PROVE  SessionInv'
BY DEF SessionInv, RunsInv

\* An answer that oscore2coap accepts at the client was made from the request
\* that the client waits for, or from one with the payload marker.
LEMMA AcceptedAnswer ==
  ASSUME SessionInv, kind # "zephyr", client.stage = "wait", ~client.secure,
         NEW d \in Protected, d.to = Client, NEW intact,
         intact => d.secret = client.secret,
         oscore2coap_response(client.ctx, d.content, intact) = "ok"
  PROVE  \/ Token(RequestId) = Token(d.content.plain)
         \/ client.ctx.piv = OneBytePiv(Byte - 1)
<1> DEFINE c == client.ctx
           n == c.sender_seq_num
<1>1. /\ intact /\ d.content.nonce = c.nonce /\ d.content.aad = c.aad
  BY DEF oscore2coap_response, Decrypts
<1>2. IsAnswer(d)
  BY SessionAssumption, DevicesAssumption
     DEF SessionInv, DatagramsInv, Requests, IsRequest
<1>3. PICK q \in Requests : IsRequest(q) /\ Answers(d, q)
  BY <1>2 DEF IsAnswer, Requests
<1>4. /\ q.secret = client.secret /\ q.content.nonce = c.nonce
      /\ q.content.aad = c.aad
  BY <1>1, <1>3 DEF Answers
<1>5. /\ c.aad = <<ClientId, OneBytePiv(Number(q)), TRUE>>
      /\ c.nonce = create_nonce(ClientId, OneBytePiv(Number(q)),
                                derive_common_iv(IdContext))
  BY <1>3, <1>4, RequestFields
<1>6. c.aad[3] # FALSE
  BY <1>5
<1>7. ParametersInv(c) /\ n \in Nat /\ client.token = 2 * n - 1 /\ n > 0
  <2>1. /\ ParametersInv(c) /\ n \in Nat /\ client.token \in 0 .. MaxTokens
        /\ client.token = IF client.secure THEN 2 * n ELSE 2 * n - 1
    BY DEF SessionInv, ClientInv, Looping
  <2>2. client.token = 2 * n - 1 /\ client.token >= 0
    BY <2>1
  <2> HIDE DEF n
  <2> QED BY <2>1, <2>2
<1>8. /\ n \in 1 .. Byte /\ c.piv = OneBytePiv(n - 1)
      /\ c.nonce = create_nonce(ClientId, OneBytePiv(n - 1),
                                derive_common_iv(IdContext))
  <2>1. KidLen <= 6
    BY <1>3 DEF IsRequest
  <2>2. n \in Nat
    BY <1>7
  <2>3. \/ n = 0
        \/ n > Byte /\ c.aad[3] = FALSE
        \/ /\ n \in 1 .. Byte
           /\ KidLen <= 6 =>
                /\ c.piv = OneBytePiv(n - 1)
                /\ c.nonce = create_nonce(ClientId, OneBytePiv(n - 1),
                                          derive_common_iv(IdContext))
    BY <1>7 DEF ParametersInv
  <2>4. n # 0
    BY <1>7, <2>2
  <2> HIDE DEF n, c
  <2> QED BY <1>6, <2>1, <2>3, <2>4
<1>9. Number(q) = n - 1
  <2>1. n - 1 \in 0 .. Byte - 1 /\ Number(q) \in 0 .. Byte - 1
    BY <1>3, <1>8, ByteAssumption DEF IsRequest
  <2> HIDE DEF n
  <2>2. PICK j, iv : j = n - 1 /\ iv = derive_common_iv(IdContext)
    OBVIOUS
  <2>3. PICK k : k = Number(q)
    OBVIOUS
  <2>4. create_nonce(ClientId, OneBytePiv(k), iv)
          = create_nonce(ClientId, OneBytePiv(j), iv)
    BY Zenon, <1>5, <1>8, <2>2, <2>3
  <2>5. j \in 0 .. Byte - 1 /\ k \in 0 .. Byte - 1
    BY <2>1, <2>2, <2>3
  <2>6. k = j
    BY <2>4, <2>5, PaddedPivInjective
  <2> QED BY <2>2, <2>3, <2>6
<1>10. Token(q.content.plain) = 2 * Number(q) + 1
  BY <1>3 DEF IsRequest
<1>11. Token(RequestId) = client.token
  BY DEF Token, RequestId, NoMessage
<1>12. Token(q.content.plain) = Token(RequestId)
  <2> HIDE DEF n
  <2> QED BY <1>7, <1>9, <1>10, <1>11
<1> QED BY <1>3, <1>8, <1>9, <1>12 DEF Answers

\* What the client has taken for an answer to a protected request was accepted
\* by oscore2coap.
LEMMA TakenWasAccepted ==
  ASSUME NEW c, NEW d, IsOscore(d), Taken(c, d) # NoMessage
  PROVE  /\ ~c.secure /\ Taken(c, d) = d.content.plain
         /\ oscore2coap_response(c.ctx, d.content, SameSecret(d, c)) = "ok"
BY Zenon DEF Taken

\* A datagram ends the client's waiting, and whatever it takes for an answer
\* to its protected request answers that request.
LEMMA ClientReceiveKeeps ==
  ASSUME SessionInv, NEW d \in net \cup wire, ClientReceive(d),
         sent' = sent \cup net' \cup wire'
  PROVE  SessionInv'
<1>1. /\ UNCHANGED <<init, resp, spent, answered, derived, accepted, confirmed>>
      /\ UNCHANGED <<kind, server>>
      /\ net' = net \ {d} /\ wire' = wire \ {d}
      /\ client.stage = "wait" /\ d.to = Client
  BY DEF ClientReceive, Consume, Arrives
<1>2. \/ client' = TRY_Exit /\ kind = "edhoc"
      \/ client' = [client EXCEPT !.stage = "send", !.rx = d.content.plain]
      \/ client' = [client EXCEPT !.stage = "send"]
  BY Zenon DEF ClientReceive, EdhocOscoreClientReceive, LinuxClientReceive
<1>3. LoopsInv'
  BY <1>1, <1>2 DEF SessionInv, LoopsInv, Looping
<1>4. CASE kind = "zephyr"
  BY <1>1, <1>3, <1>4, ZephyrKeeps
<1>5. CASE kind # "zephyr"
  <2>1. /\ DatagramsInv /\ ClientInv /\ ClientSecretInv /\ ServerInv
        /\ AnswersBelong /\ Looping(client)
    BY <1>1, <1>5 DEF SessionInv, Looping
  <2>2. QuietStep
    BY <1>1, <2>1 DEF QuietStep, DatagramsInv
  <2>3. RunsInv'
    <3>1. kind = "edhoc" => EdhocInv' /\ HistoryGrows
      BY <1>1, NetworkRuns
    <3> QED BY <1>1, <2>2, <3>1, RunsKept DEF SessionInv, QuietStep
  <2>4. \/ client' = TRY_Exit /\ kind = "edhoc"
        \/ /\ client'.stage = "send"
           /\ client' = [stage |-> "send", secret |-> client.secret,
                         ctx |-> client.ctx, token |-> client.token,
                         secure |-> client.secure, rx |-> client'.rx,
                         out |-> client.out]
    BY <1>2, <2>1 DEF ClientInv
  <2>5. client'.stage # "edhoc" /\ ClientSecretInv'
    BY <1>1, <2>1, <2>4 DEF ClientSecretInv, Looping, TRY_Exit
  <2>6. ClientInv'
    BY <2>1, <2>2, <2>4
       DEF QuietStep, ClientInv, Looping, TRY_Exit, Number
  <2>7. ServerInv'
    BY <1>1, <2>1 DEF ServerInv
  <2>8. AnswersBelong'
    <3> DEFINE a == [asked |-> RequestId, got |-> Taken(client, d),
                     secure |-> IsOscore(d), piv |-> client.ctx.piv]
    <3>1. taken' = taken \/ (taken' = taken \cup {a} /\ Taken(client, d) # NoMessage)
      BY DEF ClientReceive
    <3>2. ASSUME IsOscore(d), Taken(client, d) # NoMessage
          PROVE  \/ Token(RequestId) = Token(Taken(client, d))
                 \/ \E i \in DOMAIN client.ctx.piv : client.ctx.piv[i] = Byte - 1
      <4>1. d \in Protected
        BY <2>1, <3>2 DEF DatagramsInv, Protected
      <4>2. /\ ~client.secure /\ Taken(client, d) = d.content.plain
            /\ oscore2coap_response(client.ctx, d.content,
                                    SameSecret(d, client)) = "ok"
        BY <3>2, TakenWasAccepted
      <4>3. SameSecret(d, client) => d.secret = client.secret
        BY DEF SameSecret
      <4>4. \/ Token(RequestId) = Token(d.content.plain)
            \/ client.ctx.piv = OneBytePiv(Byte - 1)
        BY <1>1, <1>5, <4>1, <4>2, <4>3, AcceptedAnswer
      <4>5. ASSUME client.ctx.piv = OneBytePiv(Byte - 1)
            PROVE  \E i \in DOMAIN client.ctx.piv : client.ctx.piv[i] = Byte - 1
        BY <4>5 DEF OneBytePiv
      <4> QED BY <4>2, <4>4, <4>5
    <3>3. /\ a.asked = RequestId /\ a.got = Taken(client, d)
          /\ a.piv = client.ctx.piv
      OBVIOUS
    <3>4. a.secure => IsOscore(d)
      BY Zenon
    <3> HIDE DEF a
    <3> QED BY <1>1, <2>1, <3>1, <3>2, <3>3, <3>4 DEF AnswersBelong
  <2> QED BY <1>1, <1>3, <2>2, <2>3, <2>5, <2>6, <2>7, <2>8, QuietKeeps
<1> QED BY <1>4, <1>5

\* What oscore2coap leaves of the server's context and its result, for a
\* request d of the client: the server can always answer with the parameters
\* of d, and refuses d only for its secret or the payload marker in it.
LEMMA ServerConverts ==
  ASSUME SessionInv, kind # "zephyr", server.stage = "loop",
         NEW d \in Requests, NEW intact,
         NEW r, r = oscore2coap_request(server.ctx, d.content, intact)
  PROVE  /\ ServerContext(r.ctx) /\ AadRoom(r.ctx) /\ CoseAadFits(r.ctx)
         /\ r.ctx.nonce = d.content.nonce /\ r.ctx.aad = d.content.aad
         /\ r.ctx.id_context = IdContext
         /\ r.ctx.sender_key = derive_key(IdContext, ServerId)
         /\ r.err = "ok" <=> Undamaged(d.content, intact)
<1> DEFINE n == Number(d)
           m == d.content
<1>1. /\ IsRequest(d) /\ n \in 0 .. Byte - 1 /\ KidLen <= 6
  BY DEF Requests, IsRequest
<1>2. m = RequestFor(IdContext, n, m.plain) /\ m.opt_len < 13
  BY <1>1, RequestFields
<1>3. /\ ServerContext(server.ctx) /\ AadRoom(server.ctx)
      /\ server.ctx.id_context = IdContext
  BY DEF SessionInv, ServerInv
<1>4. /\ IdContext \in IdContexts /\ IdLen[IdContext] <= MAX_KID_CONTEXT_LEN
      /\ IdLen[IdContext] <= IdLen[server.ctx.id_context]
  BY <1>3, IdContextOfSamples DEF MAX_KID_CONTEXT_LEN
<1> HIDE DEF n, m
<1>5. r = oscore2coap_request(server.ctx, m, intact)
  BY DEF m
<1> QED BY <1>1, <1>2, <1>3, <1>4, <1>5, RequestRead DEF m

\* The marker of a request is its number.
LEMMA MarkerIsNumber ==
  ASSUME NEW d, IsRequest(d)
  PROVE  MarkerInOption(d.content) => Number(d) = Byte - 1
<1>1. d.content.piv = OneBytePiv(Number(d))
  BY RequestFields
<1> QED BY <1>1 DEF MarkerInOption, OneBytePiv

\* A turn of the server with what has no OSCORE option.
LEMMA PlainTurn ==
  ASSUME NEW s, NEW d, ~IsOscore(d), NEW to
  PROVE  /\ LinuxServerTurn(s, d, to).server = s
         /\ EdhocOscoreServerTurn(s, d, to) = LinuxServerTurn(s, d, to)
         /\ \E content :
              LinuxServerTurn(s, d, to).reply = CoapDatagram(to, content)
<1>1. EdhocOscoreServerTurn(s, d, to) = LinuxServerTurn(s, d, to)
  BY Zenon DEF EdhocOscoreServerTurn
<1>2. LinuxServerTurn(s, d, to) =
        [server |-> s,
         reply |-> IF "proto" \in DOMAIN d
                   THEN CoapDatagram(to, prepare_CoAP_response(d.content))
                   ELSE CoapDatagram(to, NoMessage)]
  BY Zenon DEF LinuxServerTurn
<1> QED BY <1>1, <1>2

\* What a turn leaves and sends when the answer fits.
AnswerTurn(s, to, ctx, rx) ==
  LET out == OscoreDatagram(to, s, ResponsePacket(ctx, rx))
  IN  [server |-> [s EXCEPT !.ctx = ctx, !.rx = rx, !.out = out],
       reply |-> IF out = NoMessage THEN Garbage(to) ELSE out]

\* A turn of the server with a protected request whose answer fits.
LEMMA OscoreTurn ==
  ASSUME NEW s, NEW d, IsOscore(d), NEW to,
         NEW r, r = oscore2coap_request(s.ctx, d.content, SameSecret(d, s)),
         CoseAadFits(r.ctx),
         NEW rx, rx = IF r.err = "ok" THEN d.content.plain ELSE s.rx
  PROVE  /\ LinuxServerTurn(s, d, to) = AnswerTurn(s, to, r.ctx, rx)
         /\ EdhocOscoreServerTurn(s, d, to) =
              IF r.err # "ok" THEN [server |-> TRY_Exit, reply |-> NoMessage]
              ELSE LinuxServerTurn(s, d, to)
<1>1. LinuxServerTurn(s, d, to) = AnswerTurn(s, to, r.ctx, rx)
  BY Zenon DEF LinuxServerTurn, prepare_CoAP_response, AnswerTurn
<1>2. EdhocOscoreServerTurn(s, d, to) =
        IF r.err # "ok" THEN [server |-> TRY_Exit, reply |-> NoMessage]
        ELSE LinuxServerTurn(s, d, to)
  BY Zenon DEF EdhocOscoreServerTurn
<1> QED BY <1>1, <1>2

\* What such a turn writes over in the state of the server, and its reply.
LEMMA TurnWrites ==
  ASSUME NEW s, NEW secret, NEW old, NEW held, NEW made,
         s = [stage |-> "loop", secret |-> secret, ctx |-> old, rx |-> held,
              out |-> made],
         NEW to, NEW ctx, NEW rx,
         NEW out, out = OscoreDatagram(to, s, ResponsePacket(ctx, rx))
  PROVE  /\ AnswerTurn(s, to, ctx, rx).server
              = [stage |-> "loop", secret |-> secret, ctx |-> ctx, rx |-> rx,
                 out |-> out]
         /\ AnswerTurn(s, to, ctx, rx).reply \in {Garbage(to), out}
<1>1. AnswerTurn(s, to, ctx, rx)
        = [server |-> [s EXCEPT !.ctx = ctx, !.rx = rx, !.out = out],
           reply |-> IF out = NoMessage THEN Garbage(to) ELSE out]
  BY Zenon DEF AnswerTurn
<1>2. AnswerTurn(s, to, ctx, rx).server
        = [s EXCEPT !.ctx = ctx, !.rx = rx, !.out = out]
  <2>1. \A x, y : [server |-> x, reply |-> y].server = x
    OBVIOUS
  <2> QED BY Zenon, <1>1, <2>1
<1>3. AnswerTurn(s, to, ctx, rx).reply \in {Garbage(to), out}
  BY <1>1
<1> QED BY <1>2, <1>3

\* What a turn of the server leaves and sends: with a request of the client,
\* the parameters of that request.
LEMMA ServerTurnKeeps ==
  ASSUME SessionInv, kind # "zephyr", server.stage = "loop",
         NEW d \in sent, d.to = R, NEW t \in ServerTurn(d)
  PROVE  /\ \/ t.server = TRY_Exit /\ kind = "edhoc"
            \/ \E ctx, rx, out :
                 /\ t.server = [stage |-> "loop", secret |-> server.secret,
                                ctx |-> ctx, rx |-> rx, out |-> out]
                 /\ ServerContext(ctx) /\ AadRoom(ctx)
                 /\ ctx.id_context = IdContext
         /\ \/ t.reply = NoMessage
            \/ \E content : t.reply = CoapDatagram(Client, content)
            \/ IsAnswer(t.reply) /\ "proto" \in DOMAIN t.reply
<1>1. /\ kind = "linux" \/ kind = "edhoc"
      /\ t = IF kind = "linux" THEN LinuxServerTurn(server, d, Client)
             ELSE EdhocOscoreServerTurn(server, d, Client)
  <2>1. kind = "linux" \/ kind = "edhoc"
    BY SessionAssumption DEF SessionInv
  <2> QED BY <2>1 DEF ServerTurn
<1>2. /\ server = [stage |-> "loop", secret |-> server.secret,
                   ctx |-> server.ctx, rx |-> server.rx, out |-> server.out]
      /\ ServerContext(server.ctx) /\ AadRoom(server.ctx)
      /\ server.ctx.id_context = IdContext
  BY DEF SessionInv, ServerInv
<1>3. CASE ~IsOscore(d)
  <2>1. t.server = server /\ \E content : t.reply = CoapDatagram(Client, content)
    BY <1>1, <1>3, PlainTurn
  <2> QED BY <1>2, <2>1
<1>4. CASE IsOscore(d)
  <2>1. d \in Requests
    <3>1. d \in Protected /\ ~(d.to = Client)
      BY <1>4, SessionAssumption, DevicesAssumption DEF Protected
    <3> QED BY <3>1 DEF SessionInv, DatagramsInv, IsAnswer
  <2> DEFINE intact == SameSecret(d, server)
             r == oscore2coap_request(server.ctx, d.content, intact)
             rx == IF r.err = "ok" THEN d.content.plain ELSE server.rx
             out == OscoreDatagram(Client, server, ResponsePacket(r.ctx, rx))
             turn == AnswerTurn(server, Client, r.ctx, rx)
  <2>2. /\ ServerContext(r.ctx) /\ AadRoom(r.ctx) /\ CoseAadFits(r.ctx)
        /\ r.ctx.nonce = d.content.nonce /\ r.ctx.aad = d.content.aad
        /\ r.ctx.id_context = IdContext
        /\ r.ctx.sender_key = derive_key(IdContext, ServerId)
        /\ r.err = "ok" <=> Undamaged(d.content, intact)
    <3> HIDE DEF intact
    <3>1. \A q : q = r =>
            /\ ServerContext(q.ctx) /\ AadRoom(q.ctx) /\ CoseAadFits(q.ctx)
            /\ q.ctx.nonce = d.content.nonce /\ q.ctx.aad = d.content.aad
            /\ q.ctx.id_context = IdContext
            /\ q.ctx.sender_key = derive_key(IdContext, ServerId)
            /\ q.err = "ok" <=> Undamaged(d.content, intact)
      BY <2>1, ServerConverts
    <3> HIDE DEF r
    <3> QED BY <3>1
  <2>3. /\ LinuxServerTurn(server, d, Client) = turn
        /\ EdhocOscoreServerTurn(server, d, Client) =
             IF r.err # "ok" THEN [server |-> TRY_Exit, reply |-> NoMessage]
             ELSE LinuxServerTurn(server, d, Client)
    <3>1. /\ r = oscore2coap_request(server.ctx, d.content,
                                     SameSecret(d, server))
          /\ rx = IF r.err = "ok" THEN d.content.plain ELSE server.rx
          /\ CoseAadFits(r.ctx)
      BY <2>2
    <3> HIDE DEF r, rx, intact
    <3>2. LinuxServerTurn(server, d, Client) = AnswerTurn(server, Client, r.ctx, rx)
      BY <1>4, <3>1, OscoreTurn
    <3>3. EdhocOscoreServerTurn(server, d, Client) =
             IF r.err # "ok" THEN [server |-> TRY_Exit, reply |-> NoMessage]
             ELSE LinuxServerTurn(server, d, Client)
      BY Zenon, <1>4, <3>1, OscoreTurn
    <3> QED BY <3>2, <3>3
  <2>4. kind = "linux" => Undamaged(d.content, intact) \/ MarkerInOption(d.content)
    <3>1. kind = "linux" => intact
      BY <2>1 DEF SessionInv, SecretsInv, ServerInv, SameSecret
    <3> QED BY <3>1 DEF Undamaged
  <2>5. Undamaged(d.content, intact) => d.secret = server.secret
    BY DEF Undamaged, SameSecret
  <2>6. kind = "linux" => d.secret = server.secret
    BY <2>1 DEF SessionInv, SecretsInv, ServerInv
  <2> HIDE DEF intact
  <2>7. /\ out.to = Client /\ out.secret = server.secret
        /\ out.content.key = r.ctx.sender_key
        /\ out.content.nonce = r.ctx.nonce /\ out.content.aad = r.ctx.aad
        /\ out.content.plain = rx /\ "proto" \in DOMAIN out
    BY DEF OscoreDatagram, ResponsePacket
  <2> HIDE DEF r
  <2>8. rx = d.content.plain \/ r.err # "ok"
    OBVIOUS
  <2> HIDE DEF rx
  <2>9. /\ turn.server = [stage |-> "loop", secret |-> server.secret,
                          ctx |-> r.ctx, rx |-> rx, out |-> out]
        /\ turn.reply \in {Garbage(Client), out}
    BY Zenon, <1>2, TurnWrites
  <2> HIDE DEF out, turn
  <2>10. ASSUME r.err = "ok" \/ kind = "linux" PROVE IsAnswer(out)
    <3>1. d.secret = server.secret
      BY <2>2, <2>5, <2>6, <2>10
    <3>2. Number(d) = Byte - 1 \/ rx = d.content.plain
      BY <2>1, <2>2, <2>4, <2>8, <2>10, MarkerIsNumber DEF Requests
    <3>3. Answers(out, d)
      BY <2>2, <2>7, <3>1, <3>2 DEF Answers
    <3> QED BY <2>1, <2>2, <2>7, <3>3 DEF IsAnswer
  <2>11. CASE r.err # "ok" /\ kind = "edhoc"
    <3>1. t = [server |-> TRY_Exit, reply |-> NoMessage]
      BY <1>1, <2>3, <2>11
    <3> QED BY <2>11, <3>1
  <2>12. CASE r.err = "ok" \/ kind = "linux"
    <3>1. t = turn
      BY <1>1, <2>3, <2>12
    <3>2. Garbage(Client) = CoapDatagram(Client, NoMessage)
      BY DEF Garbage
    <3> QED BY <2>2, <2>7, <2>9, <2>10, <2>12, <3>1, <3>2
  <2> QED BY <1>1, <2>11, <2>12
<1> QED BY <1>3, <1>4

\* The server of zephyr_oscore stays in its loop.
LEMMA ZephyrTurn ==
  ASSUME NEW d, NEW t \in process_coap_request(server, d, Client),
         "stage" \in DOMAIN server, server.stage = "loop"
  PROVE  "stage" \in DOMAIN t.server /\ t.server.stage = "loop"
<1> DEFINE r == oscore2coap_request(server.ctx, d.content, SameSecret(d, server))
           After(rx) == [server EXCEPT !.ctx = r.ctx,
                                       !.rx = IF rx = NoMessage THEN @ ELSE rx]
<1>1. CASE IsOscore(d)
  <2> DEFINE parsed == {server.rx, NoMessage}
                         \cup (IF r.err = "ok" THEN {d.content.plain} ELSE {})
  <2>1. process_coap_request(server, d, Client)
          = {[server |-> After(rx),
              reply |-> IF rx = NoMessage THEN NoMessage
                        ELSE oscore_secured_get(After(rx), rx, Client)] :
               rx \in parsed}
    BY Zenon, <1>1 DEF process_coap_request
  <2>2. \E rx : t.server = After(rx)
    <3> HIDE DEF After, parsed
    <3> QED BY <2>1
  <2> HIDE DEF r, parsed
  <2>3. \A rx : "stage" \in DOMAIN After(rx) /\ After(rx).stage = "loop"
    OBVIOUS
  <2> HIDE DEF After
  <2> QED BY <2>2, <2>3
<1>2. CASE ~IsOscore(d)
  <2>1. t = [server |-> server, reply |-> NoMessage]
    BY Zenon, <1>2 DEF process_coap_request
  <2> QED BY <2>1
<1> QED BY <1>1, <1>2

\* A turn of the server: an answer has the parameters of the request it was
\* made for.
LEMMA ServerReceiveKeeps ==
  ASSUME SessionInv, NEW d \in net \cup wire, ServerReceive(d),
         sent' = sent \cup net' \cup wire'
  PROVE  SessionInv'
<1>1. /\ UNCHANGED <<init, resp, spent, answered, derived, accepted, confirmed>>
      /\ UNCHANGED <<kind, client, taken>>
      /\ net' = net \ {d} /\ server.stage = "loop" /\ d.to = R
  BY DEF ServerReceive, Consume, Arrives
<1>2. PICK t \in ServerTurn(d) :
        /\ server' = t.server
        /\ wire' = (wire \ {d}) \cup ({t.reply} \ {NoMessage})
  BY DEF ServerReceive
<1>3. CASE kind = "zephyr"
  <2>1. "stage" \in DOMAIN server' /\ server'.stage = "loop"
    <3>1. t \in process_coap_request(server, d, Client)
      BY <1>2, <1>3 DEF ServerTurn
    <3> QED BY <1>1, <1>2, <1>3, <3>1, ZephyrTurn DEF SessionInv, LoopsInv
  <2>2. LoopsInv'
    BY <1>1, <1>3, <2>1 DEF SessionInv, LoopsInv, Looping
  <2> QED BY <1>1, <1>3, <2>2, ZephyrKeeps
<1>4. CASE kind # "zephyr"
  <2>1. /\ DatagramsInv /\ ClientInv /\ ClientSecretInv /\ ServerInv
        /\ AnswersBelong /\ d \in sent
    BY <1>4 DEF SessionInv, DatagramsInv
  <2>2. /\ \/ t.server = TRY_Exit /\ kind = "edhoc"
           \/ \E ctx, rx, out :
                /\ t.server = [stage |-> "loop", secret |-> server.secret,
                               ctx |-> ctx, rx |-> rx, out |-> out]
                /\ ServerContext(ctx) /\ AadRoom(ctx)
                /\ ctx.id_context = IdContext
        /\ \/ t.reply = NoMessage
           \/ \E content : t.reply = CoapDatagram(Client, content)
           \/ IsAnswer(t.reply) /\ "proto" \in DOMAIN t.reply
    BY <1>1, <1>4, <2>1, ServerTurnKeeps
  <2>3. \A c : "proto" \in DOMAIN CoapDatagram(Client, c)
               /\ ~IsOscore(CoapDatagram(Client, c))
    BY DEF CoapDatagram, IsOscore
  <2>4. QuietStep
    <3>1. \A e \in wire' : e \in wire \/ (e = t.reply /\ e # NoMessage)
      BY <1>2
    <3> QED BY <1>1, <2>1, <2>2, <2>3, <3>1 DEF QuietStep, DatagramsInv
  <2>5. RunsInv'
    <3>1. kind = "edhoc" => EdhocInv' /\ HistoryGrows
      BY <1>1, NetworkRuns
    <3> QED BY <1>1, <2>4, <3>1, RunsKept DEF SessionInv, QuietStep
  <2>6. ServerInv'
    <3>1. CASE t.server = TRY_Exit /\ kind = "edhoc"
      BY <1>1, <1>2, <3>1 DEF ServerInv, TRY_Exit
    <3>2. ASSUME NEW ctx, NEW rx, NEW out,
                 t.server = [stage |-> "loop", secret |-> server.secret,
                             ctx |-> ctx, rx |-> rx, out |-> out],
                 ServerContext(ctx), AadRoom(ctx), ctx.id_context = IdContext
          PROVE  ServerInv'
      <4>1. /\ server'.secret = server.secret /\ server'.ctx = ctx
            /\ server' = [stage |-> "loop", secret |-> server'.secret,
                          ctx |-> server'.ctx, rx |-> server'.rx,
                          out |-> server'.out]
        BY <1>2, <3>2
      <4> QED BY <1>1, <2>1, <3>2, <4>1 DEF ServerInv
    <3> QED BY <2>2, <3>1, <3>2
  <2>7. LoopsInv'
    <3>1. \/ kind = "edhoc"
          \/ server'.stage = "loop" /\ "stage" \in DOMAIN server'
      <4>1. ASSUME NEW ctx, NEW rx, NEW out,
                   t.server = [stage |-> "loop", secret |-> server.secret,
                               ctx |-> ctx, rx |-> rx, out |-> out]
            PROVE  server'.stage = "loop" /\ "stage" \in DOMAIN server'
        BY <1>2, <4>1
      <4> QED BY <2>2, <4>1
    <3> QED BY <1>1, <3>1 DEF SessionInv, LoopsInv, Looping
  <2>8. ClientInv'
    BY <1>1, <2>1, <2>4, ClientKept DEF QuietStep
  <2>9. ClientSecretInv' /\ AnswersBelong'
    BY <1>1, <2>1, TakenKept DEF ClientSecretInv, Looping
  <2> QED BY <1>1, <2>4, <2>5, <2>6, <2>7, <2>8, <2>9, QuietKeeps
<1> QED BY <1>3, <1>4

\* The request-response parameters after one more call of coap2oscore.
LEMMA ParametersKept ==
  ASSUME NEW c, NEW n \in Nat, ClientContext(c, IdContext, n), ParametersInv(c),
         n + 1 < U64, NEW r, r = coap2oscore_request(c)
  PROVE  ParametersInv(r.ctx)
<1>1. /\ ClientContext(r.ctx, IdContext, n + 1)
      /\ RequestParameters(c, r.ctx, IdContext, n)
      /\ n < Byte /\ KidLen <= 6 => r.err = "ok"
      /\ r.err = "ok" => RequestPacket(r.ctx, NoMessage)
                           = RequestFor(IdContext, n, NoMessage)
  <2>1. IdContext \in IdContexts /\ IdLen[IdContext] <= MAX_KID_CONTEXT_LEN
    BY IdContextOfSamples DEF MAX_KID_CONTEXT_LEN
  <2> QED BY <2>1, RequestStep
<1>2. c.sender_seq_num = n /\ r.ctx.sender_seq_num = n + 1
  BY <1>1 DEF ClientContext
<1>3. Byte \in Nat
  BY ByteAssumption
<1>4. CASE n < Byte
  <2>1. r.err = "ok" => r.ctx.piv = OneBytePiv(n)
    <3>1. RequestPacket(r.ctx, NoMessage).piv = r.ctx.piv
      BY DEF RequestPacket
    <3>2. RequestFor(IdContext, n, NoMessage).piv = OneBytePiv(n)
      BY RequestForFields
    <3> QED BY <1>1, <3>1, <3>2
  <2>2. r.ctx.nonce = create_nonce(ClientId, OneBytePiv(n),
                                   derive_common_iv(IdContext))
    BY <1>1, <1>4 DEF RequestParameters
  <2>3. (n + 1) - 1 = n /\ n + 1 \in 1 .. Byte
    BY <1>3, <1>4
  <2> QED BY <1>1, <1>2, <1>4, <2>1, <2>2, <2>3 DEF ParametersInv
<1>5. CASE n = Byte
  <2>1. r.ctx.aad[3] = FALSE /\ n + 1 > Byte
    BY <1>1, <1>3, <1>5 DEF RequestParameters
  <2> QED BY <1>2, <2>1 DEF ParametersInv
<1>6. CASE n > Byte
  <2>1. c.aad[3] = FALSE
    BY <1>2, <1>3, <1>6 DEF ParametersInv
  <2>2. r.ctx.aad[3] = FALSE /\ n + 1 > Byte
    BY <1>1, <1>3, <1>6, <2>1 DEF RequestParameters
  <2> QED BY <1>2, <2>2 DEF ParametersInv
<1> QED BY <1>3, <1>4, <1>5, <1>6

\* A new request.
LEMMA RequestSent ==
  ASSUME DatagramsInv, NEW d, IsRequest(d), sent' = sent \cup {d},
         net' \cup wire' \subseteq sent'
  PROVE  Requests' = Requests \cup {d} /\ DatagramsInv'
<1>1. IsOscore(d)
  BY DEF IsRequest, IsOscore
<1>2. Requests' = Requests \cup {d}
  <2>1. \A e : IsRequest(e)' <=> IsRequest(e)
    BY DEF IsRequest, Number
  <2>2. \A e : e \in Requests' <=> e \in sent' /\ IsOscore(e) /\ IsRequest(e)
    BY <2>1 DEF Requests, Protected
  <2>3. \A e : e \in Requests <=> e \in sent /\ IsOscore(e) /\ IsRequest(e)
    BY DEF Requests, Protected
  <2> QED BY <1>1, <2>2, <2>3
<1>3. \A e : IsAnswer(e) => IsAnswer(e)'
  BY <1>2 DEF IsAnswer, Answers, Number
<1>4. \A e \in Protected' : e \in Requests' \/ IsAnswer(e)'
  BY <1>2, <1>3 DEF DatagramsInv, Protected
<1> QED BY <1>2, <1>4 DEF DatagramsInv

\* What the client is left with when it sends: a protected request consumes a
\* sequence number, another one leaves the context alone.
SendTurn(s, ctx, out) ==
  [s EXCEPT !.stage = "wait", !.token = @ + 1, !.secure = ~s.secure,
            !.ctx = ctx, !.out = out]

\* The fields of the client after a turn.
LEMMA SendTurnFields ==
  ASSUME NEW s, NEW ctx, NEW out,
         s = [stage |-> s.stage, secret |-> s.secret, ctx |-> s.ctx,
              token |-> s.token, secure |-> s.secure, rx |-> s.rx,
              out |-> s.out],
         NEW t, t = SendTurn(s, ctx, out)
  PROVE  /\ t = [stage |-> t.stage, secret |-> t.secret, ctx |-> t.ctx,
                 token |-> t.token, secure |-> t.secure, rx |-> t.rx,
                 out |-> t.out]
         /\ t.stage = "wait" /\ t.secret = s.secret /\ t.ctx = ctx
         /\ t.token = s.token + 1 /\ t.out = out
         /\ t.secure = ~s.secure
<1> DEFINE flag == ~s.secure
<1>1. t = [s EXCEPT !.stage = "wait", !.token = s.token + 1,
                    !.secure = flag, !.ctx = ctx, !.out = out]
  BY Zenon DEF SendTurn
<1> HIDE DEF flag
<1>2. ASSUME NEW stage, NEW secret, NEW old, NEW token, NEW secure, NEW rx,
             NEW made, NEW u,
             u = [stage |-> stage, secret |-> secret, ctx |-> old,
                  token |-> token, secure |-> secure, rx |-> rx,
                  out |-> made],
             NEW v,
             v = [u EXCEPT !.stage = "wait", !.token = token + 1,
                           !.secure = flag, !.ctx = ctx, !.out = out]
      PROVE  v = [stage |-> "wait", secret |-> secret, ctx |-> ctx,
                  token |-> token + 1, secure |-> flag, rx |-> rx,
                  out |-> out]
  BY <1>2
<1>3. t = [stage |-> "wait", secret |-> s.secret, ctx |-> ctx,
           token |-> s.token + 1, secure |-> flag, rx |-> s.rx, out |-> out]
  BY Zenon, <1>1, <1>2
<1>4. /\ t.stage = "wait" /\ t.secret = s.secret /\ t.ctx = ctx
      /\ t.token = s.token + 1 /\ t.out = out /\ t.secure = flag
      /\ t = [stage |-> t.stage, secret |-> t.secret, ctx |-> t.ctx,
              token |-> t.token, secure |-> t.secure, rx |-> t.rx,
              out |-> t.out]
  BY <1>3
<1> QED BY Zenon, <1>4 DEF flag

\* What ClientSend does to the client, and what is sent.
LEMMA SendTurns ==
  ASSUME NEW s, NEW id, NEW r, r = coap2oscore_request(s.ctx)
  PROVE  /\ ~s.secure =>
              /\ LinuxClientSend(s, R, id)
                   = [client |-> SendTurn(s, s.ctx, s.out),
                      sent |-> CoapDatagram(R, id)]
              /\ EdhocOscoreClientSend(s, R, id) = LinuxClientSend(s, R, id)
         /\ s.secure /\ r.err = "ok" =>
              /\ LinuxClientSend(s, R, id)
                   = LET out == OscoreDatagram(R, s, RequestPacket(r.ctx, id))
                     IN  [client |-> SendTurn(s, r.ctx, out),
                          sent |-> IF out = NoMessage THEN Garbage(R) ELSE out]
              /\ EdhocOscoreClientSend(s, R, id) = LinuxClientSend(s, R, id)
         /\ s.secure /\ r.err # "ok" =>
              /\ LinuxClientSend(s, R, id)
                   = [client |-> SendTurn(s, r.ctx, s.out),
                      sent |-> IF s.out = NoMessage THEN Garbage(R) ELSE s.out]
              /\ EdhocOscoreClientSend(s, R, id)
                   = [client |-> TRY_Exit, sent |-> NoMessage]
<1>1. CASE ~s.secure
  BY Zenon, <1>1 DEF LinuxClientSend, EdhocOscoreClientSend, SendTurn
<1>2. CASE s.secure /\ r.err = "ok"
  BY Zenon, <1>2 DEF LinuxClientSend, EdhocOscoreClientSend, SendTurn
<1>3. CASE s.secure /\ r.err # "ok"
  BY Zenon, <1>3 DEF LinuxClientSend, EdhocOscoreClientSend, SendTurn
<1> QED BY Zenon, <1>1, <1>2, <1>3

\* The invariant of the client that waits for the answer to a request.
LEMMA ClientWaits ==
  ASSUME client.stage = "send", ClientInv, client.token < MaxTokens,
         NEW ctx, NEW out, client' = SendTurn(client, ctx, out),
         NEW n \in Nat,
         n = IF client.secure THEN client.ctx.sender_seq_num + 1
             ELSE client.ctx.sender_seq_num,
         ClientContext(ctx, IdContext, n), ParametersInv(ctx),
         out = NoMessage \/ out \in sent'
  PROVE  ClientInv'
<1>1. /\ client' = [stage |-> client'.stage, secret |-> client'.secret,
                    ctx |-> client'.ctx, token |-> client'.token,
                    secure |-> client'.secure, rx |-> client'.rx,
                    out |-> client'.out]
      /\ client'.stage = "wait" /\ client'.secret = client.secret
      /\ client'.ctx = ctx /\ client'.token = client.token + 1
      /\ client'.out = out /\ client'.secure = ~client.secure
  BY SendTurnFields DEF ClientInv, Looping
<1>2. ctx.sender_seq_num = n
  BY DEF ClientContext
<1>3. /\ client.token \in 0 .. MaxTokens /\ MaxTokens \in Nat
      /\ client.ctx.sender_seq_num \in Nat
      /\ client.secure => client.token = 2 * client.ctx.sender_seq_num
      /\ ~client.secure => client.token = 2 * client.ctx.sender_seq_num - 1
  BY SessionAssumption DEF ClientInv, Looping
<1>4. /\ client'.token \in 0 .. MaxTokens
      /\ client.secure => client'.token = 2 * n - 1
      /\ ~client.secure => client'.token = 2 * n
  BY <1>1, <1>3
<1>5. client'.secure \in BOOLEAN
  BY <1>1 DEF ClientInv, Looping
<1>6. client'.token = IF client'.secure THEN 2 * n ELSE 2 * n - 1
  <2>1. CASE client.secure
    <3>1. client'.secure = FALSE
      BY Zenon, <1>1, <2>1
    <3> QED BY <1>4, <2>1, <3>1
  <2>2. CASE ~client.secure
    <3>1. client'.secure = TRUE
      BY Zenon, <1>1, <1>5, <2>2
    <3> QED BY <1>4, <2>2, <3>1
  <2> QED BY <2>1, <2>2
<1>7. ParametersInv(client'.ctx) /\ ClientContext(client'.ctx, IdContext, n)
  BY <1>1
<1>8. ParametersInv(client.ctx)' /\ ClientContext(client.ctx, IdContext, n)'
  BY <1>7 DEF ParametersInv, ClientContext
<1> QED BY <1>1, <1>2, <1>4, <1>5, <1>6, <1>8 DEF ClientInv

\* Sending something that coap2oscore has not made: a request without OSCORE,
\* or, after an error, what the buffer holds.
LEMMA QuietSendKeeps ==
  ASSUME SessionInv, kind # "zephyr", client.stage = "send",
         client.token < MaxTokens, MaxTokens < U64,
         UNCHANGED <<vars, kind, server, taken>>,
         sent' = sent \cup net' \cup wire',
         NEW reply, wire' = wire \cup ({reply} \ {NoMessage}),
         \/ reply = NoMessage \/ reply \in sent
         \/ \E content : reply = CoapDatagram(R, content),
         \/ client' = TRY_Exit /\ kind = "edhoc"
         \/ client.secure /\ \E r : /\ r = coap2oscore_request(client.ctx)
                                    /\ client' = SendTurn(client, r.ctx, client.out)
         \/ /\ ~client.secure
            /\ client' = SendTurn(client, client.ctx, client.out)
  PROVE  SessionInv'
<1>1. /\ DatagramsInv /\ ClientInv /\ ClientSecretInv /\ ServerInv
      /\ AnswersBelong /\ Looping(client)
  BY DEF SessionInv, Looping
<1>2. /\ UNCHANGED <<init, derived>> /\ net' = net /\ sent \subseteq sent'
  BY DEF vars
<1>3. \A c : "proto" \in DOMAIN CoapDatagram(R, c) /\ ~IsOscore(CoapDatagram(R, c))
  BY DEF CoapDatagram, IsOscore
<1>4. QuietStep
  BY <1>1, <1>2, <1>3 DEF QuietStep, DatagramsInv
<1>5. RunsInv'
  <2>1. kind = "edhoc" => EdhocInv' /\ HistoryGrows
    BY UntouchedRuns DEF SessionInv, RunsInv
  <2> QED BY <1>4, <2>1, RunsKept DEF SessionInv, QuietStep
<1>7. /\ client = [stage |-> client.stage, secret |-> client.secret,
                   ctx |-> client.ctx, token |-> client.token,
                   secure |-> client.secure, rx |-> client.rx,
                   out |-> client.out]
      /\ client.ctx.sender_seq_num \in Nat /\ client.token \in 0 .. MaxTokens
      /\ client.secure => client.token = 2 * client.ctx.sender_seq_num
      /\ ClientContext(client.ctx, IdContext, client.ctx.sender_seq_num)
      /\ ParametersInv(client.ctx)
      /\ client.out = NoMessage \/ client.out \in sent
  BY <1>1 DEF ClientInv
<1>8. ASSUME NEW ctx, client' = SendTurn(client, ctx, client.out)
      PROVE  /\ client'.stage = "wait" /\ client'.secret = client.secret
             /\ client'.secure = ~client.secure /\ "stage" \in DOMAIN client'
  BY <1>7, <1>8, SendTurnFields
<1>9. \/ client' = TRY_Exit /\ kind = "edhoc"
      \/ client'.stage = "wait" /\ client'.secret = client.secret
  BY <1>8
<1>10. client'.stage # "edhoc" /\ ClientSecretInv'
  BY <1>1, <1>2, <1>9 DEF ClientSecretInv, Looping, TRY_Exit
<1>11. LoopsInv'
  BY <1>8 DEF SessionInv, LoopsInv, Looping
<1>12. ClientInv'
  <2>1. CASE client' = TRY_Exit
    BY <2>1 DEF ClientInv, Looping, TRY_Exit
  <2>2. ASSUME ~client.secure, client' = SendTurn(client, client.ctx, client.out)
        PROVE  ClientInv'
    <3>1. PICK n \in Nat : n = client.ctx.sender_seq_num
      BY <1>7
    <3>2. n = IF client.secure THEN client.ctx.sender_seq_num + 1
              ELSE client.ctx.sender_seq_num
      BY <2>2, <3>1
    <3>3. client.out = NoMessage \/ client.out \in sent'
      BY <1>2, <1>7
    <3> QED BY <1>1, <1>7, <2>2, <3>1, <3>2, <3>3, ClientWaits
  <2>3. ASSUME client.secure, NEW r, r = coap2oscore_request(client.ctx),
               client' = SendTurn(client, r.ctx, client.out)
        PROVE  ClientInv'
    <3> DEFINE n == client.ctx.sender_seq_num
    <3>1. n + 1 < U64 /\ n + 1 \in Nat
      BY <1>7, <2>3, U64Type, SessionAssumption
    <3>2. ClientContext(r.ctx, IdContext, n + 1) /\ ParametersInv(r.ctx)
      <4>1. IdContext \in IdContexts /\ IdLen[IdContext] <= MAX_KID_CONTEXT_LEN
        BY IdContextOfSamples DEF MAX_KID_CONTEXT_LEN
      <4> HIDE DEF n
      <4>2. n \in Nat /\ ClientContext(client.ctx, IdContext, n)
        BY <1>7 DEF n
      <4> QED BY <1>7, <2>3, <3>1, <4>1, <4>2, RequestStep, ParametersKept
    <3>3. PICK k \in Nat : k = n + 1
      BY <3>1
    <3>4. k = IF client.secure THEN client.ctx.sender_seq_num + 1
              ELSE client.ctx.sender_seq_num
      BY <2>3, <3>3
    <3>5. client.out = NoMessage \/ client.out \in sent'
      BY <1>2, <1>7
    <3> HIDE DEF n
    <3> QED BY <1>1, <2>3, <3>2, <3>3, <3>4, <3>5, ClientWaits
  <2> QED BY <2>1, <2>2, <2>3
<1>13. ServerInv' /\ AnswersBelong'
  BY <1>1, TakenKept DEF ServerInv
<1> QED BY <1>4, <1>5, <1>10, <1>11, <1>12, <1>13, QuietKeeps

\* Sending a protected request: its number follows from its token.
LEMMA RequestSendKeeps ==
  ASSUME SessionInv, kind # "zephyr", client.stage = "send", client.secure,
         client.token < MaxTokens, MaxTokens < U64,
         UNCHANGED <<vars, kind, server, taken>>,
         sent' = sent \cup net' \cup wire',
         NEW r, r = coap2oscore_request(client.ctx), r.err = "ok",
         NEW d,
         d = OscoreDatagram(R, client,
               RequestPacket(r.ctx, <<init[Client].run, client.token + 1>>)),
         wire' = wire \cup {d}, client' = SendTurn(client, r.ctx, d)
  PROVE  SessionInv'
<1> DEFINE n == client.ctx.sender_seq_num
           id == <<init[Client].run, client.token + 1>>
<1>1. /\ DatagramsInv /\ ClientInv /\ ClientSecretInv /\ ServerInv
      /\ AnswersBelong /\ SecretsInv /\ Looping(client)
  BY DEF SessionInv, Looping
<1>2. /\ UNCHANGED <<init, derived>> /\ net' = net
      /\ sent' = sent \cup {d} /\ net' \cup wire' \subseteq sent'
  BY <1>1 DEF vars, DatagramsInv
<1>3. /\ client = [stage |-> client.stage, secret |-> client.secret,
                   ctx |-> client.ctx, token |-> client.token,
                   secure |-> client.secure, rx |-> client.rx,
                   out |-> client.out]
      /\ n \in Nat /\ client.token \in 0 .. MaxTokens /\ client.token = 2 * n
      /\ ClientContext(client.ctx, IdContext, n) /\ ParametersInv(client.ctx)
  BY <1>1 DEF ClientInv
<1>4. n + 1 < U64 /\ n + 1 \in Nat
  BY <1>3, U64Type, SessionAssumption
<1> HIDE DEF n, id
<1>5. /\ ClientContext(r.ctx, IdContext, n + 1) /\ ParametersInv(r.ctx)
      /\ n < Byte /\ KidLen <= 6
      /\ RequestPacket(r.ctx, id) = RequestFor(IdContext, n, id)
  <2>1. IdContext \in IdContexts /\ IdLen[IdContext] <= MAX_KID_CONTEXT_LEN
    BY IdContextOfSamples DEF MAX_KID_CONTEXT_LEN
  <2> QED BY <1>3, <1>4, <2>1, RequestStep, ParametersKept
<1>6. /\ d = [to |-> R, proto |-> "oscore", secret |-> client.secret,
              content |-> RequestFor(IdContext, n, id)]
      /\ d.content = RequestFor(IdContext, n, id)
      /\ d.to = R /\ d.secret = client.secret /\ "proto" \in DOMAIN d
  BY <1>5 DEF OscoreDatagram, id
<1>7. d.content.plain = id /\ Number(d) = n
  <2>1. d.content.plain = id /\ d.content.piv = OneBytePiv(n)
    BY <1>6, RequestForFields
  <2>2. OneBytePiv(n)[1] = n
    BY DEF OneBytePiv
  <2> QED BY <2>1, <2>2 DEF Number
<1>8. n \in 0 .. Byte - 1
  BY <1>3, <1>5, ByteAssumption
<1>9. IsRequest(d)
  <2>1. Token(id) = client.token + 1
    BY DEF Token, NoMessage, id
  <2>2. Token(d.content.plain) = 2 * Number(d) + 1
    BY <1>3, <1>7, <2>1
  <2> QED BY <1>5, <1>6, <1>7, <1>8, <2>2 DEF IsRequest
<1>10. Requests' = Requests \cup {d} /\ DatagramsInv'
  BY <1>1, <1>2, <1>9, RequestSent
<1>11. /\ client'.stage = "wait" /\ client'.secret = client.secret
       /\ "stage" \in DOMAIN client'
  BY <1>3, SendTurnFields
<1>12. RunsInv' /\ LoopsInv'
  <2>1. kind = "edhoc" => EdhocInv' /\ HistoryGrows
    BY UntouchedRuns DEF SessionInv, RunsInv
  <2>2. \A e \in wire' : e \in sent \/ "proto" \in DOMAIN e
    BY <1>1, <1>6 DEF DatagramsInv
  <2>3. RunsInv'
    BY <2>1, <2>2, RunsKept DEF SessionInv
  <2> QED BY <1>11, <2>3 DEF SessionInv, LoopsInv, Looping
<1>13. SecretsInv'
  BY <1>1, <1>6, <1>10 DEF SecretsInv, ClientSecretInv
<1>14. ClientInv'
  <2>1. PICK k \in Nat : k = n + 1
    BY <1>4
  <2>2. k = IF client.secure THEN client.ctx.sender_seq_num + 1
            ELSE client.ctx.sender_seq_num
    BY <2>1 DEF n
  <2>3. d \in sent'
    BY <1>2
  <2> QED BY <1>1, <1>5, <2>1, <2>2, <2>3, ClientWaits
<1>15. ClientSecretInv' /\ ServerInv' /\ AnswersBelong'
  BY <1>1, <1>2, <1>11, TakenKept DEF ClientSecretInv, ServerInv, Looping
<1> QED BY <1>10, <1>12, <1>13, <1>14, <1>15 DEF SessionInv

\* ClientSend.
LEMMA ClientSendKeeps ==
  ASSUME SessionInv, MaxTokens < U64, ClientSend,
         sent' = sent \cup net' \cup wire'
  PROVE  SessionInv'
<1> DEFINE id == <<init[Client].run, client.token + 1>>
           s == IF kind = "edhoc" THEN EdhocOscoreClientSend(client, R, id)
                ELSE LinuxClientSend(client, R, id)
           r == coap2oscore_request(client.ctx)
           d == OscoreDatagram(R, client, RequestPacket(r.ctx, id))
<1>1. /\ client.stage = "send" /\ client.token < MaxTokens
      /\ client' = s.client /\ wire' = wire \cup ({s.sent} \ {NoMessage})
      /\ UNCHANGED <<vars, kind, server, taken>>
  BY DEF ClientSend
<1>2. \/ /\ ~client.secure
         /\ s = [client |-> SendTurn(client, client.ctx, client.out),
                 sent |-> CoapDatagram(R, id)]
      \/ /\ client.secure /\ r.err = "ok"
         /\ s = [client |-> SendTurn(client, r.ctx, d),
                 sent |-> IF d = NoMessage THEN Garbage(R) ELSE d]
      \/ /\ client.secure /\ r.err # "ok" /\ kind # "edhoc"
         /\ s = [client |-> SendTurn(client, r.ctx, client.out),
                 sent |-> IF client.out = NoMessage THEN Garbage(R)
                          ELSE client.out]
      \/ /\ client.secure /\ r.err # "ok" /\ kind = "edhoc"
         /\ s = [client |-> TRY_Exit, sent |-> NoMessage]
  BY ZenonT(40), SendTurns
<1> HIDE DEF s, r
<1>3. CASE kind = "zephyr"
  <2>1. /\ "stage" \in DOMAIN client
        /\ \A ctx, out : "stage" \in DOMAIN SendTurn(client, ctx, out)
                         /\ SendTurn(client, ctx, out).stage = "wait"
    BY <1>3 DEF SessionInv, LoopsInv, SendTurn
  <2>2. LoopsInv'
    BY <1>1, <1>2, <1>3, <2>1 DEF SessionInv, LoopsInv, Looping
  <2> QED BY <1>1, <1>3, <2>2, ZephyrKeeps
<1>4. CASE kind # "zephyr"
  <2>1. Garbage(R) = CoapDatagram(R, NoMessage)
    BY DEF Garbage
  <2>2. CASE /\ ~client.secure
             /\ s = [client |-> SendTurn(client, client.ctx, client.out),
                     sent |-> CoapDatagram(R, id)]
    <3> HIDE DEF id
    <3> QED BY <1>1, <1>4, <2>2, QuietSendKeeps
  <2>3. CASE /\ client.secure /\ r.err = "ok"
             /\ s = [client |-> SendTurn(client, r.ctx, d),
                     sent |-> IF d = NoMessage THEN Garbage(R) ELSE d]
    <3>1. d # NoMessage
      <4>1. "proto" \in DOMAIN d
        BY DEF OscoreDatagram
      <4> QED BY <4>1 DEF NoMessage
    <3> HIDE DEF d
    <3>2. wire' = wire \cup {d} /\ client' = SendTurn(client, r.ctx, d)
      BY <1>1, <2>3, <3>1
    <3> QED BY <1>1, <1>4, <2>3, <3>2, RequestSendKeeps DEF r, d
  <2>4. CASE /\ client.secure /\ r.err # "ok" /\ kind # "edhoc"
             /\ s = [client |-> SendTurn(client, r.ctx, client.out),
                     sent |-> IF client.out = NoMessage THEN Garbage(R)
                              ELSE client.out]
    <3>1. client.out = NoMessage \/ client.out \in sent
      BY <1>1, <1>4 DEF SessionInv, ClientInv, Looping
    <3> QED BY <1>1, <1>4, <2>1, <2>4, <3>1, QuietSendKeeps DEF r
  <2>5. CASE /\ client.secure /\ r.err # "ok" /\ kind = "edhoc"
             /\ s = [client |-> TRY_Exit, sent |-> NoMessage]
    BY <1>1, <1>4, <2>5, QuietSendKeeps
  <2> QED BY <1>2, <2>2, <2>3, <2>4, <2>5
<1> QED BY <1>3, <1>4

-----------------------------------------------------------------------------
(* The theorems                                                            *)

\* SessionInit.
LEMMA SessionInitInv == SessionInit => SessionInv
<1> SUFFICES ASSUME SessionInit PROVE SessionInv
  OBVIOUS
<1>1. /\ Init /\ kind \in Kinds /\ wire = {} /\ sent = {} /\ taken = {}
      /\ net = {}
  BY DEF SessionInit, Init
<1>2. kind \in {"linux", "zephyr", "edhoc"}
  BY <1>1, SessionAssumption
<1>3. /\ kind = "edhoc" => client = TRY_Exit /\ server = TRY_Exit
      /\ kind = "linux" => /\ client = LinuxClientInit(PreSharedSecret)
                           /\ server = LinuxServerInit(PreSharedSecret)
      /\ kind = "zephyr" => /\ client = LinuxClientInit(PreSharedSecret)
                            /\ server = LinuxServerInit(PreSharedSecret)
  BY <1>2 DEF SessionInit, ZephyrServerInit
<1>4. EdhocInv
  BY <1>1, InitEdhocInv
<1>5. LoopsInv /\ RunsInv
  BY <1>1, <1>2, <1>3, <1>4
     DEF LoopsInv, RunsInv, Looping, LinuxClientInit, LinuxServerInit
<1>6. DatagramsInv /\ SecretsInv /\ AnswersBelong /\ Requests = {}
  BY <1>1 DEF DatagramsInv, SecretsInv, AnswersBelong, Requests, Protected
<1>7. CASE kind = "edhoc"
  BY <1>1, <1>3, <1>5, <1>6, <1>7
     DEF SessionInv, ClientInv, ClientSecretInv, ServerInv, Looping, TRY_Exit
<1>8. CASE kind = "linux"
  <2> DEFINE c == oscore_context_init("CLIENT", IdContext)
             e == oscore_context_init("SERVER", IdContext)
  <2>1. /\ client = [stage |-> "send", secret |-> PreSharedSecret, ctx |-> c,
                     token |-> 0, secure |-> TRUE, rx |-> NoMessage,
                     out |-> NoMessage]
        /\ server = [stage |-> "loop", secret |-> PreSharedSecret, ctx |-> e,
                     rx |-> NoMessage, out |-> NoMessage]
    BY <1>3, <1>8 DEF LinuxClientInit, LinuxServerInit
  <2>2. ClientContext(c, IdContext, 0) /\ ParametersInv(c) /\ c.sender_seq_num = 0
    <3>1. /\ IsContext(c) /\ c.id_context = IdContext /\ c.kid = ClientId
          /\ c.kid_context = IdContext
          /\ c.common_iv = derive_common_iv(IdContext)
          /\ c.sender_key = derive_key(IdContext, ClientId)
          /\ c.sender_seq_num = 0 /\ c.aad_len = MAX_AAD_LEN
      <4> HIDE DEF c
      <4> QED BY IdContextOfSamples, InitFacts DEF c
    <3> HIDE DEF c
    <3> QED BY <3>1 DEF ClientContext, ParametersInv
  <2>3. ServerContext(e)
    BY IdContextOfSamples, ContextInitFacts
  <2>4. e.kid = ClientId /\ e.aad_len = MAX_AAD_LEN /\ e.id_context = IdContext
    BY DEF oscore_context_init
  <2> HIDE DEF c, e
  <2>5. /\ client = [stage |-> client.stage, secret |-> client.secret,
                     ctx |-> client.ctx, token |-> client.token,
                     secure |-> client.secure, rx |-> client.rx,
                     out |-> client.out]
        /\ client.stage = "send" /\ client.secret = PreSharedSecret
        /\ client.ctx = c /\ client.token = 0 /\ client.secure = TRUE
        /\ client.out = NoMessage
    BY <2>1
  <2>6. ClientInv /\ ClientSecretInv
    <3>1. /\ client.secure \in BOOLEAN /\ client.token \in 0 .. MaxTokens
          /\ client.token = IF client.secure THEN 2 * 0 ELSE 2 * 0 - 1
      <4>1. client.token \in 0 .. MaxTokens
        BY <2>5, SessionAssumption
      <4>2. client.secure \in BOOLEAN
        BY Zenon, <2>5
      <4>3. IF client.secure THEN client.token = 2 * 0
            ELSE client.token = 2 * 0 - 1
        BY <2>5
      <4> QED BY Zenon, <4>1, <4>2, <4>3
    <3>2. ClientInv
      BY <2>2, <2>5, <3>1 DEF ClientInv
    <3> QED BY <1>8, <2>5, <3>2 DEF ClientSecretInv
  <2>7. ServerInv
    BY <2>1, <2>3, <2>4 DEF ServerInv, AadRoom
  <2> QED BY <1>1, <1>5, <1>6, <2>6, <2>7 DEF SessionInv
<1>9. CASE kind = "zephyr"
  BY <1>1, <1>5, <1>9 DEF SessionInv
<1> QED BY <1>2, <1>7, <1>8, <1>9

\* A step that changes nothing.
LEMMA SessionStutters ==
  ASSUME SessionInv, UNCHANGED sessionVars
  PROVE  SessionInv'
<1>1. UNCHANGED <<vars, sent, kind, client, server, wire, taken>>
  BY DEF sessionVars, sampleVars
<1>2. net' = net /\ init' = init /\ derived' = derived
  BY <1>1 DEF vars
<1>3. LoopsInv' /\ kind' = kind
  BY <1>1 DEF SessionInv, LoopsInv, Looping
<1>4. CASE kind = "zephyr"
  BY <1>1, <1>3, <1>4, ZephyrKeeps
<1>5. CASE kind # "zephyr"
  <2>1. /\ DatagramsInv /\ ClientInv /\ ClientSecretInv /\ ServerInv
        /\ AnswersBelong
    BY <1>5 DEF SessionInv
  <2>2. QuietStep
    BY <1>1, <1>2, <2>1 DEF QuietStep, DatagramsInv
  <2>3. RunsInv'
    <3>1. kind = "edhoc" => EdhocInv' /\ HistoryGrows
      BY <1>1, UntouchedRuns DEF SessionInv, RunsInv
    <3> QED BY <1>1, <1>3, <2>2, <3>1, RunsKept DEF SessionInv, QuietStep
  <2>4. ClientInv'
    BY <1>1, <1>2, <2>1, ClientKept
  <2>5. ClientSecretInv' /\ ServerInv' /\ AnswersBelong'
    BY <1>1, <1>2, <2>1, TakenKept DEF ClientSecretInv, ServerInv, Looping
  <2> QED BY <1>3, <2>2, <2>3, <2>4, <2>5, QuietKeeps
<1> QED BY <1>4, <1>5

\* SessionNext.
LEMMA SessionNextKeeps ==
  ASSUME MaxTokens < U64, SessionInv, SessionNext
  PROVE  SessionInv'
<1>1. SessionStep /\ sent' = sent \cup net' \cup wire'
  BY DEF SessionNext
<1>2. CASE \/ \E c \in Configs : ClientMain(c)
           \/ ServerMain \/ ClientEdhoc \/ ServerEdhoc
           \/ ClientStops \/ ServerStops
  BY <1>1, <1>2, EdhocKeeps
<1>3. CASE ClientRunReturned
  BY <1>1, <1>3, ClientRunReturnedKeeps
<1>4. CASE ServerRunReturned
  BY <1>1, <1>4, ServerRunReturnedKeeps
<1>5. CASE ClientSend
  BY <1>1, <1>5, ClientSendKeeps
<1>6. CASE \E d \in net \cup wire : ClientReceive(d)
  <2>1. PICK d \in net \cup wire : ClientReceive(d)
    BY <1>6
  <2> QED BY <1>1, <2>1, ClientReceiveKeeps
<1>7. CASE \E d \in net \cup wire : ServerReceive(d)
  <2>1. PICK d \in net \cup wire : ServerReceive(d)
    BY <1>7
  <2> QED BY <1>1, <2>1, ServerReceiveKeeps
<1>8. CASE (\E d \in net \cup wire : Lose(d)) \/ (\E d \in sent : Repeat(d))
  BY <1>1, <1>8, FaultKeeps
<1> QED BY <1>1, <1>2, <1>3, <1>4, <1>5, <1>6, <1>7, <1>8
        DEF SessionStep, ClientStep, ServerStep

\* The inductive invariant of the sample programs, for any number of requests
\* that a uint64_t can count.
THEOREM SessionInvariant ==
  ASSUME MaxTokens < U64
  PROVE  SessionSpec => []SessionInv
<1>1. SessionInit => SessionInv
  BY SessionInitInv
<1>2. SessionInv /\ [SessionNext]_sessionVars => SessionInv'
  BY SessionNextKeeps, SessionStutters
<1> QED BY <1>1, <1>2, PTL DEF SessionSpec

\* In linux_oscore and linux_edhoc_oscore no master secret, key and nonce
\* protect two different messages: within a session, when a request that was
\* answered arrives again, and after a process was started again, whether its
\* run of EDHOC has ephemeral keys of its own or those of the test vectors, and
\* so the secret of an earlier one.  (As in NoncesFresh, except for numbers that
\* are the payload marker.)
THEOREM NoncesFreshTheorem ==
  ASSUME MaxTokens < U64
  PROVE  SessionSpec => []NoncesFresh
<1>1. SessionInv => NoncesFresh
  BY FreshNonces
<1> QED BY <1>1, SessionInvariant, PTL

\* In linux_oscore and linux_edhoc_oscore an answer that the client takes for
\* one to its protected request is an answer to the request with that number
\* and token, of this process or of an earlier one with the same secret,
\* whatever the network loses, repeats and reorders, unless the request's
\* Partial IV has the payload marker in it.
THEOREM AnswersBelongTheorem ==
  ASSUME MaxTokens < U64
  PROVE  SessionSpec => []AnswersBelong
<1>1. SessionInv => (kind = "zephyr" \/ AnswersBelong)
  BY DEF SessionInv
<1>2. kind = "zephyr" => AnswersBelong
  BY DEF AnswersBelong
<1> QED BY <1>1, <1>2, SessionInvariant, PTL

\* With message 4, which linux_edhoc_oscore asks for, the secret of a client in
\* its loop is one that the server has accepted.
THEOREM ContextsPairedTheorem ==
  ASSUME MaxTokens < U64, Msg4I
  PROVE  SessionSpec => []ContextsPaired
<1>1. SessionInv => ContextsPaired
  BY PairedContexts
<1> QED BY <1>1, SessionInvariant, PTL
=============================================================================
