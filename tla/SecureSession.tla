---------------------------- MODULE SecureSession ----------------------------
(***************************************************************************)
(* The sample programs as they run together: a client and a server that    *)
(* send requests and answers with OSCORE and without it.  In               *)
(* linux_edhoc_oscore both run EDHOC first (module Edhoc) and derive the   *)
(* OSCORE master secret from its key; linux_oscore and zephyr_oscore have  *)
(* it built in.                                                            *)
(*                                                                         *)
(* The programs have one thread and block only in recv, without a timeout. *)
(* One action is what they do from the return of recv to the next one.     *)
(***************************************************************************)
EXTENDS EdhocProperties, SampleLoops

CONSTANTS
  Kinds,       \* the samples: "linux", "zephyr" and "edhoc"
  Client,      \* the device that runs the client
  MaxTokens,   \* bound: requests of one process of the client
  MaxFaults    \* bound: datagrams lost or delivered again

ASSUME SessionAssumption ==
  /\ Kinds \subseteq {"linux", "zephyr", "edhoc"}
  /\ Client \in Devices
  /\ MaxTokens \in Nat /\ MaxFaults \in Nat

VARIABLES
  kind,     \* the sample that runs
  client,   \* the process of the client, see module SampleLoops
  server,   \* the process of the server
  wire,     \* datagrams under way, other than the messages of EDHOC in net
  sent,     \* all datagrams and messages that were ever sent
  taken,    \* what the client has taken for an answer: the request, the answer
            \* and the Partial IV of the request
  faults    \* number of datagrams lost or delivered again

sampleVars == <<kind, client, server, wire, taken, faults>>
sessionVars == <<vars, sent, sampleVars>>

PreSharedSecret == "T1__MASTER_SECRET"

SessionInit ==
  /\ Init
  /\ kind \in Kinds
  /\ client = IF kind = "edhoc" THEN TRY_Exit ELSE LinuxClientInit(PreSharedSecret)
  /\ server = CASE kind = "edhoc"  -> TRY_Exit
                [] kind = "linux"  -> LinuxServerInit(PreSharedSecret)
                [] kind = "zephyr" -> ZephyrServerInit(PreSharedSecret)
  /\ wire = {} /\ sent = {} /\ taken = {} /\ faults = 0

Looping(process) == process.stage \in {"send", "wait", "loop"}

\* A request: the process that sends it and its token.
RequestId == <<init[Client].run, client.token>>

\* What a message says of the request: the token that main has set, a counter
\* that starts at 0 in every process.
Token(message) == IF message = NoMessage THEN 0 ELSE message[2]

-----------------------------------------------------------------------------
(* linux_edhoc_oscore: EDHOC                                               *)

\* main up to the first rx of the run.  The server is started first.
ClientMain(c) ==
  /\ kind = "edhoc" /\ client.stage = "down" /\ server.stage # "down"
  /\ InitiatorRun(Client, c)
  /\ client' = [stage |-> "edhoc"]
  /\ UNCHANGED <<kind, server, wire, taken, faults>>

ServerMain ==
  /\ kind = "edhoc" /\ server.stage = "down"
  /\ ResponderRun
  /\ server' = [stage |-> "edhoc"]
  /\ UNCHANGED <<kind, client, wire, taken, faults>>

\* Mutant: the two sides export with different labels.
ServerExporter_OtherLabel(prk_4x3m, th4) ==
  edhoc_exporter(prk_4x3m, th4, "OSCORE_Master_Salt")

ServerExporter(prk_4x3m, th4) == SessionKey(prk_4x3m, th4)

\* Mutant: the program goes on when message 3 is sent.
ClientRunReturned_BeforeMessage4 ==
  /\ client.stage = "edhoc" /\ init[Client].stage \in {"message_4", "ok"}
  /\ client' = LinuxClientInit(SessionKey(init[Client].prk_4x3m, init[Client].th4))
  /\ UNCHANGED <<vars, kind, server, wire, taken, faults>>

\* Mutant: each process counts its tokens from a number of its own.
ClientRunReturned_OtherTokens ==
  /\ client.stage = "edhoc" /\ ~Waits(init[Client].stage)
  /\ client' = IF init[Client].stage = "ok"
               THEN [LinuxClientInit(SessionKey(init[Client].prk_4x3m,
                                                init[Client].th4))
                       EXCEPT !.token = init[Client].run]
               ELSE TRY_Exit
  /\ UNCHANGED <<vars, kind, server, wire, taken, faults>>

\* edhoc_initiator_run returned: the exporters and the context, or TRY.
ClientRunReturned ==
  /\ client.stage = "edhoc" /\ ~Waits(init[Client].stage)
  /\ client' = IF init[Client].stage = "ok"
               THEN LinuxClientInit(SessionKey(init[Client].prk_4x3m,
                                               init[Client].th4))
               ELSE TRY_Exit
  /\ UNCHANGED <<vars, kind, server, wire, taken, faults>>

ServerRunReturned ==
  /\ server.stage = "edhoc" /\ ~Waits(resp.stage)
  /\ server' = IF resp.stage = "ok"
               THEN LinuxServerInit(ServerExporter(resp.prk_4x3m, resp.th4))
               ELSE TRY_Exit
  /\ UNCHANGED <<vars, kind, client, wire, taken, faults>>

\* rx of the run returns a message of EDHOC, or what a datagram of another
\* protocol has for a payload, which is no message.
ClientEdhoc ==
  /\ client.stage = "edhoc"
  /\ \/ InitiatorReceives(Client) /\ UNCHANGED sampleVars
     \/ \E d \in wire :
          /\ Arrives(d, Client) /\ Waits(init[Client].stage)
          /\ InitiatorFails(Client, d)
          /\ wire' = wire \ {d}
          /\ UNCHANGED <<kind, client, server, taken, faults>>

ServerEdhoc ==
  /\ server.stage = "edhoc"
  /\ \/ /\ \E m \in net : ResponderMessage1(m) \/ ResponderMessage3(m)
        /\ UNCHANGED sampleVars
     \/ \E d \in wire :
          /\ Arrives(d, R) /\ Waits(resp.stage)
          /\ ResponderFails(d, resp)
          /\ wire' = wire \ {d}
          /\ UNCHANGED <<kind, client, server, taken, faults>>

-----------------------------------------------------------------------------
(* The loops                                                               *)

ClientSend ==
  LET id == <<init[Client].run, client.token + 1>>
      s == IF kind = "edhoc" THEN EdhocOscoreClientSend(client, R, id)
           ELSE LinuxClientSend(client, R, id)
  IN  /\ client.stage = "send" /\ client.token < MaxTokens
      /\ client' = s.client
      /\ wire' = wire \cup ({s.sent} \ {NoMessage})
      /\ UNCHANGED <<vars, kind, server, taken, faults>>

\* Datagram d leaves the network: a message of EDHOC or another one.
Consume(d) ==
  /\ net' = net \ {d}
  /\ UNCHANGED <<init, resp, spent, answered, derived, accepted, confirmed>>

ClientReceive(d) ==
  /\ client.stage = "wait" /\ Arrives(d, Client)
  /\ client' = IF kind = "edhoc" THEN EdhocOscoreClientReceive(client, d)
               ELSE LinuxClientReceive(client, d)
  /\ taken' = IF Taken(client, d) = NoMessage THEN taken
              ELSE taken \cup {[asked |-> RequestId, got |-> Taken(client, d),
                                secure |-> IsOscore(d),
                                piv |-> client.ctx.piv]}
  /\ wire' = wire \ {d}
  /\ Consume(d)
  /\ UNCHANGED <<kind, server, faults>>

ServerTurn(d) ==
  CASE kind = "linux"  -> {LinuxServerTurn(server, d, Client)}
    [] kind = "edhoc"  -> {EdhocOscoreServerTurn(server, d, Client)}
    [] kind = "zephyr" -> process_coap_request(server, d, Client)

ServerReceive(d) ==
  /\ server.stage = "loop" /\ Arrives(d, R)
  /\ \E t \in ServerTurn(d) :
       /\ server' = t.server
       /\ wire' = (wire \ {d}) \cup ({t.reply} \ {NoMessage})
  /\ Consume(d)
  /\ UNCHANGED <<kind, client, taken, faults>>

-----------------------------------------------------------------------------
(* The network and the processes                                           *)

Lose(d) ==
  /\ faults < MaxFaults
  /\ faults' = faults + 1
  /\ wire' = wire \ {d}
  /\ Consume(d)
  /\ UNCHANGED <<kind, client, server, taken>>

Repeat(d) ==
  /\ faults < MaxFaults /\ d \notin net \cup wire
  /\ faults' = faults + 1
  /\ IF "proto" \in DOMAIN d THEN wire' = wire \cup {d} /\ UNCHANGED net
     ELSE net' = net \cup {d} /\ UNCHANGED wire
  /\ UNCHANGED <<init, resp, spent, answered, derived, accepted, confirmed,
                 kind, client, server, taken>>

\* The client of linux_edhoc_oscore is stopped.  (One of linux_oscore would
\* start again with sequence number 0, see the README.)
ClientStops ==
  /\ kind = "edhoc" /\ client.stage # "down" /\ spent.crashes < MaxCrashes
  /\ spent' = [spent EXCEPT !.crashes = @ + 1]
  /\ init' = [init EXCEPT ![Client] = [stage |-> "idle", run |-> @.run]]
  /\ client' = TRY_Exit
  /\ UNCHANGED <<resp, net, answered, derived, accepted, confirmed,
                 kind, server, wire, taken, faults>>

\* The server too, and with it what the sockets held.
ServerStops ==
  /\ kind = "edhoc" /\ server.stage # "down" /\ spent.crashes < MaxCrashes
  /\ spent' = [spent EXCEPT !.crashes = @ + 1]
  /\ resp' = [stage |-> "idle", run |-> resp.run, prk_4x3m |-> <<>>,
              th4 |-> <<>>]
  /\ server' = TRY_Exit
  /\ UNCHANGED <<init, net, answered, derived, accepted, confirmed,
                 kind, client, wire, taken, faults>>

-----------------------------------------------------------------------------
ClientStep ==
  \/ ClientRunReturned \/ ClientEdhoc \/ ClientSend
  \/ \E d \in net \cup wire : ClientReceive(d)

ServerStep ==
  \/ ServerMain \/ ServerRunReturned \/ ServerEdhoc
  \/ \E d \in net \cup wire : ServerReceive(d)

SessionStep ==
  \/ ClientStep \/ ServerStep
  \/ \E c \in Configs : ClientMain(c)
  \/ \E d \in net \cup wire : Lose(d)
  \/ \E d \in sent : Repeat(d)
  \/ ClientStops \/ ServerStops

SessionNext == SessionStep /\ sent' = sent \cup net' \cup wire'

SessionSpec == SessionInit /\ [][SessionNext]_sessionVars

\* ENABLED ClientStep and ENABLED ServerStep, spelled out.
ClientReady ==
  \/ client.stage = "edhoc" /\ ~Waits(init[Client].stage)
  \/ client.stage = "send" /\ client.token < MaxTokens
  \/ client.stage \in {"edhoc", "wait"} /\ \E d \in net \cup wire : Arrives(d, Client)

ServerReady ==
  \/ server.stage = "down" /\ kind = "edhoc" /\ resp.run < MaxRunsR
  \/ server.stage = "edhoc" /\ ~Waits(resp.stage)
  \/ server.stage \in {"edhoc", "loop"} /\ \E d \in net \cup wire : Arrives(d, R)

\* Both processes are scheduled, and what is on the network arrives: weak
\* fairness of the two steps.
SessionFairSpec ==
  /\ SessionSpec
  /\ []<>~ClientReady \/ []<><<ClientStep>>_sessionVars
  /\ []<>~ServerReady \/ []<><<ServerStep>>_sessionVars

-----------------------------------------------------------------------------
\* An answer the client takes for one to its protected request is the answer
\* to that request of a process of the client: of this one, or, where EDHOC
\* gives a process that was started again the secret of an earlier one, of that
\* one, which sent the same request.  The exceptions are a Partial IV with a
\* payload marker in it (the server refuses such a request, but has put its
\* parameters into the context already, and answers with them the request it
\* had before) and the server of zephyr_oscore, whose buffer is not initialized.
AnswersBelong ==
  \A a \in taken : a.secure /\ kind # "zephyr" =>
    \/ Token(a.asked) = Token(a.got)
    \/ \E i \in DOMAIN a.piv : a.piv[i] = Byte - 1

\* No master secret, key and nonce protect two different messages: not within a
\* session, not when a request arrives again that the server has answered, and
\* not after a process was started again, with the sequence number 0 and,
\* where the ephemeral keys are those of the test vectors, with the secret it
\* had before: what it protects then must be what it protected with the same
\* number.  The same exceptions: the refused request with the marker may arrive
\* before and after another one, and is answered each time as the one before it.
NoncesFresh ==
  LET protected == {d \in sent :
        /\ IsOscore(d) /\ kind # "zephyr"
        /\ \A i \in 1 .. MAX_PIV_LEN : d.content.nonce[3][i] # Byte - 1}
  IN  \A d, e \in protected :
        /\ d.secret = e.secret
        /\ d.content.key = e.content.key /\ d.content.nonce = e.content.nonce
        => Token(d.content.plain) = Token(e.content.plain)

\* When the client enters its loop, the server has accepted its session: the
\* secret of the client is one the server has or had.
ContextsPaired ==
  kind = "edhoc" /\ Looping(client) => \E a \in accepted : a.key = client.secret

Undisturbed == faults = 0 /\ spent.crashes = 0

\* Two processes that nothing disturbs get from EDHOC to their loops, with the
\* same secret.
SessionEstablished ==
  client.stage = "edhoc" ~>
    \/ ~Undisturbed
    \/ Looping(client) /\ Looping(server) /\ client.secret = server.secret

\* No byte of the Partial IVs of the client's requests was the payload marker,
\* and none needed a second byte.
ShortPivs == client.ctx.sender_seq_num < Byte

\* A request that nothing disturbs is answered before the next one is sent, and
\* so were all before it; the server of zephyr_oscore has no resource for every
\* other request.
RequestAnswered ==
  client.stage = "wait" /\ ShortPivs ~>
    \/ ~Undisturbed \/ kind = "zephyr"
    \/ /\ Looping(client)
       /\ \A t \in 1 .. client.token :
            \E a \in taken : a.asked = <<init[Client].run, t>> /\ a.got = a.asked
=============================================================================
