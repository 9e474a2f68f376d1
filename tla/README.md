# Verification of uOSCORE and uEDHOC

TLA+ models of this library and of its sample programs, checked with TLC on
small instances. For every value of the constants TLAPS proves what matters
most: the OSCORE contexts and exchanges, the EDHOC runs and that they implement
an abstract key agreement, their encodings and credentials, EDHOC and OSCORE
together in the samples, the crypto wrapper, and the mailboxes of a sample. The
library implements OSCORE (end-to-end protection of CoAP messages) and EDHOC (an
authenticated key exchange) for constrained devices.

Paths below are relative to the repository. `PROJECT.json` maps every
definition to the lines it translates and lists components, runs, mutants,
hazards, findings and theorems.

## 1. The system

| Part | Source | State it keeps | Operations |
|---|---|---|---|
| OSCORE security context | `src/oscore/security_context.c`, `nonce.c`, `aad.c` | `struct context`: common, sender, recipient and request-response context | `oscore_context_init`, `context_update`, `sender_seq_num2piv` |
| Replay window | `oscore2coap.c` (static functions) | `rc.replay_window`, 32 numbers | `replay_check`, `update_replay_window`, `insert_sender_seq_number` |
| CoAP to OSCORE | `coap2oscore.c` | none of its own; sequence number and request-response context | `coap2oscore` |
| OSCORE to CoAP | `oscore2coap.c` | the same, on the other side | `oscore2coap` |
| CoAP codec and option classes | `oscore_coap.c`, `option.c` | none | `buf2coap`, `coap2buf`, `options_into_byte_string`, `encode_options`, `is_class_e` |
| COSE, HKDF of OSCORE | `oscore_cose.c`, `oscore_hkdf_info.c` | none | encrypt, decrypt, `derive` |
| EDHOC initiator | `src/edhoc/initiator.c` | `runtime_context`, buffers of the caller | `edhoc_initiator_run` |
| EDHOC responder | `src/edhoc/responder.c` | the same | `edhoc_responder_run` |
| Key schedule and transcript | `prk.c`, `okm.c`, `th.c`, `edhoc_exporter.c` | none | `prk_derive`, `okm_calc`, `th2/3/4_calculate`, `edhoc_exporter` |
| EDHOC authentication and ciphertexts | `signature_or_mac_msg.c`, `ciphertext.c`, `plaintext_*.c` | none | `signature_or_mac`, `ciphertext_gen`, `ciphertext_decrypt_split`, `plaintext_split` |
| Credentials | `retrieve_cred.c`, `cert.c` | none; arrays of the caller | `retrieve_cred`, verification of native and X.509 certificates |
| Suites, methods, connection identifiers | `suites.c`, `edhoc_method_type.c`, `c_x.c` | tables | `get_suite`, `authentication_type_get`, `c_x_set` |
| Crypto wrapper | `src/common/crypto_wrapper.c` | key slots of the PSA library while a call runs | `aead`, `sign`, `verify`, `hkdf_*`, `shared_secret_derive`, `ephemeral_dh_key_gen`, `hash` |
| Utilities | `src/common` | none | checked copies, encodings of small integers, printing |
| CBOR codec | `src/cbor` (generated) | none | encoders, decoders |
| Samples with OSCORE | `samples/linux_oscore`, `zephyr_oscore`, `linux_edhoc_oscore` | the contexts and buffers of a client and a server process | endless loops of `oscore2coap`, `coap2oscore` and plain CoAP |
| Samples with EDHOC | `samples/linux_edhoc`, `zephyr_edhoc` | buffers that outlive a run; two threads and two mailboxes on each Zephyr device | the loops around the runs, `edhoc_post`, `txrx_edhoc` |
| Tests | `test`, `test_vectors` | none | contexts and expected bytes |

How they interact. The library has no thread, no timer and no storage: it runs
in its caller's. `coap2oscore` and `oscore2coap` run to completion and share
one `struct context` between requests and responses. `edhoc_initiator_run` and
`edhoc_responder_run` run a whole handshake and block only in the callback
`rx`; `tx` is the other callback. In `samples/linux_edhoc_oscore` the keys of
EDHOC go through `edhoc_exporter` into `oscore_context_init`; the two halves
meet nowhere else, but for the socket they share. Only `samples/zephyr_edhoc`
has threads: CoAP and EDHOC hand messages to each other through mailboxes. All
of it calls the crypto wrapper, which keeps a key in a slot of the PSA library
for the length of a call.

What is hard here:

* one request-response context for everything in flight: nonce and AAD of a
  response are those of whatever request was handled last, and both are
  overwritten before a message is authenticated;
* calls that fail in the middle and have already consumed a sequence number,
  written half a context or half a key;
* lost, repeated, delayed, reordered and damaged packets, packets of an earlier
  security context, and messages of several EDHOC runs in one socket;
* encodings that three writers and two readers do not agree upon, lengths that
  are computed apart from what they measure, unsigned differences that wrap;
* no retransmission and no timeout inside the library, and waits of the sample's
  threads that end without a message and are not looked at;
* processes that stop and start again, with the sequence number back at 0;
* buffers, lengths and capacities that live longer than the run they belong to;
* any of a dozen library calls that fails while a key has a slot.

What makes each part correct: a nonce is never used twice with a key; a
response is accepted only for the request it answers; a context never mixes
the keys of two ID Contexts; a message arrives as it was sent or is refused for
a stated limit; the two ends of an EDHOC run agree on key, peer, method and
suite, and a failed run leaves no usable key; what a party learns from a message
is what its sender put in, and the credential it ends with is the sender's; a
key lives as long as its call; a reply carries the answer to its own request.

## 2. Modules

```
ReplayWindow <- OscoreContext <- Oscore <- OscoreProperties <- MCOscore
                     ^                             ^
             OscoreContextLemmas <-----------  OscoreProofs
CoapOptions <- CoapConversion <- MCCoap, CoapProofs
EdhocTerms <- Edhoc <- EdhocProperties <- MCEdhoc, EdhocProofs
KeyAgreement              (INSTANCE in EdhocProperties; proved about in EdhocProofs)

OscoreContext <- SampleLoops -+
             EdhocProperties -+-> SecureSession <- MCSession, SecureSessionProofs
                    (SecureSessionProofs also extends EdhocProofs, OscoreContextLemmas)

EdhocCbor <- Credentials <- EdhocCodec <- EdhocWire <- EdhocVectors <- MCEdhocWire
                            (EdhocTerms by INSTANCE)   EdhocWire <- EdhocWireProofs

ZephyrEdhoc <- ZephyrEdhocProofs
CryptoWrapper <- CryptoWrapperProofs
```

### OSCORE

`ReplayWindow` has the three window functions as operators on a sequence.
`OscoreContext` has the context as a record with the members of `struct context`
and each function that changes it as an operator from context to result: error
code and context, the context also when the call fails half way. `Oscore` is the
state machine: `client` and `server` are the two contexts, one action is one
call (`ClientRequest`, `ClientResponse`, `ClientReinit`, `ServerRequest`,
`ServerResponse`), and the other variables record what was sent and accepted.

* A byte has `Byte` values instead of 256. Everything that depends on the width
  of a number (length of the Partial IV, capacity of the AAD buffer, the marker
  0xFF) keeps its form, and the proofs hold for every `Byte >= 2`.
* The network is a set of packets that only grows. A packet that is never
  delivered is lost; one delivered again is repeated; any order is possible.
  `intact = FALSE` is a damaged ciphertext.
* `fits` and `sent` are FALSE where the call fails for reasons outside the
  context (room in a buffer of the caller).
* Cryptography is symbolic: a key is the tuple of what it was derived from.

### CoAP conversion

`CoapOptions` has the codec and the option handling on bytes: the headers that
`options_into_byte_string` writes and `buf2options` reads, the class split, the
length of the plaintext, the merge at the receiver, each with the arithmetic of
the code (8 and 16 bits, unsigned wrap in `check_buffer_size`). A ciphertext is
the plaintext and a tag. `stray` is the byte found where the code reads memory
it never wrote. `CoapConversion` sends messages one by one through both
conversions. The security context is not in these modules: the two views meet in
the option value, whose reading `OscoreContext` models (`ReadKid`,
`MarkerInOption`).

### EDHOC

`EdhocTerms` has keys, transcripts, MACs and ciphertexts as terms. `Edhoc` is
the state machine of one responder and several initiators: a run is cut where it
blocks, in `rx`, so an action goes from one `rx` to the next or to the end of
the run with every error return on the way. Processes end while they wait
(`InitiatorCrash`, `ResponderCrash`); messages are repeated, reordered, mixed
between runs and damaged by the transport (`NetworkDamage`). The ephemeral key is
an argument of the library, so whether it is new in each run is the program's
doing: `FreshKeys` is the set of devices whose program generates one. All others
have the constant of the test vectors in every run (`Ephemeral`). `KeyAgreement` is
the abstract specification, with three variables and three actions: keys derived
by initiators, keys accepted by responder runs, runs confirmed by message 4.
`KeyAgreementSpec` is that specification with these variables taken from `Edhoc`:
the run `edhoc_sessions` shows that `Edhoc` implements it on a small instance,
`EdhocProofs` for every one.

`EdhocWire` is the same protocol on what is encoded: two initiators and a
responder that runs in the loop of `samples/linux_edhoc`, its buffers included.
`EdhocCbor` has the generated encoders and decoders as operators on items
`<<type, value>>`: a decoder gives the set of what it decodes, empty when it
refuses. `EdhocCodec` has the parsers and generators of the messages above it:
the list of suites with the selected one, connection identifiers in two
encodings, ID_CRED in its short form and rebuilt, the EADs, plaintexts, and the
MACs and ciphertexts made of them. `Credentials` has `retrieve_cred` and the two
kinds of certificates. `EdhocVectors` builds the contexts of the thirteen test
vectors as `test_edhoc` does. Terms come from `EdhocTerms`.

### The samples with OSCORE

`SecureSession` runs a client and a server process of one of three pairs
(`kind`): pre-shared secret on Linux, the Zephyr server with the Linux client,
EDHOC first. `SampleLoops` has one operator for a turn of each endless loop,
from the return of `recv` to the next one: the requests in turn protected and
plain, the buffers that keep the last answer, the errors that end the process in
one sample and are only printed in the other. The operators of `OscoreContext`
and the actions of `Edhoc` are used as they are, so the exporter's output is the
master secret that the keys of the context are made from. `FreshKeys` is empty in
all its runs: both programs of `linux_edhoc_oscore` set the key of a test vector
(`initiator_client/src/main.cpp:186`, `responder_server/src/main.cpp:244`), so
that the secret is the same after every restart. The network loses or repeats
datagrams; processes stop and start again, with a fresh context.

### The Zephyr EDHOC sample

`ZephyrEdhoc` has the two threads of each device. A Zephyr mailbox holds nothing,
so put and get are one step of both threads; `k_mbox_get` of the main thread may
end after `MBOX_WAIT_TIME`, and the code goes on with what the buffer held. Such
an end is early when the EDHOC thread still has something to put, and counted as
a timeout; else nothing but the end of the time could end the wait. Each EDHOC run
is reduced to the order of its messages. The responder sends no message 4: the
initializer of its `c_r` leaves out `msg4` (`responder/src/main.c:102`), so that
message 3 gets no reply, and main waits out its time. The callbacks are not in the
repository for the initiator, so both readings are initial states: `mailbox` and
the `stub` that is there. A buffer that is used after it was freed may hold
anything (`InitiatorReply(d, TRUE)`); devices are reset, datagrams lost and
repeated.

### The crypto wrapper

`CryptoWrapper` has each function as the sequence of its library calls, in the
builds for MBEDTLS and TINYCRYPT. Threads share the key slots; each call may
fail, `psa_destroy_key` too. Data is there where the wrapper computes it: the
blocks of HKDF-Expand with the counter's width, and points of the curve as
multiples of the generator, with the sign that compression keeps and the
generated keys lose. Functions of COMPACT25519, X25519 among them, are a call that
may fail.

## 3. Runs

| Run | Question | States |
|---|---|---|
| `oscore_exchange` | four requests of one context, past the number where sending stops: type, nonces of requests and responses, which requests are refused, which are sent, and whether each is answered or superseded | 4 366 |
| `oscore_rekey` | a client that changes its ID Context with old packets in the network: the client's contexts, keys, responses | 130 709 |
| `coap_roundtrip` | every short message: restored, hidden, not refused without reason, within the arrays | 13 322 |
| `edhoc_sessions` | two initiator and two responder runs, one process end, one damaged message: agreement, no key after a failure, refinement of `KeyAgreement` | 146 000 |
| `edhoc_progress` | every run completes when messages are delivered | temporal |
| `edhoc_wire` | encoded runs: parsed as sent, the right credential, a CA for each certificate, failures only for a reason, capacities that never grow | 39 250 |
| `secure_session` | the three pairs of samples as processes: paired secrets, answers and nonces over restarts with the secret and the numbers of before, sessions established and requests answered | 53 566 |
| `zephyr_edhoc` | mailboxes: answers for the right request, mutual waiting only after a wait that ended early, sessions that finish | 30 721 |
| `crypto_keys` | two threads, two slots, every call may fail: keys, slots, HKDF, shared secrets, calls return | 173 011 |
| `oscore_replay`, `coap_longvalue`, `edhoc_ead2` | statements of comments or of the API that the code does not keep; each is violated (section 6) | |

`CHECK_DEADLOCK FALSE` is set where the system really stops: an OSCORE client
that has made its calls, or EDHOC runs that have ended or wait for a message
that does not come, a sample that has exited, a device that waits for ever. The
CoAP runs never stop.

Every property of a passing run has a mutant in `PROJECT.json`, a plausible
slip in one function with which the same run is violated: for example a nonce
without its Partial IV, an AAD capacity reset on every call, an early return in
`context_update`, keys not derived again, a server that reads before it has
answered, a transcript without message 1, `th4` written before the
verification, the test vectors' ephemeral key where a program generates one,
tokens that each process counts from a number of its own, a MAC without the
credential, the first CA whatever its name, a cleanup after the macro that has
already destroyed the key, `edhoc_post` that does not wait for the answer to
message 1.

### Bounds, and why they are enough

* `Byte = 3`. Numbers 0, 1 and 2 have Partial IVs of one byte, 2 is the marker
  byte, 3 is the first number with two bytes, and its padded Partial IV is that
  of number 1. So `MaxCalls = 4` in `oscore_exchange` reaches the collision, the
  marker and the exhausted AAD buffer, and `RequestNonceUnique` is checked there:
  with the AAD buffer whole on every call (mutant `create_aad_FullBuffer`) number 3
  is sent with the nonce of number 1. In `oscore_rekey` three calls are spread over
  three ID Contexts.
* `WindowLen = 2` or `3`. The contents of the window decide nothing while
  `replay_check` never reaches it; three places have a gap in the middle.
* ID Contexts of 0, 2 and 8 bytes: absent, shorter, of equal length twice. The
  capacity rule of `context_update` compares lengths only.
* `KidLen = 1`; the samples' identifiers are at most one byte long. The proofs cover 0 to 7.
* CoAP: options 1, 3, 6, 7, 11 and 12 (class E and U on both sides of OSCORE, 9),
  up to three, values of 0 and 6 bytes, so that up to three options reach the 30
  bytes of `MAX_E_OPTIONS` and the refusal for it; and messages with many empty
  options, up to the size of the arrays. Deltas and lengths from 13 on are the
  subject of `coap_longvalue`. Tokens of 2 and of the illegal 9 bytes.
* EDHOC: two runs on each side are the fewest in which messages of one run reach
  another; the second device is configured with the credential of the first and
  has keys of its own, so that a run on its behalf has to fail. One crash and one
  damaged message, in every place. All devices have fresh keys in these runs.
  Methods 1 and 2 (one party signs, the other has a static key) in `edhoc_sessions`,
  all four in `edhoc_progress`.
* `edhoc_wire`: every first initiator with every second one and every responder of
  `MCEdhocWire`: the thirteen vectors against each other, lists of five and six
  suites, EAD_1 below, at and above the capacity of four, X.509 certificates of
  known, unknown, prefix-named and wrong CAs, responders with renewed credentials
  or an entry without CA. The second initiator comes before, during or after the
  first run, which gives the shrinking buffers and the interrupted run.
* `secure_session`: the seventh request is the first that is not sent (every other
  one is protected and `Byte = 3`), two runs on each side and one stop give a
  restart of either process in every state; one datagram is lost or repeated. That
  is enough for the secret to come back: the server ends by itself at the request
  whose Partial IV is the marker, and when it and a client that was stopped have
  started again, an answer of the first session that is repeated arrives in the
  second, which has the same secret, keys and numbers. The client does take it for
  an answer to its new request.
* `zephyr_edhoc`: two runs, two waits that end early and three faults. After one such
  wait the two threads of the responder may wait for each other, each in a
  `k_mbox_put` without a limit of time: that lasts until the device is reset, which is
  one of the faults. The invariants are proved for any number of them.
* `crypto_keys`: two slots for two threads, so that a key that stays behind is
  missed; `HashLen = 2` and outputs of 0 to 5 bytes are no block, half a block, full
  blocks and one more than `MaxIterations = 2` allows. The wrap of the uint8_t at 255
  becomes one at 2. The group has five elements, with keys of both signs.

### Fairness

`oscore_exchange` assumes weak fairness of the server's answer to an accepted
request, and strong fairness of the undamaged delivery of the client's current
request and of an answer to it. The last two say that the network is lossy but
fair and that packets are sent again, which is the job of CoAP's confirmable
messages and not of the library. The first is the loop of
`samples/linux_oscore/server/src/main.cpp:114`, which answers each request before
it reads the next. Weak fairness of the deliveries would not do: a damaged
request can always come in between and disable the good one until it is dealt
with.

`edhoc_progress` assumes weak fairness of the responder, whose loop calls
`edhoc_responder_run` again (`samples/linux_edhoc/responder/src/main.cpp`), and
of each initiator that has a message to read. Each message is delivered once;
with a lost message nothing is promised, as the library has neither
retransmission nor timeout (a hazard in `PROJECT.json`). Message 4 is on, as in
the Linux samples.

`secure_session`: each process runs when it can: weak fairness of the step of the
client and of the server, where a datagram that has arrived enables `recv`.
`SessionEstablished` and `RequestAnswered` speak of behaviours without a lost,
repeated or stopped anything, as nothing is sent again. `zephyr_edhoc`: the
scheduler runs the threads and datagrams arrive. A wait of main that its EDHOC
thread has nothing to put for ends after `MBOX_WAIT_TIME` (weak fairness of main:
`k_mbox_get` returns); one that ends early is never forced. `crypto_keys`: each thread is
scheduled and the library returns from its calls.

## 4. What is proved

For every value of the constants that the assumptions of the modules admit. In
particular: OSCORE for every `Byte >= 2`, window length, KID length up to 7, set of
ID Contexts and number of calls below 2^64; EDHOC for any finite or infinite set of
devices, any identities and configurations, any set of devices with fresh keys, and
any numbers of runs, process ends and damaged messages; encoded EDHOC for any contexts (any number of initiators)
and buffer sizes; the CoAP conversion for any set of messages that the encodings
agree on, any number of options, limits and bytes in memory never written; the
samples for any number of requests below 2^64, runs,
restarts and faults; the wrapper for every finite set of threads, number of slots,
length of a hash and order of the group; the mailboxes for any number of runs,
timeouts and faults.

| Theorem | Says |
|---|---|
| `NonceInvariant`, `RequestNonceUniqueness` | no two requests are encrypted with the same key and nonce |
| `ContextInvariant`, `TypeCorrect` | the state has its type; AAD length and replay window stay in their arrays |
| `KeysMatchIdContextTheorem` | keys and common IV are always those of one ID Context |
| `OneBytePivsTheorem` (KID up to 6 bytes) | exactly the first `Byte` requests of a context can be sent |
| `BindingInvariant`, `ResponseBindingTheorem` | an accepted response answers the client's latest request |
| `ResponseNonceTheorem` | two responses under one key and nonce answer one request |
| `RefusedOnlyForMarkerTheorem` (hypotheses below) | the server refuses an undamaged request only for the payload marker in its Partial IV |
| `AgreementInvariant`, `InjectiveAgreementTheorem`, `ConfirmedByPeerTheorem` | what the abstract key exchange promises |
| `EdhocInvariant`, `EdhocTypeOK` | the inductive invariant of the runs, and their type |
| `EdhocImplementsKeyAgreement` (fresh keys) | `Edhoc` implements `KeyAgreement`: each step derives, accepts or confirms a key, or stutters |
| `EdhocInjectiveAgreement` (fresh keys) | hence a run of the responder belongs to one run of one initiator that agrees with it |
| `EdhocConfirmedByPeer` (fresh keys) | and a run that message 4 confirmed has a peer that accepted its key |
| `InitiatorAgreementTheorem` | an initiator with a key is in one session with the responder |
| `FailedRunLeavesNoKeyTheorem` | a failed run of the responder leaves no key that an initiator has |
| `WireInvariant`, `Message1AsSentTheorem` | the responder reads from message 1 what its sender put in |
| `OnlySenderAuthenticatedTheorem` | the ID_CRED and credential a run ends with are those of its peer |
| `CertificateNeedsCaTheorem` | no certificate is accepted without the signature of a known CA |
| `BuffersNeverGrowTheorem` (an action property) | the capacities of the EAD buffers never grow |
| `FlowInvariant`, `FailureHasReasonTheorem` | when the contexts fit, every message is accepted: a run fails only for a reason |
| `CoapTypeTheorem`, `MessageRestoredTheorem` (hypotheses below) | the peer gets the CoAP message that was protected |
| `OnlyClassUTheorem` (same) | what is in clear are class U options, with the OSCORE option once |
| `FittingSentTheorem` (same) | the length of the plaintext computed in advance is the one written |
| `OptionsFitTheorem` (same) | what the sender lets through fits the receiver's unchecked arrays |
| `SessionInvariant`, `NoncesFreshTheorem` (any keys) | no secret, key and nonce protect two different messages of the samples, also when restarted processes have the secret and the numbers they had |
| `AnswersBelongTheorem` (any keys) | an accepted answer answers the client's request, or the same request of a process before it |
| `ContextsPairedTheorem` (with message 4) | the secret of a client in its loop is one the server has accepted |
| `MailboxInvariant`, `ZephyrTypeCorrect`, `RepliesAnswerRequestsTheorem` | every reply of the Zephyr responder answers its own request |
| `MutualWaitTheorem` | its threads wait for each other only after a wait that ended early |
| `KeyInvariant`, `CryptoTypeCorrect`, `KeysApartTheorem` | a key is there while its call uses it and is no other thread's |
| `NoKeyLeftTheorem` | no error leaves a key in a slot, but that of destroying it |
| `SlotsSufficeTheorem` | one slot for each thread is enough |
| `OutputInvariant`, `ExpandedAsSpecifiedTheorem` | HKDF-Expand writes what RFC 5869 says, for every length |
| `SecretsAgreeTheorem` | two sides derive one secret though compression loses a sign |

### The argument

*Nonces.* `RequestNonceUnique` is not inductive, and taken alone the code looks
as if it were false: the Partial IV is little-endian and `create_nonce` pads it
on the left, so 1 and 256 give one nonce. What prevents the collision is another
quirk: `create_aad` uses `aad_len` both as capacity and as result, so after the
first request there is room for one byte of Partial IV only. `NonceInv`
(`ClientInv` and `RequestsInv`) says exactly this: the AAD length is that of the
whole buffer before the first request and `8 + KidLen` after it, and every
request sent is `RequestFor` a number below `Byte` that its context has consumed.
`RequestStep` is the lemma about one call, with its three ways to end; it rests
on facts about `UsedBytes` and the weights of the bytes. A repair of `create_aad`
alone would make `RequestNonceUnique` false; the two have to be repaired together
(mutant `create_aad_FullBuffer`).

*Contexts.* `ContextInv` adds the server's context in the middle of
`context_update`: each of its returns leaves a context of which keys, IV and ID
Context agree. `WindowType` shows that `update_replay_window` writes inside the
array whatever it is given.

*Responses.* `BindingInv` relates four pieces of state: from an accepted request
to its answer, the server's context is that of the request (`PendingInv`);
therefore each response has nonce, AAD and ID Context of the request it answers
(`ResponsesInv`); the client's parameters are those of its latest number, or its
AAD is that of no request (`CurrentInv`). The last case is the point: after a
call that fails with number `Byte + k` the nonce in the context is that of an
earlier request, and only the torn AAD keeps the old answer from being accepted.

*What the server refuses.* `RefusalInv` adds to the invariant of exchanges that
the server has room for the AAD of every request that can have been sent
(`AadRoom`): its buffer, too, shrinks to the length of the first AAD, but a
request with a longer one cannot have been sent. `RequestRead` follows one request through `buf2coap` and
`context_update`. Each hypothesis of `RefusedOnlyForMarkerTheorem` excludes one
refusal that the code does make: with a KID of 7 bytes the AAD does not fit, a
longer ID Context than the present one does not either (`security_context.c:133`),
and an option of 13 bytes is read wrongly (`oscore_coap.c:178`).

*CoAP.* `Regular` says which messages the theorems are about, and TLC checks in
`coap_roundtrip` that every message of the run is one (`ProofsApply`). Each part of
it excludes something that goes wrong in the code: from 13 on the writers and the
readers of extended deltas and lengths do not agree (section 6), a byte 0xFF in a
value is taken for the payload marker, the merge drops class U options behind the
OSCORE option, and a message with neither options nor payload is read with
whatever `options_cnt` is on the stack. `ShortList` is asked of both halves too,
since the split makes deltas larger. `Storable` and `Sendable` are the limits of the
arrays. The lemmas are about the folds of the model, and there is no induction over
data to prove them by: `Upward` takes the least number at which a statement fails,
which the well-founded order of the naturals provides. `WrittenLaid` gives the
place of each option in what `options_into_byte_string` writes; `ReadLaid` shows
that one pass of `buf2options`, with either shift of the lengths, reads them there,
and `MarkerFacts` that the first 0xFF is the marker; `ReadMessage` and
`ReadPlaintext` put that together. `PartListed` gives each option its place in the
half of its class; `RankIs` and `IncreasingIs` say that ranks sort the numbers, and
`MergeStep` that after `k` numbers the merge has taken the first `k` options of the
message: the class E option whose turn it is, or the class U one, is the one with
that number, as the two classes have no number in common (`ReorderRestores`).
`PlaintextLenIs` compares the sum over the incoming options with the bytes written,
whose deltas are others. `CoapInv` then has little to say: what was delivered is
what the two calls make of one message.

*Key agreement.* `AgreementInv` says that a key belongs to one run on each side.
It is invariant of the abstract specification, and the refinement carries what
follows from it to `Edhoc` (`EdhocInjectiveAgreement`, `EdhocConfirmedByPeer`).

*EDHOC runs.* `EdhocInv` names for every message in the network the run that made
it, unless it is damaged (`GenuineMessage`); for every answer, derived key and
accepted key the transcript they belong to (`AnsweredInv`, `DerivedInv`,
`AcceptedInv`). The constructors of terms are injective (`OkmInjective` to
`PrkInjective`), so a MAC that verifies is the term that its owner made:
`Message2Vouches` takes an initiator from an accepted message 2 to the answer of
the responder to this very message 1, `Message3Vouches` takes the responder from
an accepted message 3 to the key one initiator has derived, each for the four
methods. One lemma per action then shows two things at once: `EdhocInv` is kept,
and the step is a `Derive`, an `Accept`, a `Confirm` or a stutter of `KeyAgreement`
(`AbstractStep`). `Derive` and `Accept` want a key that is new: `KeyNamesRun` and
`TranscriptNamesRun` find the run in the ephemeral keys of the transcript, which
is where the hypothesis enters that every program has a new key pair for each run
(`AllKeysFresh`, through `FreshKeysTellRuns`). `EdhocInv` and what follows from it
alone need no such hypothesis: type, agreement of the initiator and the keys of
failed runs are proved for any `FreshKeys`.
`FailedRunLeavesNoKey` rests on the order of the writes: th4 is written after the
verification, so what a buffer holds is of an accepted key (`ResponderInv`).

*Encoded runs.* `WireInv` says what is on its way (`InboxInv`, `ReplyInv`): each
datagram is its sender's message 1, or message 3 made with the keys the sender
still has; each reply is a message 2 for this initiator or none at all. Below it
are lemmas about every encoder with its parser: `Message1Parsed` (the list of
suites in two encodings, connection identifiers in two, an optional EAD),
`PlaintextSplit` (an ID_CRED in its short form and rebuilt), `CredentialFound` and
`ChainSigned` (what `retrieve_cred` returns, and through which signature). The
hard lemma is `ContextTells`. ID_CRED and CRED are concatenated in what a MAC
covers, as are CRED and EAD, without a length; an equal MAC could therefore stand
for another boundary. That it cannot follows since an ID_CRED is one item, a CRED
encoded data, and an EAD raw bytes (`ContextsAssumption`, from the fields of
`struct other_party_cred` and the two contexts in `src/inc/edhoc.h`). The same
assumption says that a C_x is an integer or a byte string and an ID_CRED a map of
label and value, the two forms that `struct c_x` and `plaintext_decode.c` have.
`MacTells` and `PeerAuthenticated` take it to a whole message. A message 1 of a
second initiator that arrives as message 3 is no case of its own: `WrongMessage`
shows that it is refused, whatever it contains.

*Why a run fails.* `FailureHasReason` is the converse: what is sent is accepted.
`FlowInv` says of every initiator which message of its run is on its way, that it
is the only one, and that the responder waits with the keys of this very run
(`InitiatorsFlow`, `InboxFlow`, `ResponderFlow`). A side that failed has a `Cause`,
which cannot go away: the contexts do not change and the EAD buffer does not grow.
For contexts that fit, each message that a generator makes is read back by the
function of the other side: through the encodings of message 1, the short and the
rebuilt ID_CRED, the credential that `retrieve_cred` finds, and in all four methods
the static or ephemeral secret, which is the same term on both sides. The one
failure without a cause is that of the responder which has taken the message 1 of
a second initiator for message 3 (`Interrupted`): that initiator then waits for a
message 2, with nothing on its way to it, so that it never fails in its turn.

*The samples.* `SessionInv` takes `EdhocInv` as a part (`RunsInv`) and the lemmas
about one call of `OscoreContext` (`OscoreContextLemmas`). That secrets differ
cannot be part of it: with the keys of the test vectors a restarted pair has the
secret it had before, and its numbers start at 0. What holds instead comes from the
loop: it protects every second request, beginning with the first, and a call that
fails consumes its number too, so that the request with number `n` has the token
`2n + 1` in every process (`IsRequest`, `ClientInv`). The message that a number protects is
therefore the same each time, and `NoncesFresh` and `AnswersBelong` compare
tokens. An old answer does fit a request of the new process; it is the answer to
the same request of the old one. `ParametersInv` says that the client's nonce and
AAD are those of its latest number or its AAD that of no request, `DatagramsInv`
that each answer has the parameters of its request, and `ServerInv` that the server
can answer wherever `oscore2coap` has returned. The third program, the Zephyr
server, answers from memory that was never written; the invariant claims nothing
of it, and neither do the properties.

*Mailboxes.* `RepliesAnswerRequests` speaks of replies that were sent, and a wait
that ended early lets main go on while the EDHOC thread still works on the
request before. `MailboxInv` says why the late answer is not given to the next
request: main reaches its `k_mbox_get` only through a `k_mbox_put` that needs the
EDHOC thread in its own `k_mbox_get`, so while main waits to get, what the EDHOC
thread computes or puts belongs to main's request. Its second half, that the
EDHOC thread works only while main waits unless `timeouts > 0`, gives the
theorem about mutual waiting. The proof has one lemma for the initiator's steps,
one for the responder's, one for the faults.

*Key slots.* `KeysApart` and `NoKeyLeft` are not inductive: that `psa_destroy_key`
is called at the end depends on what the function has yet to do. `ThreadInv` ties
the two together: a thread that holds a key has a rest in `Holding`, one that
holds none a rest in `Free` (all rests of all functions, `TodoHolding` and
`TodoFree`). Each step is then one of four effects on the slots, `Take`, `Keep`,
`Release` and `Lose`, and one lemma (`EffectKeeps`) shows what these preserve.
`FullSlots` counts: the keys that are not lost are the image of the threads that
hold one, and the thread that asks for a slot holds none.

*Outputs.* `HkdfInv` is the invariant of the loop of HKDF-Expand: the bytes of the
blocks before block `i` are right. With TinyCrypt and the longest output the counter
wraps to 0, and then the loop never ends, so there is nothing to say of its output
(`th.i = 0`). `AgreementInv` says that the secret is that of the peer's point or of
its negative; `SecretsEqual` that both have the same x, from the laws of `%`.

### What the proofs found

In the models, all corrected, since TLC had passed over them:

* `msg3_gen` chose from an empty set when a message 2 did not parse; the code
  returns an error there. Only the proof of `WireInv` asks what is known then.
* Choices by `CASE` with overlapping guards (`hkdf_expand`, the look-up of
  credentials, ID_CRED in message 1): the order of the arms is no part of TLA+'s
  meaning, though TLC takes the first. They are `IF ... ELSE IF` as in the code.
* What the encodings need of the contexts was nowhere said: `ContextsAssumption`.

In the code: which of its quirks hold each other up. Nonces are unique only since
the AAD buffer is torn, and the boundary between ID_CRED and CRED in a MAC is safe
only since an ID_CRED is one CBOR item, which no function verifies.

### Assumptions of models and proofs

* Cryptography is perfect: a term is opened or made only with its key.
* The server's application answers only requests that were accepted, and each
  before it reads the next (`Listening`). The library keeps one request-response
  context, so this is a duty of its caller; without it `ResponseNonceBinding`
  fails (mutant `Listening_Always`). `samples/linux_oscore/server/src/main.cpp`
  keeps the order but goes on after an error of `oscore2coap`, which the model
  does not do; `samples/linux_edhoc_oscore` stops.
* `oscore_context_init` is called again only with a new ID Context, since the
  sequence number starts at 0 and is stored nowhere.
* KID and ID Contexts hold no byte 0xFF; output buffers of the caller are large
  enough or the call fails; messages have at least the four header bytes.
* EDHOC: damage is what transport does to a message. That every caller makes a new
  ephemeral key pair for every run is a hypothesis of three theorems
  (`AllKeysFresh`) and of the runs `edhoc_sessions`, `edhoc_progress` and
  `edhoc_ead2`; it is true of no sample as built, and the runs of the samples do
  without.
* A restarted client asks what it asked before: the samples' tokens count from 0 and
  a request has no other content. A program that protects other data under the
  secret and the number it has used before is not covered by `NoncesFresh`.

Hypotheses of single theorems: `KidLen <= 6`, ID Contexts of one length and an
OSCORE option below 13 bytes (`RefusedOnlyForMarkerTheorem`), which the samples
meet; fewer than 2^64 requests (`MaxTokens < U64`, the theorems about the samples);
`Msg4I` (`ContextsPairedTheorem`), which
`samples/linux_edhoc_oscore/initiator_client/src/main.cpp:174` sets. The theorems
about CoAP have `Regulars`: each message is one whose token `coap2oscore` refuses,
or one that the application wrote with deltas and lengths below 13, in the whole
and in both halves, no byte 0xFF in a value, no Proxy option, and an option or a
payload; `Sendables` and `ArrayHoldsLimit` (30 bytes at five for each option are
fewer than eleven options) are those of one theorem each.

### Checked, not proved

* Everything temporal but the refinement and `BuffersNeverGrow`:
  `AnsweredOrSuperseded`, `RunsComplete`, `SessionEstablished`, `RequestAnswered`,
  `SessionsFinish`, `CallsReturn`. They need fairness, which is out of the prover's
  reach.
* The CoAP conversion outside of the hypotheses above: `coap_roundtrip` has none of
  these messages, `coap_longvalue` has one that is not restored.

## 5. What is not modelled

* The crypto libraries, and the encodings that go into symbolic functions only
  (`oscore_hkdf_info.c`, `hkdf_info.c`, `edhoc_cose.c` and the generated encoders of
  info, th, enc, sig and AAD structures): terms have their arguments instead.
  The generated encoders of message 3, of `data_2` and of the error message are
  not called.
* A MAC or signature of another length than its own, methods outside of the four,
  an uninitialised `options_cnt` read by the application, and a caller's message of
  more options than the arrays hold: hazards with a note.
* Restarts of `linux_oscore`: its client starts again at sequence number 0 under the
  keys that are built in. That is a duty of the application (section 4, assumptions)
  which this sample does not meet. `linux_edhoc_oscore` does not meet it either, since
  its ephemeral keys are constant: `secure_session` has its restarts: the same secret,
  key and nonce come back, and protect the same message.
* In the wrapper, which error a hash of another length gives, and the data of
  `ephemeral_dh_key_gen` for X25519: with MBEDTLS the hash of the seed is written
  into `sk`, and the key is made from `extended_seed`, which nothing has written
  (`crypto_wrapper.c:598`, `:606`). It holds no key and no property is about it.
* Other resources of the Zephyr CoAP server, its observers and retransmissions;
  sockets beyond what arrives where.
* The expected bytes of the tests, the OSCORE test vectors, build files, scripts.

## 6. Where the code and its documentation disagree

Each of these has a run that ends in a counterexample:

1. `oscore_replay`: `replay_check` sets its local `first_run` on every call and
   never looks at the window; a repeated request is accepted again
   (`oscore2coap.c:499`).
2. `coap_longvalue`: extended option lengths are written as value plus 13, not
   minus 13 as `encode_options` of the same library does (`oscore_coap.c:63`).
3. `edhoc_ead2`: EAD_2 is written as it is and read as a CBOR byte string, so the
   MAC of a responder with an EAD_2 is never verified (`ciphertext.c:249`).

Seen while modelling, without a run of their own:

* `aad.c:58`: the AAD capacity freezes after the first request, so requests with a
  Partial IV of two bytes cannot be sent, though five are announced
  (`SendsExactlyOneBytePivs` and `OneBytePivsTheorem` say exactly which can).
* `security_context.c:133`: a server without ID Context, or with a shorter one,
  refuses every request that brings one.
* `coap2oscore.c:177`: a length that is computed short and an unsigned difference
  that wraps send a message without its payload, for options of 13 bytes or more.
* `crypto_wrapper.c:417`: with TinyCrypt the counter of blocks is a uint8_t that
  never exceeds 255, so the longest output that is allowed never ends
  (`CallsReturn` has it as its exception). `crypto_wrapper.c:69`: the macro returns
  from `shared_secret_derive` without `mbedtls_pk_free`.
* `zephyr_edhoc`: the payload is used after its packet was freed; the responder sends no
  message 4, for which the initiator's EDHOC thread waits, and whose main would not
  hand one over; results of `k_mbox_get` are not looked at, and once a wait of main has
  ended early, both threads of the responder may put for ever; 300 bytes are sent to a
  buffer of 256; the file of the initiator does not compile as it is.
* `zephyr_oscore`: a request that is refused is answered from a buffer and a length
  that were never written, or with the answer before (`AnswersBelong` excludes this
  server). It has no resource for the plain requests of the client, which then
  waits for ever.
* `linux_oscore/server`: a request whose Partial IV holds the payload marker is
  refused, but its parameters are kept, and the answer before is sent again under
  them (the exception of `AnswersBelong` and `NoncesFresh`).
* `README.MD:64` says that `ephemeral_dh_key_gen` gives fresh keys before the protocol
  runs; the samples have those of a test vector, so that every restart of
  `linux_edhoc_oscore` derives the OSCORE master secret it had. The models follow the
  programs (`FreshKeys`), and the mutant `Ephemeral_TestVector` of `edhoc_sessions`
  shows what `KeyAgreement` loses by it: two runs with one key.
* `samples/linux_edhoc/responder/src/main.cpp:36`: the macro is there to choose between
  generated keys and the test vector's, but lines 229 to 232 set those of the test
  vector in any case, over what lines 188 to 191 have set.
* Of the vectors, 1 to 4, 8, 9, 12 and 13 run to completion in `EdhocWire`, the ones
  that the tests run as responder; the others name credentials that are not
  rebuilt from the plaintext (`plaintext_decode.c:75`). The initiators of 8 and 9
  have their list of suites in its encoded form.
* `cert.c:104`: a CA matches every issuer whose name begins with its own, an entry
  without CA matches all of them. `cert.c:57`: R or S of a signature with leading
  zero bytes is read from before its start.
* `responder.c:106`: a message 1 without EAD_1 leaves the bytes of the one before.
  `c_x.c`: a C_I that is a byte string is set with length 0.
* `oscore2coap.c:554`: the window gets unsorted when requests are reordered, which
  the scan of `replay_check` would not expect.
* `oscore_coap.c:270`: a byte 0xFF inside an option is taken for the payload
  marker (`RefusedOnlyForMarker` states how far this goes).
* `oscore_coap.c:178`: an OSCORE option of 13 bytes or more is read 26 bytes too
  long. `oscore_cose.c:97`: with a KID of `MAX_KID_LEN` bytes nothing can be sent.
* `oscore2coap.c:219`: class U options with numbers above 9 are dropped at the
  receiver. `oscore_coap.c:260`: an empty message leaves `options_cnt` unset.
* `option.c:86`: `encode_options` asks for the class of a distance.
* `security_context.c:147`: pipelined requests overwrite each other's parameters.
* `responder.c:117`: the comment says the first suite of the list is selected, the
  code takes the last. `responder.c:209`: `error_message_sent` is returned and
  nothing is sent. `responder.c:217`: an unknown method leaves `static_dh_r`
  without a value.
* EAD_3 behaves as EAD_2. `ad_1_len` and `ad_3_len` are capacity and result at
  once. `memcmp` of a MAC compares as many bytes as were received.
* A message 1 of a second initiator ends the run of the first.

## 7. State of the plan

Done: the OSCORE core, the CoAP conversion, EDHOC runs with their abstract
specification and the refinement, EDHOC and OSCORE together in the samples,
encodings and credentials with the test vectors, the buffers across runs, the
Zephyr mailboxes, the crypto wrapper; and proofs about all of them. Every
invariant of a passing run is a theorem. What a continuation would take up, in
this order:

1. *Hazards that are only noted*: a KID and an ID Context long enough for an OSCORE
   option of 13 bytes, in the run of whole exchanges; MACs with a length.
2. *The crypto wrapper under the sessions*: calls that fail as an error return of
   every action of `Edhoc` and `Oscore`.
3. *CoAP messages with extended deltas and lengths*, once the writers and the readers
   agree: the lemmas about places (`Laid`, `WrittenLaid`, `ReadLaid`) are where the
   widths enter.

There are twelve runs, one per question; new questions join the run whose
instance they share.
