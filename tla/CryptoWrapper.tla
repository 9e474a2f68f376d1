---------------------------- MODULE CryptoWrapper ----------------------------
(***************************************************************************)
(* src/common/crypto_wrapper.c: the cryptographic functions as threads     *)
(* call them, built for MBEDTLS (the PSA API, whose keys are in slots) or  *)
(* for TINYCRYPT (no keys outside of the caller's memory).                 *)
(*                                                                         *)
(* A function is the sequence of the calls it makes into the library; one  *)
(* step is one of them.  Any of them may fail.  The data is modelled where *)
(* a loop or a conversion computes it: the blocks of HKDF, and points of   *)
(* an elliptic curve, which are the numbers modulo the order of the group. *)
(***************************************************************************)
EXTENDS Integers, Sequences, FiniteSets

CONSTANTS
  Threads,
  Slots,          \* key slots of the PSA library
  Builds,         \* "MBEDTLS", "TINYCRYPT"
  HashLen,        \* 32 in the code
  MaxIterations,  \* 255 in the code, also the largest uint8_t
  MaxOutLen,      \* bound: length of an output of HKDF
  Order,          \* order of the group of the curve, an odd prime
  PrivateKeys     \* bound: the private keys of the devices

ASSUME CryptoAssumption ==
  /\ IsFiniteSet(Threads) /\ Slots \in Nat
  /\ Builds \subseteq {"MBEDTLS", "TINYCRYPT"}
  /\ HashLen \in Nat \ {0} /\ MaxIterations \in Nat \ {0} /\ MaxOutLen \in Nat
  /\ Order \in Nat \ {0, 1, 2} /\ PrivateKeys \subseteq 1 .. Order - 1

VARIABLES
  build,    \* the library the wrapper is compiled for
  keys,     \* slots that hold a key
  lost,     \* slots of keys that psa_destroy_key could not destroy
  refused,  \* whether psa_import_key has found no free slot
  thread    \* per thread: call, the steps todo, key_id, i, out, err

cryptoVars == <<build, keys, lost, refused, thread>>

PSA_KEY_HANDLE_INIT == 0

-----------------------------------------------------------------------------
(* P-256.  A point is the multiple of the generator; p and -p have the     *)
(* same x.                                                                 *)

Negative(p) == (Order - p) % Order
X(p) == {p, Negative(p)}
OddY(p) == p > Order \div 2

\* Key tag and x, as in a certificate.
Compressed(p) == <<IF OddY(p) THEN 3 ELSE 2, X(p)>>

\* What the generated public key looks like: the tag is always 0x02.
GeneratedPublicKey(sk) == <<2, X(sk)>>

mbedtls_ecp_decompress(pk) == CHOOSE p \in pk[2] : OddY(p) <=> pk[1] = 3

\* Mutant: the secret is the point, not its x.
AgreedSecret_Point(sk, pk) == <<<<(sk * mbedtls_ecp_decompress(pk)) % Order>>>>

\* psa_raw_key_agreement with a compressed key.
AgreedSecret(sk, pk) == <<<<X((sk * mbedtls_ecp_decompress(pk)) % Order)>>>>

-----------------------------------------------------------------------------
(* HKDF                                                                    *)

Iterations(out_len) == (out_len + HashLen - 1) \div HashLen

\* Mutant: a last block that is full is taken for an empty one.
BlockLen_FullIsEmpty(out_len, i) ==
  IF out_len <= i * HashLen THEN out_len % HashLen ELSE HashLen

BlockLen(out_len, i) ==
  IF out_len < i * HashLen THEN out_len % HashLen ELSE HashLen

\* T(i) is known by the counters that went into it and the T before it.
T(counters) == counters

\* One turn of the loop: T(i) is copied to its place in out.
ExpandBlock(out, out_len, i) ==
  [j \in 1 .. out_len |->
    IF j - (i - 1) * HashLen \in 1 .. BlockLen(out_len, i)
    THEN <<T([k \in 1 .. i |-> k]), j - (i - 1) * HashLen>>
    ELSE out[j]]

\* Of RFC 5869: the first out_len bytes of T(1) | T(2) | ...
Expanded(out_len) ==
  [j \in 1 .. out_len |->
    LET i == (j - 1) \div HashLen + 1
    IN  <<[k \in 1 .. i |-> k], j - (i - 1) * HashLen>>]

-----------------------------------------------------------------------------
(* The functions: their calls of the library                               *)

\* Functions of TINYCRYPT and COMPACT25519: a call that may fail, no key.
NoKey == <<"call">>

aead == IF build = "MBEDTLS" THEN <<"import", "use", "destroy">> ELSE NoKey

\* The signature must have its fixed length.
sign == IF build = "MBEDTLS" THEN <<"import", "use", "check", "destroy">>
        ELSE NoKey

\* What psa_verify_message returns becomes the result.
verify == IF build = "MBEDTLS" THEN <<"import", "status", "destroy">> ELSE NoKey

\* The salt, or zeros, is the key.
hkdf_extract == IF build = "MBEDTLS" THEN <<"import", "use", "destroy">>
                ELSE NoKey

\* Mutant: no limit of the number of blocks.
hkdf_expand_Unlimited(out_len) ==
  IF build = "MBEDTLS" THEN <<"import", "check", "expand", "destroy">>
  ELSE <<"expand">>

\* Too long an output is hkdf_fialed before any call.  The buffer combo must
\* hold the info.
hkdf_expand(out_len) ==
  IF Iterations(out_len) > MaxIterations THEN <<"hkdf_fialed">>
  ELSE IF build = "MBEDTLS" THEN <<"import", "check", "expand", "destroy">>
  ELSE <<"expand">>

hkdf_sha_256(out_len) == hkdf_extract \o hkdf_expand(out_len)

\* mbedtls_pk_setup and mbedtls_ecp_group_load; mbedtls_ecp_decompress;
\* psa_raw_key_agreement: an error of any goes to cleanup.
shared_secret_derive ==
  IF build = "MBEDTLS"
  THEN <<"import", "load", "decompress", "agree", "destroy">> ELSE NoKey

\* X25519: a hash of the seed and COMPACT25519.  P256 is there with MBEDTLS
\* only: psa_generate_key takes a slot as psa_import_key does; two exports and
\* the length of the second.
ephemeral_dh_key_gen(alg, fits) ==
  IF alg = "X25519" THEN NoKey
  ELSE IF build # "MBEDTLS" THEN <<>>
  ELSE IF ~fits THEN <<"buffer_to_small">>
  ELSE <<"import", "use", "use", "check", "destroy">>

hash == <<"call">>

Steps(call) ==
  CASE call.f = "aead" -> aead
    [] call.f = "sign" -> sign
    [] call.f = "verify" -> verify
    [] call.f = "hkdf_sha_256" -> hkdf_sha_256(call.out_len)
    [] call.f = "hkdf_expand" -> hkdf_expand(call.out_len)
    [] call.f = "shared_secret_derive" -> shared_secret_derive
    [] call.f = "ephemeral_dh_key_gen" -> ephemeral_dh_key_gen(call.alg, call.fits)
    [] call.f = "hash" -> hash

\* A peer's key is one it generated, one from its certificate, or no key.
Calls ==
       [f : {"aead", "sign", "verify", "hash"}]
  \cup [f : {"ephemeral_dh_key_gen"}, alg : {"X25519"}, fits : {TRUE}]
  \cup [f : {"ephemeral_dh_key_gen"}, alg : {"P256"}, fits : BOOLEAN]
  \cup [f : {"hkdf_expand", "hkdf_sha_256"}, out_len : 0 .. MaxOutLen]
  \cup {c \in [f : {"shared_secret_derive"}, sk : PrivateKeys, peer : PrivateKeys,
               form : {"generated", "static", "bad"}] : c.sk # c.peer}

PublicKey(call) == IF call.form = "static" THEN Compressed(call.peer)
                   ELSE GeneratedPublicKey(call.peer)

-----------------------------------------------------------------------------
Idle(t) == thread[t].todo = <<>>

Init ==
  /\ build \in Builds
  /\ keys = {} /\ lost = {} /\ refused = FALSE
  /\ thread = [t \in Threads |-> [call |-> [f |-> "none"], todo |-> <<>>,
                 key |-> PSA_KEY_HANDLE_INIT, i |-> 1, out |-> <<>>, err |-> "ok"]]

Call(t, call) ==
  /\ Idle(t)
  /\ thread' = [thread EXCEPT ![t] =
       [call |-> call, todo |-> Steps(call), key |-> PSA_KEY_HANDLE_INIT, i |-> 1,
        out |-> IF "out_len" \in DOMAIN call THEN [j \in 1 .. call.out_len |-> <<>>]
                ELSE <<>>,
        err |-> "ok"]]
  /\ UNCHANGED <<build, keys, lost, refused>>

At(t, step) == thread[t].todo # <<>> /\ Head(thread[t].todo) = step

Continue(t) == thread' = [thread EXCEPT ![t].todo = Tail(@)]

Return(t, err) ==
  thread' = [thread EXCEPT ![t].todo = <<>>, ![t].key = PSA_KEY_HANDLE_INIT,
                           ![t].err = err]

\* goto cleanup, where the key is destroyed and the error returned.
Cleanup(t) ==
  thread' = [thread EXCEPT ![t].todo = <<"destroy">>,
                           ![t].err = "unexpected_result_from_ext_lib"]

\* Mutant: the macro destroys whatever key_id says.
psa_destroy_key_Untested(t) ==
  \/ keys' = keys \ {thread[t].key} /\ UNCHANGED lost
  \/ lost' = lost \cup {thread[t].key} /\ UNCHANGED keys

\* The thread gives up its key; psa_destroy_key may fail, and the key stays.
psa_destroy_key(t) ==
  \/ keys' = keys \ {thread[t].key} /\ UNCHANGED lost
  \/ lost' = lost \cup ({thread[t].key} \ {PSA_KEY_HANDLE_INIT}) /\ UNCHANGED keys

\* Mutant: TRY_EXPECT in its place, which knows nothing of keys.
TRY_EXPECT_PSA_Plain(t) ==
  /\ UNCHANGED <<keys, lost>>
  /\ Return(t, "unexpected_result_from_ext_lib")

\* Mutant: the function goes to its cleanup after the macro.
TRY_EXPECT_PSA_ThenCleanup(t) == psa_destroy_key(t) /\ Cleanup(t)

\* A signature of another length has an error of its own.
Failure(t) ==
  IF At(t, "check") /\ thread[t].call.f = "sign" THEN "sign_failed"
  ELSE "unexpected_result_from_ext_lib"

\* An unexpected result: the key, if there is one, is destroyed.
TRY_EXPECT_PSA(t) == psa_destroy_key(t) /\ Return(t, Failure(t))

\* The library takes the first free slot.
FreeSlot == {s \in (1 .. Slots) \ keys : \A u \in (1 .. Slots) \ keys : s <= u}

\* psa_crypto_init and psa_import_key, or psa_generate_key.
ImportKey(t) ==
  /\ At(t, "import")
  /\ \/ \E s \in FreeSlot :
          /\ keys' = keys \cup {s}
          /\ thread' = [thread EXCEPT ![t].todo = Tail(@), ![t].key = s]
          /\ UNCHANGED <<lost, refused>>
     \/ TRY_EXPECT_PSA(t) /\ refused' = (refused \/ keys = 1 .. Slots)
  /\ UNCHANGED build

\* A call with the key, or a test of a length.
UseKey(t) ==
  /\ At(t, "use") \/ At(t, "check")
  /\ \/ Continue(t) /\ UNCHANGED <<keys, lost>>
     \/ TRY_EXPECT_PSA(t)
  /\ UNCHANGED <<build, refused>>

\* The signature is right or wrong: the call goes on.
VerifyMessage(t) ==
  /\ At(t, "status") /\ Continue(t)
  /\ UNCHANGED <<build, keys, lost, refused>>

Agreement(t) ==
  LET call == thread[t].call
  IN  /\ \/ At(t, "load") /\ (Continue(t) \/ Cleanup(t))
         \/ At(t, "decompress") /\ (IF call.form = "bad" THEN Cleanup(t) ELSE Continue(t))
         \/ /\ At(t, "agree")
            /\ \/ thread' = [thread EXCEPT ![t].todo = Tail(@),
                               ![t].out = AgreedSecret(call.sk, PublicKey(call))]
               \/ Cleanup(t)
      /\ UNCHANGED <<build, keys, lost, refused>>

\* i is a uint32_t with MBEDTLS and a uint8_t with TINYCRYPT.
NextI(i) == IF build = "MBEDTLS" THEN i + 1 ELSE (i + 1) % (MaxIterations + 1)

\* One turn of the loop, or its end.  When the uint8_t wraps around, the loop
\* does not end, and writes outside of out: the thread stays where it is.
Expand(t) ==
  LET th == thread[t]
      out_len == th.call.out_len
  IN  /\ At(t, "expand") /\ th.i # 0
      /\ IF th.i <= Iterations(out_len)
         THEN \/ /\ thread' = [thread EXCEPT ![t].i = NextI(@),
                                  ![t].out = ExpandBlock(@, out_len, th.i)]
                 /\ UNCHANGED <<keys, lost>>
              \/ TRY_EXPECT_PSA(t)
         ELSE Continue(t) /\ UNCHANGED <<keys, lost>>
      /\ UNCHANGED <<build, refused>>

\* TRY_EXPECT at the end of a function.  What is in err is what the function
\* was going to return.
DestroyKey(t) ==
  /\ At(t, "destroy")
  /\ \/ /\ keys' = keys \ {thread[t].key}
        /\ thread' = [thread EXCEPT ![t].todo = Tail(@), ![t].key = PSA_KEY_HANDLE_INIT]
        /\ UNCHANGED lost
     \/ /\ lost' = lost \cup {thread[t].key}
        /\ Return(t, "unexpected_result_from_ext_lib")
        /\ UNCHANGED keys
  /\ UNCHANGED <<build, refused>>

\* Calls without a key, and what fails before any call.
Keyless(t) ==
  /\ \/ At(t, "call") /\ (Continue(t) \/ Return(t, "unexpected_result_from_ext_lib"))
     \/ \E err \in {"hkdf_fialed", "buffer_to_small"} : At(t, err) /\ Return(t, err)
  /\ UNCHANGED <<build, keys, lost, refused>>

Step(t) == \/ ImportKey(t) \/ UseKey(t) \/ VerifyMessage(t) \/ Agreement(t)
           \/ Expand(t) \/ DestroyKey(t) \/ Keyless(t)

Next == \E t \in Threads : Step(t) \/ \E call \in Calls : Call(t, call)

Spec == Init /\ [][Next]_cryptoVars

\* A thread is scheduled and a call of the library returns.
FairSpec == Spec /\ \A t \in Threads : WF_cryptoVars(Step(t))

-----------------------------------------------------------------------------
\* Shape of the state.
TypeOK ==
  /\ build \in Builds
  /\ keys \subseteq 1 .. Slots /\ lost \subseteq keys
  /\ refused \in BOOLEAN
  /\ DOMAIN thread = Threads
  /\ \A t \in Threads : thread[t].key \in 0 .. Slots /\ thread[t].i \in Nat

\* A thread's key is there as long as it uses it, and is no other thread's:
\* nothing destroys a key twice, the second time when another thread's key has
\* its slot.
KeysApart ==
  \A t \in Threads : thread[t].key # PSA_KEY_HANDLE_INIT =>
    /\ thread[t].key \in keys \ lost
    /\ \A u \in Threads \ {t} : thread[u].key # thread[t].key

\* Whatever fails in a function, its key does not stay behind: a slot that is
\* in use belongs to a call that is still running, unless psa_destroy_key
\* itself has failed.
NoKeyLeft ==
  \A s \in keys \ lost : \E t \in Threads : thread[t].key = s /\ ~Idle(t)

\* A slot for each thread, beyond those of keys that could not be destroyed,
\* is enough: no import fails for want of one.
SlotsSuffice == refused => Slots < Cardinality(lost) + Cardinality(Threads)

\* The output of HKDF-Expand is that of RFC 5869 in all its bytes, whether or
\* not the last block is a full one.
ExpandedAsSpecified ==
  \A t \in Threads :
    LET th == thread[t]
    IN  /\ th.call.f \in {"hkdf_expand", "hkdf_sha_256"}
        /\ Idle(t) /\ th.err = "ok"
        => th.out = Expanded(th.call.out_len)

\* Two threads that hold each other's public keys agree on the secret: that
\* ephemeral_dh_key_gen drops the sign of y does not matter.
SecretsAgree ==
  \A t, u \in Threads :
    LET a == thread[t] b == thread[u]
        done == {v \in Threads : /\ thread[v].call.f = "shared_secret_derive"
                                 /\ Idle(v) /\ thread[v].err = "ok"}
    IN  {t, u} \subseteq done /\ build = "MBEDTLS"
        /\ a.call.sk = b.call.peer /\ b.call.sk = a.call.peer
        => a.out = b.out

\* Every call returns, except the longest output with the uint8_t of TINYCRYPT.
CallsReturn ==
  \A t \in Threads :
    ~Idle(t) ~>
      \/ Idle(t)
      \/ /\ build = "TINYCRYPT" /\ At(t, "expand")
         /\ Iterations(thread[t].call.out_len) = MaxIterations
=============================================================================
