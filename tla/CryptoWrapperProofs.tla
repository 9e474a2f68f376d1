-------------------------- MODULE CryptoWrapperProofs --------------------------
(***************************************************************************)
(* Proofs about crypto_wrapper.c, for any number of threads and of slots:  *)
(* a key lives as long as the call that imported it.  And about what its   *)
(* loops compute, for every length of a block and every group: the output  *)
(* of HKDF-Expand is that of its definition, and two sides that derive a   *)
(* secret get the same one though compression loses a sign.                *)
(***************************************************************************)
EXTENDS CryptoWrapper, FiniteSetTheorems, SequenceTheorems, TLAPS

\* What a thread has yet to do while it holds a key.
Holding ==
  { <<"destroy">>,
    <<"use", "destroy">>,
    <<"check", "destroy">>,
    <<"use", "check", "destroy">>,
    <<"use", "use", "check", "destroy">>,
    <<"status", "destroy">>,
    <<"expand", "destroy">>,
    <<"check", "expand", "destroy">>,
    <<"agree", "destroy">>,
    <<"decompress", "agree", "destroy">>,
    <<"load", "decompress", "agree", "destroy">>,
    <<"destroy", "hkdf_fialed">>,
    <<"use", "destroy", "hkdf_fialed">>,
    <<"destroy", "import", "check", "expand", "destroy">>,
    <<"use", "destroy", "import", "check", "expand", "destroy">> }

\* And while it holds none.
Free ==
  { <<>>,
    <<"call">>,
    <<"hkdf_fialed">>,
    <<"buffer_to_small">>,
    <<"expand">>,
    <<"call", "hkdf_fialed">>,
    <<"call", "expand">>,
    <<"import", "use", "destroy">>,
    <<"import", "use", "check", "destroy">>,
    <<"import", "use", "use", "check", "destroy">>,
    <<"import", "status", "destroy">>,
    <<"import", "check", "expand", "destroy">>,
    <<"import", "load", "decompress", "agree", "destroy">>,
    <<"import", "use", "destroy", "hkdf_fialed">>,
    <<"import", "use", "destroy", "import", "check", "expand", "destroy">> }

\* A thread is a record; it holds a key exactly when it has yet to destroy one.
ThreadInv(t) ==
  /\ DOMAIN thread[t] = {"call", "todo", "key", "i", "out", "err"}
  /\ IF thread[t].key = PSA_KEY_HANDLE_INIT THEN thread[t].todo \in Free
     ELSE thread[t].todo \in Holding

KeyInv == /\ TypeOK /\ KeysApart /\ NoKeyLeft
          /\ \A t \in Threads : ThreadInv(t)

\* What a step of a thread may do to the slots.
Take(t) ==
  \E s \in (1 .. Slots) \ keys :
    /\ thread[t].key = PSA_KEY_HANDLE_INIT
    /\ thread'[t].key = s /\ keys' = keys \cup {s} /\ lost' = lost

Keep(t) == thread'[t].key = thread[t].key /\ keys' = keys /\ lost' = lost

Release(t) ==
  /\ thread'[t].key = PSA_KEY_HANDLE_INIT
  /\ keys' = keys \ {thread[t].key} /\ lost' = lost

Lose(t) ==
  /\ thread'[t].key = PSA_KEY_HANDLE_INIT
  /\ lost' = lost \cup ({thread[t].key} \ {PSA_KEY_HANDLE_INIT}) /\ keys' = keys

Effect(t) ==
  /\ build' = build
  /\ DOMAIN thread' = Threads
  /\ \A u \in Threads \ {t} : thread'[u] = thread[u]
  /\ ThreadInv(t)' /\ thread'[t].i \in Nat
  /\ Take(t) \/ Keep(t) \/ Release(t) \/ Lose(t)

\* A key is there after the import and until it is destroyed.
LEMMA TodoHolding ==
  ASSUME NEW todo \in Holding
  PROVE  /\ todo # <<>>
         /\ Head(todo) \notin {"import", "call", "hkdf_fialed", "buffer_to_small"}
         /\ Tail(todo) \in IF Head(todo) = "destroy" THEN Free ELSE Holding
<1>1. CASE todo = <<"destroy">>
  BY <1>1 DEF Free
<1>2. CASE todo = <<"use", "destroy">>
  BY <1>2 DEF Holding
<1>3. CASE todo = <<"check", "destroy">>
  BY <1>3 DEF Holding
<1>4. CASE todo = <<"use", "check", "destroy">>
  BY <1>4 DEF Holding
<1>5. CASE todo = <<"use", "use", "check", "destroy">>
  BY <1>5 DEF Holding
<1>6. CASE todo = <<"status", "destroy">>
  BY <1>6 DEF Holding
<1>7. CASE todo = <<"expand", "destroy">>
  BY <1>7 DEF Holding
<1>8. CASE todo = <<"check", "expand", "destroy">>
  BY <1>8 DEF Holding
<1>9. CASE todo = <<"agree", "destroy">>
  BY <1>9 DEF Holding
<1>10. CASE todo = <<"decompress", "agree", "destroy">>
  BY <1>10 DEF Holding
<1>11. CASE todo = <<"load", "decompress", "agree", "destroy">>
  BY <1>11 DEF Holding
<1>12. CASE todo = <<"destroy", "hkdf_fialed">>
  BY <1>12 DEF Free
<1>13. CASE todo = <<"use", "destroy", "hkdf_fialed">>
  BY <1>13 DEF Holding
<1>14. CASE todo = <<"destroy", "import", "check", "expand", "destroy">>
  BY <1>14 DEF Free
<1>15. CASE todo = <<"use", "destroy", "import", "check", "expand", "destroy">>
  BY <1>15 DEF Holding
<1> QED
  BY <1>1, <1>2, <1>3, <1>4, <1>5, <1>6, <1>7, <1>8, <1>9, <1>10, <1>11, <1>12,
     <1>13, <1>14, <1>15 DEF Holding

\* Without a key nothing is done with one before the next import.
LEMMA TodoFree ==
  ASSUME NEW todo \in Free, todo # <<>>
  PROVE  /\ Head(todo) \in {"import", "call", "hkdf_fialed", "buffer_to_small",
                            "expand"}
         /\ Tail(todo) \in IF Head(todo) = "import" THEN Holding ELSE Free
<1>1. CASE todo = <<"call">>
  BY <1>1 DEF Free
<1>2. CASE todo = <<"hkdf_fialed">>
  BY <1>2 DEF Free
<1>3. CASE todo = <<"expand">>
  BY <1>3 DEF Free
<1>4. CASE todo = <<"call", "hkdf_fialed">>
  BY <1>4 DEF Free
<1>5. CASE todo = <<"call", "expand">>
  BY <1>5 DEF Free
<1>6. CASE todo = <<"import", "use", "destroy">>
  BY <1>6 DEF Holding
<1>7. CASE todo = <<"import", "use", "check", "destroy">>
  BY <1>7 DEF Holding
<1>8. CASE todo = <<"import", "use", "use", "check", "destroy">>
  BY <1>8 DEF Holding
<1>9. CASE todo = <<"import", "status", "destroy">>
  BY <1>9 DEF Holding
<1>10. CASE todo = <<"import", "check", "expand", "destroy">>
  BY <1>10 DEF Holding
<1>11. CASE todo = <<"import", "load", "decompress", "agree", "destroy">>
  BY <1>11 DEF Holding
<1>12. CASE todo = <<"import", "use", "destroy", "hkdf_fialed">>
  BY <1>12 DEF Holding
<1>13. CASE todo = <<"import", "use", "destroy", "import", "check", "expand",
                  "destroy">>
  BY <1>13 DEF Holding
<1>14. CASE todo = <<"buffer_to_small">>
  BY <1>14 DEF Free
<1> QED
  BY <1>1, <1>2, <1>3, <1>4, <1>5, <1>6, <1>7, <1>8, <1>9, <1>10, <1>11, <1>12,
     <1>13, <1>14 DEF Free

\* Two sequences of calls in one function.
LEMMA Joined ==
  ASSUME NEW S, NEW a \in Seq(S), NEW b \in Seq(S), NEW c \in Seq(S),
         Len(c) = Len(a) + Len(b),
         \A i \in 1 .. Len(a) : c[i] = a[i],
         \A i \in 1 .. Len(b) : c[Len(a) + i] = b[i]
  PROVE  a \o b = c
<1>1. Len(a) \in Nat /\ Len(b) \in Nat
  BY LenProperties
<1>2. /\ a \o b \in Seq(S) /\ Len(a \o b) = Len(a) + Len(b)
      /\ \A i \in 1 .. Len(a) + Len(b) : (a \o b)[i] =
                     IF i <= Len(a) THEN a[i] ELSE b[i - Len(a)]
  BY ConcatProperties
<1>3. ASSUME NEW i \in 1 .. Len(a \o b) PROVE (a \o b)[i] = c[i]
  <2>1. CASE i <= Len(a)
    BY <1>1, <1>2, <2>1
  <2>2. CASE i > Len(a)
    <3>1. i - Len(a) \in 1 .. Len(b) /\ Len(a) + (i - Len(a)) = i
      BY <1>1, <1>2, <2>2
    <3> QED
      BY <1>1, <1>2, <2>2, <3>1
  <2> QED
    BY <1>1, <1>2, <2>1, <2>2
<1> QED
  BY <1>2, <1>3, SeqEqual

Names == {"import", "use", "destroy", "check", "expand", "call", "hkdf_fialed"}

\* The lists of hkdf_sha_256: hkdf_extract's and then hkdf_expand's.
LEMMA HkdfSteps ==
  /\ <<"import", "use", "destroy">> \o <<"hkdf_fialed">> =
       <<"import", "use", "destroy", "hkdf_fialed">>
  /\ <<"import", "use", "destroy">>
       \o <<"import", "check", "expand", "destroy">> =
       <<"import", "use", "destroy", "import", "check", "expand", "destroy">>
  /\ <<"call">> \o <<"hkdf_fialed">> = <<"call", "hkdf_fialed">>
  /\ <<"call">> \o <<"expand">> = <<"call", "expand">>
<1>1. <<"import", "use", "destroy">>
        \o <<"hkdf_fialed">>
      = <<"import", "use", "destroy", "hkdf_fialed">>
  <2> DEFINE a == <<"import", "use", "destroy">>
             b == <<"hkdf_fialed">>
             c == <<"import", "use", "destroy", "hkdf_fialed">>
  <2>1. a \in Seq(Names) /\ b \in Seq(Names) /\ c \in Seq(Names)
    BY DEF Names
  <2>2. /\ Len(c) = Len(a) + Len(b)
        /\ \A i \in 1 .. Len(a) : c[i] = a[i]
        /\ \A i \in 1 .. Len(b) : c[Len(a) + i] = b[i]
    OBVIOUS
  <2> HIDE DEF a, b, c
  <2>3. a \o b = c
    BY <2>1, <2>2, Joined
  <2> QED
    BY <2>3 DEF a, b, c
<1>2. <<"import", "use", "destroy">>
        \o <<"import", "check", "expand", "destroy">>
      = <<"import", "use", "destroy", "import", "check", "expand", "destroy">>
  <2> DEFINE a == <<"import", "use", "destroy">>
             b == <<"import", "check", "expand", "destroy">>
             c == <<"import", "use", "destroy", "import", "check", "expand",
                    "destroy">>
  <2>1. a \in Seq(Names) /\ b \in Seq(Names) /\ c \in Seq(Names)
    BY DEF Names
  <2>2. /\ Len(c) = Len(a) + Len(b)
        /\ \A i \in 1 .. Len(a) : c[i] = a[i]
        /\ \A i \in 1 .. Len(b) : c[Len(a) + i] = b[i]
    OBVIOUS
  <2> HIDE DEF a, b, c
  <2>3. a \o b = c
    BY <2>1, <2>2, Joined
  <2> QED
    BY <2>3 DEF a, b, c
<1>3. <<"call">>
        \o <<"hkdf_fialed">>
      = <<"call", "hkdf_fialed">>
  <2> DEFINE a == <<"call">>
             b == <<"hkdf_fialed">>
             c == <<"call", "hkdf_fialed">>
  <2>1. a \in Seq(Names) /\ b \in Seq(Names) /\ c \in Seq(Names)
    BY DEF Names
  <2>2. /\ Len(c) = Len(a) + Len(b)
        /\ \A i \in 1 .. Len(a) : c[i] = a[i]
        /\ \A i \in 1 .. Len(b) : c[Len(a) + i] = b[i]
    OBVIOUS
  <2> HIDE DEF a, b, c
  <2>3. a \o b = c
    BY <2>1, <2>2, Joined
  <2> QED
    BY <2>3 DEF a, b, c
<1>4. <<"call">>
        \o <<"expand">>
      = <<"call", "expand">>
  <2> DEFINE a == <<"call">>
             b == <<"expand">>
             c == <<"call", "expand">>
  <2>1. a \in Seq(Names) /\ b \in Seq(Names) /\ c \in Seq(Names)
    BY DEF Names
  <2>2. /\ Len(c) = Len(a) + Len(b)
        /\ \A i \in 1 .. Len(a) : c[i] = a[i]
        /\ \A i \in 1 .. Len(b) : c[Len(a) + i] = b[i]
    OBVIOUS
  <2> HIDE DEF a, b, c
  <2>3. a \o b = c
    BY <2>1, <2>2, Joined
  <2> QED
    BY <2>3 DEF a, b, c
<1> QED
  BY <1>1, <1>2, <1>3, <1>4

\* Every function of the wrapper starts without a key.
LEMMA FirstSteps == \A call \in Calls : Steps(call) \in Free
<1> TAKE call \in Calls
<1>1. call.f \in {"aead", "sign", "verify", "ephemeral_dh_key_gen", "hash",
                  "hkdf_expand", "hkdf_sha_256", "shared_secret_derive"}
  BY DEF Calls
<1>2. hkdf_sha_256(call.out_len) \in Free
  BY HkdfSteps DEF hkdf_sha_256, hkdf_extract, hkdf_expand, NoKey, Free
<1>3. hkdf_expand(call.out_len) \in Free
  BY DEF hkdf_expand, Free
<1> QED
  BY <1>1, <1>2, <1>3
     DEF Steps, aead, sign, verify, ephemeral_dh_key_gen, hash,
         shared_secret_derive, NoKey, Free

-----------------------------------------------------------------------------
\* A record with a field replaced.
LEMMA ContinueFields ==
  ASSUME NEW t \in Threads, DOMAIN thread = Threads, ThreadInv(t), Continue(t)
  PROVE  /\ DOMAIN thread' = Threads
         /\ \A u \in Threads \ {t} : thread'[u] = thread[u]
         /\ DOMAIN thread'[t] = {"call", "todo", "key", "i", "out", "err"}
         /\ thread'[t].key = thread[t].key /\ thread'[t].i = thread[t].i
         /\ thread'[t].todo = Tail(thread[t].todo)
BY DEF Continue, ThreadInv

\* A function that returns gives up its key.
LEMMA ReturnFields ==
  ASSUME NEW t \in Threads, NEW err, DOMAIN thread = Threads, ThreadInv(t),
         Return(t, err)
  PROVE  /\ DOMAIN thread' = Threads
         /\ \A u \in Threads \ {t} : thread'[u] = thread[u]
         /\ DOMAIN thread'[t] = {"call", "todo", "key", "i", "out", "err"}
         /\ thread'[t].key = PSA_KEY_HANDLE_INIT /\ thread'[t].i = thread[t].i
         /\ thread'[t].todo = <<>>
BY DEF Return, ThreadInv

\* A function that goes to its cleanup has its key yet.
LEMMA CleanupFields ==
  ASSUME NEW t \in Threads, DOMAIN thread = Threads, ThreadInv(t), Cleanup(t)
  PROVE  /\ DOMAIN thread' = Threads
         /\ \A u \in Threads \ {t} : thread'[u] = thread[u]
         /\ DOMAIN thread'[t] = {"call", "todo", "key", "i", "out", "err"}
         /\ thread'[t].key = thread[t].key /\ thread'[t].i = thread[t].i
         /\ thread'[t].todo = <<"destroy">>
BY DEF Cleanup, ThreadInv

\* After the return there is no key, in the cleanup there is one.
LEMMA EmptyTodo == <<>> \in Free /\ <<"destroy">> \in Holding
BY DEF Free, Holding

\* A call that fails, with or without a key.
\* TRY_EXPECT_PSA releases the key, or loses it.
LEMMA FailedEffect ==
  ASSUME KeyInv, NEW t \in Threads, TRY_EXPECT_PSA(t), build' = build
  PROVE  Effect(t)
<1> USE DEF KeyInv, TypeOK
<1>1. Return(t, Failure(t))
  BY DEF TRY_EXPECT_PSA
<1>2. ThreadInv(t)' /\ thread'[t].i \in Nat
  BY <1>1, ReturnFields, EmptyTodo DEF ThreadInv
<1>3. Release(t) \/ Lose(t)
  BY <1>1, ReturnFields DEF TRY_EXPECT_PSA, psa_destroy_key, Release, Lose
<1> QED
  BY <1>1, <1>2, <1>3, ReturnFields DEF Effect

\* A call that succeeds and neither imports nor destroys.
\* A call that only goes on keeps the key.
LEMMA ContinuedEffect ==
  ASSUME KeyInv, NEW t \in Threads, thread[t].todo # <<>>,
         Head(thread[t].todo) \notin {"import", "destroy"}, Continue(t),
         UNCHANGED <<build, keys, lost>>
  PROVE  Effect(t)
<1> USE DEF KeyInv, TypeOK
<1>1. ThreadInv(t)' /\ thread'[t].i \in Nat
  BY ContinueFields, TodoHolding, TodoFree DEF ThreadInv
<1>2. Keep(t)
  BY ContinueFields DEF Keep
<1> QED
  BY <1>1, <1>2, ContinueFields DEF Effect

\* An import takes a free slot, or fails.
LEMMA ImportEffect ==
  ASSUME KeyInv, NEW t \in Threads, ImportKey(t)
  PROVE  Effect(t)
<1> USE DEF KeyInv, TypeOK
<1>1. thread[t].todo \in Free /\ thread[t].key = PSA_KEY_HANDLE_INIT
  BY TodoHolding DEF ImportKey, At, ThreadInv
<1>2. CASE TRY_EXPECT_PSA(t)
  BY <1>2, FailedEffect DEF ImportKey
<1>3. ASSUME NEW s \in FreeSlot, keys' = keys \cup {s},
             thread' = [thread EXCEPT ![t].todo = Tail(@), ![t].key = s],
             UNCHANGED <<lost, refused>>
      PROVE  Effect(t)
  <2>1. s \in (1 .. Slots) \ keys
    BY <1>3 DEF FreeSlot
  <2>2. /\ DOMAIN thread' = Threads
        /\ \A u \in Threads \ {t} : thread'[u] = thread[u]
        /\ DOMAIN thread'[t] = {"call", "todo", "key", "i", "out", "err"}
        /\ thread'[t].key = s /\ thread'[t].i = thread[t].i
        /\ thread'[t].todo = Tail(thread[t].todo)
    BY <1>3 DEF ThreadInv
  <2>3. thread'[t].todo \in Holding
    BY <1>1, <2>2, TodoFree DEF ImportKey, At
  <2>4. s # PSA_KEY_HANDLE_INIT
    BY <2>1, CryptoAssumption DEF PSA_KEY_HANDLE_INIT
  <2>5. Take(t)
    BY <1>1, <1>3, <2>1, <2>2 DEF Take
  <2> QED
    BY <2>2, <2>3, <2>4, <2>5 DEF Effect, ThreadInv, ImportKey
<1> QED
  BY <1>2, <1>3 DEF ImportKey

\* A use of the key keeps it, or fails and releases it.
LEMMA UseEffect ==
  ASSUME KeyInv, NEW t \in Threads, UseKey(t)
  PROVE  Effect(t)
BY ContinuedEffect, FailedEffect DEF UseKey, At

\* psa_verify_message keeps the key whatever it says of the signature.
LEMMA VerifyEffect ==
  ASSUME KeyInv, NEW t \in Threads, VerifyMessage(t)
  PROVE  Effect(t)
BY ContinuedEffect DEF VerifyMessage, At

\* psa_destroy_key releases the key, or loses it.
LEMMA DestroyEffect ==
  ASSUME KeyInv, NEW t \in Threads, DestroyKey(t)
  PROVE  Effect(t)
<1> USE DEF KeyInv, TypeOK
<1>1. thread[t].todo \in Holding /\ thread[t].key # PSA_KEY_HANDLE_INIT
  BY TodoFree DEF DestroyKey, At, ThreadInv
<1>2. CASE /\ keys' = keys \ {thread[t].key} /\ UNCHANGED lost
           /\ thread' = [thread EXCEPT ![t].todo = Tail(@),
                                       ![t].key = PSA_KEY_HANDLE_INIT]
  <2>1. /\ DOMAIN thread' = Threads
        /\ \A u \in Threads \ {t} : thread'[u] = thread[u]
        /\ DOMAIN thread'[t] = {"call", "todo", "key", "i", "out", "err"}
        /\ thread'[t].key = PSA_KEY_HANDLE_INIT /\ thread'[t].i = thread[t].i
        /\ thread'[t].todo = Tail(thread[t].todo)
    BY <1>2 DEF ThreadInv
  <2>2. thread'[t].todo \in Free
    BY <1>1, <2>1, TodoHolding DEF DestroyKey, At
  <2> QED
    BY <1>2, <2>1, <2>2 DEF Effect, ThreadInv, Release, DestroyKey
<1>3. CASE /\ lost' = lost \cup {thread[t].key} /\ UNCHANGED keys
           /\ Return(t, "unexpected_result_from_ext_lib")
  <2>1. ThreadInv(t)' /\ thread'[t].i \in Nat
    BY <1>3, ReturnFields, EmptyTodo DEF ThreadInv
  <2>2. Lose(t)
    BY <1>1, <1>3, ReturnFields DEF Lose
  <2> QED
    BY <1>3, <2>1, <2>2, ReturnFields DEF Effect, DestroyKey
<1> QED
  BY <1>2, <1>3 DEF DestroyKey

\* shared_secret_derive keeps its key up to the cleanup.
LEMMA AgreementEffect ==
  ASSUME KeyInv, NEW t \in Threads, Agreement(t)
  PROVE  Effect(t)
<1> USE DEF KeyInv, TypeOK
<1>1. /\ thread[t].todo # <<>>
      /\ Head(thread[t].todo) \in {"load", "decompress", "agree"}
      /\ UNCHANGED <<build, keys, lost>>
  BY DEF Agreement, At
<1>2. thread[t].todo \in Holding /\ thread[t].key # PSA_KEY_HANDLE_INIT
  BY <1>1, TodoFree DEF ThreadInv
<1>3. CASE Continue(t)
  BY <1>1, <1>3, ContinuedEffect
<1>4. CASE Cleanup(t)
  <2>1. ThreadInv(t)' /\ thread'[t].i \in Nat
    BY <1>2, <1>4, CleanupFields, EmptyTodo DEF ThreadInv
  <2>2. Keep(t)
    BY <1>1, <1>4, CleanupFields DEF Keep
  <2> QED
    BY <1>1, <1>4, <2>1, <2>2, CleanupFields DEF Effect
<1>5. ASSUME NEW out,
             thread' = [thread EXCEPT ![t].todo = Tail(@), ![t].out = out]
      PROVE  Effect(t)
  <2>1. /\ DOMAIN thread' = Threads
        /\ \A u \in Threads \ {t} : thread'[u] = thread[u]
        /\ DOMAIN thread'[t] = {"call", "todo", "key", "i", "out", "err"}
        /\ thread'[t].key = thread[t].key /\ thread'[t].i = thread[t].i
        /\ thread'[t].todo = Tail(thread[t].todo)
    BY <1>5 DEF ThreadInv
  <2>2. thread'[t].todo \in Holding
    BY <1>1, <1>2, <2>1, TodoHolding
  <2> QED
    BY <1>1, <1>2, <2>1, <2>2 DEF Effect, ThreadInv, Keep
<1> QED
  BY <1>3, <1>4, <1>5 DEF Agreement

\* The loop of hkdf_expand keeps the key, or fails and releases it.
LEMMA ExpandEffect ==
  ASSUME KeyInv, NEW t \in Threads, Expand(t)
  PROVE  Effect(t)
<1> USE DEF KeyInv, TypeOK
<1>1. CASE TRY_EXPECT_PSA(t)
  BY <1>1, FailedEffect DEF Expand
<1>2. CASE Continue(t) /\ UNCHANGED <<keys, lost>>
  BY <1>2, ContinuedEffect DEF Expand, At
<1>3. ASSUME NEW out,
             thread' = [thread EXCEPT ![t].i = NextI(@), ![t].out = out],
             UNCHANGED <<build, keys, lost>>
      PROVE  Effect(t)
  <2>1. /\ DOMAIN thread' = Threads
        /\ \A u \in Threads \ {t} : thread'[u] = thread[u]
        /\ DOMAIN thread'[t] = {"call", "todo", "key", "i", "out", "err"}
        /\ thread'[t].key = thread[t].key /\ thread'[t].i = NextI(thread[t].i)
        /\ thread'[t].todo = thread[t].todo
    BY <1>3 DEF ThreadInv
  <2>2. NextI(thread[t].i) \in Nat
    BY CryptoAssumption DEF NextI
  <2> QED
    BY <1>3, <2>1, <2>2 DEF Effect, ThreadInv, Keep
<1> QED
  BY <1>1, <1>2, <1>3 DEF Expand

\* A call without a key touches none.
LEMMA KeylessEffect ==
  ASSUME KeyInv, NEW t \in Threads, Keyless(t)
  PROVE  Effect(t)
<1> USE DEF KeyInv, TypeOK
<1>1. thread[t].key = PSA_KEY_HANDLE_INIT
  BY TodoHolding DEF Keyless, At, ThreadInv
<1>2. CASE Continue(t)
  BY <1>2, ContinuedEffect DEF Keyless, At
<1>3. ASSUME NEW err, Return(t, err) PROVE Effect(t)
  <2>1. ThreadInv(t)' /\ thread'[t].i \in Nat
    BY <1>3, ReturnFields, EmptyTodo DEF ThreadInv
  <2>2. Keep(t)
    BY <1>1, <1>3, ReturnFields DEF Keep, Keyless
  <2> QED
    BY <1>3, <2>1, <2>2, ReturnFields DEF Effect, Keyless
<1> QED
  BY <1>2, <1>3 DEF Keyless
\* A call starts without a key.
LEMMA CallEffect ==
  ASSUME KeyInv, NEW t \in Threads, NEW call \in Calls, Call(t, call)
  PROVE  Effect(t)
<1> USE DEF KeyInv, TypeOK
<1>1. thread[t].key = PSA_KEY_HANDLE_INIT
  BY TodoHolding DEF Call, Idle, ThreadInv
<1>2. /\ DOMAIN thread' = Threads
      /\ \A u \in Threads \ {t} : thread'[u] = thread[u]
      /\ DOMAIN thread'[t] = {"call", "todo", "key", "i", "out", "err"}
      /\ thread'[t].key = PSA_KEY_HANDLE_INIT /\ thread'[t].i = 1
      /\ thread'[t].todo = Steps(call)
  BY DEF Call
<1>3. Steps(call) \in Free
  BY FirstSteps
<1> QED
  BY <1>1, <1>2, <1>3 DEF Effect, ThreadInv, Keep, Call

\* What a step does to the slots keeps keys and threads together.
LEMMA EffectKeeps ==
  ASSUME KeyInv, NEW t \in Threads, Effect(t), refused' \in BOOLEAN
  PROVE  KeyInv'
<1> USE CryptoAssumption DEF PSA_KEY_HANDLE_INIT
<1>1. \A u \in Threads : ThreadInv(u)'
  BY DEF KeyInv, Effect, ThreadInv
<1>2. \A u \in Threads : thread'[u].key # 0 => ~Idle(u)'
  BY <1>1, TodoHolding DEF ThreadInv, Idle
<1>3. /\ DOMAIN thread' = Threads /\ build' \in Builds
      /\ \A u \in Threads \ {t} : thread'[u] = thread[u]
      /\ \A u \in Threads : thread'[u].i \in Nat
  BY DEF Effect, KeyInv, TypeOK
<1>4. /\ \A u \in Threads : thread[u].key # 0 => thread[u].key \in keys \ lost
      /\ \A u, v \in Threads : thread[u].key # 0 /\ u # v =>
                                 thread[v].key # thread[u].key
      /\ \A s \in keys \ lost : \E u \in Threads : thread[u].key = s
      /\ \A u \in Threads : thread[u].key \in 0 .. Slots
      /\ keys \subseteq 1 .. Slots /\ lost \subseteq keys
  BY DEF KeyInv, TypeOK, KeysApart, NoKeyLeft
<1>5. /\ \A u \in Threads : thread'[u].key # 0 => thread'[u].key \in keys' \ lost'
      /\ \A u, v \in Threads : thread'[u].key # 0 /\ u # v =>
                                 thread'[v].key # thread'[u].key
      /\ \A s \in keys' \ lost' : \E u \in Threads : thread'[u].key = s
      /\ \A u \in Threads : thread'[u].key \in 0 .. Slots
      /\ keys' \subseteq 1 .. Slots /\ lost' \subseteq keys'
  <2>1. CASE Take(t)
    <3>1. \A u \in Threads :
            thread'[u].key # 0 => thread'[u].key \in keys' \ lost'
      BY <1>3, <1>4, <2>1 DEF Take
    <3>2. \A u, v \in Threads : thread'[u].key # 0 /\ u # v =>
                                  thread'[v].key # thread'[u].key
      BY <1>3, <1>4, <2>1 DEF Take
    <3>3. ASSUME NEW s \in keys' \ lost'
          PROVE  \E u \in Threads : thread'[u].key = s
      <4>1. CASE s \in keys \ lost
        <5>1. PICK u \in Threads : thread[u].key = s
          BY <1>4, <4>1
        <5>2. u # t /\ thread'[u] = thread[u]
          BY <1>3, <1>4, <2>1, <4>1, <5>1 DEF Take
        <5> QED
          BY <5>1, <5>2
      <4>2. CASE thread'[t].key = s
        BY <4>2
      <4> QED
        BY <2>1, <4>1, <4>2 DEF Take
    <3>4. /\ \A u \in Threads : thread'[u].key \in 0 .. Slots
          /\ keys' \subseteq 1 .. Slots /\ lost' \subseteq keys'
      BY <1>3, <1>4, <2>1 DEF Take
    <3> QED
      BY <3>1, <3>2, <3>3, <3>4
  <2>2. CASE Keep(t)
    BY <1>3, <1>4, <2>2 DEF Keep
  <2>3. CASE Release(t)
    <3>1. \A u \in Threads :
            thread'[u].key # 0 => thread'[u].key \in keys' \ lost'
      BY <1>3, <1>4, <2>3 DEF Release
    <3>2. \A u, v \in Threads : thread'[u].key # 0 /\ u # v =>
                                  thread'[v].key # thread'[u].key
      BY <1>3, <1>4, <2>3 DEF Release
    <3>3. ASSUME NEW s \in keys' \ lost'
          PROVE  \E u \in Threads : thread'[u].key = s
      <4>1. s \in keys \ lost /\ s # thread[t].key
        BY <1>4, <2>3 DEF Release
      <4>2. PICK u \in Threads : thread[u].key = s
        BY <1>4, <4>1
      <4> QED
        BY <1>3, <4>1, <4>2
    <3>4. /\ \A u \in Threads : thread'[u].key \in 0 .. Slots
          /\ keys' \subseteq 1 .. Slots /\ lost' \subseteq keys'
      <4>1. thread[t].key \notin lost
        BY <1>4
      <4>2. keys' \subseteq 1 .. Slots /\ lost' \subseteq keys'
        BY <1>4, <2>3, <4>1 DEF Release
      <4>3. ASSUME NEW u \in Threads PROVE thread'[u].key \in 0 .. Slots
        <5>1. thread'[u].key = 0 \/ thread'[u].key = thread[u].key
          BY <1>3, <2>3 DEF Release
        <5> QED
          BY <1>4, <5>1
      <4> QED
        BY <4>2, <4>3
    <3> QED
      BY <3>1, <3>2, <3>3, <3>4
  <2>4. CASE Lose(t)
    <3>1. \A u \in Threads :
            thread'[u].key # 0 => thread'[u].key \in keys' \ lost'
      BY <1>3, <1>4, <2>4 DEF Lose
    <3>2. \A u, v \in Threads : thread'[u].key # 0 /\ u # v =>
                                  thread'[v].key # thread'[u].key
      BY <1>3, <1>4, <2>4 DEF Lose
    <3>3. ASSUME NEW s \in keys' \ lost'
          PROVE  \E u \in Threads : thread'[u].key = s
      <4>1. s \in keys \ lost /\ s # thread[t].key
        BY <1>4, <2>4 DEF Lose
      <4>2. PICK u \in Threads : thread[u].key = s
        BY <1>4, <4>1
      <4> QED
        BY <1>3, <4>1, <4>2
    <3>4. /\ \A u \in Threads : thread'[u].key \in 0 .. Slots
          /\ keys' \subseteq 1 .. Slots /\ lost' \subseteq keys'
      <4>1. thread[t].key # 0 => thread[t].key \in keys
        BY <1>4
      <4>2. keys' \subseteq 1 .. Slots /\ lost' \subseteq keys'
        BY <1>4, <2>4, <4>1 DEF Lose
      <4>3. ASSUME NEW u \in Threads PROVE thread'[u].key \in 0 .. Slots
        <5>1. thread'[u].key = 0 \/ thread'[u].key = thread[u].key
          BY <1>3, <2>4 DEF Lose
        <5> QED
          BY <1>4, <5>1
      <4> QED
        BY <4>2, <4>3
    <3> QED
      BY <3>1, <3>2, <3>3, <3>4
  <2> QED
    BY <2>1, <2>2, <2>3, <2>4 DEF Effect
<1>6. \A s \in keys' : s # 0
  BY <1>5
<1> QED
  BY <1>1, <1>2, <1>3, <1>5, <1>6 DEF KeyInv, TypeOK, KeysApart, NoKeyLeft

\* No thread has a key at first.
LEMMA KeyInit == Init => KeyInv
<1> SUFFICES ASSUME Init PROVE KeyInv
  OBVIOUS
<1>1. /\ DOMAIN thread = Threads /\ keys = {} /\ lost = {}
      /\ \A t \in Threads :
           /\ DOMAIN thread[t] = {"call", "todo", "key", "i", "out", "err"}
           /\ thread[t].key = 0 /\ thread[t].todo = <<>> /\ thread[t].i = 1
  BY DEF Init, PSA_KEY_HANDLE_INIT
<1>2. TypeOK
  <2>1. build \in Builds /\ refused \in BOOLEAN
    BY DEF Init
  <2>2. \A t \in Threads : thread[t].key \in 0 .. Slots /\ thread[t].i \in Nat
    BY <1>1, CryptoAssumption
  <2> QED
    BY <1>1, <2>1, <2>2 DEF TypeOK
<1>3. \A t \in Threads : ThreadInv(t)
  BY <1>1, EmptyTodo DEF ThreadInv, PSA_KEY_HANDLE_INIT
<1> QED
  BY <1>1, <1>2, <1>3 DEF KeyInv, KeysApart, NoKeyLeft, PSA_KEY_HANDLE_INIT

\* Every step takes, keeps, releases or loses the thread's own key.
LEMMA StepEffect ==
  ASSUME KeyInv, NEW t \in Threads, Step(t)
  PROVE  Effect(t) /\ refused' \in BOOLEAN
<1>1. Effect(t)
  BY ImportEffect, UseEffect, VerifyEffect, AgreementEffect, ExpandEffect,
     DestroyEffect, KeylessEffect DEF Step
<1>2. refused' \in BOOLEAN
  BY DEF KeyInv, TypeOK, Step, ImportKey, UseKey, VerifyMessage, Agreement,
         Expand, DestroyKey, Keyless
<1> QED
  BY <1>1, <1>2

\* Every step and every call keep the invariant of the slots.
LEMMA KeyNext == KeyInv /\ [Next]_cryptoVars => KeyInv'
<1> SUFFICES ASSUME KeyInv, [Next]_cryptoVars PROVE KeyInv'
  OBVIOUS
<1>1. CASE UNCHANGED cryptoVars
  BY <1>1 DEF cryptoVars, KeyInv, TypeOK, KeysApart, NoKeyLeft, ThreadInv, Idle
<1>2. ASSUME NEW t \in Threads, Step(t) PROVE KeyInv'
  BY <1>2, StepEffect, EffectKeeps
<1>3. ASSUME NEW t \in Threads, NEW call \in Calls, Call(t, call) PROVE KeyInv'
  <2>1. refused' \in BOOLEAN
    BY <1>3 DEF Call, KeyInv, TypeOK
  <2> QED
    BY <1>3, <2>1, CallEffect, EffectKeeps
<1> QED
  BY <1>1, <1>2, <1>3 DEF Next

\* The strengthened invariant of the key slots: what crypto_wrapper.c has yet
\* to call tells whether it holds a key.
THEOREM KeyInvariant == Spec => []KeyInv
BY KeyInit, KeyNext, PTL DEF Spec

\* Shape of the state of the crypto wrapper.
THEOREM CryptoTypeCorrect == Spec => []TypeOK
BY KeyInvariant, PTL DEF KeyInv

\* A key is there as long as its call of crypto_wrapper.c uses it, and is no
\* other thread's, for any number of threads and slots.
THEOREM KeysApartTheorem == Spec => []KeysApart
BY KeyInvariant, PTL DEF KeyInv

\* Whatever call of the PSA library fails, TRY_EXPECT_PSA and the cleanup leave
\* no key behind, unless psa_destroy_key itself fails.
THEOREM NoKeyLeftTheorem == Spec => []NoKeyLeft
BY KeyInvariant, PTL DEF KeyInv
\* When the slots are full, a thread without a key is one of more threads than
\* there are slots left.
LEMMA FullSlots ==
  ASSUME KeyInv, NEW t \in Threads, thread[t].key = 0, keys = 1 .. Slots
  PROVE  Slots < Cardinality(lost) + Cardinality(Threads)
<1> DEFINE Holders == {u \in Threads : thread[u].key # 0}
           f == [u \in Holders |-> thread[u].key]
<1>1. /\ IsFiniteSet(Threads \ {t})
      /\ Cardinality(Threads \ {t}) = Cardinality(Threads) - 1
      /\ Cardinality(Threads) \in Nat
  BY CryptoAssumption, FS_RemoveElement, FS_CardinalityType
<1>2. /\ IsFiniteSet(Holders)
      /\ Cardinality(Holders) <= Cardinality(Threads) - 1
  <2>1. Holders \in SUBSET (Threads \ {t})
    OBVIOUS
  <2> QED
    BY <1>1, <2>1, FS_Subset
<1>3. IsFiniteSet(keys) /\ Cardinality(keys) = Slots
  BY CryptoAssumption, FS_Interval
<1>4. IsFiniteSet(lost) /\ Cardinality(lost) \in Nat
  <2>1. lost \in SUBSET keys
    BY DEF KeyInv, TypeOK
  <2> QED
    BY <1>3, <2>1, FS_Subset, FS_CardinalityType
<1>5. /\ IsFiniteSet(keys \ lost)
      /\ Cardinality(keys \ lost) = Slots - Cardinality(lost)
  <2>1. keys \cap lost = lost
    BY DEF KeyInv, TypeOK
  <2>2. /\ IsFiniteSet(keys \ lost)
        /\ Cardinality(keys \ lost) =
             Cardinality(keys) - Cardinality(keys \cap lost)
    BY <1>3, FS_Difference
  <2> QED
    BY <1>3, <2>1, <2>2
<1>6. f \in Surjection(Holders, keys \ lost)
  <2>1. f \in [Holders -> keys \ lost]
    BY DEF KeyInv, KeysApart, PSA_KEY_HANDLE_INIT
  <2>2. ASSUME NEW s \in keys \ lost PROVE \E u \in Holders : f[u] = s
    <3>1. PICK u \in Threads : thread[u].key = s
      BY DEF KeyInv, NoKeyLeft
    <3>2. s # 0
      BY CryptoAssumption DEF KeyInv, TypeOK
    <3> QED
      BY <3>1, <3>2
  <2> QED
    BY <2>1, <2>2 DEF Surjection
<1>7. Cardinality(keys \ lost) <= Cardinality(Holders)
  <2> HIDE DEF Holders, f
  <2> QED
    BY <1>2, <1>6, FS_Surjection
<1>8. Cardinality(Holders) \in Nat
  BY <1>2, FS_CardinalityType
<1> HIDE DEF Holders
<1> QED
  BY <1>1, <1>2, <1>4, <1>5, <1>7, <1>8, CryptoAssumption

\* The number of lost keys never shrinks.
LEMMA LostGrows ==
  ASSUME KeyInv, KeyInv', lost \subseteq lost'
  PROVE  /\ Cardinality(lost) \in Nat /\ Cardinality(lost') \in Nat
         /\ Cardinality(lost) <= Cardinality(lost')
<1>1. IsFiniteSet(1 .. Slots)
  BY CryptoAssumption, FS_Interval
<1>2. lost \in SUBSET (1 .. Slots) /\ lost' \in SUBSET (1 .. Slots)
  BY DEF KeyInv, TypeOK
<1>3. IsFiniteSet(lost) /\ IsFiniteSet(lost')
  BY <1>1, <1>2, FS_Subset
<1> QED
  BY <1>3, FS_Subset, FS_CardinalityType

\* An import is refused only when lost keys and other threads fill the slots.
LEMMA SlotsStep ==
  ASSUME KeyInv, KeyInv', SlotsSuffice, [Next]_cryptoVars
  PROVE  SlotsSuffice'
<1>1. lost \subseteq lost' /\ Cardinality(Threads) \in Nat
  <2>1. Cardinality(Threads) \in Nat
    BY CryptoAssumption, FS_CardinalityType
  <2>2. ASSUME NEW t \in Threads, Effect(t) PROVE lost \subseteq lost'
    BY <2>2 DEF Effect, Take, Keep, Release, Lose
  <2> QED
    BY <2>1, <2>2, StepEffect, CallEffect DEF Next, cryptoVars
<1>2. CASE refused' = refused
  BY <1>1, <1>2, LostGrows, CryptoAssumption DEF SlotsSuffice
<1>3. ASSUME NEW t \in Threads, ImportKey(t), keys = 1 .. Slots
      PROVE  SlotsSuffice'
  <2>1. thread[t].key = 0
    BY <1>3, TodoHolding
       DEF ImportKey, At, KeyInv, ThreadInv, PSA_KEY_HANDLE_INIT
  <2>2. Slots < Cardinality(lost) + Cardinality(Threads)
    BY <1>3, <2>1, FullSlots
  <2> QED
    BY <1>1, <2>2, LostGrows, CryptoAssumption DEF SlotsSuffice
<1>4. ASSUME NEW t \in Threads, ImportKey(t), keys # 1 .. Slots
      PROVE  refused' = refused
  <2>1. refused' = refused \/ refused' = (refused \/ FALSE)
    BY <1>4 DEF ImportKey
  <2> QED
    BY <2>1 DEF KeyInv, TypeOK
<1>5. ASSUME NEW t \in Threads, Step(t), ~ImportKey(t)
      PROVE  refused' = refused
  BY <1>5 DEF Step, UseKey, VerifyMessage, Agreement, Expand, DestroyKey, Keyless
<1>6. \/ refused' = refused
      \/ \E t \in Threads : ImportKey(t) /\ keys = 1 .. Slots
  BY <1>4, <1>5 DEF Next, cryptoVars, Call
<1> QED
  BY <1>2, <1>3, <1>6

\* One slot for each thread of crypto_wrapper.c is enough, but for the slots of
\* keys that could not be destroyed.
THEOREM SlotsSufficeTheorem == Spec => []SlotsSuffice
<1>1. Init => KeyInv /\ SlotsSuffice
  BY KeyInit DEF Init, SlotsSuffice
<1>2. KeyInv /\ SlotsSuffice /\ [Next]_cryptoVars => (KeyInv /\ SlotsSuffice)'
  BY KeyNext, SlotsStep
<1> QED
  BY <1>1, <1>2, PTL DEF Spec

-----------------------------------------------------------------------------
(* HKDF-Expand and the agreement: what the calls compute                   *)

\* What is to be done before and in the loop of hkdf_expand.
Expanding ==
  { <<"import", "use", "destroy", "import", "check", "expand", "destroy">>,
    <<"use", "destroy", "import", "check", "expand", "destroy">>,
    <<"destroy", "import", "check", "expand", "destroy">>,
    <<"import", "check", "expand", "destroy">>,
    <<"check", "expand", "destroy">>,
    <<"expand", "destroy">>,
    <<"call", "expand">>,
    <<"expand">> }

\* And when the output is too long.
Refusing ==
  { <<"import", "use", "destroy", "hkdf_fialed">>,
    <<"use", "destroy", "hkdf_fialed">>,
    <<"destroy", "hkdf_fialed">>,
    <<"call", "hkdf_fialed">>,
    <<"hkdf_fialed">> }

\* What is to be done before the agreement.
Agreeing ==
  { <<"import", "load", "decompress", "agree", "destroy">>,
    <<"load", "decompress", "agree", "destroy">>,
    <<"decompress", "agree", "destroy">>,
    <<"agree", "destroy">> }

\* The bytes of the blocks before block i are those of RFC 5869.
Written(out_len, i, out) ==
  /\ out = [j \in 1 .. out_len |-> out[j]]
  /\ \A j \in 1 .. out_len :
       j <= (i - 1) * HashLen => out[j] = Expanded(out_len)[j]

\* A thread in hkdf_expand or hkdf_sha_256.  The counter is 0 when it has
\* wrapped around.
HkdfInv(th) ==
  th.call.f \in {"hkdf_expand", "hkdf_sha_256"} =>
    /\ th.call.out_len \in Nat
    /\ \/ th.err # "ok" /\ th.todo = <<>>
       \/ th.todo \in Refusing
       \/ /\ th.todo \in Expanding
          /\ Iterations(th.call.out_len) <= MaxIterations
          /\ \/ th.i = 0
             \/ th.i > 0 /\ Written(th.call.out_len, th.i, th.out)
       \/ /\ th.todo \in {<<>>, <<"destroy">>}
          /\ th.out = Expanded(th.call.out_len)

\* A thread in shared_secret_derive.
AgreementInv(th) ==
  th.call.f = "shared_secret_derive" =>
    /\ th.call.sk \in PrivateKeys /\ th.call.peer \in PrivateKeys
    /\ \/ th.todo \in Agreeing
       \/ th.todo \in {<<>>, <<"destroy">>} /\ th.err # "ok"
       \/ /\ th.todo \in {<<>>, <<"destroy">>} /\ th.call.form # "bad"
          /\ th.out = AgreedSecret(th.call.sk, PublicKey(th.call))
    /\ th.todo = <<"agree", "destroy">> => th.call.form # "bad"

OutputInv ==
  /\ \A t \in Threads : HkdfInv(thread[t])
  /\ build = "MBEDTLS" => \A t \in Threads : AgreementInv(thread[t])

\* Quotient and remainder are unique.
LEMMA DivUnique ==
  ASSUME NEW h \in Nat \ {0}, NEW k \in Int, NEW r \in 0 .. h - 1,
         NEW x \in Int, x = k * h + r
  PROVE  x \div h = k /\ x % h = r
<1> DEFINE d == x \div h
           m == x % h
<1>1. d \in Int /\ m \in 0 .. h - 1
  OBVIOUS
<1>2. x = d * h + m
  BY Z3
<1> HIDE DEF d, m
<1>3. \A y \in Int : y >= 1 => y * h >= h
  OBVIOUS
<1>4. (k - d) * h = m - r /\ (d - k) * h = r - m
  BY <1>1, <1>2
<1>5. ~(k - d >= 1)
  BY <1>1, <1>3, <1>4
<1>6. ~(d - k >= 1)
  BY <1>1, <1>3, <1>4
<1>7. d = k
  BY <1>1, <1>5, <1>6
<1>8. m = r
  BY <1>1, <1>2, <1>7
<1> QED BY <1>7, <1>8 DEF d, m

\* The number of blocks: all of them hold the output, and none begins after it.
LEMMA IterationsFacts ==
  ASSUME NEW out_len \in Nat
  PROVE  /\ Iterations(out_len) \in Nat
         /\ \A i \in Nat : i >= Iterations(out_len) => out_len <= i * HashLen
         /\ \A i \in 1 .. Iterations(out_len) : (i - 1) * HashLen < out_len
<1> DEFINE h == HashLen
           x == out_len + h - 1
           n == x \div h
           m == x % h
<1>1. h \in Nat /\ h > 0
  BY CryptoAssumption
<1>2. n = Iterations(out_len)
  BY DEF Iterations
<1> HIDE DEF h
<1>3. x \in Nat
  BY <1>1
<1>4. n \in Nat /\ m \in 0 .. h - 1
  BY <1>1, <1>3
<1>5. x = n * h + m
  <2> HIDE DEF x
  <2> QED BY <1>1, <1>3, Z3
<1> HIDE DEF n, m
<1>6. n * h >= out_len /\ (n - 1) * h < out_len
  BY <1>1, <1>4, <1>5
<1>7. \A y, z \in Int : y <= z => y * h <= z * h
  BY <1>1
<1>8. \A i \in Nat : i >= n => out_len <= i * h
  BY <1>1, <1>4, <1>6, <1>7
<1>9. \A i \in 1 .. n : (i - 1) * h < out_len
  <2> SUFFICES ASSUME NEW i \in 1 .. n PROVE (i - 1) * h < out_len
    OBVIOUS
  <2>1. (i - 1) * h <= (n - 1) * h
    BY <1>4, <1>7
  <2> QED BY <1>1, <1>4, <1>6, <2>1
<1> QED BY <1>2, <1>4, <1>8, <1>9 DEF h

\* One turn of the loop writes the next block and leaves those before it.
LEMMA BlockWritten ==
  ASSUME NEW out_len \in Nat, NEW i \in 1 .. Iterations(out_len), NEW out,
         Written(out_len, i, out)
  PROVE  Written(out_len, i + 1, ExpandBlock(out, out_len, i))
<1> DEFINE h == HashLen
           p == (i - 1) * h
           next == ExpandBlock(out, out_len, i)
<1>1. h \in Nat /\ h > 0 /\ Iterations(out_len) \in Nat
  BY CryptoAssumption, IterationsFacts
<1>2. i \in Nat /\ i >= 1 /\ p \in Nat /\ i * h = p + h
      /\ (i + 1 - 1) * h = p + h
  BY <1>1
<1>3. p < out_len
  BY IterationsFacts
<1>4. next = [j \in 1 .. out_len |-> next[j]]
  BY DEF ExpandBlock
<1>5. ASSUME NEW j \in 1 .. out_len, j <= p + h
      PROVE  next[j] = Expanded(out_len)[j]
  <2>1. next[j] = IF j - p \in 1 .. BlockLen(out_len, i)
                  THEN <<T([k \in 1 .. i |-> k]), j - p>> ELSE out[j]
    BY DEF ExpandBlock
  <2>2. Expanded(out_len)[j] =
          <<[k \in 1 .. (j - 1) \div h + 1 |-> k],
            j - (((j - 1) \div h + 1) - 1) * h>>
    BY Zenon DEF Expanded
  <2> HIDE DEF h, p, next
  <2>3. CASE j <= p
    <3>1. ~(j - p \in 1 .. BlockLen(out_len, i))
      BY <1>2, <2>3
    <3>2. out[j] = Expanded(out_len)[j]
      BY <2>3 DEF Written, p, h
    <3> QED BY <2>1, <3>1, <3>2
  <2>4. CASE j > p
    <3>1. (j - 1) \div h = i - 1
      <4>1. j - 1 = (i - 1) * h + (j - 1 - p) /\ j - 1 - p \in 0 .. h - 1
        BY <1>1, <1>2, <1>5, <2>4 DEF p
      <4> QED BY <1>1, <1>2, <4>1, DivUnique
    <3>2. j - p \in 1 .. BlockLen(out_len, i)
      <4>1. CASE out_len < p + h
        <5>1. out_len = (i - 1) * h + (out_len - p)
              /\ out_len - p \in 0 .. h - 1
          BY <1>1, <1>2, <1>3, <4>1 DEF p
        <5>2. out_len % h = out_len - p
          <6>1. \A r \in 0 .. h - 1, x \in Int :
                  x = (i - 1) * h + r => x % h = r
            BY <1>1, <1>2, DivUnique
          <6> QED BY <5>1, <6>1
        <5>3. BlockLen(out_len, i) = out_len - p
          BY <1>2, <4>1, <5>2 DEF BlockLen, h
        <5> QED BY <1>2, <2>4, <5>3
      <4>2. CASE ~(out_len < p + h)
        <5>1. BlockLen(out_len, i) = h
          BY <1>2, <4>2 DEF BlockLen, h
        <5> QED BY <1>1, <1>2, <1>5, <2>4, <5>1
      <4> QED BY <4>1, <4>2
    <3>3. (i - 1) + 1 = i /\ j - (((i - 1) + 1) - 1) * h = j - p
      BY <1>1, <1>2 DEF p
    <3> QED BY <2>1, <2>2, <3>1, <3>2, <3>3 DEF T
  <2> QED BY <1>2, <2>3, <2>4
<1> QED BY <1>2, <1>4, <1>5 DEF Written

\* After the last block the output is complete.
LEMMA AllWritten ==
  ASSUME NEW out_len \in Nat, NEW i \in Nat, i > Iterations(out_len), NEW out,
         Written(out_len, i, out)
  PROVE  out = Expanded(out_len)
<1>1. i - 1 \in Nat /\ i - 1 >= Iterations(out_len)
  BY IterationsFacts
<1>2. \A j \in 1 .. out_len : j <= (i - 1) * HashLen
  <2>1. out_len <= (i - 1) * HashLen /\ (i - 1) * HashLen \in Int
    BY <1>1, IterationsFacts, CryptoAssumption
  <2> QED BY <2>1
<1>3. out = [j \in 1 .. out_len |-> out[j]]
      /\ \A j \in 1 .. out_len : out[j] = Expanded(out_len)[j]
  BY <1>2 DEF Written
<1>4. Expanded(out_len) = [j \in 1 .. out_len |-> Expanded(out_len)[j]]
  BY DEF Expanded
<1> QED BY <1>3, <1>4

\* What is decompressed is the peer's point or its negative.
LEMMA Decompressed ==
  ASSUME NEW call, call.peer \in 1 .. Order - 1
  PROVE  mbedtls_ecp_decompress(PublicKey(call)) \in X(call.peer)
<1> DEFINE p == call.peer
           q == Negative(p)
           pk == PublicKey(call)
<1>1. Order \in Nat /\ Order > 2 /\ p \in 1 .. Order - 1
  BY CryptoAssumption
<1>2. q = Order - p /\ q \in 1 .. Order - 1
  <2> DEFINE h == Order
             r == Order - p
  <2>1. /\ h \in Nat \ {0} /\ r \in 0 .. h - 1
        /\ r \in Int /\ 0 \in Int /\ r = 0 * h + r
    BY <1>1
  <2>2. q = r % h
    BY DEF Negative
  <2>3. r \in 1 .. h - 1
    BY <1>1
  <2> HIDE DEF h, r, q, p
  <2>4. r % h = r
    BY <2>1, DivUnique
  <2> QED BY <2>2, <2>3, <2>4 DEF r, h
<1>3. p > Order \div 2 => ~(q > Order \div 2)
  <2> DEFINE o == Order \div 2
             m == Order % 2
  <2>1. o \in Nat /\ m \in 0 .. 1 /\ Order = o * 2 + m
    BY <1>1
  <2> HIDE DEF o, m, q, p
  <2>2. p > o => ~(q > o)
    BY <1>1, <1>2, <2>1
  <2> QED BY <2>2 DEF o
<1>4. pk[2] = {p, q}
  BY DEF PublicKey, Compressed, GeneratedPublicKey, X
<1>5. /\ pk[1] = 3 => OddY(p)
      /\ pk[1] = 2 \/ pk[1] = 3
  BY DEF PublicKey, Compressed, GeneratedPublicKey
<1>6. \E d \in pk[2] : OddY(d) <=> pk[1] = 3
  <2>1. CASE pk[1] = 3
    BY <1>4, <1>5, <2>1
  <2>2. CASE pk[1] = 2
    <3>1. ~OddY(p) \/ ~OddY(q)
      BY <1>3 DEF OddY
    <3> HIDE DEF pk, p, q
    <3> QED BY <1>4, <2>2, <3>1
  <2> QED BY <1>5, <2>1, <2>2
<1> HIDE DEF pk
<1>7. (CHOOSE d \in pk[2] : OddY(d) <=> pk[1] = 3) \in pk[2]
  BY <1>6
<1> QED BY <1>4, <1>7 DEF mbedtls_ecp_decompress, X, pk

\* A point and its negative have multiples with the same x.
LEMMA SameX ==
  ASSUME NEW s \in 1 .. Order - 1, NEW p \in 1 .. Order - 1, NEW d \in X(p)
  PROVE  X((s * d) % Order) = X((s * p) % Order)
<1> DEFINE n == Order
           q == (s * p) \div n
           r == (s * p) % n
<1>1. n \in Nat \ {0} /\ s \in Int /\ p \in Int /\ s * p \in Int
  BY CryptoAssumption
<1>2. q \in Int /\ r \in 0 .. n - 1
  BY <1>1
<1>3. s * p = q * n + r
  <2> HIDE DEF n
  <2> QED BY <1>1, Z3
<1> HIDE DEF q
<1>4. d = p \/ d = n - p
  <2> DEFINE h == n
             m == n - p
  <2>1. /\ h \in Nat \ {0} /\ m \in 0 .. h - 1
        /\ m \in Int /\ 0 \in Int /\ m = 0 * h + m
    BY <1>1
  <2>2. d = p \/ d = m % h
    BY DEF X, Negative
  <2> HIDE DEF h, m
  <2>3. m % h = m
    BY <2>1, DivUnique
  <2> QED BY <2>2, <2>3 DEF m
<1>5. CASE d = p
  BY <1>5
<1>6. CASE d = n - p
  <2> DEFINE v == IF r = 0 THEN 0 ELSE n - r
             k == IF r = 0 THEN s - q ELSE s - q - 1
  <2>1. s * d = k * n + v /\ v \in 0 .. n - 1 /\ k \in Int /\ s * d \in Int
    <3>1. s * d = s * n - s * p
      BY <1>1, <1>6
    <3>2. s * d = (s - q) * n - r
      BY <1>1, <1>2, <1>3, <3>1
    <3> HIDE DEF r, n
    <3>3. CASE r = 0
      BY <1>1, <1>2, <3>2, <3>3
    <3>4. CASE r # 0
      <4>1. k = s - q - 1 /\ v = n - r
        BY <3>4
      <4>2. (s - q - 1) * n + (n - r) = (s - q) * n - r
        BY <1>1, <1>2
      <4> QED BY <1>1, <1>2, <3>2, <3>4, <4>1, <4>2
    <3> QED BY <3>3, <3>4
  <2>2. (s * d) % n = v
    <3> HIDE DEF n, v, k
    <3>1. \A x, y \in Int, z \in 0 .. n - 1 : x = y * n + z => x % n = z
      BY <1>1, DivUnique
    <3> QED BY <2>1, <3>1
  <2>3. v = Negative(r)
    <3>1. CASE r = 0
      <4>1. n - 0 = 1 * n + 0 /\ 0 \in 0 .. n - 1 /\ 1 \in Int /\ n - 0 \in Int
        BY <1>1
      <4>2. (n - 0) % n = 0
        BY <1>1, <4>1, DivUnique
      <4> HIDE DEF r
      <4> QED BY <3>1, <4>2 DEF Negative
    <3>2. CASE r # 0
      <4> HIDE DEF r
      <4>1. n - r = 0 * n + (n - r) /\ n - r \in 0 .. n - 1 /\ 0 \in Int
            /\ n - r \in Int
        BY <1>1, <1>2, <3>2
      <4>2. (n - r) % n = n - r
        <5>1. \A x \in Int, z \in 0 .. n - 1 : x = 0 * n + z => x % n = z
          BY <1>1, DivUnique
        <5> QED BY <4>1, <5>1
      <4> QED BY <3>2, <4>2 DEF Negative
    <3> QED BY <3>1, <3>2
  <2>4. Negative(v) = r
    <3> HIDE DEF r
    <3>1. CASE r = 0
      <4>1. n - 0 = 1 * n + 0 /\ 0 \in 0 .. n - 1 /\ 1 \in Int /\ n - 0 \in Int
        BY <1>1
      <4>2. (n - 0) % n = 0
        BY <1>1, <4>1, DivUnique
      <4> QED BY <3>1, <4>2 DEF Negative
    <3>2. CASE r # 0
      <4>1. /\ n - (n - r) = r /\ r = 0 * n + r /\ r \in 0 .. n - 1
            /\ 0 \in Int /\ r \in Int
        BY <1>1, <1>2, <3>2
      <4>2. r % n = r
        <5>1. \A x \in Int, z \in 0 .. n - 1 : x = 0 * n + z => x % n = z
          BY <1>1, DivUnique
        <5> QED BY <4>1, <5>1
      <4> QED BY <3>2, <4>1, <4>2 DEF Negative
    <3> QED BY <3>1, <3>2
  <2> HIDE DEF v
  <2> QED BY <2>2, <2>3, <2>4 DEF X
<1> QED BY <1>4, <1>5, <1>6

\* Both sides compute the same x.
LEMMA SecretsEqual ==
  ASSUME NEW a, NEW b, a.sk \in 1 .. Order - 1, b.sk \in 1 .. Order - 1,
         a.sk = b.peer, b.sk = a.peer
  PROVE  AgreedSecret(a.sk, PublicKey(a)) = AgreedSecret(b.sk, PublicKey(b))
<1> DEFINE d == mbedtls_ecp_decompress(PublicKey(a))
           e == mbedtls_ecp_decompress(PublicKey(b))
<1>1. d \in X(a.peer) /\ e \in X(b.peer)
  BY Decompressed
<1> HIDE DEF d, e
<1>2. /\ X((a.sk * d) % Order) = X((a.sk * a.peer) % Order)
      /\ X((b.sk * e) % Order) = X((b.sk * b.peer) % Order)
  BY <1>1, SameX
<1>3. a.sk * a.peer = b.sk * b.peer
  BY CryptoAssumption
<1> QED BY <1>2, <1>3 DEF AgreedSecret, d, e

-----------------------------------------------------------------------------
(* The steps, as far as the outputs are concerned                          *)

\* A step that only goes on.
Passed(t) ==
  /\ thread'[t].todo = Tail(thread[t].todo) /\ thread'[t].call = thread[t].call
  /\ thread'[t].i = thread[t].i /\ thread'[t].out = thread[t].out
  /\ thread'[t].err = thread[t].err

\* A step after which the function returns an error, maybe after a cleanup.
Failed(t) ==
  /\ thread'[t].todo = <<>> /\ thread'[t].err # "ok"
  /\ thread'[t].call = thread[t].call

CleanedUp(t) ==
  /\ thread'[t].todo = <<"destroy">> /\ thread'[t].err # "ok"
  /\ thread'[t].call = thread[t].call
  /\ Head(thread[t].todo) \in {"load", "decompress", "agree"}

\* The next block of HKDF-Expand.
BlockStep(t) ==
  LET th == thread[t]
  IN  /\ Head(th.todo) = "expand" /\ th.i # 0
      /\ th.i <= Iterations(th.call.out_len)
      /\ thread'[t].todo = th.todo /\ thread'[t].call = th.call
      /\ thread'[t].err = th.err /\ thread'[t].i = NextI(th.i)
      /\ thread'[t].out = ExpandBlock(th.out, th.call.out_len, th.i)

\* The agreement itself.
AgreeStep(t) ==
  LET th == thread[t]
  IN  /\ Head(th.todo) = "agree"
      /\ thread'[t].todo = Tail(th.todo) /\ thread'[t].call = th.call
      /\ thread'[t].out = AgreedSecret(th.call.sk, PublicKey(th.call))

\* What a step with the result of which nothing goes wrong may rest on.
PassStep(t) ==
  /\ Passed(t)
  /\ LET th == thread[t]
     IN  /\ Head(th.todo) \in {"import", "use", "check", "status", "load",
                               "decompress", "expand", "destroy", "call"}
         /\ Head(th.todo) = "decompress" => th.call.form # "bad"
         /\ Head(th.todo) = "expand" =>
              th.i # 0 /\ ~(th.i <= Iterations(th.call.out_len))

\* Every step of a thread is one of these.
LEMMA StepKinds ==
  ASSUME KeyInv, NEW t \in Threads, Step(t)
  PROVE  /\ thread[t].todo # <<>> /\ build' = build
         /\ DOMAIN thread' = Threads
         /\ \A u \in Threads \ {t} : thread'[u] = thread[u]
         /\ \/ PassStep(t) \/ Failed(t) \/ CleanedUp(t) \/ BlockStep(t)
            \/ AgreeStep(t)
<1> USE DEF KeyInv, TypeOK, ThreadInv, At
<1>1. ASSUME Continue(t)
      PROVE  Passed(t) /\ DOMAIN thread' = Threads
             /\ \A u \in Threads \ {t} : thread'[u] = thread[u]
  BY <1>1 DEF Continue, Passed
<1>2. ASSUME NEW err, err # "ok", Return(t, err)
      PROVE  Failed(t) /\ DOMAIN thread' = Threads
             /\ \A u \in Threads \ {t} : thread'[u] = thread[u]
  BY <1>2 DEF Return, Failed
<1>3. ASSUME Cleanup(t), Head(thread[t].todo) \in {"load", "decompress", "agree"}
      PROVE  CleanedUp(t) /\ DOMAIN thread' = Threads
             /\ \A u \in Threads \ {t} : thread'[u] = thread[u]
  BY <1>3 DEF Cleanup, CleanedUp
<1>4. ASSUME TRY_EXPECT_PSA(t)
      PROVE  Failed(t) /\ DOMAIN thread' = Threads
             /\ \A u \in Threads \ {t} : thread'[u] = thread[u]
  BY <1>2, <1>4 DEF TRY_EXPECT_PSA, Failure
<1>5. CASE ImportKey(t)
  <2>1. ASSUME NEW s,
               thread' = [thread EXCEPT ![t].todo = Tail(@), ![t].key = s]
        PROVE  Passed(t) /\ DOMAIN thread' = Threads
               /\ \A u \in Threads \ {t} : thread'[u] = thread[u]
    BY <2>1 DEF Passed
  <2> QED BY <1>4, <1>5, <2>1 DEF ImportKey, PassStep
<1>6. CASE UseKey(t)
  BY <1>1, <1>4, <1>6 DEF UseKey, PassStep
<1>7. CASE VerifyMessage(t)
  BY <1>1, <1>7 DEF VerifyMessage, PassStep
<1>8. CASE Agreement(t)
  <2>1. ASSUME NEW out,
               thread' = [thread EXCEPT ![t].todo = Tail(@), ![t].out = out]
        PROVE  /\ thread'[t].todo = Tail(thread[t].todo)
               /\ thread'[t].call = thread[t].call /\ thread'[t].out = out
               /\ DOMAIN thread' = Threads
               /\ \A u \in Threads \ {t} : thread'[u] = thread[u]
    BY <2>1
  <2>2. CASE At(t, "load")
    BY <1>1, <1>3, <1>8, <2>2 DEF Agreement, PassStep
  <2>3. CASE At(t, "decompress")
    BY <1>1, <1>3, <1>8, <2>3 DEF Agreement, PassStep
  <2>4. CASE At(t, "agree")
    BY <1>3, <1>8, <2>1, <2>4 DEF Agreement, AgreeStep
  <2> QED BY <1>8, <2>2, <2>3, <2>4 DEF Agreement
<1>9. CASE Expand(t)
  <2>1. ASSUME NEW out,
               thread' = [thread EXCEPT ![t].i = NextI(@), ![t].out = out]
        PROVE  /\ thread'[t].todo = thread[t].todo
               /\ thread'[t].call = thread[t].call /\ thread'[t].out = out
               /\ thread'[t].err = thread[t].err
               /\ thread'[t].i = NextI(thread[t].i)
               /\ DOMAIN thread' = Threads
               /\ \A u \in Threads \ {t} : thread'[u] = thread[u]
    BY <2>1
  <2>2. CASE thread[t].i <= Iterations(thread[t].call.out_len)
    BY <1>4, <1>9, <2>1, <2>2 DEF Expand, BlockStep
  <2>3. CASE ~(thread[t].i <= Iterations(thread[t].call.out_len))
    BY <1>1, <1>9, <2>3 DEF Expand, PassStep
  <2> QED BY <2>2, <2>3
<1>10. CASE DestroyKey(t)
  <2>1. ASSUME thread' = [thread EXCEPT ![t].todo = Tail(@),
                                        ![t].key = PSA_KEY_HANDLE_INIT]
        PROVE  Passed(t) /\ DOMAIN thread' = Threads
               /\ \A u \in Threads \ {t} : thread'[u] = thread[u]
    BY <2>1 DEF Passed
  <2> QED BY <1>2, <1>10, <2>1 DEF DestroyKey, PassStep
<1>11. CASE Keyless(t)
  BY <1>1, <1>2, <1>11 DEF Keyless, PassStep
<1> QED BY <1>5, <1>6, <1>7, <1>8, <1>9, <1>10, <1>11 DEF Step

-----------------------------------------------------------------------------
(* The lists of OutputInv                                                  *)

\* hkdf_expand expands after its import and its test, and then destroys.
LEMMA ExpandingSteps ==
  ASSUME NEW todo \in Expanding
  PROVE  /\ Head(todo) \in {"import", "use", "destroy", "check", "call", "expand"}
         /\ Head(todo) # "expand" => Tail(todo) \in Expanding
         /\ Head(todo) = "expand" => Tail(todo) \in {<<>>, <<"destroy">>}
         /\ todo \notin Refusing /\ todo \notin {<<>>, <<"destroy">>}
<1>1. CASE todo = <<"import", "use", "destroy", "import", "check", "expand",
                  "destroy">>
  BY <1>1 DEF Expanding, Refusing
<1>2. CASE todo = <<"use", "destroy", "import", "check", "expand", "destroy">>
  BY <1>2 DEF Expanding, Refusing
<1>3. CASE todo = <<"destroy", "import", "check", "expand", "destroy">>
  BY <1>3 DEF Expanding, Refusing
<1>4. CASE todo = <<"import", "check", "expand", "destroy">>
  BY <1>4 DEF Expanding, Refusing
<1>5. CASE todo = <<"check", "expand", "destroy">>
  BY <1>5 DEF Expanding, Refusing
<1>6. CASE todo = <<"expand", "destroy">>
  BY <1>6 DEF Refusing
<1>7. CASE todo = <<"call", "expand">>
  BY <1>7 DEF Expanding, Refusing
<1>8. CASE todo = <<"expand">>
  BY <1>8 DEF Refusing
<1> QED
  BY <1>1, <1>2, <1>3, <1>4, <1>5, <1>6, <1>7, <1>8 DEF Expanding

\* Too long an output is refused in the end, whatever is called before.
LEMMA RefusingSteps ==
  ASSUME NEW todo \in Refusing
  PROVE  /\ Head(todo) \in {"import", "use", "destroy", "call", "hkdf_fialed"}
         /\ Head(todo) # "hkdf_fialed" => Tail(todo) \in Refusing
<1>1. CASE todo = <<"import", "use", "destroy", "hkdf_fialed">>
  BY <1>1 DEF Refusing
<1>2. CASE todo = <<"use", "destroy", "hkdf_fialed">>
  BY <1>2 DEF Refusing
<1>3. CASE todo = <<"destroy", "hkdf_fialed">>
  BY <1>3 DEF Refusing
<1>4. CASE todo = <<"call", "hkdf_fialed">>
  BY <1>4 DEF Refusing
<1>5. CASE todo = <<"hkdf_fialed">>
  BY <1>5
<1> QED
  BY <1>1, <1>2, <1>3, <1>4, <1>5 DEF Refusing

\* shared_secret_derive decompresses the peer's key and then agrees.
LEMMA AgreeingSteps ==
  ASSUME NEW todo \in Agreeing
  PROVE  /\ Head(todo) \in {"import", "load", "decompress", "agree"}
         /\ Head(todo) = "agree" =>
              /\ todo = <<"agree", "destroy">>
              /\ Tail(todo) = <<"destroy">>
         /\ Head(todo) # "agree" => Tail(todo) \in Agreeing
         /\ Tail(todo) = <<"agree", "destroy">> => Head(todo) = "decompress"
<1>1. CASE todo = <<"import", "load", "decompress", "agree", "destroy">>
  BY <1>1 DEF Agreeing
<1>2. CASE todo = <<"load", "decompress", "agree", "destroy">>
  BY <1>2 DEF Agreeing
<1>3. CASE todo = <<"decompress", "agree", "destroy">>
  BY <1>3 DEF Agreeing
<1>4. CASE todo = <<"agree", "destroy">>
  BY <1>4
<1> QED
  BY <1>1, <1>2, <1>3, <1>4 DEF Agreeing

\* The last call, and the lists that no longer change the output.
LEMMA LastStep ==
  /\ Head(<<"destroy">>) = "destroy" /\ Tail(<<"destroy">>) = <<>>
  /\ <<>> \notin Expanding /\ <<>> \notin Refusing /\ <<>> \notin Agreeing
BY DEF Expanding, Refusing, Agreeing

-----------------------------------------------------------------------------
(* OutputInv is inductive                                                  *)

\* Every step of a thread that is in hkdf_expand keeps its bytes right.
LEMMA HkdfKept ==
  ASSUME KeyInv, NEW t \in Threads, HkdfInv(thread[t]), thread[t].todo # <<>>,
         PassStep(t) \/ Failed(t) \/ CleanedUp(t) \/ BlockStep(t)
           \/ AgreeStep(t)
  PROVE  HkdfInv(thread'[t])
<1> DEFINE th == thread[t]
           to == thread'[t]
<1> SUFFICES HkdfInv(to)
  OBVIOUS
<1>1. th.i \in Nat
  BY DEF KeyInv, TypeOK
<1>2. to.call = th.call
  BY DEF PassStep, Passed, Failed, CleanedUp, BlockStep, AgreeStep
<1>3. CASE th.call.f \notin {"hkdf_expand", "hkdf_sha_256"}
  BY <1>2, <1>3 DEF HkdfInv
<1>4. CASE th.call.f \in {"hkdf_expand", "hkdf_sha_256"}
  <2> DEFINE len == th.call.out_len
  <2>1. len \in Nat
    BY <1>4 DEF HkdfInv
  <2>2. /\ th.todo = <<"destroy">> => Head(th.todo) = "destroy"
        /\ th.todo \in Expanding \cup Refusing \cup {<<"destroy">>}
    BY <1>4, LastStep DEF HkdfInv
  <2>3. Head(th.todo) \in {"import", "use", "destroy", "check", "call",
                           "expand", "hkdf_fialed"}
    BY <2>2, ExpandingSteps, RefusingSteps
  <2>4. CASE Failed(t)
    BY <1>2, <2>1, <2>4 DEF Failed, HkdfInv
  <2>5. CASE CleanedUp(t) \/ AgreeStep(t)
    BY <2>3, <2>5 DEF CleanedUp, AgreeStep
  <2>6. CASE PassStep(t)
    <3>1. /\ to.todo = Tail(th.todo) /\ to.i = th.i /\ to.out = th.out
          /\ Head(th.todo) # "hkdf_fialed"
          /\ Head(th.todo) = "expand" => th.i # 0 /\ ~(th.i <= Iterations(len))
      BY <2>6 DEF PassStep, Passed
    <3> HIDE DEF th, to, len
    <3>2. CASE th.todo \in Refusing
      <4>1. to.todo \in Refusing
        BY <3>1, <3>2, RefusingSteps
      <4> QED BY <1>2, <2>1, <4>1 DEF HkdfInv, len
    <3>3. CASE th.todo \in Expanding /\ Head(th.todo) # "expand"
      <4>1. to.todo \in Expanding
        BY <3>1, <3>3, ExpandingSteps
      <4>2. th.todo \notin Refusing /\ th.todo \notin {<<>>, <<"destroy">>}
        BY <3>3, ExpandingSteps
      <4>3. /\ Iterations(len) <= MaxIterations
            /\ th.i = 0 \/ (th.i > 0 /\ Written(len, th.i, th.out))
        BY <1>4, <4>2 DEF HkdfInv, len, th
      <4> QED BY <1>2, <2>1, <3>1, <4>1, <4>3 DEF HkdfInv, len
    <3>4. CASE th.todo \in Expanding /\ Head(th.todo) = "expand"
      <4>1. to.todo \in {<<>>, <<"destroy">>}
        BY <3>1, <3>4, ExpandingSteps
      <4>2. th.todo \notin Refusing /\ th.todo \notin {<<>>, <<"destroy">>}
        BY <3>4, ExpandingSteps
      <4>3. Written(len, th.i, th.out)
        BY <1>4, <3>1, <3>4, <4>2 DEF HkdfInv, len, th
      <4>4. th.i > Iterations(len)
        BY <1>1, <2>1, <3>1, <3>4, IterationsFacts DEF th
      <4>5. th.out = Expanded(len)
        BY <1>1, <2>1, <4>3, <4>4, AllWritten DEF th
      <4> QED BY <1>2, <2>1, <3>1, <4>1, <4>5 DEF HkdfInv, len
    <3>5. CASE th.todo = <<"destroy">>
      <4>1. to.todo = <<>>
        BY <3>1, <3>5, LastStep
      <4>2. th.todo \notin Refusing /\ th.todo \notin Expanding /\ th.todo # <<>>
        BY <3>5 DEF Expanding, Refusing
      <4>3. th.out = Expanded(len)
        BY <1>4, <4>2 DEF HkdfInv, len, th
      <4> QED BY <1>2, <2>1, <3>1, <4>1, <4>3 DEF HkdfInv, len
    <3> QED BY <2>2, <3>2, <3>3, <3>4, <3>5
  <2>7. CASE BlockStep(t)
    <3>1. /\ to.todo = th.todo /\ to.i = NextI(th.i)
          /\ to.out = ExpandBlock(th.out, len, th.i)
          /\ Head(th.todo) = "expand" /\ th.i # 0 /\ th.i <= Iterations(len)
      BY <2>7 DEF BlockStep
    <3> HIDE DEF th, to, len
    <3>2. th.todo \in Expanding
      BY <2>2, <3>1, RefusingSteps
    <3>3. th.todo \notin Refusing /\ th.todo \notin {<<>>, <<"destroy">>}
      BY <3>2, ExpandingSteps
    <3>4. Iterations(len) <= MaxIterations /\ Written(len, th.i, th.out)
      BY <1>4, <3>1, <3>3 DEF HkdfInv, len, th
    <3>5. th.i \in Nat
      BY <1>1 DEF th
    <3>6. th.i \in 1 .. Iterations(len)
      BY <2>1, <3>1, <3>5, IterationsFacts
    <3>7. Written(len, th.i + 1, to.out)
      BY <2>1, <3>1, <3>4, <3>6, BlockWritten
    <3>8. to.i = 0 \/ to.i = th.i + 1
      <4>1. th.i <= MaxIterations /\ MaxIterations \in Nat
        <5>1. Iterations(len) \in Nat
          BY <2>1, IterationsFacts
        <5> QED BY <3>1, <3>4, <3>5, <5>1, CryptoAssumption
      <4>2. CASE th.i + 1 < MaxIterations + 1
        <5>1. \A x \in Int, z \in 0 .. (MaxIterations + 1) - 1 :
                x = 0 * (MaxIterations + 1) + z
                  => x % (MaxIterations + 1) = z
          BY <4>1, DivUnique
        <5>2. (th.i + 1) % (MaxIterations + 1) = th.i + 1
          BY <3>5, <4>1, <4>2, <5>1
        <5> QED BY <3>1, <5>2 DEF NextI
      <4>3. CASE th.i + 1 = MaxIterations + 1
        <5>1. \A x \in Int, z \in 0 .. (MaxIterations + 1) - 1 :
                x = 1 * (MaxIterations + 1) + z
                  => x % (MaxIterations + 1) = z
          BY <4>1, DivUnique
        <5>2. (th.i + 1) % (MaxIterations + 1) = 0
          BY <3>5, <4>1, <4>3, <5>1
        <5> QED BY <3>1, <5>2 DEF NextI
      <4> QED BY <3>5, <4>1, <4>2, <4>3
    <3>9. to.i = 0 \/ (to.i > 0 /\ Written(len, to.i, to.out))
      BY <3>5, <3>7, <3>8
    <3> QED BY <1>2, <2>1, <3>1, <3>2, <3>4, <3>9 DEF HkdfInv, len
  <2> QED BY <2>4, <2>5, <2>6, <2>7
<1> QED BY <1>3, <1>4

\* Every step of a thread that is in shared_secret_derive keeps its secret.
LEMMA AgreementKept ==
  ASSUME NEW t \in Threads, AgreementInv(thread[t]), thread[t].todo # <<>>,
         PassStep(t) \/ Failed(t) \/ CleanedUp(t) \/ BlockStep(t)
           \/ AgreeStep(t)
  PROVE  AgreementInv(thread'[t])
<1> DEFINE th == thread[t]
           to == thread'[t]
<1> SUFFICES AgreementInv(to)
  OBVIOUS
<1>1. to.call = th.call
  BY DEF PassStep, Passed, Failed, CleanedUp, BlockStep, AgreeStep
<1>2. CASE th.call.f # "shared_secret_derive"
  BY <1>1, <1>2 DEF AgreementInv
<1>3. CASE th.call.f = "shared_secret_derive"
  <2>1. /\ to.call.f = "shared_secret_derive"
        /\ to.call.sk \in PrivateKeys /\ to.call.peer \in PrivateKeys
        /\ th.todo = <<"agree", "destroy">> => th.call.form # "bad"
        /\ th.todo \in Agreeing \/ th.todo = <<"destroy">>
    BY <1>1, <1>3 DEF AgreementInv
  <2>2. <<>> # <<"agree", "destroy">> /\ <<"destroy">> # <<"agree", "destroy">>
    OBVIOUS
  <2>3. Head(th.todo) \in {"import", "load", "decompress", "agree", "destroy"}
    BY <2>1, AgreeingSteps, LastStep
  <2>4. CASE Failed(t)
    BY <2>1, <2>2, <2>4 DEF Failed, AgreementInv
  <2>5. CASE CleanedUp(t)
    BY <2>1, <2>2, <2>5 DEF CleanedUp, AgreementInv
  <2>6. CASE BlockStep(t)
    BY <2>3, <2>6 DEF BlockStep
  <2>7. CASE AgreeStep(t)
    <3>1. /\ Head(th.todo) = "agree" /\ to.todo = Tail(th.todo)
          /\ to.out = AgreedSecret(th.call.sk, PublicKey(th.call))
      BY <2>7 DEF AgreeStep
    <3>2. th.todo = <<"agree", "destroy">> /\ Tail(th.todo) = <<"destroy">>
      BY <2>1, <3>1, AgreeingSteps, LastStep
    <3> HIDE DEF th, to
    <3> QED BY <1>1, <2>1, <2>2, <3>1, <3>2 DEF AgreementInv
  <2>8. CASE PassStep(t)
    <3>1. /\ to.todo = Tail(th.todo) /\ to.out = th.out /\ to.err = th.err
          /\ Head(th.todo) # "agree"
          /\ Head(th.todo) = "decompress" => th.call.form # "bad"
      BY <2>8 DEF PassStep, Passed
    <3> HIDE DEF th, to
    <3>2. CASE th.todo \in Agreeing
      <4>1. to.todo \in Agreeing
        BY <3>1, <3>2, AgreeingSteps
      <4>2. to.todo = <<"agree", "destroy">> => to.call.form # "bad"
        BY <1>1, <3>1, <3>2, AgreeingSteps
      <4> QED BY <2>1, <4>1, <4>2 DEF AgreementInv
    <3>3. CASE th.todo = <<"destroy">>
      <4>1. to.todo = <<>>
        BY <3>1, <3>3, LastStep
      <4>2. th.todo \notin Agreeing
        BY <3>3 DEF Agreeing
      <4>3. \/ th.err # "ok"
            \/ /\ th.call.form # "bad"
               /\ th.out = AgreedSecret(th.call.sk, PublicKey(th.call))
        BY <1>3, <4>2 DEF AgreementInv, th
      <4> QED BY <1>1, <2>1, <2>2, <3>1, <4>1, <4>3 DEF AgreementInv
    <3> QED BY <2>1, <3>2, <3>3
  <2> QED BY <2>4, <2>5, <2>6, <2>7, <2>8
<1> QED BY <1>2, <1>3

\* A call that begins has nothing in its output, and all of its list to do.
LEMMA CallOutput ==
  ASSUME KeyInv, NEW t \in Threads, NEW call \in Calls, Call(t, call)
  PROVE  /\ HkdfInv(thread'[t])
         /\ build = "MBEDTLS" => AgreementInv(thread'[t])
<1> DEFINE to == thread'[t]
<1>1. /\ to.call = call /\ to.todo = Steps(call) /\ to.i = 1
      /\ to.out = IF "out_len" \in DOMAIN call
                  THEN [j \in 1 .. call.out_len |-> <<>>] ELSE <<>>
  BY DEF Call, KeyInv, TypeOK
<1> HIDE DEF to
<1>2. ASSUME call.f \in {"hkdf_expand", "hkdf_sha_256"}
      PROVE  HkdfInv(to)
  <2>1. call.out_len \in Nat /\ "out_len" \in DOMAIN call
    <3>1. call \in [f : {"hkdf_expand", "hkdf_sha_256"}, out_len : 0 .. MaxOutLen]
      BY <1>2 DEF Calls
    <3> QED BY <3>1, CryptoAssumption
  <2>2. Written(call.out_len, 1, to.out)
    <3>1. to.out = [j \in 1 .. call.out_len |-> <<>>]
      BY <1>1, <2>1
    <3>2. to.out = [j \in 1 .. call.out_len |-> to.out[j]]
      BY <3>1
    <3>3. (1 - 1) * HashLen = 0
      BY CryptoAssumption
    <3> QED BY <3>2, <3>3 DEF Written
  <2>3. CASE Iterations(call.out_len) > MaxIterations
    <3>1. hkdf_expand(call.out_len) = <<"hkdf_fialed">>
      BY <2>3 DEF hkdf_expand
    <3>2. hkdf_sha_256(call.out_len) \in Refusing
      BY <3>1, HkdfSteps DEF hkdf_sha_256, hkdf_extract, NoKey, Refusing
    <3>3. Steps(call) \in Refusing
      BY <1>2, <3>1, <3>2 DEF Steps, Refusing
    <3> QED BY <1>1, <2>1, <3>3 DEF HkdfInv
  <2>4. CASE ~(Iterations(call.out_len) > MaxIterations)
    <3>1. hkdf_expand(call.out_len) =
            IF build = "MBEDTLS" THEN <<"import", "check", "expand", "destroy">>
            ELSE <<"expand">>
      BY <2>4 DEF hkdf_expand
    <3>2. hkdf_sha_256(call.out_len) \in Expanding
      BY <3>1, HkdfSteps DEF hkdf_sha_256, hkdf_extract, NoKey, Expanding
    <3>3. Steps(call) \in Expanding
      BY <1>2, <3>1, <3>2 DEF Steps, Expanding
    <3>4. Iterations(call.out_len) <= MaxIterations
      BY <2>1, <2>4, IterationsFacts, CryptoAssumption
    <3> QED BY <1>1, <2>1, <2>2, <3>3, <3>4 DEF HkdfInv
  <2> QED BY <2>3, <2>4
<1>3. ASSUME call.f = "shared_secret_derive", build = "MBEDTLS"
      PROVE  AgreementInv(to)
  <2>1. call.sk \in PrivateKeys /\ call.peer \in PrivateKeys
    BY <1>3 DEF Calls
  <2>2. to.todo = <<"import", "load", "decompress", "agree", "destroy">>
    BY <1>1, <1>3 DEF Steps, shared_secret_derive
  <2>3. to.todo \in Agreeing /\ to.todo # <<"agree", "destroy">>
    BY <2>2 DEF Agreeing
  <2> QED BY <1>1, <2>1, <2>3 DEF AgreementInv
<1>4. call.f \notin {"hkdf_expand", "hkdf_sha_256"} => HkdfInv(to)
  BY <1>1 DEF HkdfInv
<1>5. call.f # "shared_secret_derive" => AgreementInv(to)
  BY <1>1 DEF AgreementInv
<1> QED BY <1>2, <1>3, <1>4, <1>5 DEF to

\* No function has been called yet.
LEMMA OutputInit == Init => OutputInv
<1> SUFFICES ASSUME Init, NEW t \in Threads
             PROVE  HkdfInv(thread[t]) /\ AgreementInv(thread[t])
  BY DEF OutputInv
<1>1. thread[t].call.f = "none"
  BY DEF Init
<1> QED BY <1>1 DEF HkdfInv, AgreementInv

\* A step or a call changes one thread, and keeps what is known of its output.
LEMMA OutputNext == KeyInv /\ OutputInv /\ [Next]_cryptoVars => OutputInv'
<1> SUFFICES ASSUME KeyInv, OutputInv, [Next]_cryptoVars PROVE OutputInv'
  OBVIOUS
<1>1. CASE UNCHANGED cryptoVars
  BY <1>1 DEF cryptoVars, OutputInv
<1>2. ASSUME NEW t \in Threads, build' = build,
             \A u \in Threads \ {t} : thread'[u] = thread[u],
             HkdfInv(thread'[t]), build = "MBEDTLS" => AgreementInv(thread'[t])
      PROVE  OutputInv'
  <2>1. ASSUME NEW u \in Threads PROVE HkdfInv(thread'[u])
    BY <1>2, <2>1 DEF OutputInv
  <2>2. ASSUME NEW u \in Threads, build = "MBEDTLS"
        PROVE  AgreementInv(thread'[u])
    BY <1>2, <2>2 DEF OutputInv
  <2> QED BY <1>2, <2>1, <2>2 DEF OutputInv
<1>3. ASSUME NEW t \in Threads, Step(t) PROVE OutputInv'
  <2>1. /\ thread[t].todo # <<>> /\ build' = build
        /\ \A u \in Threads \ {t} : thread'[u] = thread[u]
        /\ \/ PassStep(t) \/ Failed(t) \/ CleanedUp(t) \/ BlockStep(t)
           \/ AgreeStep(t)
    BY <1>3, StepKinds
  <2>2. HkdfInv(thread'[t])
    BY <2>1, HkdfKept DEF OutputInv
  <2>3. build = "MBEDTLS" => AgreementInv(thread'[t])
    BY <2>1, AgreementKept DEF OutputInv
  <2> QED BY <1>2, <2>1, <2>2, <2>3
<1>4. ASSUME NEW t \in Threads, NEW call \in Calls, Call(t, call)
      PROVE  OutputInv'
  <2>1. build' = build /\ \A u \in Threads \ {t} : thread'[u] = thread[u]
    BY <1>4 DEF Call, KeyInv, TypeOK
  <2>2. /\ HkdfInv(thread'[t])
        /\ build = "MBEDTLS" => AgreementInv(thread'[t])
    BY <1>4, CallOutput
  <2> QED BY <1>2, <2>1, <2>2
<1> QED BY <1>1, <1>3, <1>4 DEF Next

\* The strengthened invariant of the outputs: before block i of hkdf_expand all
\* earlier blocks are those of RFC 5869, and shared_secret_derive returns a
\* secret only of a key that mbedtls_ecp_decompress could decompress.
THEOREM OutputInvariant == Spec => []OutputInv
<1>1. Init => KeyInv /\ OutputInv
  BY KeyInit, OutputInit
<1>2. KeyInv /\ OutputInv /\ [Next]_cryptoVars => (KeyInv /\ OutputInv)'
  BY KeyNext, OutputNext
<1> QED BY <1>1, <1>2, PTL DEF Spec

\* hkdf_expand writes all bytes of the output as RFC 5869 says, for every length
\* of the output and of the hash, and either library.
THEOREM ExpandedAsSpecifiedTheorem == Spec => []ExpandedAsSpecified
<1>1. OutputInv => ExpandedAsSpecified
  <2> SUFFICES ASSUME OutputInv, NEW t \in Threads,
                      thread[t].call.f \in {"hkdf_expand", "hkdf_sha_256"},
                      Idle(t), thread[t].err = "ok"
               PROVE  thread[t].out = Expanded(thread[t].call.out_len)
    BY DEF ExpandedAsSpecified
  <2>1. thread[t].todo \notin Expanding /\ thread[t].todo \notin Refusing
    BY LastStep DEF Idle
  <2> QED BY <2>1 DEF OutputInv, HkdfInv
<1> QED BY <1>1, OutputInvariant, PTL

\* Two parties that use each other's public keys get the same secret from
\* shared_secret_derive, for every odd order of the group and all private keys:
\* the sign that ephemeral_dh_key_gen drops plays no part.
THEOREM SecretsAgreeTheorem == Spec => []SecretsAgree
<1>1. OutputInv => SecretsAgree
  <2> SUFFICES ASSUME OutputInv, build = "MBEDTLS", NEW t \in Threads,
                      NEW u \in Threads,
                      \A v \in {t, u} :
                         /\ thread[v].call.f = "shared_secret_derive"
                         /\ Idle(v) /\ thread[v].err = "ok",
                      thread[t].call.sk = thread[u].call.peer,
                      thread[u].call.sk = thread[t].call.peer
               PROVE  thread[t].out = thread[u].out
    BY DEF SecretsAgree
  <2>1. ASSUME NEW v \in {t, u}
        PROVE  /\ thread[v].call.sk \in 1 .. Order - 1
               /\ thread[v].out =
                    AgreedSecret(thread[v].call.sk, PublicKey(thread[v].call))
    <3>1. AgreementInv(thread[v]) /\ thread[v].todo \notin Agreeing
      BY <2>1, LastStep DEF OutputInv, Idle
    <3> QED BY <2>1, <3>1, CryptoAssumption DEF AgreementInv
  <2>2. AgreedSecret(thread[t].call.sk, PublicKey(thread[t].call)) =
          AgreedSecret(thread[u].call.sk, PublicKey(thread[u].call))
    BY <2>1, SecretsEqual
  <2> QED BY <2>1, <2>2
<1> QED BY <1>1, OutputInvariant, PTL
=============================================================================
