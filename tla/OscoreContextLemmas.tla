------------------------ MODULE OscoreContextLemmas -------------------------
(***************************************************************************)
(* What the functions of OscoreContext do to a context, for every value of *)
(* the constants: lemmas for the modules that use them.                    *)
(***************************************************************************)
EXTENDS OscoreContext, WellFoundedInduction, TLAPS

USE DEF MAX_PIV_LEN, MAX_KID_CONTEXT_LEN, MAX_AAD_LEN, OSCORE_OPT_VALUE_LEN,
        ENCRYPT0_ENCODING_OVERHEAD

-----------------------------------------------------------------------------
(* Partial IVs                                                             *)

\* The weights of the bytes of a uint64_t are numbers, the first two 1 and
\* Byte, and from the third on all are above Byte.
LEMMA WeightFacts ==
  /\ Weight[1] = 1
  /\ Weight[2] = Byte
  /\ \A n \in 1 .. 8 : Weight[n] \in Nat
  /\ \A n \in 2 .. 8 : Weight[n] >= Byte
  /\ \A n \in 3 .. 8 : Weight[n] > Byte
<1> DEFINE b2 == Byte * Byte
           b3 == b2 * Byte
           b4 == b2 * b2
           b5 == b4 * Byte
           b6 == b4 * b2
           b7 == b6 * Byte
<1>1. Byte \in Nat /\ Byte >= 2
  BY ByteAssumption
<1>2. \A x, y \in Nat : x >= Byte /\ y >= Byte => x * y \in Nat /\ x * y > Byte
  <2> SUFFICES ASSUME NEW x \in Nat, NEW y \in Nat, x >= Byte, y >= Byte
               PROVE  x * y \in Nat /\ x * y > Byte
    OBVIOUS
  <2>1. x * y >= x * 2
    BY <1>1
  <2> QED BY <2>1, <1>1
<1>3. b2 \in Nat /\ b2 > Byte  BY <1>1, <1>2
<1>4. b3 \in Nat /\ b3 > Byte  BY <1>1, <1>2, <1>3
<1>5. b4 \in Nat /\ b4 > Byte  BY <1>1, <1>2, <1>3
<1>6. b5 \in Nat /\ b5 > Byte  BY <1>1, <1>2, <1>5
<1>7. b6 \in Nat /\ b6 > Byte  BY <1>1, <1>2, <1>3, <1>5
<1>8. b7 \in Nat /\ b7 > Byte  BY <1>1, <1>2, <1>7
<1> HIDE DEF b3, b5, b6, b7
<1>9. Weight = <<1, Byte, b2, b3, b4, b5, b6, b7>>
  BY DEF Weight, b3, b5, b6, b7
<1> HIDE DEF b2, b4
<1> QED BY <1>1, <1>3, <1>4, <1>5, <1>6, <1>7, <1>8, <1>9

\* The number of values of a uint64_t is a number.
LEMMA U64Type == U64 \in Nat
<1>1. Weight[8] \in Nat
  BY WeightFacts
<1> QED BY <1>1, ByteAssumption DEF U64

\* UsedBytes counts one byte exactly for the numbers below Byte, and more than
\* two only for numbers above Byte.
LEMMA UsedBytesFacts ==
  ASSUME NEW n \in Nat
  PROVE  /\ UsedBytes(n) \in 1 .. 8
         /\ UsedBytes(n) = 1 <=> n < Byte
         /\ UsedBytes(n) > 2 => n > Byte
<1> DEFINE Fits(k) == (k = 1 \/ n >= Weight[k]) /\ (k = 8 \/ n < Weight[k + 1])
<1>1. \E k \in 1 .. 8 : Fits(k)
  <2>1. CASE n < Weight[2]  BY <2>1
  <2>2. CASE n >= Weight[2] /\ n < Weight[3]  BY <2>2
  <2>3. CASE n >= Weight[3] /\ n < Weight[4]  BY <2>3
  <2>4. CASE n >= Weight[4] /\ n < Weight[5]  BY <2>4
  <2>5. CASE n >= Weight[5] /\ n < Weight[6]  BY <2>5
  <2>6. CASE n >= Weight[6] /\ n < Weight[7]  BY <2>6
  <2>7. CASE n >= Weight[7] /\ n < Weight[8]  BY <2>7
  <2>8. CASE n >= Weight[8]  BY <2>8
  <2> QED BY <2>1, <2>2, <2>3, <2>4, <2>5, <2>6, <2>7, <2>8, WeightFacts
<1>2. UsedBytes(n) = CHOOSE k \in 1 .. 8 : Fits(k)
  BY DEF UsedBytes
<1>3. UsedBytes(n) \in 1 .. 8 /\ Fits(UsedBytes(n))
  BY <1>1, <1>2
<1>4. Byte \in Nat
  BY ByteAssumption
<1>5. ASSUME UsedBytes(n) = 1 PROVE n < Byte
  BY <1>3, <1>5, WeightFacts
<1>6. ASSUME UsedBytes(n) # 1 PROVE ~(n < Byte)
  <2>1. UsedBytes(n) \in 2 .. 8  BY <1>3, <1>6
  <2>2. n >= Weight[UsedBytes(n)]  BY <1>3, <1>6
  <2>3. Weight[UsedBytes(n)] \in Nat /\ Weight[UsedBytes(n)] >= Byte
    BY <2>1, WeightFacts
  <2> HIDE DEF Fits
  <2> QED BY <2>2, <2>3, <1>4
<1>7. ASSUME UsedBytes(n) > 2 PROVE n > Byte
  <2>1. UsedBytes(n) \in 3 .. 8  BY <1>3, <1>7
  <2>2. n >= Weight[UsedBytes(n)]  BY <1>3, <1>7
  <2>3. Weight[UsedBytes(n)] \in Nat /\ Weight[UsedBytes(n)] > Byte
    BY <2>1, WeightFacts
  <2> HIDE DEF Fits
  <2> QED BY <2>2, <2>3, <1>4
<1> QED BY <1>3, <1>5, <1>6, <1>7

\* The length of the Partial IV of n, and its only byte when there is one.
LEMMA LittleEndianFacts ==
  ASSUME NEW n \in Nat
  PROVE  /\ Len(LittleEndian(n)) = UsedBytes(n)
         /\ n < Byte => LittleEndian(n) = OneBytePiv(n)
<1>1. UsedBytes(n) \in 1 .. 8 /\ (UsedBytes(n) = 1 <=> n < Byte)
  BY UsedBytesFacts
<1>2. DOMAIN LittleEndian(n) = 1 .. UsedBytes(n)
  BY DEF LittleEndian
<1>3. \A i \in 1 .. UsedBytes(n) : (n \div Weight[i]) % Byte \in Nat
  <2> SUFFICES ASSUME NEW i \in 1 .. UsedBytes(n)
               PROVE  (n \div Weight[i]) % Byte \in Nat
    OBVIOUS
  <2>1. Weight[i] \in Nat /\ Weight[i] > 0
    BY <1>1, WeightFacts, ByteAssumption
  <2>2. n \div Weight[i] \in Nat
    BY <2>1
  <2> QED BY <2>2, ByteAssumption
<1>4. LittleEndian(n) \in Seq(Nat)
  BY <1>1, <1>3 DEF LittleEndian
<1>5. Len(LittleEndian(n)) = UsedBytes(n)
  BY <1>1, <1>2, <1>4
<1>6. ASSUME n < Byte PROVE LittleEndian(n) = OneBytePiv(n)
  <2>1. UsedBytes(n) = 1  BY <1>1, <1>6
  <2>2. (n \div Weight[1]) % Byte = n
    BY <1>6, WeightFacts, ByteAssumption
  <2> QED BY <2>1, <2>2 DEF LittleEndian, OneBytePiv
<1> QED BY <1>5, <1>6

-----------------------------------------------------------------------------
(* coap2oscore on the client                                               *)

\* The context of the client while its ID Context is i and n the next number.
ClientContext(c, i, n) ==
  /\ IsContext(c)
  /\ c.id_context = i /\ c.sender_seq_num = n
  /\ c.kid = ClientId /\ c.kid_context = i
  /\ c.common_iv = derive_common_iv(i)
  /\ c.sender_key = derive_key(i, ClientId)
  /\ c.aad_len = IF n = 0 THEN MAX_AAD_LEN ELSE 8 + KidLen

\* What is known of context d after a call with number n changed context c:
\* the AAD is that of a request only if the nonce is that of number n.
RequestParameters(c, d, i, n) ==
  /\ \A f \in {"sender_id", "recipient_id", "recipient_key"} : d[f] = c[f]
  /\ n < Byte =>
       /\ d.nonce = create_nonce(ClientId, OneBytePiv(n), derive_common_iv(i))
       /\ d.aad = <<ClientId, OneBytePiv(n), TRUE>>
  /\ n < Byte \/ d.aad[3] = FALSE \/ (n > Byte /\ d.aad = c.aad)

\* What one call of coap2oscore with a request does to the client's context:
\* it consumes the sequence number, keeps what depends on the ID Context, and
\* succeeds only for a number below Byte, whose packet is RequestFor it; for
\* such a number it does not fail when the KID is at most six bytes long.
LEMMA RequestStep ==
  ASSUME NEW c, NEW i \in IdContexts, NEW n \in Nat, NEW plain,
         n + 1 < U64, IdLen[i] <= MAX_KID_CONTEXT_LEN,
         ClientContext(c, i, n),
         NEW r, r = coap2oscore_request(c)
  PROVE  /\ ClientContext(r.ctx, i, n + 1)
         /\ RequestParameters(c, r.ctx, i, n)
         /\ n < Byte /\ KidLen <= 6 => r.err = "ok"
         /\ r.err = "ok" => /\ n < Byte /\ KidLen <= 6
                            /\ RequestPacket(r.ctx, plain)
                                 = RequestFor(i, n, plain)
<1> DEFINE c0 == [c EXCEPT !.sender_seq_num = (c.sender_seq_num + 1) % U64]
           p == sender_seq_num2piv(n, c0)
           c1 == [c0 EXCEPT !.piv = LittleEndian(n)]
           c2 == [c1 EXCEPT !.nonce = create_nonce(c1.kid, c1.piv, c1.common_iv)]
           c3 == [c2 EXCEPT !.aad = <<c2.kid, c2.piv, TRUE>>,
                            !.aad_len = AadLen(c2.piv)]
           c4 == [c2 EXCEPT !.aad = <<c2.kid, c2.piv, FALSE>>]
<1>0. /\ n \in Nat /\ Byte \in Nat /\ Byte >= 2 /\ KidLen \in 0 .. 7
      /\ (n + 1) % U64 = n + 1
  <2>1. (n + 1) % U64 = n + 1
    BY U64Type
  <2> QED BY <2>1, ByteAssumption, KidLenAssumption
<1>c. /\ IsContext(c)
      /\ c.id_context = i /\ c.sender_seq_num = n
      /\ c.kid = ClientId /\ c.kid_context = i
      /\ c.common_iv = derive_common_iv(i)
      /\ c.sender_key = derive_key(i, ClientId)
      /\ c.aad_len = IF n = 0 THEN MAX_AAD_LEN ELSE 8 + KidLen
  BY DEF ClientContext
<1>1. /\ IsContext(c0) /\ c0.sender_seq_num = n + 1
      /\ \A f \in ContextFields \ {"sender_seq_num"} : c0[f] = c[f]
  BY <1>c, <1>0 DEF IsContext, ContextFields
<1>2. /\ IsContext(c1) /\ c1.piv = LittleEndian(n)
      /\ \A f \in ContextFields \ {"piv"} : c1[f] = c0[f]
  BY <1>1 DEF IsContext, ContextFields
<1>3. /\ IsContext(c2)
      /\ c2.nonce = create_nonce(c1.kid, LittleEndian(n), c1.common_iv)
      /\ \A f \in ContextFields \ {"nonce"} : c2[f] = c1[f]
  BY ZenonT(40), <1>2 DEF IsContext, ContextFields
<1> HIDE DEF c0, c1, c2
<1>4. /\ IsContext(c3) /\ c3.aad = <<c2.kid, c2.piv, TRUE>>
      /\ c3.aad_len = AadLen(c2.piv)
      /\ \A f \in ContextFields \ {"aad", "aad_len"} : c3[f] = c2[f]
  BY <1>3 DEF IsContext, ContextFields
<1>5. /\ IsContext(c4) /\ c4.aad = <<c2.kid, c2.piv, FALSE>>
      /\ \A f \in ContextFields \ {"aad"} : c4[f] = c2[f]
  BY <1>3 DEF IsContext, ContextFields
<1>6. p = IF UsedBytes(n) > 5 THEN [err |-> "buffer_to_small", ctx |-> c0]
          ELSE [err |-> "ok", ctx |-> c1]
  BY DEF sender_seq_num2piv, c1
<1>7. context_update_client(c1)
        = IF AadLen(c2.piv) <= c2.aad_len
          THEN [err |-> "ok", ctx |-> c3]
          ELSE [err |-> "unexpected_result_from_ext_lib", ctx |-> c4]
  BY DEF context_update_client, UpdateNonceAndAad, create_aad, c2
<1> HIDE DEF c3, c4
<1>8. /\ c2.id_context = i /\ c2.kid = ClientId /\ c2.kid_context = i
      /\ c2.common_iv = derive_common_iv(i)
      /\ c2.sender_key = derive_key(i, ClientId)
      /\ c2.sender_seq_num = n + 1 /\ c2.piv = LittleEndian(n)
      /\ c2.aad_len = c.aad_len
      /\ c2.nonce = create_nonce(ClientId, LittleEndian(n), derive_common_iv(i))
  BY <1>c, <1>1, <1>2, <1>3 DEF ContextFields
<1> DEFINE Kept == {"sender_id", "recipient_id", "recipient_key"}
<1>8a. /\ \A f \in Kept : c0[f] = c[f] /\ c2[f] = c[f] /\ c3[f] = c[f]
       /\ \A f \in Kept : c4[f] = c[f]
  <2>1. \A f \in Kept : c0[f] = c[f]  BY <1>1 DEF ContextFields
  <2>2. \A f \in Kept : c2[f] = c[f]  BY <2>1, <1>2, <1>3 DEF ContextFields
  <2>3. \A f \in Kept : c3[f] = c[f]  BY <2>2, <1>4 DEF ContextFields
  <2>4. \A f \in Kept : c4[f] = c[f]  BY <2>2, <1>5 DEF ContextFields
  <2> QED BY <2>1, <2>2, <2>3, <2>4
<1>9. /\ c0.id_context = i /\ c0.kid = ClientId /\ c0.kid_context = i
      /\ c0.common_iv = derive_common_iv(i)
      /\ c0.sender_key = derive_key(i, ClientId)
      /\ c0.sender_seq_num = n + 1 /\ c0.aad_len = c.aad_len
      /\ c0.aad = c.aad
  BY <1>c, <1>1 DEF ContextFields
<1>10. /\ AadLen(c2.piv) = 7 + KidLen + UsedBytes(n)
       /\ UsedBytes(n) \in 1 .. 8 /\ (UsedBytes(n) = 1 <=> n < Byte)
       /\ UsedBytes(n) > 2 => n > Byte
  BY <1>0, <1>8, UsedBytesFacts, LittleEndianFacts DEF AadLen
<1>11. CASE UsedBytes(n) > 5
  <2>1. r.ctx = c0 /\ r.err # "ok"
    BY <1>c, <1>6, <1>11 DEF coap2oscore_request, c0
  <2>2. n # 0
    BY <1>0, <1>10, <1>11
  <2>3. n > Byte /\ ~(n < Byte)
    BY <1>0, <1>10, <1>11
  <2>4. c0.aad_len = 8 + KidLen
    BY <1>c, <1>9, <2>2
  <2>5. ClientContext(r.ctx, i, n + 1)
    BY <1>0, <1>1, <1>9, <2>1, <2>4 DEF ClientContext
  <2>6. RequestParameters(c, r.ctx, i, n)
    BY <1>8a, <1>9, <2>1, <2>3 DEF RequestParameters
  <2> QED BY <2>1, <2>3, <2>5, <2>6
<1>12. CASE UsedBytes(n) <= 5 /\ ~(AadLen(c2.piv) <= c2.aad_len)
  <2>1. r.ctx = c4 /\ r.err # "ok"
    BY <1>c, <1>0, <1>6, <1>7, <1>10, <1>12 DEF coap2oscore_request, c0
  <2>2. n # 0
    BY <1>0, <1>c, <1>8, <1>10, <1>12
  <2>3. ~(n < Byte)
    BY <1>0, <1>c, <1>8, <1>10, <1>12
  <2>4. c4.aad[3] = FALSE
    BY <1>5
  <2>5. ClientContext(r.ctx, i, n + 1)
    <3>1. c4.aad_len = 8 + KidLen
      BY <1>c, <1>5, <1>8, <2>2 DEF ContextFields
    <3> QED BY <1>0, <1>5, <1>8, <2>1, <3>1 DEF ContextFields, ClientContext
  <2>6. RequestParameters(c, r.ctx, i, n)
    BY <1>8a, <2>1, <2>3, <2>4 DEF RequestParameters
  <2> QED BY <2>1, <2>3, <2>5, <2>6
<1>13. CASE UsedBytes(n) <= 5 /\ AadLen(c2.piv) <= c2.aad_len
  <2>1. r.ctx = c3
    BY <1>c, <1>0, <1>6, <1>7, <1>10, <1>13 DEF coap2oscore_request, c0
  <2>2. /\ c3.id_context = i /\ c3.kid = ClientId /\ c3.kid_context = i
        /\ c3.common_iv = derive_common_iv(i)
        /\ c3.sender_key = derive_key(i, ClientId)
        /\ c3.sender_seq_num = n + 1 /\ c3.piv = LittleEndian(n)
        /\ c3.nonce = create_nonce(ClientId, LittleEndian(n),
                                   derive_common_iv(i))
        /\ c3.aad = <<ClientId, LittleEndian(n), TRUE>>
        /\ c3.aad_len = AadLen(c2.piv)
    BY <1>4, <1>8 DEF ContextFields
  <2>3. UsedBytes(n) = 1
    <3>1. CASE n = 0  BY <1>0, <1>10, <3>1
    <3>2. CASE n # 0  BY <1>0, <1>c, <1>8, <1>10, <1>13, <3>2
    <3> QED BY <3>1, <3>2
  <2>4. n < Byte /\ LittleEndian(n) = OneBytePiv(n)
    BY <1>0, <1>10, <2>3, LittleEndianFacts
  <2>5. c3.aad_len = 8 + KidLen
    BY <1>0, <1>10, <2>2, <2>3
  <2>6. Len(LittleEndian(n)) = 1
    BY <1>0, <2>3, LittleEndianFacts
  <2>7. get_oscore_opt_val_len(c3)
          = 2 + KidLen + (IF IdLen[i] > 0 THEN 1 + IdLen[i] ELSE 0)
    BY <2>2, <2>6 DEF get_oscore_opt_val_len
  <2>8. RequestPacket(c3, plain) = RequestFor(i, n, plain)
    BY <2>2, <2>4, <2>7 DEF RequestPacket, RequestFor
  <2>9. ASSUME KidLen <= 6 PROVE r.err = "ok"
    <3>1. IdLen[i] \in 0 .. 8
      BY IdLenAssumption
    <3>2. ~(get_oscore_opt_val_len(c3) > 22)
      BY <1>0, <2>7, <2>9, <3>1
    <3>3. CoseAadFits(c3)
      BY <1>0, <2>5, <2>9 DEF CoseAadFits
    <3>4. p.err = "ok" /\ p.ctx = c1
      BY <1>6, <1>10, <1>13
    <3>5. context_update_client(c1) = [err |-> "ok", ctx |-> c3]
      BY <1>7, <1>13
    <3> QED BY <1>c, <3>2, <3>3, <3>4, <3>5 DEF coap2oscore_request, c0
  <2>10. ASSUME r.err = "ok" PROVE KidLen <= 6
    <3>1. p.err = "ok" /\ p.ctx = c1
      BY <1>6, <1>10, <1>13
    <3>2. context_update_client(c1) = [err |-> "ok", ctx |-> c3]
      BY <1>7, <1>13
    <3>3. CoseAadFits(c3)
      BY <1>c, <2>10, <3>1, <3>2 DEF coap2oscore_request, c0
    <3> QED BY <1>0, <2>5, <3>3 DEF CoseAadFits
  <2>11. ClientContext(r.ctx, i, n + 1)
    BY <1>0, <1>4, <2>1, <2>2, <2>5 DEF ClientContext
  <2>12. RequestParameters(c, r.ctx, i, n)
    BY <1>8a, <2>1, <2>2, <2>4 DEF RequestParameters
  <2> QED BY <2>1, <2>4, <2>8, <2>9, <2>11, <2>12, <2>10
<1>14. UsedBytes(n) \in Nat
  BY <1>10
<1> QED BY <1>11, <1>12, <1>13, <1>14

\* What the client's context is after oscore_context_init.
LEMMA InitFacts ==
  ASSUME NEW i \in IdContexts, NEW c, c = oscore_context_init("CLIENT", i)
  PROVE  /\ IsContext(c)
         /\ c.id_context = i /\ c.kid = ClientId /\ c.kid_context = i
         /\ c.common_iv = derive_common_iv(i)
         /\ c.sender_key = derive_key(i, ClientId)
         /\ c.sender_seq_num = 0 /\ c.aad_len = MAX_AAD_LEN
BY DEF oscore_context_init, IsContext, ContextFields

-----------------------------------------------------------------------------
(* What a request tells                                                    *)

\* The members of a request on which the binding rests.
LEMMA RequestForFields ==
  ASSUME NEW q, NEW i, NEW n, NEW plain, q = RequestFor(i, n, plain)
  PROVE  /\ q.kid_context = i
         /\ q.piv = OneBytePiv(n)
         /\ q.nonce = create_nonce(ClientId, OneBytePiv(n), derive_common_iv(i))
         /\ q.plain = plain
BY DEF RequestFor

\* The AAD of a request is that of its KID and Partial IV, and complete.
LEMMA RequestForAad ==
  ASSUME NEW q, NEW i, NEW n, NEW plain, q = RequestFor(i, n, plain)
  PROVE  q.aad = <<ClientId, OneBytePiv(n), TRUE>>
BY DEF RequestFor

\* The padded Partial IV of a number below Byte tells the number.
LEMMA PaddedPivInjective ==
  ASSUME NEW k \in 0 .. Byte - 1, NEW n \in 0 .. Byte - 1, NEW iv, NEW jv,
         create_nonce(ClientId, OneBytePiv(k), iv)
           = create_nonce(ClientId, OneBytePiv(n), jv)
  PROVE  k = n
<1>1. \A x \in 0 .. Byte - 1 : LeftPad(OneBytePiv(x))[5] = x
  BY DEF LeftPad, OneBytePiv, MAX_PIV_LEN
<1>2. LeftPad(OneBytePiv(k)) = LeftPad(OneBytePiv(n))
  BY DEF create_nonce
<1> QED BY <1>1, <1>2

\* Two requests with the same key and nonce have the same ID Context and
\* number: the key names the one, the last byte of the padded PIV the other.
LEMMA RequestForInjective ==
  ASSUME NEW i, NEW j, NEW k \in 0 .. Byte - 1, NEW n \in 0 .. Byte - 1,
         NEW p, NEW q,
         RequestFor(i, k, p).key = RequestFor(j, n, q).key,
         RequestFor(i, k, p).nonce = RequestFor(j, n, q).nonce
  PROVE  i = j /\ k = n
<1>1. \A x \in 0 .. Byte - 1 : LeftPad(OneBytePiv(x))[5] = x
  <2> SUFFICES ASSUME NEW x \in 0 .. Byte - 1
               PROVE  LeftPad(OneBytePiv(x))[5] = x
    OBVIOUS
  <2>1. OneBytePiv(x) \in Seq(0 .. Byte - 1) /\ Len(OneBytePiv(x)) = 1
        /\ OneBytePiv(x)[1] = x
    BY DEF OneBytePiv
  <2> QED BY <2>1 DEF LeftPad
<1>2. derive_key(i, ClientId) = derive_key(j, ClientId)
  BY DEF RequestFor
<1>3. LeftPad(OneBytePiv(k)) = LeftPad(OneBytePiv(n))
  BY DEF RequestFor, create_nonce
<1> QED BY <1>1, <1>2, <1>3 DEF derive_key

-----------------------------------------------------------------------------
(* The replay window                                                       *)

\* update_replay_window writes inside the array, whatever the numbers are.
LEMMA WindowType ==
  ASSUME NEW window \in [1 .. WindowLen -> 0 .. Byte - 1],
         NEW n \in 0 .. Byte - 1
  PROVE  update_replay_window(n, window) \in [1 .. WindowLen -> 0 .. Byte - 1]
<1>1. WindowLen \in Nat /\ WindowLen >= 2
  BY WindowLenAssumption
<1>2. Len(window) = WindowLen /\ DOMAIN window = 1 .. WindowLen
  BY <1>1
<1>3. ASSUME NEW position \in 1 .. WindowLen
      PROVE  insert_sender_seq_number(n, window, position)
               \in [1 .. WindowLen -> 0 .. Byte - 1]
  <2>1. \A i \in 1 .. WindowLen : i < position => i + 1 \in 1 .. WindowLen
    BY <1>1
  <2> QED BY <1>2, <2>1 DEF insert_sender_seq_number
<1> DEFINE gaps == Gaps(n, window)
           first == CHOOSE i \in gaps : \A j \in gaps : i <= j
<1>4. gaps \subseteq 1 .. WindowLen
  BY <1>1, <1>2 DEF Gaps
<1>5. CASE gaps = {}
  <2>1. WindowLen \in 1 .. WindowLen
    BY <1>1
  <2> QED BY <1>2, <1>3, <1>5, <2>1 DEF update_replay_window
<1>6. CASE gaps # {}
  <2>1. gaps \in SUBSET Nat
    BY <1>1, <1>4
  <2>2. \E i \in gaps : \A j \in gaps : i <= j
    <3> DEFINE Less == {ss \in Nat \X Nat : ss[1] < ss[2]}
    <3>1. IsWellFoundedOn(Less, Nat)
      BY NatLessThanWellFounded DEF OpToRel
    <3>2. PICK i \in gaps : \A j \in gaps : ~(<<j, i>> \in Less)
      <4> HIDE DEF gaps, Less
      <4> QED BY <1>6, <2>1, <3>1, WFMin
    <3>3. ASSUME NEW j \in gaps PROVE i <= j
      <4>1. i \in Nat /\ j \in Nat /\ <<j, i>> \notin Less
        BY <2>1, <3>2
      <4> QED BY <4>1
    <3> QED BY <3>3
  <2>3. first \in 1 .. WindowLen
    BY <1>4, <2>2
  <2> QED BY <1>3, <1>6, <2>3 DEF update_replay_window
<1> QED BY <1>5, <1>6

-----------------------------------------------------------------------------
(* context_update and oscore2coap on the server                            *)

\* The keys and the IV of a context are those of the ID Context it names.
KeysMatch(c) ==
  /\ c.common_iv = derive_common_iv(c.id_context)
  /\ c.sender_key = derive_key(c.id_context, c.sender_id)
  /\ c.recipient_key = derive_key(c.id_context, c.recipient_id)

\* A context of the server, also in the middle of context_update.
ServerContext(c) ==
  /\ IsContext(c)
  /\ c.sender_id = ServerId /\ c.recipient_id = ClientId
  /\ c.id_context \in IdContexts
  /\ c.aad_len \in 0 .. MAX_AAD_LEN
  /\ c.replay_window \in [1 .. WindowLen -> 0 .. Byte - 1]
  /\ KeysMatch(c)

\* What ServerContext says depends only on these members.
LEMMA SameServerContext ==
  ASSUME NEW c, NEW d, ServerContext(c), IsContext(d),
         \A f \in {"id_context", "common_iv", "sender_id", "sender_key",
                  "recipient_id", "recipient_key", "replay_window",
                  "aad_len"} : d[f] = c[f]
  PROVE  ServerContext(d)
<1>1. /\ d.id_context = c.id_context /\ d.common_iv = c.common_iv
      /\ d.sender_id = c.sender_id /\ d.sender_key = c.sender_key
      /\ d.recipient_id = c.recipient_id
      /\ d.recipient_key = c.recipient_key
      /\ d.replay_window = c.replay_window /\ d.aad_len = c.aad_len
  OBVIOUS
<1> QED BY <1>1 DEF ServerContext, KeysMatch

\* A change of ID Context derives the common IV and both keys anew, or stops
\* before it touches any of them.
LEMMA UpdateIdContextKeeps ==
  ASSUME NEW c, ServerContext(c), NEW i \in IdContexts
  PROVE  /\ ServerContext(UpdateIdContext(c, i).ctx)
         /\ UpdateIdContext(c, i).ctx.piv = c.piv
<1> DEFINE k == [c EXCEPT !.kid_context = i]
           v == [c EXCEPT !.kid_context = i, !.id_context = i,
                          !.common_iv = derive_common_iv(i)]
           s == [v EXCEPT !.sender_key = derive_key(v.id_context, v.sender_id)]
           t == [s EXCEPT !.recipient_key =
                                 derive_key(s.id_context, s.recipient_id)]
<1>1. IsContext(c)
  BY DEF ServerContext
<1>2. /\ IsContext(k)
      /\ \A f \in ContextFields \ {"kid_context"} : k[f] = c[f]
  BY <1>1 DEF IsContext, ContextFields
<1>3. /\ IsContext(v) /\ v.id_context = i /\ v.common_iv = derive_common_iv(i)
      /\ \A f \in ContextFields \ {"kid_context", "id_context", "common_iv"} :
           v[f] = c[f]
  BY <1>1 DEF IsContext, ContextFields
<1> HIDE DEF k, v
<1>4. /\ IsContext(s) /\ s.sender_key = derive_key(v.id_context, v.sender_id)
      /\ \A f \in ContextFields \ {"sender_key"} : s[f] = v[f]
  BY <1>3 DEF IsContext, ContextFields
<1> HIDE DEF s
<1>5. /\ IsContext(t)
      /\ t.recipient_key = derive_key(s.id_context, s.recipient_id)
      /\ \A f \in ContextFields \ {"recipient_key"} : t[f] = s[f]
  BY <1>4 DEF IsContext, ContextFields
<1> HIDE DEF t
<1>6. ServerContext(k) /\ k.piv = c.piv
  BY <1>2, SameServerContext DEF ContextFields
<1>7. ServerContext(t) /\ t.piv = c.piv
  <2>1. /\ t.id_context = i /\ t.common_iv = derive_common_iv(i)
        /\ t.sender_id = c.sender_id /\ t.recipient_id = c.recipient_id
        /\ t.sender_key = derive_key(i, c.sender_id)
        /\ t.recipient_key = derive_key(i, c.recipient_id)
        /\ t.replay_window = c.replay_window /\ t.aad_len = c.aad_len
        /\ t.piv = c.piv
    BY <1>3, <1>4, <1>5 DEF ContextFields
  <2> QED BY <1>5, <2>1 DEF ServerContext, KeysMatch
<1>8. UpdateIdContext(c, i).ctx \in {c, k, t}
  BY DEF UpdateIdContext, derive_sender_key, derive_recipient_key, k, v, s, t
<1> QED BY <1>6, <1>7, <1>8

\* The nonce and the AAD, as far as it fits the length it had before.
LEMMA UpdateNonceAndAadKeeps ==
  ASSUME NEW c, ServerContext(c), Len(c.piv) \in Nat
  PROVE  ServerContext(UpdateNonceAndAad(c).ctx)
<1> DEFINE n == [c EXCEPT !.nonce = create_nonce(c.kid, c.piv, c.common_iv)]
           a == [n EXCEPT !.aad = <<n.kid, n.piv, TRUE>>,
                          !.aad_len = AadLen(n.piv)]
           b == [n EXCEPT !.aad = <<n.kid, n.piv, FALSE>>]
<1>1. IsContext(c)
  BY DEF ServerContext
<1>2. /\ IsContext(n)
      /\ \A f \in ContextFields \ {"nonce"} : n[f] = c[f]
  BY <1>1 DEF IsContext, ContextFields
<1> HIDE DEF n
<1>3. /\ IsContext(a) /\ a.aad_len = AadLen(n.piv)
      /\ \A f \in ContextFields \ {"aad", "aad_len"} : a[f] = n[f]
  BY <1>2 DEF IsContext, ContextFields
<1>4. /\ IsContext(b)
      /\ \A f \in ContextFields \ {"aad"} : b[f] = n[f]
  BY <1>2 DEF IsContext, ContextFields
<1>5. UpdateNonceAndAad(c).ctx = IF AadLen(n.piv) <= n.aad_len THEN a ELSE b
  BY DEF UpdateNonceAndAad, create_aad, n
<1> HIDE DEF a, b
<1>6. CASE AadLen(n.piv) <= n.aad_len
  <2>1. n.aad_len \in 0 .. MAX_AAD_LEN /\ Len(n.piv) \in Nat
    BY <1>2 DEF ContextFields, ServerContext
  <2>2. a.aad_len \in 0 .. MAX_AAD_LEN
    <3>1. \A len \in Nat, k \in 0 .. MAX_AAD_LEN :
            7 + KidLen + len <= k => 7 + KidLen + len \in 0 .. MAX_AAD_LEN
      BY KidLenAssumption DEF MAX_AAD_LEN
    <3>2. a.aad_len = 7 + KidLen + Len(n.piv) /\ a.aad_len <= n.aad_len
      BY <1>3, <1>6 DEF AadLen
    <3> HIDE DEF a
    <3> QED BY <2>1, <3>1, <3>2
  <2>3. /\ a.id_context = c.id_context /\ a.common_iv = c.common_iv
        /\ a.sender_id = c.sender_id /\ a.sender_key = c.sender_key
        /\ a.recipient_id = c.recipient_id
        /\ a.recipient_key = c.recipient_key
        /\ a.replay_window = c.replay_window
    BY <1>2, <1>3 DEF ContextFields
  <2>4. ServerContext(a)
    BY <1>3, <2>2, <2>3 DEF ServerContext, KeysMatch
  <2> QED BY <1>5, <1>6, <2>4
<1>7. CASE ~(AadLen(n.piv) <= n.aad_len)
  <2>1. ServerContext(b)
    BY <1>2, <1>4, SameServerContext DEF ContextFields
  <2> QED BY <1>5, <1>7, <2>1
<1> QED BY <1>6, <1>7

\* context_update with the Partial IV and ID Context of a request that was
\* sent, wherever it returns.
LEMMA ContextUpdateStep ==
  ASSUME NEW c, ServerContext(c), NEW i \in IdContexts, NEW n \in 0 .. Byte - 1
  PROVE  ServerContext(context_update_server(c, OneBytePiv(n), i).ctx)
<1> DEFINE piv == OneBytePiv(n)
           c1 == [c EXCEPT !.piv = piv]
           u == context_update_server(c, piv, i)
<1>1. Len(piv) \in Nat
  BY DEF OneBytePiv
<1> HIDE DEF piv
<1>2. ServerContext(c1) /\ c1.piv = piv
  <2>1. /\ IsContext(c1) /\ c1.piv = piv
        /\ \A f \in ContextFields \ {"piv"} : c1[f] = c[f]
    BY DEF ServerContext, IsContext, ContextFields
  <2> HIDE DEF c1
  <2> QED BY <2>1, SameServerContext DEF ContextFields
<1>3. /\ ServerContext(UpdateIdContext(c1, i).ctx)
      /\ UpdateIdContext(c1, i).ctx.piv = piv
  BY <1>2, UpdateIdContextKeeps
<1>4. \/ u = UpdateIdContext(c1, i)
      \/ u = UpdateNonceAndAad(UpdateIdContext(c1, i).ctx)
      \/ u = UpdateNonceAndAad(c1)
  BY DEF context_update_server
<1> HIDE DEF u, c1
<1>5. ServerContext(UpdateNonceAndAad(UpdateIdContext(c1, i).ctx).ctx)
  BY <1>1, <1>3, UpdateNonceAndAadKeeps
<1>6. ServerContext(UpdateNonceAndAad(c1).ctx)
  BY <1>1, <1>2, UpdateNonceAndAadKeeps
<1> QED BY <1>3, <1>4, <1>5, <1>6 DEF piv, u

\* oscore2coap with a request that was sent, damaged or not: wherever it
\* returns, the context is one of the server again, and when it returns ok the
\* context has the nonce, the AAD and the key of the request.
LEMMA ServerRequestStep ==
  ASSUME NEW c, ServerContext(c), NEW i \in IdContexts, NEW n \in 0 .. Byte - 1,
         NEW m, m = RequestFor(i, n, m.plain), NEW intact,
         NEW r, r = oscore2coap_request(c, m, intact)
  PROVE  /\ ServerContext(r.ctx)
         /\ r.err = "ok" => /\ r.ctx.nonce = m.nonce /\ r.ctx.aad = m.aad
                            /\ r.ctx.recipient_key = m.key
<1> DEFINE u == context_update_server(c, m.piv, i)
           w == [u.ctx EXCEPT !.replay_window =
                                 update_replay_window(m.piv[1], @)]
<1>1. m.piv = OneBytePiv(n) /\ m.kid_context = i /\ m.piv[1] = n
  BY DEF RequestFor, OneBytePiv
<1>2. ServerContext(u.ctx)
  BY <1>1, ContextUpdateStep
<1>3. \/ r.ctx \in {c, u.ctx} /\ r.err # "ok"
      \/ r.ctx = w /\ Decrypts(u.ctx, m, intact /\ ~MarkerInOption(m))
  BY <1>1 DEF oscore2coap_request
<1> HIDE DEF u
<1>4. /\ ServerContext(w) /\ w.nonce = u.ctx.nonce /\ w.aad = u.ctx.aad
      /\ w.recipient_key = u.ctx.recipient_key
  <2>1. u.ctx.replay_window \in [1 .. WindowLen -> 0 .. Byte - 1]
        /\ IsContext(u.ctx)
    BY <1>2 DEF ServerContext
  <2>2. /\ IsContext(w)
        /\ w.replay_window = update_replay_window(n, u.ctx.replay_window)
        /\ \A f \in ContextFields \ {"replay_window"} : w[f] = u.ctx[f]
    BY <1>1, <2>1 DEF IsContext, ContextFields
  <2>3. w.replay_window \in [1 .. WindowLen -> 0 .. Byte - 1]
    BY <2>1, <2>2, WindowType
  <2> HIDE DEF w
  <2>4. /\ w.id_context = u.ctx.id_context /\ w.common_iv = u.ctx.common_iv
        /\ w.sender_id = u.ctx.sender_id /\ w.sender_key = u.ctx.sender_key
        /\ w.recipient_id = u.ctx.recipient_id
        /\ w.recipient_key = u.ctx.recipient_key
        /\ w.aad_len = u.ctx.aad_len
        /\ w.nonce = u.ctx.nonce /\ w.aad = u.ctx.aad
    BY <2>2 DEF ContextFields
  <2> QED BY <1>2, <2>2, <2>3, <2>4 DEF ServerContext, KeysMatch
<1> QED BY <1>2, <1>3, <1>4 DEF Decrypts

\* A change to an ID Context that is not longer than the one before succeeds.
LEMMA UpdateIdContextSucceeds ==
  ASSUME NEW c, ServerContext(c), NEW i \in IdContexts,
         IdLen[i] <= MAX_KID_CONTEXT_LEN, IdLen[i] <= IdLen[c.id_context]
  PROVE  LET u == UpdateIdContext(c, i)
         IN  /\ u.err = "ok" /\ u.ctx.id_context = i
             /\ u.ctx.kid = c.kid /\ u.ctx.aad_len = c.aad_len
<1> DEFINE v == [c EXCEPT !.kid_context = i, !.id_context = i,
                          !.common_iv = derive_common_iv(i)]
           s == derive_sender_key(v)
           t == derive_recipient_key(s)
<1>1. IsContext(c) /\ IdLen[i] \in Nat /\ IdLen[c.id_context] \in Nat
  BY IdLenAssumption DEF ServerContext
<1>2. UpdateIdContext(c, i) = [err |-> "ok", ctx |-> t]
  BY <1>1 DEF UpdateIdContext
<1>3. /\ IsContext(v) /\ v.id_context = i
      /\ v.kid = c.kid /\ v.aad_len = c.aad_len
  BY <1>1 DEF IsContext, ContextFields
<1> HIDE DEF v
<1>4. /\ IsContext(s) /\ s.id_context = i
      /\ s.kid = c.kid /\ s.aad_len = c.aad_len
  BY <1>3 DEF IsContext, ContextFields, derive_sender_key
<1> HIDE DEF s
<1>5. t.id_context = i /\ t.kid = c.kid /\ t.aad_len = c.aad_len
  BY <1>4 DEF IsContext, ContextFields, derive_recipient_key
<1> HIDE DEF t
<1> QED BY <1>2, <1>5

\* The lengths that the AAD buffer of a server has: its size before the first
\* request, then that of the AAD of a Partial IV of one byte.
AadRoom(c) == c.kid = ClientId /\ c.aad_len \in {MAX_AAD_LEN, 8 + KidLen}

\* The AAD of a request always fits.
LEMMA AadFits ==
  ASSUME NEW c, ServerContext(c), AadRoom(c), NEW n \in 0 .. Byte - 1,
         c.piv = OneBytePiv(n), NEW u, u = UpdateNonceAndAad(c)
  PROVE  /\ u.err = "ok" /\ AadRoom(u.ctx) /\ u.ctx.aad_len = 8 + KidLen
         /\ u.ctx.nonce = create_nonce(ClientId, OneBytePiv(n), c.common_iv)
         /\ u.ctx.aad = <<ClientId, OneBytePiv(n), TRUE>>
         /\ \A f \in {"id_context", "common_iv", "sender_key",
                      "recipient_key"} : u.ctx[f] = c[f]
<1> DEFINE piv == OneBytePiv(n)
           d == [c EXCEPT !.nonce = create_nonce(ClientId, piv, c.common_iv)]
           a == [d EXCEPT !.aad = <<d.kid, d.piv, TRUE>>,
                          !.aad_len = AadLen(d.piv)]
<1>1. IsContext(c) /\ c.kid = ClientId /\ c.piv = piv
      /\ c.aad_len \in {30, 8 + KidLen} /\ KidLen \in 0 .. 7
  BY KidLenAssumption DEF ServerContext, AadRoom
<1>2. AadLen(piv) = 8 + KidLen
  <2>1. Len(piv) = 1
    BY DEF OneBytePiv
  <2> QED BY <1>1, <2>1 DEF AadLen
<1> HIDE DEF piv
<1>3. /\ IsContext(d) /\ d.kid = ClientId /\ d.piv = piv
      /\ d.aad_len = c.aad_len
      /\ d.nonce = create_nonce(ClientId, piv, c.common_iv)
      /\ \A f \in {"id_context", "common_iv", "sender_key",
                   "recipient_key"} : d[f] = c[f]
  BY <1>1 DEF IsContext, ContextFields
<1>4. UpdateNonceAndAad(c) = create_aad(d)
  BY <1>1 DEF UpdateNonceAndAad
<1> HIDE DEF d
<1>5. AadLen(d.piv) <= d.aad_len
  BY <1>1, <1>2, <1>3
<1>6. u = [err |-> "ok", ctx |-> a]
  BY <1>4, <1>5 DEF create_aad
<1>7. /\ a.aad = <<d.kid, d.piv, TRUE>> /\ a.aad_len = AadLen(d.piv)
      /\ \A f \in {"kid", "nonce", "id_context", "common_iv", "sender_key",
                   "recipient_key"} : a[f] = d[f]
  BY <1>3 DEF IsContext, ContextFields
<1> HIDE DEF a
<1>8. u.err = "ok" /\ u.ctx = a
  BY <1>6
<1>9. a.kid = ClientId /\ a.aad_len = 8 + KidLen
  BY <1>2, <1>3, <1>7
<1>10. a.aad = <<ClientId, piv, TRUE>>
       /\ a.nonce = create_nonce(ClientId, piv, c.common_iv)
  BY <1>3, <1>7
<1> QED BY <1>3, <1>7, <1>8, <1>9, <1>10 DEF AadRoom, piv

\* A request arrives as it was sent, and buf2coap sees where its options end.
Undamaged(m, intact) == intact /\ ~MarkerInOption(m)

\* oscore2coap with a request whose option value is read as it was written, and
\* whose ID Context the server can take over: the request-response parameters
\* become those of the request, and only damage or a payload marker in the
\* Partial IV keep it from being accepted.
LEMMA RequestRead ==
  ASSUME NEW c, ServerContext(c), AadRoom(c), NEW i \in IdContexts,
         IdLen[i] <= MAX_KID_CONTEXT_LEN, IdLen[i] <= IdLen[c.id_context],
         NEW n \in 0 .. Byte - 1, NEW m, m = RequestFor(i, n, m.plain),
         m.opt_len < 13, KidLen <= 6, NEW intact,
         NEW r, r = oscore2coap_request(c, m, intact)
  PROVE  /\ ServerContext(r.ctx) /\ AadRoom(r.ctx) /\ CoseAadFits(r.ctx)
         /\ r.ctx.nonce = m.nonce /\ r.ctx.aad = m.aad
         /\ r.ctx.id_context = i /\ r.ctx.sender_key = derive_key(i, ServerId)
         /\ r.err = "ok" <=> Undamaged(m, intact)
<1> DEFINE piv == OneBytePiv(n)
           c1 == [c EXCEPT !.piv = piv]
           v == IF c1.id_context = i THEN [err |-> "ok", ctx |-> c1]
                ELSE UpdateIdContext(c1, i)
           u == UpdateNonceAndAad(v.ctx)
           w == [u.ctx EXCEPT !.replay_window =
                                 update_replay_window(m.piv[1], @)]
           undamaged == intact /\ ~MarkerInOption(m)
<1>1. /\ m.piv = piv /\ m.kid_context = i /\ m.kid = ClientId
      /\ m.key = derive_key(i, ClientId)
      /\ m.nonce = create_nonce(ClientId, piv, derive_common_iv(i))
      /\ m.aad = <<ClientId, piv, TRUE>>
  <2>1. /\ m.kid_context = i /\ m.piv = piv
        /\ m.nonce = create_nonce(ClientId, piv, derive_common_iv(i))
    BY RequestForFields
  <2>2. m.aad = <<ClientId, piv, TRUE>>
    BY RequestForAad
  <2>3. m.kid = ClientId /\ m.key = derive_key(i, ClientId)
    BY DEF RequestFor
  <2> QED BY <2>1, <2>2, <2>3
<1>2. c.recipient_id = ClientId /\ IsContext(c)
  BY DEF ServerContext
<1>3. /\ ServerContext(c1) /\ AadRoom(c1) /\ c1.piv = piv
      /\ c1.id_context = c.id_context
  <2>1. /\ IsContext(c1) /\ c1.piv = piv
        /\ \A f \in ContextFields \ {"piv"} : c1[f] = c[f]
    BY <1>2 DEF IsContext, ContextFields
  <2> HIDE DEF c1
  <2>2. ServerContext(c1)
    BY <2>1, SameServerContext DEF ContextFields
  <2>3. c1.kid = c.kid /\ c1.aad_len = c.aad_len /\ c1.id_context = c.id_context
    BY <2>1 DEF ContextFields
  <2> QED BY <2>1, <2>2, <2>3 DEF AadRoom
<1>4. context_update_server(c, piv, i) = IF v.err # "ok" THEN v ELSE u
  BY DEF context_update_server
<1> HIDE DEF c1, piv
<1>5. /\ v.err = "ok" /\ ServerContext(v.ctx) /\ AadRoom(v.ctx)
      /\ v.ctx.piv = piv /\ v.ctx.id_context = i
  <2>1. CASE c1.id_context = i
    BY <1>3, <2>1
  <2>2. CASE c1.id_context # i
    <3>1. /\ ServerContext(UpdateIdContext(c1, i).ctx)
          /\ UpdateIdContext(c1, i).ctx.piv = c1.piv
      BY <1>3, UpdateIdContextKeeps
    <3>2. /\ UpdateIdContext(c1, i).err = "ok"
          /\ UpdateIdContext(c1, i).ctx.id_context = i
          /\ UpdateIdContext(c1, i).ctx.kid = c1.kid
          /\ UpdateIdContext(c1, i).ctx.aad_len = c1.aad_len
      BY <1>3, UpdateIdContextSucceeds
    <3> QED BY <1>3, <2>2, <3>1, <3>2 DEF AadRoom
  <2> QED BY <2>1, <2>2
<1> HIDE DEF v
<1>6. /\ v.ctx.common_iv = derive_common_iv(i)
      /\ v.ctx.sender_key = derive_key(i, ServerId)
      /\ v.ctx.recipient_key = derive_key(i, ClientId)
  BY <1>5 DEF ServerContext, KeysMatch
<1>7. ServerContext(u.ctx)
  <2>1. Len(v.ctx.piv) \in Nat
    BY <1>5 DEF piv, OneBytePiv
  <2> QED BY <1>5, <2>1, UpdateNonceAndAadKeeps
<1>8. /\ u.err = "ok" /\ AadRoom(u.ctx) /\ u.ctx.aad_len = 8 + KidLen
      /\ u.ctx.nonce = create_nonce(ClientId, piv, derive_common_iv(i))
      /\ u.ctx.aad = <<ClientId, piv, TRUE>>
      /\ u.ctx.id_context = i
      /\ u.ctx.sender_key = derive_key(i, ServerId)
      /\ u.ctx.recipient_key = derive_key(i, ClientId)
  <2>1. /\ u.err = "ok" /\ AadRoom(u.ctx) /\ u.ctx.aad_len = 8 + KidLen
        /\ u.ctx.nonce = create_nonce(ClientId, OneBytePiv(n), v.ctx.common_iv)
        /\ u.ctx.aad = <<ClientId, OneBytePiv(n), TRUE>>
        /\ \A f \in {"id_context", "common_iv", "sender_key",
                     "recipient_key"} : u.ctx[f] = v.ctx[f]
    <3> HIDE DEF u
    <3> QED BY ZenonT(40), <1>5, AadFits DEF piv, u
  <2> HIDE DEF u
  <2>2. /\ u.ctx.id_context = v.ctx.id_context
        /\ u.ctx.sender_key = v.ctx.sender_key
        /\ u.ctx.recipient_key = v.ctx.recipient_key
    BY <2>1
  <2> QED BY <1>5, <1>6, <2>1, <2>2 DEF piv
<1> HIDE DEF u
<1>9. context_update_server(c, m.piv, m.kid_context) = u /\ u.err = "ok"
  BY <1>1, <1>4, <1>5, <1>8
<1>10. CoseAadFits(u.ctx)
  BY <1>8, KidLenAssumption DEF CoseAadFits
<1>11. Decrypts(u.ctx, m, undamaged) <=> undamaged
  BY <1>1, <1>8, <1>10 DEF Decrypts
<1>12. ReadKid(m) = c.recipient_id
  <2>1. m.opt_len = 2 + KidLen + (IF IdLen[i] > 0 THEN 1 + IdLen[i] ELSE 0)
    BY DEF RequestFor
  <2>2. m.opt_len \in Nat
    BY <2>1, KidLenAssumption, IdLenAssumption
  <2> QED BY <1>1, <1>2, <2>2 DEF ReadKid
<1> HIDE DEF undamaged
<1>13. r = IF Decrypts(u.ctx, m, undamaged)
           THEN [err |-> "ok", ctx |-> w]
           ELSE [err |-> "decryption_failed", ctx |-> u.ctx]
  BY <1>9, <1>12 DEF oscore2coap_request, replay_check, undamaged
<1>14. \/ r.ctx = w /\ r.err = "ok" /\ undamaged
       \/ r.ctx = u.ctx /\ r.err # "ok" /\ ~undamaged
  <2>1. CASE undamaged
    <3>1. r = [err |-> "ok", ctx |-> w]
      BY <1>11, <1>13, <2>1, Zenon
    <3> QED BY <2>1, <3>1
  <2>2. CASE ~undamaged
    <3>1. r = [err |-> "decryption_failed", ctx |-> u.ctx]
      BY <1>11, <1>13, <2>2, Zenon
    <3> QED BY <2>2, <3>1
  <2> QED BY <2>1, <2>2
<1>15. IsContext(u.ctx)
  BY <1>7 DEF ServerContext
<1>16. \A f \in ContextFields \ {"replay_window"} : w[f] = u.ctx[f]
  BY <1>15 DEF IsContext, ContextFields
<1> HIDE DEF w
<1>17. \A f \in {"kid", "aad_len", "nonce", "aad", "id_context", "sender_key"} :
         r.ctx[f] = u.ctx[f]
  BY <1>14, <1>16 DEF ContextFields
<1>18. /\ r.ctx.kid = u.ctx.kid /\ r.ctx.aad_len = u.ctx.aad_len
       /\ r.ctx.nonce = u.ctx.nonce /\ r.ctx.aad = u.ctx.aad
       /\ r.ctx.id_context = u.ctx.id_context
       /\ r.ctx.sender_key = u.ctx.sender_key
  BY <1>17
<1>19. ServerContext(r.ctx)
  BY ServerRequestStep
<1>20. AadRoom(r.ctx) /\ CoseAadFits(r.ctx)
  BY <1>8, <1>10, <1>18 DEF AadRoom, CoseAadFits
<1>21. r.err = "ok" <=> Undamaged(m, intact)
  BY <1>14 DEF undamaged, Undamaged
<1> QED BY <1>1, <1>8, <1>18, <1>19, <1>20, <1>21

\* What both contexts are after oscore_context_init.
LEMMA ContextInitFacts ==
  ASSUME NEW i \in IdContexts
  PROVE  /\ ServerContext(oscore_context_init("SERVER", i))
         /\ KeysMatch(oscore_context_init("CLIENT", i))
<1> DEFINE c == oscore_context_init("SERVER", i)
<1>1. IsContext(c) /\ c.id_context = i
  BY DEF oscore_context_init, IsContext, ContextFields
<1>2. KeysMatch(c) /\ c.sender_id = ServerId /\ c.recipient_id = ClientId
  BY DEF oscore_context_init, KeysMatch
<1>3. KeysMatch(oscore_context_init("CLIENT", i))
  BY DEF oscore_context_init, KeysMatch
<1>4. c.aad_len = MAX_AAD_LEN /\ c.replay_window = [k \in 1 .. WindowLen |-> 0]
  BY DEF oscore_context_init
<1> HIDE DEF c
<1>5. c.replay_window \in [1 .. WindowLen -> 0 .. Byte - 1]
  BY <1>4, ByteAssumption
<1>6. c.aad_len \in 0 .. MAX_AAD_LEN
  BY <1>4 DEF MAX_AAD_LEN
<1> QED BY <1>1, <1>2, <1>3, <1>5, <1>6 DEF ServerContext, c
=============================================================================
