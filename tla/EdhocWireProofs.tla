--------------------------- MODULE EdhocWireProofs ---------------------------
(***************************************************************************)
(* Proofs about encoded EDHOC runs: what the responder reads is what its   *)
(* peer wrote, whose credential a run ends with, that a certificate is     *)
(* accepted only from a known CA, and that no EAD overflows its buffer.    *)
(* Then that a run fails only for a reason: when the contexts of two       *)
(* parties fit, every message one of them makes is accepted by the other,  *)
(* and the messages on their way never mix up.                             *)
(***************************************************************************)
EXTENDS EdhocWire, SequenceTheorems, WellFoundedInduction, TLAPS

-----------------------------------------------------------------------------
(* Sequences                                                               *)

\* A sequence over one set is one over a larger set.
LEMMA SeqMono ==
  ASSUME NEW A, NEW B, A \subseteq B, NEW s \in Seq(A)
  PROVE  s \in Seq(B)
OBVIOUS

\* A sequence over any set is one over the set of its elements.
LEMMA SeqIsSeq ==
  ASSUME NEW S, NEW t \in Seq(S)
  PROVE  IsSeq(t)
<1> DEFINE R == {t[k] : k \in DOMAIN t}
<1>1. Len(t) \in Nat /\ t \in [1 .. Len(t) -> S] /\ DOMAIN t = 1 .. Len(t)
  BY LenProperties
<1>2. t = [k \in 1 .. Len(t) |-> t[k]]
  BY <1>1
<1>3. \A k \in 1 .. Len(t) : t[k] \in R
  BY <1>1
<1> HIDE DEF R
<1>4. t \in [1 .. Len(t) -> R]
  BY <1>2, <1>3
<1>5. t \in Seq(R)
  BY <1>1, <1>4, SeqDef
<1> QED BY <1>5 DEF IsSeq, R

\* A tuple of one.
LEMMA SingleSeq ==
  ASSUME NEW x
  PROVE  IsSeq(<<x>>) /\ Len(<<x>>) = 1 /\ <<x>>[1] = x /\ DOMAIN <<x>> = {1}
BY DEF IsSeq

\* Length and elements.
LEMMA SeqFacts ==
  ASSUME NEW s, IsSeq(s)
  PROVE  Len(s) \in Nat /\ DOMAIN s = 1 .. Len(s)
BY DEF IsSeq

\* What is left when the first element is taken.
LEMMA TailFacts ==
  ASSUME NEW s, IsSeq(s), s # <<>>
  PROVE  /\ 1 \in DOMAIN s /\ Head(s) = s[1]
         /\ IsSeq(Tail(s))
         /\ \A n \in DOMAIN Tail(s) : n + 1 \in DOMAIN s /\ Tail(s)[n] = s[n + 1]
<1> DEFINE S == {s[k] : k \in DOMAIN s}
           t == Tail(s)
<1>1. s \in Seq(S)
  BY DEF IsSeq
<1> HIDE DEF S
<1>2. t \in Seq(S) /\ Len(t) = Len(s) - 1 /\ Len(s) \in Nat \ {0}
      /\ \A n \in 1 .. Len(t) : t[n] = s[n + 1]
  BY <1>1
<1>3. IsSeq(t)
  BY <1>2, SeqIsSeq
<1>4. s[1] = Head(s) /\ DOMAIN s = 1 .. Len(s) /\ DOMAIN t = 1 .. Len(t)
  BY <1>1, <1>2
<1> QED BY <1>2, <1>3, <1>4

\* What is there when an element is added.
LEMMA AppendFacts ==
  ASSUME NEW s, IsSeq(s), NEW x
  PROVE  /\ IsSeq(Append(s, x))
         /\ \A n \in DOMAIN Append(s, x) :
              \/ n \in DOMAIN s /\ Append(s, x)[n] = s[n]
              \/ Append(s, x)[n] = x
<1> DEFINE S == {s[k] : k \in DOMAIN s}
           T == S \cup {x}
           t == Append(s, x)
<1>1. s \in Seq(T)
  BY SeqMono DEF IsSeq
<1>2. x \in T
  OBVIOUS
<1> HIDE DEF T
<1>3. t \in Seq(T) /\ Len(t) = Len(s) + 1 /\ Len(s) \in Nat
      /\ \A n \in 1 .. Len(t) : t[n] = IF n <= Len(s) THEN s[n] ELSE x
  <2>1. t \in Seq(T)
    BY <1>1, <1>2
  <2>2. Len(t) = Len(s) + 1 /\ Len(s) \in Nat
    BY <1>1, <1>2
  <2>3. \A n \in 1 .. Len(s) + 1 : t[n] = IF n <= Len(s) THEN s[n] ELSE x
    BY <1>1, <1>2
  <2> QED BY <2>1, <2>2, <2>3
<1>4. IsSeq(t)
  BY <1>3, SeqIsSeq
<1>5. \A n \in 1 .. Len(t) : n <= Len(s) => n \in DOMAIN s
  BY <1>1, <1>3
<1>6. DOMAIN t = 1 .. Len(t)
  BY <1>4, SeqFacts
<1> HIDE DEF t
<1>7. \A n \in DOMAIN t : (n \in DOMAIN s /\ t[n] = s[n]) \/ t[n] = x
  BY <1>3, <1>5, <1>6
<1> QED BY Zenon, <1>4, <1>7 DEF t

\* What Append does to a sequence over a set.
LEMMA AppendAt ==
  ASSUME NEW S, NEW s \in Seq(S), NEW x \in S
  PROVE  /\ DOMAIN Append(s, x) = 1 .. Len(s) + 1
         /\ Append(s, x)[Len(s) + 1] = x
         /\ \A k \in 1 .. Len(s) : Append(s, x)[k] = s[k]
<1>1. Append(s, x) \in Seq(S) /\ Len(Append(s, x)) = Len(s) + 1
  BY AppendProperties
<1>2. DOMAIN Append(s, x) = 1 .. Len(Append(s, x))
  BY <1>1, LenProperties
<1> QED BY <1>1, <1>2, AppendProperties

\* Length and elements of a concatenation.
LEMMA Catenated ==
  ASSUME NEW a, NEW b, IsSeq(a), IsSeq(b)
  PROVE  /\ IsSeq(a \o b) /\ Len(a \o b) = Len(a) + Len(b)
         /\ \A k \in 1 .. Len(a) : (a \o b)[k] = a[k]
         /\ \A k \in 1 .. Len(b) : (a \o b)[Len(a) + k] = b[k]
<1> DEFINE A == {a[k] : k \in DOMAIN a}
           B == {b[k] : k \in DOMAIN b}
           S == A \cup B
           c == a \o b
<1>1. a \in Seq(S) /\ b \in Seq(S)
  BY SeqMono DEF IsSeq
<1> HIDE DEF S
<1>2. /\ c \in Seq(S) /\ Len(c) = Len(a) + Len(b)
      /\ \A k \in 1 .. Len(a) : c[k] = a[k]
      /\ \A k \in 1 .. Len(b) : c[Len(a) + k] = b[k]
  BY <1>1
<1>3. IsSeq(c)
  BY <1>2, SeqIsSeq
<1> QED BY <1>2, <1>3

\* The least index of a sequence with some property has the property.
LEMMA MinFacts ==
  ASSUME NEW S, S \subseteq Nat, S # {}
  PROVE  Min(S) \in S
<1> DEFINE Less == {ss \in Nat \X Nat : ss[1] < ss[2]}
<1>1. IsWellFoundedOn(Less, Nat)
  BY NatLessThanWellFounded DEF OpToRel
<1>2. PICK x \in S : \A y \in S : ~(<<y, x>> \in Less)
  <2> HIDE DEF Less
  <2> QED BY <1>1, WFMin
<1>3. ASSUME NEW y \in S PROVE x <= y
  <2>1. x \in Nat /\ y \in Nat /\ <<y, x>> \notin Less
    BY <1>2
  <2> QED BY <2>1
<1> QED BY <1>3 DEF Min

-----------------------------------------------------------------------------
(* Message 1                                                               *)

\* What is assumed of an initiator's context.
LEMMA InitiatorContextFacts ==
  ASSUME NEW c \in InitiatorContexts
  PROVE  /\ c.suites_i \in Seq(0 .. 255) /\ IsCx(c.c_i)
         /\ c.ead_1 \in Seq(STRING) /\ c.ead_3 \in Seq(STRING)
         /\ IsIdCred(c.id_cred_i) /\ IsCred(c.cred_i) /\ IsCredArray(c.cred_r_array)
BY ContextsAssumption

\* What is assumed of a responder's context.
LEMMA ResponderContextFacts ==
  ASSUME NEW c \in ResponderContexts
  PROVE  IsCx(c.c_r) /\ IsIdCred(c.id_cred_r) /\ IsCred(c.cred_r) /\ IsCredArray(c.cred_i_array)
BY ContextsAssumption

\* SUITES_I as msg1_gen passes it to the encoder.
Suites(c) ==
  IF Len(c.suites_i) = 1 THEN int(c.suites_i[1])
  ELSE list([k \in DOMAIN c.suites_i |-> int(c.suites_i[k])])

\* The items of a message 1.
LEMMA Message1Items ==
  ASSUME NEW c, NEW msg1 \in msg1_gen(c)
  PROVE  /\ msg1[1] = int(c.method) /\ msg1[2] = Suites(c)
         /\ msg1[3] = bstr(c.x) /\ msg1[4] = c.c_i
         /\ c.ead_1 = <<>> => DOMAIN msg1 = 1 .. 4
         /\ c.ead_1 # <<>> => DOMAIN msg1 = 1 .. 5 /\ msg1[5] = bstr(c.ead_1)
<1> DEFINE items == <<int(c.method), Suites(c), bstr(c.x), c.c_i>>
           all == Append(items, bstr(c.ead_1))
<1>1. \/ c.ead_1 # <<>> /\ msg1 = all
      \/ c.ead_1 = <<>> /\ msg1 = items
  BY Zenon DEF msg1_gen, cbor_encode_message_1, Suites
<1>2. /\ DOMAIN all = 1 .. 5 /\ all[5] = bstr(c.ead_1)
      /\ \A k \in 1 .. 4 : all[k] = items[k]
  <2> DEFINE S == {int(c.method), Suites(c), bstr(c.x), c.c_i, bstr(c.ead_1)}
  <2>1. items \in Seq(S) /\ bstr(c.ead_1) \in S
    OBVIOUS
  <2>2. Len(items) = 4
    OBVIOUS
  <2> HIDE DEF items, S
  <2>3. /\ DOMAIN all = 1 .. Len(items) + 1
        /\ all[Len(items) + 1] = bstr(c.ead_1)
        /\ \A k \in 1 .. Len(items) : all[k] = items[k]
    BY <2>1, AppendAt
  <2> HIDE DEF all
  <2> QED BY <2>2, <2>3
<1>3. /\ DOMAIN items = 1 .. 4 /\ items[1] = int(c.method)
      /\ items[2] = Suites(c) /\ items[3] = bstr(c.x) /\ items[4] = c.c_i
  OBVIOUS
<1> HIDE DEF items, all
<1>4. CASE c.ead_1 # <<>> /\ msg1 = all
  BY <1>2, <1>3, <1>4
<1>5. CASE c.ead_1 = <<>> /\ msg1 = items
  BY <1>3, <1>5
<1> QED BY <1>1, <1>4, <1>5

\* What msg1_parse decodes is what msg1_gen was given.
LEMMA Message1Decoded ==
  ASSUME NEW c \in InitiatorContexts, NEW msg1 \in msg1_gen(c),
         NEW m \in cbor_decode_message_1(msg1)
  PROVE  /\ m.method = c.method /\ m.suites = Suites(c)
         /\ m.g_x = c.x /\ m.c_i = c.c_i
         /\ m.ead_1 = IF c.ead_1 = <<>> THEN {} ELSE {c.ead_1}
<1>1. m = [method |-> msg1[1][2], suites |-> msg1[2], g_x |-> msg1[3][2],
           c_i |-> msg1[4],
           ead_1 |-> {msg1[k][2] : k \in {n \in {5} : Is(msg1, n, {"bstr"})}}]
  BY Zenon DEF cbor_decode_message_1
<1>2. CASE c.ead_1 = <<>>
  <2>1. ~ Is(msg1, 5, {"bstr"})
    BY <1>2, Message1Items DEF Is
  <2> QED BY <1>1, <1>2, <2>1, Message1Items DEF int, bstr
<1>3. CASE c.ead_1 # <<>>
  <2>1. msg1[5][2] = c.ead_1 /\ Is(msg1, 5, {"bstr"})
    BY <1>3, Message1Items DEF Is, bstr
  <2>2. m.ead_1 = {c.ead_1}
    BY <1>1, <2>1
  <2> QED BY <1>1, <1>3, <2>2, Message1Items DEF int, bstr
<1> QED BY <1>2, <1>3

\* The list of suites msg1_parse makes of SUITES_I is that of the context.
LEMMA SuitesParsed ==
  ASSUME NEW c \in InitiatorContexts
  PROVE  LET s == Suites(c)
             suites == IF s[1] = "int" THEN <<s>> ELSE s[2]
         IN  [k \in DOMAIN suites |-> suites[k][2] % 256] = c.suites_i
<1> DEFINE s == Suites(c)
           suites == IF s[1] = "int" THEN <<s>> ELSE s[2]
<1>1. c.suites_i \in Seq(0 .. 255)
  BY InitiatorContextFacts
<1>2. /\ \A k \in DOMAIN c.suites_i : c.suites_i[k] \in 0 .. 255
      /\ c.suites_i = [k \in DOMAIN c.suites_i |-> c.suites_i[k]]
  BY ZenonT(40), <1>1, LenProperties
<1>3. \A n \in 0 .. 255 : n % 256 = n
  OBVIOUS
<1>4. DOMAIN suites = DOMAIN c.suites_i
      /\ \A k \in DOMAIN c.suites_i : suites[k][2] = c.suites_i[k]
  <2>1. CASE Len(c.suites_i) = 1
    <3>1. suites = <<int(c.suites_i[1])>>
      BY <2>1 DEF Suites, int
    <3> QED BY <1>1, <2>1, <3>1 DEF int
  <2>2. CASE Len(c.suites_i) # 1
    <3>1. suites = [k \in DOMAIN c.suites_i |-> int(c.suites_i[k])]
      BY <2>2 DEF Suites, list
    <3> QED BY <3>1 DEF int
  <2> QED BY <2>1, <2>2
<1> HIDE DEF suites
<1>5. [k \in DOMAIN suites |-> suites[k][2] % 256] =
        [k \in DOMAIN c.suites_i |-> c.suites_i[k]]
  BY <1>2, <1>3, <1>4
<1> QED BY <1>2, <1>5 DEF suites

\* What a successful msg1_parse returns, of any data: EAD_1 fits its buffer.
LEMMA ParseResult ==
  ASSUME NEW items, NEW n, msg1_parse(items, n).err = "ok"
  PROVE  \E m \in cbor_decode_message_1(items) :
           LET p == msg1_parse(items, n)
               suites == IF m.suites[1] = "int" THEN <<m.suites>> ELSE m.suites[2]
           IN  /\ p.method = m.method /\ p.g_x = m.g_x /\ p.c_i = c_x_set(m.c_i, 0)
               /\ p.suites_i = [k \in DOMAIN suites |-> suites[k][2] % 256]
               /\ p.ead_1 = m.ead_1 /\ ~ \E ead \in m.ead_1 : Len(ead) > n
<1> DEFINE D == cbor_decode_message_1(items)
           m == CHOOSE m \in D : TRUE
           suites == IF m.suites[1] = "int" THEN <<m.suites>> ELSE m.suites[2]
           result == [err |-> "ok", method |-> m.method,
                      suites_i |-> [k \in DOMAIN suites |-> suites[k][2] % 256],
                      g_x |-> m.g_x, c_i |-> c_x_set(m.c_i, 0), ead_1 |-> m.ead_1]
           p == msg1_parse(items, n)
<1>1. \/ p \in {Failed("unexpected_result_from_ext_lib"),
                Failed("suites_i_list_to_long"), Failed("buffer_to_small")}
      \/ /\ D # {} /\ ~ \E ead \in m.ead_1 : Len(ead) > n
         /\ p = result
  BY Zenon DEF msg1_parse
<1>2. p = result /\ D # {} /\ ~ \E ead \in m.ead_1 : Len(ead) > n
  <2>1. \A e : Failed(e).err = e
    BY DEF Failed
  <2>2. p.err = "ok"
    OBVIOUS
  <2> HIDE DEF p, result, D, m
  <2> QED BY <1>1, <2>1, <2>2
<1>3. m \in D
  BY <1>2
<1>4. /\ p.method = m.method /\ p.g_x = m.g_x /\ p.c_i = c_x_set(m.c_i, 0)
      /\ p.suites_i = [k \in DOMAIN suites |-> suites[k][2] % 256]
      /\ p.ead_1 = m.ead_1
  BY <1>2
<1> HIDE DEF p, m, D
<1> QED BY Zenon, <1>2, <1>3, <1>4 DEF p, D

\* The responder reads in a message 1 what the initiator wrote into it.
LEMMA Message1Parsed ==
  ASSUME NEW c \in InitiatorContexts, NEW msg1 \in msg1_gen(c),
         NEW n \in Nat, msg1_parse(msg1, n).err = "ok"
  PROVE  LET p == msg1_parse(msg1, n)
         IN  /\ p.method = c.method /\ p.suites_i = c.suites_i /\ p.g_x = c.x
             /\ c.c_i[1] = "int" => p.c_i = c.c_i
             /\ p.ead_1 = IF c.ead_1 = <<>> THEN {} ELSE {c.ead_1}
             /\ c.ead_1 # <<>> => Len(c.ead_1) <= n
<1> DEFINE p == msg1_parse(msg1, n)
           List(s) == IF s[1] = "int" THEN <<s>> ELSE s[2]
           Values(s) == [k \in DOMAIN List(s) |-> List(s)[k][2] % 256]
<1>1. PICK m \in cbor_decode_message_1(msg1) :
        /\ p.method = m.method /\ p.g_x = m.g_x /\ p.c_i = c_x_set(m.c_i, 0)
        /\ p.suites_i = Values(m.suites)
        /\ p.ead_1 = m.ead_1 /\ ~ \E ead \in m.ead_1 : Len(ead) > n
  BY Zenon, ParseResult
<1>2. /\ m.method = c.method /\ m.suites = Suites(c)
      /\ m.g_x = c.x /\ m.c_i = c.c_i
      /\ m.ead_1 = IF c.ead_1 = <<>> THEN {} ELSE {c.ead_1}
  BY Message1Decoded
<1>3. Values(Suites(c)) = c.suites_i
  BY Zenon, SuitesParsed
<1> HIDE DEF p, Values
<1>4. p.suites_i = c.suites_i
  BY <1>1, <1>2, <1>3
<1>5. c.c_i[1] = "int" => p.c_i = c.c_i
  BY <1>1, <1>2 DEF c_x_set
<1>6. c.ead_1 # <<>> => Len(c.ead_1) <= n
  <2>1. Len(c.ead_1) \in Nat
    BY InitiatorContextFacts
  <2> QED BY <1>1, <1>2, <2>1
<1> QED BY <1>1, <1>2, <1>4, <1>5, <1>6 DEF p

\* What the EAD_1 of a message 1 does to the responder's buffer.
LEMMA Ead1Stored ==
  ASSUME NEW r, r.ad_1_len \in 0 .. AD_DEFAULT_SIZE, NEW ead \in Seq(STRING),
         DOMAIN r = {"c", "pc", "peer", "view", "rc", "ad_1", "ad_1_len",
           "ad_3_len", "id_cred_i", "prk_4x3m", "th4", "accepted"},
         ead # <<>> => Len(ead) <= r.ad_1_len,
         NEW set, set = IF ead = <<>> THEN {} ELSE {ead},
         NEW s, s = AfterEad1(r, set)
  PROVE  /\ s.ad_1_len \in 0 .. r.ad_1_len
         /\ ead # <<>> => s.ad_1 = ead /\ s.ad_1_len = Len(ead)
         /\ DOMAIN s = DOMAIN r
         /\ \A f \in DOMAIN r \ {"ad_1", "ad_1_len"} : s[f] = r[f]
<1>1. ASSUME NEW a, NEW n, s = [r EXCEPT !.ad_1 = a, !.ad_1_len = n]
      PROVE  /\ s.ad_1 = a /\ s.ad_1_len = n /\ DOMAIN s = DOMAIN r
             /\ \A f \in DOMAIN r \ {"ad_1", "ad_1_len"} : s[f] = r[f]
  BY <1>1
<1>2. CASE ead = <<>>
  <2>1. s = [r EXCEPT !.ad_1 = r.ad_1, !.ad_1_len = r.ad_1_len]
    BY Zenon, <1>2 DEF AfterEad1
  <2>2. /\ s.ad_1_len = r.ad_1_len /\ DOMAIN s = DOMAIN r
        /\ \A f \in DOMAIN r \ {"ad_1", "ad_1_len"} : s[f] = r[f]
    BY Zenon, <1>1, <2>1
  <2>3. s.ad_1_len \in 0 .. r.ad_1_len
    BY <2>2, AdAssumption
  <2> QED BY <1>2, <2>2, <2>3
<1>3. CASE ead # <<>>
  <2>1. (CHOOSE e \in {ead} : TRUE) = ead
    OBVIOUS
  <2>2. s = [r EXCEPT !.ad_1 = ead, !.ad_1_len = Len(ead)]
    BY <1>3, <2>1 DEF AfterEad1
  <2>3. /\ s.ad_1 = ead /\ s.ad_1_len = Len(ead) /\ DOMAIN s = DOMAIN r
        /\ \A f \in DOMAIN r \ {"ad_1", "ad_1_len"} : s[f] = r[f]
    BY Zenon, <1>1, <2>2
  <2>4. Len(ead) \in Nat
    OBVIOUS
  <2>5. s.ad_1_len \in 0 .. r.ad_1_len
    BY <1>3, <2>3, <2>4, AdAssumption
  <2> QED BY <1>3, <2>3, <2>5
<1> QED BY <1>2, <1>3

-----------------------------------------------------------------------------
(* Plaintexts                                                              *)

\* The map has one label: what the encoder of ID_CRED_x makes.
SingleLabel(id_cred) ==
  \A cred \in cbor_decode_id_cred_x_map(id_cred) :
    \E label \in Labels : DOMAIN cred = {label}

\* Three items behind each other.
LEMMA ThreeItems ==
  ASSUME NEW a, NEW b, NEW c
  PROVE  LET s == <<a>> \o <<b>> \o <<c>>
         IN  /\ IsSeq(s) /\ Len(s) = 3
             /\ s[1] = a /\ s[2] = b /\ s[3] = c
<1> DEFINE S == {a, b, c}
<1>1. <<a>> \in Seq(S) /\ <<b>> \in Seq(S) /\ <<c>> \in Seq(S)
  OBVIOUS
<1> HIDE DEF S
<1>2. PICK ab : ab = <<a>> \o <<b>>
  OBVIOUS
<1>3. ab \in Seq(S) /\ Len(ab) = 2 /\ ab[1] = a /\ ab[2] = b
  BY <1>1, <1>2
<1>4. PICK s : s = ab \o <<c>>
  OBVIOUS
<1>5. IsSeq(ab) /\ IsSeq(<<c>>) /\ Len(<<c>>) = 1 /\ <<c>>[1] = c
  BY <1>3, SeqIsSeq, SingleSeq
<1>6. /\ IsSeq(s) /\ Len(s) = Len(ab) + 1 /\ s[Len(ab) + 1] = c
      /\ \A k \in 1 .. Len(ab) : s[k] = ab[k]
  BY <1>4, <1>5, Catenated
<1> QED BY <1>2, <1>3, <1>4, <1>6

\* A plaintext is an identifier, the MAC or signature and the EAD.
LEMMA PlaintextItems ==
  ASSUME NEW id_cred, id_cred = <<id_cred[1]>>, NEW sgn_or_mac, NEW ead,
         NEW ptxt \in plaintext_encode(id_cred, sgn_or_mac, ead)
  PROVE  /\ Len(ptxt) = 3 /\ ptxt[2] = bstr(sgn_or_mac) /\ ptxt[3] = raw(ead)
<1>1. PICK k \in id_cred2kid(id_cred) :
        ptxt = (IF k = <<>> THEN id_cred ELSE k)
                 \o cbor_encode_bstr_type_b_str(sgn_or_mac) \o <<raw(ead)>>
  BY Zenon DEF plaintext_encode
<1>2. \E x : (IF k = <<>> THEN id_cred ELSE k) = <<x>>
  <2>1. k = <<>> \/ \E x : k = <<x>>
    BY Zenon DEF id_cred2kid, cbor_encode_int_type_i
  <2> QED BY Zenon, <2>1
<1>3. PICK x : ptxt = <<x>> \o <<bstr(sgn_or_mac)>> \o <<raw(ead)>>
  BY Zenon, <1>1, <1>2 DEF cbor_encode_bstr_type_b_str
<1> QED BY <1>3, ThreeItems

\* The map encoded for a label has that label.
LEMMA LabelEncoded ==
  ASSUME NEW label \in Labels, NEW item
  PROVE  SingleLabel(cbor_encode_id_cred_x_map(label, item))
<1> DEFINE items == cbor_encode_id_cred_x_map(label, item)
           entries == items[1][2]
           labels == {entries[k][1] : k \in DOMAIN entries}
<1>1. entries = <<<<label, item>>>>
  BY DEF cbor_encode_id_cred_x_map, map
<1>2. labels = {label}
  BY <1>1
<1>3. \A cred \in cbor_decode_id_cred_x_map(items) : DOMAIN cred = labels
  <2> SUFFICES ASSUME NEW cred \in cbor_decode_id_cred_x_map(items)
               PROVE  DOMAIN cred = labels
    OBVIOUS
  <2>1. cred = [l \in labels |->
                 entries[CHOOSE k \in DOMAIN entries : entries[k][1] = l][2]]
    BY Zenon DEF cbor_decode_id_cred_x_map
  <2> HIDE DEF labels, entries
  <2> QED BY <2>1
<1> HIDE DEF items, labels
<1> QED BY <1>2, <1>3 DEF SingleLabel, items

\* The maps plaintext_split rebuilds have one label.
LEMMA LabelRebuilt ==
  ASSUME NEW label \in {kid, x5t, x5chain}, NEW item
  PROVE  LET id_cred == id_cred_x_encode(label, item)
         IN  SingleLabel(id_cred) /\ id_cred = <<id_cred[1]>>
<1>1. label \in Labels /\ x5t \in Labels
  BY DEF Labels
<1>2. id_cred_x_encode(label, item) = cbor_encode_id_cred_x_map(label, item)
      \/ \E x : id_cred_x_encode(label, item) = cbor_encode_id_cred_x_map(x5t, x)
  BY Zenon DEF id_cred_x_encode
<1>3. PICK l, x :
        /\ l \in Labels
        /\ id_cred_x_encode(label, item) = cbor_encode_id_cred_x_map(l, x)
  BY Zenon, <1>1, <1>2
<1>4. cbor_encode_id_cred_x_map(l, x) = <<cbor_encode_id_cred_x_map(l, x)[1]>>
  BY DEF cbor_encode_id_cred_x_map
<1> QED BY <1>3, <1>4, LabelEncoded

\* What a plaintext is split into.
LEMMA PlaintextSplit ==
  ASSUME NEW ptxt, NEW sgn_or_mac, NEW ead,
         Len(ptxt) = 3, ptxt[2] = bstr(sgn_or_mac), ptxt[3] = raw(ead),
         NEW n \in Nat, NEW leftover, NEW p \in plaintext_split(ptxt, leftover, n)
  PROVE  /\ p.sgn_or_mac = sgn_or_mac
         /\ ead \in Seq(STRING) => Len(p.ad) \in 0 .. n
         /\ \/ p.id_cred = leftover
            \/ SingleLabel(p.id_cred) /\ p.id_cred = <<p.id_cred[1]>>
<1> DEFINE Given(q) == CHOOSE m \in cbor_decode_id_cred_x_map(<<q.id_cred>>) : TRUE
           IdCred(q) ==
             IF q.id_cred[1] = "int" THEN id_cred_x_encode(kid, q.id_cred)
             ELSE IF q.id_cred[1] = "bstr"
               THEN id_cred_x_encode(kid, int(Uninitialized))
             ELSE IF x5t \in DOMAIN Given(q)
               THEN id_cred_x_encode(x5t, Given(q)[x5t])
             ELSE IF x5chain \in DOMAIN Given(q)
               THEN id_cred_x_encode(x5chain, Given(q)[x5chain])
             ELSE leftover
           Ad(q) == IF q.ad = {} THEN <<>> ELSE CHOOSE ad \in q.ad : TRUE
<1>1. PICK q \in cbor_decode_plaintext(ptxt) :
        /\ \A ad \in q.ad : Len(ad) <= n
        /\ p = [id_cred |-> IdCred(q), sgn_or_mac |-> q.sgn_or_mac, ad |-> Ad(q)]
  BY Zenon DEF plaintext_split
<1>2. /\ q.sgn_or_mac = ptxt[2][2]
      /\ q.ad = cbor_decode_bstr_type_b_str(<<Read(ptxt[3])>>)
  <2>1. q = [id_cred |-> ptxt[1], sgn_or_mac |-> ptxt[2][2],
             ad |-> cbor_decode_bstr_type_b_str(
                      IF Len(ptxt) > 2 THEN <<Read(ptxt[3])>> ELSE <<>>)]
    BY Zenon DEF cbor_decode_plaintext
  <2>2. Len(ptxt) > 2
    OBVIOUS
  <2> QED BY <2>1, <2>2
<1>3. IdCred(q) = leftover
      \/ \E label \in {kid, x5t, x5chain} : \E item :
           IdCred(q) = id_cred_x_encode(label, item)
  BY Zenon
<1>4. p.id_cred = IdCred(q) /\ p.sgn_or_mac = q.sgn_or_mac /\ p.ad = Ad(q)
  <2> HIDE DEF IdCred, Ad
  <2> QED BY <1>1
<1>5. ASSUME ead \in Seq(STRING) PROVE Len(Ad(q)) \in 0 .. n
  <2>1. q.ad = {} \/ (q.ad = {Tail(ead)} /\ ead # <<>>)
    <3>1. \/ Read(ptxt[3]) = bstr(Tail(ead)) /\ ead # <<>>
          \/ Read(ptxt[3]) = raw(ead)
      BY DEF Read, raw
    <3>2. ASSUME NEW b
          PROVE  cbor_decode_bstr_type_b_str(<<bstr(b)>>) = {b}
                 /\ cbor_decode_bstr_type_b_str(<<raw(b)>>) = {}
      BY DEF cbor_decode_bstr_type_b_str, bstr, raw, Is
    <3> QED BY Zenon, <1>2, <3>1, <3>2
  <2>2. CASE q.ad = {}
    BY <2>2
  <2>3. CASE q.ad = {Tail(ead)} /\ ead # <<>>
    <3>1. Len(Tail(ead)) \in Nat
      BY <1>5, <2>3
    <3>2. Len(Tail(ead)) <= n
      BY <1>1, <2>3
    <3>3. Ad(q) = Tail(ead)
      BY <2>3
    <3> HIDE DEF Ad
    <3> QED BY <3>1, <3>2, <3>3
  <2> QED BY <2>1, <2>2, <2>3
<1> HIDE DEF IdCred, Ad
<1>6. \/ p.id_cred = leftover
      \/ SingleLabel(p.id_cred) /\ p.id_cred = <<p.id_cred[1]>>
  <2>1. CASE IdCred(q) = leftover
    BY Zenon, <1>4, <2>1
  <2>2. CASE \E label \in {kid, x5t, x5chain} : \E item :
               IdCred(q) = id_cred_x_encode(label, item)
    <3>1. PICK label \in {kid, x5t, x5chain} :
            \E item : IdCred(q) = id_cred_x_encode(label, item)
      BY <2>2
    <3>2. PICK item : IdCred(q) = id_cred_x_encode(label, item)
      BY <3>1
    <3>3. p.id_cred = id_cred_x_encode(label, item)
      BY <1>4, <3>2
    <3> QED BY Zenon, <3>3, LabelRebuilt
  <2> QED BY <1>3, <2>1, <2>2
<1>7. p.sgn_or_mac = sgn_or_mac
  BY <1>2, <1>4 DEF bstr
<1> QED BY <1>4, <1>5, <1>6, <1>7

-----------------------------------------------------------------------------
(* Credentials                                                             *)

\* An error is no success.
LEMMA FailedFacts ==
  \A error : Failed(error).err = error
BY DEF Failed

\* The key of a CA is that of an entry whose CA's name begins the issuer's.
LEMMA CaOfIssuer ==
  ASSUME NEW arr, IsSeq(arr), NEW issuer, ca_pk_get(arr, issuer).err = "ok"
  PROVE  \E k \in DOMAIN arr :
           IsPrefix(arr[k].ca, issuer) /\ ca_pk_get(arr, issuer).root_pk = arr[k].ca_pk
<1> DEFINE known == {k \in DOMAIN arr : IsPrefix(arr[k].ca, issuer)}
           ca == ca_pk_get(arr, issuer)
<1>1. known # {} /\ ca = [err |-> "ok", root_pk |-> arr[Min(known)].ca_pk]
  <2>1. \/ ca = Failed("no_such_ca")
        \/ known # {} /\ ca = [err |-> "ok", root_pk |-> arr[Min(known)].ca_pk]
    BY Zenon DEF ca_pk_get
  <2> HIDE DEF known
  <2> QED BY <2>1, FailedFacts
<1>2. known \subseteq Nat
  BY SeqFacts
<1>3. Min(known) \in known
  <2> HIDE DEF known
  <2> QED BY <1>1, <1>2, MinFacts
<1>4. ca.root_pk = arr[Min(known)].ca_pk
  BY <1>1
<1> QED BY Zenon, <1>3, <1>4

\* A certificate is verified with the key of a known CA.
LEMMA X509Signed ==
  ASSUME NEW arr, IsSeq(arr), NEW cert,
         cert_x509_verify(cert, arr).err = "ok", cert_x509_verify(cert, arr).verified
  PROVE  SignedByKnownCa(arr, cert)
<1> DEFINE ca == ca_pk_get(arr, issuer_id(cert))
           v == cert_x509_verify(cert, arr)
           Accepts == verify("ES256", ca.root_pk, cert[2], deser_sign(cert))
<1>1. \/ v = [err |-> "ok", pk |-> NoKey, verified |-> FALSE]
      \/ v = ca /\ ca.err # "ok"
      \/ v = Failed("unexpected_result_from_ext_lib")
      \/ v = Failed("unsupported_signature_algorithm")
      \/ ca.err = "ok" /\ v = [err |-> "ok", pk |-> cert[2][3], verified |-> Accepts]
  BY Zenon DEF cert_x509_verify
<1>2. v # Failed("unexpected_result_from_ext_lib")
      /\ v # Failed("unsupported_signature_algorithm")
  BY FailedFacts
<1>3. ca.err = "ok" /\ Accepts
  <2>1. \A x, b : [err |-> "ok", pk |-> x, verified |-> b].verified = b
    BY Zenon
  <2> HIDE DEF Accepts, ca, v
  <2>2. v # [err |-> "ok", pk |-> NoKey, verified |-> FALSE]
    <3>1. v.verified
      BY DEF v
    <3> QED BY Zenon, <2>1, <3>1
  <2>3. v.err = "ok" /\ v.verified
    BY DEF v
  <2>4. ~ (v = ca /\ ca.err # "ok")
    BY Zenon, <2>3
  <2>5. ca.err = "ok" /\ v = [err |-> "ok", pk |-> cert[2][3], verified |-> Accepts]
    BY Zenon, <1>1, <1>2, <2>2, <2>4
  <2> QED BY Zenon, <2>1, <2>3, <2>5
<1>4. PICK k \in DOMAIN arr :
        IsPrefix(arr[k].ca, issuer_id(cert)) /\ ca.root_pk = arr[k].ca_pk
  BY Zenon, <1>3, CaOfIssuer
<1>5. deser_sign(cert) = sign("ES256", arr[k].ca_pk, cert[2])
  BY Zenon, <1>3, <1>4 DEF verify
<1>6. deser_sign(cert) = cert[3]
  <2>1. <<"garbage">> # sign("ES256", arr[k].ca_pk, cert[2])
    BY DEF sign
  <2> QED BY Zenon, <1>5, <2>1 DEF deser_sign
<1> QED BY Zenon, <1>4, <1>5, <1>6 DEF SignedByKnownCa

\* Where a credential comes from.
LEMMA CredentialFound ==
  ASSUME NEW static_dh, NEW arr, NEW id_cred,
         retrieve_cred(static_dh, arr, id_cred).err = "ok"
  PROVE  LET found == retrieve_cred(static_dh, arr, id_cred)
             present == CHOOSE m \in cbor_decode_id_cred_x_map(id_cred) : TRUE
             certs == {k \in DOMAIN certificate_labels :
                         certificate_labels[k] \in DOMAIN present}
             label == certificate_labels[Min(certs)]
         IN  \/ /\ DOMAIN present \cap {kid, x5u, x5t, c5u, c5t} # {}
                /\ found = get_local_cred(static_dh, arr, id_cred)
             \/ found = verify_cert2cred(arr, label, present[label][2])
<1>1. \A error : error # "ok" =>
        retrieve_cred(static_dh, arr, id_cred) # Failed(error)
  BY FailedFacts
<1>2. "unexpected_result_from_ext_lib" # "ok" /\ "credential_not_found" # "ok"
  OBVIOUS
<1> QED BY Zenon, <1>1, <1>2 DEF retrieve_cred

\* A credential is encoded data.
LEMMA CredentialEncoded ==
  ASSUME NEW static_dh, NEW arr, IsCredArray(arr), NEW id_cred,
         retrieve_cred(static_dh, arr, id_cred).err = "ok"
  PROVE  IsSeq(retrieve_cred(static_dh, arr, id_cred).cred)
<1> DEFINE found == retrieve_cred(static_dh, arr, id_cred)
<1>1. \/ found = get_local_cred(static_dh, arr, id_cred)
      \/ \E label, cert : found = verify_cert2cred(arr, label, cert)
  BY ZenonT(40), CredentialFound
<1>2. CASE found = get_local_cred(static_dh, arr, id_cred)
  <2> DEFINE known == {k \in DOMAIN arr : arr[k].id_cred = id_cred}
             entry == arr[Min(known)]
             key == IF static_dh THEN entry.g ELSE entry.pk
  <2>1. \/ found = Failed("credential_not_found")
        \/ known # {} /\ found = [err |-> "ok", cred |-> entry.cred, key |-> key]
    BY Zenon, <1>2 DEF get_local_cred
  <2>2. known \subseteq Nat
    BY SeqFacts DEF IsCredArray
  <2> HIDE DEF known, key
  <2>3. known # {} /\ found.cred = entry.cred
    BY <2>1, FailedFacts
  <2>4. Min(known) \in known
    BY <2>2, <2>3, MinFacts
  <2>5. Min(known) \in DOMAIN arr
    BY <2>4 DEF known
  <2> QED BY <2>3, <2>5 DEF IsCredArray, IsCred
<1>3. CASE \E label, cert : found = verify_cert2cred(arr, label, cert)
  <2>1. PICK label, cert : found = verify_cert2cred(arr, label, cert)
    BY <1>3
  <2> DEFINE v == IF label \in {x5bag, x5chain} THEN cert_x509_verify(cert, arr)
                  ELSE cert_c509_verify(cert, arr)
  <2>2. \/ found = v /\ v.err # "ok"
        \/ found = Failed("certificate_authentication_failed")
        \/ found = [err |-> "ok", cred |-> cbor_encode_bstr_type_b_str(cert),
                    key |-> v.pk]
    BY Zenon, <2>1 DEF verify_cert2cred
  <2> HIDE DEF v
  <2>3. found.cred = <<bstr(cert)>>
    BY <2>2, FailedFacts DEF cbor_encode_bstr_type_b_str
  <2> QED BY <2>3, SingleSeq
<1> QED BY <1>1, <1>2, <1>3

\* A certificate chain is accepted with the signature of a known CA.
LEMMA ChainSigned ==
  ASSUME NEW static_dh, NEW arr, IsSeq(arr), NEW id_cred, SingleLabel(id_cred),
         retrieve_cred(static_dh, arr, id_cred).err = "ok",
         NEW cred \in cbor_decode_id_cred_x_map(id_cred), x5chain \in DOMAIN cred
  PROVE  SignedByKnownCa(arr, cred[x5chain][2])
<1> DEFINE found == retrieve_cred(static_dh, arr, id_cred)
           present == CHOOSE m \in cbor_decode_id_cred_x_map(id_cred) : TRUE
           certs == {k \in DOMAIN certificate_labels :
                       certificate_labels[k] \in DOMAIN present}
           label == certificate_labels[Min(certs)]
<1>1. \A m \in cbor_decode_id_cred_x_map(id_cred) : m = cred
  BY Zenon DEF cbor_decode_id_cred_x_map
<1>2. present = cred
  BY Zenon, <1>1
<1>3. DOMAIN present = {x5chain}
  BY <1>2 DEF SingleLabel
<1>4. label = x5chain
  <2> HIDE DEF present
  <2>1. certs = {1}
    BY <1>3 DEF certificate_labels, x5chain, x5bag, c5c, c5b
  <2>2. Min({1}) = 1
    BY MinFacts
  <2> HIDE DEF certs
  <2> QED BY <2>1, <2>2 DEF certificate_labels
<1>5. found = verify_cert2cred(arr, label, present[label][2])
  <2>1. DOMAIN present \cap {kid, x5u, x5t, c5u, c5t} = {}
    <3> HIDE DEF present
    <3> QED BY <1>3 DEF x5chain, kid, x5u, x5t, c5u, c5t
  <2> QED BY Zenon, <2>1, CredentialFound
<1> DEFINE cert == cred[x5chain][2]
           v == cert_x509_verify(cert, arr)
<1>6. found = verify_cert2cred(arr, x5chain, cert)
  BY <1>2, <1>4, <1>5
<1>7. \/ found = v /\ v.err # "ok"
      \/ found = Failed("certificate_authentication_failed")
      \/ v.err = "ok" /\ v.verified
  <2>1. x5chain \in {x5bag, x5chain}
    OBVIOUS
  <2> QED BY Zenon, <1>6, <2>1 DEF verify_cert2cred
<1>8. v.err = "ok" /\ v.verified
  <2>1. found # Failed("certificate_authentication_failed")
    BY FailedFacts
  <2> QED BY Zenon, <1>7, <2>1
<1> QED BY Zenon, <1>8, X509Signed

-----------------------------------------------------------------------------
(* Authentication                                                          *)

\* Sequences of the same length and elements are equal.
LEMMA SameSeq ==
  ASSUME NEW a, NEW b, IsSeq(a), IsSeq(b), Len(a) = Len(b),
         \A k \in 1 .. Len(a) : a[k] = b[k]
  PROVE  a = b
<1> DEFINE A == {a[k] : k \in DOMAIN a}
           B == {b[k] : k \in DOMAIN b}
           S == A \cup B
<1>1. a \in Seq(S) /\ b \in Seq(S)
  BY SeqMono DEF IsSeq
<1> HIDE DEF S
<1> QED BY <1>1, SeqEqual

\* What the MAC covers, item by item.
LEMMA ContextItems ==
  ASSUME NEW id_cred, IsSeq(id_cred), NEW cred, IsSeq(cred), NEW ead
  PROVE  LET c == context_mac(id_cred, cred, ead)
         IN  /\ Len(c) = Len(id_cred) + Len(cred) + 1
             /\ \A k \in 1 .. Len(id_cred) : c[k] = id_cred[k]
             /\ \A k \in 1 .. Len(cred) : c[Len(id_cred) + k] = cred[k]
<1>1. PICK both : both = id_cred \o cred
  OBVIOUS
<1>2. IsSeq(both) /\ Len(both) = Len(id_cred) + Len(cred)
      /\ (\A k \in 1 .. Len(id_cred) : both[k] = id_cred[k])
      /\ (\A k \in 1 .. Len(cred) : both[Len(id_cred) + k] = cred[k])
  BY <1>1, Catenated
<1>3. PICK end : end = <<raw(ead)>>
  OBVIOUS
<1>4. IsSeq(end) /\ Len(end) = 1
  BY <1>3, SingleSeq
<1>5. PICK c : c = both \o end
  OBVIOUS
<1>6. Len(c) = Len(both) + Len(end) /\ \A k \in 1 .. Len(both) : c[k] = both[k]
  BY <1>2, <1>4, <1>5, Catenated
<1>7. Len(id_cred) \in Nat /\ Len(cred) \in Nat
  BY SeqFacts
<1>8. /\ Len(c) = Len(id_cred) + Len(cred) + 1
      /\ \A k \in 1 .. Len(id_cred) : c[k] = id_cred[k]
      /\ \A k \in 1 .. Len(cred) : c[Len(id_cred) + k] = cred[k]
  BY <1>2, <1>4, <1>6, <1>7
<1>9. c = context_mac(id_cred, cred, ead)
  BY <1>1, <1>3, <1>5 DEF context_mac
<1> QED BY <1>8, <1>9

\* An ID_CRED_x as plaintext_split may return it: one item, or one with what
\* the stack held behind it.
Received(id_cred) ==
  IsSeq(id_cred)
  /\ (Len(id_cred) = 1 \/ (Len(id_cred) = 2 /\ id_cred[2] = Garbage[1]))

\* Where an ID_CRED_x ends and a CRED_x begins is not encoded, but it can be
\* told: the context of the MAC stands for one ID_CRED_x and one credential.
LEMMA ContextTells ==
  ASSUME NEW id_cred, Received(id_cred), NEW cred, IsSeq(cred), NEW ad,
         NEW own_id, IsIdCred(own_id), NEW own, IsCred(own), NEW ead,
         context_mac(id_cred, cred, ad) = context_mac(own_id, own, ead)
  PROVE  id_cred = own_id /\ cred = own
<1>1. IsSeq(id_cred) /\ IsSeq(own_id) /\ IsSeq(own)
  BY SingleSeq DEF Received, IsIdCred, IsCred
<1>9. Len(own_id) = 1
  BY SingleSeq DEF IsIdCred
<1>2. PICK c : /\ c = context_mac(id_cred, cred, ad)
               /\ c = context_mac(own_id, own, ead)
  OBVIOUS
<1>3. /\ Len(c) = Len(id_cred) + Len(cred) + 1
      /\ \A k \in 1 .. Len(id_cred) : c[k] = id_cred[k]
      /\ \A k \in 1 .. Len(cred) : c[Len(id_cred) + k] = cred[k]
  BY <1>1, <1>2, ContextItems
<1>4. /\ Len(c) = Len(own_id) + Len(own) + 1
      /\ \A k \in 1 .. Len(own_id) : c[k] = own_id[k]
      /\ \A k \in 1 .. Len(own) : c[Len(own_id) + k] = own[k]
  BY <1>1, <1>2, ContextItems
<1>5. Len(cred) \in Nat /\ Len(own) \in Nat /\ DOMAIN own = 1 .. Len(own)
  BY <1>1, SeqFacts
<1>6. Len(id_cred) = 1
  <2>1. ASSUME Len(id_cred) = 2, id_cred[2] = Garbage[1] PROVE FALSE
    <3>1. Len(own) = Len(cred) + 1
      <4>1. Len(id_cred) + Len(cred) + 1 = Len(own_id) + Len(own) + 1
        BY <1>3, <1>4
      <4>2. 2 + Len(cred) + 1 = 1 + Len(own) + 1
        BY Zenon, <1>9, <2>1, <4>1
      <4>3. \A x, y \in Nat : 2 + x + 1 = 1 + y + 1 => y = x + 1
        OBVIOUS
      <4> QED BY Zenon, <1>5, <4>2, <4>3
    <3>2. 1 \in DOMAIN own /\ c[1 + 1] = own[1]
      BY <1>4, <1>5, <1>9, <3>1
    <3>3. c[2] = id_cred[2]
      BY <1>3, <2>1
    <3>4. own[1][1] = "raw"
      BY <2>1, <3>2, <3>3 DEF Garbage, raw
    <3> QED BY <3>2, <3>4 DEF IsCred
  <2> QED BY <2>1 DEF Received
<1>7. id_cred = own_id
  <2>1. c[1] = id_cred[1] /\ c[1] = own_id[1]
    BY <1>3, <1>4, <1>6, <1>9
  <2>2. \A k \in 1 .. Len(id_cred) : id_cred[k] = own_id[k]
    <3>1. \A k \in 1 .. 1 : k = 1
      OBVIOUS
    <3> QED BY <1>6, <2>1, <3>1
  <2>3. Len(id_cred) = Len(own_id)
    BY <1>6, <1>9
  <2> QED BY <1>1, <2>2, <2>3, SameSeq
<1>8. cred = own
  <2>1. Len(cred) = Len(own)
    BY <1>3, <1>4, <1>5, <1>6, <1>9
  <2>2. \A k \in 1 .. Len(cred) : c[1 + k] = cred[k] /\ c[1 + k] = own[k]
    BY <1>3, <1>4, <1>6, <1>9, <2>1
  <2> QED BY <1>1, <2>1, <2>2, SameSeq
<1> QED BY <1>7, <1>8

\* A MAC, and a signature of it.
Okm(prk, th, label, context, n) ==
  <<"okm", prk, <<bstr(th), tstr(label), bstr(context), int(n)>>>>
SignatureOf(alg, key, id_cred, aad, m) ==
  <<"signature", alg, key,
    <<list(<<tstr("Signature1"), bstr(id_cred), bstr(aad), bstr(m)>>)>>>>

\* Two MACs are the same only for the same key, hash and context; two signatures
\* only of the same MAC; and no MAC is a signature.
LEMMA TermsDiffer ==
  /\ \A prk, th, label, context, n, prk2, th2, label2, context2, n2 :
       Okm(prk, th, label, context, n) = Okm(prk2, th2, label2, context2, n2) =>
         prk = prk2 /\ th = th2 /\ context = context2
  /\ \A alg, key, id_cred, aad, m, alg2, key2, id_cred2, aad2, m2 :
       SignatureOf(alg, key, id_cred, aad, m)
           = SignatureOf(alg2, key2, id_cred2, aad2, m2) => m = m2
  /\ \A prk, th, label, context, n, alg, key, id_cred, aad, m :
       Okm(prk, th, label, context, n) # SignatureOf(alg, key, id_cred, aad, m)
<1>1. ASSUME NEW prk, NEW th, NEW label, NEW context, NEW n,
             NEW prk2, NEW th2, NEW label2, NEW context2, NEW n2,
             Okm(prk, th, label, context, n) = Okm(prk2, th2, label2, context2, n2)
      PROVE  prk = prk2 /\ th = th2 /\ context = context2
  BY <1>1 DEF Okm, bstr, tstr, int
<1>2. ASSUME NEW alg, NEW key, NEW id_cred, NEW aad, NEW m,
             NEW alg2, NEW key2, NEW id_cred2, NEW aad2, NEW m2,
             SignatureOf(alg, key, id_cred, aad, m)
               = SignatureOf(alg2, key2, id_cred2, aad2, m2)
      PROVE  m = m2
  BY <1>2 DEF SignatureOf, list, bstr, tstr
<1>3. ASSUME NEW prk, NEW th, NEW label, NEW context, NEW n,
             NEW alg, NEW key, NEW id_cred, NEW aad, NEW m
      PROVE  Okm(prk, th, label, context, n) # SignatureOf(alg, key, id_cred, aad, m)
  BY DEF Okm, SignatureOf
<1> QED BY Zenon, <1>1, <1>2, <1>3

\* What authenticates a message is a MAC or a signature of one.
Authenticates(s, prk, th, context) ==
  \E label, n : LET m == Okm(prk, th, label, context, n)
                IN  \/ s = m
                    \/ \E alg, key, id_cred, aad :
                         s = SignatureOf(alg, key, id_cred, aad, m)

\* What signature_or_mac returns is such a term.
LEMMA MacForm ==
  ASSUME NEW suite, NEW static_dh, NEW key, NEW prk, NEW th, NEW label,
         NEW id_cred, NEW cred, NEW ead
  PROVE  Authenticates(signature_or_mac(suite, static_dh, key, prk, th, label,
                                        id_cred, cred, ead),
                       prk, th, context_mac(id_cred, cred, ead))
BY Zenon DEF signature_or_mac, mac, okm_calc, create_hkdf_info, cbor_encode_info,
     sign, signature_struct_gen, cose_sig_structure_encode,
     cbor_encode_sig_structure, Okm, SignatureOf, Authenticates

\* Who accepts a MAC or a signature has the same key, transcript and context as
\* who made it, though the two may differ in whether it is to be a signature.
LEMMA MacTells ==
  ASSUME NEW s, NEW prk, NEW th, NEW context, Authenticates(s, prk, th, context),
         NEW prk2, NEW th2, NEW context2, Authenticates(s, prk2, th2, context2)
  PROVE  prk = prk2 /\ th = th2 /\ context = context2
<1>1. PICK label, n :
        \/ s = Okm(prk, th, label, context, n)
        \/ \E alg, key, id_cred, aad :
             s = SignatureOf(alg, key, id_cred, aad, Okm(prk, th, label, context, n))
  BY Zenon DEF Authenticates
<1>2. PICK label2, n2 :
        \/ s = Okm(prk2, th2, label2, context2, n2)
        \/ \E alg, key, id_cred, aad :
             s = SignatureOf(alg, key, id_cred, aad,
                             Okm(prk2, th2, label2, context2, n2))
  BY Zenon DEF Authenticates
<1>3. Okm(prk, th, label, context, n) = Okm(prk2, th2, label2, context2, n2)
  BY <1>1, <1>2, TermsDiffer
<1> QED BY <1>3, TermsDiffer

\* What decrypt returns is the plaintext in the ciphertext.
LEMMA Decrypted ==
  ASSUME NEW ctxt, NEW prk, NEW th, NEW ciphertext,
         NEW ptxt \in decrypt(ctxt, prk, th, ciphertext)
  PROVE  ptxt = ciphertext[4]
BY Zenon DEF decrypt

\* The plaintext in a ciphertext.
LEMMA Encrypted ==
  ASSUME NEW ctxt, NEW prk, NEW th, NEW ptxt
  PROVE  encrypt(ctxt, prk, th, ptxt)[4] = ptxt
<1> DEFINE key == Terms!key_gen(ctxt, prk, th)
           aad == IF ctxt = Terms!CIPHERTEXT2 THEN <<>> ELSE associated_data_encode(th)
<1> HIDE DEF key, aad
<1>1. <<"ciphertext", key, aad, ptxt>>[4] = ptxt
  OBVIOUS
<1> QED BY <1>1 DEF encrypt, key, aad

-----------------------------------------------------------------------------
(* Message 2                                                               *)

\* A message 2 the responder r sends to the initiator with context c.
IsMessage2(c, r, msg) ==
  \E msg1 \in msg1_gen(c), n \in 0 .. AD_DEFAULT_SIZE :
    LET p == msg1_parse(msg1, n)
        m == msg2_gen(r, msg1, p)
    IN  p.err = "ok" /\ m.err = "ok" /\ msg = m.msg2

\* A ciphertext with a plaintext in which a party authenticates itself.
Authentic(ciphertext, prk, th, id_cred, cred, ead) ==
  \E s : /\ ciphertext[4] \in plaintext_encode(id_cred, s, ead)
         /\ Authenticates(s, prk, th, context_mac(id_cred, cred, ead))

\* In message 2 the responder authenticates itself.
LEMMA Message2Form ==
  ASSUME NEW c, NEW r, NEW msg, IsMessage2(c, r, msg)
  PROVE  \E ciphertext_2, prk, th :
           /\ msg = <<bstr(<<r.y, ciphertext_2>>), r.c_r>>
           /\ Authentic(ciphertext_2, prk, th, r.id_cred_r, r.cred_r, r.ead_2)
<1>1. PICK msg1, p : msg2_gen(r, msg1, p).err = "ok" /\ msg = msg2_gen(r, msg1, p).msg2
  BY Zenon DEF IsMessage2
<1> DEFINE result == msg2_gen(r, msg1, p)
           selected == Last(p.suites_i)
           suite == Terms!get_suite(selected)
           static_dh_r == Terms!static_dh_r(p.method)
           th2 == th2_calculate(msg1, r.y, r.c_r)
           PRK_2e == prk_2e(suite, r.y, p.g_x)
           PRK_3e2m == prk_next(static_dh_r, suite, PRK_2e, p.g_x, r.r)
           sign_or_mac_2 == signature_or_mac(suite, static_dh_r, r.sk_r, PRK_3e2m,
                              th2, "MAC_2", r.id_cred_r, r.cred_r, r.ead_2)
           plaintexts == plaintext_encode(r.id_cred_r, sign_or_mac_2, r.ead_2)
           ptxt == CHOOSE ptxt \in plaintexts : TRUE
           ciphertext_2 == encrypt(Terms!CIPHERTEXT2, PRK_2e, th2, ptxt)
           th3 == th3_calculate(th2, ciphertext_2)
<1>2. \/ \E e \in {"error_message_sent", "no_key", "unexpected_result_from_ext_lib"} :
           result = Failed(e)
      \/ /\ plaintexts # {}
         /\ result = [err |-> "ok", th3 |-> th3, PRK_3e2m |-> PRK_3e2m,
                      msg2 |-> msg2_encode(r.y, r.c_r, ciphertext_2)]
  BY Zenon DEF msg2_gen
<1>3. Authenticates(sign_or_mac_2, PRK_3e2m, th2,
                    context_mac(r.id_cred_r, r.cred_r, r.ead_2))
  BY Zenon, MacForm
<1>4. ciphertext_2[4] = ptxt
  <2> HIDE DEF PRK_2e, th2, ptxt
  <2> QED BY Encrypted
<1>5. msg = msg2_encode(r.y, r.c_r, ciphertext_2) /\ plaintexts # {}
  <2> HIDE DEF result, th3, PRK_3e2m, ciphertext_2, plaintexts
  <2>1. \A e \in {"error_message_sent", "no_key", "unexpected_result_from_ext_lib"} :
          result # Failed(e)
    BY <1>1, FailedFacts DEF result
  <2> QED BY <1>1, <1>2, <2>1 DEF result
<1>6. ptxt \in plaintexts
  BY <1>5
<1>7. msg = <<bstr(<<r.y, ciphertext_2>>), r.c_r>>
  BY Zenon, <1>5 DEF msg2_encode, cbor_encode_m2
<1>8. Authentic(ciphertext_2, PRK_3e2m, th2, r.id_cred_r, r.cred_r, r.ead_2)
  <2> HIDE DEF ciphertext_2, PRK_3e2m, th2, ptxt, sign_or_mac_2
  <2> QED BY Zenon, <1>3, <1>4, <1>6 DEF Authentic
<1> QED BY Zenon, <1>7, <1>8

\* The ciphertext msg2_parse finds in a message 2.
LEMMA Message2Parsed ==
  ASSUME NEW g_y, NEW ciphertext_2, NEW c_r,
         NEW m \in msg2_parse(<<bstr(<<g_y, ciphertext_2>>), c_r>>)
  PROVE  m.ciphertext_2 = ciphertext_2
<1> DEFINE msg == <<bstr(<<g_y, ciphertext_2>>), c_r>>
<1>1. PICK d \in cbor_decode_m2(msg) :
        m = [d EXCEPT !.c_r = c_x_set(d.c_r, Len(d.c_r[2]))]
  BY Zenon DEF msg2_parse
<1>2. d = [g_y |-> msg[1][2][1], ciphertext_2 |-> msg[1][2][2], c_r |-> msg[2]]
  BY Zenon DEF cbor_decode_m2
<1>3. msg[1][2][2] = ciphertext_2
  BY DEF bstr
<1> HIDE DEF msg
<1>4. d.ciphertext_2 = ciphertext_2 /\ DOMAIN d = {"g_y", "ciphertext_2", "c_r"}
  BY <1>2, <1>3
<1> QED BY <1>1, <1>4

\* The credential is found for what a plaintext p was split into, and the MAC
\* or signature in p is the right one for it.
Verified(static_dh, arr, p, prk, th) ==
  LET found == retrieve_cred(static_dh, arr, p.id_cred)
  IN  /\ found.err = "ok"
      /\ Authenticates(p.sgn_or_mac, prk, th,
                       context_mac(p.id_cred, found.cred, p.ad))

\* Who is authenticated: the credential found for the ID_CRED_x of a plaintext
\* is that of the party that wrote the plaintext.
LEMMA PeerAuthenticated ==
  ASSUME NEW id_cred, IsIdCred(id_cred), NEW cred, IsCred(cred), NEW ead,
         NEW ciphertext, NEW own_prk, NEW own_th,
         Authentic(ciphertext, own_prk, own_th, id_cred, cred, ead),
         NEW leftover, Received(leftover), NEW n \in Nat,
         NEW p \in plaintext_split(ciphertext[4], leftover, n),
         NEW arr, IsCredArray(arr), NEW static_dh, NEW prk, NEW th,
         Verified(static_dh, arr, p, prk, th)
  PROVE  /\ p.id_cred = id_cred /\ retrieve_cred(static_dh, arr, p.id_cred).cred = cred
         /\ prk = own_prk /\ th = own_th
         /\ ead \in Seq(STRING) => Len(p.ad) \in 0 .. n
         /\ \A m \in cbor_decode_id_cred_x_map(p.id_cred) :
              x5chain \in DOMAIN m => p.id_cred = leftover \/ SignedByKnownCa(arr, m[x5chain][2])
<1> DEFINE found == retrieve_cred(static_dh, arr, p.id_cred).cred
           ptxt == ciphertext[4]
<1>1. PICK s : /\ ptxt \in plaintext_encode(id_cred, s, ead)
               /\ Authenticates(s, own_prk, own_th, context_mac(id_cred, cred, ead))
  BY Zenon DEF Authentic
<1>2. Len(ptxt) = 3 /\ ptxt[2] = bstr(s) /\ ptxt[3] = raw(ead)
  <2>1. id_cred = <<id_cred[1]>>
    BY DEF IsIdCred
  <2> HIDE DEF ptxt
  <2> QED BY <1>1, <2>1, PlaintextItems
<1>3. /\ p.sgn_or_mac = s
      /\ ead \in Seq(STRING) => Len(p.ad) \in 0 .. n
      /\ \/ p.id_cred = leftover
         \/ SingleLabel(p.id_cred) /\ p.id_cred = <<p.id_cred[1]>>
  BY <1>2, PlaintextSplit
<1>4. /\ Authenticates(p.sgn_or_mac, prk, th, context_mac(p.id_cred, found, p.ad))
      /\ retrieve_cred(static_dh, arr, p.id_cred).err = "ok"
  BY Zenon DEF Verified
<1>5. /\ prk = own_prk /\ th = own_th
      /\ context_mac(p.id_cred, found, p.ad) = context_mac(id_cred, cred, ead)
  <2> HIDE DEF found
  <2> QED BY <1>1, <1>3, <1>4, MacTells
<1>6. IsSeq(found)
  BY Zenon, <1>4, CredentialEncoded
<1>7. Received(p.id_cred)
  <2>1. ASSUME p.id_cred = <<p.id_cred[1]>> PROVE Received(p.id_cred)
    <3>1. \A x : Received(<<x>>)
      BY SingleSeq DEF Received
    <3> QED BY Zenon, <2>1, <3>1
  <2> QED BY Zenon, <1>3, <2>1
<1>8. p.id_cred = id_cred /\ found = cred
  <2> HIDE DEF found
  <2> QED BY <1>5, <1>6, <1>7, ContextTells
<1>9. ASSUME NEW m \in cbor_decode_id_cred_x_map(p.id_cred), x5chain \in DOMAIN m,
             p.id_cred # leftover
      PROVE  SignedByKnownCa(arr, m[x5chain][2])
  BY Zenon, <1>3, <1>4, <1>9, ChainSigned DEF IsCredArray
<1> QED BY Zenon, <1>3, <1>5, <1>8, <1>9

-----------------------------------------------------------------------------
(* Message 3                                                               *)

\* A message 3 of an initiator with context c that ended its computation with
\* this PRK_4x3m and transcript hash.
IsMessage3(c, prk_4x3m, th4, msg) ==
  \E ciphertext_3, th3 :
    /\ msg = <<bstr(ciphertext_3)>> /\ th4 = th4_calculate(th3, ciphertext_3)
    /\ Authentic(ciphertext_3, prk_4x3m, th3, c.id_cred_i, c.cred_i, c.ead_3)

\* What is left in a buffer nobody wrote is no ID_CRED_x.
LEMMA GarbageFacts ==
  /\ Received(Garbage) /\ IsSeq(Garbage) /\ Len(Garbage) = 1
  /\ Garbage[1][1] = "raw" /\ ~ IsIdCred(Garbage)
<1>1. Garbage = <<Garbage[1]>> /\ Garbage[1][1] = "raw"
  BY DEF Garbage, raw
<1>2. IsSeq(Garbage) /\ Len(Garbage) = 1
  BY <1>1, SingleSeq
<1>3. ~ IsIdCred(Garbage)
  <2>1. \A x : map(x)[1] # "raw"
    BY DEF map
  <2>2. \A x : <<x>>[1] = x
    OBVIOUS
  <2> QED BY Zenon, <1>1, <2>1, <2>2 DEF IsIdCred
<1> QED BY <1>1, <1>2, <1>3 DEF Received

\* The initiator that accepts a message 2 has authenticated the responder that
\* sent it, and authenticates itself in its message 3.
LEMMA Message3Generated ==
  ASSUME NEW c \in InitiatorContexts, NEW r \in ResponderContexts,
         NEW d, NEW msg2, IsMessage2(d, r, msg2), NEW msg1,
         msg3_gen(c, msg1, msg2).err = "ok"
  PROVE  LET m == msg3_gen(c, msg1, msg2)
         IN  /\ m.accepted = <<r.id_cred_r, r.cred_r>>
             /\ IsMessage3(c, m.prk_4x3m, m.th4, m.msg3)
<1>1. PICK ciphertext, own_prk, own_th :
        /\ msg2 = <<bstr(<<r.y, ciphertext>>), r.c_r>>
        /\ Authentic(ciphertext, own_prk, own_th, r.id_cred_r, r.cred_r, r.ead_2)
  BY Zenon, Message2Form
<1> DEFINE
      suite == Terms!get_suite(Last(c.suites_i))
      static_dh_i == Terms!static_dh_i(c.method)
      static_dh_r == Terms!static_dh_r(c.method)
      m == CHOOSE m \in msg2_parse(msg2) : TRUE
      th2 == th2_calculate(msg1, m.g_y, m.c_r)
      PRK_2e == prk_2e(suite, c.x, m.g_y)
      parts == UNION {plaintext_split(ptxt, Garbage, AD_DEFAULT_SIZE) :
                ptxt \in decrypt(Terms!CIPHERTEXT2, PRK_2e, th2, m.ciphertext_2)}
      p == CHOOSE p \in parts : TRUE
      peer == retrieve_cred(static_dh_r, c.cred_r_array, p.id_cred)
      PRK_3e2m == prk_next(static_dh_r, suite, PRK_2e, c.x, peer.key)
      verified == p.sgn_or_mac =
                    signature_or_mac(suite, static_dh_r, peer.key, PRK_3e2m,
                      th2, "MAC_2", p.id_cred, peer.cred, p.ad)
      th3 == th3_calculate(th2, m.ciphertext_2)
      prk_4x3m == prk_next(static_dh_i, suite, PRK_3e2m, m.g_y, c.i)
      sign_or_mac_3 == signature_or_mac(suite, static_dh_i, c.sk_i, prk_4x3m,
                         th3, "MAC_3", c.id_cred_i, c.cred_i, c.ead_3)
      plaintexts == plaintext_encode(c.id_cred_i, sign_or_mac_3, c.ead_3)
      ptxt_3 == CHOOSE ptxt \in plaintexts : TRUE
      ciphertext_3 == encrypt(Terms!CIPHERTEXT3, PRK_3e2m, th3, ptxt_3)
      th4 == th4_calculate(th3, ciphertext_3)
      msg3 == cbor_encode_bstr_type_b_str(ciphertext_3)
      result == msg3_gen(c, msg1, msg2)
<1>2. \/ \E e \in {"authentication_failed", "no_key",
                   "unexpected_result_from_ext_lib"} : result = Failed(e)
      \/ result = peer /\ peer.err # "ok"
      \/ /\ msg2_parse(msg2) # {} /\ parts # {} /\ peer.err = "ok"
         /\ verified /\ plaintexts # {}
         /\ result = [err |-> "ok", prk_4x3m |-> prk_4x3m, th4 |-> th4,
                      accepted |-> <<p.id_cred, peer.cred>>, msg3 |-> msg3]
  BY Zenon DEF msg3_gen
<1>3. /\ msg2_parse(msg2) # {} /\ parts # {} /\ peer.err = "ok"
      /\ verified /\ plaintexts # {}
      /\ result.prk_4x3m = prk_4x3m /\ result.th4 = th4 /\ result.msg3 = msg3
      /\ result.accepted = <<p.id_cred, peer.cred>>
  <2> HIDE DEF verified, parts, peer, prk_4x3m, th4, p, msg3, plaintexts, result
  <2>1. result.err = "ok"
    BY DEF result
  <2>2. \A e \in {"authentication_failed", "no_key",
                  "unexpected_result_from_ext_lib"} : result # Failed(e)
    BY <2>1, FailedFacts
  <2>3. /\ msg2_parse(msg2) # {} /\ parts # {} /\ peer.err = "ok"
        /\ verified /\ plaintexts # {}
        /\ result = [err |-> "ok", prk_4x3m |-> prk_4x3m, th4 |-> th4,
                     accepted |-> <<p.id_cred, peer.cred>>, msg3 |-> msg3]
    BY Zenon, <1>2, <2>1, <2>2
  <2>4. /\ result.prk_4x3m = prk_4x3m /\ result.th4 = th4 /\ result.msg3 = msg3
        /\ result.accepted = <<p.id_cred, peer.cred>>
    BY <2>3
  <2> QED BY Zenon, <2>3, <2>4
<1>4. m.ciphertext_2 = ciphertext
  <2> HIDE DEF m
  <2>1. m \in msg2_parse(msg2)
    BY <1>3 DEF m
  <2> QED BY <1>1, <2>1, Message2Parsed
<1>5. p \in plaintext_split(ciphertext[4], Garbage, AD_DEFAULT_SIZE)
  <2> HIDE DEF PRK_2e, th2, m
  <2>1. p \in parts
    BY Zenon, <1>3
  <2>2. PICK ptxt \in decrypt(Terms!CIPHERTEXT2, PRK_2e, th2, m.ciphertext_2) :
          p \in plaintext_split(ptxt, Garbage, AD_DEFAULT_SIZE)
    BY Zenon, <2>1
  <2> QED BY Zenon, <1>4, <2>2, Decrypted
<1>6. p.id_cred = r.id_cred_r /\ peer.cred = r.cred_r
  <2> HIDE DEF static_dh_r, suite, PRK_3e2m, th2, p
  <2>1. p.sgn_or_mac = signature_or_mac(suite, static_dh_r, peer.key, PRK_3e2m,
                      th2, "MAC_2", p.id_cred, peer.cred, p.ad)
    BY Zenon, <1>3
  <2>2. /\ IsIdCred(r.id_cred_r) /\ IsCred(r.cred_r) /\ IsCredArray(c.cred_r_array)
        /\ Received(Garbage) /\ AD_DEFAULT_SIZE \in Nat
    BY Zenon, GarbageFacts, AdAssumption, InitiatorContextFacts,
       ResponderContextFacts
  <2>3. /\ Authentic(ciphertext, own_prk, own_th, r.id_cred_r, r.cred_r, r.ead_2)
        /\ retrieve_cred(static_dh_r, c.cred_r_array, p.id_cred).err = "ok"
    BY Zenon, <1>1, <1>3
  <2> DEFINE key == peer.key
  <2> HIDE DEF key
  <2>4. Authenticates(p.sgn_or_mac, PRK_3e2m, th2, context_mac(p.id_cred,
          retrieve_cred(static_dh_r, c.cred_r_array, p.id_cred).cred, p.ad))
    BY <2>1, MacForm
  <2>5. Verified(static_dh_r, c.cred_r_array, p, PRK_3e2m, th2)
    BY Zenon, <2>3, <2>4 DEF Verified
  <2>6. /\ p.id_cred = r.id_cred_r
        /\ retrieve_cred(static_dh_r, c.cred_r_array, p.id_cred).cred = r.cred_r
    BY <1>5, <2>2, <2>3, <2>5, PeerAuthenticated
  <2> QED BY Zenon, <2>6
<1>7. Authentic(ciphertext_3, prk_4x3m, th3, c.id_cred_i, c.cred_i, c.ead_3)
  <2>1. Authenticates(sign_or_mac_3, prk_4x3m, th3,
                      context_mac(c.id_cred_i, c.cred_i, c.ead_3))
    <3> HIDE DEF suite, static_dh_i, prk_4x3m, th3
    <3> QED BY MacForm
  <2>2. ciphertext_3[4] = ptxt_3
    <3> HIDE DEF PRK_3e2m, th3, ptxt_3
    <3> QED BY Encrypted
  <2>3. ptxt_3 \in plaintexts
    BY Zenon, <1>3
  <2> HIDE DEF ciphertext_3, prk_4x3m, th3, sign_or_mac_3, ptxt_3
  <2> QED BY Zenon, <2>1, <2>2, <2>3 DEF Authentic
<1> HIDE DEF ciphertext_3, prk_4x3m, th3, result, p, peer
<1>8. msg3 = <<bstr(ciphertext_3)>>
  BY DEF cbor_encode_bstr_type_b_str
<1>9. IsMessage3(c, result.prk_4x3m, result.th4, result.msg3)
  BY Zenon, <1>3, <1>7, <1>8 DEF IsMessage3
<1> QED BY Zenon, <1>3, <1>6, <1>9 DEF result

\* What the buffer of an ID_CRED_x may hold behind what was read before.
LEMMA LeftoverFacts ==
  ASSUME NEW leftover, \/ leftover = Garbage
                       \/ \E x : leftover = <<x>> \o Garbage
  PROVE  Received(leftover) /\ ~ IsIdCred(leftover)
<1>1. CASE leftover = Garbage
  BY <1>1, GarbageFacts
<1>2. CASE \E x : leftover = <<x>> \o Garbage
  <2>1. PICK x : leftover = <<x>> \o Garbage
    BY <1>2
  <2>2. PICK one : one = <<x>>
    OBVIOUS
  <2>3. IsSeq(one) /\ Len(one) = 1
    BY <2>2, SingleSeq
  <2>4. /\ IsSeq(leftover) /\ Len(leftover) = Len(one) + Len(Garbage)
        /\ \A k \in 1 .. Len(Garbage) : leftover[Len(one) + k] = Garbage[k]
    <3>1. leftover = one \o Garbage
      BY <2>1, <2>2
    <3>2. IsSeq(Garbage)
      BY GarbageFacts
    <3>3. IsSeq(one)
      BY <2>3
    <3> QED BY <3>1, <3>2, <3>3, Catenated
  <2>5. Len(leftover) = 2 /\ leftover[2] = Garbage[1]
    BY <2>3, <2>4, GarbageFacts
  <2>6. \A y : Len(<<y>>) = 1
    OBVIOUS
  <2>7. ~ IsIdCred(leftover)
    BY <2>5, <2>6 DEF IsIdCred
  <2> QED BY <2>4, <2>5, <2>7 DEF Received
<1> QED BY <1>1, <1>2

\* The responder that accepts a message 3 has authenticated the initiator that
\* sent it and computed the same PRK_4x3m and transcript hash; EAD_3 fits its
\* buffer, and a certificate chain has the signature of a known CA.
LEMMA Message3Accepted ==
  ASSUME NEW i \in InitiatorContexts, NEW prk, NEW th, NEW msg3,
         IsMessage3(i, prk, th, msg3), NEW c \in ResponderContexts, NEW rc,
         NEW leftover, \/ leftover = Garbage
                       \/ \E x : leftover = <<x>> \o Garbage,
         NEW n \in Nat, msg3_process(c, rc, msg3, leftover, n).err = "ok"
  PROVE  LET m == msg3_process(c, rc, msg3, leftover, n)
         IN  /\ m.accepted = <<i.id_cred_i, i.cred_i>>
             /\ m.prk_4x3m = prk /\ m.th4 = th /\ m.ead_3_len \in 0 .. n
             /\ \A cred \in cbor_decode_id_cred_x_map(m.accepted[1]) :
                  x5chain \in DOMAIN cred =>
                    SignedByKnownCa(c.cred_i_array, cred[x5chain][2])
<1>1. PICK ciphertext, own_th :
        /\ msg3 = <<bstr(ciphertext)>> /\ th = th4_calculate(own_th, ciphertext)
        /\ Authentic(ciphertext, prk, own_th, i.id_cred_i, i.cred_i, i.ead_3)
  BY Zenon DEF IsMessage3
<1> DEFINE
      suite == rc.suite
      ciphertexts == cbor_decode_bstr_type_b_str(msg3)
      ciphertext_3 == CHOOSE ciphertext_3 \in ciphertexts : TRUE
      parts == UNION {plaintext_split(ptxt, leftover, n) :
                ptxt \in decrypt(Terms!CIPHERTEXT3, rc.PRK_3e2m, rc.th3,
                                 ciphertext_3)}
      p == CHOOSE p \in parts : TRUE
      peer == retrieve_cred(rc.static_dh_i, c.cred_i_array, p.id_cred)
      prk_4x3m == prk_next(rc.static_dh_i, suite, rc.PRK_3e2m, c.y, peer.key)
      verified == p.sgn_or_mac =
                    signature_or_mac(suite, rc.static_dh_i, peer.key, prk_4x3m,
                      rc.th3, "MAC_3", p.id_cred, peer.cred, p.ad)
      ead_3_len == Len(p.ad)
      th4 == th4_calculate(rc.th3, ciphertext_3)
      result == msg3_process(c, rc, msg3, leftover, n)
<1>2. \/ \E e \in {"authentication_failed", "unexpected_result_from_ext_lib"} :
           result = Failed(e)
      \/ result = peer /\ peer.err # "ok"
      \/ /\ ciphertexts # {} /\ parts # {} /\ peer.err = "ok" /\ verified
         /\ result = [err |-> "ok", prk_4x3m |-> prk_4x3m, ead_3_len |-> ead_3_len,
                      th4 |-> th4, accepted |-> <<p.id_cred, peer.cred>>]
  BY Zenon DEF msg3_process
<1>3. /\ ciphertexts # {} /\ parts # {} /\ peer.err = "ok" /\ verified
      /\ result.prk_4x3m = prk_4x3m /\ result.th4 = th4
      /\ result.ead_3_len = ead_3_len
      /\ result.accepted = <<p.id_cred, peer.cred>>
  <2> HIDE DEF verified, parts, peer, prk_4x3m, th4, p, ead_3_len, result
  <2>1. result.err = "ok"
    BY DEF result
  <2>2. \A e \in {"authentication_failed", "unexpected_result_from_ext_lib"} :
          result # Failed(e)
    BY <2>1, FailedFacts
  <2>3. /\ ciphertexts # {} /\ parts # {} /\ peer.err = "ok" /\ verified
        /\ result = [err |-> "ok", prk_4x3m |-> prk_4x3m, ead_3_len |-> ead_3_len,
                     th4 |-> th4, accepted |-> <<p.id_cred, peer.cred>>]
    BY Zenon, <1>2, <2>1, <2>2
  <2>4. /\ result.prk_4x3m = prk_4x3m /\ result.th4 = th4
        /\ result.ead_3_len = ead_3_len
        /\ result.accepted = <<p.id_cred, peer.cred>>
    BY <2>3
  <2> QED BY Zenon, <2>3, <2>4
<1>4. ciphertext_3 = ciphertext
  <2>1. ciphertexts \subseteq {ciphertext}
    BY <1>1 DEF cbor_decode_bstr_type_b_str, bstr
  <2> HIDE DEF ciphertexts
  <2>2. ciphertext_3 \in ciphertexts
    BY <1>3
  <2> QED BY <2>1, <2>2
<1>5. p \in plaintext_split(ciphertext[4], leftover, n)
  <2> HIDE DEF ciphertext_3
  <2>1. p \in parts
    BY Zenon, <1>3
  <2>2. PICK ptxt \in decrypt(Terms!CIPHERTEXT3, rc.PRK_3e2m, rc.th3, ciphertext_3) :
          p \in plaintext_split(ptxt, leftover, n)
    BY Zenon, <2>1
  <2> QED BY Zenon, <1>4, <2>2, Decrypted
<1> DEFINE static_dh_i == rc.static_dh_i
<1>6. Verified(static_dh_i, c.cred_i_array, p, prk_4x3m, rc.th3)
  <2> DEFINE key == peer.key
             found == peer.cred
  <2>1. p.sgn_or_mac = signature_or_mac(suite, static_dh_i, key, prk_4x3m,
                         rc.th3, "MAC_3", p.id_cred, found, p.ad)
    BY Zenon, <1>3
  <2>2. Authenticates(p.sgn_or_mac, prk_4x3m, rc.th3,
                      context_mac(p.id_cred, found, p.ad))
    <3> HIDE DEF suite, static_dh_i, key, prk_4x3m, found, p
    <3> QED BY <2>1, MacForm
  <2> QED BY Zenon, <1>3, <2>2 DEF Verified
<1>7. /\ p.id_cred = i.id_cred_i
      /\ retrieve_cred(static_dh_i, c.cred_i_array, p.id_cred).cred = i.cred_i
      /\ prk_4x3m = prk /\ rc.th3 = own_th
      /\ i.ead_3 \in Seq(STRING) => Len(p.ad) \in 0 .. n
      /\ \A m \in cbor_decode_id_cred_x_map(p.id_cred) :
           x5chain \in DOMAIN m =>
             p.id_cred = leftover \/ SignedByKnownCa(c.cred_i_array, m[x5chain][2])
  <2>1. /\ IsIdCred(i.id_cred_i) /\ IsCred(i.cred_i) /\ IsCredArray(c.cred_i_array)
        /\ Received(leftover)
    BY Zenon, LeftoverFacts, InitiatorContextFacts, ResponderContextFacts
  <2> HIDE DEF p, prk_4x3m, static_dh_i
  <2> QED BY <1>1, <1>5, <1>6, <2>1, PeerAuthenticated
<1>8. result.accepted = <<i.id_cred_i, i.cred_i>> /\ result.accepted[1] = p.id_cred
  <2>1. peer.cred = i.cred_i
    BY Zenon, <1>7
  <2>2. \A x, y : <<x, y>>[1] = x
    OBVIOUS
  <2> HIDE DEF p, peer, result
  <2> QED BY ZenonT(40), <1>3, <1>7, <2>1, <2>2
<1>9. ead_3_len \in 0 .. n
  BY Zenon, <1>7, InitiatorContextFacts
<1>10. th4 = th
  BY Zenon, <1>1, <1>4, <1>7
<1>11. p.id_cred # leftover
  BY ZenonT(40), <1>7, LeftoverFacts, InitiatorContextFacts
<1>12. \A cred \in cbor_decode_id_cred_x_map(result.accepted[1]) :
         x5chain \in DOMAIN cred =>
           SignedByKnownCa(c.cred_i_array, cred[x5chain][2])
  BY Zenon, <1>7, <1>8, <1>11
<1> QED BY Zenon, <1>3, <1>7, <1>8, <1>9, <1>10, <1>12

\* A message 1 is no message 3, a message 3 no message 1, and a byte string no
\* message 2: taken for one it ends the run.
LEMMA WrongMessage ==
  /\ \A c, msg1 : msg1 \in msg1_gen(c) =>
       \A r, rc, leftover, n : msg3_process(r, rc, msg1, leftover, n).err # "ok"
  /\ \A b, n : msg1_parse(<<bstr(b)>>, n).err # "ok"
  /\ \A b, c, msg1 : msg3_gen(c, msg1, <<bstr(b)>>).err # "ok"
<1>1. ASSUME NEW c, NEW msg1 \in msg1_gen(c), NEW r, NEW rc, NEW leftover, NEW n
      PROVE  msg3_process(r, rc, msg1, leftover, n).err # "ok"
  <2>1. cbor_decode_bstr_type_b_str(msg1) = {}
    BY Message1Items DEF cbor_decode_bstr_type_b_str, Is, int
  <2>2. msg3_process(r, rc, msg1, leftover, n)
          = Failed("unexpected_result_from_ext_lib")
    BY Zenon, <2>1 DEF msg3_process
  <2> QED BY <2>2, FailedFacts
<1>2. ASSUME NEW b, NEW n PROVE msg1_parse(<<bstr(b)>>, n).err # "ok"
  <2>1. ~ Is(<<bstr(b)>>, 1, {"int"})
    BY DEF Is, bstr
  <2>2. msg1_parse(<<bstr(b)>>, n) = Failed("unexpected_result_from_ext_lib")
    BY Zenon, <2>1 DEF msg1_parse, cbor_decode_message_1
  <2> QED BY <2>2, FailedFacts
<1>3. ASSUME NEW b, NEW c, NEW msg1 PROVE msg3_gen(c, msg1, <<bstr(b)>>).err # "ok"
  <2>1. ~ Is(<<bstr(b)>>, 2, {"int", "bstr"})
    BY DEF Is
  <2>2. msg2_parse(<<bstr(b)>>) = {}
    BY Zenon, <2>1 DEF msg2_parse, cbor_decode_m2
  <2>3. msg3_gen(c, msg1, <<bstr(b)>>) = Failed("unexpected_result_from_ext_lib")
    BY Zenon, <2>2 DEF msg3_gen
  <2> QED BY <2>3, FailedFacts
<1> QED BY Zenon, <1>1, <1>2, <1>3

-----------------------------------------------------------------------------
(* The inductive invariant                                                 *)

\* The initiator has derived PRK_4x3m, or failed to.
Derived(i) == i.pc \notin {"start", "message_2"}

\* Every initiator keeps its context and, once it has sent message 3, has
\* authenticated the responder.
InitiatorInv ==
  /\ IsSeq(initiator)
  /\ \A k \in Initiators :
       /\ DOMAIN initiator[k] = {"c", "pc", "msg1", "prk_4x3m", "th4", "accepted"}
       /\ initiator[k].c \in InitiatorContexts
       /\ initiator[k].pc \in {"message_4", "done"} =>
            initiator[k].accepted = <<responder.c.id_cred_r, responder.c.cred_r>>

\* What is on its way to an initiator is a message 2 made for it or one that is
\* no message 2.
ReplyInv ==
  /\ DOMAIN reply = Initiators
  /\ \A k \in Initiators :
       /\ IsSeq(reply[k])
       /\ \A n \in DOMAIN reply[k] :
            \/ IsMessage2(initiator[k].c, responder.c, reply[k][n])
            \/ \E b : reply[k][n] = <<bstr(b)>>

\* What is on its way to the responder is its sender's message 1, or the
\* message 3 the sender made with the keys it has now.
FromInitiator(k, i, datagram) ==
  /\ datagram[1] = k
  /\ \/ datagram[2] \in msg1_gen(i.c)
     \/ Derived(i) /\ IsMessage3(i.c, i.prk_4x3m, i.th4, datagram[2])
InboxInv ==
  /\ IsSeq(inbox)
  /\ \A n \in DOMAIN inbox :
       \E k \in Initiators : FromInitiator(k, initiator[k], inbox[n])

\* The responder keeps its context, its buffers never exceed their sizes, and
\* its peer after a message 3 is an initiator that sent one.
ResponderFields == {"c", "pc", "peer", "view", "rc", "ad_1", "ad_1_len", "ad_3_len",
                    "id_cred_i", "prk_4x3m", "th4", "accepted"}
ResponderInv ==
  /\ DOMAIN responder = ResponderFields
  /\ responder.c \in ResponderContexts
  /\ responder.ad_1_len \in 0 .. AD_DEFAULT_SIZE
  /\ responder.ad_3_len \in 0 .. AD_DEFAULT_SIZE
  /\ responder.id_cred_i = <<responder.id_cred_i[1]>>
  /\ responder.pc = "message_3" => responder.peer \in Initiators
  /\ responder.pc = "message_1" /\ responder.peer # 0 =>
       responder.peer \in Initiators /\ Derived(initiator[responder.peer])

WireInv ==
  /\ InitiatorInv /\ ReplyInv /\ InboxInv /\ ResponderInv
  /\ Message1AsSent /\ OnlySenderAuthenticated /\ CertificateNeedsCa

\* The invariant holds when the programs start.
LEMMA WireInit == Init => WireInv
<1> SUFFICES ASSUME Init PROVE WireInv
  OBVIOUS
<1>1. PICK contexts \in Contexts :
        /\ initiator = [k \in DOMAIN contexts |->
                          edhoc_initiator_run_Init(contexts[k])]
        /\ reply = [k \in DOMAIN contexts |-> <<>>]
  BY Zenon DEF Init
<1>2. PICK c \in ResponderContexts : responder = responder_main(c)
  BY Zenon DEF Init
<1>3. inbox = <<>>
  BY DEF Init
<1>4. /\ contexts \in Seq(InitiatorContexts)
      /\ \A k \in DOMAIN contexts : contexts[k] \in InitiatorContexts
  BY ContextsAssumption
<1>5. Len(contexts) \in Nat /\ DOMAIN contexts = 1 .. Len(contexts)
  BY <1>4
<1>6. IsSeq(initiator) /\ Initiators = DOMAIN contexts
  <2> DEFINE S == {edhoc_initiator_run_Init(contexts[k]) : k \in DOMAIN contexts}
             F(k) == edhoc_initiator_run_Init(contexts[k])
  <2>1. \A k \in 1 .. Len(contexts) : F(k) \in S
    BY <1>5
  <2>2. initiator = [k \in 1 .. Len(contexts) |-> F(k)]
    BY <1>1, <1>5
  <2> HIDE DEF S, F
  <2>3. initiator \in Seq(S)
    BY <1>5, <2>1, <2>2, IsASeq
  <2>4. IsSeq(initiator)
    BY <2>3, SeqIsSeq
  <2>5. DOMAIN initiator = 1 .. Len(contexts) /\ DOMAIN initiator = 1 .. Len(initiator)
    BY <2>2, <2>4, SeqFacts
  <2> QED BY <1>5, <2>4, <2>5 DEF Initiators
<1>7. \A k \in Initiators :
        /\ initiator[k].c = contexts[k] /\ initiator[k].pc = "start"
        /\ DOMAIN initiator[k] = {"c", "pc", "msg1", "prk_4x3m", "th4", "accepted"}
  BY <1>1, <1>6 DEF edhoc_initiator_run_Init
<1>8. InitiatorInv
  BY <1>4, <1>6, <1>7 DEF InitiatorInv
<1>9. IsSeq(<<>>) /\ DOMAIN <<>> = {}
  BY DEF IsSeq
<1>10. ReplyInv
  BY <1>1, <1>6, <1>9 DEF ReplyInv
<1>11. InboxInv
  BY <1>3, <1>9 DEF InboxInv
<1>12. /\ DOMAIN responder = ResponderFields /\ responder.c = c
       /\ responder.ad_1_len = AD_DEFAULT_SIZE /\ responder.ad_3_len = AD_DEFAULT_SIZE
       /\ responder.id_cred_i = Garbage /\ responder.pc = "message_1"
       /\ responder.peer = 0 /\ responder.accepted = <<>>
  BY <1>2 DEF responder_main, ResponderFields
<1>13. Garbage = <<Garbage[1]>>
  BY DEF Garbage
<1>14. ResponderInv
  BY <1>12, <1>13, AdAssumption DEF ResponderInv
<1>15. Message1AsSent /\ CertificateNeedsCa
  BY <1>12 DEF Message1AsSent, CertificateNeedsCa
<1>16. OnlySenderAuthenticated
  BY <1>7, <1>12 DEF OnlySenderAuthenticated
<1> QED BY <1>8, <1>10, <1>11, <1>14, <1>15, <1>16 DEF WireInv

\* An initiator's step that changes neither its context nor, once they are
\* derived, its keys, and ends with the responder's credential or none,
\* preserves what the invariant says of the parties.
LEMMA InitiatorStepKeeps ==
  ASSUME WireInv, NEW k \in Initiators, UNCHANGED responder,
         IsSeq(initiator'), DOMAIN initiator' = DOMAIN initiator,
         \A j \in Initiators : j # k => initiator'[j] = initiator[j],
         DOMAIN initiator'[k] = DOMAIN initiator[k],
         initiator'[k].c = initiator[k].c,
         Derived(initiator[k]) => /\ Derived(initiator'[k])
                                  /\ initiator'[k].prk_4x3m = initiator[k].prk_4x3m
                                  /\ initiator'[k].th4 = initiator[k].th4,
         initiator'[k].pc \in {"message_4", "done"} =>
           initiator'[k].accepted = <<responder.c.id_cred_r, responder.c.cred_r>>
  PROVE  /\ Initiators' = Initiators
         /\ InitiatorInv' /\ ResponderInv'
         /\ Message1AsSent' /\ OnlySenderAuthenticated' /\ CertificateNeedsCa'
<1>1. Initiators' = Initiators
  BY SeqFacts DEF Initiators, WireInv, InitiatorInv
<1>2. \A j \in Initiators :
        /\ initiator'[j].c = initiator[j].c
        /\ DOMAIN initiator'[j] = DOMAIN initiator[j]
        /\ Derived(initiator[j]) => /\ Derived(initiator'[j])
                                    /\ initiator'[j].prk_4x3m = initiator[j].prk_4x3m
                                    /\ initiator'[j].th4 = initiator[j].th4
        /\ initiator'[j].pc \in {"message_4", "done"} =>
             initiator'[j].accepted = <<responder.c.id_cred_r, responder.c.cred_r>>
  BY DEF WireInv, InitiatorInv
<1>3. InitiatorInv'
  BY <1>1, <1>2 DEF WireInv, InitiatorInv
<1>4. ResponderInv'
  BY <1>1, <1>2 DEF WireInv, ResponderInv
<1>5. Message1AsSent'
  BY <1>2 DEF WireInv, Message1AsSent, ResponderInv
<1>6. OnlySenderAuthenticated'
  <2>1. \A j \in Initiators' : initiator'[j].pc \in {"message_4", "done"} =>
          initiator'[j].accepted = <<responder.c.id_cred_r, responder.c.cred_r>>
    BY <1>1, <1>2
  <2>2. ASSUME responder.pc = "message_1", responder.peer # 0
        PROVE  LET i == initiator'[responder.peer]
               IN  /\ responder.accepted = <<i.c.id_cred_i, i.c.cred_i>>
                   /\ <<responder.prk_4x3m, responder.th4>> = <<i.prk_4x3m, i.th4>>
    <3>1. responder.peer \in Initiators /\ Derived(initiator[responder.peer])
      BY <2>2 DEF WireInv, ResponderInv
    <3>2. LET i == initiator[responder.peer]
          IN  /\ responder.accepted = <<i.c.id_cred_i, i.c.cred_i>>
              /\ <<responder.prk_4x3m, responder.th4>> = <<i.prk_4x3m, i.th4>>
      BY <2>2 DEF WireInv, OnlySenderAuthenticated
    <3> QED BY <1>2, <3>1, <3>2
  <2> QED BY <2>1, <2>2 DEF OnlySenderAuthenticated
<1>7. CertificateNeedsCa'
  BY DEF WireInv, CertificateNeedsCa
<1> QED BY <1>1, <1>3, <1>4, <1>5, <1>6, <1>7

\* The datagrams on their way stay what they are.
LEMMA InboxKeeps ==
  ASSUME WireInv, NEW k \in Initiators,
         \A j \in Initiators : j # k => initiator'[j] = initiator[j],
         initiator'[k].c = initiator[k].c,
         Derived(initiator[k]) => /\ Derived(initiator'[k])
                                  /\ initiator'[k].prk_4x3m = initiator[k].prk_4x3m
                                  /\ initiator'[k].th4 = initiator[k].th4
  PROVE  \A n \in DOMAIN inbox :
           \E j \in Initiators : FromInitiator(j, initiator'[j], inbox[n])
<1> SUFFICES ASSUME NEW n \in DOMAIN inbox
             PROVE  \E j \in Initiators : FromInitiator(j, initiator'[j], inbox[n])
  OBVIOUS
<1>1. PICK j \in Initiators : FromInitiator(j, initiator[j], inbox[n])
  BY DEF WireInv, InboxInv
<1>2. FromInitiator(j, initiator'[j], inbox[n])
  BY <1>1 DEF FromInitiator
<1> QED BY <1>2

\* What is on its way to the initiators when one of them has taken a message.
LEMMA ReplyTaken ==
  ASSUME WireInv, NEW k \in Initiators, Initiators' = Initiators,
         UNCHANGED responder, reply[k] # <<>>,
         reply' = [reply EXCEPT ![k] = Tail(@)],
         \A j \in Initiators : initiator'[j].c = initiator[j].c
  PROVE  ReplyInv'
<1>1. DOMAIN reply' = Initiators
  BY DEF WireInv, ReplyInv
<1>2. ASSUME NEW j \in Initiators
      PROVE  /\ IsSeq(reply'[j])
             /\ \A n \in DOMAIN reply'[j] :
                  \/ IsMessage2(initiator'[j].c, responder.c, reply'[j][n])
                  \/ \E b : reply'[j][n] = <<bstr(b)>>
  <2>1. CASE j # k
    BY <2>1 DEF WireInv, ReplyInv
  <2>2. CASE j = k
    <3>1. reply'[j] = Tail(reply[k]) /\ IsSeq(reply[k])
      BY <2>2 DEF WireInv, ReplyInv
    <3>2. /\ IsSeq(reply'[j])
          /\ \A n \in DOMAIN reply'[j] :
               n + 1 \in DOMAIN reply[k] /\ reply'[j][n] = reply[k][n + 1]
      <4>1. PICK s : s = reply[k]
        OBVIOUS
      <4>2. IsSeq(s) /\ s # <<>> /\ reply'[j] = Tail(s)
        BY <3>1, <4>1
      <4>3. /\ IsSeq(Tail(s))
            /\ \A n \in DOMAIN Tail(s) :
                 n + 1 \in DOMAIN s /\ Tail(s)[n] = s[n + 1]
        BY Zenon, <4>2, TailFacts
      <4> QED BY <4>1, <4>2, <4>3
    <3> QED BY <2>2, <3>2 DEF WireInv, ReplyInv
  <2> QED BY <2>1, <2>2
<1> QED BY <1>1, <1>2 DEF ReplyInv

\* A sequence with one element replaced.
LEMMA ExceptFacts ==
  ASSUME NEW s, IsSeq(s), NEW k \in DOMAIN s, NEW x, NEW t, t = [s EXCEPT ![k] = x]
  PROVE  /\ IsSeq(t) /\ DOMAIN t = DOMAIN s /\ t[k] = x
         /\ \A j \in DOMAIN s : j # k => t[j] = s[j]
<1> DEFINE S == {s[j] : j \in DOMAIN s}
           T == S \cup {x}
<1>1. s \in Seq(T)
  BY SeqMono DEF IsSeq
<1>2. x \in T
  OBVIOUS
<1> HIDE DEF T
<1>3. t \in Seq(T)
  BY <1>1, <1>2
<1> QED BY <1>3, SeqIsSeq

\* What is on its way to the responder when an initiator has sent a message.
LEMMA InboxSent ==
  ASSUME WireInv, NEW k \in Initiators, Initiators' = Initiators,
         \A n \in DOMAIN inbox :
           \E j \in Initiators : FromInitiator(j, initiator'[j], inbox[n]),
         NEW msg, Send(k, msg), FromInitiator(k, initiator'[k], <<k, msg>>)
  PROVE  InboxInv'
<1>1. inbox' = Append(inbox, <<k, msg>>) /\ IsSeq(inbox)
  BY DEF Send, WireInv, InboxInv
<1>2. PICK s : s = inbox
  OBVIOUS
<1>3. PICK x : x = <<k, msg>>
  OBVIOUS
<1>4. /\ IsSeq(Append(s, x))
      /\ \A n \in DOMAIN Append(s, x) :
           \/ n \in DOMAIN s /\ Append(s, x)[n] = s[n]
           \/ Append(s, x)[n] = x
  BY <1>1, <1>2, AppendFacts
<1>5. inbox' = Append(s, x)
  BY <1>1, <1>2, <1>3
<1> QED BY <1>2, <1>3, <1>4, <1>5 DEF InboxInv

\* InitiatorStart preserves the invariant.
LEMMA StartKeeps ==
  ASSUME WireInv, NEW k \in Initiators, InitiatorStart(k)
  PROVE  WireInv'
<1>1. PICK msg1 \in msg1_gen(initiator[k].c) :
        /\ initiator' = [initiator EXCEPT ![k].pc = "message_2", ![k].msg1 = msg1]
        /\ Send(k, msg1)
  BY Zenon DEF InitiatorStart
<1>2. initiator[k].pc = "start" /\ UNCHANGED <<responder, reply>>
  BY DEF InitiatorStart
<1>3. IsSeq(initiator) /\ k \in DOMAIN initiator /\ DOMAIN initiator = Initiators
      /\ DOMAIN initiator[k] = {"c", "pc", "msg1", "prk_4x3m", "th4", "accepted"}
  BY SeqFacts DEF WireInv, InitiatorInv, Initiators
<1>4. PICK i : i = [initiator[k] EXCEPT !.pc = "message_2", !.msg1 = msg1]
  OBVIOUS
<1>5. initiator' = [initiator EXCEPT ![k] = i]
  BY <1>1, <1>3, <1>4
<1>6. i.c = initiator[k].c /\ DOMAIN i = DOMAIN initiator[k] /\ i.pc = "message_2"
  BY <1>3, <1>4
<1>7. /\ IsSeq(initiator') /\ DOMAIN initiator' = DOMAIN initiator
      /\ initiator'[k] = i
      /\ \A j \in Initiators : j # k => initiator'[j] = initiator[j]
  BY <1>3, <1>5, ExceptFacts
<1>8. ~ Derived(initiator[k])
  BY <1>2 DEF Derived
<1>9. /\ Initiators' = Initiators
      /\ InitiatorInv' /\ ResponderInv'
      /\ Message1AsSent' /\ OnlySenderAuthenticated' /\ CertificateNeedsCa'
  BY <1>2, <1>6, <1>7, <1>8, InitiatorStepKeeps
<1>10. ReplyInv'
  BY <1>2, <1>6, <1>7, <1>9 DEF WireInv, ReplyInv
<1>11. InboxInv'
  <2>1. \A n \in DOMAIN inbox :
          \E j \in Initiators : FromInitiator(j, initiator'[j], inbox[n])
    BY <1>6, <1>7, <1>8, InboxKeeps
  <2>2. FromInitiator(k, initiator'[k], <<k, msg1>>)
    BY <1>6, <1>7 DEF FromInitiator
  <2> QED BY <1>1, <1>9, <2>1, <2>2, InboxSent
<1> QED BY <1>9, <1>10, <1>11 DEF WireInv

\* InitiatorMessage2 preserves the invariant.
LEMMA Message2Keeps ==
  ASSUME WireInv, NEW k \in Initiators, InitiatorMessage2(k)
  PROVE  WireInv'
<1> DEFINE m == msg3_gen(initiator[k].c, initiator[k].msg1, Head(reply[k]))
<1>1. /\ initiator[k].pc = "message_2" /\ reply[k] # <<>>
      /\ reply' = [reply EXCEPT ![k] = Tail(@)] /\ UNCHANGED responder
  BY DEF InitiatorMessage2
<1>2. \/ /\ initiator' = [initiator EXCEPT ![k].pc = "failed"]
         /\ UNCHANGED inbox
      \/ /\ m.err = "ok"
         /\ initiator' = [initiator EXCEPT ![k].pc = "message_4",
              ![k].prk_4x3m = m.prk_4x3m, ![k].th4 = m.th4,
              ![k].accepted = m.accepted]
         /\ Send(k, m.msg3)
  BY Zenon DEF InitiatorMessage2
<1>3. IsSeq(initiator) /\ k \in DOMAIN initiator /\ DOMAIN initiator = Initiators
      /\ DOMAIN initiator[k] = {"c", "pc", "msg1", "prk_4x3m", "th4", "accepted"}
      /\ initiator[k].c \in InitiatorContexts /\ responder.c \in ResponderContexts
  BY SeqFacts DEF WireInv, InitiatorInv, ResponderInv, Initiators
<1>4. ~ Derived(initiator[k])
  BY <1>1 DEF Derived
<1>5. ASSUME NEW i, initiator' = [initiator EXCEPT ![k] = i],
             i.c = initiator[k].c, DOMAIN i = DOMAIN initiator[k],
             i.pc \in {"message_4", "done"} =>
               i.accepted = <<responder.c.id_cred_r, responder.c.cred_r>>
      PROVE  /\ initiator'[k] = i /\ Initiators' = Initiators
             /\ InitiatorInv' /\ ResponderInv' /\ ReplyInv'
             /\ Message1AsSent' /\ OnlySenderAuthenticated' /\ CertificateNeedsCa'
             /\ \A n \in DOMAIN inbox :
                  \E j \in Initiators : FromInitiator(j, initiator'[j], inbox[n])
  <2>1. /\ IsSeq(initiator') /\ DOMAIN initiator' = DOMAIN initiator
        /\ initiator'[k] = i
        /\ \A j \in Initiators : j # k => initiator'[j] = initiator[j]
    BY <1>3, <1>5, ExceptFacts
  <2>2. /\ Initiators' = Initiators
        /\ InitiatorInv' /\ ResponderInv'
        /\ Message1AsSent' /\ OnlySenderAuthenticated' /\ CertificateNeedsCa'
    BY <1>1, <1>4, <1>5, <2>1, InitiatorStepKeeps
  <2>3. \A j \in Initiators : initiator'[j].c = initiator[j].c
    BY <1>5, <2>1
  <2>4. ReplyInv'
    BY <1>1, <2>2, <2>3, ReplyTaken
  <2>5. \A n \in DOMAIN inbox :
          \E j \in Initiators : FromInitiator(j, initiator'[j], inbox[n])
    BY <1>4, <1>5, <2>1, InboxKeeps
  <2> QED BY <2>1, <2>2, <2>4, <2>5
<1>6. CASE /\ initiator' = [initiator EXCEPT ![k].pc = "failed"]
           /\ UNCHANGED inbox
  <2>1. PICK i : i = [initiator[k] EXCEPT !.pc = "failed"]
    OBVIOUS
  <2>2. initiator' = [initiator EXCEPT ![k] = i]
    BY <1>3, <1>6, <2>1
  <2>3. i.c = initiator[k].c /\ DOMAIN i = DOMAIN initiator[k] /\ i.pc = "failed"
    BY <1>3, <2>1
  <2>4. /\ Initiators' = Initiators
        /\ InitiatorInv' /\ ResponderInv' /\ ReplyInv'
        /\ Message1AsSent' /\ OnlySenderAuthenticated' /\ CertificateNeedsCa'
        /\ \A n \in DOMAIN inbox :
             \E j \in Initiators : FromInitiator(j, initiator'[j], inbox[n])
    BY <1>5, <2>2, <2>3
  <2>5. InboxInv'
    BY <1>6, <2>4 DEF WireInv, InboxInv
  <2> QED BY <2>4, <2>5 DEF WireInv
<1>7. CASE /\ m.err = "ok"
           /\ initiator' = [initiator EXCEPT ![k].pc = "message_4",
                ![k].prk_4x3m = m.prk_4x3m, ![k].th4 = m.th4,
                ![k].accepted = m.accepted]
           /\ Send(k, m.msg3)
  <2>1. IsMessage2(initiator[k].c, responder.c, Head(reply[k]))
    <3>1. IsSeq(reply[k])
      BY DEF WireInv, ReplyInv
    <3>2. 1 \in DOMAIN reply[k] /\ Head(reply[k]) = reply[k][1]
      BY <1>1, <3>1, TailFacts
    <3>3. \A b : Head(reply[k]) # <<bstr(b)>>
      BY Zenon, <1>7, WrongMessage
    <3> QED BY <3>2, <3>3 DEF WireInv, ReplyInv
  <2>2. /\ m.accepted = <<responder.c.id_cred_r, responder.c.cred_r>>
        /\ IsMessage3(initiator[k].c, m.prk_4x3m, m.th4, m.msg3)
    BY Zenon, <1>3, <1>7, <2>1, Message3Generated
  <2> HIDE DEF m
  <2>3. PICK i : i = [initiator[k] EXCEPT !.pc = "message_4",
                        !.prk_4x3m = m.prk_4x3m, !.th4 = m.th4,
                        !.accepted = m.accepted]
    OBVIOUS
  <2>4. initiator' = [initiator EXCEPT ![k] = i]
    BY <1>3, <1>7, <2>3
  <2>5. /\ i.c = initiator[k].c /\ DOMAIN i = DOMAIN initiator[k]
        /\ i.pc = "message_4" /\ i.prk_4x3m = m.prk_4x3m /\ i.th4 = m.th4
        /\ i.accepted = m.accepted
    BY <1>3, <2>3
  <2>6. /\ initiator'[k] = i /\ Initiators' = Initiators
        /\ InitiatorInv' /\ ResponderInv' /\ ReplyInv'
        /\ Message1AsSent' /\ OnlySenderAuthenticated' /\ CertificateNeedsCa'
        /\ \A n \in DOMAIN inbox :
             \E j \in Initiators : FromInitiator(j, initiator'[j], inbox[n])
    BY <1>5, <2>2, <2>4, <2>5
  <2>7. FromInitiator(k, initiator'[k], <<k, m.msg3>>)
    BY <2>2, <2>5, <2>6 DEF FromInitiator, Derived
  <2>8. InboxInv'
    BY <1>7, <2>6, <2>7, InboxSent
  <2> QED BY <2>6, <2>8 DEF WireInv
<1> QED BY <1>2, <1>6, <1>7

\* InitiatorMessage4 preserves the invariant.
LEMMA Message4Keeps ==
  ASSUME WireInv, NEW k \in Initiators, InitiatorMessage4(k)
  PROVE  WireInv'
<1>1. /\ initiator[k].pc = "message_4" /\ reply[k] # <<>>
      /\ reply' = [reply EXCEPT ![k] = Tail(@)] /\ UNCHANGED <<responder, inbox>>
  BY DEF InitiatorMessage4
<1>2. PICK pc \in {"done", "failed"} :
        initiator' = [initiator EXCEPT ![k].pc = pc]
  <2> DEFINE pc == IF msg4_process(Head(reply[k]), initiator[k].prk_4x3m,
                                   initiator[k].th4) THEN "done" ELSE "failed"
  <2>1. initiator' = [initiator EXCEPT ![k].pc = pc]
    BY Zenon DEF InitiatorMessage4
  <2>2. pc \in {"done", "failed"}
    BY Zenon
  <2> QED BY Zenon, <2>1, <2>2
<1>3. IsSeq(initiator) /\ k \in DOMAIN initiator /\ DOMAIN initiator = Initiators
      /\ DOMAIN initiator[k] = {"c", "pc", "msg1", "prk_4x3m", "th4", "accepted"}
      /\ initiator[k].accepted = <<responder.c.id_cred_r, responder.c.cred_r>>
  BY <1>1, SeqFacts DEF WireInv, InitiatorInv, Initiators
<1>4. PICK i : i = [initiator[k] EXCEPT !.pc = pc]
  OBVIOUS
<1>5. initiator' = [initiator EXCEPT ![k] = i]
  BY <1>2, <1>3, <1>4
<1>6. /\ i.c = initiator[k].c /\ DOMAIN i = DOMAIN initiator[k] /\ i.pc = pc
      /\ i.prk_4x3m = initiator[k].prk_4x3m /\ i.th4 = initiator[k].th4
      /\ i.accepted = initiator[k].accepted
  BY <1>3, <1>4
<1>7. /\ IsSeq(initiator') /\ DOMAIN initiator' = DOMAIN initiator
      /\ initiator'[k] = i
      /\ \A j \in Initiators : j # k => initiator'[j] = initiator[j]
  BY <1>3, <1>5, ExceptFacts
<1>8. Derived(i)
  BY <1>6 DEF Derived
<1>9. /\ Initiators' = Initiators
      /\ InitiatorInv' /\ ResponderInv'
      /\ Message1AsSent' /\ OnlySenderAuthenticated' /\ CertificateNeedsCa'
  BY <1>1, <1>3, <1>6, <1>7, <1>8, InitiatorStepKeeps
<1>10. ReplyInv'
  <2>1. \A j \in Initiators : initiator'[j].c = initiator[j].c
    BY <1>6, <1>7
  <2> QED BY <1>1, <1>9, <2>1, ReplyTaken
<1>11. InboxInv'
  <2>1. \A n \in DOMAIN inbox :
          \E j \in Initiators : FromInitiator(j, initiator'[j], inbox[n])
    BY <1>6, <1>7, <1>8, InboxKeeps
  <2> QED BY <1>1, <1>9, <2>1 DEF WireInv, InboxInv
<1> QED BY <1>9, <1>10, <1>11 DEF WireInv

\* The datagram the responder takes from its socket, and what is left there.
LEMMA InboxTaken ==
  ASSUME WireInv, inbox # <<>>, inbox' = Tail(inbox), UNCHANGED initiator
  PROVE  /\ InboxInv'
         /\ Head(inbox)[1] \in Initiators
         /\ FromInitiator(Head(inbox)[1], initiator[Head(inbox)[1]], Head(inbox))
<1>1. PICK s : s = inbox
  OBVIOUS
<1>2. IsSeq(s) /\ s # <<>> /\ inbox' = Tail(s)
  BY <1>1 DEF WireInv, InboxInv
<1>3. /\ 1 \in DOMAIN s /\ Head(s) = s[1] /\ IsSeq(Tail(s))
      /\ \A n \in DOMAIN Tail(s) : n + 1 \in DOMAIN s /\ Tail(s)[n] = s[n + 1]
  BY Zenon, <1>2, TailFacts
<1>4. \A n \in DOMAIN s :
        \E k \in Initiators : FromInitiator(k, initiator[k], s[n])
  BY <1>1 DEF WireInv, InboxInv
<1>5. Initiators' = Initiators
  BY DEF Initiators
<1>6. InboxInv'
  BY <1>2, <1>3, <1>4, <1>5 DEF InboxInv
<1>7. PICK k \in Initiators : FromInitiator(k, initiator[k], Head(s))
  BY <1>3, <1>4
<1>8. Head(s)[1] = k
  BY <1>7 DEF FromInitiator
<1> QED BY <1>1, <1>6, <1>7, <1>8

\* What is on its way to the initiators when the responder has answered one.
LEMMA ReplySent ==
  ASSUME WireInv, NEW peer \in Initiators, UNCHANGED initiator,
         responder'.c = responder.c, NEW msg,
         reply' = [reply EXCEPT ![peer] = Append(@, msg)],
         \/ IsMessage2(initiator[peer].c, responder.c, msg)
         \/ \E b : msg = <<bstr(b)>>
  PROVE  ReplyInv'
<1>1. DOMAIN reply' = Initiators /\ Initiators' = Initiators
  BY DEF WireInv, ReplyInv, Initiators
<1>2. ASSUME NEW j \in Initiators
      PROVE  /\ IsSeq(reply'[j])
             /\ \A n \in DOMAIN reply'[j] :
                  \/ IsMessage2(initiator[j].c, responder.c, reply'[j][n])
                  \/ \E b : reply'[j][n] = <<bstr(b)>>
  <2>1. CASE j # peer
    BY <2>1 DEF WireInv, ReplyInv
  <2>2. CASE j = peer
    <3>1. PICK s : s = reply[j]
      OBVIOUS
    <3>2. IsSeq(s) /\ reply'[j] = Append(s, msg)
      BY <2>2, <3>1 DEF WireInv, ReplyInv
    <3>3. /\ IsSeq(Append(s, msg))
          /\ \A n \in DOMAIN Append(s, msg) :
               \/ n \in DOMAIN s /\ Append(s, msg)[n] = s[n]
               \/ Append(s, msg)[n] = msg
      BY <3>2, AppendFacts
    <3>4. \A n \in DOMAIN s : \/ IsMessage2(initiator[j].c, responder.c, s[n])
                              \/ \E b : s[n] = <<bstr(b)>>
      BY <3>1 DEF WireInv, ReplyInv
    <3> QED BY <2>2, <3>2, <3>3, <3>4
  <2> QED BY <2>1, <2>2
<1> QED BY <1>1, <1>2 DEF ReplyInv

\* A run of the responder that fails leaves the rest of the invariant true.
LEMMA ResponderFails ==
  ASSUME WireInv, UNCHANGED <<initiator, reply>>,
         DOMAIN responder' = ResponderFields, responder'.pc = "failed",
         responder'.c = responder.c, responder'.accepted = responder.accepted,
         responder'.id_cred_i = responder.id_cred_i,
         responder'.ad_1_len \in 0 .. AD_DEFAULT_SIZE,
         responder'.ad_3_len \in 0 .. AD_DEFAULT_SIZE
  PROVE  /\ InitiatorInv' /\ ReplyInv' /\ ResponderInv'
         /\ Message1AsSent' /\ OnlySenderAuthenticated' /\ CertificateNeedsCa'
<1>1. Initiators' = Initiators
  BY DEF Initiators
<1>2. InitiatorInv'
  BY <1>1 DEF WireInv, InitiatorInv
<1>3. ReplyInv'
  BY <1>1 DEF WireInv, ReplyInv
<1>4. ResponderInv'
  BY DEF WireInv, ResponderInv
<1>5. Message1AsSent'
  BY DEF Message1AsSent
<1>6. OnlySenderAuthenticated'
  BY <1>1 DEF WireInv, OnlySenderAuthenticated
<1>7. CertificateNeedsCa'
  BY DEF WireInv, CertificateNeedsCa
<1> QED BY <1>2, <1>3, <1>4, <1>5, <1>6, <1>7

\* No buffer is taken to be larger than before.
BuffersShrink ==
  /\ responder'.ad_1_len <= responder.ad_1_len
  /\ responder'.ad_3_len <= responder.ad_3_len

\* ResponderMessage1 preserves the invariant.
LEMMA ResponderMessage1Keeps ==
  ASSUME WireInv, ResponderMessage1
  PROVE  WireInv' /\ BuffersShrink
<1> DEFINE peer == Head(inbox)[1]
           msg1 == Head(inbox)[2]
           r == [responder EXCEPT !.peer = peer]
           p == msg1_parse(msg1, r.ad_1_len)
           m == msg2_gen(r.c, msg1, p)
           rc == [suite |-> Terms!get_suite(Last(p.suites_i)), th3 |-> m.th3,
                  static_dh_i |-> Terms!static_dh_i(p.method),
                  PRK_3e2m |-> m.PRK_3e2m]
           s == AfterEad1(r, p.ead_1)
<1>1. /\ responder.pc = "message_1" /\ inbox # <<>> /\ inbox' = Tail(inbox)
      /\ UNCHANGED initiator
  BY DEF ResponderMessage1
<1>2. \/ responder' = Ends(r) /\ UNCHANGED reply
      \/ p.err = "ok" /\ responder' = Ends(s) /\ UNCHANGED reply
      \/ /\ p.err = "ok" /\ m.err = "ok"
         /\ responder' = [s EXCEPT !.pc = "message_3", !.view = p, !.rc = rc]
         /\ reply' = [reply EXCEPT ![peer] = Append(@, m.msg2)]
  BY Zenon DEF ResponderMessage1
<1>3. /\ InboxInv' /\ peer \in Initiators
      /\ FromInitiator(peer, initiator[peer], Head(inbox))
  BY Zenon, <1>1, InboxTaken
<1>4. /\ DOMAIN responder = ResponderFields
      /\ responder.ad_1_len \in 0 .. AD_DEFAULT_SIZE
      /\ responder.ad_3_len \in 0 .. AD_DEFAULT_SIZE
  BY DEF WireInv, ResponderInv
<1>5. /\ DOMAIN r = ResponderFields /\ r.peer = peer
      /\ \A f \in ResponderFields \ {"peer"} : r[f] = responder[f]
  <2> HIDE DEF peer
  <2> QED BY <1>4 DEF ResponderFields
<1>6. /\ r.c = responder.c /\ r.ad_1_len = responder.ad_1_len
      /\ r.ad_3_len = responder.ad_3_len /\ r.accepted = responder.accepted
      /\ r.id_cred_i = responder.id_cred_i
  <2> HIDE DEF r
  <2> QED BY <1>5 DEF ResponderFields
<1>7. ASSUME NEW t, DOMAIN t = ResponderFields, responder' = Ends(t), UNCHANGED reply,
             t.c = responder.c, t.accepted = responder.accepted,
             t.id_cred_i = responder.id_cred_i,
             t.ad_1_len \in 0 .. responder.ad_1_len,
             t.ad_3_len = responder.ad_3_len
      PROVE  WireInv' /\ BuffersShrink
  <2>1. /\ DOMAIN responder' = ResponderFields /\ responder'.pc = "failed"
        /\ responder'.c = responder.c /\ responder'.accepted = responder.accepted
        /\ responder'.id_cred_i = responder.id_cred_i
        /\ responder'.ad_1_len = t.ad_1_len /\ responder'.ad_3_len = t.ad_3_len
    BY <1>7 DEF Ends, ResponderFields
  <2>2. /\ responder'.ad_1_len \in 0 .. AD_DEFAULT_SIZE
        /\ responder'.ad_3_len \in 0 .. AD_DEFAULT_SIZE
        /\ BuffersShrink
    BY <1>4, <1>7, <2>1, AdAssumption DEF BuffersShrink
  <2> QED BY <1>1, <1>3, <1>7, <2>1, <2>2, ResponderFails DEF WireInv
<1>8. CASE responder' = Ends(r) /\ UNCHANGED reply
  <2>1. r.ad_1_len \in 0 .. responder.ad_1_len
    BY <1>4, <1>6, AdAssumption
  <2> HIDE DEF r
  <2> QED BY <1>5, <1>6, <1>7, <1>8, <2>1
<1> DEFINE c == initiator[peer].c
<1>9. ASSUME p.err = "ok"
      PROVE  /\ msg1 \in msg1_gen(c)
             /\ p.method = c.method /\ p.suites_i = c.suites_i /\ p.g_x = c.x
             /\ c.c_i[1] = "int" => p.c_i = c.c_i
             /\ DOMAIN s = ResponderFields /\ s.peer = peer
             /\ s.ad_1_len \in 0 .. responder.ad_1_len
             /\ c.ead_1 # <<>> => s.ad_1 = c.ead_1 /\ s.ad_1_len = Len(c.ead_1)
             /\ s.c = responder.c /\ s.accepted = responder.accepted
             /\ s.id_cred_i = responder.id_cred_i
             /\ s.ad_3_len = responder.ad_3_len
  <2>1. msg1 \in msg1_gen(c)
    <3>1. ASSUME NEW prk, NEW th, IsMessage3(c, prk, th, msg1) PROVE FALSE
      <4>1. PICK b : msg1 = <<bstr(b)>>
        BY Zenon, <3>1 DEF IsMessage3
      <4> QED BY Zenon, <1>9, <4>1, WrongMessage
    <3> QED BY Zenon, <1>3, <3>1 DEF FromInitiator
  <2>2. c \in InitiatorContexts
    BY <1>3 DEF WireInv, InitiatorInv
  <2>3. r.ad_1_len \in Nat /\ r.ad_1_len \in 0 .. AD_DEFAULT_SIZE
    <3> HIDE DEF r
    <3> QED BY <1>4, <1>6, AdAssumption
  <2>4. /\ p.method = c.method /\ p.suites_i = c.suites_i /\ p.g_x = c.x
        /\ c.c_i[1] = "int" => p.c_i = c.c_i
        /\ p.ead_1 = IF c.ead_1 = <<>> THEN {} ELSE {c.ead_1}
        /\ c.ead_1 # <<>> => Len(c.ead_1) <= r.ad_1_len
    BY Zenon, <1>9, <2>1, <2>2, <2>3, Message1Parsed
  <2>5. PICK ead : ead = c.ead_1
    OBVIOUS
  <2>6. ead \in Seq(STRING)
    BY <2>2, <2>5, InitiatorContextFacts
  <2> HIDE DEF p, r, c
  <2>7. /\ s.ad_1_len \in 0 .. r.ad_1_len
        /\ ead # <<>> => s.ad_1 = ead /\ s.ad_1_len = Len(ead)
        /\ DOMAIN s = DOMAIN r
        /\ \A f \in DOMAIN r \ {"ad_1", "ad_1_len"} : s[f] = r[f]
    <3>1. PICK set : set = p.ead_1
      OBVIOUS
    <3>2. set = (IF ead = <<>> THEN {} ELSE {ead}) /\ s = AfterEad1(r, set)
      BY Zenon, <2>4, <2>5, <3>1
    <3> HIDE DEF s
    <3>3. ead # <<>> => Len(ead) <= r.ad_1_len
      BY Zenon, <2>4, <2>5
    <3>4. DOMAIN r = {"c", "pc", "peer", "view", "rc", "ad_1", "ad_1_len",
            "ad_3_len", "id_cred_i", "prk_4x3m", "th4", "accepted"}
      BY <1>5 DEF ResponderFields
    <3> QED BY <2>3, <2>6, <3>2, <3>3, <3>4, Ead1Stored
  <2> HIDE DEF s
  <2>8. /\ s.peer = r.peer /\ s.c = r.c /\ s.accepted = r.accepted
        /\ s.id_cred_i = r.id_cred_i /\ s.ad_3_len = r.ad_3_len
    BY <1>5, <2>7 DEF ResponderFields
  <2> QED BY <1>5, <1>6, <2>1, <2>4, <2>5, <2>7, <2>8
<1>10. CASE p.err = "ok" /\ responder' = Ends(s) /\ UNCHANGED reply
  <2>1. /\ DOMAIN s = ResponderFields /\ s.ad_1_len \in 0 .. responder.ad_1_len
        /\ s.c = responder.c /\ s.accepted = responder.accepted
        /\ s.id_cred_i = responder.id_cred_i
        /\ s.ad_3_len = responder.ad_3_len
    BY Zenon, <1>9, <1>10
  <2> HIDE DEF s, p
  <2> QED BY <1>7, <1>10, <2>1
<1>11. CASE /\ p.err = "ok" /\ m.err = "ok"
            /\ responder' = [s EXCEPT !.pc = "message_3", !.view = p, !.rc = rc]
            /\ reply' = [reply EXCEPT ![peer] = Append(@, m.msg2)]
  <2>1. r.c = responder.c /\ r.ad_1_len \in 0 .. AD_DEFAULT_SIZE
    <3> HIDE DEF r
    <3> QED BY <1>4, <1>6
  <2>2. IsMessage2(c, responder.c, m.msg2)
    BY Zenon, <1>9, <1>11, <2>1 DEF IsMessage2
  <2>3. /\ p.method = c.method /\ p.suites_i = c.suites_i /\ p.g_x = c.x
        /\ c.c_i[1] = "int" => p.c_i = c.c_i
        /\ DOMAIN s = ResponderFields /\ s.peer = peer
        /\ s.ad_1_len \in 0 .. responder.ad_1_len
        /\ c.ead_1 # <<>> => s.ad_1 = c.ead_1 /\ s.ad_1_len = Len(c.ead_1)
        /\ s.c = responder.c /\ s.accepted = responder.accepted
        /\ s.id_cred_i = responder.id_cred_i
        /\ s.ad_3_len = responder.ad_3_len
    BY Zenon, <1>9, <1>11
  <2> HIDE DEF s, p, rc, m, peer
  <2>4. responder' = [s EXCEPT !.pc = "message_3", !.view = p, !.rc = rc]
    BY Zenon, <1>11
  <2>5. /\ DOMAIN responder' = ResponderFields /\ responder'.pc = "message_3"
        /\ responder'.view = p /\ responder'.peer = peer
        /\ responder'.ad_1 = s.ad_1 /\ responder'.ad_1_len = s.ad_1_len
        /\ responder'.c = responder.c /\ responder'.accepted = responder.accepted
        /\ responder'.id_cred_i = responder.id_cred_i
        /\ responder'.ad_3_len = responder.ad_3_len
    BY <2>3, <2>4 DEF ResponderFields
  <2>6. Initiators' = Initiators
    BY <1>1 DEF Initiators
  <2>7. /\ responder'.ad_1_len \in 0 .. AD_DEFAULT_SIZE
        /\ BuffersShrink
    BY <1>4, <2>3, <2>5, AdAssumption DEF BuffersShrink
  <2>8. ReplyInv'
    BY <1>1, <1>3, <1>11, <2>2, <2>5, ReplySent
  <2>9. InitiatorInv'
    BY <1>1, <2>5, <2>6 DEF WireInv, InitiatorInv
  <2>10. ResponderInv'
    BY <1>3, <1>4, <2>5, <2>6, <2>7 DEF WireInv, ResponderInv
  <2>11. Message1AsSent'
    BY <1>1, <2>3, <2>5 DEF Message1AsSent
  <2>12. OnlySenderAuthenticated'
    BY <1>1, <2>5, <2>6 DEF WireInv, OnlySenderAuthenticated
  <2>13. CertificateNeedsCa'
    BY <2>5 DEF WireInv, CertificateNeedsCa
  <2> QED BY <1>3, <2>7, <2>8, <2>9, <2>10, <2>11, <2>12, <2>13 DEF WireInv
<1> QED BY Zenon, <1>2, <1>8, <1>10, <1>11

\* ResponderMessage3 preserves the invariant.
LEMMA ResponderMessage3Keeps ==
  ASSUME WireInv, ResponderMessage3
  PROVE  WireInv' /\ BuffersShrink
<1> DEFINE r == responder
           peer == Head(inbox)[1]
           msg3 == Head(inbox)[2]
<1>1. /\ responder.pc = "message_3" /\ inbox # <<>> /\ inbox' = Tail(inbox)
      /\ UNCHANGED initiator
  BY DEF ResponderMessage3
<1>2. PICK leftover \in {Garbage, r.id_cred_i \o Garbage} :
        LET m == msg3_process(r.c, r.rc, msg3, leftover, r.ad_3_len)
        IN  \/ responder' = Ends([r EXCEPT !.peer = peer]) /\ UNCHANGED reply
            \/ /\ m.err = "ok"
               /\ responder' = [r EXCEPT !.pc = "message_1", !.peer = peer,
                    !.rc = <<>>, !.ad_3_len = m.ead_3_len,
                    !.id_cred_i = m.accepted[1], !.accepted = m.accepted,
                    !.prk_4x3m = m.prk_4x3m, !.th4 = m.th4]
               /\ reply' = [reply EXCEPT ![peer] =
                    Append(@, msg4_gen(r.c, m.prk_4x3m, m.th4))]
  BY Zenon DEF ResponderMessage3
<1> DEFINE m == msg3_process(r.c, r.rc, msg3, leftover, r.ad_3_len)
<1>3. /\ InboxInv' /\ peer \in Initiators
      /\ FromInitiator(peer, initiator[peer], Head(inbox))
  BY Zenon, <1>1, InboxTaken
<1>4. /\ DOMAIN responder = ResponderFields
      /\ responder.c \in ResponderContexts
      /\ responder.ad_1_len \in 0 .. AD_DEFAULT_SIZE
      /\ responder.ad_3_len \in 0 .. AD_DEFAULT_SIZE /\ responder.ad_3_len \in Nat
      /\ responder.id_cred_i = <<responder.id_cred_i[1]>>
  BY AdAssumption DEF WireInv, ResponderInv
<1>5. Initiators' = Initiators
  BY <1>1 DEF Initiators
<1>6. CASE responder' = Ends([r EXCEPT !.peer = peer]) /\ UNCHANGED reply
  <2>1. PICK t : t = [responder EXCEPT !.peer = peer]
    OBVIOUS
  <2>2. /\ DOMAIN t = ResponderFields
        /\ t.c = responder.c /\ t.accepted = responder.accepted
        /\ t.id_cred_i = responder.id_cred_i
        /\ t.ad_1_len = responder.ad_1_len /\ t.ad_3_len = responder.ad_3_len
    BY <1>4, <2>1 DEF ResponderFields
  <2>3. responder' = [t EXCEPT !.pc = "failed"]
    BY <1>6, <2>1 DEF Ends
  <2>4. /\ DOMAIN responder' = ResponderFields /\ responder'.pc = "failed"
        /\ responder'.c = responder.c /\ responder'.accepted = responder.accepted
        /\ responder'.id_cred_i = responder.id_cred_i
        /\ responder'.ad_1_len = responder.ad_1_len
        /\ responder'.ad_3_len = responder.ad_3_len
    BY <2>2, <2>3 DEF ResponderFields
  <2>5. BuffersShrink
    BY <1>4, <2>4, AdAssumption DEF BuffersShrink
  <2> QED BY <1>1, <1>3, <1>4, <1>6, <2>4, <2>5, ResponderFails DEF WireInv
<1>7. CASE /\ m.err = "ok"
           /\ responder' = [r EXCEPT !.pc = "message_1", !.peer = peer,
                !.rc = <<>>, !.ad_3_len = m.ead_3_len,
                !.id_cred_i = m.accepted[1], !.accepted = m.accepted,
                !.prk_4x3m = m.prk_4x3m, !.th4 = m.th4]
           /\ reply' = [reply EXCEPT ![peer] =
                Append(@, msg4_gen(r.c, m.prk_4x3m, m.th4))]
  <2> DEFINE i == initiator[peer]
  <2>1. Derived(i) /\ IsMessage3(i.c, i.prk_4x3m, i.th4, msg3)
    <3>1. msg3 \notin msg1_gen(i.c)
      BY Zenon, <1>7, WrongMessage
    <3> QED BY Zenon, <1>3, <3>1 DEF FromInitiator
  <2>2. \/ leftover = Garbage
        \/ \E x : leftover = <<x>> \o Garbage
    <3>1. CASE leftover = Garbage
      BY Zenon, <3>1
    <3>2. CASE leftover = responder.id_cred_i \o Garbage
      BY Zenon, <1>4, <3>2
    <3> QED BY Zenon, <1>2, <3>1, <3>2
  <2>3. i.c \in InitiatorContexts
    BY <1>3 DEF WireInv, InitiatorInv
  <2>4. /\ m.accepted = <<i.c.id_cred_i, i.c.cred_i>>
        /\ m.prk_4x3m = i.prk_4x3m /\ m.th4 = i.th4
        /\ m.ead_3_len \in 0 .. responder.ad_3_len
        /\ \A cred \in cbor_decode_id_cred_x_map(m.accepted[1]) :
             x5chain \in DOMAIN cred =>
               SignedByKnownCa(responder.c.cred_i_array, cred[x5chain][2])
    <3>1. PICK c, rc, n, msg, d, prk, th : /\ c = responder.c /\ rc = responder.rc
            /\ n = responder.ad_3_len /\ msg = msg3
            /\ d = i.c /\ prk = i.prk_4x3m /\ th = i.th4
      BY Zenon
    <3>2. /\ d \in InitiatorContexts /\ c \in ResponderContexts /\ n \in Nat
          /\ IsMessage3(d, prk, th, msg)
          /\ msg3_process(c, rc, msg, leftover, n).err = "ok"
      BY Zenon, <1>4, <1>7, <2>1, <2>3, <3>1
    <3>3. LET q == msg3_process(c, rc, msg, leftover, n)
          IN  /\ q.accepted = <<d.id_cred_i, d.cred_i>>
              /\ q.prk_4x3m = prk /\ q.th4 = th /\ q.ead_3_len \in 0 .. n
              /\ \A cred \in cbor_decode_id_cred_x_map(q.accepted[1]) :
                   x5chain \in DOMAIN cred =>
                     SignedByKnownCa(c.cred_i_array, cred[x5chain][2])
      BY <2>2, <3>2, Message3Accepted
    <3> QED BY Zenon, <3>1, <3>3
  <2>5. m.accepted[1] = <<m.accepted[1][1]>>
    <3>1. PICK id_cred : id_cred = i.c.id_cred_i
      OBVIOUS
    <3>2. id_cred = <<id_cred[1]>>
      BY <2>3, <3>1, InitiatorContextFacts DEF IsIdCred
    <3>3. m.accepted[1] = id_cred
      <4> HIDE DEF m, i
      <4> QED BY <2>4, <3>1
    <3> QED BY Zenon, <3>2, <3>3
  <2>6. PICK msg4 : /\ reply' = [reply EXCEPT ![peer] = Append(@, msg4)]
                    /\ \E b : msg4 = <<bstr(b)>>
    BY Zenon, <1>7 DEF msg4_gen, cbor_encode_bstr_type_b_str
  <2> HIDE DEF m, peer
  <2>7. /\ DOMAIN responder' = ResponderFields /\ responder'.pc = "message_1"
        /\ responder'.peer = peer /\ responder'.c = responder.c
        /\ responder'.ad_1_len = responder.ad_1_len
        /\ responder'.ad_3_len = m.ead_3_len
        /\ responder'.id_cred_i = m.accepted[1]
        /\ responder'.accepted = m.accepted
        /\ responder'.prk_4x3m = m.prk_4x3m /\ responder'.th4 = m.th4
    <3>1. PICK s : s = responder
      OBVIOUS
    <3>2. PICK t : t = [s EXCEPT !.pc = "message_1", !.peer = peer,
                !.rc = <<>>, !.ad_3_len = m.ead_3_len,
                !.id_cred_i = m.accepted[1], !.accepted = m.accepted,
                !.prk_4x3m = m.prk_4x3m, !.th4 = m.th4]
      OBVIOUS
    <3>3. DOMAIN s = ResponderFields
      BY <1>4, <3>1
    <3>4. /\ DOMAIN t = ResponderFields /\ t.pc = "message_1"
          /\ t.peer = peer /\ t.c = s.c /\ t.ad_1_len = s.ad_1_len
          /\ t.ad_3_len = m.ead_3_len /\ t.id_cred_i = m.accepted[1]
          /\ t.accepted = m.accepted
          /\ t.prk_4x3m = m.prk_4x3m /\ t.th4 = m.th4
      BY <3>2, <3>3 DEF ResponderFields
    <3>5. responder' = t
      BY Zenon, <1>7, <3>1, <3>2
    <3> QED BY Zenon, <3>1, <3>4, <3>5
  <2>8. /\ responder'.ad_3_len \in 0 .. AD_DEFAULT_SIZE
        /\ BuffersShrink
    BY <1>4, <2>4, <2>7, AdAssumption DEF BuffersShrink
  <2>9. ReplyInv'
    BY <1>1, <1>3, <2>6, <2>7, ReplySent
  <2>10. InitiatorInv'
    BY <1>1, <1>5, <2>7 DEF WireInv, InitiatorInv
  <2>11. ResponderInv'
    BY <1>1, <1>3, <1>4, <1>5, <2>1, <2>5, <2>7, <2>8 DEF WireInv, ResponderInv
  <2>12. Message1AsSent'
    BY <2>7 DEF Message1AsSent
  <2>13. OnlySenderAuthenticated'
    <3>1. \A k \in Initiators' : initiator'[k].pc \in {"message_4", "done"} =>
            initiator'[k].accepted = <<responder'.c.id_cred_r, responder'.c.cred_r>>
      BY <1>1, <1>5, <2>7 DEF WireInv, OnlySenderAuthenticated
    <3>2. LET j == initiator'[responder'.peer]
          IN  /\ responder'.accepted = <<j.c.id_cred_i, j.c.cred_i>>
              /\ <<responder'.prk_4x3m, responder'.th4>> = <<j.prk_4x3m, j.th4>>
      BY Zenon, <1>1, <2>4, <2>7
    <3> QED BY Zenon, <3>1, <3>2 DEF OnlySenderAuthenticated
  <2>14. CertificateNeedsCa'
    BY Zenon, <2>4, <2>7 DEF CertificateNeedsCa
  <2> QED BY <1>3, <2>8, <2>9, <2>10, <2>11, <2>12, <2>13, <2>14 DEF WireInv
<1> QED BY Zenon, <1>2, <1>6, <1>7

-----------------------------------------------------------------------------
(* Theorems                                                                *)

\* Every step preserves the invariant, and no buffer grows.
LEMMA WireStep ==
  WireInv /\ [Next]_vars =>
    WireInv' /\ (BuffersShrink \/ responder' = responder)
<1> SUFFICES ASSUME WireInv, [Next]_vars
             PROVE  WireInv' /\ (BuffersShrink \/ responder' = responder)
  OBVIOUS
<1>1. CASE UNCHANGED vars
  <2>1. WireInv'
    BY <1>1 DEF vars, WireInv, InitiatorInv, ReplyInv, InboxInv, ResponderInv,
      Initiators, Message1AsSent, OnlySenderAuthenticated, CertificateNeedsCa
  <2> QED BY <1>1, <2>1 DEF vars
<1>2. ASSUME NEW k \in Initiators, InitiatorStart(k)
      PROVE  WireInv' /\ responder' = responder
  BY <1>2, StartKeeps DEF InitiatorStart
<1>3. ASSUME NEW k \in Initiators, InitiatorMessage2(k)
      PROVE  WireInv' /\ responder' = responder
  BY <1>3, Message2Keeps DEF InitiatorMessage2
<1>4. ASSUME NEW k \in Initiators, InitiatorMessage4(k)
      PROVE  WireInv' /\ responder' = responder
  BY <1>4, Message4Keeps DEF InitiatorMessage4
<1>5. CASE ResponderMessage1
  BY <1>5, ResponderMessage1Keeps
<1>6. CASE ResponderMessage3
  BY <1>6, ResponderMessage3Keeps
<1> QED BY <1>1, <1>2, <1>3, <1>4, <1>5, <1>6 DEF Next

\* The invariant holds in every state of every run.
THEOREM WireInvariant == Spec => []WireInv
<1>1. WireInv /\ [Next]_vars => WireInv'
  BY WireStep
<1> QED BY WireInit, <1>1, PTL DEF Spec

\* The method, suites, key, connection identifier and EAD_1 of a message 1
\* reach the responder as the initiator gave them to msg1_gen: encoding and
\* parsing lose nothing but the bytes of a C_I.
THEOREM Message1AsSentTheorem == Spec => []Message1AsSent
<1>1. WireInv => Message1AsSent
  BY DEF WireInv
<1> QED BY WireInvariant, <1>1, PTL

\* A run ends with the ID_CRED_x and the credential of the party at the other
\* end and, on the responder's side, with its PRK_4x3m and transcript hash.
THEOREM OnlySenderAuthenticatedTheorem == Spec => []OnlySenderAuthenticated
<1>1. WireInv => OnlySenderAuthenticated
  BY DEF WireInv
<1> QED BY WireInvariant, <1>1, PTL

\* A certificate chain is accepted only with the signature of a CA the device
\* knows: there is no way around cert_x509_verify.
THEOREM CertificateNeedsCaTheorem == Spec => []CertificateNeedsCa
<1>1. WireInv => CertificateNeedsCa
  BY DEF WireInv
<1> QED BY WireInvariant, <1>1, PTL

\* The lengths that say how large the EAD buffers are never grow.
THEOREM BuffersNeverGrowTheorem == Spec => BuffersNeverGrow
<1>1. WireInv /\ [Next]_vars =>
        [/\ responder'.ad_1_len <= responder.ad_1_len
         /\ responder'.ad_3_len <= responder.ad_3_len]_vars
  <2>1. ASSUME WireInv, responder' = responder PROVE BuffersShrink
    <3>1. responder.ad_1_len \in Int /\ responder.ad_3_len \in Int
      BY <2>1 DEF WireInv, ResponderInv
    <3> QED BY <2>1, <3>1 DEF BuffersShrink
  <2> QED BY <2>1, WireStep DEF BuffersShrink
<1> QED BY WireInvariant, <1>1, PTL DEF Spec, BuffersNeverGrow

-----------------------------------------------------------------------------
(* ID_CRED_x and plaintexts                                                *)

\* The labels are numbers, so that they can be in order.
LEMMA LabelsAreNumbers == Labels \subseteq Nat
BY DEF Labels, kid, x5bag, x5chain, x5t, x5u, c5b, c5c, c5t, c5u

\* The labels of a map, and the item of one of them.
LabelsOf(entries) == {entries[k][1] : k \in DOMAIN entries}
ItemOf(entries, label) ==
  entries[CHOOSE k \in DOMAIN entries : entries[k][1] = label][2]

\* What the decoder of ID_CRED_x has checked.
LEMMA IdCredDecoded ==
  ASSUME NEW items, NEW cred \in cbor_decode_id_cred_x_map(items),
         NEW entries, entries = items[1][2]
  PROVE  /\ LabelsOf(entries) \subseteq Labels
         /\ \A k \in DOMAIN entries :
              /\ WellTyped(entries[k][1], entries[k][2])
              /\ k > 1 => entries[k - 1][1] < entries[k][1]
         /\ cred = [label \in LabelsOf(entries) |-> ItemOf(entries, label)]
<1>1. /\ LabelsOf(items[1][2]) \subseteq Labels
      /\ \A k \in DOMAIN items[1][2] :
           /\ WellTyped(items[1][2][k][1], items[1][2][k][2])
           /\ k > 1 => items[1][2][k - 1][1] < items[1][2][k][1]
      /\ cred = [label \in LabelsOf(items[1][2]) |-> ItemOf(items[1][2], label)]
  BY Zenon DEF cbor_decode_id_cred_x_map, LabelsOf, ItemOf
<1> QED BY <1>1

\* An ID_CRED_x with one label is what the encoder makes of that label.
LEMMA IdCredForm ==
  ASSUME NEW id_cred, IsIdCred(id_cred),
         NEW cred \in cbor_decode_id_cred_x_map(id_cred),
         NEW label, DOMAIN cred = {label}
  PROVE  /\ id_cred = cbor_encode_id_cred_x_map(label, cred[label])
         /\ cred[label] = <<cred[label][1], cred[label][2]>>
         /\ WellTyped(label, cred[label])
<1>1. PICK entries : entries = id_cred[1][2]
  OBVIOUS
<1>2. /\ LabelsOf(entries) \subseteq Labels
      /\ \A k \in DOMAIN entries :
           /\ WellTyped(entries[k][1], entries[k][2])
           /\ k > 1 => entries[k - 1][1] < entries[k][1]
      /\ cred = [l \in LabelsOf(entries) |-> ItemOf(entries, l)]
  BY <1>1, IdCredDecoded
<1>3. /\ id_cred = <<map(entries)>> /\ IsSeq(entries)
      /\ \A k \in DOMAIN entries : IsEntry(entries[k])
  BY Zenon, <1>1 DEF IsIdCred
<1>4. LabelsOf(entries) = {label}
  BY <1>2
<1>5. \A k \in DOMAIN entries : entries[k][1] = label
  <2>1. \A k \in DOMAIN entries : entries[k][1] \in LabelsOf(entries)
    BY Zenon DEF LabelsOf
  <2> QED BY Zenon, <1>4, <2>1
<1>6. DOMAIN entries = {1} /\ Len(entries) = 1
  <2>1. Len(entries) \in Nat /\ DOMAIN entries = 1 .. Len(entries)
    BY <1>3, SeqFacts
  <2>2. label \in Nat
    BY <1>2, <1>4, LabelsAreNumbers
  <2>3. ASSUME 2 \in DOMAIN entries PROVE FALSE
    <3>1. entries[2 - 1][1] < entries[2][1] /\ 1 \in DOMAIN entries
      BY <1>2, <2>1, <2>3
    <3>2. entries[1][1] = label /\ entries[2][1] = label
      BY <1>5, <2>3, <3>1
    <3>3. 2 - 1 = 1
      OBVIOUS
    <3>4. label < label
      BY Zenon, <3>1, <3>2, <3>3
    <3> QED BY <2>2, <3>4
  <2>4. \E k : k \in DOMAIN entries
    BY <1>4 DEF LabelsOf
  <2>5. Len(entries) = 1
    BY <2>1, <2>3, <2>4
  <2> QED BY <2>1, <2>5
<1>7. PICK entry : entry = entries[1]
  OBVIOUS
<1>8. entries = <<entry>>
  <2>1. IsSeq(<<entry>>) /\ Len(<<entry>>) = 1 /\ <<entry>>[1] = entry
    BY SingleSeq
  <2>2. \A k \in 1 .. Len(entries) : entries[k] = <<entry>>[k]
    <3>1. \A k \in 1 .. 1 : k = 1
      OBVIOUS
    <3> QED BY Zenon, <1>6, <1>7, <2>1, <3>1
  <2> QED BY Zenon, <1>3, <1>6, <2>1, <2>2, SameSeq
<1>9. /\ entry = <<label, entry[2]>> /\ entry[2] = <<entry[2][1], entry[2][2]>>
      /\ WellTyped(label, entry[2])
  <2>1. entry = <<entry[1], <<entry[2][1], entry[2][2]>>>> /\ entry[1] = label
    BY Zenon, <1>3, <1>5, <1>6, <1>7 DEF IsEntry
  <2>2. WellTyped(label, entry[2])
    BY Zenon, <1>2, <1>6, <1>7, <2>1
  <2> QED BY <2>1, <2>2
<1>10. cred[label] = entry[2]
  <2>1. ItemOf(entries, label) = entries[1][2]
    BY <1>5, <1>6 DEF ItemOf
  <2>2. cred[label] = ItemOf(entries, label)
    BY <1>2, <1>4
  <2> QED BY <1>7, <2>1, <2>2
<1>11. id_cred = cbor_encode_id_cred_x_map(label, entry[2])
  BY Zenon, <1>3, <1>8, <1>9 DEF cbor_encode_id_cred_x_map
<1> QED BY Zenon, <1>9, <1>10, <1>11

\* This item under this label is all there is in an ID_CRED_x.
CarriedAs(id_cred, label, item) ==
  /\ label \in {kid, x5t, x5chain}
  /\ id_cred = cbor_encode_id_cred_x_map(label, item)
  /\ item = <<item[1], item[2]>>
  /\ label = kid => item[1] = "int"
  /\ label = x5t => item[2][1][1] = "int"
  /\ cbor_decode_id_cred_x_map(id_cred) # {}
  /\ \A m \in cbor_decode_id_cred_x_map(id_cred) :
       DOMAIN m = {label} /\ m[label] = item

\* An ID_CRED_x that a plaintext carries has one label of the three that are
\* rebuilt, and is decoded as that.
LEMMA CarriedForm ==
  ASSUME NEW id_cred, IsIdCred(id_cred), Carried(id_cred)
  PROVE  \E label, item : CarriedAs(id_cred, label, item)
<1>1. PICK cred \in cbor_decode_id_cred_x_map(id_cred) :
        \/ DOMAIN cred = {kid} \/ DOMAIN cred = {x5chain}
        \/ DOMAIN cred = {x5t} /\ cred[x5t][2][1][1] = "int"
  BY Zenon DEF Carried
<1>2. PICK label \in {kid, x5t, x5chain} :
        DOMAIN cred = {label} /\ (label = x5t => cred[x5t][2][1][1] = "int")
  <2>1. kid # x5t /\ x5chain # x5t
    BY DEF kid, x5t, x5chain
  <2> QED BY Zenon, <1>1, <2>1
<1>3. \A m \in cbor_decode_id_cred_x_map(id_cred) : m = cred
  BY Zenon DEF cbor_decode_id_cred_x_map
<1>4. PICK item : item = cred[label]
  OBVIOUS
<1>5. /\ id_cred = cbor_encode_id_cred_x_map(label, item)
      /\ item = <<item[1], item[2]>> /\ WellTyped(label, item)
  BY Zenon, <1>2, <1>4, IdCredForm
<1>6. label = kid => item[1] = "int"
  <2>1. kid \notin {x5t, c5t}
    BY DEF kid, x5t, c5t
  <2> QED BY Zenon, <1>5, <2>1 DEF WellTyped
<1>7. label = x5t => item[2][1][1] = "int"
  BY <1>2, <1>4
<1>8. \A m \in cbor_decode_id_cred_x_map(id_cred) :
        DOMAIN m = {label} /\ m[label] = item
  BY Zenon, <1>2, <1>3, <1>4
<1>9. cbor_decode_id_cred_x_map(id_cred) # {}
  BY Zenon, <1>1
<1>10. CarriedAs(id_cred, label, item)
  BY <1>2, <1>5, <1>6, <1>7, <1>8, <1>9 DEF CarriedAs
<1> QED BY <1>10

\* A plaintext is made of every ID_CRED_x that is carried.
LEMMA PlaintextMade ==
  ASSUME NEW id_cred, Carried(id_cred), NEW sgn_or_mac, NEW ead
  PROVE  plaintext_encode(id_cred, sgn_or_mac, ead) # {}
<1>1. cbor_decode_id_cred_x_map(id_cred) # {}
  BY Zenon DEF Carried
<1>2. id_cred2kid(id_cred) # {}
  BY <1>1 DEF id_cred2kid
<1> QED BY <1>2 DEF plaintext_encode

\* The decoder of ID_CRED_x looks at one item.
LEMMA FirstDecoded ==
  ASSUME NEW a, NEW b, 1 \in DOMAIN a, 1 \in DOMAIN b, a[1] = b[1]
  PROVE  cbor_decode_id_cred_x_map(a) = cbor_decode_id_cred_x_map(b)
BY DEF cbor_decode_id_cred_x_map, Is

\* The first item of a plaintext: the kid alone, or the map.
LEMMA PlaintextFirst ==
  ASSUME NEW id_cred, NEW label, NEW item, CarriedAs(id_cred, label, item),
         NEW s, NEW ptxt \in plaintext_encode(id_cred, s, <<>>)
  PROVE  LET x == IF label = kid THEN item ELSE id_cred[1]
         IN  ptxt = <<x>> \o <<bstr(s)>> \o <<raw(<<>>)>>
<1>1. PICK k \in id_cred2kid(id_cred) :
        ptxt = (IF k = <<>> THEN id_cred ELSE k)
                 \o cbor_encode_bstr_type_b_str(s) \o <<raw(<<>>)>>
  BY Zenon DEF plaintext_encode
<1>2. PICK m \in cbor_decode_id_cred_x_map(id_cred) :
        k = IF kid \in DOMAIN m THEN cbor_encode_int_type_i(m[kid][2]) ELSE <<>>
  BY Zenon DEF id_cred2kid
<1>3. id_cred = <<id_cred[1]>>
  BY DEF CarriedAs, cbor_encode_id_cred_x_map
<1>4. CASE label = kid
  <2>1. k = <<item>>
    BY <1>2, <1>4 DEF CarriedAs, cbor_encode_int_type_i, int
  <2> QED BY <1>1, <1>4, <2>1 DEF cbor_encode_bstr_type_b_str
<1>5. CASE label # kid
  <2>1. k = <<>>
    BY <1>2, <1>5 DEF CarriedAs
  <2> QED BY <1>1, <1>3, <1>5, <2>1 DEF cbor_encode_bstr_type_b_str
<1> QED BY <1>4, <1>5

\* What the decoder reads in that plaintext.
LEMMA PlaintextDecoded ==
  ASSUME NEW id_cred, NEW label, NEW item, CarriedAs(id_cred, label, item),
         NEW s, NEW ptxt \in plaintext_encode(id_cred, s, <<>>)
  PROVE  LET x == IF label = kid THEN item ELSE id_cred[1]
         IN  cbor_decode_plaintext(ptxt) =
               {[id_cred |-> x, sgn_or_mac |-> s, ad |-> {}]}
<1> DEFINE x == IF label = kid THEN item ELSE id_cred[1]
<1>1. ptxt = <<x>> \o <<bstr(s)>> \o <<raw(<<>>)>>
  BY Zenon, PlaintextFirst
<1>2. /\ IsSeq(ptxt) /\ Len(ptxt) = 3
      /\ ptxt[1] = x /\ ptxt[2] = bstr(s) /\ ptxt[3] = raw(<<>>)
  <2> HIDE DEF x
  <2> QED BY <1>1, ThreeItems
<1>3. DOMAIN ptxt = 1 .. 3
  BY <1>2, SeqFacts
<1>4. Is(ptxt, 1, {"int", "bstr"}) \/ cbor_decode_id_cred_x_map(ptxt) # {}
  <2>1. CASE label = kid
    <3>1. x[1] = "int"
      BY Zenon, <2>1 DEF CarriedAs
    <3> HIDE DEF x
    <3> QED BY <1>2, <1>3, <3>1 DEF Is
  <2>2. CASE label # kid
    <3>1. x = id_cred[1] /\ 1 \in DOMAIN id_cred
      BY <2>2 DEF CarriedAs, cbor_encode_id_cred_x_map
    <3>2. 1 \in DOMAIN ptxt
      BY <1>3
    <3>3. cbor_decode_id_cred_x_map(ptxt) = cbor_decode_id_cred_x_map(id_cred)
      BY Zenon, <1>2, <3>1, <3>2, FirstDecoded
    <3> QED BY Zenon, <3>3 DEF CarriedAs
  <2> QED BY <2>1, <2>2
<1>5. Is(ptxt, 2, {"bstr"}) /\ ptxt[2][2] = s
  BY <1>2, <1>3 DEF Is, bstr
<1>6. cbor_decode_bstr_type_b_str(
        IF Len(ptxt) > 2 THEN <<Read(ptxt[3])>> ELSE <<>>) = {}
  <2>1. Read(ptxt[3]) = raw(<<>>)
    BY <1>2 DEF Read, raw
  <2>2. cbor_decode_bstr_type_b_str(<<raw(<<>>)>>) = {}
    BY DEF cbor_decode_bstr_type_b_str, raw, Is
  <2>3. Len(ptxt) > 2
    BY <1>2
  <2> QED BY <2>1, <2>2, <2>3
<1>7. cbor_decode_plaintext(ptxt) =
        {[id_cred |-> ptxt[1], sgn_or_mac |-> ptxt[2][2],
          ad |-> cbor_decode_bstr_type_b_str(
                   IF Len(ptxt) > 2 THEN <<Read(ptxt[3])>> ELSE <<>>)]}
  BY Zenon, <1>4, <1>5 DEF cbor_decode_plaintext
<1> HIDE DEF x
<1> QED BY <1>2, <1>5, <1>6, <1>7 DEF x

\* What is carried and followed by no EAD is split as it was put together, in
\* whatever state the buffers are.
LEMMA PlaintextRestored ==
  ASSUME NEW id_cred, IsIdCred(id_cred), Carried(id_cred),
         NEW s, NEW ptxt \in plaintext_encode(id_cred, s, <<>>),
         NEW leftover, NEW n
  PROVE  plaintext_split(ptxt, leftover, n) =
           {[id_cred |-> id_cred, sgn_or_mac |-> s, ad |-> <<>>]}
<1>1. PICK label, item : CarriedAs(id_cred, label, item)
  BY CarriedForm
<1> DEFINE x == IF label = kid THEN item ELSE id_cred[1]
           Given(q) == CHOOSE m \in cbor_decode_id_cred_x_map(<<q.id_cred>>) : TRUE
           IdCred(q) ==
             IF q.id_cred[1] = "int" THEN id_cred_x_encode(kid, q.id_cred)
             ELSE IF q.id_cred[1] = "bstr"
               THEN id_cred_x_encode(kid, int(Uninitialized))
             ELSE IF x5t \in DOMAIN Given(q)
               THEN id_cred_x_encode(x5t, Given(q)[x5t])
             ELSE IF x5chain \in DOMAIN Given(q)
               THEN id_cred_x_encode(x5chain, Given(q)[x5chain])
             ELSE leftover
           Ad(q) == IF q.ad = {} THEN <<>> ELSE CHOOSE ad \in q.ad : TRUE
           Split(q) == [id_cred |-> IdCred(q), sgn_or_mac |-> q.sgn_or_mac,
                        ad |-> Ad(q)]
           whole == [id_cred |-> x, sgn_or_mac |-> s, ad |-> {}]
<1>2. cbor_decode_plaintext(ptxt) = {whole}
  BY Zenon, <1>1, PlaintextDecoded
<1>3. /\ whole.id_cred = x /\ whole.sgn_or_mac = s /\ whole.ad = {}
  <2> HIDE DEF x
  <2> QED OBVIOUS
<1>4. plaintext_split(ptxt, leftover, n) = {Split(whole)}
  <2>1. plaintext_split(ptxt, leftover, n) =
          {Split(q) : q \in {p \in cbor_decode_plaintext(ptxt) :
                               \A ad \in p.ad : Len(ad) <= n}}
    BY Zenon DEF plaintext_split
  <2> HIDE DEF Split, whole
  <2> QED BY <1>2, <1>3, <2>1
<1>5. Ad(whole) = <<>>
  <2> HIDE DEF whole
  <2> QED BY <1>3
<1>6. IdCred(whole) = id_cred
  <2>1. CASE label = kid
    <3>1. x[1] = "int" /\ id_cred = cbor_encode_id_cred_x_map(kid, x)
      BY Zenon, <1>1, <2>1 DEF CarriedAs
    <3>2. IdCred(whole) = id_cred_x_encode(kid, x)
      <4> HIDE DEF whole, x
      <4> QED BY Zenon, <1>3, <3>1
    <3>3. kid # x5t
      BY DEF kid, x5t
    <3> HIDE DEF x
    <3> QED BY Zenon, <3>1, <3>2, <3>3 DEF id_cred_x_encode
  <2>2. CASE label # kid
    <3>1. /\ x = id_cred[1] /\ id_cred = <<x>> /\ x[1] = "map"
      BY <1>1, <2>2 DEF CarriedAs, cbor_encode_id_cred_x_map, map
    <3>2. DOMAIN Given(whole) = {label} /\ Given(whole)[label] = item
      <4>1. whole.id_cred = x
        BY <1>3
      <4>2. <<whole.id_cred>> = id_cred
        <5> HIDE DEF whole, x
        <5> QED BY <3>1, <4>1
      <4>3. Given(whole) \in cbor_decode_id_cred_x_map(id_cred)
        BY Zenon, <1>1, <4>2 DEF CarriedAs
      <4> QED BY Zenon, <1>1, <4>3 DEF CarriedAs
    <3>3. IdCred(whole) = id_cred_x_encode(label, item)
      <4>1. "map" # "int" /\ "map" # "bstr" /\ x5t # x5chain
        BY DEF x5t, x5chain
      <4>2. label \in {x5t, x5chain}
        BY Zenon, <1>1, <2>2 DEF CarriedAs
      <4> HIDE DEF whole, x, Given
      <4> QED BY Zenon, <1>3, <2>2, <3>1, <3>2, <4>1, <4>2
    <3> QED BY Zenon, <1>1, <3>3 DEF CarriedAs, id_cred_x_encode
  <2> QED BY <2>1, <2>2
<1>7. Split(whole) = [id_cred |-> id_cred, sgn_or_mac |-> s, ad |-> <<>>]
  <2> HIDE DEF whole, IdCred, Ad
  <2> QED BY <1>3, <1>5, <1>6
<1> QED BY Zenon, <1>4, <1>7

-----------------------------------------------------------------------------
(* What the two parties of a run compute                                   *)

\* A ciphertext opens with what it was made with.
LEMMA DecryptsOwn ==
  ASSUME NEW ctxt, NEW prk, NEW th, NEW ptxt
  PROVE  decrypt(ctxt, prk, th, encrypt(ctxt, prk, th, ptxt)) = {ptxt}
<1>1. PICK ciphertext : ciphertext = encrypt(ctxt, prk, th, ptxt)
  OBVIOUS
<1>2. ciphertext[4] = ptxt
  BY <1>1, Encrypted
<1> QED BY <1>1, <1>2 DEF decrypt

\* Both sides of a key exchange extract the same secret, and a secret that is
\* not extracted does not matter.
LEMMA SameKeys ==
  /\ \A suite, a, b : prk_2e(suite, a, b) = prk_2e(suite, b, a)
  /\ \A static_dh, suite, prk, a, b, c, d : (static_dh => a = d /\ b = c) =>
       prk_next(static_dh, suite, prk, a, b) = prk_next(static_dh, suite, prk, c, d)
<1>1. \A suite, a, b : Terms!shared_secret_derive(suite, a, b)
                         = Terms!shared_secret_derive(suite, b, a)
  BY DEF Terms!shared_secret_derive
<1>2. \A suite, a, b : prk_2e(suite, a, b) = prk_2e(suite, b, a)
  BY Zenon, <1>1 DEF prk_2e
<1>3. ASSUME NEW static_dh, NEW suite, NEW prk, NEW a, NEW b, NEW c, NEW d,
             static_dh => a = d /\ b = c
      PROVE  prk_next(static_dh, suite, prk, a, b)
               = prk_next(static_dh, suite, prk, c, d)
  <2>1. CASE static_dh
    BY ZenonT(40), <1>1, <1>3, <2>1 DEF prk_next, Terms!prk_derive
  <2>2. CASE ~ static_dh
    BY Zenon, <2>2 DEF prk_next, Terms!prk_derive
  <2> QED BY Zenon, <2>1, <2>2
<1> QED BY Zenon, <1>2, <1>3

\* The values of a run between the contexts i and r, as msg2_gen and msg3_gen
\* compute them.
Suite(i) == Terms!get_suite(Last(i.suites_i))
DhI(i) == Terms!static_dh_i(i.method)
DhR(i) == Terms!static_dh_r(i.method)
Th2(r, msg1) == th2_calculate(msg1, r.y, r.c_r)
Prk2e(i, r) == prk_2e(Suite(i), r.y, i.x)
Prk3e2m(i, r) == prk_next(DhR(i), Suite(i), Prk2e(i, r), i.x, r.r)
Mac2(i, r, msg1) ==
  signature_or_mac(Suite(i), DhR(i), r.sk_r, Prk3e2m(i, r), Th2(r, msg1), "MAC_2",
                   r.id_cred_r, r.cred_r, r.ead_2)
Plaintext2(i, r, msg1) ==
  CHOOSE ptxt \in plaintext_encode(r.id_cred_r, Mac2(i, r, msg1), r.ead_2) : TRUE
Ciphertext2(i, r, msg1) ==
  encrypt(Terms!CIPHERTEXT2, Prk2e(i, r), Th2(r, msg1), Plaintext2(i, r, msg1))
Message2(i, r, msg1) == msg2_encode(r.y, r.c_r, Ciphertext2(i, r, msg1))
Th3(i, r, msg1) == th3_calculate(Th2(r, msg1), Ciphertext2(i, r, msg1))
RuntimeContext(i, r, msg1) ==
  [suite |-> Suite(i), th3 |-> Th3(i, r, msg1), static_dh_i |-> DhI(i),
   PRK_3e2m |-> Prk3e2m(i, r)]
Prk4x3m(i, r) == prk_next(DhI(i), Suite(i), Prk3e2m(i, r), r.y, i.i)
Mac3(i, r, msg1) ==
  signature_or_mac(Suite(i), DhI(i), i.sk_i, Prk4x3m(i, r), Th3(i, r, msg1),
                   "MAC_3", i.id_cred_i, i.cred_i, i.ead_3)
Plaintext3(i, r, msg1) ==
  CHOOSE ptxt \in plaintext_encode(i.id_cred_i, Mac3(i, r, msg1), i.ead_3) : TRUE
Ciphertext3(i, r, msg1) ==
  encrypt(Terms!CIPHERTEXT3, Prk3e2m(i, r), Th3(i, r, msg1), Plaintext3(i, r, msg1))
Message3(i, r, msg1) == cbor_encode_bstr_type_b_str(Ciphertext3(i, r, msg1))

\* What it takes for the contexts to fit.
KeyI(i) == IF DhI(i) THEN i.i ELSE i.sk_i
KeyR(i, r) == IF DhR(i) THEN r.r ELSE r.sk_r
LEMMA FitsFacts ==
  ASSUME NEW i, NEW r, Fits(i, r)
  PROVE  /\ Len(i.suites_i) <= SUITES_I_LEN
         /\ selected_suite_is_supported(Last(i.suites_i), r.suites_r)
         /\ KeyI(i) # NoKey /\ KeyR(i, r) # NoKey
         /\ Carried(i.id_cred_i) /\ Carried(r.id_cred_r)
         /\ Knows(DhR(i), i.cred_r_array, r.id_cred_r, r.cred_r, KeyR(i, r))
         /\ Knows(DhI(i), r.cred_i_array, i.id_cred_i, i.cred_i, KeyI(i))
         /\ r.ead_2 = <<>> /\ i.ead_3 = <<>>
         /\ r.ead_4 # <<>> => Head(r.ead_4) = "bstr"
BY Zenon DEF Fits, KeyI, KeyR, DhI, DhR

\* The responder generates message 2 for the message 1 it has read, when the
\* contexts fit, and whenever it does the message is this one.
LEMMA Message2Made ==
  ASSUME NEW i, NEW r, NEW msg1, NEW p, p.method = i.method,
         p.suites_i = i.suites_i, p.g_x = i.x
  PROVE  LET m == msg2_gen(r, msg1, p)
         IN  /\ Fits(i, r) => m.err = "ok"
             /\ m.err = "ok" => /\ m.th3 = Th3(i, r, msg1)
                                /\ m.PRK_3e2m = Prk3e2m(i, r)
                                /\ m.msg2 = Message2(i, r, msg1)
<1> DEFINE plaintexts == plaintext_encode(r.id_cred_r, Mac2(i, r, msg1), r.ead_2)
           made == [err |-> "ok", th3 |-> Th3(i, r, msg1),
                    PRK_3e2m |-> Prk3e2m(i, r), msg2 |-> Message2(i, r, msg1)]
           m == msg2_gen(r, msg1, p)
           Supported == selected_suite_is_supported(Last(i.suites_i), r.suites_r)
           Missing == MissingKey(DhR(i), r.r, r.sk_r)
<1>1. m = IF ~ Supported THEN Failed("error_message_sent")
          ELSE IF Missing THEN Failed("no_key")
          ELSE IF plaintexts = {} THEN Failed("unexpected_result_from_ext_lib")
          ELSE made
  BY DEF msg2_gen, Suite, DhR, Th2, Prk2e, Prk3e2m, Mac2, Plaintext2, Ciphertext2,
    Message2, Th3
<1>2. Fits(i, r) => Supported /\ ~ Missing /\ plaintexts # {}
  <2>1. ASSUME Fits(i, r) PROVE ~ Missing
    BY Zenon, <2>1, FitsFacts DEF MissingKey, KeyR
  <2> QED BY Zenon, <2>1, FitsFacts, PlaintextMade
<1>3. /\ made.err = "ok" /\ made.th3 = Th3(i, r, msg1)
      /\ made.PRK_3e2m = Prk3e2m(i, r) /\ made.msg2 = Message2(i, r, msg1)
  OBVIOUS
<1>4. /\ Failed("error_message_sent").err # "ok" /\ Failed("no_key").err # "ok"
      /\ Failed("unexpected_result_from_ext_lib").err # "ok"
  BY FailedFacts
<1> HIDE DEF made, m, Supported, Missing, plaintexts
<1> QED BY Zenon, <1>1, <1>2, <1>3, <1>4 DEF m

-----------------------------------------------------------------------------
(* What one party makes the other accepts                                  *)

\* The list of suites that is parsed is as long as the one that was sent.
LEMMA SuitesLength ==
  ASSUME NEW c \in InitiatorContexts
  PROVE  LET s == Suites(c)
         IN  Len(IF s[1] = "int" THEN <<s>> ELSE s[2]) = Len(c.suites_i)
<1> DEFINE s == Suites(c)
           suites == IF s[1] = "int" THEN <<s>> ELSE s[2]
<1>1. c.suites_i \in Seq(0 .. 255)
  BY InitiatorContextFacts
<1>2. CASE Len(c.suites_i) = 1
  <2>1. s = int(c.suites_i[1])
    BY Zenon, <1>2 DEF Suites
  <2>2. suites = <<s>>
    BY <2>1 DEF int
  <2> HIDE DEF s, suites
  <2>3. Len(suites) = 1
    BY <2>2
  <2> QED BY <1>2, <2>3 DEF suites, s
<1>3. CASE Len(c.suites_i) # 1
  <2> DEFINE F(k) == int(c.suites_i[k])
             S == {F(k) : k \in DOMAIN c.suites_i}
             t == [k \in 1 .. Len(c.suites_i) |-> F(k)]
  <2>1. Len(c.suites_i) \in Nat /\ DOMAIN c.suites_i = 1 .. Len(c.suites_i)
    BY <1>1
  <2>2. s = list(t)
    BY Zenon, <1>3, <2>1 DEF Suites
  <2>3. suites = t
    <3> HIDE DEF t
    <3> QED BY <2>2 DEF list
  <2>4. \A k \in 1 .. Len(c.suites_i) : F(k) \in S
    BY <2>1
  <2> HIDE DEF F, S
  <2>5. t \in Seq(S)
    BY <2>1, <2>4, IsASeq
  <2>6. DOMAIN t = 1 .. Len(c.suites_i) /\ DOMAIN t = 1 .. Len(t) /\ Len(t) \in Nat
    BY <2>5
  <2> HIDE DEF t
  <2>7. Len(t) = Len(c.suites_i)
    BY <2>1, <2>6
  <2> QED BY <2>3, <2>7
<1> QED BY <1>2, <1>3

\* The responder accepts a message 1 whose suites and EAD_1 fit its buffers.
LEMMA Message1Accepted ==
  ASSUME NEW c \in InitiatorContexts, NEW msg1 \in msg1_gen(c), NEW n \in Nat,
         Len(c.suites_i) <= SUITES_I_LEN, Len(c.ead_1) <= n
  PROVE  msg1_parse(msg1, n).err = "ok"
<1> DEFINE D == cbor_decode_message_1(msg1)
           m == CHOOSE m \in D : TRUE
           List(s) == IF s[1] = "int" THEN <<s>> ELSE s[2]
<1>1. c.suites_i \in Seq(0 .. 255) /\ IsCx(c.c_i) /\ c.ead_1 \in Seq(STRING)
  BY InitiatorContextFacts
<1>2. /\ msg1[1] = int(c.method) /\ msg1[2] = Suites(c)
      /\ msg1[3] = bstr(c.x) /\ msg1[4] = c.c_i
      /\ {1, 2, 3, 4} \subseteq DOMAIN msg1
  BY Message1Items
<1>3. IsSuites(msg1, 2)
  <2> DEFINE items == <<int(c.method), Suites(c), bstr(c.x), c.c_i>>
  <2>1. IsSuites(items, 2)
    BY Zenon DEF msg1_gen, cbor_encode_message_1, Suites
  <2>2. items[2] = Suites(c)
    OBVIOUS
  <2> HIDE DEF items
  <2> QED BY Zenon, <1>2, <2>1, <2>2 DEF IsSuites, Is
<1>4. Is(msg1, 1, {"int"}) /\ Is(msg1, 3, {"bstr"}) /\ Is(msg1, 4, {"int", "bstr"})
  <2>1. c.c_i[1] \in {"int", "bstr"}
    BY <1>1 DEF IsCx, bstr
  <2> QED BY <1>2, <2>1 DEF Is, int, bstr
<1>5. D # {}
  BY Zenon, <1>3, <1>4 DEF cbor_decode_message_1
<1>6. m.suites = Suites(c) /\ m.ead_1 = IF c.ead_1 = <<>> THEN {} ELSE {c.ead_1}
  <2>1. m \in D
    BY Zenon, <1>5
  <2> HIDE DEF m
  <2> QED BY <2>1, Message1Decoded
<1>7. ~ Len(List(m.suites)) > SUITES_I_LEN
  <2>1. Len(List(Suites(c))) = Len(c.suites_i)
    BY Zenon, SuitesLength
  <2>2. Len(List(m.suites)) = Len(c.suites_i)
    BY Zenon, <1>6, <2>1
  <2>3. Len(c.suites_i) \in Nat
    BY <1>1
  <2> HIDE DEF m, List
  <2> QED BY <2>2, <2>3 DEF SUITES_I_LEN
<1>8. ~ \E ead \in m.ead_1 : Len(ead) > n
  <2>1. Len(c.ead_1) \in Nat
    BY <1>1
  <2> HIDE DEF m
  <2> QED BY <1>6, <2>1
<1>9. \E r : msg1_parse(msg1, n) = [err |-> "ok", method |-> m.method,
               suites_i |-> [k \in DOMAIN List(m.suites) |->
                               List(m.suites)[k][2] % 256],
               g_x |-> m.g_x, c_i |-> r, ead_1 |-> m.ead_1]
  BY Zenon, <1>5, <1>7, <1>8 DEF msg1_parse
<1> HIDE DEF m, List
<1> QED BY <1>9

\* What msg2_parse reads in a message 2 is what was put into it.
LEMMA Message2Read ==
  ASSUME NEW g_y, NEW c_r, IsCx(c_r), NEW ciphertext_2
  PROVE  msg2_parse(msg2_encode(g_y, c_r, ciphertext_2)) =
           {[g_y |-> g_y, ciphertext_2 |-> ciphertext_2, c_r |-> c_r]}
<1> DEFINE msg2 == msg2_encode(g_y, c_r, ciphertext_2)
           d == [g_y |-> g_y, ciphertext_2 |-> ciphertext_2, c_r |-> c_r]
           New(e) == [e EXCEPT !.c_r = c_x_set(e.c_r, Len(e.c_r[2]))]
<1>1. msg2 = <<bstr(<<g_y, ciphertext_2>>), c_r>>
  BY Zenon DEF msg2_encode, cbor_encode_m2
<1>2. Is(msg2, 1, {"bstr"}) /\ Is(msg2, 2, {"int", "bstr"})
  <2>1. c_r[1] \in {"int", "bstr"}
    BY DEF IsCx, bstr
  <2> HIDE DEF msg2
  <2> QED BY <1>1, <2>1 DEF Is, bstr
<1>3. msg2[1][2][1] = g_y /\ msg2[1][2][2] = ciphertext_2 /\ msg2[2] = c_r
  <2> HIDE DEF msg2
  <2> QED BY <1>1 DEF bstr
<1>4. cbor_decode_m2(msg2) = {d}
  BY Zenon, <1>2, <1>3 DEF cbor_decode_m2
<1>5. c_x_set(c_r, Len(c_r[2])) = c_r
  <2>1. CASE c_r[1] = "int"
    BY Zenon, <2>1 DEF c_x_set
  <2>2. CASE c_r[1] # "int"
    <3>1. PICK b : b = c_r[2]
      OBVIOUS
    <3>2. c_r = bstr(b) /\ IsSeq(b)
      BY Zenon, <2>2, <3>1 DEF IsCx
    <3>3. SubSeq(b, 1, Len(b)) = b
      BY <3>2 DEF IsSeq
    <3> QED BY Zenon, <2>2, <3>1, <3>2, <3>3 DEF c_x_set
  <2> QED BY <2>1, <2>2
<1>6. New(d) = d
  BY <1>5
<1>7. msg2_parse(msg2) = {New(e) : e \in cbor_decode_m2(msg2)}
  BY Zenon DEF msg2_parse
<1> HIDE DEF New, d, msg2
<1>8. msg2_parse(msg2) = {d}
  BY <1>4, <1>6, <1>7
<1> QED BY <1>8 DEF d, msg2

\* The key a party is known by is the one that counts for its authentication.
LEMMA PeerKeys ==
  ASSUME NEW i, NEW r
  PROVE  /\ prk_next(DhR(i), Suite(i), Prk2e(i, r), i.x, KeyR(i, r)) = Prk3e2m(i, r)
         /\ prk_next(DhI(i), Suite(i), Prk3e2m(i, r), r.y, KeyI(i)) = Prk4x3m(i, r)
<1>1. ASSUME NEW static_dh, NEW suite, NEW prk, NEW a, NEW b, NEW c, static_dh => b = c
      PROVE  prk_next(static_dh, suite, prk, a, b) = prk_next(static_dh, suite, prk, a, c)
  <2>1. prk_next(static_dh, suite, prk, a, b) = prk_next(static_dh, suite, prk, c, a)
    BY <1>1, SameKeys
  <2>2. prk_next(static_dh, suite, prk, c, a) = prk_next(static_dh, suite, prk, a, c)
    BY SameKeys
  <2> QED BY Zenon, <2>1, <2>2
<1>2. (DhR(i) => KeyR(i, r) = r.r) /\ (DhI(i) => KeyI(i) = i.i)
  BY Zenon DEF KeyR, KeyI
<1>3. prk_next(DhR(i), Suite(i), Prk2e(i, r), i.x, KeyR(i, r)) = Prk3e2m(i, r)
  <2>1. PICK static_dh, suite, prk, a, b, c :
          /\ static_dh = DhR(i) /\ suite = Suite(i) /\ prk = Prk2e(i, r)
          /\ a = i.x /\ b = KeyR(i, r) /\ c = r.r
    BY Zenon
  <2>2. static_dh => b = c
    BY Zenon, <1>2, <2>1
  <2>3. prk_next(static_dh, suite, prk, a, b) = prk_next(static_dh, suite, prk, a, c)
    BY <1>1, <2>2
  <2> QED BY Zenon, <2>1, <2>3 DEF Prk3e2m
<1>4. prk_next(DhI(i), Suite(i), Prk3e2m(i, r), r.y, KeyI(i)) = Prk4x3m(i, r)
  <2>1. PICK static_dh, suite, prk, a, b, c :
          /\ static_dh = DhI(i) /\ suite = Suite(i) /\ prk = Prk3e2m(i, r)
          /\ a = r.y /\ b = KeyI(i) /\ c = i.i
    BY Zenon
  <2>2. static_dh => b = c
    BY Zenon, <1>2, <2>1
  <2>3. prk_next(static_dh, suite, prk, a, b) = prk_next(static_dh, suite, prk, a, c)
    BY <1>1, <2>2
  <2> QED BY Zenon, <2>1, <2>3 DEF Prk4x3m
<1> QED BY <1>3, <1>4

\* A MAC or signature is verified with the key its author is known by.
LEMMA PeerMacs ==
  ASSUME NEW i, NEW r, NEW msg1
  PROVE  /\ r.ead_2 = <<>> =>
              Mac2(i, r, msg1) =
                signature_or_mac(Suite(i), DhR(i), KeyR(i, r), Prk3e2m(i, r),
                  Th2(r, msg1), "MAC_2", r.id_cred_r, r.cred_r, <<>>)
         /\ i.ead_3 = <<>> =>
              Mac3(i, r, msg1) =
                signature_or_mac(Suite(i), DhI(i), KeyI(i), Prk4x3m(i, r),
                  Th3(i, r, msg1), "MAC_3", i.id_cred_i, i.cred_i, <<>>)
<1>1. (~ DhR(i) => KeyR(i, r) = r.sk_r) /\ (~ DhI(i) => KeyI(i) = i.sk_i)
  BY Zenon DEF KeyR, KeyI
<1>2. ASSUME r.ead_2 = <<>>
      PROVE  Mac2(i, r, msg1) =
               signature_or_mac(Suite(i), DhR(i), KeyR(i, r), Prk3e2m(i, r),
                 Th2(r, msg1), "MAC_2", r.id_cred_r, r.cred_r, <<>>)
  <2>1. signature_or_mac(Suite(i), DhR(i), r.sk_r, Prk3e2m(i, r),
          Th2(r, msg1), "MAC_2", r.id_cred_r, r.cred_r, <<>>) =
        signature_or_mac(Suite(i), DhR(i), KeyR(i, r), Prk3e2m(i, r),
          Th2(r, msg1), "MAC_2", r.id_cred_r, r.cred_r, <<>>)
    BY Zenon, <1>1 DEF signature_or_mac
  <2> QED BY Zenon, <1>2, <2>1 DEF Mac2
<1>3. ASSUME i.ead_3 = <<>>
      PROVE  Mac3(i, r, msg1) =
               signature_or_mac(Suite(i), DhI(i), KeyI(i), Prk4x3m(i, r),
                 Th3(i, r, msg1), "MAC_3", i.id_cred_i, i.cred_i, <<>>)
  <2>1. signature_or_mac(Suite(i), DhI(i), i.sk_i, Prk4x3m(i, r),
          Th3(i, r, msg1), "MAC_3", i.id_cred_i, i.cred_i, <<>>) =
        signature_or_mac(Suite(i), DhI(i), KeyI(i), Prk4x3m(i, r),
          Th3(i, r, msg1), "MAC_3", i.id_cred_i, i.cred_i, <<>>)
    BY Zenon, <1>1 DEF signature_or_mac
  <2> QED BY Zenon, <1>3, <2>1 DEF Mac3
<1> QED BY Zenon, <1>2, <1>3

\* What the initiator opens message 2 to.
Opened2(i, r, msg1) ==
  [id_cred |-> r.id_cred_r, sgn_or_mac |-> Mac2(i, r, msg1), ad |-> <<>>]
LEMMA Message2Opened ==
  ASSUME NEW i, NEW r \in ResponderContexts, Carried(r.id_cred_r), r.ead_2 = <<>>,
         NEW msg1, NEW leftover, NEW n
  PROVE  UNION {plaintext_split(ptxt, leftover, n) :
           ptxt \in decrypt(Terms!CIPHERTEXT2, Prk2e(i, r), Th2(r, msg1),
                            Ciphertext2(i, r, msg1))} = {Opened2(i, r, msg1)}
<1>1. decrypt(Terms!CIPHERTEXT2, Prk2e(i, r), Th2(r, msg1), Ciphertext2(i, r, msg1))
        = {Plaintext2(i, r, msg1)}
  BY DecryptsOwn DEF Ciphertext2
<1>2. Plaintext2(i, r, msg1) \in plaintext_encode(r.id_cred_r, Mac2(i, r, msg1), <<>>)
  <2>1. plaintext_encode(r.id_cred_r, Mac2(i, r, msg1), <<>>) # {}
    BY Zenon, PlaintextMade
  <2> QED BY Zenon, <2>1 DEF Plaintext2
<1>3. IsIdCred(r.id_cred_r)
  BY Zenon, ResponderContextFacts
<1>4. PICK id_cred, s, ptxt : /\ id_cred = r.id_cred_r /\ s = Mac2(i, r, msg1)
                              /\ ptxt = Plaintext2(i, r, msg1)
  BY Zenon
<1>5. plaintext_split(ptxt, leftover, n) =
        {[id_cred |-> id_cred, sgn_or_mac |-> s, ad |-> <<>>]}
  <2>1. /\ IsIdCred(id_cred) /\ Carried(id_cred)
        /\ ptxt \in plaintext_encode(id_cred, s, <<>>)
    BY Zenon, <1>2, <1>3, <1>4
  <2> QED BY <2>1, PlaintextRestored
<1>6. \A S : UNION {plaintext_split(q, leftover, n) : q \in {S}}
               = plaintext_split(S, leftover, n)
  OBVIOUS
<1>7. UNION {plaintext_split(q, leftover, n) : q \in {ptxt}} = {Opened2(i, r, msg1)}
  BY Zenon, <1>4, <1>5, <1>6 DEF Opened2
<1> QED BY Zenon, <1>1, <1>4, <1>7

\* What the responder opens message 3 to.
Opened3(i, r, msg1) ==
  [id_cred |-> i.id_cred_i, sgn_or_mac |-> Mac3(i, r, msg1), ad |-> <<>>]
LEMMA Message3Opened ==
  ASSUME NEW i \in InitiatorContexts, NEW r, Carried(i.id_cred_i), i.ead_3 = <<>>,
         NEW msg1, NEW leftover, NEW n
  PROVE  UNION {plaintext_split(ptxt, leftover, n) :
           ptxt \in decrypt(Terms!CIPHERTEXT3, Prk3e2m(i, r), Th3(i, r, msg1),
                            Ciphertext3(i, r, msg1))} = {Opened3(i, r, msg1)}
<1>1. decrypt(Terms!CIPHERTEXT3, Prk3e2m(i, r), Th3(i, r, msg1),
              Ciphertext3(i, r, msg1)) = {Plaintext3(i, r, msg1)}
  BY DecryptsOwn DEF Ciphertext3
<1>2. Plaintext3(i, r, msg1) \in plaintext_encode(i.id_cred_i, Mac3(i, r, msg1), <<>>)
  <2>1. plaintext_encode(i.id_cred_i, Mac3(i, r, msg1), <<>>) # {}
    BY Zenon, PlaintextMade
  <2> QED BY Zenon, <2>1 DEF Plaintext3
<1>3. IsIdCred(i.id_cred_i)
  BY Zenon, InitiatorContextFacts
<1>4. PICK id_cred, s, ptxt : /\ id_cred = i.id_cred_i /\ s = Mac3(i, r, msg1)
                              /\ ptxt = Plaintext3(i, r, msg1)
  BY Zenon
<1>5. plaintext_split(ptxt, leftover, n) =
        {[id_cred |-> id_cred, sgn_or_mac |-> s, ad |-> <<>>]}
  <2>1. /\ IsIdCred(id_cred) /\ Carried(id_cred)
        /\ ptxt \in plaintext_encode(id_cred, s, <<>>)
    BY Zenon, <1>2, <1>3, <1>4
  <2> QED BY <2>1, PlaintextRestored
<1>6. \A S : UNION {plaintext_split(q, leftover, n) : q \in {S}}
               = plaintext_split(S, leftover, n)
  OBVIOUS
<1>7. UNION {plaintext_split(q, leftover, n) : q \in {ptxt}} = {Opened3(i, r, msg1)}
  BY Zenon, <1>4, <1>5, <1>6 DEF Opened3
<1> QED BY Zenon, <1>1, <1>4, <1>7

\* The initiator accepts the responder's message 2, when the contexts fit, and
\* answers with this message 3.
LEMMA Message3Made ==
  ASSUME NEW i \in InitiatorContexts, NEW r \in ResponderContexts, Fits(i, r), NEW msg1
  PROVE  LET m == msg3_gen(i, msg1, Message2(i, r, msg1))
         IN  m.err = "ok" /\ m.msg3 = Message3(i, r, msg1)
<1> DEFINE
      msg2 == Message2(i, r, msg1)
      m == CHOOSE m \in msg2_parse(msg2) : TRUE
      th2 == th2_calculate(msg1, m.g_y, m.c_r)
      PRK_2e == prk_2e(Suite(i), i.x, m.g_y)
      parts == UNION {plaintext_split(ptxt, Garbage, AD_DEFAULT_SIZE) :
                ptxt \in decrypt(Terms!CIPHERTEXT2, PRK_2e, th2, m.ciphertext_2)}
      p == CHOOSE p \in parts : TRUE
      peer == retrieve_cred(DhR(i), i.cred_r_array, p.id_cred)
      PRK_3e2m == prk_next(DhR(i), Suite(i), PRK_2e, i.x, peer.key)
      verified == p.sgn_or_mac =
                    signature_or_mac(Suite(i), DhR(i), peer.key, PRK_3e2m,
                      th2, "MAC_2", p.id_cred, peer.cred, p.ad)
      th3 == th3_calculate(th2, m.ciphertext_2)
      prk_4x3m == prk_next(DhI(i), Suite(i), PRK_3e2m, m.g_y, i.i)
      sign_or_mac_3 == signature_or_mac(Suite(i), DhI(i), i.sk_i, prk_4x3m,
                         th3, "MAC_3", i.id_cred_i, i.cred_i, i.ead_3)
      plaintexts == plaintext_encode(i.id_cred_i, sign_or_mac_3, i.ead_3)
      ciphertext_3 == encrypt(Terms!CIPHERTEXT3, PRK_3e2m, th3,
                              CHOOSE ptxt \in plaintexts : TRUE)
      th4 == th4_calculate(th3, ciphertext_3)
      accepted == <<p.id_cred, peer.cred>>
      msg3 == cbor_encode_bstr_type_b_str(ciphertext_3)
      result == msg3_gen(i, msg1, msg2)
<1>1. ASSUME msg2_parse(msg2) # {}, parts # {}, peer.err = "ok", verified,
             ~ MissingKey(DhI(i), i.i, i.sk_i), plaintexts # {}
      PROVE  result = [err |-> "ok", prk_4x3m |-> prk_4x3m, th4 |-> th4,
                       accepted |-> accepted, msg3 |-> msg3]
  BY Zenon, <1>1 DEF msg3_gen, Suite, DhI, DhR
<1>2. m.g_y = r.y /\ m.c_r = r.c_r /\ m.ciphertext_2 = Ciphertext2(i, r, msg1)
      /\ msg2_parse(msg2) # {}
  <2>1. IsCx(r.c_r)
    BY Zenon, ResponderContextFacts
  <2>2. PICK d : d = [g_y |-> r.y, ciphertext_2 |-> Ciphertext2(i, r, msg1),
                      c_r |-> r.c_r]
    OBVIOUS
  <2>3. msg2_parse(msg2) = {d}
    BY Zenon, <2>1, <2>2, Message2Read DEF Message2
  <2>4. m = d
    <3> HIDE DEF msg2
    <3> QED BY <2>3
  <2> HIDE DEF msg2, m
  <2> QED BY <2>2, <2>3, <2>4
<1> HIDE DEF m
<1>3. th2 = Th2(r, msg1) /\ PRK_2e = Prk2e(i, r)
  <2>1. th2 = Th2(r, msg1)
    BY Zenon, <1>2 DEF Th2
  <2>2. prk_2e(Suite(i), i.x, r.y) = Prk2e(i, r)
    BY SameKeys DEF Prk2e
  <2> QED BY Zenon, <1>2, <2>1, <2>2
<1> HIDE DEF th2, PRK_2e
<1>4. parts = {Opened2(i, r, msg1)}
  <2>1. Carried(r.id_cred_r) /\ r.ead_2 = <<>>
    BY Zenon, FitsFacts
  <2>2. UNION {plaintext_split(ptxt, Garbage, AD_DEFAULT_SIZE) :
          ptxt \in decrypt(Terms!CIPHERTEXT2, Prk2e(i, r), Th2(r, msg1),
                           Ciphertext2(i, r, msg1))} = {Opened2(i, r, msg1)}
    BY <2>1, Message2Opened
  <2> QED BY Zenon, <1>2, <1>3, <2>2
<1> HIDE DEF parts
<1>5. /\ p.id_cred = r.id_cred_r /\ p.sgn_or_mac = Mac2(i, r, msg1) /\ p.ad = <<>>
  <2>1. p = Opened2(i, r, msg1)
    BY <1>4
  <2> HIDE DEF p
  <2> QED BY <2>1 DEF Opened2
<1> HIDE DEF p
<1>6. peer.err = "ok" /\ peer.cred = r.cred_r /\ peer.key = KeyR(i, r)
  <2>1. Knows(DhR(i), i.cred_r_array, r.id_cred_r, r.cred_r, KeyR(i, r))
    BY Zenon, FitsFacts
  <2>2. /\ retrieve_cred(DhR(i), i.cred_r_array, r.id_cred_r).err = "ok"
        /\ retrieve_cred(DhR(i), i.cred_r_array, r.id_cred_r).cred = r.cred_r
        /\ retrieve_cred(DhR(i), i.cred_r_array, r.id_cred_r).key = KeyR(i, r)
    BY Zenon, <2>1 DEF Knows
  <2> QED BY Zenon, <1>5, <2>2
<1> HIDE DEF peer
<1>7. PRK_3e2m = Prk3e2m(i, r)
  BY Zenon, <1>3, <1>6, PeerKeys
<1> HIDE DEF PRK_3e2m
<1>8. verified
  <2>1. Mac2(i, r, msg1) =
          signature_or_mac(Suite(i), DhR(i), KeyR(i, r), Prk3e2m(i, r),
            Th2(r, msg1), "MAC_2", r.id_cred_r, r.cred_r, <<>>)
    BY Zenon, FitsFacts, PeerMacs
  <2> QED BY Zenon, <1>3, <1>5, <1>6, <1>7, <2>1
<1>9. th3 = Th3(i, r, msg1)
  BY Zenon, <1>2, <1>3 DEF Th3
<1> HIDE DEF th3
<1>10. prk_4x3m = Prk4x3m(i, r)
  BY Zenon, <1>2, <1>7 DEF Prk4x3m
<1> HIDE DEF prk_4x3m
<1>11. sign_or_mac_3 = Mac3(i, r, msg1)
  BY Zenon, <1>9, <1>10 DEF Mac3
<1> HIDE DEF sign_or_mac_3
<1>12. plaintexts # {} /\ (CHOOSE ptxt \in plaintexts : TRUE) = Plaintext3(i, r, msg1)
  <2>1. Carried(i.id_cred_i)
    BY Zenon, FitsFacts
  <2>2. plaintexts # {}
    BY Zenon, <2>1, PlaintextMade
  <2>3. plaintexts = plaintext_encode(i.id_cred_i, Mac3(i, r, msg1), i.ead_3)
    BY Zenon, <1>11
  <2> HIDE DEF plaintexts
  <2> QED BY <2>2, <2>3 DEF Plaintext3
<1>13. ~ MissingKey(DhI(i), i.i, i.sk_i)
  BY Zenon, FitsFacts DEF MissingKey, KeyI
<1>14. msg3 = Message3(i, r, msg1)
  BY Zenon, <1>7, <1>9, <1>12 DEF Message3, Ciphertext3
<1>15. result = [err |-> "ok", prk_4x3m |-> prk_4x3m, th4 |-> th4,
                 accepted |-> accepted, msg3 |-> msg3]
  BY Zenon, <1>1, <1>2, <1>4, <1>6, <1>8, <1>12, <1>13
<1> HIDE DEF result, th4, accepted, msg3
<1>16. result.err = "ok" /\ result.msg3 = msg3
  BY <1>15
<1> QED BY Zenon, <1>14, <1>16 DEF result

\* The responder accepts that message 3, when the contexts fit, whatever the
\* buffer of ID_CRED_I holds and however small that of EAD_3 is.
LEMMA Message3Taken ==
  ASSUME NEW i \in InitiatorContexts, NEW r \in ResponderContexts, Fits(i, r),
         NEW msg1, NEW leftover, NEW n
  PROVE  msg3_process(r, RuntimeContext(i, r, msg1), Message3(i, r, msg1), leftover, n).err
           = "ok"
<1>1. PICK rc : rc = RuntimeContext(i, r, msg1)
  OBVIOUS
<1>2. /\ rc.suite = Suite(i) /\ rc.th3 = Th3(i, r, msg1)
      /\ rc.static_dh_i = DhI(i) /\ rc.PRK_3e2m = Prk3e2m(i, r)
  BY <1>1 DEF RuntimeContext
<1> DEFINE
      msg3 == Message3(i, r, msg1)
      ciphertexts == cbor_decode_bstr_type_b_str(msg3)
      ciphertext_3 == CHOOSE ciphertext \in ciphertexts : TRUE
      parts == UNION {plaintext_split(ptxt, leftover, n) :
                ptxt \in decrypt(Terms!CIPHERTEXT3, rc.PRK_3e2m, rc.th3, ciphertext_3)}
      p == CHOOSE p \in parts : TRUE
      peer == retrieve_cred(rc.static_dh_i, r.cred_i_array, p.id_cred)
      prk_4x3m == prk_next(rc.static_dh_i, rc.suite, rc.PRK_3e2m, r.y, peer.key)
      verified == p.sgn_or_mac =
                    signature_or_mac(rc.suite, rc.static_dh_i, peer.key, prk_4x3m,
                      rc.th3, "MAC_3", p.id_cred, peer.cred, p.ad)
      result == msg3_process(r, rc, msg3, leftover, n)
<1>3. ASSUME ciphertexts # {}, parts # {}, peer.err = "ok", verified
      PROVE  \E len, th4 :
               result = [err |-> "ok", prk_4x3m |-> prk_4x3m, ead_3_len |-> len,
                         th4 |-> th4, accepted |-> <<p.id_cred, peer.cred>>]
  BY Zenon, <1>3 DEF msg3_process
<1>4. ciphertexts = {Ciphertext3(i, r, msg1)}
  <2>1. \A c : cbor_decode_bstr_type_b_str(<<bstr(c)>>) = {c}
    BY DEF cbor_decode_bstr_type_b_str, Is, bstr
  <2> QED BY Zenon, <2>1 DEF Message3, cbor_encode_bstr_type_b_str
<1> HIDE DEF ciphertexts
<1>5. ciphertexts # {} /\ ciphertext_3 = Ciphertext3(i, r, msg1)
  BY <1>4
<1> HIDE DEF ciphertext_3
<1>6. parts = {Opened3(i, r, msg1)}
  <2>1. Carried(i.id_cred_i) /\ i.ead_3 = <<>>
    BY Zenon, FitsFacts
  <2>2. UNION {plaintext_split(ptxt, leftover, n) :
          ptxt \in decrypt(Terms!CIPHERTEXT3, Prk3e2m(i, r), Th3(i, r, msg1),
                           Ciphertext3(i, r, msg1))} = {Opened3(i, r, msg1)}
    BY <2>1, Message3Opened
  <2> QED BY Zenon, <1>2, <1>5, <2>2
<1> HIDE DEF parts
<1>7. /\ p.id_cred = i.id_cred_i /\ p.sgn_or_mac = Mac3(i, r, msg1) /\ p.ad = <<>>
  <2>1. p = Opened3(i, r, msg1)
    BY <1>6
  <2> HIDE DEF p
  <2> QED BY <2>1 DEF Opened3
<1> HIDE DEF p
<1>8. peer.err = "ok" /\ peer.cred = i.cred_i /\ peer.key = KeyI(i)
  <2>1. Knows(DhI(i), r.cred_i_array, i.id_cred_i, i.cred_i, KeyI(i))
    BY Zenon, FitsFacts
  <2>2. /\ retrieve_cred(DhI(i), r.cred_i_array, i.id_cred_i).err = "ok"
        /\ retrieve_cred(DhI(i), r.cred_i_array, i.id_cred_i).cred = i.cred_i
        /\ retrieve_cred(DhI(i), r.cred_i_array, i.id_cred_i).key = KeyI(i)
    BY Zenon, <2>1 DEF Knows
  <2> QED BY Zenon, <1>2, <1>7, <2>2
<1> HIDE DEF peer
<1>9. prk_4x3m = Prk4x3m(i, r)
  BY Zenon, <1>2, <1>8, PeerKeys
<1> HIDE DEF prk_4x3m
<1>10. verified
  <2>1. Mac3(i, r, msg1) =
          signature_or_mac(Suite(i), DhI(i), KeyI(i), Prk4x3m(i, r),
            Th3(i, r, msg1), "MAC_3", i.id_cred_i, i.cred_i, <<>>)
    BY Zenon, FitsFacts, PeerMacs
  <2> QED BY Zenon, <1>2, <1>7, <1>8, <1>9, <2>1
<1>11. PICK len, th4 :
         result = [err |-> "ok", prk_4x3m |-> prk_4x3m, ead_3_len |-> len,
                   th4 |-> th4, accepted |-> <<p.id_cred, peer.cred>>]
  BY Zenon, <1>3, <1>5, <1>6, <1>8, <1>10
<1> HIDE DEF result
<1>12. result.err = "ok"
  BY <1>11
<1> QED BY Zenon, <1>1, <1>12 DEF result

\* The initiator opens the message 4 the responder made with the same keys,
\* unless EAD_4 is neither empty nor encoded as a byte string.
LEMMA Message4Taken ==
  ASSUME NEW r, r.ead_4 # <<>> => Head(r.ead_4) = "bstr", NEW prk, NEW th
  PROVE  msg4_process(msg4_gen(r, prk, th), prk, th)
<1> DEFINE ptxt == <<raw(r.ead_4)>>
           ciphertext == encrypt(Terms!CIPHERTEXT4, prk, th, ptxt)
<1>1. ciphertext \in cbor_decode_bstr_type_b_str(msg4_gen(r, prk, th))
  <2>1. \A c : c \in cbor_decode_bstr_type_b_str(<<bstr(c)>>)
    BY DEF cbor_decode_bstr_type_b_str, Is, bstr
  <2> QED BY Zenon, <2>1 DEF msg4_gen, cbor_encode_bstr_type_b_str
<1>2. ptxt \in decrypt(Terms!CIPHERTEXT4, prk, th, ciphertext)
  <2> HIDE DEF ptxt
  <2>1. decrypt(Terms!CIPHERTEXT4, prk, th, ciphertext) = {ptxt}
    BY DecryptsOwn
  <2> QED BY <2>1
<1>3. \/ ptxt[1][2] = <<>>
      \/ cbor_decode_bstr_type_b_str(<<Read(ptxt[1])>>) # {}
  <2>1. ptxt[1] = raw(r.ead_4) /\ ptxt[1][2] = r.ead_4
    BY DEF raw
  <2>2. ASSUME r.ead_4 # <<>> PROVE Read(raw(r.ead_4)) = bstr(Tail(r.ead_4))
    BY <2>2 DEF Read, raw
  <2>3. \A c : cbor_decode_bstr_type_b_str(<<bstr(c)>>) # {}
    BY DEF cbor_decode_bstr_type_b_str, Is, bstr
  <2> HIDE DEF ptxt
  <2> QED BY Zenon, <2>1, <2>2, <2>3
<1> QED BY Zenon, <1>1, <1>2, <1>3 DEF msg4_process

-----------------------------------------------------------------------------
(* The messages on their way                                               *)

\* Why a run between an initiator i and the responder r fails.
Cause(i, r) == ~ Fits(i.c, r.c) \/ Len(i.c.ead_1) > r.ad_1_len

\* The responder has answered the message 1 of the k-th initiator and taken no
\* message since, unless it failed.
Serves(r, k) == r.pc = "failed" \/ (r.pc = "message_3" /\ r.peer = k)

\* A datagram of the k-th initiator: its message 1, or the message 3 that is
\* the next the responder waits for.
OnItsWay(k, i, r, replies, msg) ==
  /\ replies = <<>>
  /\ \/ i.pc = "message_2" /\ msg = i.msg1
     \/ /\ i.pc = "message_4" /\ Serves(r, k)
        /\ Fits(i.c, r.c) => msg = Message3(i.c, r.c, i.msg1)

\* What is on its way to an initiator: at most the answer it waits for.
Answered(k, i, r, replies) ==
  \/ replies = <<>>
  \/ i.pc = "message_2" /\ Serves(r, k) /\ replies = <<Message2(i.c, r.c, i.msg1)>>
  \/ i.pc = "message_4" /\ replies = <<msg4_gen(r.c, i.prk_4x3m, i.th4)>>

InitiatorsFlow ==
  \A k \in Initiators :
    /\ initiator[k].pc # "start" => initiator[k].msg1 \in msg1_gen(initiator[k].c)
    /\ initiator[k].pc = "failed" => Cause(initiator[k], responder)
    /\ Answered(k, initiator[k], responder, reply[k])

\* No initiator has two messages on their way.
InboxFlow ==
  /\ \A n \in DOMAIN inbox :
       LET k == inbox[n][1]
       IN  OnItsWay(k, initiator[k], responder, reply[k], inbox[n][2])
  /\ \A n, l \in DOMAIN inbox : inbox[n][1] = inbox[l][1] => n = l

\* The responder waits with the keys of its peer's run; when it has failed
\* there is a cause, or its peer still waits for message 2.
ResponderFlow ==
  /\ responder.pc = "message_3" =>
       LET i == initiator[responder.peer]
       IN  i.pc # "start" /\ responder.rc = RuntimeContext(i.c, responder.c, i.msg1)
  /\ responder.pc = "failed" =>
       /\ responder.peer \in Initiators
       /\ \/ Cause(initiator[responder.peer], responder)
          \/ Interrupted /\ reply[responder.peer] = <<>>

FlowInv == InitiatorsFlow /\ InboxFlow /\ ResponderFlow

\* Nothing has been sent when the programs start.
LEMMA FlowInit == Init => FlowInv
<1> SUFFICES ASSUME Init PROVE FlowInv
  OBVIOUS
<1>1. PICK contexts \in Contexts :
        /\ initiator = [k \in DOMAIN contexts |->
                          edhoc_initiator_run_Init(contexts[k])]
        /\ reply = [k \in DOMAIN contexts |-> <<>>]
  BY Zenon DEF Init
<1>2. WireInv
  BY WireInit
<1>3. DOMAIN initiator = Initiators
  BY <1>2, SeqFacts DEF WireInv, InitiatorInv, Initiators
<1>4. \A k \in Initiators : initiator[k].pc = "start" /\ reply[k] = <<>>
  BY <1>1, <1>3 DEF edhoc_initiator_run_Init
<1>5. InitiatorsFlow
  BY <1>4 DEF InitiatorsFlow, Answered
<1>6. InboxFlow
  BY DEF Init, InboxFlow
<1>7. responder.pc = "message_1"
  BY DEF Init, responder_main
<1> QED BY <1>5, <1>6, <1>7 DEF FlowInv, ResponderFlow

\* The senders of the datagrams.
LEMMA Senders ==
  ASSUME WireInv
  PROVE  IsSeq(inbox) /\ \A n \in DOMAIN inbox : inbox[n][1] \in Initiators
BY DEF WireInv, InboxInv, FromInitiator

\* A step of an initiator that takes the reply it waited for, or starts.
LEMMA InitiatorFlows ==
  ASSUME WireInv, FlowInv, NEW k \in Initiators, UNCHANGED responder,
         Initiators' = Initiators,
         \A j \in Initiators : j # k => /\ initiator'[j] = initiator[j]
                                        /\ reply'[j] = reply[j],
         NEW i, i = initiator'[k], i.c = initiator[k].c, i.pc # "start",
         i.msg1 \in msg1_gen(i.c),
         initiator[k].pc # "start" => i.msg1 = initiator[k].msg1,
         i.pc = "failed" => Cause(i, responder),
         reply'[k] = <<>>, initiator[k].pc = "message_2" => reply[k] # <<>>,
         \A n \in DOMAIN inbox : inbox[n][1] # k,
         \/ UNCHANGED inbox
         \/ \E msg : Send(k, msg) /\ OnItsWay(k, i, responder, <<>>, msg)
  PROVE  FlowInv'
<1>1. InitiatorsFlow'
  BY DEF FlowInv, InitiatorsFlow, Answered
<1>2. \A n \in DOMAIN inbox :
        OnItsWay(inbox[n][1], initiator'[inbox[n][1]], responder,
                 reply'[inbox[n][1]], inbox[n][2])
  BY Senders DEF FlowInv, InboxFlow
<1>3. InboxFlow'
  <2>1. CASE UNCHANGED inbox
    BY <1>2, <2>1 DEF FlowInv, InboxFlow
  <2>2. CASE \E msg : Send(k, msg) /\ OnItsWay(k, i, responder, <<>>, msg)
    <3>1. PICK msg : Send(k, msg) /\ OnItsWay(k, i, responder, <<>>, msg)
      BY <2>2
    <3>2. PICK s, x : s = inbox /\ x = <<k, msg>>
      BY Zenon
    <3>3. inbox' = Append(s, x) /\ x[1] = k /\ x[2] = msg /\ IsSeq(s)
      BY <3>1, <3>2, Senders DEF Send
    <3>4. /\ DOMAIN inbox' = 1 .. Len(s) + 1 /\ DOMAIN s = 1 .. Len(s)
          /\ Len(s) \in Nat
          /\ inbox'[Len(s) + 1] = x
          /\ \A n \in DOMAIN s : inbox'[n] = s[n]
      <4> DEFINE S == {s[n] : n \in DOMAIN s} \cup {x}
      <4>1. s \in Seq(S) /\ x \in S
        BY <3>3, SeqMono DEF IsSeq
      <4> HIDE DEF S
      <4>2. /\ DOMAIN Append(s, x) = 1 .. Len(s) + 1
            /\ Append(s, x)[Len(s) + 1] = x
            /\ \A n \in 1 .. Len(s) : Append(s, x)[n] = s[n]
        BY <4>1, AppendAt
      <4> QED BY <3>3, <4>2, SeqFacts
    <3>5. \A n \in DOMAIN inbox' : n \in DOMAIN s \/ n = Len(s) + 1
      BY <3>4
    <3>6. ASSUME NEW n \in DOMAIN inbox'
          PROVE  OnItsWay(inbox'[n][1], initiator'[inbox'[n][1]], responder,
                          reply'[inbox'[n][1]], inbox'[n][2])
      <4>1. CASE n \in DOMAIN s
        BY Zenon, <1>2, <3>2, <3>4, <4>1
      <4>2. CASE n = Len(s) + 1
        <5>1. inbox'[n] = x
          BY Zenon, <3>4, <4>2
        <5>2. inbox'[n][1] = k /\ inbox'[n][2] = msg
          BY Zenon, <3>3, <5>1
        <5> QED BY Zenon, <3>1, <5>2
      <4> QED BY <3>5, <4>1, <4>2
    <3>7. ASSUME NEW n \in DOMAIN inbox', NEW l \in DOMAIN inbox',
                 inbox'[n][1] = inbox'[l][1]
          PROVE  n = l
      <4>1. CASE n \in DOMAIN s /\ l \in DOMAIN s
        BY <3>2, <3>4, <3>7, <4>1 DEF FlowInv, InboxFlow
      <4> DEFINE last == Len(s) + 1
      <4>2. inbox'[last][1] = k /\ \A j \in DOMAIN s : inbox'[j][1] # k
        <5>1. inbox'[last] = x
          BY <3>4
        <5>2. \A j \in DOMAIN s : inbox'[j] = inbox[j] /\ inbox[j][1] # k
          BY Zenon, <3>2, <3>4
        <5> HIDE DEF last
        <5> QED BY Zenon, <3>3, <5>1, <5>2
      <4> HIDE DEF last
      <4>3. n \in DOMAIN s <=> l \in DOMAIN s
        BY Zenon, <3>5, <3>7, <4>2 DEF last
      <4> QED BY <3>5, <4>1, <4>2, <4>3
    <3> QED BY <3>6, <3>7 DEF InboxFlow
  <2> QED BY <2>1, <2>2
<1>4. ResponderFlow'
  <2>1. ASSUME responder.pc = "message_3"
        PROVE  LET j == initiator'[responder.peer]
               IN  j.pc # "start" /\ responder.rc = RuntimeContext(j.c, responder.c, j.msg1)
    <3>1. responder.peer \in Initiators
      BY <2>1 DEF WireInv, ResponderInv
    <3>2. LET j == initiator[responder.peer]
          IN  j.pc # "start" /\ responder.rc = RuntimeContext(j.c, responder.c, j.msg1)
      BY Zenon, <2>1 DEF FlowInv, ResponderFlow
    <3>3. CASE responder.peer = k
      BY Zenon, <3>2, <3>3
    <3>4. CASE responder.peer # k
      BY Zenon, <3>1, <3>2, <3>4
    <3> QED BY <3>3, <3>4
  <2>2. ASSUME responder.pc = "failed"
        PROVE  /\ responder.peer \in Initiators
               /\ \/ Cause(initiator'[responder.peer], responder)
                  \/ /\ responder.rc # <<>> /\ initiator'[responder.peer].pc = "message_2"
                     /\ reply'[responder.peer] = <<>>
    <3>1. /\ responder.peer \in Initiators
          /\ \/ Cause(initiator[responder.peer], responder)
             \/ /\ responder.rc # <<>> /\ initiator[responder.peer].pc = "message_2"
                /\ reply[responder.peer] = <<>>
      BY Zenon, <2>2 DEF FlowInv, ResponderFlow, Interrupted
    <3>2. CASE responder.peer = k
      <4>1. Cause(initiator[k], responder)
        BY Zenon, <3>1, <3>2
      <4>2. Cause(i, responder)
        BY Zenon, <4>1 DEF Cause
      <4> QED BY Zenon, <3>2, <4>2
    <3>3. CASE responder.peer # k
      BY Zenon, <3>1, <3>3
    <3> QED BY <3>2, <3>3
  <2> QED BY Zenon, <2>1, <2>2 DEF ResponderFlow, Interrupted
<1> QED BY <1>1, <1>3, <1>4 DEF FlowInv

\* InitiatorStart: message 1 is the first message of its sender.
LEMMA StartFlows ==
  ASSUME WireInv, FlowInv, NEW k \in Initiators, InitiatorStart(k)
  PROVE  FlowInv'
<1>1. PICK msg1 \in msg1_gen(initiator[k].c) :
        /\ initiator' = [initiator EXCEPT ![k].pc = "message_2", ![k].msg1 = msg1]
        /\ Send(k, msg1)
  BY Zenon DEF InitiatorStart
<1>2. initiator[k].pc = "start" /\ UNCHANGED <<responder, reply>>
  BY DEF InitiatorStart
<1>3. IsSeq(initiator) /\ k \in DOMAIN initiator /\ DOMAIN initiator = Initiators
      /\ DOMAIN initiator[k] = {"c", "pc", "msg1", "prk_4x3m", "th4", "accepted"}
  BY SeqFacts DEF WireInv, InitiatorInv, Initiators
<1>4. PICK i : i = [initiator[k] EXCEPT !.pc = "message_2", !.msg1 = msg1]
  OBVIOUS
<1>5. initiator' = [initiator EXCEPT ![k] = i]
  BY <1>1, <1>3, <1>4
<1>6. i.c = initiator[k].c /\ i.pc = "message_2" /\ i.msg1 = msg1
  BY <1>3, <1>4
<1>7. /\ IsSeq(initiator') /\ DOMAIN initiator' = DOMAIN initiator
      /\ initiator'[k] = i
      /\ \A j \in Initiators : j # k => initiator'[j] = initiator[j]
  BY <1>3, <1>5, ExceptFacts
<1>8. Initiators' = Initiators
  BY <1>3, <1>7, SeqFacts DEF Initiators
<1>9. reply[k] = <<>>
  BY <1>2 DEF FlowInv, InitiatorsFlow, Answered
<1>10. \A n \in DOMAIN inbox : inbox[n][1] # k
  BY <1>2 DEF FlowInv, InboxFlow, OnItsWay
<1>11. OnItsWay(k, i, responder, <<>>, msg1)
  BY <1>6 DEF OnItsWay
<1> QED BY <1>1, <1>2, <1>6, <1>7, <1>8, <1>9, <1>10, <1>11, InitiatorFlows

\* InitiatorMessage2: the initiator takes the message 2 made for it, and fails
\* only when the contexts do not fit.
LEMMA Message2Flows ==
  ASSUME WireInv, FlowInv, NEW k \in Initiators, InitiatorMessage2(k)
  PROVE  FlowInv'
<1> DEFINE c == initiator[k].c
           msg1 == initiator[k].msg1
           m == msg3_gen(c, msg1, Head(reply[k]))
<1>1. /\ initiator[k].pc = "message_2" /\ reply[k] # <<>>
      /\ reply' = [reply EXCEPT ![k] = Tail(@)] /\ UNCHANGED responder
  BY DEF InitiatorMessage2
<1>2. \/ /\ m.err # "ok"
         /\ initiator' = [initiator EXCEPT ![k].pc = "failed"]
         /\ UNCHANGED inbox
      \/ /\ m.err = "ok"
         /\ initiator' = [initiator EXCEPT ![k].pc = "message_4",
              ![k].prk_4x3m = m.prk_4x3m, ![k].th4 = m.th4,
              ![k].accepted = m.accepted]
         /\ Send(k, m.msg3)
  BY Zenon DEF InitiatorMessage2
<1>3. IsSeq(initiator) /\ k \in DOMAIN initiator /\ DOMAIN initiator = Initiators
      /\ DOMAIN initiator[k] = {"c", "pc", "msg1", "prk_4x3m", "th4", "accepted"}
      /\ initiator[k].c \in InitiatorContexts /\ responder.c \in ResponderContexts
      /\ DOMAIN reply = Initiators
  BY SeqFacts DEF WireInv, InitiatorInv, ResponderInv, ReplyInv, Initiators
<1>4. Serves(responder, k) /\ reply[k] = <<Message2(c, responder.c, msg1)>>
  <2>1. Answered(k, initiator[k], responder, reply[k])
    BY DEF FlowInv, InitiatorsFlow
  <2> QED BY Zenon, <1>1, <2>1 DEF Answered
<1>5. reply'[k] = <<>> /\ \A j \in Initiators : j # k => reply'[j] = reply[j]
  <2>1. \A x : Tail(<<x>>) = <<>>
    OBVIOUS
  <2>2. Tail(reply[k]) = <<>>
    BY <1>4, <2>1
  <2> QED BY <1>1, <1>3, <2>2
<1>6. Fits(c, responder.c) =>
        m.err = "ok" /\ m.msg3 = Message3(c, responder.c, msg1)
  <2>1. \A x : Head(<<x>>) = x
    OBVIOUS
  <2>2. m = msg3_gen(c, msg1, Message2(c, responder.c, msg1))
    BY Zenon, <1>4, <2>1
  <2>3. PICK i, r, msg : i = c /\ r = responder.c /\ msg = msg1
    BY Zenon
  <2>4. ASSUME Fits(i, r)
        PROVE  LET q == msg3_gen(i, msg, Message2(i, r, msg))
               IN  q.err = "ok" /\ q.msg3 = Message3(i, r, msg)
    <3>1. i \in InitiatorContexts /\ r \in ResponderContexts
      BY Zenon, <1>3, <2>3
    <3> QED BY <2>4, <3>1, Message3Made
  <2> QED BY Zenon, <2>2, <2>3, <2>4
<1>7. msg1 \in msg1_gen(c) /\ \A n \in DOMAIN inbox : inbox[n][1] # k
  BY <1>1 DEF FlowInv, InitiatorsFlow, InboxFlow, OnItsWay
<1>8. ASSUME NEW i, initiator' = [initiator EXCEPT ![k] = i],
             i.c = initiator[k].c, i.msg1 = initiator[k].msg1, i.pc # "start",
             i.pc = "failed" => ~ Fits(c, responder.c),
             \/ UNCHANGED inbox
             \/ \E msg : Send(k, msg) /\ OnItsWay(k, i, responder, <<>>, msg)
      PROVE  FlowInv'
  <2>1. /\ IsSeq(initiator') /\ DOMAIN initiator' = DOMAIN initiator
        /\ initiator'[k] = i
        /\ \A j \in Initiators : j # k => initiator'[j] = initiator[j]
    BY <1>3, <1>8, ExceptFacts
  <2>2. Initiators' = Initiators
    BY <1>3, <2>1, SeqFacts DEF Initiators
  <2>3. i.pc = "failed" => Cause(i, responder)
    BY Zenon, <1>8 DEF Cause
  <2>4. i.msg1 \in msg1_gen(i.c)
    BY Zenon, <1>7, <1>8
  <2> QED BY <1>1, <1>5, <1>7, <1>8, <2>1, <2>2, <2>3, <2>4, InitiatorFlows
<1>9. CASE /\ m.err # "ok"
           /\ initiator' = [initiator EXCEPT ![k].pc = "failed"]
           /\ UNCHANGED inbox
  <2>1. PICK i : i = [initiator[k] EXCEPT !.pc = "failed"]
    OBVIOUS
  <2>2. initiator' = [initiator EXCEPT ![k] = i]
    BY <1>3, <1>9, <2>1
  <2>3. i.c = initiator[k].c /\ i.msg1 = initiator[k].msg1 /\ i.pc = "failed"
    BY <1>3, <2>1
  <2>4. ~ Fits(c, responder.c)
    BY Zenon, <1>6, <1>9
  <2> QED BY <1>8, <1>9, <2>2, <2>3, <2>4
<1>10. CASE /\ m.err = "ok"
            /\ initiator' = [initiator EXCEPT ![k].pc = "message_4",
                 ![k].prk_4x3m = m.prk_4x3m, ![k].th4 = m.th4,
                 ![k].accepted = m.accepted]
            /\ Send(k, m.msg3)
  <2> HIDE DEF m
  <2>1. PICK i : i = [initiator[k] EXCEPT !.pc = "message_4",
                        !.prk_4x3m = m.prk_4x3m, !.th4 = m.th4,
                        !.accepted = m.accepted]
    OBVIOUS
  <2>2. initiator' = [initiator EXCEPT ![k] = i]
    BY <1>3, <1>10, <2>1
  <2>3. i.c = initiator[k].c /\ i.msg1 = initiator[k].msg1 /\ i.pc = "message_4"
    BY <1>3, <2>1
  <2>4. OnItsWay(k, i, responder, <<>>, m.msg3)
    BY Zenon, <1>4, <1>6, <2>3 DEF OnItsWay
  <2> QED BY <1>8, <1>10, <2>2, <2>3, <2>4
<1> QED BY <1>2, <1>9, <1>10

\* InitiatorMessage4: the initiator takes the message 4 made with its keys.
LEMMA Message4Flows ==
  ASSUME WireInv, FlowInv, NEW k \in Initiators, InitiatorMessage4(k)
  PROVE  FlowInv'
<1> DEFINE c == initiator[k].c
           prk == initiator[k].prk_4x3m
           th == initiator[k].th4
           Opens == msg4_process(Head(reply[k]), prk, th)
<1>1. /\ initiator[k].pc = "message_4" /\ reply[k] # <<>>
      /\ reply' = [reply EXCEPT ![k] = Tail(@)] /\ UNCHANGED <<responder, inbox>>
  BY DEF InitiatorMessage4
<1>2. PICK pc \in {"done", "failed"} :
        /\ initiator' = [initiator EXCEPT ![k].pc = pc]
        /\ pc = "failed" => ~ Opens
  <2> DEFINE pc == IF Opens THEN "done" ELSE "failed"
  <2>1. initiator' = [initiator EXCEPT ![k].pc = pc]
    BY Zenon DEF InitiatorMessage4
  <2>2. pc \in {"done", "failed"} /\ (pc = "failed" => ~ Opens)
    <3> HIDE DEF Opens
    <3> QED OBVIOUS
  <2> QED BY Zenon, <2>1, <2>2
<1>3. IsSeq(initiator) /\ k \in DOMAIN initiator /\ DOMAIN initiator = Initiators
      /\ DOMAIN initiator[k] = {"c", "pc", "msg1", "prk_4x3m", "th4", "accepted"}
      /\ DOMAIN reply = Initiators
  BY SeqFacts DEF WireInv, InitiatorInv, ReplyInv, Initiators
<1>4. reply[k] = <<msg4_gen(responder.c, prk, th)>>
  <2>1. Answered(k, initiator[k], responder, reply[k])
    BY DEF FlowInv, InitiatorsFlow
  <2> QED BY Zenon, <1>1, <2>1 DEF Answered
<1>5. reply'[k] = <<>> /\ \A j \in Initiators : j # k => reply'[j] = reply[j]
  <2>1. \A x : Tail(<<x>>) = <<>>
    OBVIOUS
  <2>2. Tail(reply[k]) = <<>>
    BY <1>4, <2>1
  <2> QED BY <1>1, <1>3, <2>2
<1>6. Fits(c, responder.c) => Opens
  <2>1. \A x : Head(<<x>>) = x
    OBVIOUS
  <2>2. Head(reply[k]) = msg4_gen(responder.c, prk, th)
    BY Zenon, <1>4, <2>1
  <2> QED BY Zenon, <2>2, FitsFacts, Message4Taken
<1>7. /\ initiator[k].msg1 \in msg1_gen(c)
      /\ \A n \in DOMAIN inbox : inbox[n][1] # k
  BY <1>1 DEF FlowInv, InitiatorsFlow, InboxFlow, OnItsWay
<1>8. PICK i : i = [initiator[k] EXCEPT !.pc = pc]
  OBVIOUS
<1>9. initiator' = [initiator EXCEPT ![k] = i]
  BY <1>2, <1>3, <1>8
<1>10. i.c = initiator[k].c /\ i.msg1 = initiator[k].msg1 /\ i.pc = pc
  BY <1>3, <1>8
<1>11. /\ IsSeq(initiator') /\ DOMAIN initiator' = DOMAIN initiator
       /\ initiator'[k] = i
       /\ \A j \in Initiators : j # k => initiator'[j] = initiator[j]
  BY <1>3, <1>9, ExceptFacts
<1>12. Initiators' = Initiators
  BY <1>3, <1>11, SeqFacts DEF Initiators
<1>13. i.pc = "failed" => Cause(i, responder)
  BY Zenon, <1>2, <1>6, <1>10 DEF Cause
<1>14. i.msg1 \in msg1_gen(i.c) /\ i.pc # "start"
  BY <1>2, <1>7, <1>10
<1> QED BY <1>1, <1>5, <1>7, <1>10, <1>11, <1>12, <1>13, <1>14, InitiatorFlows

\* What the responder takes from its socket, and what is left there.
LEMMA Taken ==
  ASSUME WireInv, FlowInv, inbox # <<>>, inbox' = Tail(inbox),
         NEW k, k = Head(inbox)[1], NEW msg, msg = Head(inbox)[2]
  PROVE  /\ k \in Initiators
         /\ OnItsWay(k, initiator[k], responder, reply[k], msg)
         /\ \A n \in DOMAIN inbox' :
              LET j == inbox'[n][1]
              IN  /\ j \in Initiators /\ j # k
                  /\ OnItsWay(j, initiator[j], responder, reply[j], inbox'[n][2])
         /\ \A n, l \in DOMAIN inbox' : inbox'[n][1] = inbox'[l][1] => n = l
<1>1. PICK s : s = inbox
  OBVIOUS
<1>2. IsSeq(s) /\ s # <<>> /\ inbox' = Tail(s)
  BY <1>1, Senders
<1>3. /\ 1 \in DOMAIN s /\ Head(s) = s[1] /\ IsSeq(Tail(s))
      /\ \A n \in DOMAIN Tail(s) : n + 1 \in DOMAIN s /\ Tail(s)[n] = s[n + 1]
  BY Zenon, <1>2, TailFacts
<1>4. k = s[1][1] /\ msg = s[1][2]
  BY Zenon, <1>1, <1>3
<1>5. \A n \in DOMAIN s :
        OnItsWay(s[n][1], initiator[s[n][1]], responder, reply[s[n][1]], s[n][2])
  BY Zenon, <1>1 DEF FlowInv, InboxFlow
<1>6. \A n, l \in DOMAIN s : s[n][1] = s[l][1] => n = l
  BY Zenon, <1>1 DEF FlowInv, InboxFlow
<1>7. \A n \in DOMAIN s : s[n][1] \in Initiators
  BY Zenon, <1>1, Senders
<1>8. ASSUME NEW n \in DOMAIN inbox'
      PROVE  n \in Nat \ {0} /\ n + 1 \in DOMAIN s /\ inbox'[n] = s[n + 1] /\ n + 1 # 1
  BY <1>2, <1>3, SeqFacts
<1>9. ASSUME NEW n \in DOMAIN inbox'
      PROVE  LET j == inbox'[n][1]
             IN  /\ j \in Initiators /\ j # k
                 /\ OnItsWay(j, initiator[j], responder, reply[j], inbox'[n][2])
  <2>1. PICK l : l = n + 1
    OBVIOUS
  <2>2. l \in DOMAIN s /\ inbox'[n] = s[l] /\ l # 1
    BY <1>8, <2>1
  <2>3. s[l][1] # k
    BY Zenon, <1>3, <1>4, <1>6, <2>2
  <2> QED BY Zenon, <1>5, <1>7, <2>2, <2>3
<1>10. ASSUME NEW n \in DOMAIN inbox', NEW l \in DOMAIN inbox',
              inbox'[n][1] = inbox'[l][1]
       PROVE  n = l
  <2>1. n \in Nat \ {0} /\ n + 1 \in DOMAIN s /\ inbox'[n] = s[n + 1]
    BY Zenon, <1>8
  <2>2. l \in Nat \ {0} /\ l + 1 \in DOMAIN s /\ inbox'[l] = s[l + 1]
    BY Zenon, <1>8
  <2>3. PICK a, b : a = n + 1 /\ b = l + 1
    OBVIOUS
  <2>4. a = b
    <3>1. a \in DOMAIN s /\ b \in DOMAIN s /\ s[a][1] = s[b][1]
      BY <1>10, <2>1, <2>2, <2>3
    <3> QED BY Zenon, <1>6, <3>1
  <2> QED BY <2>1, <2>2, <2>3, <2>4
<1>11. k \in Initiators /\ OnItsWay(k, initiator[k], responder, reply[k], msg)
  BY Zenon, <1>3, <1>4, <1>5, <1>7
<1> QED BY Zenon, <1>9, <1>10, <1>11

\* A cause of failure stays one: the buffer of EAD_1 only gets smaller.
LEMMA CauseStays ==
  ASSUME WireInv, NEW k \in Initiators, Cause(initiator[k], responder),
         responder'.c = responder.c, responder'.ad_1_len <= responder.ad_1_len,
         responder'.ad_1_len \in Nat
  PROVE  Cause(initiator[k], responder')
<1>1. Len(initiator[k].c.ead_1) \in Nat
  BY InitiatorContextFacts DEF WireInv, InitiatorInv
<1>2. responder.ad_1_len \in Nat
  BY AdAssumption DEF WireInv, ResponderInv
<1>3. CASE ~ Fits(initiator[k].c, responder.c)
  BY Zenon, <1>3 DEF Cause
<1>4. CASE Len(initiator[k].c.ead_1) > responder.ad_1_len
  <2>1. Len(initiator[k].c.ead_1) > responder'.ad_1_len
    BY <1>1, <1>2, <1>4
  <2> QED BY Zenon, <2>1 DEF Cause
<1> QED BY Zenon, <1>3, <1>4 DEF Cause

\* A step of the responder that takes a datagram of the k-th initiator and
\* answers it or not.
LEMMA ResponderFlows ==
  ASSUME WireInv, FlowInv, UNCHANGED initiator, inbox # <<>>, inbox' = Tail(inbox),
         NEW k, k = Head(inbox)[1], responder'.c = responder.c,
         responder'.ad_1_len <= responder.ad_1_len, responder'.ad_1_len \in Nat,
         \A j \in Initiators :
           j # k => /\ reply'[j] = reply[j]
                    /\ Serves(responder, j) => Serves(responder', j),
         Answered(k, initiator[k], responder', reply'[k]), ResponderFlow'
  PROVE  FlowInv'
<1>1. Initiators' = Initiators
  BY DEF Initiators
<1>2. ASSUME NEW j \in Initiators
      PROVE  /\ initiator[j].pc # "start" => initiator[j].msg1 \in msg1_gen(initiator[j].c)
             /\ initiator[j].pc = "failed" => Cause(initiator[j], responder')
             /\ Answered(j, initiator[j], responder', reply'[j])
  <2>1. /\ initiator[j].pc # "start" => initiator[j].msg1 \in msg1_gen(initiator[j].c)
        /\ initiator[j].pc = "failed" => Cause(initiator[j], responder)
        /\ Answered(j, initiator[j], responder, reply[j])
    BY Zenon DEF FlowInv, InitiatorsFlow
  <2>2. initiator[j].pc = "failed" => Cause(initiator[j], responder')
    BY <2>1, CauseStays
  <2>3. Answered(j, initiator[j], responder', reply'[j])
    <3>1. CASE j = k
      BY Zenon, <3>1
    <3>2. CASE j # k
      BY Zenon, <2>1, <3>2 DEF Answered
    <3> QED BY <3>1, <3>2
  <2> QED BY Zenon, <2>1, <2>2, <2>3
<1>3. InitiatorsFlow'
  BY Zenon, <1>1, <1>2 DEF InitiatorsFlow
<1>4. /\ \A n \in DOMAIN inbox' :
           LET j == inbox'[n][1]
           IN  /\ j \in Initiators /\ j # k
               /\ OnItsWay(j, initiator[j], responder, reply[j], inbox'[n][2])
      /\ \A n, l \in DOMAIN inbox' : inbox'[n][1] = inbox'[l][1] => n = l
  BY Zenon, Taken
<1>5. \A n \in DOMAIN inbox' :
        LET j == inbox'[n][1]
        IN  OnItsWay(j, initiator[j], responder', reply'[j], inbox'[n][2])
  <2>1. ASSUME NEW j \in Initiators, j # k, NEW msg,
               OnItsWay(j, initiator[j], responder, reply[j], msg)
        PROVE  OnItsWay(j, initiator[j], responder', reply'[j], msg)
    BY Zenon, <2>1 DEF OnItsWay
  <2> QED BY Zenon, <1>4, <2>1
<1>6. InboxFlow'
  BY Zenon, <1>4, <1>5 DEF InboxFlow
<1> QED BY <1>3, <1>6 DEF FlowInv

\* A run of the responder that fails for a cause, or interrupted.
LEMMA ResponderFailsFlows ==
  ASSUME WireInv, FlowInv, UNCHANGED <<initiator, reply>>,
         inbox # <<>>, inbox' = Tail(inbox), NEW k, k = Head(inbox)[1],
         responder'.pc = "failed", responder'.peer = k, responder'.c = responder.c,
         responder'.ad_1_len <= responder.ad_1_len, responder'.ad_1_len \in Nat,
         \/ Cause(initiator[k], responder)
         \/ responder'.rc # <<>> /\ initiator[k].pc = "message_2"
  PROVE  FlowInv'
<1>1. PICK msg : msg = Head(inbox)[2]
  OBVIOUS
<1>2. k \in Initiators /\ reply[k] = <<>>
  BY Zenon, <1>1, Taken DEF OnItsWay
<1>3. \/ Cause(initiator[k], responder')
      \/ responder'.rc # <<>> /\ initiator[k].pc = "message_2"
  BY <1>2, CauseStays
<1>4. Initiators' = Initiators
  BY DEF Initiators
<1>5. ResponderFlow'
  <2>1. responder'.pc # "message_3"
    OBVIOUS
  <2> QED BY Zenon, <1>2, <1>3, <1>4, <2>1 DEF ResponderFlow, Interrupted
<1>6. \A j \in Initiators : Serves(responder', j) /\ reply'[j] = reply[j]
  BY Zenon DEF Serves
<1>7. Answered(k, initiator[k], responder', reply'[k])
  BY Zenon, <1>2 DEF Answered
<1> QED BY <1>5, <1>6, <1>7, ResponderFlows

\* EAD_1 is stored in fields of its own.
LEMMA Ead1Fields ==
  ASSUME NEW r, DOMAIN r = ResponderFields, NEW ead_1
  PROVE  LET s == AfterEad1(r, ead_1)
         IN  DOMAIN s = ResponderFields /\ s.c = r.c /\ s.peer = r.peer
<1>1. PICK a, n : AfterEad1(r, ead_1) = [r EXCEPT !.ad_1 = a, !.ad_1_len = n]
  BY Zenon DEF AfterEad1
<1>2. PICK s : s = [r EXCEPT !.ad_1 = a, !.ad_1_len = n]
  OBVIOUS
<1>3. DOMAIN s = ResponderFields /\ s.c = r.c /\ s.peer = r.peer
  BY <1>2 DEF ResponderFields
<1> QED BY Zenon, <1>1, <1>2, <1>3

\* ResponderMessage1: the responder takes a message 1 as its sender made it,
\* and fails only for a cause.
LEMMA ResponderMessage1Flows ==
  ASSUME WireInv, FlowInv, ResponderMessage1
  PROVE  FlowInv'
<1> DEFINE peer == Head(inbox)[1]
           msg1 == Head(inbox)[2]
           r == [responder EXCEPT !.peer = peer]
           p == msg1_parse(msg1, r.ad_1_len)
           m == msg2_gen(r.c, msg1, p)
           rc == [suite |-> Terms!get_suite(Last(p.suites_i)), th3 |-> m.th3,
                  static_dh_i |-> Terms!static_dh_i(p.method),
                  PRK_3e2m |-> m.PRK_3e2m]
           s == AfterEad1(r, p.ead_1)
           i == initiator[peer]
           c == i.c
<1>1. /\ responder.pc = "message_1" /\ inbox # <<>> /\ inbox' = Tail(inbox)
      /\ UNCHANGED initiator
  BY DEF ResponderMessage1
<1>2. \/ p.err # "ok" /\ responder' = Ends(r) /\ UNCHANGED reply
      \/ /\ p.err = "ok" /\ m.err # "ok"
         /\ responder' = Ends(s) /\ UNCHANGED reply
      \/ /\ p.err = "ok" /\ m.err = "ok"
         /\ responder' = [s EXCEPT !.pc = "message_3", !.view = p, !.rc = rc]
         /\ reply' = [reply EXCEPT ![peer] = Append(@, m.msg2)]
  BY Zenon DEF ResponderMessage1
<1>3. peer \in Initiators /\ OnItsWay(peer, i, responder, reply[peer], msg1)
  BY Zenon, <1>1, Taken
<1>4. reply[peer] = <<>> /\ i.pc = "message_2" /\ msg1 = i.msg1
  <2>1. ~ Serves(responder, peer)
    BY Zenon, <1>1 DEF Serves
  <2> QED BY Zenon, <1>3, <2>1 DEF OnItsWay
<1>5. c \in InitiatorContexts /\ msg1 \in msg1_gen(c)
  <2>1. i.msg1 \in msg1_gen(c) /\ c \in InitiatorContexts
    BY <1>3, <1>4 DEF FlowInv, InitiatorsFlow, WireInv, InitiatorInv
  <2> QED BY Zenon, <1>4, <2>1
<1>6. /\ DOMAIN responder = ResponderFields
      /\ responder.ad_1_len \in Nat
  BY AdAssumption DEF WireInv, ResponderInv
<1>7. /\ responder'.ad_1_len <= responder.ad_1_len /\ responder'.ad_1_len \in Nat
  BY ResponderMessage1Keeps, AdAssumption DEF BuffersShrink, WireInv, ResponderInv
<1>8. /\ DOMAIN r = ResponderFields /\ r.peer = peer /\ r.c = responder.c
      /\ r.ad_1_len = responder.ad_1_len
  <2> HIDE DEF peer
  <2> QED BY <1>6 DEF ResponderFields
<1>9. DOMAIN s = ResponderFields /\ s.peer = peer /\ s.c = responder.c
  <2> HIDE DEF r, p, peer
  <2>1. LET t == AfterEad1(r, p.ead_1)
        IN  DOMAIN t = ResponderFields /\ t.c = r.c /\ t.peer = r.peer
    BY <1>8, Ead1Fields
  <2> QED BY Zenon, <1>8, <2>1
<1>10. ASSUME p.err # "ok" PROVE Cause(i, responder)
  <2>1. PICK n : n = r.ad_1_len
    OBVIOUS
  <2>2. n \in Nat /\ n = responder.ad_1_len
    BY Zenon, <1>6, <1>8, <2>1
  <2>3. ~ (Len(c.suites_i) <= SUITES_I_LEN /\ Len(c.ead_1) <= n)
    BY Zenon, <1>5, <1>10, <2>1, <2>2, Message1Accepted
  <2>4. Fits(c, responder.c) => Len(c.suites_i) <= SUITES_I_LEN
    BY Zenon, FitsFacts
  <2>5. ~ (Len(c.ead_1) <= n) => Len(c.ead_1) > n
    <3>1. Len(c.ead_1) \in Nat
      BY <1>5, InitiatorContextFacts
    <3> QED BY <2>2, <3>1
  <2> QED BY Zenon, <2>2, <2>3, <2>4, <2>5 DEF Cause
<1>11. ASSUME p.err = "ok"
       PROVE  /\ p.method = c.method /\ p.suites_i = c.suites_i
              /\ Fits(c, responder.c) => m.err = "ok"
              /\ m.err = "ok" => /\ m.th3 = Th3(c, responder.c, msg1)
                                 /\ m.PRK_3e2m = Prk3e2m(c, responder.c)
                                 /\ m.msg2 = Message2(c, responder.c, msg1)
  <2>1. PICK n : n = r.ad_1_len
    OBVIOUS
  <2>2. n \in Nat
    BY Zenon, <1>6, <1>8, <2>1
  <2>3. p.method = c.method /\ p.suites_i = c.suites_i /\ p.g_x = c.x
    <3>1. PICK d, msg : d = c /\ msg = msg1
      BY Zenon
    <3>2. d \in InitiatorContexts /\ msg \in msg1_gen(d) /\ msg1_parse(msg, n).err = "ok"
      BY Zenon, <1>5, <1>11, <2>1, <3>1
    <3> HIDE DEF c, p, r
    <3>3. LET q == msg1_parse(msg, n)
          IN  /\ q.method = d.method /\ q.suites_i = d.suites_i /\ q.g_x = d.x
              /\ d.c_i[1] = "int" => q.c_i = d.c_i
              /\ q.ead_1 = IF d.ead_1 = <<>> THEN {} ELSE {d.ead_1}
              /\ d.ead_1 # <<>> => Len(d.ead_1) <= n
      BY <2>2, <3>2, Message1Parsed
    <3> USE DEF c, p, r
    <3> QED BY Zenon, <2>1, <3>1, <3>3
  <2>4. PICK d, q, e, msg : d = c /\ q = p /\ e = responder.c /\ msg = msg1
    BY Zenon
  <2>5. LET t == msg2_gen(e, msg, q)
        IN  /\ Fits(d, e) => t.err = "ok"
            /\ t.err = "ok" => /\ t.th3 = Th3(d, e, msg)
                               /\ t.PRK_3e2m = Prk3e2m(d, e)
                               /\ t.msg2 = Message2(d, e, msg)
    <3>1. q.method = d.method /\ q.suites_i = d.suites_i /\ q.g_x = d.x
      BY Zenon, <2>3, <2>4
    <3> QED BY <3>1, Message2Made
  <2>6. msg2_gen(e, msg, q) = m
    BY Zenon, <1>8, <2>4
  <2> QED BY Zenon, <2>3, <2>4, <2>5, <2>6
<1>12. ASSUME NEW t, DOMAIN t = ResponderFields, t.peer = peer, t.c = responder.c,
              responder' = Ends(t), UNCHANGED reply, Cause(i, responder)
       PROVE  FlowInv'
  <2>1. /\ responder'.pc = "failed" /\ responder'.peer = t.peer
        /\ responder'.c = t.c
    BY <1>12 DEF Ends, ResponderFields
  <2>2. responder'.peer = peer /\ responder'.c = responder.c
    BY Zenon, <1>12, <2>1
  <2> QED BY <1>1, <1>7, <1>12, <2>1, <2>2, ResponderFailsFlows
<1>13. CASE p.err # "ok" /\ responder' = Ends(r) /\ UNCHANGED reply
  BY Zenon, <1>8, <1>10, <1>12, <1>13
<1>14. CASE /\ p.err = "ok" /\ m.err # "ok"
            /\ responder' = Ends(s) /\ UNCHANGED reply
  <2>1. Cause(i, responder)
    BY Zenon, <1>11, <1>14 DEF Cause
  <2> QED BY Zenon, <1>9, <1>12, <1>14, <2>1
<1>15. CASE /\ p.err = "ok" /\ m.err = "ok"
            /\ responder' = [s EXCEPT !.pc = "message_3", !.view = p, !.rc = rc]
            /\ reply' = [reply EXCEPT ![peer] = Append(@, m.msg2)]
  <2>1. rc = RuntimeContext(c, responder.c, msg1)
    <3>1. m.th3 = Th3(c, responder.c, msg1) /\ m.PRK_3e2m = Prk3e2m(c, responder.c)
          /\ p.method = c.method /\ p.suites_i = c.suites_i
      BY Zenon, <1>11, <1>15
    <3> HIDE DEF m, p, c
    <3> QED BY Zenon, <3>1 DEF RuntimeContext, Suite, DhI
  <2>2. m.msg2 = Message2(c, responder.c, msg1)
    BY Zenon, <1>11, <1>15
  <2>3. PICK q, t, v : q = rc /\ t = s /\ v = p
    BY Zenon
  <2>4. responder' = [t EXCEPT !.pc = "message_3", !.view = v, !.rc = q]
    BY Zenon, <1>15, <2>3
  <2>5. /\ responder'.pc = "message_3" /\ responder'.peer = peer
        /\ responder'.c = responder.c /\ responder'.rc = rc
    <3>1. DOMAIN t = ResponderFields /\ t.peer = peer /\ t.c = responder.c
      BY Zenon, <1>9, <2>3
    <3>2. /\ responder'.pc = "message_3" /\ responder'.peer = t.peer
          /\ responder'.c = t.c /\ responder'.rc = q
      BY <2>4, <3>1 DEF ResponderFields
    <3> QED BY Zenon, <2>3, <3>1, <3>2
  <2>6. /\ reply'[peer] = <<Message2(c, responder.c, msg1)>>
        /\ \A j \in Initiators : j # peer => reply'[j] = reply[j]
    <3>1. DOMAIN reply = Initiators
      BY DEF WireInv, ReplyInv
    <3>2. \A x : Append(<<>>, x) = <<x>>
      OBVIOUS
    <3>3. PICK x, k : x = m.msg2 /\ k = peer
      BY Zenon
    <3>4. /\ reply'[k] = Append(reply[k], x)
          /\ \A j \in Initiators : j # k => reply'[j] = reply[j]
      <4>1. reply' = [reply EXCEPT ![k] = Append(@, x)] /\ k \in Initiators
        BY Zenon, <1>3, <1>15, <3>3
      <4> QED BY <3>1, <4>1
    <3> QED BY Zenon, <1>4, <2>2, <3>2, <3>3, <3>4
  <2> HIDE DEF rc, m, p, s, r
  <2>7. Answered(peer, i, responder', reply'[peer])
    <3>1. Serves(responder', peer)
      BY Zenon, <2>5 DEF Serves
    <3> QED BY Zenon, <1>4, <2>5, <2>6, <3>1 DEF Answered
  <2>8. ResponderFlow'
    <3>1. "message_2" # "start" /\ "message_3" # "failed"
      OBVIOUS
    <3>2. i.pc # "start" /\ responder'.rc = RuntimeContext(i.c, responder'.c, i.msg1)
      BY Zenon, <1>4, <2>1, <2>5, <3>1
    <3> QED BY Zenon, <1>1, <2>5, <3>1, <3>2 DEF ResponderFlow
  <2>9. \A j \in Initiators : ~ Serves(responder, j)
    BY Zenon, <1>1 DEF Serves
  <2> HIDE DEF peer, i, c
  <2>10. PICK k : k = peer /\ k = Head(inbox)[1]
    BY DEF peer
  <2>11. Answered(k, initiator[k], responder', reply'[k])
    BY Zenon, <2>7, <2>10 DEF i
  <2> QED BY <1>1, <1>7, <2>5, <2>6, <2>8, <2>9, <2>10, <2>11, ResponderFlows
<1> QED BY Zenon, <1>2, <1>13, <1>14, <1>15

\* The keys of the responder's run are a record, no empty sequence.
LEMMA RuntimeContextThere ==
  ASSUME NEW i, NEW r, NEW msg1
  PROVE  RuntimeContext(i, r, msg1) # <<>>
<1>1. "suite" \in DOMAIN RuntimeContext(i, r, msg1)
  BY DEF RuntimeContext
<1>2. "suite" \notin DOMAIN <<>>
  OBVIOUS
<1> QED BY Zenon, <1>1, <1>2

\* ResponderMessage3: the responder takes the message 3 of its peer, unless a
\* message 1 comes first or there is a cause for it to fail.
LEMMA ResponderMessage3Flows ==
  ASSUME WireInv, FlowInv, ResponderMessage3
  PROVE  FlowInv'
<1> DEFINE r == responder
           peer == Head(inbox)[1]
           msg3 == Head(inbox)[2]
           i == initiator[peer]
<1>1. /\ responder.pc = "message_3" /\ inbox # <<>> /\ inbox' = Tail(inbox)
      /\ UNCHANGED initiator
  BY DEF ResponderMessage3
<1>2. PICK leftover \in {Garbage, r.id_cred_i \o Garbage} :
        LET m == msg3_process(r.c, r.rc, msg3, leftover, r.ad_3_len)
        IN  \/ /\ m.err # "ok"
               /\ responder' = Ends([r EXCEPT !.peer = peer]) /\ UNCHANGED reply
            \/ /\ m.err = "ok"
               /\ responder' = [r EXCEPT !.pc = "message_1", !.peer = peer,
                    !.rc = <<>>, !.ad_3_len = m.ead_3_len,
                    !.id_cred_i = m.accepted[1], !.accepted = m.accepted,
                    !.prk_4x3m = m.prk_4x3m, !.th4 = m.th4]
               /\ reply' = [reply EXCEPT ![peer] =
                    Append(@, msg4_gen(r.c, m.prk_4x3m, m.th4))]
  BY Zenon DEF ResponderMessage3
<1> DEFINE m == msg3_process(r.c, r.rc, msg3, leftover, r.ad_3_len)
<1>3. peer \in Initiators /\ OnItsWay(peer, i, responder, reply[peer], msg3)
  BY Zenon, <1>1, Taken
<1>4. /\ DOMAIN responder = ResponderFields /\ responder.ad_1_len \in Nat
      /\ responder.c \in ResponderContexts /\ i.c \in InitiatorContexts
  BY <1>3, AdAssumption DEF WireInv, ResponderInv, InitiatorInv
<1>5. /\ responder'.ad_1_len <= responder.ad_1_len /\ responder'.ad_1_len \in Nat
  BY ResponderMessage3Keeps, AdAssumption DEF BuffersShrink, WireInv, ResponderInv
<1>6. responder.rc = RuntimeContext(initiator[responder.peer].c, responder.c,
                                    initiator[responder.peer].msg1)
  BY Zenon, <1>1 DEF FlowInv, ResponderFlow
<1>7. CASE /\ m.err # "ok"
           /\ responder' = Ends([r EXCEPT !.peer = peer]) /\ UNCHANGED reply
  <2> HIDE DEF m, peer
  <2>1. PICK t : t = [responder EXCEPT !.peer = peer]
    OBVIOUS
  <2>2. /\ DOMAIN t = ResponderFields /\ t.peer = peer
        /\ t.c = responder.c /\ t.rc = responder.rc
    BY <1>4, <2>1 DEF ResponderFields
  <2>3. responder' = [t EXCEPT !.pc = "failed"]
    BY <1>7, <2>1 DEF Ends
  <2>4. /\ responder'.pc = "failed" /\ responder'.peer = peer
        /\ responder'.c = responder.c /\ responder'.rc = responder.rc
    BY <2>2, <2>3 DEF ResponderFields
  <2>5. \/ Cause(i, responder)
        \/ responder'.rc # <<>> /\ i.pc = "message_2"
    <3>1. CASE i.pc = "message_2"
      BY Zenon, <1>6, <2>4, <3>1, RuntimeContextThere
    <3>2. CASE /\ Serves(responder, peer)
               /\ Fits(i.c, responder.c) => msg3 = Message3(i.c, responder.c, i.msg1)
      <4>1. responder.peer = peer
        <5>1. "message_3" # "failed"
          OBVIOUS
        <5> QED BY Zenon, <1>1, <3>2, <5>1 DEF Serves
      <4>2. ASSUME Fits(i.c, responder.c) PROVE m.err = "ok"
        <5>1. PICK d, e, msg1, n : /\ d = i.c /\ e = responder.c
                                   /\ msg1 = i.msg1 /\ n = responder.ad_3_len
          BY Zenon
        <5>2. d \in InitiatorContexts /\ e \in ResponderContexts /\ Fits(d, e)
          BY Zenon, <1>4, <4>2, <5>1
        <5>3. msg3_process(e, RuntimeContext(d, e, msg1), Message3(d, e, msg1),
                           leftover, n).err = "ok"
          BY <5>2, Message3Taken
        <5>4. /\ responder.rc = RuntimeContext(d, e, msg1)
              /\ msg3 = Message3(d, e, msg1)
          BY Zenon, <1>6, <3>2, <4>1, <4>2, <5>1
        <5> QED BY Zenon, <5>1, <5>3, <5>4 DEF m
      <4> QED BY Zenon, <1>7, <4>2 DEF Cause
    <3> QED BY Zenon, <1>3, <3>1, <3>2 DEF OnItsWay
  <2>6. PICK k : k = peer /\ k = Head(inbox)[1]
    BY DEF peer
  <2>7. \/ Cause(initiator[k], responder)
        \/ responder'.rc # <<>> /\ initiator[k].pc = "message_2"
    BY Zenon, <2>5, <2>6
  <2> QED BY <1>1, <1>5, <1>7, <2>4, <2>6, <2>7, ResponderFailsFlows
<1>8. CASE /\ m.err = "ok"
           /\ responder' = [r EXCEPT !.pc = "message_1", !.peer = peer,
                !.rc = <<>>, !.ad_3_len = m.ead_3_len,
                !.id_cred_i = m.accepted[1], !.accepted = m.accepted,
                !.prk_4x3m = m.prk_4x3m, !.th4 = m.th4]
           /\ reply' = [reply EXCEPT ![peer] =
                Append(@, msg4_gen(r.c, m.prk_4x3m, m.th4))]
  <2>1. msg3 \notin msg1_gen(i.c)
    BY Zenon, <1>8, WrongMessage
  <2>2. ~ (i.pc = "message_2" /\ msg3 = i.msg1)
    <3>1. i.pc # "start" => i.msg1 \in msg1_gen(i.c)
      BY Zenon, <1>3 DEF FlowInv, InitiatorsFlow
    <3>2. "message_2" # "start"
      OBVIOUS
    <3> QED BY Zenon, <2>1, <3>1, <3>2
  <2>3. i.pc = "message_4" /\ Serves(responder, peer) /\ reply[peer] = <<>>
    BY Zenon, <1>3, <2>2 DEF OnItsWay
  <2>4. responder.peer = peer
    <3>1. "message_3" # "failed"
      OBVIOUS
    <3> QED BY Zenon, <1>1, <2>3, <3>1 DEF Serves
  <2>5. PICK k, q : k = peer /\ q = m
    BY Zenon
  <2>6. /\ responder' = [responder EXCEPT !.pc = "message_1", !.peer = k,
                 !.rc = <<>>, !.ad_3_len = q.ead_3_len,
                 !.id_cred_i = q.accepted[1], !.accepted = q.accepted,
                 !.prk_4x3m = q.prk_4x3m, !.th4 = q.th4]
        /\ reply' = [reply EXCEPT ![k] =
                 Append(@, msg4_gen(responder.c, q.prk_4x3m, q.th4))]
        /\ k \in Initiators /\ k = Head(inbox)[1] /\ reply[k] = <<>>
        /\ initiator[k].pc = "message_4" /\ responder.peer = k
    BY Zenon, <1>3, <1>8, <2>3, <2>4, <2>5
  <2> HIDE DEF m, peer, i
  <2>7. /\ responder'.pc = "message_1" /\ responder'.peer = k
        /\ responder'.c = responder.c
        /\ responder'.prk_4x3m = q.prk_4x3m /\ responder'.th4 = q.th4
    BY <1>4, <2>6 DEF ResponderFields
  <2>8. q.prk_4x3m = initiator[k].prk_4x3m /\ q.th4 = initiator[k].th4
    <3>1. OnlySenderAuthenticated'
      BY ResponderMessage3Keeps DEF WireInv
    <3>2. k # 0
      BY <2>6 DEF Initiators
    <3>3. <<responder'.prk_4x3m, responder'.th4>>
            = <<initiator'[k].prk_4x3m, initiator'[k].th4>>
      BY Zenon, <2>7, <3>1, <3>2 DEF OnlySenderAuthenticated
    <3> QED BY <1>1, <2>7, <3>3
  <2>9. PICK msg4 : msg4 = msg4_gen(responder.c, q.prk_4x3m, q.th4)
    OBVIOUS
  <2>10. /\ reply'[k] = <<msg4>>
         /\ \A j \in Initiators : j # k => reply'[j] = reply[j]
    <3>1. DOMAIN reply = Initiators
      BY DEF WireInv, ReplyInv
    <3>2. reply' = [reply EXCEPT ![k] = Append(@, msg4)]
      BY Zenon, <2>6, <2>9
    <3> QED BY <2>6, <3>1, <3>2
  <2>11. Answered(k, initiator[k], responder', reply'[k])
    <3>1. msg4 = msg4_gen(responder'.c, initiator[k].prk_4x3m, initiator[k].th4)
      BY Zenon, <2>7, <2>8, <2>9
    <3> QED BY Zenon, <2>6, <2>10, <3>1 DEF Answered
  <2>12. ResponderFlow'
    BY <2>7 DEF ResponderFlow
  <2>13. \A j \in Initiators : j # k => ~ Serves(responder, j)
    BY <1>1, <2>6 DEF Serves
  <2> QED BY <1>1, <1>5, <2>6, <2>7, <2>10, <2>11, <2>12, <2>13, ResponderFlows
<1> QED BY Zenon, <1>2, <1>7, <1>8

-----------------------------------------------------------------------------
(* Theorems                                                                *)

\* Every step preserves the flow invariant.
LEMMA FlowStep == WireInv /\ FlowInv /\ [Next]_vars => FlowInv'
<1> SUFFICES ASSUME WireInv, FlowInv, [Next]_vars PROVE FlowInv'
  OBVIOUS
<1>1. CASE UNCHANGED vars
  BY <1>1 DEF vars, FlowInv, InitiatorsFlow, InboxFlow, ResponderFlow, Initiators,
    Interrupted
<1>2. ASSUME NEW k \in Initiators, InitiatorStart(k) PROVE FlowInv'
  BY <1>2, StartFlows
<1>3. ASSUME NEW k \in Initiators, InitiatorMessage2(k) PROVE FlowInv'
  BY <1>3, Message2Flows
<1>4. ASSUME NEW k \in Initiators, InitiatorMessage4(k) PROVE FlowInv'
  BY <1>4, Message4Flows
<1>5. CASE ResponderMessage1
  BY <1>5, ResponderMessage1Flows
<1>6. CASE ResponderMessage3
  BY <1>6, ResponderMessage3Flows
<1> QED BY <1>1, <1>2, <1>3, <1>4, <1>5, <1>6 DEF Next

\* In every state of every run each message on its way is the one its receiver
\* can take, and who has failed had a cause to.
THEOREM FlowInvariant == Spec => []FlowInv
<1>1. WireInv /\ FlowInv /\ [Next]_vars => FlowInv'
  BY FlowStep
<1> QED BY WireInvariant, FlowInit, <1>1, PTL DEF Spec

\* A run of edhoc_initiator_run or edhoc_responder_run fails only when the
\* contexts do not fit, EAD_1 is too long for what is left of its buffer, or
\* the message 1 of another initiator came in place of message 3.
THEOREM FailureHasReasonTheorem == Spec => []FailureHasReason
<1>1. FlowInv => FailureHasReason
  BY Zenon DEF FlowInv, InitiatorsFlow, ResponderFlow, Cause, Interrupted,
    FailureHasReason
<1> QED BY FlowInvariant, <1>1, PTL
=============================================================================
