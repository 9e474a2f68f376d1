----------------------------- MODULE CoapProofs -----------------------------
(***************************************************************************)
(* The properties of CoapConversion, proved for all messages of any number *)
(* of options on which the encodings of the code agree (Regulars), for any *)
(* limits and any bytes in memory never written.                           *)
(*                                                                         *)
(* The order of the argument: what the folds of the community modules      *)
(* compute, step by step; where the options of a list are in the bytes     *)
(* that options_into_byte_string writes, and that both readers find them   *)
(* there (ReadMessage, ReadPlaintext); that the options of the two classes *)
(* keep their order, and that the merge by increasing number puts each     *)
(* back in its place (ReorderRestores); that the length computed in        *)
(* advance is the one written (PlaintextLenIs); then coap2oscore and       *)
(* oscore2coap on a whole message, and the inductive invariant CoapInv.    *)
(* What is recursive in the model has no induction over data here: the     *)
(* least number that fails is used instead (Upward).                       *)
(***************************************************************************)
EXTENDS CoapConversion, SequenceTheorems, FiniteSetTheorems,
        WellFoundedInduction, TLAPS

-----------------------------------------------------------------------------
(* Induction and folds                                                     *)

\* Induction from 0 to n, on membership in a set.
LEMMA Upward ==
  ASSUME NEW n \in Nat, NEW S, 0 \in S,
         \A k \in 0 .. n : k \in S /\ k < n => k + 1 \in S
  PROVE  \A k \in 0 .. n : k \in S
<1> DEFINE Less == {ss \in Nat \X Nat : ss[1] < ss[2]}
           Out == {k \in 0 .. n : k \notin S}
<1>1. IsWellFoundedOn(Less, Nat)
  BY NatLessThanWellFounded DEF OpToRel
<1>2. SUFFICES ASSUME Out # {} PROVE FALSE
  OBVIOUS
<1>3. PICK x \in Out : \A y \in Out : ~(<<y, x>> \in Less)
  <2>1. Out \subseteq Nat
    OBVIOUS
  <2> HIDE DEF Less, Out
  <2> QED BY <1>1, <1>2, <2>1, WFMin
<1>4. x \in 1 .. n
  BY x \in Out
<1>5. x - 1 \in S
  <2>1. x - 1 \in Nat /\ x - 1 \in 0 .. n /\ x \in Nat
    BY <1>4
  <2>2. <<x - 1, x>> \in Less
    BY <2>1
  <2>3. x - 1 \notin Out
    BY <1>3, <2>2
  <2> QED BY <2>1, <2>3
<1> QED BY <1>4, <1>5

\* The greatest number of a set of numbers up to n.
LEMMA MaxFacts ==
  ASSUME NEW n \in Nat, NEW s \in SUBSET (1 .. n), s # {}
  PROVE  Max(s) \in s /\ \A y \in s : y <= Max(s)
<1> DEFINE S == {k \in 0 .. n : (\A y \in s : y > k) \/ \E x \in s : x <= k /\ \A y \in s : y <= k => y <= x}
<1>1. 0 \in S
  OBVIOUS
<1>2. ASSUME NEW k \in 0 .. n, k \in S, k < n PROVE k + 1 \in S
  <2>1. CASE k + 1 \in s
    BY <1>2, <2>1
  <2>2. CASE k + 1 \notin s
    <3>1. \A y \in s : y <= k + 1 <=> y <= k
      BY <2>2
    <3>2. CASE \A y \in s : y > k
      BY <3>1, <3>2, <1>2
    <3>3. CASE \E x \in s : x <= k /\ \A y \in s : y <= k => y <= x
      BY <3>1, <3>3, <1>2
    <3> QED BY <1>2, <3>2, <3>3
  <2> QED BY <2>1, <2>2
<1>3. \A k \in 0 .. n : k \in S
  <2> HIDE DEF S
  <2> QED BY <1>1, <1>2, Upward
<1>4. \E x \in s : \A y \in s : y <= x
  <2>1. n \in S
    <3> HIDE DEF S
    <3> QED BY <1>3
  <2>2. PICK y \in s : y \in 1 .. n
    OBVIOUS
  <2> QED BY <2>1, <2>2
<1> QED BY <1>4 DEF Max

\* What a fold of Op over 1 .. n makes of each subset, from the greatest
\* element down.
IsFold(g, n, base, Op) ==
  \A s \in SUBSET (1 .. n) :
    g[s] = IF s = {} THEN base ELSE Op[Max(s)][g[s \ {Max(s)}]]

\* There is one.
LEMMA FoldExists ==
  ASSUME NEW n \in Nat, NEW D, NEW base \in D, NEW Op \in [1 .. n -> [D -> D]]
  PROVE  \E g \in [SUBSET (1 .. n) -> D] : IsFold(g, n, base, Op)
<1> DEFINE Good(g, k) ==
             \A s \in SUBSET (1 .. k) :
               g[s] = IF s = {} THEN base ELSE Op[Max(s)][g[s \ {Max(s)}]]
           S == {k \in 0 .. n : \E g \in [SUBSET (1 .. k) -> D] : Good(g, k)}
<1>1. 0 \in S
  <2> DEFINE g == [s \in SUBSET (1 .. 0) |-> base]
  <2>1. g \in [SUBSET (1 .. 0) -> D] /\ Good(g, 0)
    OBVIOUS
  <2>2. \E h \in [SUBSET (1 .. 0) -> D] : Good(h, 0)
    <3> HIDE DEF g, Good
    <3> QED BY <2>1
  <2>3. 0 \in 0 .. n
    OBVIOUS
  <2> HIDE DEF g
  <2> QED BY <2>2, <2>3
<1>2. ASSUME NEW k \in 0 .. n, k \in S, k < n PROVE k + 1 \in S
  <2>1. PICK g \in [SUBSET (1 .. k) -> D] : Good(g, k)
    BY <1>2
  <2> DEFINE h == [s \in SUBSET (1 .. (k + 1)) |->
                     IF k + 1 \in s THEN Op[k + 1][g[s \ {k + 1}]] ELSE g[s]]
  <2>2. \A s \in SUBSET (1 .. (k + 1)) : s \ {k + 1} \in SUBSET (1 .. k)
    OBVIOUS
  <2>3. \A s \in SUBSET (1 .. (k + 1)) : k + 1 \notin s => s \in SUBSET (1 .. k)
    OBVIOUS
  <2>4. k + 1 \in 1 .. n
    BY <1>2
  <2>5. h \in [SUBSET (1 .. (k + 1)) -> D]
    <3> SUFFICES ASSUME NEW s \in SUBSET (1 .. (k + 1))
                 PROVE  (IF k + 1 \in s THEN Op[k + 1][g[s \ {k + 1}]] ELSE g[s]) \in D
      OBVIOUS
    <3>1. CASE k + 1 \in s
      <4>1. g[s \ {k + 1}] \in D
        BY <2>2
      <4> QED BY <3>1, <4>1, <2>4
    <3>2. CASE k + 1 \notin s
      BY <2>3, <3>2
    <3> QED BY <3>1, <3>2
  <2>6. ASSUME NEW s \in SUBSET (1 .. (k + 1))
        PROVE  h[s] = IF s = {} THEN base ELSE Op[Max(s)][h[s \ {Max(s)}]]
    <3>1. CASE k + 1 \in s
      <4>1. Max(s) = k + 1
        <5>1. k + 1 \in Nat /\ s # {}
          BY <3>1
        <5>2. Max(s) \in s /\ \A y \in s : y <= Max(s)
          BY <5>1, MaxFacts
        <5>3. Max(s) \in 1 .. (k + 1) /\ k + 1 <= Max(s)
          BY <5>2, <3>1
        <5> QED BY <5>3
      <4>2. h[s \ {k + 1}] = g[s \ {k + 1}]
        BY <2>2
      <4> QED BY <3>1, <4>1, <4>2
    <3>2. CASE k + 1 \notin s
      <4>1. s \in SUBSET (1 .. k) /\ h[s] = g[s]
        BY <2>3, <3>2
      <4>2. CASE s = {}
        BY <4>1, <4>2, <2>1
      <4>3. CASE s # {}
        <5>1. k \in Nat /\ Max(s) \in s
          <6>1. k \in Nat
            OBVIOUS
          <6> QED BY <6>1, <4>1, <4>3, MaxFacts
        <5>2. s \ {Max(s)} \in SUBSET (1 .. (k + 1)) /\ k + 1 \notin s \ {Max(s)}
          BY <3>2
        <5>3. h[s \ {Max(s)}] = g[s \ {Max(s)}]
          BY <5>2
        <5>4. g[s] = Op[Max(s)][g[s \ {Max(s)}]]
          BY <4>1, <4>3, <2>1
        <5> QED BY <4>1, <4>3, <5>3, <5>4
      <4> QED BY <4>2, <4>3
    <3> QED BY <3>1, <3>2
  <2>7. Good(h, k + 1)
    <3> HIDE DEF h
    <3> QED BY <2>6
  <2>8. k + 1 \in 0 .. n
    BY <1>2
  <2> HIDE DEF h, Good
  <2> QED BY <2>5, <2>7, <2>8
<1>3. n \in S
  <2> HIDE DEF S
  <2>1. \A k \in 0 .. n : k \in S
    BY <1>1, <1>2, Upward
  <2> QED BY <2>1
<1> QED BY <1>3 DEF IsFold

\* The sets that a fold goes through.
LEMMA Segments ==
  ASSUME NEW n \in Nat, NEW k \in 1 .. n
  PROVE  /\ 1 .. k \in SUBSET (1 .. n) /\ 1 .. k # {}
         /\ Max(1 .. k) = k /\ (1 .. k) \ {k} = 1 .. (k - 1)
<1>1. 1 .. k \in SUBSET (1 .. n) /\ k \in 1 .. k
  OBVIOUS
<1>2. Max(1 .. k) \in 1 .. k /\ \A y \in 1 .. k : y <= Max(1 .. k)
  <2>1. 1 .. k # {}
    BY <1>1
  <2> HIDE DEF Max
  <2> QED BY <1>1, <2>1, MaxFacts
<1>3. (1 .. k) \ {k} = 1 .. (k - 1)
  OBVIOUS
<1> QED BY <1>1, <1>2, <1>3

\* The iterates of Op exist.
IsIterates(F, n, base, Op) ==
  F[0] = base /\ \A k \in 1 .. n : F[k] = Op[k][F[k - 1]]

LEMMA IteratesExist ==
  ASSUME NEW n \in Nat, NEW D, NEW base \in D, NEW Op \in [1 .. n -> [D -> D]]
  PROVE  \E F \in [0 .. n -> D] : IsIterates(F, n, base, Op)
<1>1. PICK g \in [SUBSET (1 .. n) -> D] : IsFold(g, n, base, Op)
  BY FoldExists
<1> DEFINE F == [k \in 0 .. n |-> g[1 .. k]]
<1>2. \A k \in 0 .. n : 1 .. k \in SUBSET (1 .. n)
  OBVIOUS
<1>3. F \in [0 .. n -> D]
  BY <1>2
<1>4. F[0] = base
  <2>1. 1 .. 0 = {} /\ {} \in SUBSET (1 .. n) /\ 0 \in 0 .. n
    OBVIOUS
  <2> QED BY <1>1, <2>1 DEF IsFold
<1>5. ASSUME NEW k \in 1 .. n PROVE F[k] = Op[k][F[k - 1]]
  <2>1. /\ 1 .. k \in SUBSET (1 .. n) /\ 1 .. k # {}
        /\ Max(1 .. k) = k /\ (1 .. k) \ {k} = 1 .. (k - 1)
    BY Segments
  <2>2. k \in 0 .. n /\ k - 1 \in 0 .. n
    OBVIOUS
  <2>3. g[1 .. k] = Op[k][g[1 .. (k - 1)]]
    BY <1>1, <2>1 DEF IsFold
  <2> QED BY <2>2, <2>3
<1> HIDE DEF F
<1> QED BY <1>3, <1>4, <1>5 DEF IsIterates

\* A function of sets that folds Op as long as it stays in the type goes
\* through the iterates of Op.
FoldsWithin(iter, n, D, base, Op) ==
  /\ iter[{}] = base
  /\ \A s \in SUBSET (1 .. n) :
       s # {} /\ iter[s \ {Max(s)}] \in D => iter[s] = Op[Max(s)][iter[s \ {Max(s)}]]

HasIterates(iter, n, D, base, Op) ==
  \E F \in [0 .. n -> D] : IsIterates(F, n, base, Op) /\ F[n] = iter[1 .. n]

LEMMA FoldIterates ==
  ASSUME NEW n \in Nat, NEW D, NEW base \in D, NEW Op \in [1 .. n -> [D -> D]],
         NEW iter, FoldsWithin(iter, n, D, base, Op)
  PROVE  HasIterates(iter, n, D, base, Op)
<1> DEFINE F == [k \in 0 .. n |-> iter[1 .. k]]
<1>1. iter[1 .. 0] = base
  <2>1. 1 .. 0 = {}
    OBVIOUS
  <2> QED BY <2>1 DEF FoldsWithin
<1>2. ASSUME NEW k \in 1 .. n, iter[1 .. (k - 1)] \in D
      PROVE  iter[1 .. k] = Op[k][iter[1 .. (k - 1)]]
  <2>1. /\ 1 .. k \in SUBSET (1 .. n) /\ 1 .. k # {}
        /\ Max(1 .. k) = k /\ (1 .. k) \ {k} = 1 .. (k - 1)
    BY Segments
  <2> QED BY <1>2, <2>1 DEF FoldsWithin
<1>3. \A k \in 0 .. n : iter[1 .. k] \in D
  <2> DEFINE S == {k \in 0 .. n : iter[1 .. k] \in D}
  <2>1. 0 \in S
    BY <1>1
  <2>2. ASSUME NEW k \in 0 .. n, k \in S, k < n PROVE k + 1 \in S
    <3>1. k + 1 \in 1 .. n /\ (k + 1) - 1 = k /\ k + 1 \in 0 .. n
      BY <2>2
    <3>2. iter[1 .. (k + 1)] = Op[k + 1][iter[1 .. k]]
      BY <2>2, <3>1, <1>2
    <3> QED BY <2>2, <3>1, <3>2
  <2>3. \A k \in 0 .. n : k \in S
    <3> HIDE DEF S
    <3> QED BY <2>1, <2>2, Upward
  <2> QED BY <2>3
<1>4. F \in [0 .. n -> D] /\ F[0] = base /\ F[n] = iter[1 .. n]
  BY <1>1, <1>3
<1>5. ASSUME NEW k \in 1 .. n PROVE F[k] = Op[k][F[k - 1]]
  <2>1. k \in 0 .. n /\ k - 1 \in 0 .. n
    OBVIOUS
  <2>2. iter[1 .. k] = Op[k][iter[1 .. (k - 1)]]
    BY <2>1, <1>2, <1>3
  <2> QED BY <2>1, <2>2
<1> HIDE DEF F
<1> QED BY <1>4, <1>5 DEF IsIterates, HasIterates

\* What OptionsOf has after the first k options.
LEMMA OptionsOfFold ==
  ASSUME NEW T, NEW list \in Seq(T), NEW class
  PROVE  \E F \in [0 .. Len(list) -> Seq(T)] :
           /\ F[0] = <<>> /\ OptionsOf(list, class) = F[Len(list)]
           /\ \A k \in 1 .. Len(list) :
                F[k] = IF list[k].number \in class THEN Append(F[k - 1], list[k]) ELSE F[k - 1]
<1> DEFINE n == Len(list)
           body(done, o) == IF o.number \in class THEN Append(done, o) ELSE done
           iter[s \in SUBSET (1 .. n)] ==
             IF s = {} THEN <<>> ELSE body(iter[s \ {Max(s)}], list[Max(s)])
           Op == [k \in 1 .. n |-> [done \in Seq(T) |-> body(done, list[k])]]
<1>1. n \in Nat /\ DOMAIN list = 1 .. n /\ \A k \in 1 .. n : list[k] \in T
  OBVIOUS
<1>2. OptionsOf(list, class) = iter[1 .. n]
  BY <1>1 DEF OptionsOf, FoldLeft, MapThenFoldSet
<1>3. Op \in [1 .. n -> [Seq(T) -> Seq(T)]]
  BY <1>1
<1>4. PICK g \in [SUBSET (1 .. n) -> Seq(T)] : IsFold(g, n, <<>>, Op)
  <2>1. n \in Nat /\ <<>> \in Seq(T)
    BY <1>1
  <2> HIDE DEF Op, n
  <2> QED BY <1>3, <2>1, FoldExists
<1>5. ASSUME NEW s \in SUBSET (1 .. n)
      PROVE  g[s] = IF s = {} THEN <<>> ELSE body(g[s \ {Max(s)}], list[Max(s)])
  <2>1. s # {} => Max(s) \in 1 .. n
    <3> HIDE DEF n
    <3> QED BY <1>1, MaxFacts
  <2>2. g[s \ {Max(s)}] \in Seq(T)
    OBVIOUS
  <2> QED BY <1>4, <2>1, <2>2 DEF IsFold
<1>6. g = [s \in SUBSET (1 .. n) |->
             IF s = {} THEN <<>> ELSE body(g[s \ {Max(s)}], list[Max(s)])]
  <2> HIDE DEF body, n
  <2> QED BY <1>5
<1>7. iter = [s \in SUBSET (1 .. n) |->
                IF s = {} THEN <<>> ELSE body(iter[s \ {Max(s)}], list[Max(s)])]
  <2> HIDE DEF body, n
  <2> QED BY <1>6
<1> HIDE DEF iter
<1>8. iter[{}] = <<>>
  <2>1. {} \in SUBSET (1 .. n)
    OBVIOUS
  <2> HIDE DEF body, n
  <2> QED BY <1>7, <2>1
<1>9. ASSUME NEW s \in SUBSET (1 .. n), s # {}, iter[s \ {Max(s)}] \in Seq(T)
       PROVE  iter[s] = Op[Max(s)][iter[s \ {Max(s)}]]
  <2>1. Max(s) \in 1 .. n
    <3>1. n \in Nat
      BY <1>1
    <3> HIDE DEF n
    <3> QED BY <1>9, <3>1, MaxFacts
  <2>2. iter[s] = body(iter[s \ {Max(s)}], list[Max(s)])
    <3> HIDE DEF body, n
    <3> QED BY <1>7, <1>9
  <2> HIDE DEF body, n
  <2> QED BY <1>9, <2>1, <2>2
<1>10. PICK F \in [0 .. n -> Seq(T)] : IsIterates(F, n, <<>>, Op) /\ F[n] = iter[1 .. n]
  <2>1. n \in Nat /\ <<>> \in Seq(T)
    BY <1>1
  <2>2. FoldsWithin(iter, n, Seq(T), <<>>, Op)
    <3> HIDE DEF Op, n
    <3> QED BY <1>8, <1>9 DEF FoldsWithin
  <2> HIDE DEF Op, n
  <2>3. PICK D, base, it, op, m : D = Seq(T) /\ base = <<>> /\ it = iter /\ op = Op /\ m = n
    BY Zenon
  <2>4. m \in Nat /\ base \in D /\ op \in [1 .. m -> [D -> D]] /\ FoldsWithin(it, m, D, base, op)
    BY <1>3, <2>1, <2>2, <2>3, Zenon
  <2>5. HasIterates(it, m, D, base, op)
    BY <2>4, FoldIterates, Zenon
  <2>6. \E F \in [0 .. m -> D] : IsIterates(F, m, base, op) /\ F[m] = it[1 .. m]
    BY <2>5, Zenon DEF HasIterates
  <2> QED BY <2>3, <2>6, Zenon
<1>11. F[0] = <<>> /\ \A k \in 1 .. n : F[k] = body(F[k - 1], list[k])
  <2> SUFFICES ASSUME NEW k \in 1 .. n PROVE F[0] = <<>> /\ F[k] = body(F[k - 1], list[k])
    BY <1>10 DEF IsIterates
  <2>1. F[k - 1] \in Seq(T)
    <3>1. k - 1 \in 0 .. n
      BY <1>1
    <3> QED BY <3>1
  <2> HIDE DEF body, n
  <2> QED BY <1>10, <2>1 DEF IsIterates
<1> QED BY <1>2, <1>10, <1>11

\* c[k] of the first k options have a number of the class.
Counts(c, list, class) ==
  /\ c \in [0 .. Len(list) -> Nat]
  /\ c[0] = 0
  /\ \A k \in 1 .. Len(list) :
       c[k] = IF list[k].number \in class THEN c[k - 1] + 1 ELSE c[k - 1]

\* An option of the class has as place in OptionsOf the count up to it.
Places(T, list, class, c) ==
  /\ Counts(c, list, class)
  /\ OptionsOf(list, class) \in Seq(T)
  /\ Len(OptionsOf(list, class)) = c[Len(list)]
  /\ \A j, k \in 0 .. Len(list) : j <= k => c[j] <= c[k]
  /\ \A k \in 1 .. Len(list) :
       list[k].number \in class =>
         c[k] \in 1 .. c[Len(list)] /\ OptionsOf(list, class)[c[k]] = list[k]
  /\ \A i \in 1 .. c[Len(list)] :
       \E k \in 1 .. Len(list) : list[k].number \in class /\ c[k] = i
HasPlaces(T, list, class) == \E c : Places(T, list, class, c)

LEMMA OptionsOfPlaces ==
  ASSUME NEW T, NEW list \in Seq(T), NEW class
  PROVE  HasPlaces(T, list, class)
<1> DEFINE n == Len(list)
<1>1. PICK F \in [0 .. n -> Seq(T)] :
        /\ F[0] = <<>> /\ OptionsOf(list, class) = F[n]
        /\ \A k \in 1 .. n :
             F[k] = IF list[k].number \in class THEN Append(F[k - 1], list[k]) ELSE F[k - 1]
  BY OptionsOfFold
<1> DEFINE c == [k \in 0 .. n |-> Len(F[k])]
           Placed(k) ==
             /\ \A j \in 0 .. k : c[j] <= c[k]
             /\ \A j \in 1 .. k : list[j].number \in class =>
                                    c[j] \in 1 .. c[k] /\ F[k][c[j]] = list[j]
             /\ \A i \in 1 .. c[k] : \E j \in 1 .. k : list[j].number \in class /\ c[j] = i
<1>2. n \in Nat /\ \A k \in 1 .. n : list[k] \in T
  OBVIOUS
<1>3. c \in [0 .. n -> Nat] /\ c[0] = 0 /\ \A k \in 0 .. n : c[k] = Len(F[k])
  BY <1>1
<1>4. ASSUME NEW k \in 1 .. n
      PROVE  /\ k - 1 \in 0 .. n /\ F[k - 1] \in Seq(T) /\ list[k] \in T
             /\ list[k].number \in class =>
                  c[k] = c[k - 1] + 1 /\ F[k] = Append(F[k - 1], list[k])
             /\ list[k].number \notin class => c[k] = c[k - 1] /\ F[k] = F[k - 1]
  <2>1. k - 1 \in 0 .. n /\ F[k - 1] \in Seq(T) /\ list[k] \in T /\ k \in 0 .. n
    BY <1>1, <1>2, SMTT(30)
  <2>2. c[k] = Len(F[k]) /\ c[k - 1] = Len(F[k - 1])
    BY <2>1, <1>3
  <2>3. CASE list[k].number \in class
    <3>1. F[k] = Append(F[k - 1], list[k])
      BY <1>1, <2>3
    <3> HIDE DEF n, c
    <3> QED BY <2>1, <2>2, <2>3, <3>1
  <2>4. CASE list[k].number \notin class
    <3>1. F[k] = F[k - 1]
      BY <1>1, <2>4
    <3> HIDE DEF n, c
    <3> QED BY <2>1, <2>2, <2>4, <3>1
  <2> QED BY <2>3, <2>4
<1>5. Counts(c, list, class)
  <2> HIDE DEF c
  <2> QED BY <1>3, <1>4 DEF Counts
<1> HIDE DEF c
<1>6. \A k \in 0 .. n : k \in {m \in 0 .. n : Placed(m)}
  <2> DEFINE S == {m \in 0 .. n : Placed(m)}
  <2>1. 0 \in S
    BY <1>3
  <2>2. ASSUME NEW k \in 0 .. n, k \in S, k < n PROVE k + 1 \in S
    <3>1. k + 1 \in 1 .. n /\ (k + 1) - 1 = k /\ k + 1 \in 0 .. n
      BY <2>2, <1>2
    <3>2. Placed(k)
      BY <2>2
    <3>3. /\ F[k] \in Seq(T) /\ Len(F[k]) = c[k] /\ c[k] \in Nat /\ list[k + 1] \in T
          /\ list[k + 1].number \in class =>
               c[k + 1] = c[k] + 1 /\ F[k + 1] = Append(F[k], list[k + 1])
          /\ list[k + 1].number \notin class => c[k + 1] = c[k] /\ F[k + 1] = F[k]
      BY <3>1, <1>3, <1>4
    <3>4. \A j \in 0 .. k : c[j] \in Nat /\ c[j] <= c[k + 1]
      <4> SUFFICES ASSUME NEW j \in 0 .. k PROVE c[j] \in Nat /\ c[j] <= c[k + 1]
        OBVIOUS
      <4>1. j \in 0 .. n /\ c[j] \in Nat
        BY <3>1, <1>2, <1>3
      <4>2. c[j] <= c[k] /\ c[k] <= c[k + 1]
        BY <3>2, <3>3
      <4> QED BY <4>1, <4>2, <3>3
    <3>5. \A j \in 0 .. (k + 1) : c[j] <= c[k + 1]
      BY <3>1, <3>3, <3>4
    <3>6. ASSUME NEW j \in 1 .. (k + 1), list[j].number \in class
          PROVE  c[j] \in 1 .. c[k + 1] /\ F[k + 1][c[j]] = list[j]
      <4>1. CASE j = k + 1
        BY <4>1, <3>3, <3>6
      <4>2. CASE j # k + 1
        <5>1. j \in 1 .. k /\ c[j] \in 1 .. c[k] /\ F[k][c[j]] = list[j]
          BY <4>2, <3>2, <3>6
        <5> QED BY <5>1, <3>3
      <4> QED BY <4>1, <4>2
    <3>7. ASSUME NEW i \in 1 .. c[k + 1]
          PROVE  \E j \in 1 .. (k + 1) : list[j].number \in class /\ c[j] = i
      <4>1. CASE i \in 1 .. c[k]
        <5>1. PICK j \in 1 .. k : list[j].number \in class /\ c[j] = i
          BY <4>1, <3>2
        <5> QED BY <5>1
      <4>2. CASE i \notin 1 .. c[k]
        <5>1. list[k + 1].number \in class /\ i = c[k + 1]
          BY <4>2, <3>3
        <5> QED BY <5>1, <3>1
      <4> QED BY <4>1, <4>2
    <3> QED BY <3>1, <3>5, <3>6, <3>7
  <2> HIDE DEF S, n
  <2>3. \A k \in 0 .. n : k \in S
    BY <1>2, <2>1, <2>2, Upward
  <2> QED BY <2>3 DEF S
<1>7. \A k \in 0 .. n : Placed(k)
  BY <1>6
<1>8. \A j, k \in 0 .. n : j <= k => c[j] <= c[k]
  BY <1>7
<1>9. /\ OptionsOf(list, class) \in Seq(T)
      /\ Len(OptionsOf(list, class)) = c[n]
  BY <1>1, <1>2, <1>3
<1>10. Placed(n)
  BY <1>2, <1>7
<1>11. \A k \in 1 .. n :
          list[k].number \in class =>
            c[k] \in 1 .. c[n] /\ OptionsOf(list, class)[c[k]] = list[k]
  BY <1>1, <1>10, Zenon
<1>12. \A i \in 1 .. c[n] : \E k \in 1 .. n : list[k].number \in class /\ c[k] = i
  BY <1>10, Zenon
<1>13. Places(T, list, class, c)
  BY <1>5, <1>8, <1>9, <1>11, <1>12, Zenon DEF Places
<1> QED BY <1>13, Zenon DEF HasPlaces

\* What FlattenSeq has after the first k sequences.
LEMMA FlattenPrefixes ==
  ASSUME NEW T, NEW seqs \in Seq(Seq(T))
  PROVE  \E F \in [0 .. Len(seqs) -> Seq(T)] :
           /\ F[0] = <<>> /\ FlattenSeq(seqs) = F[Len(seqs)]
           /\ \A k \in 1 .. Len(seqs) : F[k] = F[k - 1] \o seqs[k]
<1> DEFINE n == Len(seqs)
           Op == [k \in 1 .. n |-> [done \in Seq(T) |-> done \o seqs[k]]]
<1>1. n \in Nat /\ \A k \in 1 .. n : seqs[k] \in Seq(T)
  OBVIOUS
<1>2. Op \in [1 .. n -> [Seq(T) -> Seq(T)]]
  BY <1>1
<1>3. PICK F \in [0 .. n -> Seq(T)] : IsIterates(F, n, <<>>, Op)
  <2>1. <<>> \in Seq(T)
    OBVIOUS
  <2> HIDE DEF n, Op
  <2> QED BY <1>1, <1>2, <2>1, IteratesExist
<1>4. ASSUME NEW k \in 1 .. n PROVE F[k] = F[k - 1] \o seqs[k]
  <2>1. k - 1 \in 0 .. n
    BY <1>1
  <2>2. F[k - 1] \in Seq(T)
    BY <2>1
  <2> QED BY <1>3, <2>2 DEF IsIterates
<1>5. F[0] = <<>>
  BY <1>3 DEF IsIterates
<1> HIDE DEF Op
<1>6. FlattenSeq(seqs) = F[n]
  <2>1. CASE n = 0
    <3>1. seqs = <<>>
      BY <2>1
    <3> QED BY <3>1, <2>1, <1>5 DEF FlattenSeq
  <2>2. CASE n # 0
    <3> DEFINE flatten[i \in 1 .. n] ==
                 IF i = 1 THEN seqs[i] ELSE flatten[i - 1] \o seqs[i]
               G == [i \in 1 .. n |-> F[i]]
    <3>1. G = [i \in 1 .. n |-> IF i = 1 THEN seqs[i] ELSE G[i - 1] \o seqs[i]]
      <4> SUFFICES ASSUME NEW i \in 1 .. n
                   PROVE  G[i] = IF i = 1 THEN seqs[i] ELSE G[i - 1] \o seqs[i]
        OBVIOUS
      <4>1. G[i] = F[i - 1] \o seqs[i] /\ seqs[i] \in Seq(T)
        BY <1>1, <1>4
      <4>2. CASE i = 1
        <5>1. F[i - 1] = <<>>
          BY <4>2, <1>5
        <5> QED BY <4>1, <4>2, <5>1
      <4>3. CASE i # 1
        <5>1. i - 1 \in 1 .. n
          BY <4>3, <1>1
        <5>2. G[i - 1] = F[i - 1]
          BY <5>1
        <5> QED BY <4>1, <4>3, <5>2
      <4> QED BY <4>2, <4>3
    <3>2. flatten = [i \in 1 .. n |-> IF i = 1 THEN seqs[i] ELSE flatten[i - 1] \o seqs[i]]
      <4> HIDE DEF G, n
      <4> QED BY <3>1
    <3>3. FlattenSeq(seqs) = flatten[n]
      BY <2>2 DEF FlattenSeq
    <3> HIDE DEF flatten
    <3>4. \A i \in 0 .. n : i \in {j \in 0 .. n : j >= 1 => flatten[j] = F[j]}
      <4> DEFINE S == {j \in 0 .. n : j >= 1 => flatten[j] = F[j]}
      <4>1. 0 \in S
        BY <1>1
      <4>2. ASSUME NEW k \in 0 .. n, k \in S, k < n PROVE k + 1 \in S
        <5>1. k + 1 \in 1 .. n /\ (k + 1) - 1 = k /\ k + 1 \in 0 .. n
          BY <4>2, <1>1
        <5>2. flatten[k + 1] = IF k + 1 = 1 THEN seqs[k + 1] ELSE flatten[k] \o seqs[k + 1]
          <6> HIDE DEF n, S
          <6> QED BY <5>1, <3>2
        <5>3. F[k + 1] = F[k] \o seqs[k + 1] /\ seqs[k + 1] \in Seq(T)
          BY <5>1, <1>1, <1>4
        <5>4. CASE k = 0
          BY <5>1, <5>2, <5>3, <5>4, <1>5
        <5>5. CASE k # 0
          <6>1. k >= 1 /\ flatten[k] = F[k]
            BY <5>5, <4>2
          <6>2. flatten[k + 1] = F[k + 1]
            BY <5>2, <5>3, <6>1, SMTT(20)
          <6> QED BY <5>1, <6>2
        <5> QED BY <5>4, <5>5
      <4> HIDE DEF S, n
      <4>3. \A i \in 0 .. n : i \in S
        BY <1>1, <4>1, <4>2, Upward
      <4> QED BY <4>3 DEF S
    <3> QED BY <2>2, <3>3, <3>4, <1>1
  <2> QED BY <2>1, <2>2
<1> QED BY <1>3, <1>4, <1>5, <1>6

-----------------------------------------------------------------------------
(* Options that all encodings agree on                                     *)

\* Arithmetic that the prover does on numbers but not on lengths.
LEMMA LengthSum ==
  ASSUME NEW a \in Nat, NEW b \in Nat, NEW c, NEW d, c = a + d, d = 1 + b
  PROVE  c = a + 1 + b
OBVIOUS

LEMMA LengthGrows ==
  ASSUME NEW a \in Nat, NEW b \in Nat, NEW c, c = a + 1 + b
  PROVE  a <= c /\ \A j \in 1 .. (1 + b) : a + j \in 1 .. c
OBVIOUS

\* What a concatenation has.
LEMMA ConcatFacts ==
  ASSUME NEW T, NEW h \in Seq(T), NEW v \in Seq(T)
  PROVE  /\ h \o v \in Seq(T) /\ Len(h \o v) = Len(h) + Len(v)
         /\ \A i \in 1 .. Len(h) : (h \o v)[i] = h[i]
         /\ \A j \in 1 .. Len(v) : (h \o v)[Len(h) + j] = v[j]
<1>1. h \o v \in Seq(T) /\ Len(h \o v) = Len(h) + Len(v)
  OBVIOUS
<1>2. \A i \in 1 .. Len(h) : (h \o v)[i] = h[i]
  OBVIOUS
<1>3. \A j \in 1 .. Len(v) : (h \o v)[Len(h) + j] = v[j]
  OBVIOUS
<1> QED BY <1>1, <1>2, <1>3

\* One element and a sequence.
LEMMA ConsFacts ==
  ASSUME NEW T, NEW x \in T, NEW v \in Seq(T)
  PROVE  /\ <<x>> \o v \in Seq(T) /\ Len(<<x>> \o v) = 1 + Len(v)
         /\ (<<x>> \o v)[1] = x
         /\ \A j \in 1 .. Len(v) : (<<x>> \o v)[1 + j] = v[j]
OBVIOUS

\* The fields of a short option.
LEMMA ShortOptionFacts ==
  ASSUME NEW o \in ShortOptions
  PROVE  /\ o.delta \in 0 .. 12 /\ o.number \in 0 .. 255
         /\ o.value \in Seq(0 .. 254) /\ Len(o.value) \in Nat /\ Len(o.value) <= 12
         /\ o = [delta |-> o.delta, number |-> o.number, value |-> o.value]
         /\ 16 * o.delta + Len(o.value) \in 0 .. 254
<1>1. /\ o.delta \in 0 .. 12 /\ o.number \in 0 .. 255 /\ o.value \in ShortValues
      /\ o = [delta |-> o.delta, number |-> o.number, value |-> o.value]
  BY DEF ShortOptions
<1>2. o.value \in Seq(0 .. 254) /\ Len(o.value) <= 12
  BY <1>1 DEF ShortValues
<1>3. Len(o.value) \in Nat
  BY <1>2
<1>4. ASSUME NEW d \in 0 .. 12, NEW l \in Nat, l <= 12 PROVE 16 * d + l \in 0 .. 254
  BY <1>4
<1> QED BY <1>1, <1>2, <1>3, <1>4

\* One byte and the value.
LEMMA ShortEncoding ==
  ASSUME NEW o \in ShortOptions
  PROVE  /\ EncodeOption(o) \in Seq(0 .. 254)
         /\ Len(EncodeOption(o)) = 1 + Len(o.value)
         /\ EncodeOption(o)[1] = 16 * o.delta + Len(o.value)
         /\ \A j \in 1 .. Len(o.value) : EncodeOption(o)[1 + j] = o.value[j]
<1>1. ASSUME NEW n \in Nat, n <= 12 PROVE Nibble(n) = n /\ Extension(n) = <<>>
  <2>1. Nibble(n) = n /\ n # 13 /\ n # 14
    BY <1>1 DEF Nibble
  <2> QED BY <2>1 DEF Extension
<1>2. /\ Nibble(o.delta) = o.delta /\ Nibble(Len(o.value)) = Len(o.value)
      /\ Extension(o.delta) = <<>> /\ Extension(Len(o.value)) = <<>>
  <2>1. o.delta \in Nat /\ o.delta <= 12 /\ Len(o.value) \in Nat /\ Len(o.value) <= 12
    BY ShortOptionFacts
  <2> QED BY <1>1, <2>1
<1>3. EncodeOption(o) = ((<<16 * o.delta + Len(o.value)>> \o <<>>) \o <<>>) \o o.value
  BY <1>2 DEF EncodeOption
<1>4. PICK x : x = 16 * o.delta + Len(o.value)
  OBVIOUS
<1>5. (<<x>> \o <<>>) \o <<>> = <<x>>
  OBVIOUS
<1>6. EncodeOption(o) = <<x>> \o o.value
  BY <1>3, <1>4, <1>5
<1>7. x \in 0 .. 254 /\ o.value \in Seq(0 .. 254)
  BY <1>4, ShortOptionFacts
<1>8. /\ <<x>> \o o.value \in Seq(0 .. 254) /\ Len(<<x>> \o o.value) = 1 + Len(o.value)
      /\ (<<x>> \o o.value)[1] = x
      /\ \A j \in 1 .. Len(o.value) : (<<x>> \o o.value)[1 + j] = o.value[j]
  BY <1>7, ConsFacts
<1> QED BY <1>4, <1>6, <1>8

\* Where the options of a list start in the bytes: option k at off[k - 1].
Laid(bytes, first, list, off) ==
  /\ off \in [0 .. Len(list) -> Nat]
  /\ off[0] = first
  /\ off[Len(list)] <= Len(bytes) + 1
  /\ \A k \in 1 .. Len(list) :
       /\ off[k] = off[k - 1] + 1 + Len(list[k].value)
       /\ bytes[off[k - 1]] = 16 * list[k].delta + Len(list[k].value)
       /\ \A j \in 1 .. Len(list[k].value) : bytes[off[k - 1] + j] = list[k].value[j]

\* What options_into_byte_string has after the first k options.
LEMMA WrittenPrefixes ==
  ASSUME NEW list \in Seq(ShortOptions)
  PROVE  \E F \in [0 .. Len(list) -> Seq(0 .. 254)] :
           /\ F[0] = <<>> /\ options_into_byte_string(list) = F[Len(list)]
           /\ \A k \in 1 .. Len(list) : F[k] = F[k - 1] \o EncodeOption(list[k])
<1> DEFINE seqs == [k \in DOMAIN list |-> EncodeOption(list[k])]
<1>1. DOMAIN list = 1 .. Len(list) /\ Len(list) \in Nat
      /\ \A k \in 1 .. Len(list) : list[k] \in ShortOptions
  OBVIOUS
<1>2. \A k \in 1 .. Len(list) : EncodeOption(list[k]) \in Seq(0 .. 254)
  BY <1>1, ShortEncoding
<1>3. seqs \in Seq(Seq(0 .. 254)) /\ Len(seqs) = Len(list)
  BY <1>1, <1>2
<1>4. PICK F \in [0 .. Len(seqs) -> Seq(0 .. 254)] :
           /\ F[0] = <<>> /\ FlattenSeq(seqs) = F[Len(seqs)]
           /\ \A k \in 1 .. Len(seqs) : F[k] = F[k - 1] \o seqs[k]
  <2> HIDE DEF seqs
  <2> QED BY <1>3, FlattenPrefixes, ZenonT(40)
<1>5. \A k \in 1 .. Len(list) : seqs[k] = EncodeOption(list[k])
  BY <1>1
<1> HIDE DEF seqs
<1> QED BY <1>3, <1>4, <1>5 DEF options_into_byte_string, seqs

\* A short list in the middle of the bytes is laid out there.
LaidOut(bytes, first, list, stop) ==
  \E off : Laid(bytes, first, list, off) /\ off[Len(list)] = stop

LEMMA WrittenLaid ==
  ASSUME NEW list \in Seq(ShortOptions),
         NEW head \in Seq(0 .. 255), NEW tail \in Seq(0 .. 255)
  PROVE  /\ options_into_byte_string(list) \in Seq(0 .. 254)
         /\ head \o options_into_byte_string(list) \o tail \in Seq(0 .. 255)
         /\ LaidOut(head \o options_into_byte_string(list) \o tail, Len(head) + 1, list,
                    Len(head) + 1 + Len(options_into_byte_string(list)))
<1> DEFINE n == Len(list)
           B == options_into_byte_string(list)
           bytes == head \o B \o tail
<1>1. PICK F \in [0 .. n -> Seq(0 .. 254)] :
           /\ F[0] = <<>> /\ B = F[n]
           /\ \A k \in 1 .. n : F[k] = F[k - 1] \o EncodeOption(list[k])
  BY WrittenPrefixes
<1> HIDE DEF B
<1>2. n \in Nat /\ \A k \in 1 .. n : list[k] \in ShortOptions
  OBVIOUS
<1>3. ASSUME NEW k \in 1 .. n
      PROVE  /\ k - 1 \in 0 .. n /\ k \in 0 .. n
             /\ F[k - 1] \in Seq(0 .. 254) /\ EncodeOption(list[k]) \in Seq(0 .. 254)
             /\ F[k] = F[k - 1] \o EncodeOption(list[k])
             /\ Len(F[k]) = Len(F[k - 1]) + 1 + Len(list[k].value)
             /\ \A i \in 1 .. Len(F[k - 1]) : F[k][i] = F[k - 1][i]
             /\ \A j \in 1 .. Len(EncodeOption(list[k])) :
                  F[k][Len(F[k - 1]) + j] = EncodeOption(list[k])[j]
  <2>1. k - 1 \in 0 .. n /\ k \in 0 .. n /\ list[k] \in ShortOptions
    BY <1>2
  <2>2. F[k - 1] \in Seq(0 .. 254) /\ F[k] = F[k - 1] \o EncodeOption(list[k])
    BY <1>1, <2>1
  <2>3. /\ EncodeOption(list[k]) \in Seq(0 .. 254)
        /\ Len(EncodeOption(list[k])) = 1 + Len(list[k].value)
        /\ Len(list[k].value) \in Nat
    BY <2>1, ShortEncoding, ShortOptionFacts
  <2>4. PICK f, e : f = F[k - 1] /\ e = EncodeOption(list[k])
    OBVIOUS
  <2>5. f \in Seq(0 .. 254) /\ e \in Seq(0 .. 254) /\ F[k] = f \o e
    BY <2>2, <2>3, <2>4
  <2>6. /\ Len(F[k]) = Len(f) + Len(e)
        /\ \A i \in 1 .. Len(f) : F[k][i] = f[i]
        /\ \A j \in 1 .. Len(e) : F[k][Len(f) + j] = e[j]
    BY <2>5, ConcatFacts
  <2>7. Len(F[k]) = Len(F[k - 1]) + 1 + Len(list[k].value)
    <3>1. Len(f) \in Nat /\ Len(list[k].value) \in Nat
      BY <2>3, <2>5
    <3>2. Len(F[k]) = Len(f) + Len(e) /\ Len(e) = 1 + Len(list[k].value)
      BY <2>3, <2>4, <2>6
    <3>3. Len(f) = Len(F[k - 1])
      BY <2>4
    <3>4. Len(F[k]) \in Nat /\ Len(e) \in Nat
      BY <1>1, <2>1, <2>3, <2>4
    <3>5. Len(F[k]) = Len(f) + 1 + Len(list[k].value)
      BY <3>1, <3>2, LengthSum, Zenon
    <3> QED BY <3>3, <3>5, Zenon
  <2> QED BY <2>1, <2>2, <2>3, <2>4, <2>6, <2>7
<1>4. \A k \in 0 .. n : F[k] \in Seq(0 .. 254) /\ Len(F[k]) \in Nat
  <2> SUFFICES ASSUME NEW k \in 0 .. n PROVE F[k] \in Seq(0 .. 254) /\ Len(F[k]) \in Nat
    OBVIOUS
  <2>1. F[k] \in Seq(0 .. 254)
    BY <1>1
  <2> QED BY <2>1
<1> DEFINE Kept(m) == \A k \in 0 .. m : /\ Len(F[k]) <= Len(F[m])
                                        /\ \A i \in 1 .. Len(F[k]) : F[m][i] = F[k][i]
           S == {m \in 0 .. n : Kept(m)}
<1>5. \A m \in 0 .. n : m \in S
  <2>1. 0 \in S
    BY <1>2, <1>4
  <2>2. ASSUME NEW m \in 0 .. n, m \in S, m < n PROVE m + 1 \in S
    <3>1. m + 1 \in 1 .. n /\ (m + 1) - 1 = m /\ m + 1 \in 0 .. n
      BY <2>2, <1>2
    <3>2. /\ Len(F[m]) <= Len(F[m + 1])
          /\ \A i \in 1 .. Len(F[m]) : F[m + 1][i] = F[m][i]
      <4>1. /\ Len(F[m + 1]) = Len(F[m]) + 1 + Len(list[m + 1].value)
            /\ \A i \in 1 .. Len(F[m]) : F[m + 1][i] = F[m][i]
        <5>1. PICK k \in 1 .. n : k = m + 1 /\ k - 1 = m
          BY <3>1
        <5>2. /\ Len(F[k]) = Len(F[k - 1]) + 1 + Len(list[k].value)
              /\ \A i \in 1 .. Len(F[k - 1]) : F[k][i] = F[k - 1][i]
          BY <1>3, Zenon
        <5> QED BY <5>1, <5>2, Zenon
      <4>2. Len(F[m]) \in Nat /\ Len(list[m + 1].value) \in Nat
        BY <3>1, <1>2, <1>4, ShortOptionFacts
      <4>3. Len(F[m]) <= Len(F[m + 1])
        <5>1. Len(F[m + 1]) = Len(F[m]) + 1 + Len(list[m + 1].value)
          BY <4>1
        <5>2. Len(F[m + 1]) \in Nat
          BY <3>1, <1>4
        <5> QED BY <5>1, <5>2, <4>2, LengthGrows, Zenon
      <4> QED BY <4>1, <4>3
    <3>3. ASSUME NEW k \in 0 .. (m + 1)
          PROVE  /\ Len(F[k]) <= Len(F[m + 1])
                 /\ \A i \in 1 .. Len(F[k]) : F[m + 1][i] = F[k][i]
      <4>1. CASE k = m + 1
        BY <4>1, <3>1, <1>4
      <4>2. CASE k # m + 1
        <5>1. k \in 0 .. m /\ k \in 0 .. n
          BY <4>2, <3>1
        <5>2. Len(F[k]) <= Len(F[m]) /\ \A i \in 1 .. Len(F[k]) : F[m][i] = F[k][i]
          BY <5>1, <2>2
        <5>3. Len(F[k]) \in Nat /\ Len(F[m]) \in Nat /\ Len(F[m + 1]) \in Nat
          BY <5>1, <3>1, <1>4
        <5> QED BY <5>2, <5>3, <3>2
      <4> QED BY <4>1, <4>2
    <3> QED BY <3>1, <3>3
  <2> HIDE DEF S, n
  <2> QED BY <1>2, <2>1, <2>2, Upward
<1>6. ASSUME NEW k \in 0 .. n
      PROVE  Len(F[k]) <= Len(B) /\ \A i \in 1 .. Len(F[k]) : B[i] = F[k][i]
  <2>1. Kept(n)
    <3>1. n \in 0 .. n
      BY <1>2
    <3>2. n \in S
      BY <3>1, <1>5
    <3> HIDE DEF n
    <3> QED BY <3>2
  <2> QED BY <2>1, <1>1
<1>7. /\ B \in Seq(0 .. 254) /\ B \in Seq(0 .. 255) /\ bytes \in Seq(0 .. 255)
      /\ Len(bytes) = Len(head) + Len(B) + Len(tail)
      /\ \A i \in 1 .. Len(B) : bytes[Len(head) + i] = B[i]
  <2>1. B \in Seq(0 .. 254)
    <3>1. n \in 0 .. n
      BY <1>2
    <3> QED BY <1>1, <3>1
  <2>2. B \in Seq(0 .. 255)
    BY <2>1
  <2>3. PICK h : h = head \o B
    OBVIOUS
  <2>4. /\ h \in Seq(0 .. 255) /\ Len(h) = Len(head) + Len(B)
        /\ \A i \in 1 .. Len(B) : h[Len(head) + i] = B[i]
    BY <2>2, <2>3, ConcatFacts
  <2>5. /\ h \o tail \in Seq(0 .. 255) /\ Len(h \o tail) = Len(h) + Len(tail)
        /\ \A i \in 1 .. Len(h) : (h \o tail)[i] = h[i]
    BY <2>4, ConcatFacts, SMTT(30)
  <2>6. \A i \in 1 .. Len(B) : Len(head) + i \in 1 .. Len(h)
    BY <2>2, <2>4
  <2> QED BY <2>1, <2>2, <2>3, <2>4, <2>5, <2>6
<1> DEFINE off == [k \in 0 .. n |-> Len(head) + 1 + Len(F[k])]
<1>8. Laid(bytes, Len(head) + 1, list, off) /\ off[n] = Len(head) + 1 + Len(B)
  <2>1. Len(head) \in Nat /\ Len(B) \in Nat /\ Len(tail) \in Nat
    BY <1>7
  <2>2. off \in [0 .. n -> Nat]
    BY <2>1, <1>4
  <2>3. off[0] = Len(head) + 1 /\ off[n] = Len(head) + 1 + Len(B)
    <3>1. 0 \in 0 .. n /\ n \in 0 .. n /\ Len(F[0]) = 0
      BY <1>1, <1>2
    <3> HIDE DEF n
    <3> QED BY <3>1, <2>1, <1>1
  <2>4. off[n] <= Len(bytes) + 1
    BY <2>1, <2>3, <1>7
  <2>5. ASSUME NEW k \in 1 .. n
        PROVE  /\ off[k] = off[k - 1] + 1 + Len(list[k].value)
               /\ bytes[off[k - 1]] = 16 * list[k].delta + Len(list[k].value)
               /\ \A j \in 1 .. Len(list[k].value) : bytes[off[k - 1] + j] = list[k].value[j]
    <3>1. /\ k - 1 \in 0 .. n /\ k \in 0 .. n
          /\ off[k] = Len(head) + 1 + Len(F[k])
          /\ off[k - 1] = Len(head) + 1 + Len(F[k - 1])
      BY <1>3
    <3>2. list[k] \in ShortOptions /\ Len(list[k].value) \in Nat
          /\ Len(F[k - 1]) \in Nat /\ Len(F[k]) \in Nat
      BY <3>1, <1>2, <1>4, ShortOptionFacts
    <3>3. /\ Len(F[k]) = Len(F[k - 1]) + 1 + Len(list[k].value)
          /\ Len(EncodeOption(list[k])) = 1 + Len(list[k].value)
      BY <1>3, <3>2, ShortEncoding
    <3>4. ASSUME NEW j \in 1 .. (1 + Len(list[k].value))
          PROVE  bytes[Len(head) + (Len(F[k - 1]) + j)] = EncodeOption(list[k])[j]
      <4>1. Len(F[k - 1]) + j \in 1 .. Len(F[k])
        <5>1. Len(F[k]) = Len(F[k - 1]) + 1 + Len(list[k].value)
          BY <3>3
        <5>2. Len(F[k]) \in Nat /\ Len(F[k - 1]) \in Nat /\ Len(list[k].value) \in Nat
          BY <3>2
        <5> QED BY <5>1, <5>2, LengthGrows, Zenon
      <4>2. F[k][Len(F[k - 1]) + j] = EncodeOption(list[k])[j]
        BY <3>3, <1>3, ZenonT(40)
      <4>3. Len(F[k]) <= Len(B) /\ B[Len(F[k - 1]) + j] = F[k][Len(F[k - 1]) + j]
        BY <3>1, <4>1, <1>6
      <4>4. Len(F[k - 1]) + j \in 1 .. Len(B)
        BY <4>1, <4>3, <3>2, <2>1
      <4> QED BY <4>2, <4>3, <4>4, <1>7
    <3>5. bytes[off[k - 1]] = 16 * list[k].delta + Len(list[k].value)
      <4>1. 1 \in 1 .. (1 + Len(list[k].value))
        BY <3>2
      <4>2. off[k - 1] = Len(head) + (Len(F[k - 1]) + 1)
        BY <3>1, <3>2, <2>1
      <4> HIDE DEF bytes, off
      <4> QED BY <4>1, <4>2, <3>2, <3>4, ShortEncoding, SMTT(30)
    <3>6. ASSUME NEW j \in 1 .. Len(list[k].value)
          PROVE  bytes[off[k - 1] + j] = list[k].value[j]
      <4>1. 1 + j \in 1 .. (1 + Len(list[k].value))
        BY <3>2
      <4>2. off[k - 1] + j = Len(head) + (Len(F[k - 1]) + (1 + j))
        BY <3>1, <3>2, <2>1
      <4>3. EncodeOption(list[k])[1 + j] = list[k].value[j]
        BY <3>2, ShortEncoding
      <4> HIDE DEF bytes, off
      <4> QED BY <4>1, <4>2, <4>3, <3>4
    <3>7. off[k] = off[k - 1] + 1 + Len(list[k].value)
      <4>1. Len(F[k]) = Len(F[k - 1]) + 1 + Len(list[k].value)
        BY <3>3
      <4>2. Len(F[k - 1]) \in Nat /\ Len(list[k].value) \in Nat /\ Len(F[k]) \in Nat
        BY <3>2
      <4>3. off[k] = Len(head) + 1 + Len(F[k]) /\ off[k - 1] = Len(head) + 1 + Len(F[k - 1])
        BY <3>1
      <4> HIDE DEF off, bytes
      <4>4. Len(head) \in Nat
        BY <2>1
      <4>5. Len(head) + 1 + Len(F[k]) = (Len(head) + 1 + Len(F[k - 1])) + 1 + Len(list[k].value)
        <5>1. PICK a, b, c, d : a = Len(F[k - 1]) /\ b = Len(list[k].value)
                                /\ c = Len(F[k]) /\ d = Len(head)
          BY Zenon
        <5>2. a \in Nat /\ b \in Nat /\ d \in Nat /\ c = a + 1 + b
          BY <4>1, <4>2, <4>4, <5>1, Zenon
        <5>3. d + 1 + c = (d + 1 + a) + 1 + b
          BY <5>2
        <5> QED BY <5>1, <5>3, Zenon
      <4> QED BY <4>3, <4>5, Zenon
    <3> QED BY <3>5, <3>6, <3>7
  <2> HIDE DEF bytes, off
  <2> QED BY <2>2, <2>3, <2>4, <2>5 DEF Laid
<1> HIDE DEF off
<1> QED BY <1>7, <1>8 DEF B, LaidOut

-----------------------------------------------------------------------------
(* Reading options                                                         *)

\* A function that is computed from a later place, Later[p], up to the end hi.
IsDownward(h, lo, hi, base, Later, Op) ==
  /\ h[hi] = base
  /\ \A p \in lo .. (hi - 1) : h[p] = Op[p][h[Later[p]]]

\* There is one.
LEMMA DownwardExists ==
  ASSUME NEW lo \in Nat, NEW hi \in Nat, lo <= hi, NEW D, NEW base \in D,
         NEW Later \in [lo .. (hi - 1) -> lo .. hi],
         \A p \in lo .. (hi - 1) : p < Later[p],
         NEW Op \in [lo .. (hi - 1) -> [D -> D]]
  PROVE  \E h \in [lo .. hi -> D] : IsDownward(h, lo, hi, base, Later, Op)
<1> DEFINE n == hi - lo
           Good(h, m) == IsDownward(h, hi - m, hi, base, Later, Op)
           S == {m \in 0 .. n : \E h \in [(hi - m) .. hi -> D] : Good(h, m)}
<1>1. n \in Nat
  OBVIOUS
<1>2. 0 \in S
  <2> DEFINE h == [p \in (hi - 0) .. hi |-> base]
  <2>1. h \in [(hi - 0) .. hi -> D] /\ h[hi] = base /\ (hi - 0) .. (hi - 1) = {}
    OBVIOUS
  <2>2. 0 \in 0 .. n
    BY <1>1
  <2> HIDE DEF h
  <2> QED BY <2>1, <2>2 DEF IsDownward
<1>3. ASSUME NEW m \in 0 .. n, m \in S, m < n PROVE m + 1 \in S
  <2>1. PICK g \in [(hi - m) .. hi -> D] : Good(g, m)
    BY <1>3
  <2>2. PICK q \in lo .. (hi - 1) : q = hi - (m + 1) /\ q + 1 = hi - m
    BY <1>3
  <2> DEFINE h == [p \in q .. hi |-> IF p = q THEN Op[q][g[Later[q]]] ELSE g[p]]
  <2>3. /\ Later[q] \in (hi - m) .. hi
        /\ \A p \in q .. hi : p # q => p \in (hi - m) .. hi
        /\ \A p \in (hi - m) .. hi : p \in q .. hi /\ p # q
        /\ \A p \in (hi - m) .. (hi - 1) : /\ p \in lo .. (hi - 1)
                                           /\ Later[p] \in (hi - m) .. hi
    BY <1>3, <2>2
  <2>4. h \in [q .. hi -> D]
    <3> SUFFICES ASSUME NEW p \in q .. hi
                 PROVE  (IF p = q THEN Op[q][g[Later[q]]] ELSE g[p]) \in D
      OBVIOUS
    <3>1. g[Later[q]] \in D
      BY <2>3
    <3>2. Op[q][g[Later[q]]] \in D
      BY <3>1
    <3> QED BY <2>3, <3>2
  <2>5. h[q] = Op[q][g[Later[q]]] /\ \A p \in (hi - m) .. hi : h[p] = g[p]
    <3>1. q \in q .. hi
      BY <2>2
    <3> QED BY <2>3, <3>1
  <2> HIDE DEF h
  <2>6. h[hi] = base
    <3>1. hi \in (hi - m) .. hi
      BY <1>3
    <3> QED BY <2>1, <2>5, <3>1 DEF IsDownward
  <2>7. ASSUME NEW p \in q .. (hi - 1) PROVE h[p] = Op[p][h[Later[p]]]
    <3>1. CASE p = q
      BY <3>1, <2>3, <2>5
    <3>2. CASE p # q
      <4>1. p \in (hi - m) .. (hi - 1) /\ p \in (hi - m) .. hi
        BY <3>2, <2>2, <1>3
      <4>2. g[p] = Op[p][g[Later[p]]]
        BY <4>1, <2>1 DEF IsDownward
      <4> QED BY <4>1, <4>2, <2>3, <2>5
    <3> QED BY <3>1, <3>2
  <2>8. IsDownward(h, q, hi, base, Later, Op)
    BY <2>6, <2>7 DEF IsDownward
  <2>9. m + 1 \in 0 .. n
    BY <1>3
  <2> QED BY <2>2, <2>4, <2>8, <2>9
<1>4. n \in S
  <2>1. n \in 0 .. n
    BY <1>1
  <2> HIDE DEF S, n
  <2> QED BY <1>1, <1>2, <1>3, <2>1, Upward
<1>5. hi - n = lo
  OBVIOUS
<1> QED BY <1>4, <1>5

\* The parts of the option that ReadOptions finds at p; s is the stray byte.
FieldWidth(nibble) == IF nibble < 13 THEN 0 ELSE nibble - 12
FieldValue(bytes, s, nibble, p, shift) ==
  IF nibble < 13 THEN nibble
  ELSE U8(At(bytes, s, p + FieldWidth(nibble) - 1) + shift)
DeltaNibble(bytes, s, p) == At(bytes, s, p) \div 16
LenNibble(bytes, s, p) == At(bytes, s, p) % 16
ValueLength(bytes, s, p, shift) ==
  FieldValue(bytes, s, LenNibble(bytes, s, p),
             p + 1 + FieldWidth(DeltaNibble(bytes, s, p)), shift)
ValueStart(bytes, s, p) ==
  p + 1 + FieldWidth(DeltaNibble(bytes, s, p)) + FieldWidth(LenNibble(bytes, s, p))
OptionRead(bytes, s, p, shift) ==
  [delta |-> FieldValue(bytes, s, DeltaNibble(bytes, s, p), p + 1, -13),
   number |-> 0,
   value |-> [k \in 1 .. ValueLength(bytes, s, p, shift) |->
                At(bytes, s, ValueStart(bytes, s, p) + k - 1)]]
PlaceAfter(bytes, s, p, last, shift) ==
  IF ValueStart(bytes, s, p) + ValueLength(bytes, s, p, shift) > last + 1
  THEN last + 1
  ELSE ValueStart(bytes, s, p) + ValueLength(bytes, s, p, shift)

NothingRead(err) == [err |-> err, options |-> <<>>]
ReadFrom(bytes, s, p, shift, rest) ==
  CASE DeltaNibble(bytes, s, p) = 15 -> NothingRead("oscore_inpkt_invalid_option_delta")
    [] DeltaNibble(bytes, s, p) # 15 /\ LenNibble(bytes, s, p) = 15
         -> NothingRead("oscore_inpkt_invalid_optionlen")
    [] OTHER -> [rest EXCEPT !.options = <<OptionRead(bytes, s, p, shift)>> \o @]

IsBytes(bytes) == bytes \in Seq(0 .. 255)
RawOptions == [delta : 0 .. 255, number : {0}, value : Seq(0 .. 255)]
ReadErrors == {"ok", "oscore_inpkt_invalid_option_delta", "oscore_inpkt_invalid_optionlen"}
ReadResults == [err : ReadErrors, options : Seq(RawOptions)]

\* What is read at a place is an option, and the next place is a later one.
LEMMA OptionReadType ==
  ASSUME NEW bytes, IsBytes(bytes), NEW s \in 0 .. 255, NEW p \in Nat, NEW shift \in Int
  PROVE  /\ DeltaNibble(bytes, s, p) \in 0 .. 15 /\ LenNibble(bytes, s, p) \in 0 .. 15
         /\ ValueLength(bytes, s, p, shift) \in Nat
         /\ ValueStart(bytes, s, p) \in Nat /\ ValueStart(bytes, s, p) > p
         /\ OptionRead(bytes, s, p, shift) \in RawOptions
<1>1. ASSUME NEW q \in Int PROVE At(bytes, s, q) \in 0 .. 255
  <2>1. ASSUME NEW T, bytes \in Seq(T), q \in DOMAIN bytes PROVE bytes[q] \in T
    BY <2>1
  <2>2. bytes \in Seq(0 .. 255)
    BY DEF IsBytes
  <2>3. q \in DOMAIN bytes => bytes[q] \in 0 .. 255
    BY <2>1, <2>2, Zenon
  <2> QED BY <2>3 DEF At
<1>2. ASSUME NEW d \in 0 .. 15 PROVE FieldWidth(d) \in 0 .. 3
  BY DEF FieldWidth
<1>3. ASSUME NEW d \in 0 .. 15, NEW q \in Int, NEW h \in Int
      PROVE  FieldValue(bytes, s, d, q, h) \in 0 .. 255
  <2>1. At(bytes, s, q + FieldWidth(d) - 1) \in 0 .. 255
    <3>1. q + FieldWidth(d) - 1 \in Int
      BY <1>2
    <3> QED BY <1>1, <3>1
  <2>2. PICK a : a = At(bytes, s, q + FieldWidth(d) - 1)
    OBVIOUS
  <2>3. a + h \in Int /\ (a + h) % 256 \in 0 .. 255
    <3>1. a \in Int /\ a + h \in Int
      BY <2>1, <2>2
    <3>2. ASSUME NEW x \in Int PROVE x % 256 \in 0 .. 255
      OBVIOUS
    <3> QED BY <3>1, <3>2
  <2>4. FieldValue(bytes, s, d, q, h) = IF d < 13 THEN d ELSE (a + h) % 256
    BY <2>2 DEF FieldValue, U8
  <2> QED BY <2>3, <2>4
<1>4. DeltaNibble(bytes, s, p) \in 0 .. 15 /\ LenNibble(bytes, s, p) \in 0 .. 15
  <2>1. At(bytes, s, p) \in 0 .. 255
    BY <1>1
  <2> QED BY <2>1 DEF DeltaNibble, LenNibble
<1>5. ValueLength(bytes, s, p, shift) \in 0 .. 255
  <2>1. p + 1 + FieldWidth(DeltaNibble(bytes, s, p)) \in Int
    BY <1>2, <1>4
  <2> QED BY <1>3, <1>4, <2>1 DEF ValueLength
<1>6. ValueStart(bytes, s, p) \in Nat /\ ValueStart(bytes, s, p) > p
  <2>1. FieldWidth(DeltaNibble(bytes, s, p)) \in 0 .. 3 /\ FieldWidth(LenNibble(bytes, s, p)) \in 0 .. 3
    BY <1>2, <1>4
  <2> QED BY <2>1 DEF ValueStart
<1>7. FieldValue(bytes, s, DeltaNibble(bytes, s, p), p + 1, -13) \in 0 .. 255
  <2>1. -13 \in Int /\ p + 1 \in Int
    OBVIOUS
  <2> QED BY <1>3, <1>4, <2>1
<1>8. [k \in 1 .. ValueLength(bytes, s, p, shift) |->
                At(bytes, s, ValueStart(bytes, s, p) + k - 1)] \in Seq(0 .. 255)
  <2>1. PICK l, v : l = ValueLength(bytes, s, p, shift) /\ v = ValueStart(bytes, s, p)
    OBVIOUS
  <2>2. l \in Nat /\ v \in Nat
    BY <2>1, <1>5, <1>6
  <2>3. \A k \in 1 .. l : At(bytes, s, v + k - 1) \in 0 .. 255
    BY <2>2, <1>1
  <2>4. [k \in 1 .. l |-> At(bytes, s, v + k - 1)] \in Seq(0 .. 255)
    BY <2>2, <2>3
  <2> QED BY <2>1, <2>4
<1>9. OptionRead(bytes, s, p, shift) \in RawOptions
  BY <1>7, <1>8 DEF OptionRead, RawOptions
<1> QED BY <1>4, <1>5, <1>6, <1>9

\* So is what is read from there on.
LEMMA ReadFromType ==
  ASSUME NEW bytes, IsBytes(bytes), NEW s \in 0 .. 255, NEW p \in Nat,
         NEW shift \in Int, NEW rest \in ReadResults
  PROVE  ReadFrom(bytes, s, p, shift, rest) \in ReadResults
<1>1. OptionRead(bytes, s, p, shift) \in RawOptions
  BY OptionReadType
<1>2. ASSUME NEW e \in ReadErrors PROVE NothingRead(e) \in ReadResults
  BY DEF NothingRead, ReadResults
<1>3. [rest EXCEPT !.options = <<OptionRead(bytes, s, p, shift)>> \o @] \in ReadResults
  <2>1. rest.options \in Seq(RawOptions) /\ rest.err \in ReadErrors
    BY DEF ReadResults
  <2>2. <<OptionRead(bytes, s, p, shift)>> \o rest.options \in Seq(RawOptions)
    BY <1>1, <2>1, ConsFacts
  <2> QED BY <2>1, <2>2 DEF ReadResults
<1> QED BY <1>2, <1>3 DEF ReadFrom, ReadErrors

\* ReadOptions as a computation from each place to the end.
IsReading(from, bytes, s, shift, first, last) ==
  /\ from[last + 1] = NothingRead("ok")
  /\ \A p \in first .. last :
       from[p] = ReadFrom(bytes, s, p, shift, from[PlaceAfter(bytes, s, p, last, shift)])
  /\ ReadOptions(bytes, s, first, last, shift)
       = [from[first] EXCEPT !.options = Numbered(@)]

LEMMA ReadSteps ==
  ASSUME NEW bytes, IsBytes(bytes), NEW s \in 0 .. 255, NEW shift \in Int,
         NEW first \in Nat, NEW last \in Nat, first <= last + 1
  PROVE  \E from \in [first .. (last + 1) -> ReadResults] :
           IsReading(from, bytes, s, shift, first, last)
<1> DEFINE Later == [p \in first .. last |-> PlaceAfter(bytes, s, p, last, shift)]
           Op == [p \in first .. last |-> [rest \in ReadResults |->
                                             ReadFrom(bytes, s, p, shift, rest)]]
           from[p \in first .. (last + 1)] ==
             IF p > last THEN NothingRead("ok")
             ELSE ReadFrom(bytes, s, p, shift, from[PlaceAfter(bytes, s, p, last, shift)])
<1>1. ASSUME NEW p \in first .. last
      PROVE  /\ PlaceAfter(bytes, s, p, last, shift) \in first .. (last + 1)
             /\ p < PlaceAfter(bytes, s, p, last, shift)
  <2>1. /\ ValueStart(bytes, s, p) \in Nat /\ ValueStart(bytes, s, p) > p
        /\ ValueLength(bytes, s, p, shift) \in Nat
    <3>1. p \in Nat
      OBVIOUS
    <3> QED BY <3>1, OptionReadType
  <2> QED BY <2>1 DEF PlaceAfter
<1>2. ((last + 1) - 1) = last /\ last + 1 \in Nat
  OBVIOUS
<1>3. Later \in [first .. last -> first .. (last + 1)] /\ \A p \in first .. last : p < Later[p]
  BY <1>1
<1>4. Op \in [first .. last -> [ReadResults -> ReadResults]]
  <2>1. \A p \in first .. last : p \in Nat
    OBVIOUS
  <2> QED BY <2>1, ReadFromType
<1>5. NothingRead("ok") \in ReadResults
  BY DEF NothingRead, ReadResults, ReadErrors
<1>6. PICK h \in [first .. (last + 1) -> ReadResults] :
        IsDownward(h, first, last + 1, NothingRead("ok"), Later, Op)
  <2> HIDE DEF Later, Op
  <2>1. PICK hi : hi = last + 1
    OBVIOUS
  <2>2. hi \in Nat /\ hi - 1 = last /\ first <= hi
    BY <2>1
  <2>3. Later \in [first .. (hi - 1) -> first .. hi] /\ \A p \in first .. (hi - 1) : p < Later[p]
    BY <1>3, <2>1, <2>2
  <2>4. Op \in [first .. (hi - 1) -> [ReadResults -> ReadResults]]
    BY <1>4, <2>2
  <2>5. \E h \in [first .. hi -> ReadResults] :
          IsDownward(h, first, hi, NothingRead("ok"), Later, Op)
    BY <1>5, <2>2, <2>3, <2>4, DownwardExists
  <2> QED BY <2>1, <2>5
<1>7. h[last + 1] = NothingRead("ok")
  BY <1>6 DEF IsDownward
<1>8. ASSUME NEW p \in first .. last
      PROVE  h[p] = ReadFrom(bytes, s, p, shift, h[PlaceAfter(bytes, s, p, last, shift)])
  <2>1. h[p] = Op[p][h[Later[p]]]
    BY <1>2, <1>6 DEF IsDownward
  <2>2. Later[p] = PlaceAfter(bytes, s, p, last, shift) /\ h[Later[p]] \in ReadResults
    BY <1>1
  <2> QED BY <2>1, <2>2
<1>9. h = [p \in first .. (last + 1) |->
             IF p > last THEN NothingRead("ok")
             ELSE ReadFrom(bytes, s, p, shift, h[PlaceAfter(bytes, s, p, last, shift)])]
  <2> SUFFICES ASSUME NEW p \in first .. (last + 1)
               PROVE  h[p] = IF p > last THEN NothingRead("ok")
                             ELSE ReadFrom(bytes, s, p, shift, h[PlaceAfter(bytes, s, p, last, shift)])
    OBVIOUS
  <2>1. CASE p > last
    <3>1. p = last + 1
      BY <2>1
    <3> QED BY <2>1, <3>1, <1>7
  <2>2. CASE ~ (p > last)
    <3>1. p \in first .. last
      BY <2>2
    <3> QED BY <2>2, <3>1, <1>8
  <2> QED BY <2>1, <2>2
<1>10. from = [p \in first .. (last + 1) |->
                 IF p > last THEN NothingRead("ok")
                 ELSE ReadFrom(bytes, s, p, shift, from[PlaceAfter(bytes, s, p, last, shift)])]
  BY <1>9
<1>11. ReadOptions(bytes, s, first, last, shift)
         = [from[first] EXCEPT !.options = Numbered(@)]
  BY DEF ReadOptions, ReadFrom, NothingRead, PlaceAfter, OptionRead, ValueStart, ValueLength,
         LenNibble, DeltaNibble, FieldValue, FieldWidth
<1> HIDE DEF from
<1>12. from[last + 1] = NothingRead("ok")
  <2>1. last + 1 \in first .. (last + 1) /\ last + 1 > last
    OBVIOUS
  <2> QED BY <2>1, <1>10
<1>13. ASSUME NEW p \in first .. last
       PROVE  from[p] = ReadFrom(bytes, s, p, shift, from[PlaceAfter(bytes, s, p, last, shift)])
  <2>1. p \in first .. (last + 1) /\ ~ (p > last)
    OBVIOUS
  <2> QED BY <2>1, <1>10
<1>14. from \in [first .. (last + 1) -> ReadResults]
  <2> DEFINE n == last + 1 - first
             S == {m \in 0 .. n : \A p \in (last + 1 - m) .. (last + 1) : from[p] \in ReadResults}
  <2>1. n \in Nat /\ n \in 0 .. n
    OBVIOUS
  <2>2. 0 \in S
    BY <2>1, <1>5, <1>12
  <2>3. ASSUME NEW m \in 0 .. n, m \in S, m < n PROVE m + 1 \in S
    <3>1. ASSUME NEW p \in (last + 1 - (m + 1)) .. (last + 1) PROVE from[p] \in ReadResults
      <4>1. CASE p \in (last + 1 - m) .. (last + 1)
        BY <4>1, <2>3
      <4>2. CASE p \notin (last + 1 - m) .. (last + 1)
        <5>1. p = last - m /\ p \in first .. last /\ p \in Nat
          BY <4>2, <2>3
        <5>2. PlaceAfter(bytes, s, p, last, shift) \in (last + 1 - m) .. (last + 1)
          BY <5>1, <1>1
        <5>3. from[PlaceAfter(bytes, s, p, last, shift)] \in ReadResults
          BY <5>2, <2>3
        <5>4. PICK rest \in ReadResults : rest = from[PlaceAfter(bytes, s, p, last, shift)]
          BY <5>3, Zenon
        <5>5. ReadFrom(bytes, s, p, shift, rest) \in ReadResults
          BY <5>1, ReadFromType
        <5>6. from[p] = ReadFrom(bytes, s, p, shift, rest)
          BY <5>1, <5>4, <1>13, Zenon
        <5> QED BY <5>5, <5>6, Zenon
      <4> QED BY <4>1, <4>2
    <3>2. m + 1 \in 0 .. n
      BY <2>3
    <3> QED BY <3>1, <3>2
  <2>4. n \in S
    <3> HIDE DEF S, n
    <3> QED BY <2>1, <2>2, <2>3, Upward
  <2>5. last + 1 - n = first
    OBVIOUS
  <2>6. \A p \in first .. (last + 1) : from[p] \in ReadResults
    BY <2>4, <2>5
  <2> QED BY <2>6, <1>10
<1> QED BY <1>11, <1>12, <1>13, <1>14 DEF IsReading

\* What Numbered has after the first k options.
NumberAfter(done, o) ==
  [o EXCEPT !.number = U8((IF done = <<>> THEN 0 ELSE Last(done).number) + o.delta)]
AnyOptions == [delta : 0 .. 255, number : 0 .. 255, value : Seq(0 .. 255)]

LEMMA NumberAfterType ==
  ASSUME NEW done \in Seq(AnyOptions), NEW o \in AnyOptions
  PROVE  Append(done, NumberAfter(done, o)) \in Seq(AnyOptions)
<1> DEFINE before == IF done = <<>> THEN 0 ELSE Last(done).number
<1>1. o.delta \in 0 .. 255 /\ o.value \in Seq(0 .. 255)
  BY DEF AnyOptions
<1>2. before \in 0 .. 255
  <2>1. CASE done # <<>>
    <3>1. done[Len(done)] \in AnyOptions
      BY <2>1
    <3>2. done[Len(done)].number \in 0 .. 255
      BY <3>1 DEF AnyOptions
    <3> QED BY <2>1, <3>2 DEF Last
  <2> QED BY <2>1
<1> HIDE DEF before
<1>3. U8(before + o.delta) \in 0 .. 255
  <2>1. PICK b, d : b = before /\ d = o.delta
    OBVIOUS
  <2>2. b + d \in Int
    <3>1. b \in 0 .. 255 /\ d \in 0 .. 255
      BY <1>1, <1>2, <2>1
    <3> QED BY <3>1
  <2>3. ASSUME NEW x \in Int PROVE x % 256 \in 0 .. 255
    OBVIOUS
  <2> QED BY <2>1, <2>2, <2>3 DEF U8
<1>4. [o EXCEPT !.number = U8(before + o.delta)] \in AnyOptions
  BY <1>3 DEF AnyOptions
<1>5. NumberAfter(done, o) \in AnyOptions
  BY <1>4 DEF NumberAfter, before
<1> QED BY <1>5

LEMMA NumberedFold ==
  ASSUME NEW list \in Seq(AnyOptions)
  PROVE  \E F \in [0 .. Len(list) -> Seq(AnyOptions)] :
           /\ F[0] = <<>> /\ Numbered(list) = F[Len(list)]
           /\ \A k \in 1 .. Len(list) :
                F[k] = Append(F[k - 1], NumberAfter(F[k - 1], list[k]))
<1> DEFINE n == Len(list)
           T == AnyOptions
           body(done, o) == Append(done, NumberAfter(done, o))
           iter[s \in SUBSET (1 .. n)] ==
             IF s = {} THEN <<>> ELSE body(iter[s \ {Max(s)}], list[Max(s)])
           Op == [k \in 1 .. n |-> [done \in Seq(T) |-> body(done, list[k])]]
<1>1. n \in Nat /\ DOMAIN list = 1 .. n /\ \A k \in 1 .. n : list[k] \in T
  OBVIOUS
<1>2. Numbered(list) = iter[1 .. n]
  BY <1>1 DEF Numbered, NumberAfter, FoldLeft, MapThenFoldSet
<1> HIDE DEF T
<1>3. \A done \in Seq(T), k \in 1 .. n : body(done, list[k]) \in Seq(T)
  BY <1>1, NumberAfterType DEF T
<1>4. Op \in [1 .. n -> [Seq(T) -> Seq(T)]]
  <2> HIDE DEF n, body
  <2> QED BY <1>3
<1>5. PICK g \in [SUBSET (1 .. n) -> Seq(T)] : IsFold(g, n, <<>>, Op)
  <2>1. n \in Nat /\ <<>> \in Seq(T)
    BY <1>1
  <2> HIDE DEF Op, n
  <2> QED BY <1>4, <2>1, FoldExists
<1>6. ASSUME NEW s \in SUBSET (1 .. n)
      PROVE  g[s] = IF s = {} THEN <<>> ELSE body(g[s \ {Max(s)}], list[Max(s)])
  <2>1. s # {} => Max(s) \in 1 .. n
    <3> HIDE DEF n
    <3> QED BY <1>1, MaxFacts
  <2>2. g[s \ {Max(s)}] \in Seq(T)
    OBVIOUS
  <2> HIDE DEF body
  <2> QED BY <1>5, <2>1, <2>2 DEF IsFold
<1>7. g = [s \in SUBSET (1 .. n) |->
             IF s = {} THEN <<>> ELSE body(g[s \ {Max(s)}], list[Max(s)])]
  <2> HIDE DEF body, n
  <2> QED BY <1>6
<1>8. iter = [s \in SUBSET (1 .. n) |->
                IF s = {} THEN <<>> ELSE body(iter[s \ {Max(s)}], list[Max(s)])]
  <2> HIDE DEF body, n
  <2> QED BY <1>7
<1> HIDE DEF iter
<1>9. iter[{}] = <<>>
  <2>1. {} \in SUBSET (1 .. n)
    OBVIOUS
  <2> HIDE DEF body, n
  <2> QED BY <1>8, <2>1
<1>10. ASSUME NEW s \in SUBSET (1 .. n), s # {}, iter[s \ {Max(s)}] \in Seq(T)
       PROVE  iter[s] = Op[Max(s)][iter[s \ {Max(s)}]]
  <2>1. Max(s) \in 1 .. n
    <3>1. n \in Nat
      BY <1>1
    <3> HIDE DEF n
    <3> QED BY <1>10, <3>1, MaxFacts
  <2>2. iter[s] = body(iter[s \ {Max(s)}], list[Max(s)])
    <3> HIDE DEF body, n
    <3> QED BY <1>8, <1>10
  <2> HIDE DEF body, n
  <2> QED BY <1>10, <2>1, <2>2
<1>11. PICK F \in [0 .. n -> Seq(T)] : IsIterates(F, n, <<>>, Op) /\ F[n] = iter[1 .. n]
  <2>1. n \in Nat /\ <<>> \in Seq(T)
    BY <1>1
  <2>2. FoldsWithin(iter, n, Seq(T), <<>>, Op)
    <3> HIDE DEF Op, n
    <3> QED BY <1>9, <1>10 DEF FoldsWithin
  <2> HIDE DEF Op, n
  <2>3. PICK D, base, it, op, m : D = Seq(T) /\ base = <<>> /\ it = iter /\ op = Op /\ m = n
    BY Zenon
  <2>4. m \in Nat /\ base \in D /\ op \in [1 .. m -> [D -> D]] /\ FoldsWithin(it, m, D, base, op)
    BY <1>4, <2>1, <2>2, <2>3, Zenon
  <2>5. HasIterates(it, m, D, base, op)
    BY <2>4, FoldIterates, Zenon
  <2>6. \E F \in [0 .. m -> D] : IsIterates(F, m, base, op) /\ F[m] = it[1 .. m]
    BY <2>5, Zenon DEF HasIterates
  <2> QED BY <2>3, <2>6, Zenon
<1>12. F[0] = <<>> /\ \A k \in 1 .. n : F[k] = body(F[k - 1], list[k])
  <2> SUFFICES ASSUME NEW k \in 1 .. n PROVE F[0] = <<>> /\ F[k] = body(F[k - 1], list[k])
    BY <1>11 DEF IsIterates
  <2>1. F[k - 1] \in Seq(T)
    <3>1. k - 1 \in 0 .. n
      BY <1>1
    <3> QED BY <3>1
  <2> HIDE DEF body, n
  <2> QED BY <1>11, <2>1 DEF IsIterates
<1> QED BY <1>2, <1>11, <1>12 DEF T

\* A laid out list starts at first and ends within the bytes.
LEMMA LaidPlaces ==
  ASSUME NEW bytes, NEW first \in Nat, NEW list \in Seq(ShortOptions), NEW off,
         Laid(bytes, first, list, off)
  PROVE  \A k \in 0 .. Len(list) :
           /\ off[k] \in Nat /\ first <= off[k] /\ off[k] <= off[Len(list)]
           /\ k > 0 => off[k - 1] < off[k] /\ off[k - 1] \in Nat
<1> DEFINE n == Len(list)
           L(k) == Len(list[k].value)
<1>1. n \in Nat
  OBVIOUS
<1>2. \A k \in 1 .. n : L(k) \in Nat /\ off[k] = off[k - 1] + 1 + L(k)
  <2> SUFFICES ASSUME NEW k \in 1 .. n PROVE L(k) \in Nat /\ off[k] = off[k - 1] + 1 + L(k)
    OBVIOUS
  <2>1. list[k] \in ShortOptions
    OBVIOUS
  <2> QED BY <2>1, ShortOptionFacts DEF Laid
<1>3. off[0] = first /\ \A k \in 0 .. n : off[k] \in Nat
  BY DEF Laid
<1> HIDE DEF L, n
<1>4. ASSUME NEW k \in 1 .. n PROVE off[k - 1] < off[k] /\ off[k - 1] \in Nat
  <2>1. k - 1 \in 0 .. n
    BY <1>1
  <2>2. off[k - 1] \in Nat /\ L(k) \in Nat /\ off[k] = off[k - 1] + 1 + L(k)
    BY <1>2, <1>3, <2>1
  <2> QED BY <2>2
<1>5. \A m \in 0 .. n : m \in {j \in 0 .. n : \A i \in 0 .. j : off[i] <= off[j]}
  <2> DEFINE S == {j \in 0 .. n : \A i \in 0 .. j : off[i] <= off[j]}
  <2>1. 0 \in S
    BY <1>1, <1>3
  <2>2. ASSUME NEW k \in 0 .. n, k \in S, k < n PROVE k + 1 \in S
    <3>1. k + 1 \in 1 .. n /\ (k + 1) - 1 = k /\ k + 1 \in 0 .. n
      BY <2>2, <1>1
    <3>2. off[k] < off[k + 1] /\ off[k] \in Nat /\ off[k + 1] \in Nat
      BY <3>1, <1>3, <1>4
    <3>3. ASSUME NEW i \in 0 .. (k + 1) PROVE off[i] <= off[k + 1]
      <4>1. CASE i = k + 1
        BY <4>1, <3>2
      <4>2. CASE i # k + 1
        <5>1. i \in 0 .. k /\ i \in 0 .. n
          BY <4>2, <3>1, <1>1
        <5>2. off[i] <= off[k] /\ off[i] \in Nat
          BY <5>1, <2>2, <1>3
        <5> QED BY <5>2, <3>2
      <4> QED BY <4>1, <4>2
    <3> QED BY <3>1, <3>3
  <2>3. \A m \in 0 .. n : m \in S
    <3> HIDE DEF S
    <3> QED BY <1>1, <2>1, <2>2, Upward
  <2> QED BY <2>3
<1>6. ASSUME NEW k \in 0 .. n
      PROVE  off[k] \in Nat /\ first <= off[k] /\ off[k] <= off[n]
  <2>1. n \in 0 .. n /\ 0 \in 0 .. k
    BY <1>1
  <2> QED BY <1>3, <1>5, <2>1
<1>7. \A k \in 0 .. n : k > 0 => k \in 1 .. n
  BY <1>1
<1> QED BY <1>4, <1>6, <1>7 DEF n

\* An option as it is read, before it has a number.
Raw(o) == [delta |-> o.delta, number |-> 0, value |-> o.value]

\* What the byte of a short option says.
LEMMA ShortByte ==
  ASSUME NEW d \in 0 .. 12, NEW l \in Nat, l <= 12
  PROVE  /\ (16 * d + l) \div 16 = d /\ (16 * d + l) % 16 = l
         /\ d < 13 /\ l < 13 /\ l # 15 /\ d # 15
<1>1. 16 * d + l = 16 * d + l /\ d \in Int /\ l \in 0 .. 15
  OBVIOUS
<1>2. (16 * d + l) \div 16 = d
  OBVIOUS
<1>3. (16 * d + l) % 16 = l
  OBVIOUS
<1> QED BY <1>2, <1>3

\* The place of an option and of its value.
LEMMA OptionPlaces ==
  ASSUME NEW p \in Nat, NEW l \in Nat, NEW last \in Nat, NEW q,
         p > 0, q = p + 1 + l, q <= last + 1
  PROVE  /\ p \in 1 .. last /\ \A j \in 1 .. l : p + j \in 1 .. last
         /\ q = IF p + 1 + l > last + 1 THEN last + 1 ELSE p + 1 + l
OBVIOUS

\* One option of a laid out list is read.
OptionAt(bytes, o, p, q) ==
  /\ q = p + 1 + Len(o.value)
  /\ bytes[p] = 16 * o.delta + Len(o.value)
  /\ \A j \in 1 .. Len(o.value) : bytes[p + j] = o.value[j]
Added(rest, o) == [rest EXCEPT !.options = <<Raw(o)>> \o @]
ReadsOption(bytes, s, shift, last, o, p, q) ==
  /\ PlaceAfter(bytes, s, p, last, shift) = q
  /\ \A rest : ReadFrom(bytes, s, p, shift, rest) = Added(rest, o)

LEMMA OneOptionRead ==
  ASSUME NEW bytes, IsBytes(bytes), NEW s \in 0 .. 255, NEW shift \in Int,
         NEW p \in Nat, NEW last \in Nat, NEW o \in ShortOptions, NEW q \in Nat,
         p > 0, OptionAt(bytes, o, p, q), q <= last + 1, last <= Len(bytes)
  PROVE  ReadsOption(bytes, s, shift, last, o, p, q)
<1>1. PICK l, d : l = Len(o.value) /\ d = o.delta
  OBVIOUS
<1>2. d \in 0 .. 12 /\ l \in Nat /\ l <= 12
  BY <1>1, ShortOptionFacts
<1>3. \A i \in 1 .. last : i \in DOMAIN bytes /\ At(bytes, s, i) = bytes[i]
  <2>1. \A i \in 1 .. last : i \in DOMAIN bytes
    BY DEF IsBytes
  <2> QED BY <2>1 DEF At
<1>4. p \in 1 .. last /\ \A j \in 1 .. l : p + j \in 1 .. last
  <2>1. q = p + 1 + l
    BY <1>1, Zenon DEF OptionAt
  <2> QED BY <1>2, <2>1, OptionPlaces, ZenonT(40)
<1>5. At(bytes, s, p) = 16 * d + l
  BY <1>1, <1>3, <1>4 DEF OptionAt
<1>6. DeltaNibble(bytes, s, p) = d /\ LenNibble(bytes, s, p) = l
  BY <1>2, <1>5, ShortByte DEF DeltaNibble, LenNibble
<1>7. FieldWidth(d) = 0 /\ FieldWidth(l) = 0
  BY <1>2 DEF FieldWidth
<1>8. \A x, h : FieldValue(bytes, s, d, x, h) = d /\ FieldValue(bytes, s, l, x, h) = l
  BY <1>2 DEF FieldValue
<1>9. ValueStart(bytes, s, p) = p + 1
  BY <1>6, <1>7 DEF ValueStart
<1>10. ValueLength(bytes, s, p, shift) = l
  BY <1>6, <1>8 DEF ValueLength
<1>11. PlaceAfter(bytes, s, p, last, shift) = q
  <2>1. q = p + 1 + l
    BY <1>1, Zenon DEF OptionAt
  <2>2. q = IF p + 1 + l > last + 1 THEN last + 1 ELSE p + 1 + l
    BY <1>2, <2>1, OptionPlaces, Zenon
  <2> QED BY <2>2, <1>9, <1>10, Zenon DEF PlaceAfter
<1>12. [k \in 1 .. l |-> At(bytes, s, p + 1 + k - 1)] = o.value
  <2>1. o.value \in Seq(0 .. 254) /\ DOMAIN o.value = 1 .. l
    <3>1. o.value \in Seq(0 .. 254)
      BY ShortOptionFacts
    <3> QED BY <3>1, <1>1
  <2>2. o.value = [k \in 1 .. l |-> o.value[k]]
    <3>1. ASSUME NEW T, NEW v \in Seq(T), DOMAIN v = 1 .. l PROVE v = [k \in 1 .. l |-> v[k]]
      BY <3>1
    <3> QED BY <2>1, <3>1, Zenon
  <2>3. ASSUME NEW k \in 1 .. l PROVE At(bytes, s, p + 1 + k - 1) = o.value[k]
    <3>1. p + 1 + k - 1 = p + k
      BY <1>2
    <3>2. p + k \in 1 .. last
      BY <1>4
    <3>3. At(bytes, s, p + k) = bytes[p + k]
      BY <3>2, <1>3
    <3>4. bytes[p + k] = o.value[k]
      BY <1>1 DEF OptionAt
    <3> QED BY <3>1, <3>3, <3>4
  <2> QED BY <2>2, <2>3
<1>13. OptionRead(bytes, s, p, shift) = Raw(o)
  <2>1. FieldValue(bytes, s, DeltaNibble(bytes, s, p), p + 1, -13) = o.delta
    BY <1>1, <1>6, <1>8, Zenon
  <2>2. [k \in 1 .. ValueLength(bytes, s, p, shift) |->
                At(bytes, s, ValueStart(bytes, s, p) + k - 1)] = o.value
    BY <1>9, <1>10, <1>12, Zenon
  <2> QED BY <2>1, <2>2, Zenon DEF OptionRead, Raw
<1>14. d # 15 /\ l # 15
  BY <1>2
<1>15. ASSUME NEW rest
       PROVE  ReadFrom(bytes, s, p, shift, rest) = Added(rest, o)
  BY <1>6, <1>13, <1>14 DEF ReadFrom, Added
<1> QED BY <1>11, <1>15 DEF ReadsOption

\* Two sequences of the same length with the same elements.
LEMMA SameSequence ==
  ASSUME NEW T, NEW v \in Seq(T), NEW w \in Seq(T), NEW n \in Nat, Len(v) = n, Len(w) = n,
         \A i \in 1 .. n : v[i] = w[i]
  PROVE  v = w
OBVIOUS

\* A sequence from its first element and the rest.
LEMMA ConsIs ==
  ASSUME NEW T, NEW x \in T, NEW v \in Seq(T), NEW w \in Seq(T), NEW m \in Nat,
         Len(v) = m, Len(w) = 1 + m, w[1] = x, \A j \in 1 .. m : w[1 + j] = v[j]
  PROVE  <<x>> \o v = w
<1>1. PICK u : u = <<x>> \o v
  OBVIOUS
<1>2. u \in Seq(T) /\ Len(u) = 1 + m /\ u[1] = x /\ \A j \in 1 .. m : u[1 + j] = v[j]
  BY <1>1, ConsFacts
<1>3. ASSUME NEW i \in 1 .. (1 + m) PROVE u[i] = w[i]
  <2>1. CASE i = 1
    BY <1>2, <2>1
  <2>2. CASE i # 1
    <3>1. PICK j \in 1 .. m : i = 1 + j
      <4>1. i - 1 \in 1 .. m /\ i = 1 + (i - 1)
        BY <2>2
      <4> QED BY <4>1
    <3>2. u[1 + j] = v[j] /\ w[1 + j] = v[j]
      BY <1>2
    <3> QED BY <3>1, <3>2, Zenon
  <2> QED BY <2>1, <2>2
<1>4. PICK n : n = 1 + m
  OBVIOUS
<1>5. n \in Nat /\ Len(u) = n /\ Len(w) = n /\ \A i \in 1 .. n : u[i] = w[i]
  BY <1>2, <1>3, <1>4
<1>6. u = w
  BY <1>2, <1>5, SameSequence
<1> QED BY <1>1, <1>6

\* The options from the place after the first k.
RawFrom(list, k) == [i \in 1 .. (Len(list) - k) |-> Raw(list[k + i])]

LEMMA RawFromFacts ==
  ASSUME NEW list \in Seq(ShortOptions), NEW n, n = Len(list), NEW k \in 0 .. n
  PROVE  /\ RawFrom(list, k) \in Seq(AnyOptions) /\ Len(RawFrom(list, k)) = n - k
         /\ \A i \in 1 .. (n - k) : RawFrom(list, k)[i] = Raw(list[k + i])
         /\ k < n => <<Raw(list[k + 1])>> \o RawFrom(list, k + 1) = RawFrom(list, k)
<1>1. n \in Nat
  OBVIOUS
<1>2. ASSUME NEW j \in 1 .. n PROVE list[j] \in ShortOptions /\ Raw(list[j]) \in AnyOptions
  <2>1. list[j] \in ShortOptions
    BY <1>2
  <2>2. list[j].delta \in 0 .. 12 /\ list[j].value \in Seq(0 .. 254)
    BY <2>1, ShortOptionFacts
  <2>3. list[j].delta \in 0 .. 255 /\ list[j].value \in Seq(0 .. 255) /\ 0 \in 0 .. 255
    BY <2>2, SMTT(20)
  <2> QED BY <2>1, <2>3 DEF Raw, AnyOptions
<1>3. ASSUME NEW j \in 0 .. n
      PROVE  /\ RawFrom(list, j) \in Seq(AnyOptions) /\ Len(RawFrom(list, j)) = n - j
             /\ \A i \in 1 .. (n - j) : RawFrom(list, j)[i] = Raw(list[j + i])
  <2>1. n - j \in Nat /\ \A i \in 1 .. (n - j) : j + i \in 1 .. n
    BY <1>1
  <2>2. RawFrom(list, j) = [i \in 1 .. (n - j) |-> Raw(list[j + i])]
    BY DEF RawFrom
  <2>3. \A i \in 1 .. (n - j) : Raw(list[j + i]) \in AnyOptions
    BY <1>2, <2>1
  <2>4. PICK m : m = n - j
    OBVIOUS
  <2>5. m \in Nat /\ RawFrom(list, j) = [i \in 1 .. m |-> Raw(list[j + i])]
        /\ \A i \in 1 .. m : Raw(list[j + i]) \in AnyOptions
    BY <2>1, <2>2, <2>3, <2>4
  <2>6. RawFrom(list, j) \in Seq(AnyOptions) /\ Len(RawFrom(list, j)) = m
    BY <2>5
  <2>7. \A i \in 1 .. m : RawFrom(list, j)[i] = Raw(list[j + i])
    BY <2>5
  <2> QED BY <2>4, <2>6, <2>7
<1>4. ASSUME k < n PROVE <<Raw(list[k + 1])>> \o RawFrom(list, k + 1) = RawFrom(list, k)
  <2>1. PICK m : m = n - (k + 1)
    OBVIOUS
  <2>2. m \in Nat /\ n - k = 1 + m /\ k + 1 \in 0 .. n /\ k + 1 \in 1 .. n
        /\ 1 \in 1 .. (1 + m) /\ \A j \in 1 .. m : 1 + j \in 1 .. (1 + m) /\ k + (1 + j) = (k + 1) + j
    BY <1>1, <1>4, <2>1
  <2>3. PICK x, v, w : x = Raw(list[k + 1]) /\ v = RawFrom(list, k + 1) /\ w = RawFrom(list, k)
    OBVIOUS
  <2>4. x \in AnyOptions /\ v \in Seq(AnyOptions) /\ w \in Seq(AnyOptions)
    BY <1>2, <1>3, <2>2, <2>3
  <2>5. Len(v) = m /\ \A j \in 1 .. m : v[j] = Raw(list[(k + 1) + j])
    BY <1>3, <2>1, <2>2, <2>3
  <2>6. Len(w) = 1 + m /\ \A j \in 1 .. (1 + m) : w[j] = Raw(list[k + j])
    BY <1>3, <2>2, <2>3
  <2>7. w[1] = x
    BY <2>2, <2>3, <2>6
  <2>8. \A j \in 1 .. m : w[1 + j] = v[j]
    BY <2>2, <2>5, <2>6
  <2>9. <<x>> \o v = w
    BY <2>2, <2>4, <2>5, <2>6, <2>7, <2>8, ConsIs
  <2> QED BY <2>3, <2>9
<1> QED BY <1>3, <1>4

\* What ShortList says of each option.
LEMMA ShortListFacts ==
  ASSUME NEW list, ShortList(list)
  PROVE  /\ list \in Seq(ShortOptions) /\ Len(list) \in Nat
         /\ \A k \in 1 .. Len(list) :
              /\ list[k] \in ShortOptions
              /\ list[k].delta \in 0 .. 12 /\ list[k].number \in 0 .. 255
              /\ list[k].number = NumberBefore(list, k) + list[k].delta
<1>1. list \in Seq(ShortOptions)
  BY DEF ShortList
<1>2. Len(list) \in Nat /\ \A k \in 1 .. Len(list) : list[k] \in ShortOptions
  BY <1>1
<1>3. \A k \in 1 .. Len(list) : list[k].delta \in 0 .. 12 /\ list[k].number \in 0 .. 255
  BY <1>2, ShortOptionFacts
<1>4. \A k \in 1 .. Len(list) : list[k].number = NumberBefore(list, k) + list[k].delta
  BY DEF ShortList
<1> QED BY <1>1, <1>2, <1>3, <1>4

\* The deltas give the numbers back.
LEMMA NumberedRaw ==
  ASSUME NEW list, ShortList(list)
  PROVE  Numbered(RawFrom(list, 0)) = list
<1> DEFINE n == Len(list)
           raw == RawFrom(list, 0)
<1>1. list \in Seq(ShortOptions) /\ n \in Nat
  BY ShortListFacts
<1>2. raw \in Seq(AnyOptions) /\ Len(raw) = n /\ \A i \in 1 .. n : raw[i] = Raw(list[i])
  <2>1. PICK m : m = n
    OBVIOUS
  <2>2. m \in Nat /\ 0 \in 0 .. m /\ m - 0 = m /\ m = Len(list) /\ \A i \in 1 .. m : 0 + i = i
    BY <1>1, <2>1
  <2>3. /\ RawFrom(list, 0) \in Seq(AnyOptions) /\ Len(RawFrom(list, 0)) = m - 0
        /\ \A i \in 1 .. (m - 0) : RawFrom(list, 0)[i] = Raw(list[0 + i])
    BY <1>1, <2>2, RawFromFacts
  <2> QED BY <2>1, <2>2, <2>3
<1> HIDE DEF raw
<1>3. PICK F \in [0 .. Len(raw) -> Seq(AnyOptions)] :
           /\ F[0] = <<>> /\ Numbered(raw) = F[Len(raw)]
           /\ \A k \in 1 .. Len(raw) :
                F[k] = Append(F[k - 1], NumberAfter(F[k - 1], raw[k]))
  BY <1>2, NumberedFold
<1>4. F \in [0 .. n -> Seq(AnyOptions)] /\ Numbered(raw) = F[n]
      /\ \A k \in 1 .. n : F[k] = Append(F[k - 1], NumberAfter(F[k - 1], Raw(list[k])))
  BY <1>2, <1>3
<1> DEFINE S == {k \in 0 .. n : Len(F[k]) = k /\ \A i \in 1 .. k : F[k][i] = list[i]}
<1> HIDE DEF n
<1>5. 0 \in S
  <2>1. F[0] = <<>>
    BY <1>3
  <2>2. Len(F[0]) = 0 /\ 0 \in 0 .. n /\ 1 .. 0 = {}
    BY <2>1, <1>1
  <2> QED BY <2>2
<1>6. ASSUME NEW k \in 0 .. n, k \in S, k < n PROVE k + 1 \in S
  <2>1. k + 1 \in 1 .. n /\ (k + 1) - 1 = k /\ k + 1 \in 0 .. n /\ k \in Nat
    BY <1>6, <1>1
  <2>2. PICK f, o : f = F[k] /\ o = list[k + 1]
    OBVIOUS
  <2>3. f \in Seq(AnyOptions) /\ Len(f) = k /\ \A i \in 1 .. k : f[i] = list[i]
    BY <1>4, <1>6, <2>2
  <2>4. /\ o \in ShortOptions /\ o.delta \in 0 .. 12 /\ o.number \in 0 .. 255
        /\ o.number = NumberBefore(list, k + 1) + o.delta
        /\ o = [delta |-> o.delta, number |-> o.number, value |-> o.value]
    BY <2>1, <2>2, ShortListFacts, ShortOptionFacts DEF n
  <2>5. (IF f = <<>> THEN 0 ELSE Last(f).number) = NumberBefore(list, k + 1)
    <3>1. CASE k = 0
      <4>1. f = <<>> /\ k + 1 = 1
        BY <2>3, <3>1
      <4> QED BY <4>1 DEF NumberBefore
    <3>2. CASE k # 0
      <4>1. f # <<>> /\ k \in 1 .. k /\ k + 1 # 1
        BY <2>1, <2>3, <3>2
      <4>2. Last(f) = list[k]
        BY <2>3, <4>1 DEF Last
      <4> QED BY <2>1, <4>1, <4>2 DEF NumberBefore
    <3> QED BY <3>1, <3>2
  <2>6. NumberAfter(f, Raw(o)) = o
    <3>1. PICK b : b = IF f = <<>> THEN 0 ELSE Last(f).number
      OBVIOUS
    <3>2. o.number = b + o.delta
      BY <2>4, <2>5, <3>1, Zenon
    <3>3. U8(b + o.delta) = o.number
      <4>1. ASSUME NEW x \in 0 .. 255 PROVE U8(x) = x
        BY DEF U8
      <4>2. U8(o.number) = o.number
        BY <2>4, <4>1
      <4> QED BY <3>2, <4>2, Zenon
    <3>4. NumberAfter(f, Raw(o)) = [Raw(o) EXCEPT !.number = U8(b + Raw(o).delta)]
      BY <3>1, Zenon DEF NumberAfter
    <3>5. Raw(o).delta = o.delta
      BY DEF Raw
    <3>6. [Raw(o) EXCEPT !.number = o.number] = o
      BY <2>4 DEF Raw
    <3> QED BY <3>3, <3>4, <3>5, <3>6, Zenon
  <2>7. F[k + 1] = Append(f, o)
    BY <1>4, <2>1, <2>2, <2>6
  <2>8. /\ Len(Append(f, o)) = k + 1
        /\ Append(f, o)[k + 1] = o /\ \A i \in 1 .. k : Append(f, o)[i] = f[i]
    <3>1. /\ Len(Append(f, o)) = Len(f) + 1 /\ Append(f, o)[Len(f) + 1] = o
          /\ \A i \in 1 .. Len(f) : Append(f, o)[i] = f[i]
      BY <2>3
    <3> QED BY <3>1, <2>3
  <2>9. ASSUME NEW i \in 1 .. (k + 1) PROVE F[k + 1][i] = list[i]
    <3>1. CASE i = k + 1
      BY <2>2, <2>7, <2>8, <3>1
    <3>2. CASE i # k + 1
      <4>1. i \in 1 .. k
        BY <2>1, <3>2
      <4> QED BY <2>3, <2>7, <2>8, <4>1
    <3> QED BY <3>1, <3>2
  <2> QED BY <2>1, <2>7, <2>8, <2>9
<1>7. n \in S
  <2>1. n \in 0 .. n
    BY <1>1
  <2> HIDE DEF S
  <2> QED BY <1>1, <1>5, <1>6, <2>1, Upward
<1>8. F[n] = list
  <2>1. PICK f : f = F[n]
    OBVIOUS
  <2>2. Len(f) = n /\ Len(list) = n /\ \A i \in 1 .. n : f[i] = list[i]
    BY <1>7, <2>1 DEF n
  <2>3. \E T : f \in Seq(T) /\ list \in Seq(T)
    <3> DEFINE T == AnyOptions \cup ShortOptions
    <3>1. f \in Seq(AnyOptions)
      <4>1. n \in 0 .. n
        BY <1>1
      <4> QED BY <4>1, <1>4, <2>1
    <3>2. ASSUME NEW A, NEW B, NEW v \in Seq(A) PROVE v \in Seq(A \cup B) /\ v \in Seq(B \cup A)
      OBVIOUS
    <3>3. f \in Seq(T) /\ list \in Seq(T)
      BY <1>1, <3>1, <3>2
    <3> QED BY <3>3
  <2> QED BY <1>1, <2>1, <2>2, <2>3, SameSequence
<1> QED BY <1>4, <1>8 DEF raw

\* A laid out short list is read as it was written, whatever the reader
\* believes of extended lengths and whatever is on its stack.
ReadsAs(bytes, s, shift, first, last, list) ==
  ReadOptions(bytes, s, first, last, shift) = [err |-> "ok", options |-> list]

LEMMA ReadLaid ==
  ASSUME NEW bytes, IsBytes(bytes), NEW s \in 0 .. 255, NEW shift \in Int,
         NEW first \in Nat, first > 0, NEW last \in Nat,
         NEW list, ShortList(list), NEW off, Laid(bytes, first, list, off),
         off[Len(list)] = last + 1
  PROVE  ReadsAs(bytes, s, shift, first, last, list)
<1> DEFINE n == Len(list)
<1>1. list \in Seq(ShortOptions) /\ n \in Nat
      /\ \A k \in 1 .. n : list[k] \in ShortOptions
  BY ShortListFacts
<1>2. \A k \in 0 .. n :
           /\ off[k] \in Nat /\ first <= off[k] /\ off[k] <= off[n]
           /\ k > 0 => off[k - 1] < off[k] /\ off[k - 1] \in Nat
  BY <1>1, LaidPlaces
<1>3. off[n] = last + 1 /\ off[0] = first /\ off[n] <= Len(bytes) + 1
  BY DEF Laid
<1>4. first <= last + 1 /\ last <= Len(bytes)
  <2>1. n \in 0 .. n
    BY <1>1
  <2>2. first <= off[n]
    BY <1>2, <2>1
  <2>3. Len(bytes) \in Nat
    BY DEF IsBytes
  <2> HIDE DEF n
  <2> QED BY <1>3, <2>2, <2>3
<1>5. PICK from \in [first .. (last + 1) -> ReadResults] :
        IsReading(from, bytes, s, shift, first, last)
  BY <1>4, ReadSteps
<1>6. ASSUME NEW k \in 0 .. n, k < n
      PROVE  from[off[k]] = Added(from[off[k + 1]], list[k + 1])
  <2>1. k + 1 \in 1 .. n /\ (k + 1) - 1 = k /\ k + 1 \in 0 .. n /\ k + 1 > 0
    BY <1>1, <1>6
  <2>2. PICK p, q, o : p = off[k] /\ q = off[k + 1] /\ o = list[k + 1]
    OBVIOUS
  <2>3. p \in Nat /\ q \in Nat /\ first <= p /\ p < q /\ q <= last + 1
    <3> HIDE DEF n
    <3> QED BY <1>2, <1>3, <2>1, <2>2
  <2>4. OptionAt(bytes, o, p, q)
    <3>1. PICK i \in 1 .. n : i = k + 1 /\ i - 1 = k
      BY <2>1
    <3>2. OptionAt(bytes, list[i], off[i - 1], off[i])
      BY Zenon DEF Laid, OptionAt
    <3> QED BY <2>2, <3>1, <3>2, Zenon
  <2>5. o \in ShortOptions /\ p > 0 /\ p \in first .. last
    <3>1. o \in ShortOptions
      BY <1>1, <2>1, <2>2
    <3> HIDE DEF n
    <3> QED BY <3>1, <2>3
  <2>6. ReadsOption(bytes, s, shift, last, o, p, q)
    BY <1>4, <2>3, <2>4, <2>5, OneOptionRead
  <2>7. from[p] = ReadFrom(bytes, s, p, shift, from[q])
    BY <1>5, <2>5, <2>6, Zenon DEF IsReading, ReadsOption
  <2>8. from[p] = Added(from[q], o)
    BY <2>6, <2>7, Zenon DEF ReadsOption
  <2> QED BY <2>2, <2>8, Zenon
<1> DEFINE S == {m \in 0 .. n : from[off[n - m]] = [err |-> "ok", options |-> RawFrom(list, n - m)]}
<1> HIDE DEF n
<1>7. 0 \in S
  <2>1. n - 0 = n /\ 0 \in 0 .. n
    BY <1>1
  <2>2. RawFrom(list, n) = <<>>
    <3>1. n \in 0 .. n /\ n - n = 0 /\ n = Len(list)
      BY <1>1 DEF n
    <3>2. RawFrom(list, n) \in Seq(AnyOptions) /\ Len(RawFrom(list, n)) = n - n
      <4>1. PICK m : m = n
        OBVIOUS
      <4>2. m \in 0 .. m /\ m = Len(list)
        BY <3>1, <4>1
      <4>3. RawFrom(list, m) \in Seq(AnyOptions) /\ Len(RawFrom(list, m)) = m - m
        BY <1>1, <4>2, RawFromFacts
      <4> QED BY <4>1, <4>3
    <3>3. ASSUME NEW T, NEW v \in Seq(T), Len(v) = 0 PROVE v = <<>>
      BY <3>3
    <3> QED BY <3>1, <3>2, <3>3
  <2>3. from[off[n]] = NothingRead("ok")
    BY <1>3, <1>5, Zenon DEF IsReading
  <2> QED BY <2>1, <2>2, <2>3 DEF NothingRead
<1>8. ASSUME NEW m \in 0 .. n, m \in S, m < n PROVE m + 1 \in S
  <2>1. PICK k \in 0 .. n : k = n - (m + 1) /\ k < n /\ k + 1 = n - m
    <3>1. n - (m + 1) \in 0 .. n /\ n - (m + 1) < n /\ n - (m + 1) + 1 = n - m
      BY <1>1, <1>8
    <3> QED BY <3>1
  <2>2. from[off[k + 1]] = [err |-> "ok", options |-> RawFrom(list, k + 1)]
    BY <1>8, <2>1
  <2>3. from[off[k]] = Added(from[off[k + 1]], list[k + 1])
    BY <1>6, <2>1
  <2>4. <<Raw(list[k + 1])>> \o RawFrom(list, k + 1) = RawFrom(list, k)
    <3>1. n = Len(list)
      BY DEF n
    <3> QED BY <1>1, <2>1, <3>1, RawFromFacts
  <2>5. from[off[k]] = [err |-> "ok", options |-> RawFrom(list, k)]
    <3>1. PICK a, b, x : a = RawFrom(list, k + 1) /\ b = RawFrom(list, k) /\ x = list[k + 1]
      BY Zenon
    <3>2. Added([err |-> "ok", options |-> a], x) = [err |-> "ok", options |-> <<Raw(x)>> \o a]
      <4>1. PICK y : y = <<Raw(x)>> \o a
        BY Zenon
      <4>2. [[err |-> "ok", options |-> a] EXCEPT !.options = y] = [err |-> "ok", options |-> y]
        OBVIOUS
      <4> QED BY <4>1, <4>2, Zenon DEF Added
    <3>3. from[off[k]] = Added([err |-> "ok", options |-> a], x) /\ <<Raw(x)>> \o a = b
      BY <2>2, <2>3, <2>4, <3>1, Zenon
    <3>4. from[off[k]] = [err |-> "ok", options |-> b]
      BY <3>2, <3>3, Zenon
    <3> QED BY <3>1, <3>4, Zenon
  <2>6. m + 1 \in 0 .. n
    BY <1>1, <1>8
  <2> QED BY <2>1, <2>5, <2>6
<1>9. n \in S
  <2>1. n \in 0 .. n
    BY <1>1
  <2> HIDE DEF S
  <2> QED BY <1>1, <1>7, <1>8, <2>1, Upward
<1>10. from[first] = [err |-> "ok", options |-> RawFrom(list, 0)]
  <2>1. n - n = 0
    BY <1>1
  <2> QED BY <1>3, <1>9, <2>1
<1>11. Numbered(RawFrom(list, 0)) = list
  BY NumberedRaw
<1>12. ReadOptions(bytes, s, first, last, shift) = [from[first] EXCEPT !.options = Numbered(@)]
  BY <1>5 DEF IsReading
<1> QED BY <1>10, <1>11, <1>12 DEF ReadsAs

-----------------------------------------------------------------------------
(* Reading messages                                                        *)

\* The parts of h \o b \o t.
LEMMA ThreeParts ==
  ASSUME NEW T, NEW h \in Seq(T), NEW b \in Seq(T), NEW t \in Seq(T),
         NEW u, u = h \o b \o t, NEW lh, lh = Len(h), NEW lb, lb = Len(b), NEW lt, lt = Len(t)
  PROVE  /\ u \in Seq(T) /\ Len(u) = lh + lb + lt /\ lh \in Nat /\ lb \in Nat /\ lt \in Nat
         /\ \A i \in 1 .. lh : u[i] = h[i]
         /\ \A i \in 1 .. lb : u[lh + i] = b[i]
         /\ \A i \in 1 .. lt : u[lh + lb + i] = t[i]
<1>1. lh \in Nat /\ lb \in Nat /\ lt \in Nat
  OBVIOUS
<1>2. PICK v : v = h \o b
  OBVIOUS
<1>3. /\ v \in Seq(T) /\ Len(v) = lh + lb
      /\ \A i \in 1 .. lh : v[i] = h[i]
      /\ \A i \in 1 .. lb : v[lh + i] = b[i]
  BY <1>2, ConcatFacts
<1>4. u = v \o t
  BY <1>2
<1>5. /\ u \in Seq(T) /\ Len(u) = (lh + lb) + lt
      /\ \A i \in 1 .. (lh + lb) : u[i] = v[i]
      /\ \A i \in 1 .. lt : u[(lh + lb) + i] = t[i]
  <2>1. /\ v \o t \in Seq(T) /\ Len(v \o t) = Len(v) + Len(t)
        /\ \A i \in 1 .. Len(v) : (v \o t)[i] = v[i]
        /\ \A i \in 1 .. Len(t) : (v \o t)[Len(v) + i] = t[i]
    <3>1. v \in Seq(T)
      BY <1>3
    <3> QED BY <3>1, ConcatFacts
  <2>2. Len(v) = lh + lb /\ Len(t) = lt /\ u = v \o t
    BY <1>3, <1>4
  <2> QED BY <2>1, <2>2, Zenon
<1>6. /\ \A i \in 1 .. lh : i \in 1 .. (lh + lb)
      /\ \A i \in 1 .. lb : lh + i \in 1 .. (lh + lb)
  BY <1>1
<1> QED BY <1>1, <1>3, <1>5, <1>6

\* A part of a sequence that is known element by element.
LEMMA SubSeqIs ==
  ASSUME NEW T, NEW u \in Seq(T), NEW v \in Seq(T), NEW len, len = Len(u), NEW k, k = Len(v),
         NEW m \in Nat, m > 0, NEW n \in Nat, n + 1 = m + k, n <= len,
         \A i \in 1 .. k : u[m + i - 1] = v[i]
  PROVE  SubSeq(u, m, n) = v
<1>1. k \in Nat /\ len \in Nat
  OBVIOUS
<1>2. 1 + n - m = k /\ \A i \in 1 .. k : m + i - 1 \in 1 .. len /\ i + m - 1 = m + i - 1
  BY <1>1
<1>3. SubSeq(u, m, n) = [i \in 1 .. (1 + n - m) |-> u[i + m - 1]]
  BY SMTT(30)
<1>4. SubSeq(u, m, n) = [i \in 1 .. k |-> v[i]]
  BY <1>2, <1>3
<1>5. v = [i \in 1 .. k |-> v[i]]
  OBVIOUS
<1> QED BY <1>4, <1>5

\* A set of numbers with a least one.
IsLeast(x, I) == I \subseteq Nat /\ x \in I /\ \A y \in I : x <= y

LEMMA LeastIs ==
  ASSUME NEW I, NEW x, IsLeast(x, I)
  PROVE  Min(I) = x
<1> USE DEF IsLeast
<1>1. \E z \in I : \A y \in I : z <= y
  OBVIOUS
<1>2. Min(I) \in I /\ \A y \in I : Min(I) <= y
  BY <1>1, Zenon DEF Min
<1>3. Min(I) \in Nat /\ x \in Nat /\ x <= Min(I) /\ Min(I) <= x
  BY <1>2
<1> QED BY <1>3

\* The marker is the first one.
LEMMA MarkerFacts ==
  ASSUME NEW bytes, NEW len \in Nat, len = Len(bytes), NEW first \in Nat, first > 0,
         NEW stop \in Nat, first <= stop, stop <= len + 1,
         \A i \in first .. (stop - 1) : bytes[i] # 255,
         stop <= len => bytes[stop] = 255
  PROVE  MarkerPos(bytes, first) = stop
<1> DEFINE I == {i \in first .. len : bytes[i] = 255}
<1>1. MarkerPos(bytes, first) = LET after == IF I # {} THEN Min(I) ELSE 0
                                IN IF after = 0 THEN len + 1 ELSE after
  BY DEF MarkerPos, SelectInSubSeq, PayloadMarker
<1>2. CASE stop <= len
  <2>1. stop \in I /\ \A y \in I : stop <= y
    BY <1>2
  <2>2. Min(I) = stop
    <3>1. I \subseteq Nat
      OBVIOUS
    <3> HIDE DEF I
    <3>2. PICK J : J = I
      OBVIOUS
    <3>3. IsLeast(stop, J)
      BY <2>1, <3>1, <3>2 DEF IsLeast
    <3>4. Min(J) = stop
      BY <3>3, LeastIs
    <3> QED BY <3>2, <3>4, Zenon
  <2>3. I # {}
    BY <2>1
  <2> HIDE DEF I
  <2> QED BY <1>1, <2>2, <2>3
<1>3. CASE ~ (stop <= len)
  <2>1. stop = len + 1
    BY <1>3
  <2>2. I = {}
    BY <2>1
  <2> HIDE DEF I
  <2> QED BY <1>1, <2>1, <2>2
<1> QED BY <1>2, <1>3

\* Head, options and payload are found where they were written.
Written(bytes, head, list, payload) ==
  bytes = head \o options_into_byte_string(list) \o PayloadPart(payload)

ReadBack(bytes, head, list, payload, s, shift, first, marker) ==
  /\ bytes \in Seq(0 .. 255) /\ marker \in Nat
  /\ ReadOptions(bytes, s, first, marker - 1, shift) = [err |-> "ok", options |-> list]
  /\ SubSeq(bytes, 1, Len(head)) = head
  /\ SubSeq(bytes, marker + 1, Len(bytes)) = payload
  /\ Len(bytes) < first <=> list = <<>> /\ payload = <<>>

LEMMA WrittenRead ==
  ASSUME NEW head \in Seq(0 .. 255), NEW list, ShortList(list), NEW payload \in Seq(0 .. 255),
         NEW bytes, Written(bytes, head, list, payload), NEW s \in 0 .. 255, NEW shift \in Int,
         NEW first, first = Len(head) + 1, NEW marker, marker = MarkerPos(bytes, first)
  PROVE  ReadBack(bytes, head, list, payload, s, shift, first, marker)
<1> DEFINE B == options_into_byte_string(list)
           tail == PayloadPart(payload)
           Empty == payload = <<>>
<1>1. PICK lh, lb, lt, lp, len : lh = Len(head) /\ lb = Len(B) /\ lt = Len(tail) /\ lp = Len(payload)
                                 /\ len = Len(bytes)
  OBVIOUS
<1>2. /\ tail \in Seq(0 .. 255) /\ lp \in Nat
      /\ Empty => lt = 0 /\ lp = 0
      /\ ~ Empty => /\ lt = 1 + lp /\ lp > 0 /\ tail[1] = 255
                    /\ \A j \in 1 .. lp : tail[1 + j] = payload[j]
  <2>1. lp \in Nat /\ (~ Empty => lp > 0)
    BY <1>1
  <2>2. CASE Empty
    <3>1. tail = <<>>
      BY <2>2 DEF PayloadPart
    <3>3. Len(payload) = 0
      BY <2>2
    <3>2. Len(<<>>) = 0 /\ <<>> \in Seq(0 .. 255)
      OBVIOUS
    <3> HIDE DEF tail
    <3> QED BY <1>1, <2>1, <2>2, <3>1, <3>2, <3>3, Zenon
  <2>3. CASE ~ Empty
    <3>1. tail = <<255>> \o payload
      BY <2>3 DEF PayloadPart, PayloadMarker
    <3>2. 255 \in 0 .. 255
      OBVIOUS
    <3>3. /\ <<255>> \o payload \in Seq(0 .. 255) /\ Len(<<255>> \o payload) = 1 + Len(payload)
          /\ (<<255>> \o payload)[1] = 255
          /\ \A j \in 1 .. Len(payload) : (<<255>> \o payload)[1 + j] = payload[j]
      BY <3>2, ConsFacts
    <3> HIDE DEF tail
    <3> QED BY <1>1, <2>1, <2>3, <3>1, <3>3, ZenonT(40)
  <2> QED BY <2>2, <2>3
<1> HIDE DEF tail, Empty
<1>3. list \in Seq(ShortOptions) /\ Len(list) \in Nat
  BY ShortListFacts
<1>4. bytes = head \o B \o tail
  BY DEF Written, tail
<1>5. B \in Seq(0 .. 254) /\ bytes \in Seq(0 .. 255) /\ LaidOut(bytes, first, list, lh + 1 + lb)
  <2> HIDE DEF B
  <2>1. /\ B \in Seq(0 .. 254) /\ head \o B \o tail \in Seq(0 .. 255)
        /\ LaidOut(head \o B \o tail, Len(head) + 1, list, Len(head) + 1 + Len(B))
    BY <1>2, <1>3, WrittenLaid DEF B
  <2> QED BY <1>1, <1>4, <2>1
<1> HIDE DEF B
<1>6. B \in Seq(0 .. 255) /\ \A i \in 1 .. lb : B[i] # 255
  <2>1. ASSUME NEW T, NEW v \in Seq(T), NEW l, l = Len(v) PROVE \A i \in 1 .. l : v[i] \in T
    BY <2>1
  <2>2. \A i \in 1 .. lb : B[i] \in 0 .. 254
    BY <1>1, <1>5, <2>1
  <2>3. \A x \in 0 .. 254 : x # 255
    OBVIOUS
  <2>4. B \in Seq(0 .. 255)
    BY <1>5
  <2> QED BY <2>2, <2>3, <2>4, Zenon
<1>7. /\ len = lh + lb + lt /\ lh \in Nat /\ lb \in Nat /\ lt \in Nat
      /\ \A i \in 1 .. lh : bytes[i] = head[i]
      /\ \A i \in 1 .. lb : bytes[lh + i] = B[i]
      /\ \A i \in 1 .. lt : bytes[lh + lb + i] = tail[i]
  <2>1. tail \in Seq(0 .. 255) /\ bytes = head \o B \o tail /\ B \in Seq(0 .. 255)
    BY <1>2, <1>4, <1>6
  <2>2. lh = Len(head) /\ lb = Len(B) /\ lt = Len(tail) /\ len = Len(bytes)
    BY <1>1
  <2>3. /\ Len(bytes) = lh + lb + lt /\ lh \in Nat /\ lb \in Nat /\ lt \in Nat
        /\ \A i \in 1 .. lh : bytes[i] = head[i]
        /\ \A i \in 1 .. lb : bytes[lh + i] = B[i]
        /\ \A i \in 1 .. lt : bytes[lh + lb + i] = tail[i]
    BY <2>1, <2>2, ThreeParts
  <2> QED BY <2>2, <2>3, Zenon
<1>8. first = lh + 1
  BY <1>1, Zenon
<1>9. PICK stop : stop = lh + lb + 1
  OBVIOUS
<1>10. /\ stop \in Nat /\ first \in Nat /\ first > 0 /\ first <= stop /\ stop <= len + 1 /\ len \in Nat
       /\ \A i \in first .. (stop - 1) : i - lh \in 1 .. lb /\ i = lh + (i - lh)
       /\ stop <= len <=> lt > 0
  BY <1>7, <1>8, <1>9
<1>11. \A i \in first .. (stop - 1) : bytes[i] # 255
  <2> SUFFICES ASSUME NEW i \in first .. (stop - 1) PROVE bytes[i] # 255
    OBVIOUS
  <2>1. PICK j \in 1 .. lb : i = lh + j
    BY <1>10
  <2>2. bytes[lh + j] = B[j] /\ B[j] # 255
    BY <1>6, <1>7, ZenonT(40)
  <2> QED BY <2>1, <2>2, Zenon
<1>12. stop <= len => bytes[stop] = 255
  <2> SUFFICES ASSUME stop <= len PROVE bytes[stop] = 255
    OBVIOUS
  <2>1. lt > 0 /\ 1 \in 1 .. lt
    BY <1>7, <1>10
  <2>2. ~ Empty
    <3>1. Empty => lt = 0
      BY <1>2
    <3> QED BY <2>1, <3>1
  <2>3. bytes[lh + lb + 1] = tail[1] /\ tail[1] = 255
    BY <1>2, <1>7, <2>1, <2>2, Zenon
  <2> QED BY <1>9, <2>3, Zenon
<1>13. marker = stop
  <2>1. len = Len(bytes)
    BY <1>1
  <2>2. stop \in Nat /\ first \in Nat /\ first > 0 /\ first <= stop /\ stop <= len + 1 /\ len \in Nat
    BY <1>10
  <2> QED BY <1>11, <1>12, <2>1, <2>2, MarkerFacts
<1>14. ReadOptions(bytes, s, first, marker - 1, shift) = [err |-> "ok", options |-> list]
  <2>1. PICK off : Laid(bytes, first, list, off) /\ off[Len(list)] = lh + 1 + lb
    BY <1>5 DEF LaidOut
  <2>2. PICK last : last = marker - 1
    OBVIOUS
  <2>3. last \in Nat /\ lh + 1 + lb = last + 1
    BY <1>7, <1>9, <1>10, <1>13, <2>2
  <2>4. IsBytes(bytes)
    BY <1>5 DEF IsBytes
  <2>5. ReadOptions(bytes, s, first, last, shift) = [err |-> "ok", options |-> list]
    <3>1. off[Len(list)] = last + 1
      BY <2>1, <2>3, Zenon
    <3>2. first \in Nat /\ first > 0
      BY <1>10
    <3>3. Laid(bytes, first, list, off)
      BY <2>1
    <3>4. last \in Nat
      BY <2>3
    <3>5. /\ IsBytes(bytes) /\ s \in 0 .. 255 /\ shift \in Int /\ first \in Nat /\ first > 0
          /\ last \in Nat /\ ShortList(list) /\ Laid(bytes, first, list, off)
          /\ off[Len(list)] = last + 1
      BY <2>4, <3>1, <3>2, <3>3, <3>4
    <3>6. ReadsAs(bytes, s, shift, first, last, list)
      BY <3>5, ReadLaid
    <3> QED BY <3>6, Zenon DEF ReadsAs
  <2> QED BY <2>2, <2>5
<1>15. SubSeq(bytes, 1, Len(head)) = head
  <2>1. 1 \in Nat /\ lh + 1 = 1 + lh /\ lh <= len /\ \A i \in 1 .. lh : 1 + i - 1 = i
    BY <1>7
  <2>2. \A i \in 1 .. lh : bytes[1 + i - 1] = head[i]
    BY <1>7, <2>1
  <2>3. SubSeq(bytes, 1, lh) = head
    BY <1>1, <1>5, <1>7, <2>1, <2>2, SubSeqIs
  <2> QED BY <1>1, <2>3
<1>16. SubSeq(bytes, marker + 1, Len(bytes)) = payload
  <2>1. PICK m : m = marker + 1
    OBVIOUS
  <2>2. CASE Empty
    <3>1. len = marker - 1 /\ m = len + 2 /\ len \in Nat
      <4>1. lt = 0
        BY <1>2, <2>2
      <4>2. len = lh + lb + lt /\ lh \in Nat /\ lb \in Nat
        BY <1>7
      <4>3. marker = lh + lb + 1 /\ m = lh + lb + 1 + 1
        BY <1>9, <1>13, <2>1
      <4> QED BY <4>1, <4>2, <4>3
    <3>2. bytes \in Seq(0 .. 255) /\ len = Len(bytes)
      BY <1>1, <1>5
    <3>3. SubSeq(bytes, m, len) = <<>>
      <4>1. SubSeq(bytes, m, len) = [i \in 1 .. (1 + len - m) |-> bytes[i + m - 1]]
        BY <3>1, <3>2
      <4>2. 1 .. (1 + len - m) = {}
        BY <3>1
      <4> QED BY <4>1, <4>2
    <3> QED BY <1>1, <2>1, <2>2, <3>3 DEF Empty
  <2>3. CASE ~ Empty
    <3>1. /\ m \in Nat /\ m > 0 /\ len \in Nat /\ len + 1 = m + lp
          /\ \A i \in 1 .. lp : 1 + i \in 1 .. lt /\ lh + lb + (1 + i) = m + i - 1
      <4>1. lt = 1 + lp /\ lp \in Nat
        BY <1>2, <2>3
      <4>2. len = lh + lb + lt /\ lh \in Nat /\ lb \in Nat
        BY <1>7
      <4>3. m = lh + lb + 2
        BY <4>2, <1>9, <1>13, <2>1
      <4> QED BY <4>1, <4>2, <4>3
    <3>2. \A i \in 1 .. lp : bytes[m + i - 1] = payload[i]
      <4> SUFFICES ASSUME NEW i \in 1 .. lp PROVE bytes[m + i - 1] = payload[i]
        OBVIOUS
      <4>1. bytes[lh + lb + (1 + i)] = tail[1 + i]
        BY <1>7, <3>1
      <4>2. tail[1 + i] = payload[i]
        BY <1>2, <2>3, Zenon
      <4> QED BY <3>1, <4>1, <4>2
    <3>3. SubSeq(bytes, m, len) = payload
      BY <1>1, <1>5, <3>1, <3>2, SubSeqIs
    <3> QED BY <1>1, <2>1, <3>3
  <2> QED BY <2>2, <2>3
<1>17. lb = 0 <=> list = <<>>
  <2>1. PICK off : Laid(bytes, first, list, off) /\ off[Len(list)] = lh + 1 + lb
    BY <1>5 DEF LaidOut
  <2>2. PICK n : n = Len(list)
    OBVIOUS
  <2>3. /\ n \in Nat /\ off[0] = first /\ off[n] = first + lb
        /\ \A k \in 0 .. n : /\ off[k] \in Nat /\ off[k] <= off[n] /\ first <= off[k]
                             /\ k > 0 => off[k - 1] < off[k] /\ off[k - 1] \in Nat
    <3>1. n \in Nat
      BY <1>3, <2>2
    <3>2. \A k \in 0 .. Len(list) :
            /\ off[k] \in Nat /\ first <= off[k] /\ off[k] <= off[Len(list)]
            /\ k > 0 => off[k - 1] < off[k] /\ off[k - 1] \in Nat
      BY <1>3, <1>10, <2>1, LaidPlaces
    <3>3. off[0] = first /\ off[n] = first + lb
      <4>1. off[0] = first
        BY <2>1 DEF Laid
      <4>2. off[n] = lh + 1 + lb
        BY <2>1, <2>2
      <4> QED BY <4>1, <4>2, <1>7, <1>8
    <3> QED BY <2>2, <3>1, <3>2, <3>3
  <2>4. n > 0 => lb > 0
    <3> SUFFICES ASSUME n > 0 PROVE lb > 0
      OBVIOUS
    <3>1. 1 \in 0 .. n /\ 1 > 0 /\ 1 - 1 = 0
      BY <2>3
    <3>2. off[0] < off[1] /\ off[1] <= off[n] /\ off[1] \in Nat
      BY <2>3, <3>1
    <3> QED BY <1>7, <1>10, <2>3, <3>2
  <2>5. n = 0 <=> list = <<>>
    <3>1. ASSUME NEW T, NEW v \in Seq(T) PROVE Len(v) = 0 <=> v = <<>>
      OBVIOUS
    <3> QED BY <1>3, <2>2, <3>1
  <2>6. n = 0 => lb = 0
    <3> SUFFICES ASSUME n = 0 PROVE lb = 0
      OBVIOUS
    <3>1. first = first + lb
      BY <2>3
    <3> QED BY <1>7, <1>10, <3>1
  <2> QED BY <2>3, <2>4, <2>5, <2>6
<1>18. Len(bytes) < first <=> list = <<>> /\ payload = <<>>
  <2>1. len < first <=> lb = 0 /\ lt = 0
    BY <1>7, <1>8
  <2>2. lt = 0 <=> Empty
    <3>1. Empty => lt = 0
      BY <1>2
    <3>2. ~ Empty => lt = 1 + lp /\ lp \in Nat
      BY <1>2
    <3> QED BY <3>1, <3>2
  <2> QED BY <1>1, <1>17, <2>1, <2>2 DEF Empty
<1> QED BY <1>5, <1>10, <1>13, <1>14, <1>15, <1>16, <1>18 DEF ReadBack

\* A message that coap2buf wrote is read as it was written.
MessageRead(token, list, payload) ==
  [err |-> "ok", token |-> token, options |-> list, payload |-> payload]

Carried(token, list, payload) ==
  /\ token \in Seq(0 .. 255) /\ Len(token) <= 8 /\ payload \in Seq(0 .. 255)
  /\ ShortList(list) /\ ~ (list = <<>> /\ payload = <<>>)

MessageReads(type, code, token, list, payload, s) ==
  buf2coap(coap2buf(type, code, Len(token), token, list, payload), s)
    = MessageRead(token, list, payload)

LEMMA ReadMessage ==
  ASSUME NEW type, NEW code, NEW token, NEW list, NEW payload,
         Carried(token, list, payload), NEW s \in 0 .. 255
  PROVE  MessageReads(type, code, token, list, payload, s)
<1>0. /\ token \in Seq(0 .. 255) /\ Len(token) <= 8 /\ payload \in Seq(0 .. 255)
      /\ ShortList(list) /\ ~ (list = <<>> /\ payload = <<>>)
  BY DEF Carried
<1>1. PICK tkl, bytes : tkl = Len(token)
                        /\ bytes = token \o options_into_byte_string(list) \o PayloadPart(payload)
  OBVIOUS
<1>2. PICK m : m = [type |-> type, code |-> code, tkl |-> tkl, bytes |-> bytes]
  OBVIOUS
<1>3. coap2buf(type, code, Len(token), token, list, payload) = m
  BY <1>1, <1>2, Zenon DEF coap2buf
<1>4. m.tkl = tkl /\ m.bytes = bytes
  BY <1>2
<1>5. PICK first, marker : first = Len(token) + 1 /\ marker = MarkerPos(bytes, first)
  OBVIOUS
<1>6. /\ bytes \in Seq(0 .. 255) /\ marker \in Nat
      /\ ReadOptions(bytes, s, first, marker - 1, 13) = [err |-> "ok", options |-> list]
      /\ SubSeq(bytes, 1, Len(token)) = token
      /\ SubSeq(bytes, marker + 1, Len(bytes)) = payload
      /\ ~ (Len(bytes) < first)
  <2>1. Written(bytes, token, list, payload)
    BY <1>1, Zenon DEF Written
  <2>2. 13 \in Int
    OBVIOUS
  <2>3. ReadBack(bytes, token, list, payload, s, 13, first, marker)
    BY <1>0, <1>5, <2>1, <2>2, WrittenRead
  <2> QED BY <1>0, <2>3 DEF ReadBack
<1>7. ~ (tkl > 8) /\ first = tkl + 1
  <2>1. tkl \in Nat /\ tkl <= 8
    BY <1>0, <1>1
  <2> QED BY <1>1, <1>5, <2>1
<1>8. PICK unset : unset = IF s = 0 THEN <<>>
                           ELSE <<[delta |-> s, number |-> s, value |-> <<>>]>>
  OBVIOUS
<1>9. buf2coap(m, s) = [err |-> "ok", token |-> token, options |-> list, payload |-> payload]
  <2>1. buf2coap(m, s) =
          LET read == ReadOptions(bytes, s, first, marker - 1, 13)
          IN [err |-> read.err, token |-> SubSeq(bytes, 1, tkl),
              options |-> IF Len(bytes) < first THEN unset ELSE read.options,
              payload |-> SubSeq(bytes, marker + 1, Len(bytes))]
    BY <1>4, <1>5, <1>7, <1>8, Zenon DEF buf2coap
  <2>2. PICK read : read = ReadOptions(bytes, s, first, marker - 1, 13)
    OBVIOUS
  <2>3. read.err = "ok" /\ read.options = list
    BY <1>6, <2>2
  <2> QED BY <1>1, <1>6, <2>1, <2>2, <2>3, Zenon
<1> QED BY <1>3, <1>9, Zenon DEF MessageRead, MessageReads

\* So is a plaintext that plaintext_setup wrote.
Inside(code, list, payload) ==
  <<code>> \o options_into_byte_string(list) \o PayloadPart(payload)
PlaintextReads(code, list, payload, s) ==
  oscore_decrypted_payload_parser(Inside(code, list, payload), s)
    = [err |-> "ok", code |-> code, options |-> list, payload |-> payload]

LEMMA ReadPlaintext ==
  ASSUME NEW code \in 0 .. 255, NEW list, ShortList(list), NEW payload \in Seq(0 .. 255),
         NEW s \in 0 .. 255
  PROVE  PlaintextReads(code, list, payload, s)
<1>0. PICK plaintext : plaintext = Inside(code, list, payload)
  OBVIOUS
<1>1. PICK head, marker : head = <<code>> /\ marker = MarkerPos(plaintext, 2)
  OBVIOUS
<1>2. head \in Seq(0 .. 255) /\ Len(head) = 1 /\ head[1] = code
  BY <1>1
<1>3. /\ plaintext \in Seq(0 .. 255) /\ marker \in Nat
      /\ ReadOptions(plaintext, s, 2, marker - 1, -13) = [err |-> "ok", options |-> list]
      /\ SubSeq(plaintext, 1, Len(head)) = head
      /\ SubSeq(plaintext, marker + 1, Len(plaintext)) = payload
  <2>1. Written(plaintext, head, list, payload)
    BY <1>0, <1>1, Zenon DEF Written, Inside
  <2>2. -13 \in Int
    OBVIOUS
  <2>3. 2 = Len(head) + 1
    BY <1>2
  <2>4. ReadBack(plaintext, head, list, payload, s, -13, 2, marker)
    BY <1>1, <1>2, <2>1, <2>2, <2>3, WrittenRead, ZenonT(40)
  <2> QED BY <2>4, Zenon DEF ReadBack
<1>4. plaintext[1] = code
  <2>1. PICK rest : rest = options_into_byte_string(list) \o PayloadPart(payload)
    OBVIOUS
  <2>2. SubSeq(plaintext, 1, 1)[1] = plaintext[1]
    <3>1. SubSeq(plaintext, 1, 1) = [i \in 1 .. 1 |-> plaintext[i + 1 - 1]]
      BY <1>3
    <3>2. 1 \in 1 .. 1 /\ 1 + 1 - 1 = 1
      OBVIOUS
    <3> QED BY <3>1, <3>2
  <2> QED BY <1>2, <1>3, <2>2
<1>5. PICK read : read = ReadOptions(plaintext, s, 2, marker - 1, -13)
  OBVIOUS
<1>6. read.err = "ok" /\ read.options = list
  BY <1>3, <1>5
<1> QED BY <1>0, <1>1, <1>3, <1>4, <1>5, <1>6, Zenon
    DEF PlaintextReads, oscore_decrypted_payload_parser

-----------------------------------------------------------------------------
(* The two classes                                                         *)

Same(o, p) == o.number = p.number /\ o.value = p.value

\* The deltas change, the numbers and the values do not.
Renumbered(list, new) ==
  /\ Len(new) = Len(list)
  /\ \A k \in 1 .. Len(list) : Same(new[k], list[k])
Deltas == 0 .. 65535
WideOptions == [delta : Deltas, number : 0 .. 255, value : ShortValues]

\* A 16 bit difference is a delta.
LEMMA U16Wraps == ASSUME NEW x \in Int PROVE U16(x) \in Deltas
<1>1. PICK m : m = 65535
  OBVIOUS
<1>2. m \in Nat /\ m + 1 = 65536
  BY <1>1, SMT
<1>3. U16(x) = x % (m + 1) /\ Deltas = 0 .. m
  BY <1>1, <1>2, SMT DEF U16, Deltas
<1>4. x % (m + 1) \in 0 .. m
  BY <1>2, SMT
<1> QED BY <1>3, <1>4, Zenon

LEMMA ShortIsWide ==
  ASSUME NEW list \in Seq(ShortOptions)
  PROVE  list \in Seq(WideOptions)
<1>1. 0 .. 12 \subseteq Deltas
  BY SMTT(30) DEF Deltas
<1>2. ShortOptions \subseteq WideOptions
  BY <1>1 DEF ShortOptions, WideOptions
<1> HIDE DEF ShortOptions, WideOptions
<1> QED BY <1>2

LEMMA RenumberFacts ==
  ASSUME NEW list \in Seq(WideOptions)
  PROVE  Renumbered(list, Renumber(list)) /\ Renumber(list) \in Seq(WideOptions)
<1> DEFINE n == Len(list)
           d(k) == U16(list[k].number - (IF k = 1 THEN 0 ELSE list[k - 1].number))
<1>1. DOMAIN list = 1 .. n /\ n \in Nat /\ \A k \in 1 .. n : list[k] \in WideOptions
  OBVIOUS
<1>2. Renumber(list) = [k \in 1 .. n |-> [list[k] EXCEPT !.delta = d(k)]]
  BY <1>1 DEF Renumber
<1>3. ASSUME NEW o \in WideOptions, NEW x PROVE Same([o EXCEPT !.delta = x], o)
  BY DEF WideOptions, Same
<1>4. ASSUME NEW o \in WideOptions, NEW x \in Deltas
      PROVE  [o EXCEPT !.delta = x] \in WideOptions
  BY DEF WideOptions
<1>5. ASSUME NEW k \in 1 .. n PROVE d(k) \in Deltas
  <2>1. ASSUME NEW i \in 1 .. n PROVE list[i].number \in Int
    <3>1. list[i] \in WideOptions
      BY <1>1
    <3>2. list[i].number \in 0 .. 255
      BY <3>1, Zenon DEF WideOptions
    <3>3. \A x \in 0 .. 255 : x \in Int
      OBVIOUS
    <3> QED BY <3>2, <3>3, Zenon
  <2>2. PICK a, c : a = list[k].number /\ c = IF k = 1 THEN 0 ELSE list[k - 1].number
    OBVIOUS
  <2>3. a \in Int /\ c \in Int
    <3>1. k # 1 => k - 1 \in 1 .. n
      BY <1>1
    <3> QED BY <2>1, <2>2, <3>1
  <2>4. ASSUME NEW x \in Int PROVE U16(x) \in Deltas
    BY U16Wraps, Zenon
  <2>5. a - c \in Int
    BY <2>3
  <2> QED BY <2>2, <2>4, <2>5, Zenon
<1> HIDE DEF d, n
<1>6. \A k \in 1 .. n : Same(Renumber(list)[k], list[k])
  BY <1>1, <1>2, <1>3
<1>7. Renumber(list) \in Seq(WideOptions) /\ Len(Renumber(list)) = n
  <2>1. ASSUME NEW m \in Nat, NEW T, NEW f, DOMAIN f = 1 .. m, f = [k \in 1 .. m |-> f[k]],
               \A k \in 1 .. m : f[k] \in T
        PROVE  f \in Seq(T) /\ Len(f) = m
    BY <2>1
  <2>2. PICK f : f = Renumber(list)
    OBVIOUS
  <2>3. DOMAIN f = 1 .. n /\ f = [k \in 1 .. n |-> f[k]]
    BY <1>2, <2>2
  <2>4. \A k \in 1 .. n : f[k] \in WideOptions
    BY <1>1, <1>2, <1>4, <1>5, <2>2
  <2> QED BY <1>1, <2>1, <2>2, <2>3, <2>4
<1> QED BY <1>6, <1>7 DEF Renumbered, n

\* c[k] of the first k of n options have a number of the class, and part has
\* them in their order.
Listed(list, n, class, c, part) ==
  /\ c \in [0 .. n -> Nat] /\ c[0] = 0 /\ Len(part) = c[n]
  /\ \A k \in 1 .. n : c[k] = IF list[k].number \in class THEN c[k - 1] + 1 ELSE c[k - 1]
  /\ \A j, k \in 0 .. n : j <= k => c[j] <= c[k]
  /\ \A k \in 1 .. n :
       list[k].number \in class => c[k] \in 1 .. c[n] /\ Same(part[c[k]], list[k])
  /\ \A i \in 1 .. c[n] : \E k \in 1 .. n : list[k].number \in class /\ c[k] = i
IsListed(list, n, class, part) == \E c : Listed(list, n, class, c, part)

LEMMA PartListed ==
  ASSUME NEW list \in Seq(ShortOptions), NEW n, n = Len(list), NEW class
  PROVE  /\ IsListed(list, n, class, OptionsOf(list, class))
         /\ IsListed(list, n, class, Renumber(OptionsOf(list, class)))
         /\ OptionsOf(list, class) \in Seq(ShortOptions)
         /\ Renumber(OptionsOf(list, class)) \in Seq(WideOptions)
<1>1. PICK c : Places(ShortOptions, list, class, c)
  BY OptionsOfPlaces DEF HasPlaces
<1>2. PICK part, new : part = OptionsOf(list, class) /\ new = Renumber(part)
  OBVIOUS
<1>3. n \in Nat
  OBVIOUS
<1>4. part \in Seq(ShortOptions)
  BY <1>1, <1>2 DEF Places
<1>5. Renumbered(part, new) /\ new \in Seq(WideOptions)
  BY <1>2, <1>4, ShortIsWide, RenumberFacts
<1>6. /\ c \in [0 .. n -> Nat] /\ c[0] = 0 /\ Len(part) = c[n]
      /\ \A k \in 1 .. n : c[k] = IF list[k].number \in class THEN c[k - 1] + 1 ELSE c[k - 1]
      /\ \A j, k \in 0 .. n : j <= k => c[j] <= c[k]
      /\ \A k \in 1 .. n :
           list[k].number \in class => c[k] \in 1 .. c[n] /\ part[c[k]] = list[k]
      /\ \A i \in 1 .. c[n] : \E k \in 1 .. n : list[k].number \in class /\ c[k] = i
  BY <1>1, <1>2, Zenon DEF Places, Counts
<1>7. Len(new) = c[n] /\ \A i \in 1 .. c[n] : Same(new[i], part[i])
  BY <1>5, <1>6, Zenon DEF Renumbered
<1>8. Listed(list, n, class, c, part)
  <2>1. \A k \in 1 .. n :
          list[k].number \in class => c[k] \in 1 .. c[n] /\ Same(part[c[k]], list[k])
    BY <1>6, Zenon DEF Same
  <2> QED BY <1>6, <2>1, Zenon DEF Listed
<1>9. Listed(list, n, class, c, new)
  <2>1. \A k \in 1 .. n :
          list[k].number \in class => c[k] \in 1 .. c[n] /\ Same(new[c[k]], list[k])
    <3> SUFFICES ASSUME NEW k \in 1 .. n, list[k].number \in class
                 PROVE  c[k] \in 1 .. c[n] /\ Same(new[c[k]], list[k])
      OBVIOUS
    <3>1. c[k] \in 1 .. c[n] /\ part[c[k]] = list[k]
      BY <1>6
    <3>2. Same(new[c[k]], part[c[k]])
      BY <1>7, <3>1, Zenon
    <3> QED BY <3>1, <3>2, Zenon
  <2> QED BY <1>6, <1>7, <2>1, Zenon DEF Listed
<1> QED BY <1>2, <1>4, <1>5, <1>8, <1>9, Zenon DEF IsListed

-----------------------------------------------------------------------------
(* The merge                                                               *)

\* new has at b[p] what num has at p; what is equal in num keeps its order.
Sorts(n, num, new, b) ==
  /\ n \in Nat /\ num \in [1 .. n -> Nat] /\ new \in [1 .. n -> Nat] /\ b \in [1 .. n -> 1 .. n]
  /\ \A p, q \in 1 .. n : p <= q => num[p] <= num[q]
  /\ \A p, q \in 1 .. n : p < q /\ num[p] = num[q] => b[p] < b[q]
  /\ \A p, q \in 1 .. n : b[p] = b[q] => p = q
  /\ \A i \in 1 .. n : \E p \in 1 .. n : b[p] = i
  /\ \A p \in 1 .. n : new[b[p]] = num[p]

\* The order that options_from_oscore_reorder goes by is that of the numbers.
LEMMA RanksCompare ==
  ASSUME NEW q \in Nat, NEW p \in Nat, NEW nq \in Nat, NEW np \in Nat, NEW bq \in Nat,
         NEW bp \in Nat,
         q <= p => nq <= np, p <= q => np <= nq,
         q < p /\ nq = np => bq < bp, p < q /\ np = nq => bp < bq, q = p => bq = bp
  PROVE  (nq < np \/ (nq = np /\ bq <= bp)) <=> q <= p
OBVIOUS

\* The places that Rank counts.
Until(new, c, y) == {j \in DOMAIN new : \/ new[j] < c
                                        \/ new[j] = c /\ j <= y}

IsUntil(new, c, y, x, a) == x \in Until(new, c, y) <=> (a < c \/ (a = c /\ x <= y))

LEMMA UntilFacts ==
  ASSUME NEW new, NEW c, NEW y, NEW x \in DOMAIN new, NEW a, a = new[x]
  PROVE  IsUntil(new, c, y, x, a)
BY DEF Until, IsUntil

LEMMA RankIs ==
  ASSUME NEW n, NEW num, NEW new, NEW b, Sorts(n, num, new, b), NEW p \in 1 .. n
  PROVE  Rank(new, b[p]) = p
<1> USE DEF Sorts
<1> DEFINE S == Until(new, new[b[p]], b[p])
<1>1. Rank(new, b[p]) = Cardinality(S)
  BY DEF Rank, Until
<1>2. DOMAIN new = 1 .. n /\ b[p] \in 1 .. n /\ new[b[p]] = num[p] /\ p \in Nat /\ n \in Nat
  OBVIOUS
<1>3. ASSUME NEW q \in 1 .. n PROVE b[q] \in S <=> q <= p
  <2>1. b[q] \in DOMAIN new /\ new[b[q]] = num[q] /\ new[b[p]] = num[p]
    OBVIOUS
  <2>3. num[q] \in Nat /\ num[p] \in Nat /\ b[q] \in 1 .. n /\ b[p] \in 1 .. n /\ n \in Nat
    OBVIOUS
  <2>4. PICK nq, np, bq, bp : nq = num[q] /\ np = num[p] /\ bq = b[q] /\ bp = b[p]
    BY Zenon
  <2>5. /\ q <= p => nq <= np
        /\ p <= q => np <= nq
        /\ q < p /\ nq = np => bq < bp
        /\ p < q /\ np = nq => bp < bq
        /\ q = p => bq = bp
    BY <2>4
  <2>6. nq \in Nat /\ np \in Nat /\ bq \in Nat /\ bp \in Nat /\ p \in Nat /\ q \in Nat
    <3>1. \A i \in 1 .. n : i \in Nat
      OBVIOUS
    <3> QED BY <2>3, <2>4, <3>1, Zenon
  <2>7. (nq < np \/ (nq = np /\ bq <= bp)) <=> q <= p
    BY <2>5, <2>6, RanksCompare
  <2>8. bq \in Until(new, np, bp) <=> (nq < np \/ (nq = np /\ bq <= bp))
    <3>1. bq \in DOMAIN new /\ nq = new[bq]
      BY <2>1, <2>4, Zenon
    <3>2. IsUntil(new, np, bp, bq, nq)
      BY <3>1, UntilFacts
    <3> QED BY <3>2, Zenon DEF IsUntil
  <2>9. S = Until(new, np, bp)
    BY <2>1, <2>4, Zenon
  <2> HIDE DEF S
  <2> QED BY <2>4, <2>7, <2>8, <2>9, Zenon
<1>4. \A j \in S : \E q \in 1 .. p : b[q] = j
  <2> SUFFICES ASSUME NEW j \in S PROVE \E q \in 1 .. p : b[q] = j
    OBVIOUS
  <2>1. PICK q \in 1 .. n : b[q] = j
    <3>1. j \in 1 .. n
      BY <1>2 DEF Until
    <3> QED BY <3>1
  <2>2. q <= p
    <3> HIDE DEF S
    <3> QED BY <1>3, <2>1
  <2> QED BY <2>1, <2>2
<1>5. \A q \in 1 .. p : q \in 1 .. n /\ q <= p
  BY <1>2
<1> HIDE DEF S
<1> DEFINE g == [q \in 1 .. p |-> b[q]]
<1>6. g \in [1 .. p -> S] /\ \A q \in 1 .. p : g[q] = b[q]
  BY <1>3, <1>5
<1>7. ExistsBijection(1 .. p, S)
  <2> HIDE DEF g
  <2>1. g \in Injection(1 .. p, S)
    BY <1>5, <1>6 DEF Injection, IsInjective
  <2>2. g \in Surjection(1 .. p, S)
    BY <1>4, <1>6 DEF Surjection
  <2> QED BY <2>1, <2>2 DEF ExistsBijection, Bijection
<1>8. Cardinality(S) = p
  BY <1>2, <1>7, FS_CountingElements
<1> QED BY <1>1, <1>8

LEMMA IncreasingIs ==
  ASSUME NEW n, NEW num, NEW new, NEW b, Sorts(n, num, new, b)
  PROVE  Increasing(new) = num
<1>1. \A p \in 1 .. n : Rank(new, b[p]) = p
  BY RankIs
<1>2. DOMAIN new = 1 .. n /\ num \in [1 .. n -> Nat]
  BY DEF Sorts
<1>3. ASSUME NEW i \in 1 .. n
      PROVE  Increasing(new)[i] = num[i]
  <2>1. PICK x : x = CHOOSE k \in DOMAIN new : Rank(new, k) = i
    OBVIOUS
  <2>2. \E k \in DOMAIN new : Rank(new, k) = i
    <3>1. b[i] \in DOMAIN new
      BY DEF Sorts
    <3> QED BY <1>1, <3>1
  <2>3. x \in 1 .. n /\ Rank(new, x) = i
    BY <1>2, <2>1, <2>2, Zenon
  <2>6. Increasing(new)[i] = new[x]
    <3>1. i \in DOMAIN new
      BY <1>2
    <3> QED BY <2>1, <3>1, Zenon DEF Increasing
  <2>4. PICK q \in 1 .. n : b[q] = x
    BY <2>3 DEF Sorts
  <2>5. q = i
    BY <1>1, <2>3, <2>4
  <2> QED BY <2>4, <2>5, <2>6 DEF Sorts
<1>4. Increasing(new) = [i \in 1 .. n |-> Increasing(new)[i]]
  <2>1. Increasing(new) = [i \in DOMAIN new |-> new[CHOOSE k \in DOMAIN new : Rank(new, k) = i]]
    BY DEF Increasing
  <2> QED BY <1>2, <2>1
<1> QED BY <1>2, <1>3, <1>4


-----------------------------------------------------------------------------
(* The options of the outer message                                        *)

Inserted(v, n, x, w) ==
  /\ Len(w) = n + 1 /\ w[n + 1] = x
  /\ \A k \in 1 .. n : w[k] = v[k]

LEMMA InsertedLast ==
  ASSUME NEW T, NEW v \in Seq(T), NEW x \in T, NEW n, n = Len(v), NEW w, w = InsertAt(v, n + 1, x)
  PROVE  w \in Seq(T) /\ Inserted(v, n, x, w)
<1>1. n \in Nat /\ \A k \in 1 .. n : v[k] \in T
  OBVIOUS
<1>2. PICK l : l = n + 1
  OBVIOUS
<1>3. w = [j \in 1 .. l |-> IF j < l THEN v[j] ELSE IF j = l THEN x ELSE v[j - 1]]
  BY <1>2 DEF InsertAt
<1>4. l \in Nat /\ l \in 1 .. l /\ \A j \in 1 .. l : j < l \/ j = l
  BY <1>1, <1>2
<1>5. \A j \in 1 .. l : w[j] = IF j < l THEN v[j] ELSE x
  BY <1>3, <1>4
<1>6. \A j \in 1 .. n : j \in 1 .. l /\ j < l
  BY <1>1, <1>2
<1>7. \A j \in 1 .. l : j < l => j \in 1 .. n
  BY <1>1, <1>2
<1>8. w \in Seq(T) /\ Len(w) = l
  <2>1. \A j \in 1 .. l : w[j] \in T
    BY <1>1, <1>5, <1>7
  <2>2. DOMAIN w = 1 .. l /\ w = [j \in 1 .. l |-> w[j]]
    BY <1>3
  <2> QED BY <1>4, <2>1, <2>2
<1>9. w[l] = x
  BY <1>4, <1>5
<1>10. \A k \in 1 .. n : w[k] = v[k]
  BY <1>5, <1>6
<1> QED BY <1>2, <1>8, <1>9, <1>10 DEF Inserted

ClassUNumbers == (0 .. 255) \ ClassENumbers

LEMMA ClassesOfNumbers ==
  ASSUME NEW n \in 0 .. 255
  PROVE  /\ n \in ClassUNumbers <=> n \in {3, 7, 9, 35, 39}
         /\ n \in ClassUNumbers <=> n \notin ClassENumbers
BY DEF ClassUNumbers, ClassENumbers, is_class_e, COAP_OPTION_OSCORE

\* The class U options, and the OSCORE option after them.
OuterIs(outer, u, m, value) ==
  /\ m \in Nat /\ Len(u) = m /\ Len(outer) = m + 1
  /\ \A k \in 1 .. m : Same(outer[k], u[k]) /\ u[k].number \in {3, 7}
  /\ outer[m + 1].number = 9 /\ outer[m + 1].value = value

LEMMA OuterFacts ==
  ASSUME NEW list \in Seq(ShortOptions), NoProxy(list), NEW value \in ShortValues,
         NEW u, u = ClassU(list), NEW outer, outer = WithOscoreOption(u, value)
  PROVE  OuterIs(outer, u, Len(u), value)
<1>1. PICK n : n = Len(list)
  OBVIOUS
<1>2. n \in Nat /\ \A k \in 1 .. n : list[k] \in ShortOptions
  BY <1>1
<1>3. IsListed(list, n, ClassUNumbers, u) /\ u \in Seq(WideOptions)
  BY <1>1, PartListed DEF ClassU, ClassUNumbers
<1>4. PICK c : Listed(list, n, ClassUNumbers, c, u)
  BY <1>3 DEF IsListed
<1>5. PICK m : m = Len(u)
  OBVIOUS
<1>6. m \in Nat /\ \A i \in 1 .. m : u[i] \in WideOptions
  BY <1>3, <1>5
<1>7. ASSUME NEW i \in 1 .. m PROVE u[i].number \in {3, 7}
  <2>1. PICK k \in 1 .. n : list[k].number \in ClassUNumbers /\ c[k] = i
    BY <1>4, <1>5, Zenon DEF Listed
  <2>2. Same(u[i], list[k])
    BY <1>4, <2>1, Zenon DEF Listed
  <2>3. list[k].number \in 0 .. 255
    BY <1>2, ShortOptionFacts
  <2>4. list[k].number \notin {9, 35, 39}
    BY <1>1 DEF NoProxy
  <2>5. list[k].number \in {3, 7, 9, 35, 39}
    BY <2>1, <2>3, ClassesOfNumbers
  <2> QED BY <2>2, <2>4, <2>5 DEF Same
<1>8. SelectInSeq(u, LAMBDA o : o.number > COAP_OPTION_OSCORE) = 0
  <2>1. {i \in 1 .. m : u[i].number > COAP_OPTION_OSCORE} = {}
    <3>1. \A i \in 1 .. m : ~(u[i].number > 9)
      BY <1>7
    <3> QED BY <3>1 DEF COAP_OPTION_OSCORE
  <2> QED BY <1>5, <2>1, Zenon DEF SelectInSeq
<1>9. PICK osc, pre : /\ osc = [delta |-> 0, number |-> 9, value |-> value]
                      /\ pre = InsertAt(u, m + 1, osc)
  OBVIOUS
<1>10. osc \in WideOptions /\ osc.number = 9 /\ osc.value = value
  <2>1. 0 \in Deltas /\ 9 \in 0 .. 255
    BY DEF Deltas
  <2> QED BY <1>9, <2>1 DEF WideOptions
<1>11. outer = Renumber(pre)
  <2>1. 0 = 0 /\ m + 1 = Len(u) + 1
    BY <1>5
  <2> QED BY <1>5, <1>8, <1>9, Zenon DEF WithOscoreOption, COAP_OPTION_OSCORE
<1>12. pre \in Seq(WideOptions) /\ Inserted(u, m, osc, pre)
  BY <1>3, <1>5, <1>9, <1>10, InsertedLast
<1>13. Renumbered(pre, outer)
  BY <1>11, <1>12, RenumberFacts
<1>14. Len(pre) = m + 1 /\ pre[m + 1] = osc /\ \A k \in 1 .. m : pre[k] = u[k]
  BY <1>12 DEF Inserted
<1>15. \A k \in 1 .. m : k \in 1 .. (m + 1)
  BY <1>6
<1>16. m + 1 \in 1 .. (m + 1)
  BY <1>6
<1>17. Len(outer) = m + 1 /\ \A k \in 1 .. (m + 1) : Same(outer[k], pre[k])
  BY <1>13, <1>14 DEF Renumbered
<1>18. \A k \in 1 .. m : Same(outer[k], u[k])
  BY <1>14, <1>15, <1>17
<1>19. outer[m + 1].number = 9 /\ outer[m + 1].value = value
  BY <1>10, <1>14, <1>16, <1>17 DEF Same
<1> QED BY <1>5, <1>6, <1>7, <1>17, <1>18, <1>19, Zenon DEF OuterIs

\* The merge passes over the OSCORE option only.
Passed(outer, o, m) == Len(o) = m /\ \A k \in 1 .. m : o[k] = outer[k]

LEMMA PassedFacts ==
  ASSUME NEW outer \in Seq(ShortOptions), NEW u, NEW m, NEW value, OuterIs(outer, u, m, value)
  PROVE  /\ Passed(outer, OptionsOf(outer, NotOscore), m)
         /\ OptionsOf(outer, NotOscore) \in Seq(ShortOptions)
<1>1. PICK c : Places(ShortOptions, outer, NotOscore, c)
  BY OptionsOfPlaces DEF HasPlaces
<1>2. PICK o : o = OptionsOf(outer, NotOscore)
  OBVIOUS
<1>3. /\ m \in Nat /\ Len(outer) = m + 1 /\ outer[m + 1].number = 9
      /\ \A k \in 1 .. m : outer[k].number \in {3, 7}
  BY DEF OuterIs, Same
<1>4. PICK l : l = m + 1
  OBVIOUS
<1>5. l \in Nat /\ l \in 1 .. l /\ l - 1 = m /\ \A k \in 1 .. m : k \in 1 .. l
  BY <1>3, <1>4
<1>6. /\ c \in [0 .. l -> Nat] /\ c[0] = 0 /\ o \in Seq(ShortOptions) /\ Len(o) = c[l]
      /\ \A k \in 1 .. l :
           c[k] = IF outer[k].number \in NotOscore THEN c[k - 1] + 1 ELSE c[k - 1]
      /\ \A k \in 1 .. l : outer[k].number \in NotOscore => o[c[k]] = outer[k]
  BY <1>1, <1>2, <1>3, <1>4, Zenon DEF Places, Counts
<1>7. \A k \in 1 .. m : outer[k].number \in NotOscore
  <2>1. \A x \in {3, 7} : x \in NotOscore
    BY DEF NotOscore, COAP_OPTION_OSCORE
  <2> QED BY <1>3, <2>1, Zenon
<1>8. ~(outer[l].number \in NotOscore)
  BY <1>3, <1>4 DEF NotOscore, COAP_OPTION_OSCORE
<1>9. \A k \in 0 .. m : c[k] = k
  <2> DEFINE S == {k \in 0 .. m : c[k] = k}
  <2>1. 0 \in S
    BY <1>3, <1>6
  <2>2. ASSUME NEW k \in 0 .. m, k \in S, k < m PROVE k + 1 \in S
    <3>1. k + 1 \in 1 .. m /\ k + 1 \in 0 .. m /\ k + 1 \in 1 .. l /\ k + 1 - 1 = k
      BY <1>3, <1>4, <2>2
    <3>2. c[k + 1] = c[k] + 1
      BY <1>6, <1>7, <3>1
    <3> QED BY <2>2, <3>1, <3>2
  <2>3. \A k \in 0 .. m : k \in S
    <3> HIDE DEF S
    <3> QED BY <1>3, <2>1, <2>2, Upward
  <2> QED BY <2>3
<1>10. c[l] = m
  <2>1. c[l] = c[m]
    BY <1>5, <1>6, <1>8
  <2>2. m \in 0 .. m
    BY <1>3
  <2> QED BY <1>9, <2>1, <2>2
<1>11. ASSUME NEW k \in 1 .. m PROVE o[k] = outer[k]
  <2>1. k \in 0 .. m /\ k \in 1 .. l
    BY <1>5
  <2>2. c[k] = k
    BY <1>9, <2>1
  <2> QED BY <1>6, <1>7, <2>1, <2>2
<1> QED BY <1>2, <1>6, <1>10, <1>11, Zenon DEF Passed

\* Options in the order of their numbers.
Ordered(list, n) == \A p, q \in 1 .. n : p <= q => list[p].number <= list[q].number

LEMMA ShortListOrdered ==
  ASSUME NEW list, ShortList(list), NEW n, n = Len(list)
  PROVE  Ordered(list, n)
<1>1. n \in Nat /\ \A k \in 1 .. n : /\ list[k].delta \in 0 .. 12 /\ list[k].number \in 0 .. 255
                                     /\ list[k].number = NumberBefore(list, k) + list[k].delta
  BY ShortListFacts
<1>2. ASSUME NEW k \in 1 .. n, k > 1 PROVE list[k - 1].number <= list[k].number
  <2>1. PICK a, c, d : a = list[k - 1].number /\ c = list[k].number /\ d = list[k].delta
    OBVIOUS
  <2>2. c = a + d
    <3>1. k # 1
      BY <1>2
    <3> QED BY <1>1, <2>1, <3>1 DEF NumberBefore
  <2>3. k - 1 \in 1 .. n
    BY <1>1, <1>2
  <2>4. a \in 0 .. 255 /\ d \in 0 .. 12
    BY <1>1, <2>1, <2>3
  <2>5. a <= c
    BY <2>2, <2>4
  <2> QED BY <2>1, <2>5
<1> DEFINE S == {k \in 0 .. n : \A p, q \in 1 .. k : p <= q => list[p].number <= list[q].number}
<1>3. 0 \in S
  BY <1>1
<1>4. ASSUME NEW k \in 0 .. n, k \in S, k < n PROVE k + 1 \in S
  <2>1. k + 1 \in 0 .. n /\ k + 1 \in 1 .. n /\ \A p \in 1 .. (k + 1) : p \in 1 .. k \/ p = k + 1
    BY <1>1, <1>4
  <2>2. ASSUME NEW p \in 1 .. (k + 1), NEW q \in 1 .. (k + 1), p <= q
        PROVE  list[p].number <= list[q].number
    <3>1. \A i \in 1 .. (k + 1) : i \in 1 .. n
      BY <1>1, <2>1
    <3>2. \A i \in 1 .. n : list[i].number \in Int
      <4>1. \A x \in 0 .. 255 : x \in Int
        OBVIOUS
      <4> QED BY <1>1, <4>1
    <3>3. CASE q \in 1 .. k
      <4>1. p \in 1 .. k
        BY <2>2, <3>3
      <4> QED BY <1>4, <2>2, <3>3, <4>1
    <3>4. CASE q = k + 1 /\ p = k + 1
      BY <3>1, <3>2, <3>4
    <3>5. CASE q = k + 1 /\ p \in 1 .. k
      <4>1. k \in 1 .. k /\ p <= k /\ k + 1 > 1 /\ k + 1 - 1 = k /\ k \in 1 .. (k + 1)
        BY <3>5
      <4>2. list[p].number <= list[k].number
        BY <1>4, <3>5, <4>1
      <4>3. list[k].number <= list[k + 1].number
        BY <1>2, <2>1, <4>1
      <4> QED BY <3>1, <3>2, <3>5, <4>1, <4>2, <4>3
    <3> QED BY <2>1, <3>3, <3>4, <3>5
  <2> QED BY <2>1, <2>2
<1>5. n \in S
  <2>1. n \in 0 .. n
    BY <1>1
  <2> HIDE DEF S
  <2> QED BY <1>1, <1>3, <1>4, <2>1, Upward
<1> QED BY <1>5 DEF Ordered

\* Every option of the list is in one of the parts u and e, whose lengths are
\* m and l.
Split(list, n, cu, ce, u, e, m, l) ==
  /\ n \in Nat /\ m \in Nat /\ l \in Nat /\ m = cu[n] /\ l = ce[n]
  /\ \A k \in 1 .. n : /\ list[k].number \in 0 .. 255
                       /\ list[k].number \in ClassUNumbers <=> list[k].number \notin ClassENumbers
  /\ Listed(list, n, ClassUNumbers, cu, u)
  /\ Listed(list, n, ClassENumbers, ce, e)

\* What is counted last is counted as one more.
LEMMA CountsGrow ==
  ASSUME NEW list, NEW n \in Nat, NEW class, NEW c, NEW part, Listed(list, n, class, c, part),
         NEW p \in 1 .. n, NEW q \in 1 .. n, p < q, list[q].number \in class
  PROVE  c[p] < c[q]
<1>1. q - 1 \in 0 .. n /\ p \in 0 .. n /\ p <= q - 1 /\ q \in 1 .. n
  OBVIOUS
<1>2. c[p] <= c[q - 1] /\ c[q] = c[q - 1] + 1
  BY <1>1 DEF Listed
<1>3. PICK a, d, f : a = c[p] /\ d = c[q - 1] /\ f = c[q]
  OBVIOUS
<1>4. a \in Nat /\ d \in Nat
  BY <1>1, <1>3 DEF Listed
<1>5. a < f
  BY <1>2, <1>3, <1>4
<1> QED BY <1>3, <1>5

LEMMA SumOfCounts ==
  ASSUME NEW list, NEW n, NEW cu, NEW ce, NEW u, NEW e, NEW m, NEW l,
         Split(list, n, cu, ce, u, e, m, l)
  PROVE  \A k \in 0 .. n : cu[k] \in Nat /\ ce[k] \in Nat /\ cu[k] + ce[k] = k
<1>1. /\ n \in Nat /\ cu \in [0 .. n -> Nat] /\ ce \in [0 .. n -> Nat] /\ cu[0] = 0 /\ ce[0] = 0
      /\ \A k \in 1 .. n :
           cu[k] = IF list[k].number \in ClassUNumbers THEN cu[k - 1] + 1 ELSE cu[k - 1]
      /\ \A k \in 1 .. n :
           ce[k] = IF list[k].number \in ClassENumbers THEN ce[k - 1] + 1 ELSE ce[k - 1]
      /\ \A k \in 1 .. n : list[k].number \in ClassUNumbers <=> list[k].number \notin ClassENumbers
  BY Zenon DEF Split, Listed
<1> DEFINE S == {k \in 0 .. n : cu[k] + ce[k] = k}
<1>2. 0 \in S
  BY <1>1
<1>3. ASSUME NEW k \in 0 .. n, k \in S, k < n PROVE k + 1 \in S
  <2>1. PICK i : i = k + 1
    OBVIOUS
  <2>2. i \in 1 .. n /\ i \in 0 .. n /\ i - 1 = k
    BY <1>1, <1>3, <2>1
  <2>3. PICK a, d : a = cu[k] /\ d = ce[k]
    OBVIOUS
  <2>4. a \in Nat /\ d \in Nat /\ a + d = k
    BY <1>1, <1>3, <2>3
  <2>5. \/ cu[i] = a + 1 /\ ce[i] = d
        \/ cu[i] = a /\ ce[i] = d + 1
    BY <1>1, <2>2, <2>3
  <2>6. (a + 1) + d = i /\ a + (d + 1) = i
    BY <2>1, <2>4
  <2>7. cu[i] + ce[i] = i
    BY <2>5, <2>6
  <2> QED BY <2>1, <2>2, <2>7
<1>4. \A k \in 0 .. n : k \in S
  <2> HIDE DEF S
  <2> QED BY <1>1, <1>2, <1>3, Upward
<1> QED BY <1>1, <1>4

\* Where the merge finds an option: first the class U options, then the others.
Place(list, cu, ce, m, p) == IF list[p].number \in ClassENumbers THEN m + ce[p] ELSE cu[p]
PlaceFunction(list, cu, ce, m, n) == [p \in 1 .. n |-> Place(list, cu, ce, m, p)]

NumberFunction(list, n) == [p \in 1 .. n |-> list[p].number]
Finds(new, n, u, e, m, l) ==
  /\ new \in [1 .. n -> Nat]
  /\ \A i \in 1 .. m : new[i] = u[i].number
  /\ \A i \in 1 .. l : new[m + i] = e[i].number

LEMMA PlaceFacts ==
  ASSUME NEW list, NEW n, NEW cu, NEW ce, NEW u, NEW e, NEW m, NEW l,
         Split(list, n, cu, ce, u, e, m, l), Ordered(list, n),
         NEW b, b = PlaceFunction(list, cu, ce, m, n),
         NEW new, Finds(new, n, u, e, m, l), NEW num, num = NumberFunction(list, n)
  PROVE  Sorts(n, num, new, b)
<1>0. /\ new \in [1 .. n -> Nat]
      /\ \A i \in 1 .. m : new[i] = u[i].number
      /\ \A i \in 1 .. l : new[m + i] = e[i].number
  BY Zenon DEF Finds
<1>1. /\ n \in Nat /\ m \in Nat /\ l \in Nat
      /\ \A k \in 1 .. n : /\ list[k].number \in 0 .. 255
                           /\ list[k].number \in ClassUNumbers <=> list[k].number \notin ClassENumbers
  BY Zenon DEF Split
<1>2. Listed(list, n, ClassUNumbers, cu, u) /\ Listed(list, n, ClassENumbers, ce, e)
      /\ m = cu[n] /\ l = ce[n]
  BY Zenon DEF Split
<1>3. m + l = n /\ \A k \in 0 .. n : cu[k] \in Nat /\ ce[k] \in Nat
  <2>1. \A k \in 0 .. n : cu[k] \in Nat /\ ce[k] \in Nat /\ cu[k] + ce[k] = k
    BY SumOfCounts
  <2>2. n \in 0 .. n
    BY <1>1
  <2> QED BY <1>2, <2>1, <2>2, Zenon
<1>4. ASSUME NEW p \in 1 .. n, list[p].number \in ClassENumbers
      PROVE  b[p] = m + ce[p] /\ ce[p] \in 1 .. l /\ new[b[p]] = list[p].number
  <2>1. b[p] = m + ce[p]
    BY <1>4 DEF PlaceFunction, Place
  <2>2. ce[p] \in 1 .. l /\ Same(e[ce[p]], list[p])
    BY <1>2, <1>4, Zenon DEF Listed
  <2>3. new[m + ce[p]] = e[ce[p]].number
    BY <1>0, <2>2, Zenon
  <2> QED BY <2>1, <2>2, <2>3, Zenon DEF Same
<1>5. ASSUME NEW p \in 1 .. n, list[p].number \notin ClassENumbers
      PROVE  b[p] = cu[p] /\ cu[p] \in 1 .. m /\ new[b[p]] = list[p].number
  <2>1. b[p] = cu[p]
    BY <1>5 DEF PlaceFunction, Place
  <2>2. cu[p] \in 1 .. m /\ Same(u[cu[p]], list[p])
    BY <1>1, <1>2, <1>5, Zenon DEF Listed
  <2>3. new[cu[p]] = u[cu[p]].number
    BY <1>0, <2>2, Zenon
  <2> QED BY <2>1, <2>2, <2>3, Zenon DEF Same
<1>6. b \in [1 .. n -> 1 .. n]
  <2>1. ASSUME NEW p \in 1 .. n PROVE b[p] \in 1 .. n
    <3>1. CASE list[p].number \in ClassENumbers
      <4>1. PICK i \in 1 .. l : b[p] = m + i
        BY <1>4, <3>1
      <4> QED BY <1>1, <1>3, <4>1
    <3>2. CASE list[p].number \notin ClassENumbers
      <4>1. PICK i \in 1 .. m : b[p] = i
        BY <1>5, <3>2
      <4> QED BY <1>1, <1>3, <4>1
    <3> QED BY <3>1, <3>2
  <2>2. DOMAIN b = 1 .. n /\ b = [p \in 1 .. n |-> b[p]]
    BY DEF PlaceFunction
  <2> QED BY <2>1, <2>2
<1>7. num \in [1 .. n -> Nat] /\ \A p \in 1 .. n : num[p] = list[p].number
  <2>1. \A x \in 0 .. 255 : x \in Nat
    OBVIOUS
  <2> QED BY <1>1, <2>1 DEF NumberFunction
<1>8. \A p, q \in 1 .. n : p <= q => num[p] <= num[q]
  BY <1>7 DEF Ordered
<1>9. ASSUME NEW p \in 1 .. n, NEW q \in 1 .. n, p < q,
             list[p].number \in ClassENumbers <=> list[q].number \in ClassENumbers
      PROVE  b[p] < b[q]
  <2>1. CASE list[q].number \in ClassENumbers
    <3>1. ce[p] < ce[q]
      BY <1>1, <1>2, <1>9, <2>1, CountsGrow
    <3>2. PICK i, j : i = ce[p] /\ j = ce[q]
      OBVIOUS
    <3>3. i \in 1 .. l /\ j \in 1 .. l /\ b[p] = m + i /\ b[q] = m + j
      BY <1>4, <1>9, <2>1, <3>2
    <3>4. m + i < m + j
      BY <1>1, <3>1, <3>2, <3>3
    <3> QED BY <3>3, <3>4
  <2>2. CASE list[q].number \notin ClassENumbers
    <3>1. list[q].number \in ClassUNumbers
      BY <1>1, <2>2
    <3>2. cu[p] < cu[q]
      BY <1>1, <1>2, <1>9, <3>1, CountsGrow
    <3> QED BY <1>5, <1>9, <2>2, <3>2
  <2> QED BY <2>1, <2>2
<1>10. \A p, q \in 1 .. n : p < q /\ num[p] = num[q] => b[p] < b[q]
  BY <1>7, <1>9
<1>11. ASSUME NEW p \in 1 .. n, NEW q \in 1 .. n, b[p] = b[q] PROVE p = q
  <2>1. CASE list[p].number \in ClassENumbers <=> list[q].number \in ClassENumbers
    <3>1. b[p] \in Nat /\ b[q] \in Nat
      <4>1. \A x \in 1 .. n : x \in Nat
        OBVIOUS
      <4> QED BY <1>6, <4>1
    <3>2. ~(p < q) /\ ~(q < p)
      BY <1>9, <1>11, <2>1, <3>1
    <3> QED BY <1>1, <3>2
  <2>2. CASE list[p].number \in ClassENumbers /\ list[q].number \notin ClassENumbers
    <3>1. PICK i \in 1 .. l : b[p] = m + i
      BY <1>4, <2>2
    <3>2. PICK j \in 1 .. m : b[q] = j
      BY <1>5, <2>2
    <3>3. m + i # j
      BY <1>1
    <3> QED BY <1>11, <3>1, <3>2, <3>3, Zenon
  <2>3. CASE list[p].number \notin ClassENumbers /\ list[q].number \in ClassENumbers
    <3>1. PICK i \in 1 .. l : b[q] = m + i
      BY <1>4, <2>3
    <3>2. PICK j \in 1 .. m : b[p] = j
      BY <1>5, <2>3
    <3>3. m + i # j
      BY <1>1
    <3> QED BY <1>11, <3>1, <3>2, <3>3, Zenon
  <2> QED BY <2>1, <2>2, <2>3
<1>12. ASSUME NEW i \in 1 .. n PROVE \E p \in 1 .. n : b[p] = i
  <2>1. CASE i \in 1 .. m
    <3>1. PICK p \in 1 .. n : list[p].number \in ClassUNumbers /\ cu[p] = i
      BY <1>2, <2>1, Zenon DEF Listed
    <3> QED BY <1>1, <1>5, <3>1
  <2>2. CASE i \notin 1 .. m
    <3>1. PICK j \in 1 .. l : i = m + j
      <4>1. i - m \in 1 .. l /\ i = m + (i - m)
        BY <1>1, <1>3, <2>2
      <4> QED BY <4>1
    <3>2. PICK p \in 1 .. n : list[p].number \in ClassENumbers /\ ce[p] = j
      BY <1>2, <3>1, Zenon DEF Listed
    <3> QED BY <1>4, <3>1, <3>2
  <2> QED BY <2>1, <2>2
<1>13. \A p \in 1 .. n : new[b[p]] = num[p]
  BY <1>4, <1>5, <1>7
<1> QED BY <1>0, <1>1, <1>6, <1>7, <1>8, <1>10, <1>11, <1>12, <1>13, Zenon DEF Sorts

\* One number of the merge.
NthOf(options, k, s) ==
  IF k \in DOMAIN options THEN options[k]
  ELSE [delta |-> s, number |-> s, value |-> <<>>]
TakeNext(outer, inner, s, st, number) ==
  IF number = NthOf(outer, st.u, s).number
  THEN [st EXCEPT !.u = @ + 1, !.out = Append(@, NthOf(outer, st.u, s))]
  ELSE IF number = NthOf(inner, st.e, s).number
  THEN [st EXCEPT !.e = @ + 1, !.out = Append(@, NthOf(inner, st.e, s))]
  ELSE st
NoneTaken == [u |-> 1, e |-> 1, out |-> <<>>]
Merged(outer, inner, s, numbers) ==
  FoldLeft(LAMBDA st, number : TakeNext(outer, inner, s, st, number), NoneTaken, numbers)
NumbersOf(list) == [k \in DOMAIN list |-> list[k].number]

LEMMA ReorderIsMerge ==
  ASSUME NEW outer, NEW inner, NEW s
  PROVE  options_from_oscore_reorder(outer, inner, s)
           = Renumber(Merged(outer, inner, s,
               Increasing(NumbersOf(OptionsOf(outer, NotOscore) \o inner))).out)
BY Zenon DEF options_from_oscore_reorder, Merged, TakeNext, NthOf, NoneTaken, NumbersOf, FoldLeft,
             MapThenFoldSet

\* What the merge has after the first k numbers.
MixOptions == [delta : 0 .. 255, number : 0 .. 255, value : ShortValues]
MergeStates == [u : Nat, e : Nat, out : Seq(MixOptions)]

LEMMA TakeNextType ==
  ASSUME NEW outer \in Seq(ShortOptions), NEW inner \in Seq(ShortOptions), NEW s \in 0 .. 255,
         NEW st \in MergeStates, NEW number
  PROVE  TakeNext(outer, inner, s, st, number) \in MergeStates
<1>1. ShortOptions \subseteq MixOptions
  <2>1. 0 .. 12 \subseteq 0 .. 255
    OBVIOUS
  <2> QED BY <2>1, ZenonT(40) DEF ShortOptions, MixOptions
<1>2. <<>> \in ShortValues
  <2>1. <<>> \in Seq(0 .. 254) /\ Len(<<>>) = 0 /\ 0 <= 12
    OBVIOUS
  <2> QED BY <2>1, Zenon DEF ShortValues
<1>3. ASSUME NEW list \in Seq(ShortOptions), NEW k PROVE NthOf(list, k, s) \in MixOptions
  <2>1. CASE k \in DOMAIN list
    <3>1. list[k] \in ShortOptions
      BY <2>1
    <3> QED BY <1>1, <2>1, <3>1, Zenon DEF NthOf
  <2>2. CASE k \notin DOMAIN list
    <3>1. [delta |-> s, number |-> s, value |-> <<>>] \in MixOptions
      BY <1>2 DEF MixOptions
    <3> QED BY <2>2, <3>1, Zenon DEF NthOf
  <2> QED BY <2>1, <2>2
<1>4. st.u \in Nat /\ st.e \in Nat /\ st.out \in Seq(MixOptions)
  BY DEF MergeStates
<1>5. PICK x, y : x = NthOf(outer, st.u, s) /\ y = NthOf(inner, st.e, s)
  OBVIOUS
<1>6. x \in MixOptions /\ y \in MixOptions
  BY <1>3, <1>5
<1>7. Append(st.out, x) \in Seq(MixOptions) /\ Append(st.out, y) \in Seq(MixOptions)
  BY <1>4, <1>6
<1>8. st.u + 1 \in Nat /\ st.e + 1 \in Nat
  BY <1>4
<1>9. PICK v, w, i, j : v = Append(st.out, x) /\ w = Append(st.out, y) /\ i = st.u + 1 /\ j = st.e + 1
  OBVIOUS
<1>10. /\ [st EXCEPT !.u = i, !.out = v] \in MergeStates
       /\ [st EXCEPT !.e = j, !.out = w] \in MergeStates
  BY <1>7, <1>8, <1>9 DEF MergeStates
<1>11. \/ TakeNext(outer, inner, s, st, number) = [st EXCEPT !.u = i, !.out = v]
       \/ TakeNext(outer, inner, s, st, number) = [st EXCEPT !.e = j, !.out = w]
       \/ TakeNext(outer, inner, s, st, number) = st
  BY <1>5, <1>9, Zenon DEF TakeNext
<1> QED BY <1>10, <1>11, Zenon

MergeSteps(F, n, outer, inner, s, numbers) ==
  /\ F[0] = NoneTaken
  /\ \A k \in 1 .. n : F[k] = TakeNext(outer, inner, s, F[k - 1], numbers[k])

HasMerge(n, outer, inner, s, numbers) ==
  \E F : MergeSteps(F, n, outer, inner, s, numbers) /\ Merged(outer, inner, s, numbers) = F[n]

LEMMA MergeFold ==
  ASSUME NEW outer \in Seq(ShortOptions), NEW inner \in Seq(ShortOptions), NEW s \in 0 .. 255,
         NEW n \in Nat, NEW numbers, DOMAIN numbers = 1 .. n
  PROVE  HasMerge(n, outer, inner, s, numbers)
<1> DEFINE T == MergeStates
           body(st, number) == TakeNext(outer, inner, s, st, number)
           iter[t \in SUBSET (1 .. n)] ==
             IF t = {} THEN NoneTaken ELSE body(iter[t \ {Max(t)}], numbers[Max(t)])
           Op == [k \in 1 .. n |-> [st \in T |-> body(st, numbers[k])]]
<1>1. Merged(outer, inner, s, numbers) = iter[1 .. n]
  BY DEF Merged, FoldLeft, MapThenFoldSet
<1>2. \A st \in T, k \in 1 .. n : body(st, numbers[k]) \in T
  BY TakeNextType
<1>3. NoneTaken \in T
  <2>1. <<>> \in Seq(MixOptions)
    OBVIOUS
  <2> QED BY <2>1 DEF NoneTaken, MergeStates
<1> HIDE DEF T, body
<1>4. Op \in [1 .. n -> [T -> T]]
  BY <1>2
<1>5. PICK g \in [SUBSET (1 .. n) -> T] : IsFold(g, n, NoneTaken, Op)
  <2> HIDE DEF Op
  <2> QED BY <1>3, <1>4, FoldExists
<1>6. ASSUME NEW t \in SUBSET (1 .. n)
      PROVE  g[t] = IF t = {} THEN NoneTaken ELSE body(g[t \ {Max(t)}], numbers[Max(t)])
  <2>1. t # {} => Max(t) \in 1 .. n
    BY MaxFacts
  <2>2. g[t \ {Max(t)}] \in T
    OBVIOUS
  <2> QED BY <1>5, <2>1, <2>2 DEF IsFold
<1>7. g = [t \in SUBSET (1 .. n) |->
             IF t = {} THEN NoneTaken ELSE body(g[t \ {Max(t)}], numbers[Max(t)])]
  BY <1>6
<1>8. iter = [t \in SUBSET (1 .. n) |->
                IF t = {} THEN NoneTaken ELSE body(iter[t \ {Max(t)}], numbers[Max(t)])]
  BY <1>7
<1> HIDE DEF iter
<1>9. iter[{}] = NoneTaken
  <2>1. {} \in SUBSET (1 .. n)
    OBVIOUS
  <2> QED BY <1>8, <2>1
<1>10. ASSUME NEW t \in SUBSET (1 .. n), t # {}, iter[t \ {Max(t)}] \in T
       PROVE  iter[t] = Op[Max(t)][iter[t \ {Max(t)}]]
  <2>1. Max(t) \in 1 .. n
    BY <1>10, MaxFacts
  <2>2. iter[t] = body(iter[t \ {Max(t)}], numbers[Max(t)])
    BY <1>8, <1>10
  <2> QED BY <1>10, <2>1, <2>2
<1>11. PICK F \in [0 .. n -> T] : IsIterates(F, n, NoneTaken, Op) /\ F[n] = iter[1 .. n]
  <2> HIDE DEF Op
  <2>1. FoldsWithin(iter, n, T, NoneTaken, Op)
    BY <1>9, <1>10 DEF FoldsWithin
  <2>2. PICK D, base, it, op, m : D = T /\ base = NoneTaken /\ it = iter /\ op = Op /\ m = n
    BY Zenon
  <2>3. m \in Nat /\ base \in D /\ op \in [1 .. m -> [D -> D]] /\ FoldsWithin(it, m, D, base, op)
    BY <1>3, <1>4, <2>1, <2>2, Zenon
  <2>4. HasIterates(it, m, D, base, op)
    BY <2>3, FoldIterates
  <2> QED BY <2>2, <2>4, Zenon DEF HasIterates
<1>12. ASSUME NEW k \in 1 .. n PROVE F[k] = body(F[k - 1], numbers[k])
  <2>1. F[k - 1] \in T
    <3>1. k - 1 \in 0 .. n
      OBVIOUS
    <3> QED BY <3>1
  <2> QED BY <1>11, <2>1 DEF IsIterates
<1>13. F[0] = NoneTaken
  BY <1>11 DEF IsIterates
<1>14. MergeSteps(F, n, outer, inner, s, numbers)
  BY <1>12, <1>13, Zenon DEF MergeSteps, body
<1> QED BY <1>1, <1>11, <1>14, Zenon DEF HasMerge

\* o has the numbers and the values of the first k options.
Follows(o, list, k) ==
  /\ o \in Seq(ShortOptions) /\ Len(o) = k
  /\ \A j \in 1 .. k : Same(o[j], list[j])

LEMMA AppendFollows ==
  ASSUME NEW o, NEW list, NEW k \in Nat, Follows(o, list, k), NEW x \in ShortOptions,
         NEW i, i = k + 1, Same(x, list[i])
  PROVE  Follows(Append(o, x), list, i)
<1>1. o \in Seq(ShortOptions) /\ Len(o) = k /\ \A j \in 1 .. k : Same(o[j], list[j])
  BY DEF Follows
<1>2. PICK v : v = Append(o, x)
  OBVIOUS
<1>3. v \in Seq(ShortOptions) /\ Len(v) = k + 1 /\ v[k + 1] = x /\ \A j \in 1 .. k : v[j] = o[j]
  BY <1>1, <1>2
<1>4. \A j \in 1 .. i : j \in 1 .. k \/ j = i
  OBVIOUS
<1>5. \A j \in 1 .. i : Same(v[j], list[j])
  <2> SUFFICES ASSUME NEW j \in 1 .. i PROVE Same(v[j], list[j])
    OBVIOUS
  <2>1. CASE j = i
    <3>1. v[i] = x
      BY <1>3
    <3> QED BY <2>1, <3>1, Zenon
  <2>2. CASE j \in 1 .. k
    <3>1. v[j] = o[j] /\ Same(o[j], list[j])
      BY <1>1, <1>3, <2>2
    <3> QED BY <3>1, Zenon
  <2> QED BY <1>4, <2>1, <2>2
<1> QED BY <1>2, <1>3, <1>5, Zenon DEF Follows

\* The deltas follow from the numbers.
LEMMA RenumberBack ==
  ASSUME NEW list, ShortList(list), NEW o, Follows(o, list, Len(list))
  PROVE  Renumber(o) = list
<1>1. PICK n : n = Len(list)
  OBVIOUS
<1>2. /\ n \in Nat /\ list \in Seq(ShortOptions)
      /\ \A k \in 1 .. n : /\ list[k] \in ShortOptions
                           /\ list[k].delta \in 0 .. 12 /\ list[k].number \in 0 .. 255
                           /\ list[k].number = NumberBefore(list, k) + list[k].delta
  BY <1>1, ShortListFacts
<1>3. o \in Seq(ShortOptions) /\ Len(o) = n /\ \A k \in 1 .. n : Same(o[k], list[k])
  BY <1>1, Zenon DEF Follows
<1>4. DOMAIN o = 1 .. n /\ \A k \in 1 .. n : o[k] \in ShortOptions
  BY <1>3
<1> DEFINE d(k) == U16(o[k].number - (IF k = 1 THEN 0 ELSE o[k - 1].number))
<1>5. ASSUME NEW k \in 1 .. n PROVE d(k) = list[k].delta
  <2>1. k # 1 => k - 1 \in 1 .. n
    BY <1>2
  <2>2. o[k].number = list[k].number /\ (k # 1 => o[k - 1].number = list[k - 1].number)
    BY <1>3, <2>1, Zenon DEF Same
  <2>3. PICK a, c, f : a = list[k].number /\ c = NumberBefore(list, k) /\ f = list[k].delta
    OBVIOUS
  <2>4. o[k].number = a /\ (IF k = 1 THEN 0 ELSE o[k - 1].number) = c
    BY <2>2, <2>3, Zenon DEF NumberBefore
  <2>5. a = c + f /\ f \in 0 .. 12
    BY <1>2, <2>3
  <2>6. c \in Int
    <3>1. \A x \in 0 .. 255 : x \in Int
      OBVIOUS
    <3>2. k # 1 => list[k - 1].number \in 0 .. 255
      BY <1>2, <2>1
    <3>3. CASE k = 1
      <4>1. c = 0
        BY <2>3, <3>3, Zenon DEF NumberBefore
      <4> QED BY <4>1
    <3>4. CASE k # 1
      <4>1. c = list[k - 1].number
        BY <2>3, <3>4, Zenon DEF NumberBefore
      <4> QED BY <3>1, <3>2, <3>4, <4>1
    <3> QED BY <3>3, <3>4
  <2>7. a - c = f
    BY <2>5, <2>6
  <2>8. U16(f) = f
    BY <2>5 DEF U16
  <2>9. d(k) = U16(a - c)
    BY <2>4, Zenon
  <2> QED BY <2>3, <2>7, <2>8, <2>9, Zenon
<1>6. ASSUME NEW k \in 1 .. n PROVE [o[k] EXCEPT !.delta = d(k)] = list[k]
  <2>1. PICK x, y : x = o[k] /\ y = list[k]
    OBVIOUS
  <2>2. x \in ShortOptions /\ y \in ShortOptions /\ d(k) = y.delta
    BY <1>2, <1>4, <1>5, <2>1
  <2>3. x.number = y.number /\ x.value = y.value
    BY <1>3, <2>1, Zenon DEF Same
  <2>4. [x EXCEPT !.delta = y.delta] = y
    BY <2>2, <2>3 DEF ShortOptions
  <2> QED BY <2>1, <2>2, <2>4, Zenon
<1>7. Renumber(o) = [k \in 1 .. n |-> [o[k] EXCEPT !.delta = d(k)]]
  BY <1>4 DEF Renumber
<1> HIDE DEF d
<1>8. Renumber(o) = [k \in 1 .. n |-> list[k]]
  BY <1>6, <1>7
<1>9. list = [k \in 1 .. n |-> list[k]]
  BY <1>1, <1>2
<1> QED BY <1>8, <1>9, Zenon

\* What the merge has taken when it has seen the first k numbers.
Halves(outer, inner, u, e, m, l, value) ==
  /\ OuterIs(outer, u, m, value) /\ outer \in Seq(ShortOptions)
  /\ inner = e /\ inner \in Seq(ShortOptions) /\ Len(inner) = l
MergedTo(st, list, cu, ce, k) ==
  \E o : st = [u |-> cu[k] + 1, e |-> ce[k] + 1, out |-> o] /\ Follows(o, list, k)

LEMMA MergeStep ==
  ASSUME NEW list, NEW n, NEW cu, NEW ce, NEW u, NEW e, NEW m, NEW l,
         Split(list, n, cu, ce, u, e, m, l),
         NEW outer, NEW inner, NEW value, Halves(outer, inner, u, e, m, l, value),
         NEW s, NEW k \in 1 .. n, NEW st, MergedTo(st, list, cu, ce, k - 1),
         NEW number, number = list[k].number
  PROVE  MergedTo(TakeNext(outer, inner, s, st, number), list, cu, ce, k)
<1>1. PICK o : st = [u |-> cu[k - 1] + 1, e |-> ce[k - 1] + 1, out |-> o] /\ Follows(o, list, k - 1)
  BY DEF MergedTo
<1>2. PICK a, c : a = cu[k - 1] /\ c = ce[k - 1]
  OBVIOUS
<1>3. st.u = a + 1 /\ st.e = c + 1 /\ st.out = o
  BY <1>1, <1>2
<1>4. /\ n \in Nat /\ m \in Nat /\ l \in Nat /\ m = cu[n] /\ l = ce[n]
      /\ Listed(list, n, ClassUNumbers, cu, u) /\ Listed(list, n, ClassENumbers, ce, e)
      /\ number \in 0 .. 255
      /\ number \in ClassUNumbers <=> number \notin ClassENumbers
  BY Zenon DEF Split
<1>5. a \in Nat /\ c \in Nat /\ a <= m /\ k - 1 \in 0 .. n
  <2>1. k - 1 \in 0 .. n /\ n \in 0 .. n /\ k - 1 <= n
    BY <1>4
  <2>2. cu[k - 1] \in Nat /\ ce[k - 1] \in Nat /\ cu[k - 1] <= cu[n]
    BY <1>4, <2>1 DEF Listed
  <2> QED BY <1>2, <1>4, <2>1, <2>2
<1>6. /\ outer \in Seq(ShortOptions) /\ Len(outer) = m + 1 /\ outer[m + 1].number = 9
      /\ \A i \in 1 .. m : Same(outer[i], u[i]) /\ u[i].number \in {3, 7}
      /\ inner = e /\ inner \in Seq(ShortOptions) /\ Len(inner) = l
  BY Zenon DEF Halves, OuterIs
<1>7. DOMAIN outer = 1 .. (m + 1) /\ DOMAIN inner = 1 .. l
      /\ (\A i \in 1 .. (m + 1) : outer[i] \in ShortOptions)
      /\ (\A i \in 1 .. l : inner[i] \in ShortOptions)
  <2>1. DOMAIN outer = 1 .. Len(outer) /\ DOMAIN inner = 1 .. Len(inner)
        /\ (\A i \in 1 .. Len(outer) : outer[i] \in ShortOptions)
        /\ (\A i \in 1 .. Len(inner) : inner[i] \in ShortOptions)
    <3>1. outer \in Seq(ShortOptions) /\ inner \in Seq(ShortOptions)
      BY <1>6
    <3> QED BY <3>1
  <2> QED BY <1>6, <2>1, Zenon
<1>8. PICK x, y : x = NthOf(outer, a + 1, s) /\ y = NthOf(inner, c + 1, s)
  OBVIOUS
<1>9. PICK i, j : i = a + 1 /\ j = c + 1
  OBVIOUS
<1>10. i \in Nat /\ j \in Nat /\ i \in 1 .. (m + 1)
  BY <1>4, <1>5, <1>9
<1>11. x = outer[i] /\ x \in ShortOptions
  BY <1>7, <1>8, <1>9, <1>10, Zenon DEF NthOf
<1>12. CASE number \in ClassUNumbers
  <2>1. cu[k] = i /\ ce[k] = c /\ i \in 1 .. m /\ Same(u[i], list[k])
    <3>1. cu[k] = cu[k - 1] + 1 /\ cu[k] \in 1 .. cu[n] /\ Same(u[cu[k]], list[k])
      BY <1>4, <1>12, Zenon DEF Listed
    <3>2. ce[k] = ce[k - 1]
      BY <1>4, <1>12, Zenon DEF Listed
    <3> QED BY <1>2, <1>4, <1>9, <3>1, <3>2, Zenon
  <2>2. Same(x, list[k])
    BY <1>6, <1>11, <2>1, Zenon DEF Same
  <2>3. number = x.number
    BY <2>2, Zenon DEF Same
  <2>4. TakeNext(outer, inner, s, st, number) = [st EXCEPT !.u = @ + 1, !.out = Append(@, x)]
    BY <1>3, <1>8, <2>3, Zenon DEF TakeNext
  <2>5. PICK v : v = Append(o, x)
    OBVIOUS
  <2>6. TakeNext(outer, inner, s, st, number) = [u |-> i + 1, e |-> c + 1, out |-> v]
    <3>1. PICK f : f = c + 1
      OBVIOUS
    <3>2. st = [u |-> i, e |-> f, out |-> o]
      BY <1>1, <1>2, <1>9, <3>1, Zenon
    <3>3. PICK t : t = [st EXCEPT !.u = @ + 1, !.out = Append(@, x)]
      OBVIOUS
    <3>4. t = [u |-> i + 1, e |-> f, out |-> Append(o, x)]
      BY <3>2, <3>3
    <3> QED BY <2>4, <2>5, <3>1, <3>3, <3>4, Zenon
  <2>7. Follows(v, list, k)
    <3>1. k - 1 \in Nat /\ k = (k - 1) + 1
      BY <1>4
    <3>2. Follows(o, list, k - 1)
      BY <1>1
    <3> QED BY <1>11, <2>2, <2>5, <3>1, <3>2, AppendFollows
  <2> QED BY <2>1, <2>6, <2>7, Zenon DEF MergedTo
<1>13. CASE number \notin ClassUNumbers
  <2>1. number \in ClassENumbers
    BY <1>4, <1>13
  <2>2. ce[k] = j /\ cu[k] = a /\ j \in 1 .. l /\ Same(inner[j], list[k])
    <3>1. ce[k] = ce[k - 1] + 1 /\ ce[k] \in 1 .. ce[n] /\ Same(e[ce[k]], list[k])
      BY <1>4, <2>1, Zenon DEF Listed
    <3>2. cu[k] = cu[k - 1]
      BY <1>4, <1>13, Zenon DEF Listed
    <3> QED BY <1>2, <1>4, <1>6, <1>9, <3>1, <3>2, Zenon
  <2>3. number # x.number
    <3>1. number \notin {3, 7, 9}
      BY <1>4, <1>13, ClassesOfNumbers
    <3>2. i \in 1 .. m \/ i = m + 1
      BY <1>4, <1>10
    <3>3. x.number \in {3, 7, 9}
      <4>1. CASE i \in 1 .. m
        <5>1. outer[i].number = u[i].number /\ u[i].number \in {3, 7}
          BY <1>6, <4>1, Zenon DEF Same
        <5> QED BY <1>11, <5>1
      <4>2. CASE i = m + 1
        BY <1>6, <1>11, <4>2
      <4> QED BY <3>2, <4>1, <4>2
    <3> QED BY <3>1, <3>3
  <2>4. y = inner[j] /\ y \in ShortOptions
    BY <1>7, <1>8, <1>9, <2>2, Zenon DEF NthOf
  <2>5. Same(y, list[k])
    BY <2>2, <2>4, Zenon
  <2>6. number = y.number
    BY <2>5, Zenon DEF Same
  <2>7. TakeNext(outer, inner, s, st, number) = [st EXCEPT !.e = @ + 1, !.out = Append(@, y)]
    BY <1>3, <1>8, <2>3, <2>6, Zenon DEF TakeNext
  <2>8. PICK v : v = Append(o, y)
    OBVIOUS
  <2>9. TakeNext(outer, inner, s, st, number) = [u |-> a + 1, e |-> j + 1, out |-> v]
    <3>1. PICK f : f = a + 1
      OBVIOUS
    <3>2. st = [u |-> f, e |-> j, out |-> o]
      BY <1>1, <1>2, <1>9, <3>1, Zenon
    <3>3. PICK t : t = [st EXCEPT !.e = @ + 1, !.out = Append(@, y)]
      OBVIOUS
    <3>4. t = [u |-> f, e |-> j + 1, out |-> Append(o, y)]
      BY <3>2, <3>3
    <3> QED BY <2>7, <2>8, <3>1, <3>3, <3>4, Zenon
  <2>10. Follows(v, list, k)
    <3>1. k - 1 \in Nat /\ k = (k - 1) + 1
      BY <1>4
    <3>2. Follows(o, list, k - 1)
      BY <1>1
    <3> QED BY <2>4, <2>5, <2>8, <3>1, <3>2, AppendFollows
  <2> QED BY <2>2, <2>9, <2>10, Zenon DEF MergedTo
<1> QED BY <1>12, <1>13

\* The merge puts the options in the order they had.
Restores(outer, inner, s, numbers, list) ==
  Renumber(Merged(outer, inner, s, numbers).out) = list

MergeOf(list, n, cu, ce, u, e, m, l, outer, inner, value, numbers) ==
  /\ ShortList(list) /\ n = Len(list) /\ numbers = NumberFunction(list, n)
  /\ Split(list, n, cu, ce, u, e, m, l) /\ Halves(outer, inner, u, e, m, l, value)

LEMMA MergeRestores ==
  ASSUME NEW list, NEW n, NEW cu, NEW ce, NEW u, NEW e, NEW m, NEW l, NEW outer, NEW inner,
         NEW value, NEW numbers,
         MergeOf(list, n, cu, ce, u, e, m, l, outer, inner, value, numbers), NEW s \in 0 .. 255
  PROVE  Restores(outer, inner, s, numbers, list)
<1>0. /\ ShortList(list) /\ n = Len(list) /\ numbers = NumberFunction(list, n)
      /\ Split(list, n, cu, ce, u, e, m, l) /\ Halves(outer, inner, u, e, m, l, value)
  BY Zenon DEF MergeOf
<1>1. n \in Nat /\ cu[0] = 0 /\ ce[0] = 0
  BY <1>0, Zenon DEF Split, Listed
<1>2. outer \in Seq(ShortOptions) /\ inner \in Seq(ShortOptions)
  BY <1>0, Zenon DEF Halves
<1>3. DOMAIN numbers = 1 .. n /\ \A k \in 1 .. n : numbers[k] = list[k].number
  BY <1>0 DEF NumberFunction
<1>4. PICK F : MergeSteps(F, n, outer, inner, s, numbers) /\ Merged(outer, inner, s, numbers) = F[n]
  <2>1. HasMerge(n, outer, inner, s, numbers)
    BY <1>1, <1>2, <1>3, MergeFold
  <2> QED BY <2>1 DEF HasMerge
<1> DEFINE S == {k \in 0 .. n : MergedTo(F[k], list, cu, ce, k)}
<1>5. 0 \in S
  <2>1. Follows(<<>>, list, 0)
    <3>1. <<>> \in Seq(ShortOptions) /\ Len(<<>>) = 0 /\ 1 .. 0 = {}
      OBVIOUS
    <3> QED BY <3>1 DEF Follows
  <2>2. F[0] = NoneTaken
    BY <1>4 DEF MergeSteps
  <2>3. cu[0] + 1 = 1 /\ ce[0] + 1 = 1
    BY <1>1
  <2>4. MergedTo(F[0], list, cu, ce, 0)
    BY <2>1, <2>2, <2>3, Zenon DEF MergedTo, NoneTaken
  <2>5. 0 \in 0 .. n
    BY <1>1
  <2> QED BY <2>4, <2>5
<1>6. ASSUME NEW k \in 0 .. n, k \in S, k < n PROVE k + 1 \in S
  <2>1. PICK i \in 1 .. n : i = k + 1 /\ i - 1 = k /\ i \in 0 .. n
    <3>1. k + 1 \in 1 .. n /\ k + 1 - 1 = k /\ k + 1 \in 0 .. n
      BY <1>1, <1>6
    <3> QED BY <3>1
  <2>2. F[i] = TakeNext(outer, inner, s, F[i - 1], list[i].number)
    BY <1>3, <1>4, Zenon DEF MergeSteps
  <2>3. MergedTo(F[i - 1], list, cu, ce, i - 1)
    BY <1>6, <2>1
  <2>4. PICK st, number : st = F[i - 1] /\ number = list[i].number
    OBVIOUS
  <2>5. MergedTo(TakeNext(outer, inner, s, st, number), list, cu, ce, i)
    BY <1>0, <2>3, <2>4, MergeStep
  <2>6. MergedTo(F[i], list, cu, ce, i)
    BY <2>2, <2>4, <2>5, Zenon
  <2> QED BY <2>1, <2>6
<1>7. n \in S
  <2>1. n \in 0 .. n
    BY <1>1
  <2> HIDE DEF S
  <2> QED BY <1>1, <1>5, <1>6, <2>1, Upward
<1>8. PICK o : F[n] = [u |-> cu[n] + 1, e |-> ce[n] + 1, out |-> o] /\ Follows(o, list, n)
  BY <1>7 DEF MergedTo
<1>9. Merged(outer, inner, s, numbers).out = o
  BY <1>4, <1>8
<1>10. Renumber(o) = list
  BY <1>0, <1>8, RenumberBack
<1> QED BY <1>9, <1>10, Zenon DEF Restores

\* A list and its parts, all of them short.
Parts(list, u, e, outer, value) ==
  /\ ShortList(list) /\ NoProxy(list) /\ value \in ShortValues
  /\ u = ClassU(list) /\ e = ClassE(list) /\ outer = WithOscoreOption(u, value)
  /\ ShortList(outer) /\ ShortList(e)
IsSplit(list, n, u, e, m, l) == \E cu, ce : Split(list, n, cu, ce, u, e, m, l)

LEMMA PartsSplit ==
  ASSUME NEW list, NEW u, NEW e, NEW outer, NEW value, Parts(list, u, e, outer, value),
         NEW n, n = Len(list), NEW m, m = Len(u), NEW l, l = Len(e)
  PROVE  IsSplit(list, n, u, e, m, l) /\ Halves(outer, e, u, e, m, l, value)
<1>1. /\ ShortList(list) /\ NoProxy(list) /\ value \in ShortValues
      /\ u = ClassU(list) /\ e = ClassE(list) /\ outer = WithOscoreOption(u, value)
      /\ ShortList(outer) /\ ShortList(e)
  BY DEF Parts
<1>2. list \in Seq(ShortOptions) /\ n \in Nat /\ \A k \in 1 .. n : list[k].number \in 0 .. 255
  BY <1>1, ShortListFacts, ZenonT(40)
<1>3. IsListed(list, n, ClassUNumbers, u) /\ IsListed(list, n, ClassENumbers, e)
  <2>1. IsListed(list, n, ClassUNumbers, Renumber(OptionsOf(list, ClassUNumbers)))
    BY <1>2, PartListed
  <2>2. IsListed(list, n, ClassENumbers, Renumber(OptionsOf(list, ClassENumbers)))
    BY <1>2, PartListed
  <2> QED BY <1>1, <2>1, <2>2, Zenon DEF ClassU, ClassE, ClassUNumbers
<1>4. PICK cu, ce : Listed(list, n, ClassUNumbers, cu, u) /\ Listed(list, n, ClassENumbers, ce, e)
  BY <1>3, Zenon DEF IsListed
<1>5. m = cu[n] /\ l = ce[n]
  BY <1>4, Zenon DEF Listed
<1>6. m \in Nat /\ l \in Nat
  <2>1. n \in 0 .. n
    BY <1>2
  <2>2. cu \in [0 .. n -> Nat] /\ ce \in [0 .. n -> Nat]
    BY <1>4, Zenon DEF Listed
  <2> QED BY <1>5, <2>1, <2>2
<1>7. \A k \in 1 .. n : list[k].number \in ClassUNumbers <=> list[k].number \notin ClassENumbers
  BY <1>2, ClassesOfNumbers
<1>8. Split(list, n, cu, ce, u, e, m, l)
  BY <1>2, <1>4, <1>5, <1>6, <1>7, Zenon DEF Split
<1>9. OuterIs(outer, u, m, value)
  BY <1>1, <1>2, OuterFacts
<1>10. outer \in Seq(ShortOptions) /\ e \in Seq(ShortOptions)
  BY <1>1, ShortListFacts
<1>11. Halves(outer, e, u, e, m, l, value)
  BY <1>9, <1>10, Zenon DEF Halves
<1> QED BY <1>8, <1>11, Zenon DEF IsSplit

Reorders(list, u, e, outer, value, s) == options_from_oscore_reorder(outer, e, s) = list

LEMMA ReorderRestores ==
  ASSUME NEW list, NEW u, NEW e, NEW outer, NEW value, Parts(list, u, e, outer, value),
         NEW s \in 0 .. 255
  PROVE  Reorders(list, u, e, outer, value, s)
<1>1. PICK n, m, l : n = Len(list) /\ m = Len(u) /\ l = Len(e)
  OBVIOUS
<1>2. ShortList(list)
  BY DEF Parts
<1>3. IsSplit(list, n, u, e, m, l) /\ Halves(outer, e, u, e, m, l, value)
  BY <1>1, PartsSplit
<1>4. PICK cu, ce : Split(list, n, cu, ce, u, e, m, l)
  BY <1>3 DEF IsSplit
<1>5. /\ OuterIs(outer, u, m, value) /\ outer \in Seq(ShortOptions)
      /\ e \in Seq(ShortOptions) /\ Len(e) = l
  BY <1>3, Zenon DEF Halves
<1>6. PICK o, both : o = OptionsOf(outer, NotOscore) /\ both = o \o e
  OBVIOUS
<1>7. Passed(outer, o, m) /\ o \in Seq(ShortOptions)
  BY <1>5, <1>6, PassedFacts
<1>8. n \in Nat /\ m \in Nat /\ l \in Nat /\ m + l = n
  <2>1. n \in Nat /\ m \in Nat /\ l \in Nat /\ m = cu[n] /\ l = ce[n]
    BY <1>4, Zenon DEF Split
  <2>2. \A k \in 0 .. n : cu[k] \in Nat /\ ce[k] \in Nat /\ cu[k] + ce[k] = k
    BY <1>4, SumOfCounts
  <2>3. n \in 0 .. n
    BY <2>1
  <2> QED BY <2>1, <2>2, <2>3, Zenon
<1>9. /\ both \in Seq(ShortOptions) /\ Len(both) = n
      /\ \A i \in 1 .. m : both[i] = o[i]
      /\ \A i \in 1 .. l : both[m + i] = e[i]
  <2>1. Len(o) = m
    BY <1>7 DEF Passed
  <2>2. both \in Seq(ShortOptions) /\ Len(both) = Len(o) + Len(e)
        /\ (\A i \in 1 .. Len(o) : both[i] = o[i])
        /\ (\A i \in 1 .. Len(e) : both[Len(o) + i] = e[i])
    <3>1. o \in Seq(ShortOptions) /\ e \in Seq(ShortOptions)
      BY <1>5, <1>7
    <3>2. /\ o \o e \in Seq(ShortOptions) /\ Len(o \o e) = Len(o) + Len(e)
          /\ \A i \in 1 .. Len(o) : (o \o e)[i] = o[i]
          /\ \A i \in 1 .. Len(e) : (o \o e)[Len(o) + i] = e[i]
      BY <3>1, ConcatFacts
    <3> QED BY <1>6, <3>2, Zenon
  <2> QED BY <1>5, <1>8, <2>1, <2>2, Zenon
<1>10. PICK new : new = NumbersOf(both)
  OBVIOUS
<1>11. DOMAIN both = 1 .. n /\ \A i \in 1 .. n : both[i] \in ShortOptions
  <2>1. DOMAIN both = 1 .. Len(both) /\ \A i \in 1 .. Len(both) : both[i] \in ShortOptions
    BY <1>9
  <2> QED BY <1>9, <2>1, Zenon
<1>12. new = [k \in 1 .. n |-> both[k].number]
  BY <1>10, <1>11, Zenon DEF NumbersOf
<1>13. new \in [1 .. n -> Nat]
  <2>1. \A x \in 0 .. 255 : x \in Nat
    OBVIOUS
  <2>2. \A i \in 1 .. n : both[i].number \in Nat
    BY <1>11, <2>1, ShortOptionFacts, ZenonT(40)
  <2> QED BY <1>12, <2>2
<1>14. \A i \in 1 .. m : new[i] = u[i].number
  <2> SUFFICES ASSUME NEW i \in 1 .. m PROVE new[i] = u[i].number
    OBVIOUS
  <2>1. i \in 1 .. n
    BY <1>8
  <2>2. new[i] = both[i].number
    BY <1>12, <2>1
  <2>3. both[i] = outer[i] /\ outer[i].number = u[i].number
    BY <1>5, <1>7, <1>9, Zenon DEF Passed, OuterIs, Same
  <2> QED BY <2>2, <2>3, Zenon
<1>15. \A i \in 1 .. l : new[m + i] = e[i].number
  <2> SUFFICES ASSUME NEW i \in 1 .. l PROVE new[m + i] = e[i].number
    OBVIOUS
  <2>1. m + i \in 1 .. n
    BY <1>8
  <2>2. new[m + i] = both[m + i].number
    BY <1>12, <2>1
  <2> QED BY <1>9, <2>2, Zenon
<1>16. PICK num, b : num = NumberFunction(list, n) /\ b = PlaceFunction(list, cu, ce, m, n)
  OBVIOUS
<1>17. Ordered(list, n)
  BY <1>1, <1>2, ShortListOrdered
<1>18. Sorts(n, num, new, b)
  <2>1. Finds(new, n, u, e, m, l)
    BY <1>13, <1>14, <1>15, Zenon DEF Finds
  <2> QED BY <1>4, <1>16, <1>17, <2>1, PlaceFacts
<1>19. Increasing(new) = num
  BY <1>18, IncreasingIs
<1>20. options_from_oscore_reorder(outer, e, s) = Renumber(Merged(outer, e, s, num).out)
  BY <1>6, <1>10, <1>19, ReorderIsMerge, Zenon
<1>21. Renumber(Merged(outer, e, s, num).out) = list
  <2>1. Restores(outer, e, s, num, list)
    <3>1. MergeOf(list, n, cu, ce, u, e, m, l, outer, e, value, num)
      BY <1>1, <1>2, <1>3, <1>4, <1>16, Zenon DEF MergeOf
    <3> QED BY <3>1, MergeRestores
  <2> QED BY <2>1, Zenon DEF Restores
<1> QED BY <1>20, <1>21, Zenon DEF Reorders

-----------------------------------------------------------------------------
(* Lengths                                                                 *)

\* total is base, and for each option extra and the length of its value.
Summed(list, base, extra, total) ==
  \E F \in [0 .. Len(list) -> Nat] :
    /\ F[0] = base /\ F[Len(list)] = total
    /\ \A k \in 1 .. Len(list) : F[k] = F[k - 1] + extra + Len(list[k].value)

PlainAfter(n, o) == n + 1 + ExtraBytes(o.delta) + ExtraBytes(Len(o.value)) + Len(o.value)

LEMMA PlainAfterIs ==
  ASSUME NEW x \in Nat, NEW o \in ShortOptions
  PROVE  PlainAfter(x, o) = x + 1 + Len(o.value) /\ PlainAfter(x, o) \in Nat
<1>1. PICK d, v : d = o.delta /\ v = Len(o.value)
  OBVIOUS
<1>2. d \in 0 .. 12 /\ v \in Nat /\ v <= 12
  BY <1>1, ShortOptionFacts
<1>3. ExtraBytes(d) = 0 /\ ExtraBytes(v) = 0
  BY <1>2 DEF ExtraBytes
<1>4. x + 1 + 0 + 0 + v = x + 1 + v /\ x + 1 + v \in Nat
  BY <1>2
<1>5. PlainAfter(x, o) = x + 1 + 0 + 0 + v
  BY <1>1, <1>3, Zenon DEF PlainAfter
<1> QED BY <1>1, <1>4, <1>5, Zenon

LEMMA PlaintextFold ==
  ASSUME NEW list \in Seq(ShortOptions), NEW start \in Nat
  PROVE  Summed(list, start, 1, FoldLeft(LAMBDA n, o : PlainAfter(n, o), start, list))
<1> DEFINE n == Len(list)
           body(x, o) == PlainAfter(x, o)
           iter[t \in SUBSET (1 .. n)] ==
             IF t = {} THEN start ELSE body(iter[t \ {Max(t)}], list[Max(t)])
           Op == [k \in 1 .. n |-> [x \in Nat |-> body(x, list[k])]]
<1>1. n \in Nat /\ DOMAIN list = 1 .. n /\ \A k \in 1 .. n : list[k] \in ShortOptions
  OBVIOUS
<1>2. FoldLeft(LAMBDA x, o : PlainAfter(x, o), start, list) = iter[1 .. n]
  BY <1>1 DEF FoldLeft, MapThenFoldSet
<1>3. \A x \in Nat, k \in 1 .. n : body(x, list[k]) \in Nat
  BY <1>1, PlainAfterIs
<1> HIDE DEF body, n
<1>4. Op \in [1 .. n -> [Nat -> Nat]]
  BY <1>3
<1>5. PICK g \in [SUBSET (1 .. n) -> Nat] : IsFold(g, n, start, Op)
  <2> HIDE DEF Op
  <2> QED BY <1>1, <1>4, FoldExists
<1>6. ASSUME NEW t \in SUBSET (1 .. n)
      PROVE  g[t] = IF t = {} THEN start ELSE body(g[t \ {Max(t)}], list[Max(t)])
  <2>1. t # {} => Max(t) \in 1 .. n
    BY <1>1, MaxFacts
  <2>2. g[t \ {Max(t)}] \in Nat
    OBVIOUS
  <2> QED BY <1>5, <2>1, <2>2 DEF IsFold
<1>7. g = [t \in SUBSET (1 .. n) |->
             IF t = {} THEN start ELSE body(g[t \ {Max(t)}], list[Max(t)])]
  BY <1>6
<1>8. iter = [t \in SUBSET (1 .. n) |->
                IF t = {} THEN start ELSE body(iter[t \ {Max(t)}], list[Max(t)])]
  BY <1>7
<1> HIDE DEF iter
<1>9. iter[{}] = start
  <2>1. {} \in SUBSET (1 .. n)
    OBVIOUS
  <2> QED BY <1>8, <2>1
<1>10. ASSUME NEW t \in SUBSET (1 .. n), t # {}, iter[t \ {Max(t)}] \in Nat
       PROVE  iter[t] = Op[Max(t)][iter[t \ {Max(t)}]]
  <2>1. Max(t) \in 1 .. n
    BY <1>1, <1>10, MaxFacts
  <2>2. iter[t] = body(iter[t \ {Max(t)}], list[Max(t)])
    BY <1>8, <1>10
  <2> QED BY <1>10, <2>1, <2>2
<1>11. HasIterates(iter, n, Nat, start, Op)
  <2> HIDE DEF Op
  <2>1. FoldsWithin(iter, n, Nat, start, Op)
    BY <1>9, <1>10 DEF FoldsWithin
  <2> QED BY <1>1, <1>4, <2>1, FoldIterates
<1>12. PICK F \in [0 .. n -> Nat] : IsIterates(F, n, start, Op) /\ F[n] = iter[1 .. n]
  BY <1>11 DEF HasIterates
<1>13. ASSUME NEW k \in 1 .. n PROVE F[k] = F[k - 1] + 1 + Len(list[k].value)
  <2>1. F[k - 1] \in Nat
    <3>1. k - 1 \in 0 .. n
      BY <1>1
    <3> QED BY <3>1
  <2>2. F[k] = body(F[k - 1], list[k])
    BY <1>12, <2>1 DEF IsIterates
  <2>3. PICK x : x = F[k - 1]
    OBVIOUS
  <2>4. body(x, list[k]) = x + 1 + Len(list[k].value)
    BY <1>1, <2>1, <2>3, PlainAfterIs DEF body
  <2> QED BY <2>2, <2>3, <2>4, Zenon
<1>14. F[0] = start
  BY <1>12 DEF IsIterates
<1> QED BY <1>2, <1>12, <1>13, <1>14, Zenon DEF Summed, n

LEMMA MaxEncodedFold ==
  ASSUME NEW list \in Seq(ShortOptions)
  PROVE  Summed(list, 0, 5, MaxEncodedLen(list))
<1> DEFINE n == Len(list)
           body(x, o) == x + 5 + Len(o.value)
           iter[t \in SUBSET (1 .. n)] ==
             IF t = {} THEN 0 ELSE body(iter[t \ {Max(t)}], list[Max(t)])
           Op == [k \in 1 .. n |-> [x \in Nat |-> body(x, list[k])]]
<1>1. n \in Nat /\ DOMAIN list = 1 .. n /\ \A k \in 1 .. n : list[k] \in ShortOptions
  OBVIOUS
<1>2. MaxEncodedLen(list) = iter[1 .. n]
  BY <1>1 DEF MaxEncodedLen, FoldLeft, MapThenFoldSet
<1>3. \A x \in Nat, k \in 1 .. n : body(x, list[k]) \in Nat
  BY <1>1, ShortOptionFacts
<1> HIDE DEF body, n
<1>4. Op \in [1 .. n -> [Nat -> Nat]]
  BY <1>3
<1>5. PICK g \in [SUBSET (1 .. n) -> Nat] : IsFold(g, n, 0, Op)
  <2> HIDE DEF Op
  <2> QED BY <1>1, <1>4, FoldExists
<1>6. ASSUME NEW t \in SUBSET (1 .. n)
      PROVE  g[t] = IF t = {} THEN 0 ELSE body(g[t \ {Max(t)}], list[Max(t)])
  <2>1. t # {} => Max(t) \in 1 .. n
    BY <1>1, MaxFacts
  <2>2. g[t \ {Max(t)}] \in Nat
    OBVIOUS
  <2> QED BY <1>5, <2>1, <2>2 DEF IsFold
<1>7. g = [t \in SUBSET (1 .. n) |->
             IF t = {} THEN 0 ELSE body(g[t \ {Max(t)}], list[Max(t)])]
  BY <1>6
<1>8. iter = [t \in SUBSET (1 .. n) |->
                IF t = {} THEN 0 ELSE body(iter[t \ {Max(t)}], list[Max(t)])]
  BY <1>7
<1> HIDE DEF iter
<1>9. iter[{}] = 0
  <2>1. {} \in SUBSET (1 .. n)
    OBVIOUS
  <2> QED BY <1>8, <2>1
<1>10. ASSUME NEW t \in SUBSET (1 .. n), t # {}, iter[t \ {Max(t)}] \in Nat
       PROVE  iter[t] = Op[Max(t)][iter[t \ {Max(t)}]]
  <2>1. Max(t) \in 1 .. n
    BY <1>1, <1>10, MaxFacts
  <2>2. iter[t] = body(iter[t \ {Max(t)}], list[Max(t)])
    BY <1>8, <1>10
  <2> QED BY <1>10, <2>1, <2>2
<1>11. HasIterates(iter, n, Nat, 0, Op)
  <2> HIDE DEF Op
  <2>1. FoldsWithin(iter, n, Nat, 0, Op)
    BY <1>9, <1>10 DEF FoldsWithin
  <2> QED BY <1>1, <1>4, <2>1, FoldIterates
<1>12. PICK F \in [0 .. n -> Nat] : IsIterates(F, n, 0, Op) /\ F[n] = iter[1 .. n]
  BY <1>11 DEF HasIterates
<1>13. ASSUME NEW k \in 1 .. n PROVE F[k] = F[k - 1] + 5 + Len(list[k].value)
  <2>1. F[k - 1] \in Nat
    <3>1. k - 1 \in 0 .. n
      BY <1>1
    <3> QED BY <3>1
  <2>2. F[k] = body(F[k - 1], list[k])
    BY <1>12, <2>1 DEF IsIterates
  <2>3. PICK x : x = F[k - 1]
    OBVIOUS
  <2>4. body(x, list[k]) = x + 5 + Len(list[k].value)
    BY <1>1, <2>1, <2>3 DEF body
  <2> QED BY <2>2, <2>3, <2>4, Zenon
<1>14. F[0] = 0
  BY <1>12 DEF IsIterates
<1> QED BY <1>2, <1>12, <1>13, <1>14, Zenon DEF Summed, n

\* What is written takes a byte and the value for each option.
LEMMA WrittenSummed ==
  ASSUME NEW list \in Seq(ShortOptions)
  PROVE  /\ Summed(list, 1, 1, 1 + Len(options_into_byte_string(list)))
         /\ Len(options_into_byte_string(list)) \in Nat
<1> DEFINE w == options_into_byte_string(list)
<1>1. PICK none : none = <<>>
  OBVIOUS
<1>2. none \in Seq(0 .. 255) /\ Len(none) = 0
  BY <1>1
<1>3. /\ w \in Seq(0 .. 254)
      /\ LaidOut(none \o w \o none, Len(none) + 1, list, Len(none) + 1 + Len(w))
  <2>1. none \in Seq(0 .. 255)
    BY <1>2
  <2> QED BY <2>1, WrittenLaid DEF w
<1> HIDE DEF w
<1>4. PICK b : b = Len(w)
  OBVIOUS
<1>5. b \in Nat /\ 0 + 1 = 1 /\ 0 + 1 + b = 1 + b
  BY <1>3, <1>4
<1>6. LaidOut(none \o w \o none, 1, list, 1 + b)
  BY <1>2, <1>3, <1>4, <1>5, Zenon
<1>7. PICK off : Laid(none \o w \o none, 1, list, off) /\ off[Len(list)] = 1 + b
  BY <1>6 DEF LaidOut
<1>8. Summed(list, 1, 1, 1 + b)
  BY <1>7, Zenon DEF Summed, Laid
<1> QED BY <1>4, <1>5, <1>8, Zenon DEF w

\* Lists with the same values have sums that differ as their bases do.
Alike(list, new, a, b, x, t, y) ==
  /\ list \in Seq(ShortOptions) /\ Renumbered(list, new)
  /\ a \in Nat /\ b \in Nat /\ x \in Nat
  /\ Summed(list, a, x, t) /\ Summed(new, b, x, y)

LEMMA SummedAlike ==
  ASSUME NEW list, NEW new, NEW a, NEW b, NEW x, NEW t, NEW y,
         Alike(list, new, a, b, x, t, y)
  PROVE  t + b = y + a /\ t \in Nat /\ y \in Nat
<1>0. /\ list \in Seq(ShortOptions) /\ Renumbered(list, new)
      /\ a \in Nat /\ b \in Nat /\ x \in Nat
      /\ Summed(list, a, x, t) /\ Summed(new, b, x, y)
  BY DEF Alike
<1>1. PICK n : n = Len(list)
  OBVIOUS
<1>2. n \in Nat /\ Len(new) = n /\ \A k \in 1 .. n : new[k].value = list[k].value
  BY <1>0, <1>1 DEF Renumbered, Same
<1>3. PICK F \in [0 .. n -> Nat] :
        /\ F[0] = a /\ F[n] = t
        /\ \A k \in 1 .. n : F[k] = F[k - 1] + x + Len(list[k].value)
  BY <1>0, <1>1 DEF Summed
<1>4. PICK G \in [0 .. n -> Nat] :
        /\ G[0] = b /\ G[n] = y
        /\ \A k \in 1 .. n : G[k] = G[k - 1] + x + Len(new[k].value)
  BY <1>0, <1>2 DEF Summed
<1>5. \A k \in 1 .. n : Len(list[k].value) \in Nat
  BY <1>0, <1>1, ShortOptionFacts
<1> DEFINE S == {k \in 0 .. n : F[k] + b = G[k] + a}
<1>6. 0 \in S
  BY <1>2, <1>3, <1>4
<1>7. ASSUME NEW k \in 0 .. n, k \in S, k < n PROVE k + 1 \in S
  <2>1. k + 1 \in 1 .. n /\ k + 1 \in 0 .. n /\ k + 1 - 1 = k
    BY <1>2, <1>7
  <2>2. PICK v : v = Len(list[k + 1].value)
    OBVIOUS
  <2>3. v \in Nat
    BY <1>5, <2>1, <2>2
  <2>4. F[k + 1] = F[k] + x + v
    BY <1>3, <2>1, <2>2
  <2>5. G[k + 1] = G[k] + x + v
    <3>1. Len(new[k + 1].value) = v
      BY <1>2, <2>1, <2>2, Zenon
    <3> QED BY <1>4, <2>1, <3>1
  <2>6. F[k] \in Nat /\ G[k] \in Nat
    OBVIOUS
  <2>7. PICK f, g : f = F[k] /\ g = G[k]
    OBVIOUS
  <2>8. f \in Nat /\ g \in Nat /\ f + b = g + a
    BY <1>7, <2>6, <2>7
  <2>9. f + x + v + b = g + x + v + a
    BY <1>0, <2>3, <2>8
  <2>10. F[k + 1] + b = G[k + 1] + a
    BY <2>4, <2>5, <2>7, <2>9, Zenon
  <2> QED BY <2>1, <2>10, Zenon
<1>8. n \in S
  <2>1. n \in 0 .. n
    BY <1>2
  <2> HIDE DEF S
  <2> QED BY <1>2, <1>6, <1>7, <2>1, Upward
<1>9. F[n] \in Nat /\ G[n] \in Nat
  BY <1>2
<1> QED BY <1>3, <1>4, <1>8, <1>9

LEMMA Difference ==
  ASSUME NEW t \in Nat, NEW l \in Nat, NEW b \in Nat, NEW c, c = 1 + b, t + 1 = 1 + l + c
  PROVE  t = 1 + l + b
OBVIOUS

\* The length computed from the options as they came is the one they take.
LEMMA PlaintextLenIs ==
  ASSUME NEW list \in Seq(ShortOptions), ClassE(list) \in Seq(ShortOptions),
         NEW payload \in Seq(0 .. 255)
  PROVE  /\ PlaintextLen(list, payload)
              = 1 + Len(options_into_byte_string(ClassE(list))) + Len(PayloadPart(payload))
         /\ Len(options_into_byte_string(ClassE(list))) \in Nat
         /\ Len(PayloadPart(payload)) \in Nat
<1>0. PICK e, w, b : /\ e = ClassE(list) /\ w = options_into_byte_string(e)
                     /\ b = Len(PayloadPart(payload))
  OBVIOUS
<1>1. PICK part, start : part = OptionsOf(list, ClassENumbers) /\ start = 1 + b
  OBVIOUS
<1>2. part \in Seq(ShortOptions) /\ e = Renumber(part)
  BY <1>0, <1>1, PartListed DEF ClassE
<1>3. Renumbered(part, e)
  BY <1>2, ShortIsWide, RenumberFacts
<1>4. b \in Nat /\ start \in Nat
  <2>1. PayloadPart(payload) \in Seq(0 .. 255)
    <3>1. payload \in Seq(0 .. 255) /\ 255 \in 0 .. 255
      OBVIOUS
    <3>2. <<255>> \o payload \in Seq(0 .. 255)
      BY <3>1, ConsFacts
    <3> QED BY <3>1, <3>2, Zenon DEF PayloadPart, PayloadMarker
  <2>2. b \in Nat
    BY <1>0, <2>1
  <2> QED BY <1>1, <2>2
<1>5. PlaintextLen(list, payload) = FoldLeft(LAMBDA n, o : PlainAfter(n, o), start, part)
  BY <1>0, <1>1, Zenon DEF PlaintextLen, PlainAfter
<1>6. PICK t, l : t = PlaintextLen(list, payload) /\ l = Len(w)
  OBVIOUS
<1>7. Summed(part, start, 1, t)
  BY <1>2, <1>4, <1>5, <1>6, PlaintextFold, Zenon
<1>8. Summed(e, 1, 1, 1 + l) /\ l \in Nat
  <2>1. e \in Seq(ShortOptions)
    BY <1>0
  <2>2. /\ Summed(e, 1, 1, 1 + Len(options_into_byte_string(e)))
        /\ Len(options_into_byte_string(e)) \in Nat
    BY <2>1, WrittenSummed
  <2> QED BY <1>0, <1>6, <2>2, Zenon
<1>9. t + 1 = 1 + l + start /\ t \in Nat
  <2>1. PICK one, y : one = 1 /\ y = 1 + l
    OBVIOUS
  <2>2. one \in Nat /\ Summed(part, start, one, t) /\ Summed(e, one, one, y)
    BY <1>7, <1>8, <2>1
  <2>4. Alike(part, e, start, one, one, t, y)
    BY <1>2, <1>3, <1>4, <2>2, Zenon DEF Alike
  <2>3. t + one = y + start /\ t \in Nat
    BY <2>4, SummedAlike
  <2> QED BY <2>1, <2>3
<1>10. t = 1 + l + b
  <2>1. t \in Nat /\ l \in Nat /\ b \in Nat
    BY <1>4, <1>8, <1>9
  <2>2. start = 1 + b
    BY <1>1
  <2>3. t + 1 = 1 + l + start
    BY <1>9
  <2> QED BY <2>1, <2>2, <2>3, Difference
<1> QED BY <1>0, <1>4, <1>6, <1>8, <1>10, Zenon

-----------------------------------------------------------------------------
(* coap2oscore and oscore2coap                                             *)

\* A plain message taken apart.
Apart(m, token, list, payload, value, u, e, outer) ==
  /\ m = coap2buf(m.type, m.code, Len(token), token, list, payload)
  /\ m.code \in 0 .. 255
  /\ token \in Seq(0 .. 255) /\ Len(token) <= 8 /\ payload \in Seq(0 .. 255)
  /\ ~ (list = <<>> /\ payload = <<>>)
  /\ value = SealedValue(m)
  /\ Parts(list, u, e, outer, value)

\* How it is read does not depend on what is found in memory never written.
ReadsPlain(m, token, list, payload) ==
  \A s \in 0 .. 255 : buf2coap(m, s) = MessageRead(token, list, payload)

LEMMA ApartRead ==
  ASSUME NEW m, NEW token, NEW list, NEW payload, NEW value, NEW u, NEW e, NEW outer,
         Apart(m, token, list, payload, value, u, e, outer)
  PROVE  ReadsPlain(m, token, list, payload)
<1>1. m = coap2buf(m.type, m.code, Len(token), token, list, payload)
  BY Zenon DEF Apart
<1>5. Carried(token, list, payload)
  BY Zenon DEF Apart, Parts, Carried
<1>2. PICK type, code : type = m.type /\ code = m.code
  OBVIOUS
<1>3. ASSUME NEW s \in 0 .. 255
      PROVE  MessageReads(type, code, token, list, payload, s)
  BY <1>3, <1>5, ReadMessage
<1>4. m = coap2buf(type, code, Len(token), token, list, payload)
  BY <1>1, <1>2, Zenon
<1> QED BY <1>3, <1>4, Zenon DEF ReadsPlain, MessageReads

LEMMA PlainApart ==
  ASSUME NEW m, Plain(m)
  PROVE  \E token, list, payload, value, u, e, outer :
           /\ Apart(m, token, list, payload, value, u, e, outer)
           /\ buf2coap(m, 0) = MessageRead(token, list, payload)
<1>1. PICK in, value : in = buf2coap(m, 0) /\ value = SealedValue(m)
  OBVIOUS
<1>2. PICK token, list, payload : token = in.token /\ list = in.options /\ payload = in.payload
  OBVIOUS
<1>3. PICK u, e, outer : u = ClassU(list) /\ e = ClassE(list) /\ outer = WithOscoreOption(u, value)
  OBVIOUS
<1>4. /\ m = coap2buf(m.type, m.code, Len(token), token, list, payload)
      /\ m.code \in 0 .. 255
      /\ token \in Seq(0 .. 255) /\ Len(token) <= 8 /\ payload \in Seq(0 .. 255)
      /\ list # <<>> \/ payload # <<>>
      /\ value \in ShortValues
      /\ ShortList(list) /\ NoProxy(list)
      /\ ShortList(ClassE(list)) /\ ShortList(OuterOptions(m))
  BY <1>1, <1>2, Zenon DEF Plain
<1>5. OuterOptions(m) = outer
  BY <1>1, <1>2, <1>3, Zenon DEF OuterOptions
<1>6. Parts(list, u, e, outer, value)
  BY <1>3, <1>4, <1>5, Zenon DEF Parts
<1>7. Apart(m, token, list, payload, value, u, e, outer)
  BY <1>1, <1>4, <1>6, Zenon DEF Apart
<1>8. buf2coap(m, 0) = MessageRead(token, list, payload)
  <2>1. 0 \in 0 .. 255
    OBVIOUS
  <2>2. ReadsPlain(m, token, list, payload)
    BY <1>7, ApartRead
  <2> QED BY <2>1, <2>2, Zenon DEF ReadsPlain
<1> QED BY <1>7, <1>8, Zenon

\* The whole plaintext of a message.
LEMMA InsideFacts ==
  ASSUME NEW code \in 0 .. 255, NEW e \in Seq(ShortOptions), NEW payload \in Seq(0 .. 255)
  PROVE  /\ Inside(code, e, payload) \in Seq(0 .. 255)
         /\ Len(Inside(code, e, payload))
              = 1 + Len(options_into_byte_string(e)) + Len(PayloadPart(payload))
         /\ Len(options_into_byte_string(e)) \in Nat
         /\ PayloadPart(payload) \in Seq(0 .. 255)
<1>1. PICK w, p, c : w = options_into_byte_string(e) /\ p = PayloadPart(payload) /\ c = <<code>>
  OBVIOUS
<1>2. p \in Seq(0 .. 255)
  <2>1. payload \in Seq(0 .. 255) /\ 255 \in 0 .. 255
    OBVIOUS
  <2>2. <<255>> \o payload \in Seq(0 .. 255)
    BY <2>1, ConsFacts
  <2> QED BY <1>1, <2>1, <2>2, Zenon DEF PayloadPart, PayloadMarker
<1>3. c \in Seq(0 .. 255) /\ Len(c) = 1
  BY <1>1
<1>4. w \in Seq(0 .. 255)
  <2>1. w \in Seq(0 .. 254)
    <3>1. /\ options_into_byte_string(e) \in Seq(0 .. 254)
          /\ c \o options_into_byte_string(e) \o p \in Seq(0 .. 255)
      BY <1>2, <1>3, WrittenLaid
    <3> QED BY <1>1, <3>1
  <2>2. 0 .. 254 \subseteq 0 .. 255
    OBVIOUS
  <2> QED BY <2>1, <2>2
<1>5. PICK x, y, z : x = Len(c) /\ y = Len(w) /\ z = Len(p)
  OBVIOUS
<1>6. x = 1 /\ y \in Nat /\ z \in Nat
  BY <1>2, <1>3, <1>4, <1>5
<1>7. c \o w \in Seq(0 .. 255) /\ Len(c \o w) = x + y
  <2>1. c \in Seq(0 .. 255) /\ w \in Seq(0 .. 255)
    BY <1>3, <1>4
  <2>2. c \o w \in Seq(0 .. 255) /\ Len(c \o w) = Len(c) + Len(w)
    BY <2>1, ConcatFacts
  <2> QED BY <1>5, <2>2, Zenon
<1>8. PICK cw : cw = c \o w
  OBVIOUS
<1>9. cw \in Seq(0 .. 255) /\ Len(cw) = 1 + y
  BY <1>6, <1>7, <1>8
<1>10. cw \o p \in Seq(0 .. 255) /\ Len(cw \o p) = 1 + y + z
  <2>1. cw \in Seq(0 .. 255) /\ p \in Seq(0 .. 255)
    BY <1>2, <1>9
  <2>2. cw \o p \in Seq(0 .. 255) /\ Len(cw \o p) = Len(cw) + Len(p)
    BY <2>1, ConcatFacts
  <2> QED BY <1>5, <1>9, <2>2, Zenon
<1>11. Inside(code, e, payload) = cw \o p
  BY <1>1, <1>8, Zenon DEF Inside
<1> QED BY <1>1, <1>2, <1>5, <1>6, <1>10, <1>11, Zenon

\* What coap2oscore makes of a plain message.
TooLong(m, list, payload, e, outer) ==
  \/ PlaintextLen(list, payload) > MAX_PLAINTEXT_LEN
  \/ MaxEncodedLen(e) > MAX_E_OPTIONS
  \/ ~ OptionsFit(outer)
Sealed(m, e, payload) == Ciphertext(Inside(m.code, e, payload))
OuterCode(m) == IF IsRequest(m.code) THEN 2 ELSE 68
Sent(m, token, payload, value, e, outer) ==
  [err |-> "ok", sealed |-> <<value, Sealed(m, e, payload)>>,
   msg |-> coap2buf(m.type, OuterCode(m), m.tkl, token, outer, Sealed(m, e, payload))]
ProtectedAs(m, s, token, list, payload, value, e, outer) ==
  coap2oscore(m, OscoreValue, s)
    = IF IsEmptyAck(m) THEN [err |-> "ok", msg |-> m]
      ELSE IF TooLong(m, list, payload, e, outer) THEN [err |-> "buffer_to_small"]
      ELSE Sent(m, token, payload, value, e, outer)

\* plaintext_setup was given the length that it needs.
LEMMA SetupIs ==
  ASSUME NEW list \in Seq(ShortOptions), ClassE(list) \in Seq(ShortOptions),
         NEW payload \in Seq(0 .. 255), NEW code \in 0 .. 255
  PROVE  plaintext_setup(code, ClassE(list), payload, PlaintextLen(list, payload))
           = IF MaxEncodedLen(ClassE(list)) > MAX_E_OPTIONS
             THEN [err |-> "buffer_to_small"]
             ELSE [err |-> "ok", plaintext |-> Inside(code, ClassE(list), payload)]
<1>1. PICK e, w, p, x : /\ e = ClassE(list) /\ w = options_into_byte_string(e)
                        /\ p = PayloadPart(payload) /\ x = Inside(code, e, payload)
  OBVIOUS
<1>2. PICK len, a, b, c : /\ len = PlaintextLen(list, payload)
                          /\ a = Len(w) /\ b = Len(p) /\ c = Len(payload)
  OBVIOUS
<1>3. e \in Seq(ShortOptions)
  BY <1>1
<1>4. x \in Seq(0 .. 255) /\ Len(x) = 1 + a + b
  <2>1. /\ Inside(code, e, payload) \in Seq(0 .. 255)
        /\ Len(Inside(code, e, payload))
              = 1 + Len(options_into_byte_string(e)) + Len(PayloadPart(payload))
    BY <1>3, InsideFacts, ZenonT(40)
  <2> QED BY <1>1, <1>2, <2>1, Zenon
<1>5. len = 1 + a + b /\ a \in Nat /\ b \in Nat
  <2>1. /\ PlaintextLen(list, payload)
              = 1 + Len(options_into_byte_string(ClassE(list))) + Len(PayloadPart(payload))
        /\ Len(options_into_byte_string(ClassE(list))) \in Nat
        /\ Len(PayloadPart(payload)) \in Nat
    BY PlaintextLenIs
  <2> QED BY <1>1, <1>2, <2>1, Zenon
<1>6. c \in Nat /\ (payload # <<>> => b = 1 + c)
  <2>1. c \in Nat
    BY <1>2
  <2>2. ASSUME payload # <<>> PROVE b = 1 + c
    <3>1. p = <<255>> \o payload
      BY <1>1, <2>2, Zenon DEF PayloadPart, PayloadMarker
    <3>2. 255 \in 0 .. 255
      OBVIOUS
    <3>3. Len(<<255>> \o payload) = 1 + Len(payload)
      BY <3>2, ConsFacts
    <3> QED BY <1>2, <3>1, <3>3, Zenon
  <2> QED BY <2>1, <2>2
<1>7. DestFits(len - 1, a)
  <2>1. a <= len - 1
    BY <1>5
  <2> QED BY <2>1 DEF DestFits
<1>8. payload # <<>> => DestFits(len - 2 - a, c)
  <2>1. b = 1 + c => c <= len - 2 - a
    BY <1>5, <1>6
  <2> QED BY <1>6, <2>1 DEF DestFits
<1>9. SubSeq(x, 1, len) = x
  <2>1. PICK l : l = Len(x)
    OBVIOUS
  <2>2. len = l
    BY <1>4, <1>5, <2>1, Zenon
  <2>3. SubSeq(x, 1, Len(x)) = x
    BY <1>4
  <2> QED BY <2>1, <2>2, <2>3, Zenon
<1>10. plaintext_setup(code, e, payload, len)
         = IF MaxEncodedLen(e) > MAX_E_OPTIONS THEN [err |-> "buffer_to_small"]
           ELSE [err |-> "ok", plaintext |-> x]
  <2>1. x = <<code>> \o w \o p
    BY <1>1, Zenon DEF Inside
  <2>2. CASE MaxEncodedLen(e) > MAX_E_OPTIONS
    BY <1>1, <2>2, Zenon DEF plaintext_setup
  <2>3. CASE ~(MaxEncodedLen(e) > MAX_E_OPTIONS)
    BY <1>1, <1>2, <1>7, <1>8, <1>9, <2>1, <2>3, Zenon DEF plaintext_setup
  <2> QED BY <2>2, <2>3, Zenon
<1> QED BY <1>1, <1>2, <1>10, Zenon

LEMMA PlainProtected ==
  ASSUME NEW m, NEW token, NEW list, NEW payload, NEW value, NEW u, NEW e, NEW outer,
         Apart(m, token, list, payload, value, u, e, outer), NEW s \in 0 .. 255
  PROVE  ProtectedAs(m, s, token, list, payload, value, e, outer)
<1>1. buf2coap(m, s) = MessageRead(token, list, payload)
  <2>1. ReadsPlain(m, token, list, payload)
    BY ApartRead
  <2> QED BY <2>1, Zenon DEF ReadsPlain
<1>2. PICK in : in = buf2coap(m, s)
  OBVIOUS
<1>3. in.err = "ok" /\ in.token = token /\ in.options = list /\ in.payload = payload
  BY <1>1, <1>2 DEF MessageRead
<1>4. /\ m.code \in 0 .. 255 /\ payload \in Seq(0 .. 255) /\ value = SealedValue(m)
      /\ ShortList(list) /\ ShortList(e)
      /\ u = ClassU(list) /\ e = ClassE(list) /\ outer = WithOscoreOption(u, value)
  BY Zenon DEF Apart, Parts
<1>5. list \in Seq(ShortOptions) /\ ClassE(list) \in Seq(ShortOptions)
  BY <1>4, Zenon DEF ShortList
<1>6. PICK len, x, code : /\ len = PlaintextLen(list, payload) /\ x = Inside(m.code, e, payload)
                          /\ code = m.code
  OBVIOUS
<1>7. PICK setup : setup = plaintext_setup(m.code, ClassE(in.options), in.payload, len)
  OBVIOUS
<1>8. setup = IF MaxEncodedLen(e) > MAX_E_OPTIONS THEN [err |-> "buffer_to_small"]
              ELSE [err |-> "ok", plaintext |-> x]
  <2>1. code \in 0 .. 255
    BY <1>4, <1>6
  <2>2. plaintext_setup(code, ClassE(list), payload, PlaintextLen(list, payload))
           = IF MaxEncodedLen(ClassE(list)) > MAX_E_OPTIONS
             THEN [err |-> "buffer_to_small"]
             ELSE [err |-> "ok", plaintext |-> Inside(code, ClassE(list), payload)]
    BY <1>4, <1>5, <2>1, SetupIs
  <2> QED BY <1>3, <1>4, <1>6, <1>7, <2>2, Zenon
<1>9. coap2oscore(m, OscoreValue, s) =
        IF IsEmptyAck(m) THEN [err |-> "ok", msg |-> m]
        ELSE IF len > MAX_PLAINTEXT_LEN THEN [err |-> "buffer_to_small"]
        ELSE IF setup.err # "ok" THEN [err |-> setup.err]
        ELSE IF ~ OptionsFit(outer) THEN [err |-> "buffer_to_small"]
        ELSE [err |-> "ok", sealed |-> <<value, Ciphertext(setup.plaintext)>>,
              msg |-> coap2buf(m.type, IF IsRequest(m.code) THEN 2 ELSE 68,
                        m.tkl, token, outer, Ciphertext(setup.plaintext))]
  <2>1. in.err = "ok"
    BY <1>3
  <2>2. value = IF IsRequest(m.code) THEN OscoreValue ELSE <<>>
    BY <1>4, Zenon DEF SealedValue
  <2> QED BY <1>2, <1>3, <1>4, <1>6, <1>7, <2>1, <2>2, Zenon DEF coap2oscore
<1>10. CASE MaxEncodedLen(e) > MAX_E_OPTIONS
  <2>1. setup.err = "buffer_to_small"
    BY <1>8, <1>10
  <2>2. setup.err # "ok"
    BY <2>1
  <2> QED BY <1>6, <1>9, <1>10, <2>1, <2>2, Zenon DEF ProtectedAs, TooLong
<1>11. CASE ~(MaxEncodedLen(e) > MAX_E_OPTIONS)
  <2>1. setup.err = "ok" /\ setup.plaintext = x
    BY <1>8, <1>11
  <2> QED BY <1>6, <1>9, <1>11, <2>1, Zenon DEF ProtectedAs, TooLong, Sent, Sealed, OuterCode
<1> QED BY <1>10, <1>11, Zenon

\* The tag is taken off again.
LEMMA CiphertextFacts ==
  ASSUME NEW x \in Seq(0 .. 255), NEW c, c = Ciphertext(x)
  PROVE  /\ c \in Seq(0 .. 255) /\ c # <<>>
         /\ SubSeq(c, 1, Len(c) - AUTH_TAG_LEN) = x
<1>1. PICK tag, l : tag = [k \in 1 .. 8 |-> 0] /\ l = Len(x)
  OBVIOUS
<1>2. tag \in Seq(0 .. 255) /\ Len(tag) = 8
  <2>1. 0 \in 0 .. 255 /\ 8 \in Nat
    OBVIOUS
  <2>2. DOMAIN tag = 1 .. 8
    BY <1>1
  <2> QED BY <1>1, <2>1, <2>2
<1>3. c = x \o tag
  BY <1>1, Zenon DEF Ciphertext, AUTH_TAG_LEN
<1>4. l \in Nat
  BY <1>1
<1>5. x \o tag \in Seq(0 .. 255) /\ Len(x \o tag) = l + 8
  BY <1>1, <1>2, ConcatFacts
<1>6. PICK k : k = Len(c)
  OBVIOUS
<1>7. k = l + 8 /\ c \in Seq(0 .. 255)
  BY <1>3, <1>5, <1>6, Zenon
<1>8. c # <<>>
  <2>1. Len(<<>>) = 0
    OBVIOUS
  <2>2. k # 0
    BY <1>4, <1>7
  <2> QED BY <1>6, <2>1, <2>2, Zenon
<1>9. SubSeq(c, 1, l) = x
  BY <1>1, <1>2, <1>3
<1>10. k - 8 = l
  BY <1>4, <1>7
<1> QED BY <1>6, <1>7, <1>8, <1>9, <1>10, Zenon DEF AUTH_TAG_LEN

\* The packet has the OSCORE option once, and the halves have all options.
LEMMA PartsFacts ==
  ASSUME NEW list, NEW u, NEW e, NEW outer, NEW value, Parts(list, u, e, outer, value)
  PROVE  /\ OscoreValues(outer) = {value}
         /\ Len(outer) + Len(e) - 1 = Len(list)
         /\ OuterIs(outer, u, Len(u), value)
         /\ Len(outer) \in Nat /\ Len(e) \in Nat /\ Len(list) \in Nat
<1>1. PICK n, m, l : n = Len(list) /\ m = Len(u) /\ l = Len(e)
  OBVIOUS
<1>2. IsSplit(list, n, u, e, m, l) /\ Halves(outer, e, u, e, m, l, value)
  BY <1>1, PartsSplit
<1>3. PICK cu, ce : Split(list, n, cu, ce, u, e, m, l)
  BY <1>2 DEF IsSplit
<1>4. OuterIs(outer, u, m, value) /\ outer \in Seq(ShortOptions)
  BY <1>2, Zenon DEF Halves
<1>5. n \in Nat /\ m \in Nat /\ l \in Nat /\ m + l = n
  <2>1. n \in Nat /\ m \in Nat /\ l \in Nat /\ m = cu[n] /\ l = ce[n]
    BY <1>3, Zenon DEF Split
  <2>2. \A k \in 0 .. n : cu[k] \in Nat /\ ce[k] \in Nat /\ cu[k] + ce[k] = k
    BY <1>3, SumOfCounts
  <2>3. n \in 0 .. n
    BY <2>1
  <2> QED BY <2>1, <2>2, <2>3, Zenon
<1>6. PICK q : q = Len(outer)
  OBVIOUS
<1>7. /\ q = m + 1 /\ outer[q].number = 9 /\ outer[q].value = value
      /\ \A k \in 1 .. m : outer[k].number \in {3, 7}
  BY <1>4, <1>6, Zenon DEF OuterIs, Same
<1>8. q + l - 1 = n /\ q \in Nat /\ q \in 1 .. q /\ \A k \in 1 .. q : k \in 1 .. m \/ k = q
  BY <1>5, <1>7
<1>9. DOMAIN outer = 1 .. q
  BY <1>4, <1>6
<1>10. {k \in DOMAIN outer : outer[k].number = 9} = {q}
  <2>1. ASSUME NEW k \in 1 .. q, outer[k].number = 9 PROVE k = q
    <3>1. ~(9 \in {3, 7})
      OBVIOUS
    <3> QED BY <1>7, <1>8, <2>1, <3>1, Zenon
  <2> QED BY <1>7, <1>8, <1>9, <2>1, Zenon
<1>11. OscoreValues(outer) = {value}
  BY <1>7, <1>10, Zenon DEF OscoreValues, COAP_OPTION_OSCORE
<1> QED BY <1>1, <1>4, <1>5, <1>6, <1>8, <1>11, Zenon

\* What oscore2coap of the peer makes of the packet.
DeliveredAs(m, s, sent) ==
  oscore2coap(sent.msg, sent.sealed, s) = [err |-> "ok", oscore |-> TRUE, msg |-> m]

Room(list) == Len(list) <= MAX_OPTION_COUNT /\ OptionsFit(list)
SentIs(m, sent, token, payload, value, e, outer) == sent = Sent(m, token, payload, value, e, outer)

LEMMA PlainDelivered ==
  ASSUME NEW m, NEW token, NEW list, NEW payload, NEW value, NEW u, NEW e, NEW outer,
         Apart(m, token, list, payload, value, u, e, outer), Room(list), NEW s \in 0 .. 255,
         NEW sent, SentIs(m, sent, token, payload, value, e, outer)
  PROVE  DeliveredAs(m, s, sent)
<1>1. PICK x, c, type, code : /\ x = Inside(m.code, e, payload) /\ c = Ciphertext(x)
                              /\ type = m.type /\ code = OuterCode(m)
  OBVIOUS
<1>2. PICK msg, tkl : msg = coap2buf(type, code, tkl, token, outer, c) /\ tkl = Len(token)
  OBVIOUS
<1>3. /\ m.code \in 0 .. 255 /\ payload \in Seq(0 .. 255)
      /\ token \in Seq(0 .. 255) /\ Len(token) <= 8
      /\ Parts(list, u, e, outer, value)
  BY Zenon DEF Apart
<1>4. ShortList(e) /\ ShortList(outer) /\ e \in Seq(ShortOptions)
  BY <1>3, Zenon DEF Parts, ShortList
<1>5. m = coap2buf(m.type, m.code, Len(token), token, list, payload)
  BY Zenon DEF Apart
<1>6. m.tkl = tkl
  <2>1. \A a, b, d : [type |-> a, code |-> b, tkl |-> tkl, bytes |-> d].tkl = tkl
    OBVIOUS
  <2> QED BY <1>2, <1>5, <2>1, Zenon DEF coap2buf
<1>7. x \in Seq(0 .. 255)
  <2>1. PICK k : k = m.code
    OBVIOUS
  <2>2. k \in 0 .. 255
    BY <1>3, <2>1
  <2>3. Inside(k, e, payload) \in Seq(0 .. 255)
    BY <1>3, <1>4, <2>2, InsideFacts, Zenon
  <2> QED BY <1>1, <2>1, <2>3, Zenon
<1>8. c \in Seq(0 .. 255) /\ c # <<>> /\ SubSeq(c, 1, Len(c) - AUTH_TAG_LEN) = x
  BY <1>1, <1>7, CiphertextFacts
<1>9. sent.msg = msg /\ sent.sealed[1] = value /\ sent.sealed[2] = c
  <2>1. PICK pair : pair = <<value, c>>
    OBVIOUS
  <2>2. pair[1] = value /\ pair[2] = c
    BY <2>1
  <2>3. sent = [err |-> "ok", sealed |-> pair, msg |-> msg]
    BY <1>1, <1>2, <1>6, <2>1, Zenon DEF SentIs, Sent, Sealed
  <2>4. sent.sealed = pair /\ sent.msg = msg
    BY <2>3
  <2> QED BY <2>2, <2>4, Zenon
<1>10. buf2coap(msg, s) = MessageRead(token, outer, c)
  <2>1. Carried(token, outer, c)
    BY <1>3, <1>4, <1>8, Zenon DEF Carried
  <2>2. MessageReads(type, code, token, outer, c, s)
    BY <2>1, ReadMessage
  <2> QED BY <1>2, <2>2, Zenon DEF MessageReads
<1>11. PICK in, plaintext, inner, options :
         /\ in = buf2coap(msg, s)
         /\ plaintext = SubSeq(in.payload, 1, Len(in.payload) - AUTH_TAG_LEN)
         /\ inner = oscore_decrypted_payload_parser(plaintext, s)
         /\ options = options_from_oscore_reorder(in.options, inner.options, s)
  BY Zenon
<1>12. in.err = "ok" /\ in.token = token /\ in.options = outer /\ in.payload = c
  <2>1. in = [err |-> "ok", token |-> token, options |-> outer, payload |-> c]
    BY <1>10, <1>11, Zenon DEF MessageRead
  <2> QED BY <2>1
<1>13. inner.err = "ok" /\ inner.code = m.code /\ inner.options = e /\ inner.payload = payload
  <2>1. plaintext = x
    BY <1>8, <1>11, <1>12, Zenon
  <2>2. PICK k : k = m.code
    OBVIOUS
  <2>3. k \in 0 .. 255
    BY <1>3, <2>2
  <2>4. x = Inside(k, e, payload)
    BY <1>1, <2>2, Zenon
  <2>5. PlaintextReads(k, e, payload, s)
    BY <1>3, <1>4, <2>3, ReadPlaintext
  <2>6. inner = [err |-> "ok", code |-> k, options |-> e, payload |-> payload]
    BY <1>11, <2>1, <2>4, <2>5, Zenon DEF PlaintextReads
  <2>7. inner.err = "ok" /\ inner.code = k /\ inner.options = e /\ inner.payload = payload
    BY <2>6
  <2> QED BY <2>2, <2>7, Zenon
<1>14. options = list
  <2>1. Reorders(list, u, e, outer, value, s)
    BY <1>3, ReorderRestores
  <2> QED BY <1>11, <1>12, <1>13, <2>1, Zenon DEF Reorders
<1>15. OscoreValues(in.options) = {value} /\ Len(in.options) + Len(inner.options) - 1 = Len(list)
  <2>1. OscoreValues(outer) = {value} /\ Len(outer) + Len(e) - 1 = Len(list)
    BY <1>3, PartsFacts
  <2> QED BY <1>12, <1>13, <2>1, Zenon
<1>16. OscoreValues(in.options) # {}
  BY <1>15
<1>17. <<OscoreValues(in.options), in.payload>> = <<{sent.sealed[1]}, sent.sealed[2]>>
  BY <1>9, <1>12, <1>15, Zenon
<1>18. ~(Len(in.options) + Len(inner.options) - 1 > MAX_OPTION_COUNT)
  <2>1. PICK n : n = Len(list)
    OBVIOUS
  <2>2. n \in Nat /\ n <= MAX_OPTION_COUNT /\ MAX_OPTION_COUNT \in Nat
    <3>1. Len(list) \in Nat
      BY <1>3, PartsFacts
    <3> QED BY <2>1, <3>1, LimitsAssumption DEF Room
  <2>3. ~(n > MAX_OPTION_COUNT)
    BY <2>2
  <2> QED BY <1>15, <2>1, <2>3, Zenon
<1>19. OptionsFit(options)
  BY <1>14, Zenon DEF Room
<1>20. coap2buf(msg.type, inner.code, msg.tkl, in.token, options, inner.payload) = m
  <2>1. msg.type = type /\ msg.tkl = tkl
    <3>1. \A a, b : /\ [type |-> type, code |-> a, tkl |-> tkl, bytes |-> b].type = type
                    /\ [type |-> type, code |-> a, tkl |-> tkl, bytes |-> b].tkl = tkl
      OBVIOUS
    <3> QED BY <1>2, <3>1, Zenon DEF coap2buf
  <2> QED BY <1>1, <1>2, <1>5, <1>12, <1>13, <1>14, <2>1, Zenon
<1>21. oscore2coap(msg, sent.sealed, s) = [err |-> "ok", oscore |-> TRUE, msg |-> m]
  BY <1>11, <1>12, <1>13, <1>16, <1>17, <1>18, <1>19, <1>20, Zenon DEF oscore2coap
<1> QED BY <1>9, <1>21, Zenon DEF DeliveredAs

-----------------------------------------------------------------------------
(* The inductive invariant: what was delivered is what oscore2coap makes   *)
(* of what coap2oscore made of a message.                                  *)

OneMessage ==
  /\ app \in Messages
  /\ protected = coap2oscore(app, OscoreValue, stray)
  /\ \/ delivered = NoMessage
     \/ /\ protected.err = "ok"
        /\ delivered = oscore2coap(protected.msg,
                         IF IsEmptyAck(app) THEN <<>> ELSE protected.sealed, stray)
Idle == app = NoMessage /\ protected = NoMessage /\ delivered = NoMessage
CoapInv == stray \in Strays /\ (Idle \/ OneMessage)

LEMMA MessagesAre ==
  ASSUME Regulars, NEW m \in Messages
  PROVE  m # NoMessage
<1>1. Refused(m) \/ Plain(m)
  BY DEF Regulars, Regular
<1>2. ASSUME NEW a, NEW b, NEW c, NEW d
      PROVE  [type |-> a, code |-> b, tkl |-> c, bytes |-> d] # NoMessage
  <2>1. DOMAIN [type |-> a, code |-> b, tkl |-> c, bytes |-> d] = {"type", "code", "tkl", "bytes"}
    OBVIOUS
  <2>2. DOMAIN NoMessage = {"err"}
    BY DEF NoMessage
  <2>3. "type" # "err"
    OBVIOUS
  <2> QED BY <2>1, <2>2, <2>3, Zenon
<1>3. CASE Refused(m)
  BY <1>2, <1>3, Zenon DEF Refused
<1>4. CASE Plain(m)
  BY <1>2, <1>4, Zenon DEF Plain, coap2buf
<1> QED BY <1>1, <1>3, <1>4

LEMMA NoMessageErr == NoMessage.err = "none"
BY DEF NoMessage

\* Whatever Protect, Unprotect and Done do, in any order: the three variables
\* belong to one message, read with the same bytes in memory never written.
THEOREM CoapInvariant ==
  ASSUME Regulars
  PROVE  Spec => []CoapInv
<1>1. Init => CoapInv
  BY DEF Init, CoapInv, Idle
<1>2. CoapInv /\ [Next]_vars => CoapInv'
  <2> SUFFICES ASSUME CoapInv, [Next]_vars PROVE CoapInv'
    OBVIOUS
  <2>1. CASE Protect
    <3>1. app = NoMessage /\ UNCHANGED <<delivered, stray>>
      BY <2>1 DEF Protect
    <3>2. PICK m \in Messages : app' = m /\ protected' = coap2oscore(m, OscoreValue, stray)
      BY <2>1 DEF Protect
    <3>3. delivered = NoMessage
      BY <3>1, MessagesAre DEF CoapInv, Idle, OneMessage
    <3>4. stray' = stray /\ delivered' = NoMessage
      BY <3>1, <3>3
    <3>5. OneMessage'
      BY <3>2, <3>4, Zenon DEF OneMessage
    <3> QED BY <3>4, <3>5 DEF CoapInv
  <2>2. CASE Unprotect
    <3>1. protected.err = "ok" /\ UNCHANGED <<app, protected, stray>>
      BY <2>2 DEF Unprotect
    <3>2. OneMessage
      <4>1. "ok" # "none"
        OBVIOUS
      <4> QED BY <3>1, <4>1, NoMessageErr, Zenon DEF CoapInv, Idle
    <3>3. delivered' = oscore2coap(protected.msg,
                         IF IsEmptyAck(app) THEN <<>> ELSE protected.sealed, stray)
      BY <2>2, Zenon DEF Unprotect
    <3>4. app' = app /\ protected' = protected /\ stray' = stray
      BY <3>1
    <3>5. OneMessage'
      BY <3>1, <3>2, <3>3, <3>4, Zenon DEF OneMessage
    <3> QED BY <3>4, <3>5 DEF CoapInv
  <2>3. CASE Done
    BY <2>3 DEF Done, CoapInv, Idle
  <2>4. CASE UNCHANGED vars
    <3>1. app' = app /\ protected' = protected /\ stray' = stray /\ delivered' = delivered
      BY <2>4 DEF vars
    <3> QED BY <3>1, Zenon DEF CoapInv, Idle, OneMessage
  <2> QED BY <2>1, <2>2, <2>3, <2>4 DEF Next
<1> QED BY <1>1, <1>2, PTL DEF Spec

\* A token that is too long is refused.
LEMMA RefusedIs ==
  ASSUME NEW m, Refused(m), NEW s
  PROVE  coap2oscore(m, OscoreValue, s) = [err |-> "oscore_inpkt_invalid_tkl"]
<1>1. buf2coap(m, s) = [err |-> "oscore_inpkt_invalid_tkl"]
  BY Zenon DEF Refused, buf2coap
<1>2. PICK in : in = buf2coap(m, s)
  OBVIOUS
<1>3. in.err = "oscore_inpkt_invalid_tkl"
  BY <1>1, <1>2
<1>4. in.err # "ok"
  BY <1>3
<1> QED BY <1>2, <1>3, <1>4, Zenon DEF coap2oscore

\* The packet that is on its way or was delivered, and its message.
Packet(m, sent, s, token, list, payload, value, u, e, outer) ==
  /\ Apart(m, token, list, payload, value, u, e, outer)
  /\ Room(list)
  /\ SentIs(m, sent, token, payload, value, e, outer)
  /\ ~ TooLong(m, list, payload, e, outer)
  /\ s \in 0 .. 255

LEMMA OnItsWay ==
  ASSUME Regulars, CoapInv, protected.err = "ok", ~ IsEmptyAck(app)
  PROVE  /\ OneMessage
         /\ \E token, list, payload, value, u, e, outer :
              Packet(app, protected, stray, token, list, payload, value, u, e, outer)
<1>1. OneMessage
  <2>1. "ok" # "none"
    OBVIOUS
  <2> QED BY <2>1, NoMessageErr, Zenon DEF CoapInv, Idle
<1>2. stray \in 0 .. 255
  BY StraysAssumption DEF CoapInv
<1>3. app \in Messages /\ protected = coap2oscore(app, OscoreValue, stray)
  BY <1>1, Zenon DEF OneMessage
<1>4. ~ Refused(app)
  <2> SUFFICES ASSUME Refused(app) PROVE FALSE
    OBVIOUS
  <2>1. protected = [err |-> "oscore_inpkt_invalid_tkl"]
    BY <1>3, RefusedIs, Zenon
  <2>2. protected.err = "oscore_inpkt_invalid_tkl"
    BY <2>1
  <2> QED BY <2>2
<1>5. Plain(app) /\ Storable(app)
  BY <1>3, <1>4, Zenon DEF Regulars, Regular
<1>6. PICK token, list, payload, value, u, e, outer :
        /\ Apart(app, token, list, payload, value, u, e, outer)
        /\ buf2coap(app, 0) = MessageRead(token, list, payload)
  BY <1>5, PlainApart, Zenon
<1>7. Room(list)
  <2>1. MessageRead(token, list, payload).options = list
    BY DEF MessageRead
  <2> QED BY <1>5, <1>6, <2>1, Zenon DEF Storable, Room
<1>8. ProtectedAs(app, stray, token, list, payload, value, e, outer)
  BY <1>2, <1>6, PlainProtected
<1>9. ~ TooLong(app, list, payload, e, outer)
  <2> SUFFICES ASSUME TooLong(app, list, payload, e, outer) PROVE FALSE
    OBVIOUS
  <2>1. protected = [err |-> "buffer_to_small"]
    BY <1>3, <1>8, Zenon DEF ProtectedAs
  <2>2. protected.err = "buffer_to_small"
    BY <2>1
  <2> QED BY <2>2
<1>10. SentIs(app, protected, token, payload, value, e, outer)
  BY <1>3, <1>8, <1>9, Zenon DEF ProtectedAs, SentIs
<1>11. Packet(app, protected, stray, token, list, payload, value, u, e, outer)
  BY <1>2, <1>6, <1>7, <1>9, <1>10, Zenon DEF Packet
<1> QED BY <1>1, <1>11, Zenon

-----------------------------------------------------------------------------
(* The properties                                                          *)

LEMMA RestoredByInv ==
  ASSUME Regulars, CoapInv
  PROVE  MessageRestored
<1> SUFFICES ASSUME delivered # NoMessage, ~ IsEmptyAck(app)
             PROVE  delivered.err = "ok" /\ delivered.oscore /\ delivered.msg = app
  BY Zenon DEF MessageRestored
<1>1. protected.err = "ok"
  BY Zenon DEF CoapInv, Idle, OneMessage
<1>2. PICK token, list, payload, value, u, e, outer :
        Packet(app, protected, stray, token, list, payload, value, u, e, outer)
  BY <1>1, OnItsWay, Zenon
<1>3. DeliveredAs(app, stray, protected)
  <2>1. PICK m, sent, s : m = app /\ sent = protected /\ s = stray
    BY Zenon
  <2>2. /\ Apart(m, token, list, payload, value, u, e, outer) /\ Room(list)
        /\ SentIs(m, sent, token, payload, value, e, outer) /\ s \in 0 .. 255
    BY <1>2, <2>1, Zenon DEF Packet
  <2>3. DeliveredAs(m, s, sent)
    BY <2>2, PlainDelivered
  <2> QED BY <2>1, <2>3, Zenon
<1>4. OneMessage
  BY <1>1, OnItsWay, Zenon
<1>5. delivered = [err |-> "ok", oscore |-> TRUE, msg |-> app]
  BY <1>3, <1>4, Zenon DEF OneMessage, DeliveredAs
<1> QED BY <1>5

\* For messages of any number of options whose deltas and lengths all the
\* encodings of the code agree on, and any limits: e_u_options_extract, the
\* two option writers, the two readers and options_from_oscore_reorder
\* together give the peer the message that went into coap2oscore.
THEOREM MessageRestoredTheorem ==
  ASSUME Regulars
  PROVE  Spec => []MessageRestored
<1>1. Spec => []CoapInv
  BY CoapInvariant
<1>2. CoapInv => MessageRestored
  BY RestoredByInv
<1> QED BY <1>1, <1>2, PTL

\* What buf2coap reads from the packet.
LEMMA PacketRead ==
  ASSUME NEW m, NEW sent, NEW s, NEW token, NEW list, NEW payload, NEW value,
         NEW u, NEW e, NEW outer,
         Packet(m, sent, s, token, list, payload, value, u, e, outer)
  PROVE  /\ buf2coap(sent.msg, s).err = "ok" /\ buf2coap(sent.msg, s).options = outer
         /\ sent.msg.code = OuterCode(m)
         /\ sent.sealed[2] = Sealed(m, e, payload)
         /\ SubSeq(sent.sealed[2], 1, Len(sent.sealed[2]) - AUTH_TAG_LEN)
              = Inside(m.code, e, payload)
<1>1. PICK x, c, type, code : /\ x = Inside(m.code, e, payload) /\ c = Ciphertext(x)
                              /\ type = m.type /\ code = OuterCode(m)
  OBVIOUS
<1>2. PICK msg : msg = coap2buf(type, code, Len(token), token, outer, c)
  OBVIOUS
<1>3. /\ m.code \in 0 .. 255 /\ payload \in Seq(0 .. 255)
      /\ token \in Seq(0 .. 255) /\ Len(token) <= 8
      /\ Parts(list, u, e, outer, value)
  BY Zenon DEF Packet, Apart
<1>4. ShortList(e) /\ ShortList(outer) /\ e \in Seq(ShortOptions)
  BY <1>3, Zenon DEF Parts, ShortList
<1>5. m.tkl = Len(token)
  <2>1. PICK a, b, n : a = m.type /\ b = m.code /\ n = Len(token)
    OBVIOUS
  <2>2. m = coap2buf(m.type, m.code, Len(token), token, list, payload)
    BY Zenon DEF Packet, Apart
  <2>3. m = coap2buf(a, b, n, token, list, payload)
    BY <2>1, <2>2, Zenon
  <2>4. coap2buf(a, b, n, token, list, payload).tkl = n
    BY DEF coap2buf
  <2> QED BY <2>1, <2>3, <2>4, Zenon
<1>6. c \in Seq(0 .. 255) /\ c # <<>> /\ SubSeq(c, 1, Len(c) - AUTH_TAG_LEN) = x
  <2>1. PICK k : k = m.code
    OBVIOUS
  <2>2. k \in 0 .. 255
    BY <1>3, <2>1
  <2>3. Inside(k, e, payload) \in Seq(0 .. 255)
    BY <1>3, <1>4, <2>2, InsideFacts, Zenon
  <2>4. x \in Seq(0 .. 255)
    BY <1>1, <2>1, <2>3, Zenon
  <2> QED BY <1>1, <2>4, CiphertextFacts
<1>7. sent.msg = msg /\ sent.sealed[2] = c
  <2>1. PICK pair : pair = <<value, c>>
    OBVIOUS
  <2>2. pair[2] = c
    BY <2>1
  <2>3. sent = [err |-> "ok", sealed |-> pair, msg |-> msg]
    BY <1>1, <1>2, <1>5, <2>1, Zenon DEF Packet, SentIs, Sent, Sealed
  <2>4. sent.sealed = pair /\ sent.msg = msg
    BY <2>3
  <2> QED BY <2>2, <2>4, Zenon
<1>8. buf2coap(msg, s) = MessageRead(token, outer, c)
  <2>1. Carried(token, outer, c)
    BY <1>3, <1>4, <1>6, Zenon DEF Carried
  <2>2. s \in 0 .. 255
    BY DEF Packet
  <2>3. MessageReads(type, code, token, outer, c, s)
    BY <2>1, <2>2, ReadMessage
  <2> QED BY <1>2, <2>3, Zenon DEF MessageReads
<1>9. buf2coap(msg, s).err = "ok" /\ buf2coap(msg, s).options = outer
  <2>1. /\ MessageRead(token, outer, c).err = "ok"
        /\ MessageRead(token, outer, c).options = outer
    BY DEF MessageRead
  <2> QED BY <1>8, <2>1, Zenon
<1>10. msg.code = code
  <2>1. \A a, b, d : [type |-> a, code |-> code, tkl |-> b, bytes |-> d].code = code
    OBVIOUS
  <2> QED BY <1>2, <2>1, Zenon DEF coap2buf
<1> QED BY <1>1, <1>6, <1>7, <1>9, <1>10, Zenon DEF Sealed

LEMMA OuterByInv ==
  ASSUME Regulars, CoapInv
  PROVE  OnlyClassUOnTheWire
<1> SUFFICES ASSUME protected.err = "ok", ~ IsEmptyAck(app)
             PROVE  LET outer == buf2coap(protected.msg, stray) IN
      /\ outer.err = "ok"
      /\ \A k \in DOMAIN outer.options : outer.options[k].number \in {3, 7, 9, 35, 39}
      /\ Cardinality({k \in DOMAIN outer.options :
                        outer.options[k].number = COAP_OPTION_OSCORE}) = 1
      /\ protected.msg.code \in {2, 68}
  BY Zenon DEF OnlyClassUOnTheWire
<1>1. PICK token, list, payload, value, u, e, outer :
        Packet(app, protected, stray, token, list, payload, value, u, e, outer)
  BY OnItsWay, Zenon
<1>2. PICK in : in = buf2coap(protected.msg, stray)
  BY Zenon
<1>3. in.err = "ok" /\ in.options = outer /\ protected.msg.code = OuterCode(app)
  <2>1. PICK m, sent, s : m = app /\ sent = protected /\ s = stray
    BY Zenon
  <2>2. Packet(m, sent, s, token, list, payload, value, u, e, outer)
    BY <1>1, <2>1, Zenon
  <2>3. /\ buf2coap(sent.msg, s).err = "ok" /\ buf2coap(sent.msg, s).options = outer
        /\ sent.msg.code = OuterCode(m)
    BY <2>2, PacketRead
  <2> QED BY <1>2, <2>1, <2>3, Zenon
<1>4. Parts(list, u, e, outer, value)
  BY <1>1, Zenon DEF Packet, Apart
<1>5. PICK m : m = Len(u)
  OBVIOUS
<1>6. OuterIs(outer, u, m, value) /\ outer \in Seq(ShortOptions)
  <2>1. OuterIs(outer, u, Len(u), value)
    BY <1>4, PartsFacts
  <2> QED BY <1>4, <1>5, <2>1, Zenon DEF Parts, ShortList
<1>7. PICK q : q = Len(outer)
  OBVIOUS
<1>8. /\ q = m + 1 /\ m \in Nat /\ outer[q].number = 9
      /\ \A k \in 1 .. m : outer[k].number \in {3, 7}
  BY <1>6, <1>7, Zenon DEF OuterIs, Same
<1>9. q \in 1 .. q /\ \A k \in 1 .. q : k \in 1 .. m \/ k = q
  BY <1>8
<1>10. DOMAIN outer = 1 .. q
  BY <1>6, <1>7
<1>11. \A k \in DOMAIN outer : outer[k].number \in {3, 7, 9, 35, 39}
  BY <1>8, <1>9, <1>10
<1>12. {k \in DOMAIN outer : outer[k].number = COAP_OPTION_OSCORE} = {q}
  <2>1. ASSUME NEW k \in 1 .. q, outer[k].number = 9 PROVE k = q
    <3>1. ~(9 \in {3, 7})
      OBVIOUS
    <3> QED BY <1>8, <1>9, <2>1, <3>1, Zenon
  <2> QED BY <1>8, <1>9, <1>10, <2>1, Zenon DEF COAP_OPTION_OSCORE
<1>13. Cardinality({q}) = 1
  BY FS_Singleton
<1>14. protected.msg.code \in {2, 68}
  BY <1>3 DEF OuterCode
<1> QED BY <1>2, <1>3, <1>11, <1>12, <1>13, <1>14, Zenon

\* For the same messages: oscore_pkg_generate leaves in clear only the class U
\* options that e_u_options_extract put aside, the OSCORE option once, and one
\* of the two outer codes.
THEOREM OnlyClassUTheorem ==
  ASSUME Regulars
  PROVE  Spec => []OnlyClassUOnTheWire
<1>1. Spec => []CoapInv
  BY CoapInvariant
<1>2. CoapInv => OnlyClassUOnTheWire
  BY OuterByInv
<1> QED BY <1>1, <1>2, PTL

\* Every option counts for five bytes at least.
LEMMA FiveEach ==
  ASSUME NEW list \in Seq(ShortOptions)
  PROVE  MaxEncodedLen(list) \in Nat /\ 5 * Len(list) <= MaxEncodedLen(list)
<1>1. PICK n, t : n = Len(list) /\ t = MaxEncodedLen(list)
  OBVIOUS
<1>2. n \in Nat /\ \A k \in 1 .. n : list[k] \in ShortOptions
  BY <1>1
<1>3. PICK F \in [0 .. n -> Nat] :
        /\ F[0] = 0 /\ F[n] = t
        /\ \A k \in 1 .. n : F[k] = F[k - 1] + 5 + Len(list[k].value)
  BY <1>1, MaxEncodedFold DEF Summed
<1>4. \A k \in 1 .. n : Len(list[k].value) \in Nat
  BY <1>2, ShortOptionFacts
<1> DEFINE S == {k \in 0 .. n : 5 * k <= F[k]}
<1>5. 0 \in S
  BY <1>2, <1>3
<1>6. ASSUME NEW k \in 0 .. n, k \in S, k < n PROVE k + 1 \in S
  <2>1. k + 1 \in 1 .. n /\ k + 1 \in 0 .. n /\ k + 1 - 1 = k /\ k \in Nat
    BY <1>2, <1>6
  <2>2. PICK v, f : v = Len(list[k + 1].value) /\ f = F[k]
    OBVIOUS
  <2>3. v \in Nat /\ f \in Nat /\ 5 * k <= f
    BY <1>4, <1>6, <2>1, <2>2
  <2>4. F[k + 1] = f + 5 + v
    BY <1>3, <2>1, <2>2
  <2>5. 5 * (k + 1) <= f + 5 + v
    BY <2>1, <2>3
  <2> QED BY <2>1, <2>4, <2>5
<1>7. n \in S
  <2>1. n \in 0 .. n
    BY <1>2
  <2> HIDE DEF S
  <2> QED BY <1>2, <1>5, <1>6, <2>1, Upward
<1>8. t \in Nat /\ 5 * n <= t
  BY <1>2, <1>3, <1>7
<1> QED BY <1>1, <1>8, Zenon

\* What oscore_decrypted_payload_parser reads from its plaintext.
LEMMA InsideRead ==
  ASSUME NEW m, NEW sent, NEW s, NEW token, NEW list, NEW payload, NEW value,
         NEW u, NEW e, NEW outer,
         Packet(m, sent, s, token, list, payload, value, u, e, outer)
  PROVE  PlaintextReads(m.code, e, payload, s)
<1>1. PICK k : k = m.code
  OBVIOUS
<1>2. /\ k \in 0 .. 255 /\ payload \in Seq(0 .. 255) /\ s \in 0 .. 255 /\ ShortList(e)
  BY <1>1, Zenon DEF Packet, Apart, Parts
<1>3. PlaintextReads(k, e, payload, s)
  BY <1>2, ReadPlaintext
<1> QED BY <1>1, <1>3, Zenon

LEMMA ArraysByInv ==
  ASSUME Regulars, ArrayHoldsLimit, CoapInv
  PROVE  OptionsFitArrays
<1> SUFFICES ASSUME protected.err = "ok", ~ IsEmptyAck(app)
             PROVE  LET sealed == protected.sealed[2]
        inner == oscore_decrypted_payload_parser(
                   SubSeq(sealed, 1, Len(sealed) - AUTH_TAG_LEN), stray)
    IN /\ Len(inner.options) <= EOptionsCapacity
       /\ Len(inner.options) + Len(buf2coap(protected.msg, stray).options) - 1
            <= MAX_OPTION_COUNT
  BY Zenon DEF OptionsFitArrays
<1>1. PICK token, list, payload, value, u, e, outer :
        Packet(app, protected, stray, token, list, payload, value, u, e, outer)
  BY OnItsWay, Zenon
<1>2. PICK m, sent, s : m = app /\ sent = protected /\ s = stray
  BY Zenon
<1>3. Packet(m, sent, s, token, list, payload, value, u, e, outer)
  BY <1>1, <1>2, Zenon
<1>4. PICK inner : inner = oscore_decrypted_payload_parser(
             SubSeq(sent.sealed[2], 1, Len(sent.sealed[2]) - AUTH_TAG_LEN), s)
  OBVIOUS
<1>5. /\ m.code \in 0 .. 255 /\ payload \in Seq(0 .. 255) /\ s \in 0 .. 255
      /\ Parts(list, u, e, outer, value) /\ ShortList(e)
      /\ Room(list) /\ ~ TooLong(m, list, payload, e, outer)
  BY <1>3, Zenon DEF Packet, Apart, Parts
<1>6. inner.options = e
  <2>1. PICK k : k = m.code
    OBVIOUS
  <2>3. PlaintextReads(k, e, payload, s)
    BY <1>3, <2>1, InsideRead, Zenon
  <2>4. SubSeq(sent.sealed[2], 1, Len(sent.sealed[2]) - AUTH_TAG_LEN) = Inside(m.code, e, payload)
    BY <1>3, PacketRead
  <2>5. inner = [err |-> "ok", code |-> k, options |-> e, payload |-> payload]
    BY <1>4, <2>1, <2>3, <2>4, Zenon DEF PlaintextReads
  <2> QED BY <2>5
<1>7. buf2coap(sent.msg, s).options = outer
  BY <1>3, PacketRead
<1>8. PICK n, l, q, t : n = Len(list) /\ l = Len(e) /\ q = Len(outer) /\ t = MaxEncodedLen(e)
  OBVIOUS
<1>9. q + l - 1 = n /\ q \in Nat /\ l \in Nat /\ n \in Nat
  <2>1. /\ Len(outer) + Len(e) - 1 = Len(list)
        /\ Len(outer) \in Nat /\ Len(e) \in Nat /\ Len(list) \in Nat
    BY <1>5, PartsFacts
  <2> QED BY <1>8, <2>1, Zenon
<1>10. n <= MAX_OPTION_COUNT
  BY <1>5, <1>8, Zenon DEF Room
<1>11. l <= 10
  <2>1. t \in Nat /\ 5 * l <= t
    <3>1. e \in Seq(ShortOptions)
      BY <1>5, Zenon DEF ShortList
    <3>2. MaxEncodedLen(e) \in Nat /\ 5 * Len(e) <= MaxEncodedLen(e)
      BY <3>1, FiveEach
    <3> QED BY <1>8, <3>2, Zenon
  <2>2. ~(t > MAX_E_OPTIONS)
    BY <1>5, <1>8, Zenon DEF TooLong
  <2>3. MAX_E_OPTIONS \in Nat /\ MAX_E_OPTIONS < 55
    BY LimitsAssumption DEF ArrayHoldsLimit, EOptionsCapacity
  <2> QED BY <1>9, <2>1, <2>2, <2>3
<1>12. l + q - 1 <= MAX_OPTION_COUNT
  <2>1. l + q - 1 = n
    BY <1>9
  <2> QED BY <1>10, <2>1, Zenon
<1> QED BY <1>2, <1>4, <1>6, <1>7, <1>8, <1>11, <1>12, Zenon DEF EOptionsCapacity

\* For the same messages: what the limit of plaintext_setup lets through fits
\* the array of ten class E options of o_coap_pkg_generate, which has no check
\* of its own, and with the class U options the packet it writes.
THEOREM OptionsFitTheorem ==
  ASSUME Regulars, ArrayHoldsLimit
  PROVE  Spec => []OptionsFitArrays
<1>1. Spec => []CoapInv
  BY CoapInvariant
<1>2. CoapInv => OptionsFitArrays
  BY ArraysByInv
<1> QED BY <1>1, <1>2, PTL

LEMMA SentByInv ==
  ASSUME Regulars, Sendables, CoapInv
  PROVE  FittingMessagesSent
<1> SUFFICES ASSUME protected.err = "buffer_to_small"
             PROVE  MaxEncodedLen(ClassE(buf2coap(app, stray).options)) > MAX_E_OPTIONS
  BY Zenon DEF FittingMessagesSent
<1>1. OneMessage
  <2>1. "buffer_to_small" # "none"
    OBVIOUS
  <2> QED BY <2>1, NoMessageErr, Zenon DEF CoapInv, Idle
<1>2. stray \in 0 .. 255
  BY StraysAssumption DEF CoapInv
<1>3. app \in Messages /\ protected = coap2oscore(app, OscoreValue, stray)
  BY <1>1, Zenon DEF OneMessage
<1>4. ~ Refused(app)
  <2> SUFFICES ASSUME Refused(app) PROVE FALSE
    OBVIOUS
  <2>1. protected = [err |-> "oscore_inpkt_invalid_tkl"]
    BY <1>3, RefusedIs, Zenon
  <2>2. protected.err = "oscore_inpkt_invalid_tkl"
    BY <2>1
  <2> QED BY <2>2
<1>5. Plain(app) /\ Sendable(app)
  BY <1>3, <1>4, Zenon DEF Regulars, Regular, Sendables
<1>6. PICK token, list, payload, value, u, e, outer :
        /\ Apart(app, token, list, payload, value, u, e, outer)
        /\ buf2coap(app, 0) = MessageRead(token, list, payload)
  BY <1>5, PlainApart, Zenon
<1>7. /\ MessageRead(token, list, payload).options = list
      /\ MessageRead(token, list, payload).payload = payload
  BY DEF MessageRead
<1>8. /\ list \in Seq(ShortOptions) /\ ClassE(list) \in Seq(ShortOptions)
      /\ payload \in Seq(0 .. 255) /\ e = ClassE(list)
      /\ outer = WithOscoreOption(ClassU(list), SealedValue(app))
  <2>1. /\ payload \in Seq(0 .. 255) /\ e = ClassE(list) /\ ShortList(list) /\ ShortList(e)
        /\ u = ClassU(list) /\ outer = WithOscoreOption(u, value) /\ value = SealedValue(app)
    BY <1>6, Zenon DEF Apart, Parts
  <2> QED BY <2>1, Zenon DEF ShortList
<1>9. OptionsFit(outer) /\ PlaintextLen(list, payload) <= MAX_PLAINTEXT_LEN
  <2>1. /\ PlaintextLen(buf2coap(app, 0).options, buf2coap(app, 0).payload) <= MAX_PLAINTEXT_LEN
        /\ OptionsFit(OuterOptions(app))
    BY <1>5, Zenon DEF Sendable
  <2>2. OuterOptions(app) = outer
    BY <1>6, <1>7, <1>8, Zenon DEF OuterOptions
  <2> QED BY <1>6, <1>7, <2>1, <2>2, Zenon
<1>10. ~(PlaintextLen(list, payload) > MAX_PLAINTEXT_LEN)
  <2>1. PICK len, a, b : /\ len = PlaintextLen(list, payload)
                         /\ a = Len(options_into_byte_string(ClassE(list)))
                         /\ b = Len(PayloadPart(payload))
    OBVIOUS
  <2>2. len = 1 + a + b /\ a \in Nat /\ b \in Nat
    <3>1. /\ PlaintextLen(list, payload)
              = 1 + Len(options_into_byte_string(ClassE(list))) + Len(PayloadPart(payload))
          /\ Len(options_into_byte_string(ClassE(list))) \in Nat
          /\ Len(PayloadPart(payload)) \in Nat
      BY <1>8, PlaintextLenIs
    <3> QED BY <2>1, <3>1, Zenon
  <2>3. len <= MAX_PLAINTEXT_LEN /\ MAX_PLAINTEXT_LEN \in Nat
    BY <1>9, <2>1, LimitsAssumption
  <2>4. ~(len > MAX_PLAINTEXT_LEN)
    BY <2>2, <2>3
  <2> QED BY <2>1, <2>4, Zenon
<1>11. ProtectedAs(app, stray, token, list, payload, value, e, outer)
  BY <1>2, <1>6, PlainProtected
<1>12. PICK fail, sent : fail = [err |-> "ok", msg |-> app]
                         /\ sent = Sent(app, token, payload, value, e, outer)
  BY Zenon
<1>13. fail.err = "ok" /\ sent.err = "ok"
  BY <1>12 DEF Sent
<1>14. protected # fail /\ protected # sent
  BY <1>13
<1>15. TooLong(app, list, payload, e, outer)
  BY <1>3, <1>11, <1>12, <1>14, Zenon DEF ProtectedAs
<1>16. MaxEncodedLen(e) > MAX_E_OPTIONS
  BY <1>9, <1>10, <1>15, Zenon DEF TooLong
<1>17. buf2coap(app, stray).options = list
  <2>1. ReadsPlain(app, token, list, payload)
    BY <1>6, ApartRead
  <2> QED BY <1>2, <1>7, <2>1, Zenon DEF ReadsPlain
<1> QED BY <1>8, <1>16, <1>17, Zenon

\* For the same messages, when plaintext and clear options have room: the
\* length that e_u_options_extract computes from the options as they came is
\* the one that plaintext_setup needs, so that nothing but the 30 byte limit of
\* the class E options refuses a message, and nothing is cut off.
THEOREM FittingSentTheorem ==
  ASSUME Regulars, Sendables
  PROVE  Spec => []FittingMessagesSent
<1>1. Spec => []CoapInv
  BY CoapInvariant
<1>2. CoapInv => FittingMessagesSent
  BY SentByInv
<1> QED BY <1>1, <1>2, PTL

\* An empty ACK has no OSCORE option and is given back as it is.
LEMMA EmptyAckDelivered ==
  ASSUME NEW m, NEW token, NEW list, NEW payload, NEW value, NEW u, NEW e, NEW outer,
         Apart(m, token, list, payload, value, u, e, outer), NEW s \in 0 .. 255, NEW sealed
  PROVE  oscore2coap(m, sealed, s) = [err |-> "ok", oscore |-> FALSE]
<1>1. buf2coap(m, s) = MessageRead(token, list, payload)
  <2>1. ReadsPlain(m, token, list, payload)
    BY ApartRead
  <2> QED BY <2>1, Zenon DEF ReadsPlain
<1>2. PICK in : in = buf2coap(m, s)
  OBVIOUS
<1>3. in.err = "ok" /\ in.options = list
  BY <1>1, <1>2 DEF MessageRead
<1>4. ShortList(list) /\ NoProxy(list)
  BY Zenon DEF Apart, Parts
<1>5. PICK n : n = Len(list)
  OBVIOUS
<1>6. DOMAIN list = 1 .. n /\ \A k \in 1 .. n : list[k].number # 9
  <2>1. list \in Seq(ShortOptions)
    BY <1>4, Zenon DEF ShortList
  <2>2. DOMAIN list = 1 .. n
    BY <1>5, <2>1
  <2>3. \A k \in 1 .. n : list[k].number \notin {9, 35, 39}
    BY <1>4, <1>5, Zenon DEF NoProxy
  <2> QED BY <2>2, <2>3
<1>7. OscoreValues(list) = {}
  BY <1>6 DEF OscoreValues, COAP_OPTION_OSCORE
<1> QED BY <1>2, <1>3, <1>7, Zenon DEF oscore2coap

TypeParts(prot, deliv, ack) ==
  /\ prot # NoMessage
  /\ ("msg" \in DOMAIN prot) <=> (prot.err = "ok")
  /\ deliv # NoMessage =>
       /\ ("msg" \in DOMAIN deliv) <=> (deliv.err = "ok" /\ deliv.oscore)
       /\ deliv.oscore <=> ~ ack

LEMMA TypeByInv ==
  ASSUME Regulars, CoapInv
  PROVE  TypeOK
<1>1. CASE Idle
  <2>1. app = NoMessage /\ protected = NoMessage /\ delivered = NoMessage
    BY <1>1 DEF Idle
  <2>2. "msg" \notin DOMAIN NoMessage /\ NoMessage.err # "ok"
    BY DEF NoMessage
  <2> QED BY <2>1, <2>2, Zenon DEF TypeOK, CoapInv
<1>2. CASE OneMessage
  <2>1. app \in Messages /\ protected = coap2oscore(app, OscoreValue, stray)
    BY <1>2, Zenon DEF OneMessage
  <2>2. stray \in 0 .. 255 /\ stray \in Strays
    BY StraysAssumption DEF CoapInv
  <2>3. app # NoMessage
    BY <2>1, MessagesAre
  <2>4. PICK p, d : p = protected /\ d = delivered
    BY Zenon
  <2>5. d = NoMessage
        \/ (p.err = "ok" /\ d = oscore2coap(p.msg, IF IsEmptyAck(app) THEN <<>> ELSE p.sealed, stray))
    BY <1>2, <2>4, Zenon DEF OneMessage
  <2>6. ASSUME NEW err, p = [err |-> err], err # "ok", err # "none"
        PROVE  TypeParts(p, d, IsEmptyAck(app))
    <3>1. p.err = err /\ DOMAIN p = {"err"} /\ "msg" # "err"
      BY <2>6
    <3>2. p # NoMessage
      BY <2>6, <3>1, NoMessageErr, Zenon
    <3> QED BY <2>5, <2>6, <3>1, <3>2, Zenon DEF TypeParts
  <2>7. TypeParts(p, d, IsEmptyAck(app))
    <3>1. CASE Refused(app)
      <4>1. p = [err |-> "oscore_inpkt_invalid_tkl"]
        BY <2>1, <2>4, <3>1, RefusedIs, Zenon
      <4>2. "oscore_inpkt_invalid_tkl" # "ok" /\ "oscore_inpkt_invalid_tkl" # "none"
        OBVIOUS
      <4> QED BY <2>6, <4>1, <4>2, Zenon
    <3>2. CASE ~ Refused(app)
      <4>1. Plain(app) /\ Storable(app)
        BY <2>1, <3>2, Zenon DEF Regulars, Regular
      <4>2. PICK token, list, payload, value, u, e, outer :
              /\ Apart(app, token, list, payload, value, u, e, outer)
              /\ buf2coap(app, 0) = MessageRead(token, list, payload)
        BY <4>1, PlainApart, Zenon
      <4>3. ProtectedAs(app, stray, token, list, payload, value, e, outer)
        BY <2>2, <4>2, PlainProtected
      <4>4. CASE IsEmptyAck(app)
        <5>1. p = [err |-> "ok", msg |-> app]
          BY <2>1, <2>4, <4>3, <4>4, Zenon DEF ProtectedAs
        <5>2. p.err = "ok" /\ "msg" \in DOMAIN p /\ "ok" # "none" /\ p.msg = app
          BY <5>1
        <5>3. p # NoMessage
          BY <5>2, NoMessageErr, Zenon
        <5>4. d = NoMessage \/ d = [err |-> "ok", oscore |-> FALSE]
          <6>1. oscore2coap(app, <<>>, stray) = [err |-> "ok", oscore |-> FALSE]
            BY <2>2, <4>2, EmptyAckDelivered, ZenonT(40)
          <6> QED BY <2>5, <4>4, <5>2, <6>1, Zenon
        <5>5. ASSUME d = [err |-> "ok", oscore |-> FALSE]
              PROVE  "msg" \notin DOMAIN d /\ ~ d.oscore
          BY <5>5
        <5> QED BY <4>4, <5>2, <5>3, <5>4, <5>5, Zenon DEF TypeParts
      <4>5. CASE ~ IsEmptyAck(app) /\ TooLong(app, list, payload, e, outer)
        <5>1. p = [err |-> "buffer_to_small"]
          BY <2>1, <2>4, <4>3, <4>5, Zenon DEF ProtectedAs
        <5>2. "buffer_to_small" # "ok" /\ "buffer_to_small" # "none"
          OBVIOUS
        <5> QED BY <2>6, <5>1, <5>2, Zenon
      <4>6. CASE ~ IsEmptyAck(app) /\ ~ TooLong(app, list, payload, e, outer)
        <5>1. p = Sent(app, token, payload, value, e, outer)
          BY <2>1, <2>4, <4>3, <4>6, Zenon DEF ProtectedAs
        <5>2. p.err = "ok" /\ "msg" \in DOMAIN p /\ "ok" # "none"
          BY <5>1 DEF Sent
        <5>3. p # NoMessage
          BY <5>2, NoMessageErr, Zenon
        <5>4. d = NoMessage \/ d = [err |-> "ok", oscore |-> TRUE, msg |-> app]
          <6>1. Room(list)
            <7>1. MessageRead(token, list, payload).options = list
              BY DEF MessageRead
            <7> QED BY <4>1, <4>2, <7>1, Zenon DEF Storable, Room
          <6>2. DeliveredAs(app, stray, p)
            <7>1. PICK m, s : m = app /\ s = stray
              BY Zenon
            <7>2. /\ Apart(m, token, list, payload, value, u, e, outer) /\ Room(list)
                  /\ s \in 0 .. 255 /\ SentIs(m, p, token, payload, value, e, outer)
              BY <2>2, <4>2, <5>1, <6>1, <7>1, Zenon DEF SentIs
            <7>3. DeliveredAs(m, s, p)
              BY <7>2, PlainDelivered
            <7> QED BY <7>1, <7>3, Zenon
          <6> QED BY <2>5, <4>6, <6>2, Zenon DEF DeliveredAs
        <5>5. ASSUME d = [err |-> "ok", oscore |-> TRUE, msg |-> app]
              PROVE  "msg" \in DOMAIN d /\ d.oscore /\ d.err = "ok"
          BY <5>5
        <5> QED BY <4>6, <5>2, <5>3, <5>4, <5>5, Zenon DEF TypeParts
      <4> QED BY <4>4, <4>5, <4>6, Zenon
    <3> QED BY <3>1, <3>2
  <2> QED BY <2>2, <2>3, <2>4, <2>7, Zenon DEF TypeOK, TypeParts, IsEmptyAck
<1> QED BY <1>1, <1>2 DEF CoapInv

\* A result carries a message exactly when the call returned ok, and only the
\* empty ACK goes through both calls unprotected.
THEOREM CoapTypeTheorem ==
  ASSUME Regulars
  PROVE  Spec => []TypeOK
<1>1. Spec => []CoapInv
  BY CoapInvariant
<1>2. CoapInv => TypeOK
  BY TypeByInv
<1> QED BY <1>1, <1>2, PTL
=============================================================================
