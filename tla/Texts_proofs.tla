----------------------------- MODULE Texts_proofs -----------------------------
(***************************************************************************)
(* The texts of decimals, for every text and every value of the            *)
(* constants.  The readers: after every byte, the number they hold is the  *)
(* one the text says up to there.  The writers: after every byte, the text *)
(* says the first digits of the number.                                    *)
(***************************************************************************)
EXTENDS Formatter, Literal, DecimalLemmas, SequenceTheorems

-----------------------------------------------------------------------------
(* What the digits of a text say *)

\* The digits between two positions follow those before them.
LEMMA TailSays ==
    ASSUME NEW t \in Seq(Nat), NEW i \in 0..Len(t), NEW j \in i..Len(t), Len(t) <= PowLimit
    PROVE  LET c == CountTo(t, Digits)[j] - CountTo(t, Digits)[i]
           IN  /\ c \in 0..(j - i)
               /\ \E w \in 0..(POWERS[c] - 1) :
                      ValueTo(t, Digits, Ten)[j] = ValueTo(t, Digits, Ten)[i] * POWERS[c] + w
<1> DEFINE N == Len(t)
           v == ValueTo(t, Digits, Ten)
           e == CountTo(t, Digits)
<1>1. /\ N \in Nat /\ i \in 0..N /\ j \in i..N /\ N <= PowLimit
      /\ Ten \in Nat /\ Ten > 1 /\ PowLimit \in Nat /\ PowLimit >= 1
  BY BaseAssumption, ScaleAssumption
<1>2. /\ v \in [0..N -> Nat] /\ e \in [0..N -> Nat]
      /\ \A k \in 1..N : v[k] = IF t[k] \in Digits THEN v[k - 1] * Ten + t[k] ELSE v[k - 1]
      /\ \A k \in 1..N : e[k] = IF t[k] \in Digits THEN e[k - 1] + 1 ELSE e[k - 1]
  <2> HIDE DEF v, e
  <2>1. QED
    BY <1>1, ValueSteps, CountSteps DEF v, e
<1> HIDE DEF v, e, N
<1> DEFINE Says(k) == LET c == e[i + k] - e[i]
                      IN  /\ c \in 0..k
                          /\ \E w \in 0..(POWERS[c] - 1) : v[i + k] = v[i] * POWERS[c] + w
           T == {k \in 0..(N - i) : Says(k)}
<1>3. 0 \in T
  <2>1. i + 0 = i /\ e[i] \in Nat /\ v[i] \in Nat
    BY <1>1, <1>2
  <2>2. e[i] - e[i] = 0 /\ v[i] = v[i] * 1 + 0 /\ 0 \in 0..(1 - 1)
    BY <2>1
  <2>3. Says(0)
    <3> DEFINE c == e[i + 0] - e[i]
    <3>1. c = 0 /\ c \in 0..0 /\ POWERS[c] = 1
      BY <2>1, <2>2, PowersAssumption
    <3>2. v[i + 0] = v[i] * POWERS[c] + 0 /\ 0 \in 0..(POWERS[c] - 1)
      BY <2>1, <2>2, <3>1
    <3> HIDE DEF c
    <3>3. c \in 0..0 /\ \E w \in 0..(POWERS[c] - 1) : v[i + 0] = v[i] * POWERS[c] + w
      BY <3>1, <3>2
    <3>4. QED
      BY <3>3 DEF c
  <2>4. QED
    BY <1>1, <2>3
<1>4. ASSUME NEW k \in 1..(N - i), k - 1 \in T PROVE k \in T
  <2>1. k - 1 \in 0..(N - i) /\ Says(k - 1) /\ i + k \in 1..N /\ (i + k) - 1 = i + (k - 1) /\ i + (k - 1) \in 0..N
    BY <1>1, <1>4
  <2> DEFINE c == e[i + (k - 1)] - e[i]
  <2>2. c \in 0..(k - 1)
    BY <2>1
  <2>3. PICK w \in 0..(POWERS[c] - 1) : v[i + (k - 1)] = v[i] * POWERS[c] + w
    BY <2>1
  <2>6. w \in Nat /\ v[i] \in Nat /\ c \in 0..PowLimit /\ POWERS[c] \in Nat /\ POWERS[c] >= 1 /\ w <= POWERS[c] - 1
    <3>1. c \in 0..PowLimit
      BY <1>1, <2>1, <2>2
    <3>2. POWERS[c] \in Nat /\ POWERS[c] >= 1
      BY <3>1, PowersType
    <3>3. QED
      BY <1>1, <1>2, <2>3, <3>1, <3>2
  <2>4. CASE t[i + k] \notin Digits
    <3>1. e[i + k] = e[i + (k - 1)] /\ v[i + k] = v[i + (k - 1)]
      BY <1>2, <2>1, <2>4
    <3>2. QED
      BY <1>1, <2>2, <2>3, <3>1
  <2>5. CASE t[i + k] \in Digits
    <3>1. e[i + k] = e[i + (k - 1)] + 1 /\ v[i + k] = v[i + (k - 1)] * Ten + t[i + k]
      BY <1>2, <2>1, <2>5
    <3>2. t[i + k] \in 0..(Ten - 1)
      BY <2>5 DEF Digits
    <3>3. e[i + k] - e[i] = c + 1 /\ c + 1 \in 0..k /\ c \in 0..PowLimit /\ c + 1 \in 0..PowLimit
      <4>1. e[i + (k - 1)] \in Nat /\ e[i] \in Nat
        BY <1>1, <1>2, <2>1
      <4>2. e[i + k] - e[i] = c + 1
        BY <3>1, <4>1
      <4> HIDE DEF c
      <4>3. QED
        BY <1>1, <2>2, <4>2
    <3>4. POWERS[c + 1] = POWERS[c] * Ten /\ POWERS[c] \in Nat /\ POWERS[c] >= 1
      BY <1>1, <3>3, PowersAdd, PowersAssumption, PowersType
    <3> DEFINE x == w * Ten + t[i + k]
    <3>5. v[i + k] = v[i] * POWERS[c + 1] + x
      <4> DEFINE q == POWERS[c]
      <4>1. (v[i] * q + w) * Ten = (v[i] * q) * Ten + w * Ten /\ (v[i] * q) * Ten \in Int /\ w * Ten \in Int
        <5>1. v[i] * q \in Int
          BY <2>6, \A a, b \in Nat : a * b \in Nat
        <5>2. QED
          BY <1>1, <2>6, <5>1, Distribute
      <4>2. (v[i] * q) * Ten = v[i] * (q * Ten)
        BY <1>1, <2>6, MulAssoc
      <4>3. v[i + k] = (v[i] * q + w) * Ten + t[i + k] /\ POWERS[c + 1] = q * Ten
        BY <2>3, <3>1, <3>4
      <4> HIDE DEF q
      <4>4. QED
        BY <3>2, <4>1, <4>2, <4>3
    <3>6. x \in 0..(POWERS[c + 1] - 1)
      <4> DEFINE q == POWERS[c]
                 a == w * Ten
                 b == q * Ten
      <4>1. a \in Nat /\ a <= (q - 1) * Ten
        <5>1. w \in Nat /\ q - 1 \in Int /\ w <= q - 1 /\ w \in Int
          BY <2>6
        <5>2. w * Ten <= (q - 1) * Ten
          BY <1>1, <5>1, MulMono
        <5>3. w * Ten \in Nat
          BY <1>1, <5>1, \A u, z \in Nat : u * z \in Nat
        <5>4. QED
          BY <5>2, <5>3
      <4>2. (q - 1) * Ten = b - Ten /\ b \in Int
        BY <1>1, <2>6, Distribute, 1 * Ten = Ten
      <4>3. POWERS[c + 1] = b /\ x = a + t[i + k]
        BY <3>4
      <4> HIDE DEF q, a, b, x
      <4>4. QED
        BY <1>1, <3>2, <4>1, <4>2, <4>3, SMTT(30)
    <3> HIDE DEF x, c
    <3>7. QED
      BY <1>1, <3>3, <3>5, <3>6
  <2>7. QED
    BY <2>4, <2>5
<1>5. \A k \in 0..(N - i) : k \in T
  <2> HIDE DEF T
  <2>1. N - i \in Nat
    BY <1>1
  <2>2. QED
    BY <1>3, <1>4, <2>1, RangeInduction
<1>6. j - i \in 0..(N - i) /\ i + (j - i) = j
  BY <1>1
<1>7. Says(j - i)
  BY <1>5, <1>6
<1>8. QED
  BY <1>6, <1>7 DEF v, e

-----------------------------------------------------------------------------
(* Parser *)

\* The first k bytes of t could begin a number.
GoodTo(t, k) ==
    /\ \A i \in 1..k : \/ t[i] \in Digits \union {Point, Underscore}
                       \/ i = 1 /\ t[1] \in {Minus, Plus}
    /\ \A i, j \in 1..k : t[i] = Point /\ t[j] = Point => i = j
    /\ \A i \in 1..k : t[i] = Underscore => \E j \in 1..(i - 1) : t[j] \in Digits

\* They have pl digits behind the point.
PlacesTo(t, k, pl) ==
    /\ (\A i \in 1..k : t[i] # Point) => pl = 0
    /\ \A i \in 1..k : t[i] = Point => pl = CountTo(t, Digits)[k] - CountTo(t, Digits)[i]

\* What the parser knows, once it has read them.
Understood(t, k, sn, d, pl) ==
    /\ k \in 0..Len(t)
    /\ d = ValueTo(t, Digits, Ten)[k]
    /\ sn.has <=> \E i \in 1..k : t[i] \in Digits
    /\ sn.point <=> \E i \in 1..k : t[i] = Point
    /\ sn.neg <=> k >= 1 /\ t[1] = Minus
    /\ PlacesTo(t, k, pl)
    /\ GoodTo(t, k)

Seens == [point : BOOLEAN, neg : BOOLEAN, has : BOOLEAN, big : BOOLEAN, round : BOOLEAN]
Length == Len(text) - Len(bytes)        \* how much has been read
Running == {"first", "byte64", "byte128", "lookahead", "round"}

ParserTypeOK ==
    /\ text \in Seq(0..Letter) /\ Len(text) <= PowLimit
    /\ bytes \in Seq(0..Letter) /\ seen \in Seens
    /\ data \in Nat /\ places \in Nat /\ parsed \in Decimal
    /\ ppc \in Running \union Failed \union {"parsed"}

\* In each stage there is room for what is done next.  The last digit may be waiting
\* to be rounded because it is behind the last place, or because it does not fit.
StagePart ==
    /\ places <= MAX_SCALE
    /\ ppc = "first" <=> Length = 0
    /\ ppc \in {"byte128", "lookahead", "round"} => seen.has
    /\ ppc \in {"first", "byte64"} => data < B2
    /\ data <= Max96
    /\ ppc \in {"first", "byte64"} /\ seen.big /\ bytes # <<>> => data < WILL_OVERFLOW_U64
    /\ ppc \in {"first", "byte64", "byte128"} /\ seen.big /\ seen.point /\ bytes # <<>> => places < MAX_SCALE
    /\ ppc = "byte128" => seen.big
    /\ ppc = "lookahead" => seen.point /\ seen.round /\ places = MAX_SCALE
    /\ ppc = "round" =>
        /\ bytes # <<>> /\ seen.point /\ seen.round
        /\ \/ places = MAX_SCALE /\ text[Length] \in Digits /\ data \div Ten < WILL_OVERFLOW_U64
           \/ Head(bytes) \in Digits /\ data * Ten + Head(bytes) > Max96
           \/ places = MAX_SCALE /\ Head(bytes) # Underscore

ReadPart ==
    /\ Len(bytes) <= Len(text)
    /\ bytes = SubSeq(text, Length + 1, Len(text))
    /\ seen.big <=> Len(text) >= BYTES_TO_OVERFLOW_U64
    /\ Understood(text, Length, seen, data, places)

ParserInv ==
    /\ ParserTypeOK
    /\ ppc \in Running => ReadPart /\ StagePart
    /\ ParsedRounded

\* The bytes are all different.
LEMMA BytesDiffer ==
    /\ Ten \in Nat /\ Ten >= 2 /\ Half \in Nat /\ Half >= 1 /\ Half < Ten /\ 2 * Half = Ten
    /\ Digits = 0..(Ten - 1) /\ Digits \subseteq Nat
    /\ Point \notin Digits /\ Underscore \notin Digits /\ Minus \notin Digits /\ Plus \notin Digits
    /\ Point # Underscore /\ Point # Minus /\ Point # Plus
    /\ Underscore # Minus /\ Underscore # Plus /\ Minus # Plus
    /\ Point \in Nat /\ Underscore \in Nat /\ Minus \in Nat /\ Plus \in Nat /\ Letter \in Nat
    /\ 0..Letter \subseteq Nat
<1>1. Ten \in Nat /\ Ten >= 2 /\ Ten % 2 = 0
  BY BaseAssumption
<1>2. Half \in Nat /\ 2 * Half = Ten
  BY <1>1 DEF Half
<1>3. QED
  BY <1>1, <1>2 DEF Digits, Point, Underscore, Minus, Plus, Letter

\* What one more byte adds.
LEMMA DigitRead ==
    ASSUME NEW t \in Seq(0..Letter), NEW k \in 0..(Len(t) - 1), NEW sn \in Seens, NEW d, NEW pl \in Nat,
           Understood(t, k, sn, d, pl), t[k + 1] \in Digits
    PROVE  Understood(t, k + 1, [sn EXCEPT !.has = TRUE], d * Ten + t[k + 1],
                      IF sn.point THEN pl + 1 ELSE 0)
<1> DEFINE N == Len(t)
           v == ValueTo(t, Digits, Ten)
           c == CountTo(t, Digits)
           now == [sn EXCEPT !.has = TRUE]
           more == IF sn.point THEN pl + 1 ELSE 0
<1>1. /\ t \in Seq(Nat) /\ N \in Nat /\ k \in 0..N /\ k + 1 \in 1..N /\ k + 1 \in 0..N /\ (k + 1) - 1 = k
      /\ Ten \in Nat /\ k \in Nat
  BY BytesDiffer
<1>2. /\ v[k + 1] = v[k] * Ten + t[k + 1] /\ c[k + 1] = c[k] + 1 /\ c \in [0..N -> Nat]
  <2>1. v[k + 1] = IF t[k + 1] \in Digits THEN v[(k + 1) - 1] * Ten + t[k + 1] ELSE v[(k + 1) - 1]
    BY <1>1, ValueSteps
  <2>2. c[k + 1] = (IF t[k + 1] \in Digits THEN c[(k + 1) - 1] + 1 ELSE c[(k + 1) - 1]) /\ c \in [0..N -> Nat]
    BY <1>1, CountSteps
  <2> HIDE DEF v, c, N
  <2>3. QED
    BY <1>1, <2>1, <2>2
<1>3. 1..(k + 1) = 1..k \union {k + 1}
  BY <1>1
<1>4. t[k + 1] \notin {Point, Underscore, Minus, Plus}
  BY BytesDiffer
<1>5. /\ d = v[k]
      /\ sn.has <=> \E i \in 1..k : t[i] \in Digits
      /\ sn.point <=> \E i \in 1..k : t[i] = Point
      /\ sn.neg <=> k >= 1 /\ t[1] = Minus
      /\ PlacesTo(t, k, pl) /\ GoodTo(t, k)
  BY DEF Understood
<1> HIDE DEF v
<1>6. now.has /\ (now.point <=> sn.point) /\ (now.neg <=> sn.neg)
  BY DEF Seens
<1>7. now.has <=> \E i \in 1..(k + 1) : t[i] \in Digits
  BY <1>3, <1>6
<1>8. now.point <=> \E i \in 1..(k + 1) : t[i] = Point
  BY <1>3, <1>4, <1>5, <1>6
<1>9. now.neg <=> k + 1 >= 1 /\ t[1] = Minus
  <2>1. CASE k = 0
    BY <1>4, <1>5, <1>6, <2>1
  <2>2. CASE k # 0
    BY <1>1, <1>5, <1>6, <2>2
  <2>3. QED
    BY <2>1, <2>2
<1>10. PlacesTo(t, k + 1, more)
  <2>1. (\A i \in 1..(k + 1) : t[i] # Point) => more = 0
    BY <1>3, <1>5
  <2>2. ASSUME NEW i \in 1..(k + 1), t[i] = Point PROVE more = c[k + 1] - c[i]
    <3>1. i \in 1..k /\ i \in 0..N
      BY <1>1, <1>3, <1>4, <2>2
    <3>2. sn.point /\ pl = c[k] - c[i]
      BY <1>5, <2>2, <3>1 DEF PlacesTo
    <3>3. c[k] \in Nat /\ c[i] \in Nat
      BY <1>1, <1>2, <3>1
    <3> HIDE DEF c
    <3>4. QED
      BY <1>2, <3>2, <3>3
  <2> HIDE DEF more
  <2>3. QED
    BY <2>1, <2>2 DEF PlacesTo
<1>11. GoodTo(t, k + 1)
  <2>1. \A i \in 1..(k + 1) : t[i] \in Digits \union {Point, Underscore} \/ (i = 1 /\ t[1] \in {Minus, Plus})
    BY <1>3, <1>5 DEF GoodTo
  <2>2. \A i, j \in 1..(k + 1) : t[i] = Point /\ t[j] = Point => i = j
    BY <1>3, <1>4, <1>5 DEF GoodTo
  <2>3. \A i \in 1..(k + 1) : t[i] = Underscore => \E j \in 1..(i - 1) : t[j] \in Digits
    BY <1>3, <1>4, <1>5 DEF GoodTo
  <2>4. QED
    BY <2>1, <2>2, <2>3 DEF GoodTo
<1>12. d * Ten + t[k + 1] = v[k + 1]
  BY <1>2, <1>5
<1> HIDE DEF now, more
<1>13. Understood(t, k + 1, now, d * Ten + t[k + 1], more)
  BY <1>1, <1>7, <1>8, <1>9, <1>10, <1>11, <1>12 DEF Understood, v, N
<1>14. QED
  BY <1>13 DEF now, more

LEMMA OtherRead ==
    ASSUME NEW t \in Seq(0..Letter), NEW k \in 0..(Len(t) - 1), NEW sn \in Seens, NEW d, NEW pl \in Nat,
           Understood(t, k, sn, d, pl), NEW now \in Seens, now.has <=> sn.has,
           \/ t[k + 1] = Point /\ ~sn.point /\ now.point /\ (now.neg <=> sn.neg)
           \/ t[k + 1] = Underscore /\ sn.has /\ (now.point <=> sn.point) /\ (now.neg <=> sn.neg)
           \/ k = 0 /\ t[1] \in {Minus, Plus} /\ (now.point <=> sn.point) /\ (now.neg <=> t[1] = Minus)
    PROVE  Understood(t, k + 1, now, d, pl)
<1> DEFINE N == Len(t)
           v == ValueTo(t, Digits, Ten)
           c == CountTo(t, Digits)
<1>1. /\ t \in Seq(Nat) /\ N \in Nat /\ k \in 0..N /\ k + 1 \in 1..N /\ k + 1 \in 0..N /\ (k + 1) - 1 = k
      /\ Ten \in Nat /\ k \in Nat
  BY BytesDiffer
<1>0. t[k + 1] \notin Digits
  BY BytesDiffer
<1>2. /\ v[k + 1] = v[k] /\ c[k + 1] = c[k] /\ c \in [0..N -> Nat]
  <2>1. v[k + 1] = IF t[k + 1] \in Digits THEN v[(k + 1) - 1] * Ten + t[k + 1] ELSE v[(k + 1) - 1]
    BY <1>1, ValueSteps
  <2>2. c[k + 1] = (IF t[k + 1] \in Digits THEN c[(k + 1) - 1] + 1 ELSE c[(k + 1) - 1]) /\ c \in [0..N -> Nat]
    BY <1>1, CountSteps
  <2> HIDE DEF v, c, N
  <2>3. QED
    BY <1>0, <1>1, <2>1, <2>2
<1>3. 1..(k + 1) = 1..k \union {k + 1}
  BY <1>1
<1>5. /\ d = v[k]
      /\ sn.has <=> \E i \in 1..k : t[i] \in Digits
      /\ sn.point <=> \E i \in 1..k : t[i] = Point
      /\ sn.neg <=> k >= 1 /\ t[1] = Minus
      /\ PlacesTo(t, k, pl) /\ GoodTo(t, k)
  BY DEF Understood
<1> HIDE DEF v
<1>7. now.has <=> \E i \in 1..(k + 1) : t[i] \in Digits
  BY <1>0, <1>3, <1>5
<1>8. now.point <=> \E i \in 1..(k + 1) : t[i] = Point
  <2>1. CASE t[k + 1] = Point /\ now.point
    BY <1>1, <2>1
  <2>2. CASE t[k + 1] # Point /\ (now.point <=> sn.point)
    BY <1>3, <1>5, <2>2
  <2>3. QED
    BY <2>1, <2>2, BytesDiffer
<1>9. now.neg <=> k + 1 >= 1 /\ t[1] = Minus
  <2>1. CASE k = 0
    BY <1>5, <2>1, BytesDiffer
  <2>2. CASE k # 0
    BY <1>1, <1>5, <2>2
  <2>3. QED
    BY <2>1, <2>2
<1>10. PlacesTo(t, k + 1, pl)
  <2>1. (\A i \in 1..(k + 1) : t[i] # Point) => pl = 0
    BY <1>3, <1>5 DEF PlacesTo
  <2>2. ASSUME NEW i \in 1..(k + 1), t[i] = Point PROVE pl = c[k + 1] - c[i]
    <3>1. CASE i \in 1..k
      BY <1>2, <1>5, <2>2, <3>1 DEF PlacesTo
    <3>2. CASE i = k + 1
      <4>1. ~sn.point
        BY <2>2, <3>2, BytesDiffer
      <4>2. pl = 0
        BY <1>5, <4>1 DEF PlacesTo
      <4>3. c[k + 1] \in Nat
        BY <1>1, <1>2
      <4> HIDE DEF c
      <4>4. QED
        BY <3>2, <4>2, <4>3
    <3>3. QED
      BY <1>3, <3>1, <3>2
  <2>3. QED
    BY <2>1, <2>2 DEF PlacesTo
<1>11. GoodTo(t, k + 1)
  <2>1. \A i \in 1..(k + 1) : t[i] \in Digits \union {Point, Underscore} \/ (i = 1 /\ t[1] \in {Minus, Plus})
    <3>1. t[k + 1] \in Digits \union {Point, Underscore} \/ (k + 1 = 1 /\ t[1] \in {Minus, Plus})
      OBVIOUS
    <3>2. QED
      BY <1>3, <1>5, <3>1 DEF GoodTo
  <2>2. \A i, j \in 1..(k + 1) : t[i] = Point /\ t[j] = Point => i = j
    <3>1. t[k + 1] # Point \/ ~ \E i \in 1..k : t[i] = Point
      BY <1>5, BytesDiffer, SMTT(30)
    <3>2. QED
      BY <1>3, <1>5, <3>1 DEF GoodTo
  <2>3. \A i \in 1..(k + 1) : t[i] = Underscore => \E j \in 1..(i - 1) : t[j] \in Digits
    <3>1. t[k + 1] # Underscore \/ \E j \in 1..((k + 1) - 1) : t[j] \in Digits
      BY <1>1, <1>5, BytesDiffer
    <3>2. QED
      BY <1>3, <1>5, <3>1 DEF GoodTo
  <2>4. QED
    BY <2>1, <2>2, <2>3 DEF GoodTo
<1>13. QED
  BY <1>1, <1>2, <1>5, <1>7, <1>8, <1>9, <1>10, <1>11 DEF Understood, v

LEMMA ElementsOf ==
    ASSUME NEW S, NEW t \in Seq(S)
    PROVE  \A i \in 1..Len(t) : t[i] \in S
  OBVIOUS

\* What has been understood of a text is what its head says.
LEMMA HeadSays ==
    ASSUME NEW t \in Seq(0..Letter), NEW k \in 0..Len(t), NEW sn \in Seens, NEW d, NEW pl \in Nat,
           Understood(t, k, sn, d, pl)
    PROVE  LET head == SubSeq(t, 1, k)
           IN  /\ head \in Seq(0..Letter) /\ Len(head) = k
               /\ (k >= 1 => head[1] = t[1])
               /\ Numeral(head) = d /\ Fraction(head) = pl
               /\ WellFormed(head) <=> sn.has
<1> DEFINE h == SubSeq(t, 1, k)
           v == ValueTo(t, Digits, Ten)
           c == CountTo(t, Digits)
<1>1. /\ t \in Seq(Nat) /\ Len(t) \in Nat /\ k \in Nat /\ Ten \in Nat
  BY BytesDiffer
<1>2. /\ h \in Seq(Nat) /\ Len(h) = k
      /\ \A i \in 1..k : h[i] = t[i]
      /\ \A i \in 0..k : ValueTo(h, Digits, Ten)[i] = v[i]
      /\ \A i \in 0..k : CountTo(h, Digits)[i] = c[i]
  <2>1. t \in Seq(Nat) /\ k \in 0..Len(t) /\ Ten \in Nat
    BY <1>1
  <2>2. h \in Seq(Nat) /\ Len(h) = k /\ \A i \in 1..k : h[i] = t[i]
    BY <2>1, PrefixSays
  <2>3. \A i \in 0..k : ValueTo(h, Digits, Ten)[i] = v[i]
    BY <2>1, PrefixValue, ZenonT(60)
  <2>4. \A i \in 0..k : CountTo(h, Digits)[i] = c[i]
    BY <2>1, PrefixCount, ZenonT(60)
  <2>5. QED
    BY <2>2, <2>3, <2>4
<1>3. h \in Seq(0..Letter) /\ DOMAIN h = 1..k
  <2>1. DOMAIN h = 1..k
    BY <1>1, <1>2
  <2>2. \A i \in 1..k : t[i] \in 0..Letter
    <3>1. \A i \in 1..Len(t) : t[i] \in 0..Letter
      BY ElementsOf
    <3>2. QED
      BY <1>1, <3>1
  <2>3. QED
    BY <1>1, <2>1, <2>2
<1>4. /\ d = v[k]
      /\ sn.has <=> \E i \in 1..k : t[i] \in Digits
      /\ PlacesTo(t, k, pl) /\ GoodTo(t, k)
  BY DEF Understood
<1> HIDE DEF h
<1>5. PointsIn(h) = {i \in 1..k : t[i] = Point} /\ DigitsIn(h) = {i \in 1..k : t[i] \in Digits}
  BY <1>2, <1>3 DEF PointsIn, DigitsIn
<1>6. Numeral(h) = d
  BY <1>1, <1>2, <1>4 DEF Numeral
<1>7. Fraction(h) = pl
  <2>1. CASE PointsIn(h) = {}
    BY <1>4, <1>5, <2>1 DEF Fraction, PlacesTo
  <2>2. CASE PointsIn(h) # {}
    <3> DEFINE p == CHOOSE i \in PointsIn(h) : TRUE
    <3>1. p \in PointsIn(h)
      BY <2>2
    <3> HIDE DEF p
    <3>2. p \in 1..k /\ t[p] = Point /\ p \in 0..k
      BY <1>1, <1>5, <3>1
    <3>3. pl = c[k] - c[p]
      BY <1>4, <3>2 DEF PlacesTo
    <3>4. CountTo(h, Digits)[k] = c[k] /\ CountTo(h, Digits)[p] = c[p]
      BY <1>1, <1>2, <3>2
    <3>5. Fraction(h) = CountTo(h, Digits)[Len(h)] - CountTo(h, Digits)[p]
      BY <2>2 DEF Fraction, p
    <3> HIDE DEF c
    <3>6. QED
      BY <1>2, <3>3, <3>4, <3>5
  <2>3. QED
    BY <2>1, <2>2
<1>8. WellFormed(h) <=> sn.has
  <2>1. WellFormed(h) => sn.has
    BY <1>4, <1>5 DEF WellFormed
  <2>2. ASSUME sn.has PROVE WellFormed(h)
    <3>1. PICK e \in 1..k : t[e] \in Digits
      BY <1>4, <2>2
    <3>2. h # <<>> /\ h[1] = t[1]
      BY <1>1, <1>2, <3>1
    <3> DEFINE body == IF Signed(h) THEN 2..Len(h) ELSE DOMAIN h
    <3>3. body \subseteq 1..k /\ \A i \in body : i = 1 => t[1] \notin {Minus, Plus}
      BY <1>2, <1>3, <3>2 DEF Signed
    <3> HIDE DEF body
    <3>4. \A i \in body : h[i] \in Digits \union {Point, Underscore}
      BY <1>2, <1>4, <3>3 DEF GoodTo
    <3>5. \A i, j \in PointsIn(h) : i = j
      BY <1>4, <1>5 DEF GoodTo
    <3>6. DigitsIn(h) # {}
      BY <1>5, <3>1
    <3>7. \A i \in body : h[i] = Underscore => \E j \in DigitsIn(h) : j < i
      <4>1. SUFFICES ASSUME NEW i \in body, h[i] = Underscore PROVE \E j \in DigitsIn(h) : j < i
        OBVIOUS
      <4>2. i \in 1..k /\ t[i] = Underscore
        BY <1>2, <3>3, <4>1
      <4>3. PICK j \in 1..(i - 1) : t[j] \in Digits
        BY <1>4, <4>2 DEF GoodTo
      <4>4. j \in 1..k /\ j < i
        BY <4>2, <4>3
      <4>5. QED
        BY <1>5, <4>3, <4>4
    <3>8. QED
      BY <3>4, <3>5, <3>6, <3>7 DEF WellFormed, body
  <2>3. QED
    BY <2>1, <2>2
<1>9. QED
  BY <1>2, <1>3, <1>1, <1>6, <1>7, <1>8 DEF h

LEMMA WholeHead ==
    ASSUME NEW t \in Seq(0..Letter)
    PROVE  SubSeq(t, 1, Len(t)) = t /\ Len(t) \in Nat /\ Len(t) \in 0..Len(t)
  OBVIOUS

\* A text that is well formed can be understood to its end.
LEMMA WellFormedUnderstood ==
    ASSUME NEW t \in Seq(0..Letter), Len(t) <= PowLimit, WellFormed(t)
    PROVE  \E sn \in Seens : sn.has /\ Understood(t, Len(t), sn, Numeral(t), Fraction(t)) /\ Fraction(t) \in Nat
<1> DEFINE N == Len(t)
           c == CountTo(t, Digits)
<1>1. t \in Seq(Nat) /\ N \in Nat /\ N \in 0..N /\ DOMAIN t = 1..N
  BY BytesDiffer
<1>2. c \in [0..N -> Nat]
  BY <1>1, CountSteps
<1>3. GoodTo(t, N)
  <2> DEFINE body == IF Signed(t) THEN 2..Len(t) ELSE DOMAIN t
  <2>1. \A i \in 1..N : i \notin body => i = 1 /\ t[1] \in {Minus, Plus}
    BY <1>1 DEF Signed
  <2>2. /\ \A i \in body : t[i] \in Digits \union {Point, Underscore}
        /\ \A i, j \in PointsIn(t) : i = j
        /\ \A i \in body : t[i] = Underscore => \E j \in DigitsIn(t) : j < i
    BY DEF WellFormed
  <2> HIDE DEF body
  <2>3. \A i \in 1..N : t[i] = Underscore => \E j \in 1..(i - 1) : t[j] \in Digits
    <3>1. SUFFICES ASSUME NEW i \in 1..N, t[i] = Underscore PROVE \E j \in 1..(i - 1) : t[j] \in Digits
      OBVIOUS
    <3>2. i \in body
      BY <2>1, <3>1, BytesDiffer
    <3>3. PICK j \in DigitsIn(t) : j < i
      BY <2>2, <3>1, <3>2
    <3>4. j \in 1..(i - 1) /\ t[j] \in Digits
      BY <1>1, <3>3 DEF DigitsIn
    <3>5. QED
      BY <3>4
  <2>4. \A i \in 1..N : t[i] \in Digits \union {Point, Underscore} \/ (i = 1 /\ t[1] \in {Minus, Plus})
    BY <2>1, <2>2
  <2>5. \A i, j \in 1..N : t[i] = Point /\ t[j] = Point => i = j
    BY <1>1, <2>2 DEF PointsIn
  <2>6. QED
    BY <2>3, <2>4, <2>5 DEF GoodTo
<1>4. PlacesTo(t, N, Fraction(t)) /\ Fraction(t) \in Nat
  <2>1. CASE PointsIn(t) = {}
    BY <1>1, <2>1 DEF Fraction, PlacesTo, PointsIn
  <2>2. CASE PointsIn(t) # {}
    <3> DEFINE p == CHOOSE i \in PointsIn(t) : TRUE
    <3>1. p \in PointsIn(t)
      BY <2>2
    <3>2. Fraction(t) = c[N] - c[p]
      BY <2>2 DEF Fraction
    <3> HIDE DEF p
    <3>3. p \in 1..N /\ t[p] = Point /\ p \in 0..N /\ N \in p..N
      BY <1>1, <3>1 DEF PointsIn
    <3>4. \A i \in 1..N : t[i] = Point => i = p
      BY <1>3, <3>3 DEF GoodTo
    <3>5. c[N] - c[p] \in Nat
      <4>1. t \in Seq(Nat) /\ p \in 0..Len(t) /\ Len(t) \in p..Len(t) /\ Len(t) <= PowLimit
        BY <1>1, <3>3
      <4>2. c[N] - c[p] \in 0..(N - p)
        BY <4>1, TailSays
      <4>3. QED
        BY <4>2
    <3> HIDE DEF c
    <3>6. PlacesTo(t, N, Fraction(t))
      BY <3>2, <3>3, <3>4 DEF PlacesTo, c
    <3>7. QED
      BY <3>2, <3>5, <3>6
  <2>3. QED
    BY <2>1, <2>2
<1>5. \E i \in 1..N : t[i] \in Digits
  BY <1>1 DEF WellFormed, DigitsIn
<1> DEFINE sn == [point |-> \E i \in 1..N : t[i] = Point, neg |-> N >= 1 /\ t[1] = Minus, has |-> TRUE,
                  big |-> TRUE, round |-> TRUE]
<1>6. sn \in Seens /\ sn.has /\ (sn.point <=> \E i \in 1..N : t[i] = Point) /\ (sn.neg <=> N >= 1 /\ t[1] = Minus)
  BY DEF Seens
<1> HIDE DEF sn
<1>7. Numeral(t) = ValueTo(t, Digits, Ten)[N]
  BY DEF Numeral
<1>8. Understood(t, N, sn, Numeral(t), Fraction(t))
  BY <1>1, <1>3, <1>4, <1>5, <1>6, <1>7 DEF Understood
<1>9. QED
  BY <1>4, <1>6, <1>8

\* Behind the point each further digit is one more place.
LEMMA MorePlaces ==
    ASSUME NEW t \in Seq(0..Letter), Len(t) <= PowLimit, NEW k \in 0..Len(t), NEW j \in k..Len(t),
           NEW sk, NEW sj, NEW d, NEW v, NEW pl \in Nat, NEW f \in Nat,
           Understood(t, k, sk, d, pl), Understood(t, j, sj, v, f), sk.point
    PROVE  /\ f - pl = CountTo(t, Digits)[j] - CountTo(t, Digits)[k]
           /\ f - pl \in 0..(j - k)
           /\ \E w \in 0..(POWERS[f - pl] - 1) : v = d * POWERS[f - pl] + w
<1> DEFINE c == CountTo(t, Digits)
<1>1. t \in Seq(Nat) /\ Len(t) \in Nat /\ k \in 0..Len(t) /\ j \in 0..Len(t) /\ k \in Nat /\ j \in Nat
  BY BytesDiffer
<1>2. PICK p \in 1..k : t[p] = Point
  BY DEF Understood
<1>3. p \in 1..j /\ p \in 0..Len(t)
  BY <1>1, <1>2
<1>4. pl = c[k] - c[p] /\ f = c[j] - c[p] /\ d = ValueTo(t, Digits, Ten)[k] /\ v = ValueTo(t, Digits, Ten)[j]
  BY <1>2, <1>3 DEF Understood, PlacesTo
<1>5. c[k] \in Nat /\ c[p] \in Nat /\ c[j] \in Nat
  <2>1. c \in [0..Len(t) -> Nat]
    BY <1>1, CountSteps
  <2> HIDE DEF c
  <2>2. QED
    BY <1>1, <1>3, <2>1
<1>6. f - pl = c[j] - c[k]
  <2> HIDE DEF c
  <2>1. QED
    BY <1>4, <1>5
<1>7. /\ c[j] - c[k] \in 0..(j - k)
      /\ \E w \in 0..(POWERS[c[j] - c[k]] - 1) :
             ValueTo(t, Digits, Ten)[j] = ValueTo(t, Digits, Ten)[k] * POWERS[c[j] - c[k]] + w
  BY <1>1, TailSays
<1> HIDE DEF c
<1>8. QED
  BY <1>4, <1>6, <1>7 DEF c

-----------------------------------------------------------------------------
(* Rounding half away from zero. *)

LEMMA HalfUpCut ==
    ASSUME NEW d \in Nat, NEW r \in Nat \ {0}, NEW x \in Nat, x < r
    PROVE  /\ d * r + x \in Nat /\ Ten * r \in Nat \ {0}
           /\ HalfUp(d * r + x, Ten * r) = (d + Half) \div Ten
<1> DEFINE n == d + Half
           a == n \div Ten
           b == n % Ten
           p == Ten * r
<1>1. Ten \in Nat \ {0} /\ Half \in Nat /\ 2 * Half = Ten /\ n \in Nat
  BY BytesDiffer
<1>2. a \in Nat /\ b \in Nat /\ b < Ten /\ n = a * Ten + b
  <2> HIDE DEF n
  <2>1. QED
    BY <1>1, DivMod
<1> HIDE DEF a, b
<1>3. /\ d * r \in Nat /\ n * r \in Nat /\ Half * r \in Nat /\ p \in Nat \ {0} /\ b * r \in Nat /\ a * p \in Nat
      /\ n * r = d * r + Half * r /\ p = 2 * (Half * r)
  <2>1. n * r = d * r + Half * r /\ p = (2 * Half) * r
    BY <1>1, Distribute
  <2>2. (2 * Half) * r = 2 * (Half * r)
    BY <1>1, MulAssoc
  <2>3. p \in Nat \ {0}
    BY <1>1, \A u, z \in Nat \ {0} : u * z \in Nat \ {0}
  <2> HIDE DEF n, p
  <2>4. d * r \in Nat /\ n * r \in Nat /\ Half * r \in Nat /\ b * r \in Nat /\ a * p \in Nat
    BY <1>1, <1>2, <2>3, \A u, z \in Nat : u * z \in Nat
  <2>5. QED
    BY <2>1, <2>2, <2>3, <2>4
<1>4. p \div 2 = Half * r
  <2> DEFINE h == Half * r
  <2>1. h \in Nat /\ p = 2 * h
    BY <1>3
  <2> HIDE DEF h, p
  <2>2. p \div 2 = h
    BY <2>1
  <2>3. QED
    BY <2>2 DEF h
<1>5. n * r = a * p + b * r
  <2>1. n * r = (a * Ten + b) * r
    BY <1>2
  <2>2. (a * Ten + b) * r = (a * Ten) * r + b * r /\ (a * Ten) * r = a * p
    BY <1>1, <1>2, Distribute, MulAssoc, a * Ten \in Int
  <2>3. QED
    BY <2>1, <2>2
<1>6. b * r + x < p /\ b * r + x \in Nat
  <2> DEFINE y == b * r
  <2>1. b <= Ten - 1 /\ Ten - 1 \in Int
    BY <1>1, <1>2
  <2>2. y <= (Ten - 1) * r
    BY <1>2, <2>1, MulMono
  <2>3. (Ten - 1) * r = p - r
    BY <1>1, Distribute, 1 * r = r
  <2>4. y \in Nat
    BY <1>3
  <2> HIDE DEF p, y
  <2>5. QED
    BY <1>3, <2>2, <2>3, <2>4 DEF y
<1>7. (d * r + x) + p \div 2 = a * p + (b * r + x)
  <2> DEFINE e == d * r
             g == Half * r
             i == n * r
             j == a * p
             y == b * r
             q == p \div 2
  <2>1. e \in Nat /\ g \in Nat /\ i = e + g /\ i = j + y /\ j \in Nat /\ y \in Nat /\ q = g
    BY <1>3, <1>4, <1>5
  <2> HIDE DEF e, g, i, j, y, q
  <2>2. (e + x) + q = j + (y + x)
    BY <2>1
  <2>3. QED
    BY <2>2 DEF e, g, i, j, y, q
<1>8. ((d * r + x) + p \div 2) \div p = a
  <2> DEFINE z == b * r + x
             e == (d * r + x) + p \div 2
  <2>1. z \in Nat /\ z < p /\ e = a * p + z /\ p \in Nat \ {0} /\ a \in Nat /\ e \in Nat
    BY <1>2, <1>3, <1>6, <1>7
  <2> HIDE DEF z, e, p
  <2>2. e \div p = a
    BY <2>1, QuotientUnique
  <2>3. QED
    BY <2>2 DEF e, p
<1>9. d * r + x \in Nat
  BY <1>3
<1>10. QED
  BY <1>3, <1>8, <1>9 DEF HalfUp, a, n, p

LEMMA HalfUpAtLeast ==
    ASSUME NEW d \in Nat, NEW r \in Nat \ {0}, NEW x \in Nat
    PROVE  d <= HalfUp(d * r + x, r)
<1> DEFINE e == d * r
           n == (e + x) + r \div 2
<1>1. e \in Nat /\ r \div 2 \in Nat
  BY \A u, z \in Nat : u * z \in Nat
<1> HIDE DEF e
<1>2. n \in Int /\ e <= n
  BY <1>1
<1> HIDE DEF n
<1>3. d <= n \div r
  BY <1>2, AtMostQuotient DEF e
<1>4. QED
  BY <1>3 DEF HalfUp, e, n

LEMMA HalfUpWhole ==
    ASSUME NEW d \in Nat
    PROVE  HalfUp(d, 1) = d
  BY DEF HalfUp

\* What is left after a byte is read.
LEMMA RestOf ==
    ASSUME NEW S, NEW t \in Seq(S), NEW b \in Seq(S), Len(b) <= Len(t),
           b = SubSeq(t, (Len(t) - Len(b)) + 1, Len(t))
    PROVE  /\ Len(t) - Len(b) \in 0..Len(t)
           /\ b = <<>> <=> Len(t) - Len(b) = Len(t)
           /\ b # <<>> => /\ Len(t) - Len(b) \in 0..(Len(t) - 1)
                          /\ Head(b) = t[(Len(t) - Len(b)) + 1]
                          /\ Tail(b) \in Seq(S) /\ Len(Tail(b)) <= Len(t)
                          /\ Len(t) - Len(Tail(b)) = (Len(t) - Len(b)) + 1
                          /\ Tail(b) = SubSeq(t, (Len(t) - Len(Tail(b))) + 1, Len(t))
<1> DEFINE n == Len(t) - Len(b)
<1>1. Len(t) \in Nat /\ Len(b) \in Nat /\ n \in 0..Len(t) /\ (b = <<>> <=> Len(b) = 0)
  OBVIOUS
<1>2. ASSUME b # <<>>
      PROVE  /\ n \in 0..(Len(t) - 1) /\ Head(b) = t[n + 1]
             /\ Tail(b) \in Seq(S) /\ Len(Tail(b)) = Len(b) - 1
             /\ Tail(b) = SubSeq(t, (n + 1) + 1, Len(t))
  <2>1. Len(b) >= 1 /\ n \in 0..(Len(t) - 1) /\ n + 1 \in 1..Len(t) /\ Len(t) \in (n + 1)..Len(t)
    BY <1>1, <1>2
  <2>2. b = SubSeq(t, n + 1, Len(t))
    OBVIOUS
  <2> HIDE DEF n
  <2>3. Head(SubSeq(t, n + 1, Len(t))) = t[n + 1] /\ Tail(SubSeq(t, n + 1, Len(t))) = SubSeq(t, (n + 1) + 1, Len(t))
    BY <2>1, HeadTailOfSubSeq
  <2>4. Tail(b) \in Seq(S) /\ Len(Tail(b)) = Len(b) - 1
    BY <1>2, HeadTailProperties
  <2>5. QED
    BY <2>1, <2>2, <2>3, <2>4
<1>3. ASSUME b # <<>> PROVE Len(t) - Len(Tail(b)) = n + 1 /\ Len(Tail(b)) <= Len(t)
  BY <1>1, <1>2, <1>3
<1>4. n = Len(t) <=> Len(b) = 0
  BY <1>1
<1> HIDE DEF n
<1>5. QED
  BY <1>1, <1>2, <1>3, <1>4 DEF n

\* What is left when there is a byte.
LEMMA RestNext ==
    ASSUME NEW S, NEW t \in Seq(S), NEW b \in Seq(S), Len(b) <= Len(t),
           b = SubSeq(t, (Len(t) - Len(b)) + 1, Len(t)), b # <<>>
    PROVE  /\ Len(t) - Len(b) \in 0..(Len(t) - 1)
           /\ Head(b) = t[(Len(t) - Len(b)) + 1]
           /\ Tail(b) \in Seq(S) /\ Len(Tail(b)) <= Len(t)
           /\ Len(t) - Len(Tail(b)) = (Len(t) - Len(b)) + 1
           /\ Tail(b) = SubSeq(t, (Len(t) - Len(Tail(b))) + 1, Len(t))
  BY RestOf, ZenonT(60)

\* The digit at the rounding position decides, wherever after it the text ends.
LEMMA RoundsHere ==
    ASSUME ParserInv, ppc = "round", Head(bytes) \in Digits,
           NEW j \in (Length + 1)..Len(text), NEW sj \in Seens, NEW v, NEW f \in Nat,
           Understood(text, j, sj, v, f),
           NEW t \in Seq(0..Letter), Numeral(t) = v, Fraction(t) = f, t[1] = text[1]
    PROVE  LET rounded == IF Head(bytes) >= Half THEN data + 1 ELSE data
           IN  /\ places < f
               /\ rounded \in Nat
               /\ rounded <= Max96 => IsParseOf(FromParts(rounded, seen.neg, places), t)
               /\ rounded > Max96 /\ places = 0 => HalfUp(v, POWERS[f]) > Max96
               /\ rounded > Max96 /\ places # 0 =>
                     /\ (rounded + Half - 1) \div Ten \in Mantissa
                     /\ IsParseOf(FromParts((rounded + Half - 1) \div Ten, seen.neg, places - 1), t)
<1> DEFINE n == Length
           g == Head(bytes)
           rounded == IF g >= Half THEN data + 1 ELSE data
           cut == f - places
<1>1. /\ ParserTypeOK /\ ReadPart /\ StagePart /\ bytes # <<>> /\ seen.point /\ seen.round
      /\ data <= Max96 /\ places <= MAX_SCALE
      /\ places = MAX_SCALE \/ data * Ten + g > Max96
  BY DEF ParserInv, Running, StagePart
<1>2. /\ n \in 0..(Len(text) - 1) /\ g = text[n + 1] /\ Len(text) \in Nat /\ Len(text) <= PowLimit
      /\ text \in Seq(0..Letter) /\ data \in Nat /\ places \in Nat /\ seen \in Seens
  <2>1. text \in Seq(0..Letter) /\ bytes \in Seq(0..Letter) /\ data \in Nat /\ places \in Nat /\ seen \in Seens
    BY <1>1 DEF ParserTypeOK
  <2>2. Len(bytes) <= Len(text) /\ bytes = SubSeq(text, (Len(text) - Len(bytes)) + 1, Len(text))
    BY <1>1 DEF ReadPart, Length
  <2>3. Len(text) - Len(bytes) \in 0..(Len(text) - 1) /\ Head(bytes) = text[(Len(text) - Len(bytes)) + 1]
    BY <1>1, <2>1, <2>2, RestNext, ZenonT(60)
  <2>4. QED
    BY <1>1, <2>1, <2>3 DEF ParserTypeOK, Length
<1>3. Understood(text, n, seen, data, places)
  BY <1>1 DEF ReadPart
<1> HIDE DEF n
<1>4. Understood(text, n + 1, [seen EXCEPT !.has = TRUE], data * Ten + g, places + 1)
  BY <1>1, <1>2, <1>3, DigitRead
<1>5. /\ n + 1 \in 0..Len(text) /\ j \in (n + 1)..Len(text) /\ places + 1 \in Nat
      /\ [seen EXCEPT !.has = TRUE].point
  BY <1>1, <1>2 DEF n, Seens
<1>6. /\ f - (places + 1) \in 0..(j - (n + 1))
      /\ \E w \in 0..(POWERS[f - (places + 1)] - 1) :
             v = (data * Ten + g) * POWERS[f - (places + 1)] + w
  <2> DEFINE sk == [seen EXCEPT !.has = TRUE]
             d == data * Ten + g
  <2>1. Understood(text, n + 1, sk, d, places + 1) /\ sk.point
    BY <1>4, <1>5
  <2> HIDE DEF sk, d, g
  <2>2. /\ f - (places + 1) \in 0..(j - (n + 1))
        /\ \E w \in 0..(POWERS[f - (places + 1)] - 1) : v = d * POWERS[f - (places + 1)] + w
    <3> DEFINE k == n + 1
               pk == places + 1
    <3>1. /\ text \in Seq(0..Letter) /\ Len(text) <= PowLimit /\ k \in 0..Len(text) /\ j \in k..Len(text)
          /\ pk \in Nat /\ f \in Nat /\ Understood(text, k, sk, d, pk) /\ Understood(text, j, sj, v, f) /\ sk.point
      BY <1>2, <1>5, <2>1
    <3> HIDE DEF k, pk
    <3>2. /\ f - pk \in 0..(j - k)
          /\ \E w \in 0..(POWERS[f - pk] - 1) : v = d * POWERS[f - pk] + w
      BY <3>1, MorePlaces, SMTT(40)
    <3>3. QED
      BY <3>2 DEF k, pk
  <2>3. QED
    BY <2>2 DEF d
<1> DEFINE e == f - (places + 1)
           q == POWERS[e]
           m == data * Ten + g
<1>7. e \in 0..PowLimit /\ e + 1 = cut /\ cut \in 1..PowLimit /\ places < f /\ f <= PowLimit /\ PowLimit \in Nat /\ f \in 0..PowLimit
  <2>1. f <= j
    <3>1. f \in Nat
      OBVIOUS
    <3>2. PICK p \in 1..j : text[p] = Point
      <4>1. PICK p \in 1..n : text[p] = Point
        BY <1>1, <1>3 DEF Understood
      <4>2. p \in 1..j
        BY <1>2, <1>5, <4>1
      <4>3. QED
        BY <4>1, <4>2
    <3>3. f = CountTo(text, Digits)[j] - CountTo(text, Digits)[p]
      BY <3>2 DEF Understood, PlacesTo
    <3>4. j \in 0..Len(text) /\ p \in 0..Len(text) /\ j \in p..Len(text) /\ text \in Seq(Nat) /\ Len(text) <= PowLimit
      <4>1. text \in Seq(Nat)
        BY <1>2, BytesDiffer
      <4>2. j \in Nat /\ p \in Nat /\ 1 <= p /\ p <= j /\ j <= Len(text)
        BY <1>2, <1>5, <3>2
      <4>3. QED
        BY <1>2, <4>1, <4>2
    <3>5. CountTo(text, Digits)[j] - CountTo(text, Digits)[p] \in 0..(j - p)
      BY <3>4, TailSays
    <3>6. QED
      BY <1>2, <1>5, <3>2, <3>3, <3>5
  <2>2. j <= PowLimit /\ PowLimit \in Nat
    BY <1>2, <1>5, ScaleAssumption
  <2>3. QED
    <3>1. f - (places + 1) >= 0 /\ f \in Nat /\ places \in Nat /\ f <= PowLimit
      <4>1. f - (places + 1) \in 0..(j - (n + 1))
        BY <1>6
      <4>2. j \in Nat /\ n \in Nat
        BY <1>2, <1>5
      <4>3. QED
        BY <1>2, <2>1, <2>2, <4>1, <4>2
    <3>2. QED
      BY <2>2, <3>1
<1>8. PICK w \in 0..(q - 1) : v = m * q + w
  BY <1>6
<1>9. /\ q \in Nat \ {0} /\ w \in Nat /\ w < q /\ m \in Nat /\ g \in 0..(Ten - 1) /\ data * Ten \in Nat
      /\ Ten \in Nat \ {0} /\ Half \in Nat /\ 2 * Half = Ten /\ Half >= 1
  <2>1. q \in Nat \ {0}
    BY <1>7, PowersAssumption
  <2>2. data * Ten \in Nat
    BY <1>2, BytesDiffer, \A a, b \in Nat : a * b \in Nat
  <2> HIDE DEF q, e
  <2>3. QED
    BY <1>8, <2>1, <2>2, BytesDiffer, SMTT(30)
<1> HIDE DEF e, q, m, g
<1>10. POWERS[cut] = Ten * q /\ POWERS[e] = q
  <2>1. 1 \in 0..PowLimit /\ e + 1 <= PowLimit
    BY <1>7
  <2>2. POWERS[1 + e] = POWERS[1] * POWERS[e]
    BY <1>7, <2>1, PowersAdd, 1 + e <= PowLimit
  <2>3. QED
    BY <1>7, <2>2, PowersAssumption DEF q
<1>11. HalfUp(v, Ten * q) = rounded
  <2>1. HalfUp(v, Ten * q) = (m + Half) \div Ten
    <3>1. HalfUp(m * q + w, Ten * q) = (m + Half) \div Ten
      BY <1>9, HalfUpCut
    <3>2. QED
      BY <1>8, <3>1
  <2>2. CASE g >= Half
    <3>1. m + Half = (data + 1) * Ten + (g + Half - Ten)
      BY <1>2, <1>9, Distribute, 1 * Ten = Ten DEF m
    <3> DEFINE y == g + Half - Ten
               x == m + Half
    <3>2. y \in Nat /\ y < Ten /\ x \in Nat /\ data + 1 \in Nat
      BY <1>2, <1>9, <2>2
    <3>3. x = (data + 1) * Ten + y
      BY <3>1
    <3> HIDE DEF x, y
    <3>4. x \div Ten = data + 1
      BY <1>9, <3>2, <3>3, QuotientUnique
    <3>5. QED
      BY <2>1, <2>2, <3>4 DEF x
  <2>3. CASE ~(g >= Half)
    <3> DEFINE y == g + Half
               x == m + Half
    <3>2. y \in Nat /\ y < Ten /\ x \in Nat /\ data \in Nat
      BY <1>2, <1>9, <2>3
    <3>3. x = data * Ten + y
      BY <1>9 DEF m
    <3> HIDE DEF x, y
    <3>4. x \div Ten = data
      BY <1>9, <3>2, <3>3, QuotientUnique
    <3>5. QED
      BY <2>1, <2>3, <3>4 DEF x
  <2>4. QED
    BY <2>2, <2>3
<1>12. rounded \in Nat /\ (rounded > Max96 => data = Max96 /\ rounded = B3) /\ B3 \in Nat /\ Max96 = B3 - 1
  BY <1>1, <1>2, BaseType
<1>13. t[1] = text[1] /\ (seen.neg <=> text[1] = Minus)
  <2>1. \E i \in 1..n : text[i] = Point
    BY <1>1, <1>3 DEF Understood
  <2>2. n >= 1
    BY <1>2, <2>1
  <2>3. QED
    BY <1>3, <2>2 DEF Understood
<1>14. ASSUME rounded <= Max96 PROVE IsParseOf(FromParts(rounded, seen.neg, places), t)
  <2> DEFINE d == FromParts(rounded, seen.neg, places)
  <2>1. d.m = rounded /\ d.s = places /\ (d.neg <=> seen.neg /\ rounded # 0)
    BY DEF FromParts
  <2>2. d.neg = (t[1] = Minus /\ d.m # 0)
    BY <1>13, <2>1 DEF FromParts
  <2>3. d.s <= SmallerOf(f, MAX_SCALE)
    <3>1. MAX_SCALE \in Nat /\ places \in Nat /\ f \in Nat /\ places <= f /\ places <= MAX_SCALE
      BY <1>1, <1>2, <1>7, ScaleAssumption
    <3>2. places <= SmallerOf(f, MAX_SCALE)
      BY <3>1 DEF SmallerOf
    <3>3. QED
      BY <2>1, <3>2
  <2>4. d.m = HalfUp(v, POWERS[f - d.s])
    BY <1>10, <1>11, <2>1
  <2>5. d.s < SmallerOf(f, MAX_SCALE) => HalfUp(v, POWERS[f - d.s - 1]) > Max96
    <3>1. SUFFICES ASSUME places < SmallerOf(f, MAX_SCALE) PROVE HalfUp(v, POWERS[f - places - 1]) > Max96
      BY <2>1
    <3>2. m > Max96
      BY <1>1, <1>2, <3>1, ScaleAssumption DEF SmallerOf, m, g
    <3>3. f - places - 1 = e
      BY <1>2, <1>7 DEF e
    <3>4. m <= HalfUp(v, q)
      BY <1>8, <1>9, HalfUpAtLeast
    <3>5. HalfUp(v, q) \in Int
      <4>1. v \in Nat
        <5>1. m * q \in Nat
          BY <1>9, \A a, b \in Nat : a * b \in Nat
        <5>2. QED
          BY <1>8, <1>9, <5>1
      <4>2. QED
        BY <1>9, <4>1 DEF HalfUp
    <3>6. QED
      BY <1>9, <1>10, <1>12, <3>2, <3>3, <3>4, <3>5, SMTT(30)
  <2> HIDE DEF d
  <2>6. QED
    BY <2>2, <2>3, <2>4, <2>5 DEF IsParseOf, d
<1>15. ASSUME rounded > Max96, places = 0 PROVE HalfUp(v, POWERS[f]) > Max96
  <2>1. cut = f
    BY <1>15
  <2>2. QED
    BY <1>10, <1>11, <1>15, <2>1
<1>16. ASSUME rounded > Max96, places # 0
       PROVE  /\ (rounded + Half - 1) \div Ten \in Mantissa
              /\ IsParseOf(FromParts((rounded + Half - 1) \div Ten, seen.neg, places - 1), t)
  <2> DEFINE a == (rounded + Half - 1) \div Ten
             d == FromParts(a, seen.neg, places - 1)
             r == Ten * q
             x == g * q + w
  <2>1. rounded = B3 /\ data = Max96 /\ rounded + Half - 1 = data + Half
    BY <1>12, <1>16, <1>9
  <2>2. a \in Mantissa
    <3> DEFINE y == data + Half
    <3>1. y \in Nat /\ y < Ten * B3 /\ Ten \in Nat \ {0} /\ B3 \in Nat
      <4>1. B3 >= 8
        BY BaseType
      <4>2. Ten >= 2 /\ 2 * B3 <= Ten * B3
        BY <1>9, <1>12, MulMono
      <4>3. Half < Ten /\ Ten <= B3
        BY BaseAssumption, BaseType, <1>9
      <4>4. QED
        BY <1>2, <1>9, <1>12, <2>1, <4>1, <4>2, <4>3, SMTT(30)
    <3> HIDE DEF y
    <3>2. y \div Ten \in Nat /\ y \div Ten < B3
      BY <3>1, DivMod, QuotientBound
    <3>3. QED
      BY <1>12, <2>1, <3>2 DEF Mantissa, y
  <2>3. r \in Nat \ {0} /\ x \in Nat /\ x < r /\ v = data * r + x
    <3>1. r \in Nat \ {0} /\ g * q \in Nat
      BY <1>9, \A z, u \in Nat : z * u \in Nat, \A z, u \in Nat \ {0} : z * u \in Nat \ {0}
    <3>2. g * q <= (Ten - 1) * q /\ (Ten - 1) * q = r - q
      BY <1>9, MulMono, Distribute, 1 * q = q
    <3>3. m * q = (data * Ten) * q + g * q /\ (data * Ten) * q = data * r /\ data * r \in Int
      BY <1>2, <1>9, Distribute, MulAssoc DEF m
    <3> DEFINE h == g * q
               i == data * r
    <3> HIDE DEF r
    <3>4. x = h + w /\ h \in Nat /\ h <= r - q /\ v = (i + h) + w /\ i \in Int
      BY <1>8, <3>1, <3>2, <3>3
    <3> HIDE DEF h, i
    <3>5. x \in Nat /\ x < r /\ v = i + x
      BY <1>9, <3>1, <3>4
    <3>6. QED
      BY <3>1, <3>5 DEF i
  <2>4. HalfUp(v, Ten * r) = a
    <3> HIDE DEF r, x
    <3>1. HalfUp(data * r + x, Ten * r) = (data + Half) \div Ten
      BY <1>2, <2>3, HalfUpCut
    <3>2. QED
      BY <2>1, <2>3, <3>1
  <2>5. f - (places - 1) = cut + 1 /\ cut + 1 \in 0..PowLimit /\ (f - (places - 1)) - 1 = cut
    BY <1>2, <1>7, <1>16
  <2>6. POWERS[cut + 1] = Ten * r
    <3>1. 1 \in 0..PowLimit /\ cut \in 0..PowLimit /\ 1 + cut <= PowLimit
      BY <1>7, <2>5
    <3>2. POWERS[1 + cut] = POWERS[1] * POWERS[cut]
      BY <3>1, PowersAdd
    <3>3. 1 + cut = cut + 1
      BY <1>7
    <3>4. QED
      BY <1>10, <3>2, <3>3, PowersAssumption
  <2>7. d.m = a /\ d.s = places - 1 /\ d.neg = (t[1] = Minus /\ d.m # 0)
    BY <1>13 DEF FromParts
  <2>8. d.s <= SmallerOf(f, MAX_SCALE)
    BY <1>1, <1>2, <1>7, <2>7, ScaleAssumption DEF SmallerOf
  <2>9. d.m = HalfUp(v, POWERS[f - d.s])
    BY <2>4, <2>5, <2>6, <2>7
  <2>10. HalfUp(v, POWERS[f - d.s - 1]) > Max96
    BY <1>10, <1>11, <1>16, <2>5, <2>7
  <2> HIDE DEF d, a
  <2>11. QED
    BY <2>2, <2>7, <2>8, <2>9, <2>10 DEF IsParseOf, d, a
<1>17. QED
  BY <1>7, <1>12, <1>14, <1>15, <1>16 DEF g

-----------------------------------------------------------------------------
(* The steps of the parser. *)

LEMMA StillRunning == ASSUME ppc' \in Running PROVE ParsedRounded'
  BY DEF ParsedRounded, Running

\* What holds before a byte is looked at, and once it has been.
LEMMA BeforeByte ==
    ASSUME ParserInv, ppc \in Running
    PROVE  /\ ParserTypeOK /\ ReadPart /\ StagePart
           /\ text \in Seq(0..Letter) /\ bytes \in Seq(0..Letter) /\ Len(text) \in Nat /\ Len(text) <= PowLimit
           /\ seen \in Seens /\ data \in Nat /\ places \in Nat /\ parsed \in Decimal
           /\ Length \in 0..Len(text) /\ Understood(text, Length, seen, data, places)
           /\ bytes = <<>> => Length = Len(text)
           /\ bytes # <<>> =>
                /\ Length \in 0..(Len(text) - 1) /\ Head(bytes) = text[Length + 1]
                /\ Head(bytes) \in 0..Letter /\ Tail(bytes) \in Seq(0..Letter) /\ Len(Tail(bytes)) <= Len(text)
                /\ Len(text) - Len(Tail(bytes)) = Length + 1
                /\ Tail(bytes) = SubSeq(text, (Len(text) - Len(Tail(bytes))) + 1, Len(text))
                /\ Tail(bytes) = <<>> <=> Length + 1 = Len(text)
<1>1. ParserTypeOK /\ ReadPart /\ StagePart
  BY DEF ParserInv
<1>2. /\ text \in Seq(0..Letter) /\ bytes \in Seq(0..Letter) /\ Len(text) <= PowLimit
      /\ seen \in Seens /\ data \in Nat /\ places \in Nat /\ parsed \in Decimal
  BY <1>1 DEF ParserTypeOK
<1>3. /\ Len(bytes) <= Len(text) /\ bytes = SubSeq(text, (Len(text) - Len(bytes)) + 1, Len(text))
      /\ Understood(text, Length, seen, data, places)
  BY <1>1 DEF ReadPart, Length
<1>4. /\ Length \in 0..Len(text)
      /\ bytes = <<>> <=> Length = Len(text)
  BY <1>2, <1>3, RestOf DEF Length
<1>5. ASSUME bytes # <<>>
      PROVE  /\ Length \in 0..(Len(text) - 1) /\ Head(bytes) = text[Length + 1]
             /\ Tail(bytes) \in Seq(0..Letter) /\ Len(Tail(bytes)) <= Len(text)
             /\ Len(text) - Len(Tail(bytes)) = Length + 1
             /\ Tail(bytes) = SubSeq(text, (Len(text) - Len(Tail(bytes))) + 1, Len(text))
  <2> DEFINE n == Len(text) - Len(bytes)
  <2>1. /\ n \in 0..(Len(text) - 1)
        /\ Head(bytes) = text[n + 1]
        /\ Tail(bytes) \in Seq(0..Letter) /\ Len(Tail(bytes)) <= Len(text)
        /\ Len(text) - Len(Tail(bytes)) = n + 1
        /\ Tail(bytes) = SubSeq(text, (Len(text) - Len(Tail(bytes))) + 1, Len(text))
    BY <1>2, <1>3, <1>5, RestNext, ZenonT(60)
  <2>2. n = Length
    BY DEF Length
  <2> HIDE DEF n
  <2>3. QED
    BY <2>1, <2>2
<1>6. ASSUME bytes # <<>> PROVE Head(bytes) \in 0..Letter
  BY <1>2, <1>6, HeadTailProperties
<1>7. ASSUME bytes # <<>> PROVE Tail(bytes) = <<>> <=> Length + 1 = Len(text)
  <2>1. Tail(bytes) \in Seq(0..Letter) /\ Len(Tail(bytes)) <= Len(text)
        /\ Tail(bytes) = SubSeq(text, (Len(text) - Len(Tail(bytes))) + 1, Len(text))
    BY <1>5, <1>7
  <2>2. Tail(bytes) = <<>> <=> Len(text) - Len(Tail(bytes)) = Len(text)
    <3> DEFINE b == Tail(bytes)
    <3>1. b \in Seq(0..Letter) /\ Len(b) <= Len(text) /\ b = SubSeq(text, (Len(text) - Len(b)) + 1, Len(text))
      BY <2>1
    <3> HIDE DEF b
    <3>2. b = <<>> <=> Len(text) - Len(b) = Len(text)
      <4>1. b = <<>> <=> Len(b) = 0
        BY <3>1
      <4>2. Len(b) \in Nat /\ Len(text) \in Nat
        BY <1>2, <3>1
      <4>3. QED
        BY <4>1, <4>2
    <3>3. QED
      BY <3>2 DEF b
  <2>3. QED
    BY <1>5, <1>7, <2>2
<1>8. Len(text) \in Nat
  BY <1>2
<1>9. QED
  BY <1>1, <1>2, <1>3, <1>4, <1>5, <1>6, <1>7, <1>8

\* The state after a byte is read is described if the byte is understood.
LEMMA ByteRead ==
    ASSUME ParserInv, ppc \in Running, bytes # <<>>, bytes' = Tail(bytes), text' = text, parsed' = parsed,
           seen' \in Seens, seen'.big <=> seen.big, data' \in Nat, places' \in Nat,
           Understood(text, Length + 1, seen', data', places'), ppc' \in Running \union {"underflow"}
    PROVE  ParserTypeOK' /\ ReadPart' /\ Length' = Length + 1 /\ Length + 1 \in Nat \ {0}
<1>1. /\ text \in Seq(0..Letter) /\ Len(text) <= PowLimit /\ ReadPart /\ parsed \in Decimal
      /\ Tail(bytes) \in Seq(0..Letter) /\ Len(Tail(bytes)) <= Len(text)
      /\ Len(text) - Len(Tail(bytes)) = Length + 1
      /\ Tail(bytes) = SubSeq(text, (Len(text) - Len(Tail(bytes))) + 1, Len(text))
      /\ Length \in 0..Len(text) /\ Len(text) \in Nat
  BY BeforeByte
<1>2. Length' = Length + 1
  BY <1>1 DEF Length
<1>3. ParserTypeOK'
  BY <1>1 DEF ParserTypeOK, Failed
<1>4. Length + 1 \in Nat \ {0}
  BY <1>1
<1>5. ReadPart'
  <2> DEFINE n == Length + 1
  <2>1. Len(bytes') <= Len(text') /\ bytes' = SubSeq(text', n + 1, Len(text'))
    BY <1>1
  <2>2. seen'.big <=> Len(text') >= BYTES_TO_OVERFLOW_U64
    BY <1>1 DEF ReadPart
  <2>3. Understood(text', n, seen', data', places')
    OBVIOUS
  <2> HIDE DEF n
  <2>4. Length' = n
    BY <1>2 DEF n
  <2>5. QED
    BY <2>1, <2>2, <2>3, <2>4 DEF ReadPart
<1>6. QED
  BY <1>2, <1>3, <1>4, <1>5

\* The digits of a text this short fit 64 bits, and so do their places the scale.
LEMMA ShortText ==
    ASSUME NEW t \in Seq(0..Letter), Len(t) <= PowLimit, Len(t) < BYTES_TO_OVERFLOW_U64,
           NEW k \in 0..Len(t), NEW sn, NEW d, NEW pl \in Nat, Understood(t, k, sn, d, pl)
    PROVE  d \in Nat /\ d < B2 /\ pl < MAX_SCALE
<1> DEFINE c == CountTo(t, Digits)
<1>1. t \in Seq(Nat) /\ Len(t) \in Nat /\ 0 \in 0..Len(t) /\ k \in 0..Len(t) /\ d = ValueTo(t, Digits, Ten)[k]
  BY BytesDiffer DEF Understood
<1>2. c[0] = 0 /\ ValueTo(t, Digits, Ten)[0] = 0 /\ c \in [0..Len(t) -> Nat]
  BY <1>1, ValueSteps, CountSteps, BytesDiffer
<1>3. /\ c[k] - c[0] \in 0..(k - 0)
      /\ \E w \in 0..(POWERS[c[k] - c[0]] - 1) :
             ValueTo(t, Digits, Ten)[k] = ValueTo(t, Digits, Ten)[0] * POWERS[c[k] - c[0]] + w
  BY <1>1, TailSays
<1>4. c[k] \in Nat /\ c[k] - c[0] = c[k] /\ c[k] <= k
  <2> HIDE DEF c
  <2>1. c[k] \in Nat
    BY <1>1, <1>2
  <2>2. QED
    BY <1>1, <1>2, <1>3, <2>1
<1> HIDE DEF c
<1>5. /\ Len(t) <= MAX_I64_SCALE /\ Len(t) < MAX_SCALE /\ MAX_I64_SCALE \in 0..PowLimit /\ k <= Len(t) /\ k \in Nat
      /\ MAX_SCALE \in Nat /\ PowLimit \in Nat /\ MAX_I64_SCALE \in Nat
  BY <1>1, ParserAssumption, ScaleAssumption
<1>6. d \in Nat /\ d < B2
  <2>1. c[k] \in 0..PowLimit /\ c[k] <= MAX_I64_SCALE
    BY <1>4, <1>5
  <2>2. POWERS[c[k]] <= POWERS[MAX_I64_SCALE] /\ POWERS[c[k]] \in Nat /\ POWERS[MAX_I64_SCALE] \in Nat
    BY <1>5, <2>1, PowersMono, PowersType
  <2>3. POWERS[MAX_I64_SCALE] < B2 /\ B2 \in Nat
    BY WidthAssumption, BaseType DEF B2
  <2>4. PICK w \in 0..(POWERS[c[k]] - 1) : ValueTo(t, Digits, Ten)[k] = 0 * POWERS[c[k]] + w
    BY <1>2, <1>3, <1>4
  <2>5. d = w /\ w \in Nat /\ w < POWERS[c[k]]
    BY <1>1, <2>2, <2>4
  <2>6. QED
    BY <2>2, <2>3, <2>5
<1>7. pl <= c[k]
  <2>1. CASE \A i \in 1..k : t[i] # Point
    BY <1>4, <2>1 DEF Understood, PlacesTo
  <2>2. CASE ~ \A i \in 1..k : t[i] # Point
    <3>1. PICK i \in 1..k : t[i] = Point
      BY <2>2
    <3>2. pl = c[k] - c[i]
      BY <3>1 DEF Understood, PlacesTo, c
    <3>3. c[i] \in Nat
      BY <1>1, <1>2, <3>1
    <3>4. QED
      BY <1>4, <3>2, <3>3
  <2>3. QED
    BY <2>1, <2>2
<1>8. QED
  BY <1>4, <1>5, <1>6, <1>7

LEMMA ParserStarts == ParserInit => ParserInv
<1> SUFFICES ASSUME ParserInit PROVE ParserInv
  OBVIOUS
<1>1. PICK t \in Seq(0..Letter), r \in BOOLEAN : Len(t) <= PowLimit /\ ParseStart(t, r)
  BY DEF ParserInit
<1>2. /\ text = t /\ bytes = t /\ seen = Fresh(t, r) /\ data = 0 /\ places = 0 /\ parsed = ZERO /\ ppc = "first"
      /\ Len(t) \in Nat /\ 0 \in 0..Len(t) /\ Length = 0
  BY <1>1 DEF ParseStart, Length
<1>3. seen \in Seens /\ ~seen.has /\ ~seen.point /\ ~seen.neg /\ (seen.big <=> Len(text) >= BYTES_TO_OVERFLOW_U64)
  <2> DEFINE big == Len(t) >= BYTES_TO_OVERFLOW_U64
  <2>1. seen = [point |-> FALSE, neg |-> FALSE, has |-> FALSE, big |-> big, round |-> r]
    BY <1>2 DEF Fresh
  <2>2. big \in BOOLEAN
    OBVIOUS
  <2>3. big <=> Len(text) >= BYTES_TO_OVERFLOW_U64
    BY <1>2
  <2> HIDE DEF big
  <2>4. seen \in Seens
    BY <2>1, <2>2 DEF Seens
  <2>5. QED
    BY <2>1, <2>3, <2>4
<1>4. ParserTypeOK
  BY <1>1, <1>2, <1>3, ZeroType DEF ParserTypeOK, Running
<1>5. Understood(text, 0, seen, 0, 0)
  <2>1. text \in Seq(Nat)
    BY <1>1, <1>2, BytesDiffer
  <2>2. ValueTo(text, Digits, Ten)[0] = 0
    BY <2>1, ValueSteps, BytesDiffer
  <2>3. 1..0 = {}
    OBVIOUS
  <2>4. QED
    BY <1>2, <1>3, <2>2, <2>3 DEF Understood, PlacesTo, GoodTo
<1>6. ReadPart
  <2>1. bytes = SubSeq(text, 0 + 1, Len(text))
    BY <1>1, <1>2, WholeHead
  <2>2. QED
    BY <1>2, <1>3, <1>5, <2>1 DEF ReadPart
<1>7. StagePart
  <2>1. 0 < B2 /\ 0 <= Max96 /\ 0 < MAX_SCALE /\ 0 <= MAX_SCALE
    BY BaseType, ScaleAssumption
  <2>2. 0 < WILL_OVERFLOW_U64
    BY ParserAssumption
  <2>3. /\ ppc = "first" /\ Length = 0 /\ places = 0 /\ data = 0
    BY <1>2
  <2>4. QED
    BY <2>1, <2>2, <2>3 DEF StagePart
<1>8. ParsedRounded
  BY <1>2 DEF ParsedRounded
<1>9. QED
  BY <1>2, <1>4, <1>6, <1>7, <1>8 DEF ParserInv

LEMMA SignStep == ASSUME ParserInv, Sign PROVE ParserInv'
<1>1. /\ ppc = "first" /\ bytes # <<>> /\ Head(bytes) \in {Minus, Plus} /\ bytes' = Tail(bytes) /\ ppc' = "byte64"
      /\ seen' = [seen EXCEPT !.neg = (Head(bytes) = Minus)]
      /\ text' = text /\ data' = data /\ places' = places /\ parsed' = parsed
  BY DEF Sign, At, byte
<1>2. ppc \in Running /\ ppc' \in Running
  BY <1>1 DEF Running
<1>3. /\ StagePart /\ seen \in Seens /\ data \in Nat /\ places \in Nat /\ text \in Seq(0..Letter)
      /\ Understood(text, Length, seen, data, places) /\ Length \in 0..(Len(text) - 1)
      /\ Head(bytes) = text[Length + 1]
  BY <1>1, <1>2, BeforeByte
<1>4. Length = 0
  BY <1>1, <1>3 DEF StagePart
<1>5. /\ seen' \in Seens /\ (seen'.has <=> seen.has) /\ (seen'.point <=> seen.point) /\ (seen'.big <=> seen.big)
      /\ (seen'.neg <=> Head(bytes) = Minus)
  BY <1>1, <1>3 DEF Seens
<1>6. Understood(text, Length + 1, seen', data', places')
  <2>1. /\ 0 \in 0..(Len(text) - 1) /\ text[1] \in {Minus, Plus} /\ Understood(text, 0, seen, data, places)
        /\ seen'.neg <=> text[1] = Minus
    BY <1>1, <1>3, <1>4, <1>5
  <2>2. Understood(text, 0 + 1, seen', data, places)
    BY <1>3, <1>5, <2>1, OtherRead
  <2>3. QED
    BY <1>1, <1>4, <2>2
<1>7. ParserTypeOK' /\ ReadPart' /\ Length' = Length + 1 /\ Length + 1 \in Nat \ {0}
  BY <1>1, <1>2, <1>3, <1>5, <1>6, ByteRead
<1>8. StagePart'
  <2>1. data < B2 /\ data <= Max96 /\ places <= MAX_SCALE
    BY <1>1, <1>3 DEF StagePart
  <2>2. seen.big => data < WILL_OVERFLOW_U64
    BY <1>1, <1>3 DEF StagePart
  <2>3. seen.big /\ seen.point => places < MAX_SCALE
    BY <1>1, <1>3 DEF StagePart
  <2>4. QED
    BY <1>1, <1>5, <1>7, <2>1, <2>2, <2>3 DEF StagePart
<1>9. QED
  BY <1>2, <1>7, <1>8, StillRunning DEF ParserInv

LEMMA PointStep == ASSUME ParserInv, PointSeen PROVE ParserInv'
<1>1. /\ ppc \in {"first", "byte64", "byte128"} /\ bytes # <<>> /\ Head(bytes) = Point /\ ~seen.point
      /\ bytes' = Tail(bytes) /\ ppc' = (IF ppc = "byte128" THEN "byte128" ELSE "byte64")
      /\ seen' = [seen EXCEPT !.point = TRUE]
      /\ text' = text /\ data' = data /\ places' = places /\ parsed' = parsed
  BY DEF PointSeen, At, byte
<1>2. ppc \in Running /\ ppc' \in Running
  BY <1>1 DEF Running
<1>3. /\ StagePart /\ seen \in Seens /\ data \in Nat /\ places \in Nat /\ text \in Seq(0..Letter)
      /\ Understood(text, Length, seen, data, places) /\ Length \in 0..(Len(text) - 1)
      /\ Head(bytes) = text[Length + 1]
  BY <1>1, <1>2, BeforeByte
<1>5. /\ seen' \in Seens /\ (seen'.has <=> seen.has) /\ seen'.point /\ (seen'.big <=> seen.big)
      /\ (seen'.neg <=> seen.neg)
  BY <1>1, <1>3 DEF Seens
<1>6. Understood(text, Length + 1, seen', data', places')
  BY <1>1, <1>3, <1>5, OtherRead
<1>7. ParserTypeOK' /\ ReadPart' /\ Length' = Length + 1 /\ Length + 1 \in Nat \ {0}
  BY <1>1, <1>2, <1>3, <1>5, <1>6, ByteRead
<1>8. StagePart'
  <2>1. data <= Max96 /\ places = 0 /\ 0 < MAX_SCALE /\ 0 <= MAX_SCALE
    BY <1>1, <1>3, ScaleAssumption DEF StagePart, Understood, PlacesTo
  <2>2. ppc \in {"first", "byte64"} => data < B2 /\ (seen.big => data < WILL_OVERFLOW_U64)
    BY <1>1, <1>3 DEF StagePart
  <2>3. ppc = "byte128" => seen.has /\ seen.big
    BY <1>1, <1>3 DEF StagePart
  <2>4. CASE ppc = "byte128"
    BY <1>1, <1>5, <1>7, <2>1, <2>3, <2>4 DEF StagePart
  <2>5. CASE ppc # "byte128"
    <3>1. ppc' = "byte64" /\ ppc \in {"first", "byte64"} /\ Length' # 0
      BY <1>1, <1>7, <2>5
    <3>2. QED
      BY <1>1, <1>5, <2>1, <2>2, <3>1 DEF StagePart
  <2>6. QED
    BY <2>4, <2>5
<1>9. QED
  BY <1>2, <1>7, <1>8, StillRunning DEF ParserInv

LEMMA SeparatorStep == ASSUME ParserInv, Separator PROVE ParserInv'
<1>1. /\ ppc \in {"byte64", "byte128"} /\ bytes # <<>> /\ Head(bytes) = Underscore /\ seen.has
      /\ bytes' = Tail(bytes) /\ ppc' = ppc /\ seen' = seen
      /\ text' = text /\ data' = data /\ places' = places /\ parsed' = parsed
  BY DEF Separator, At, byte
<1>2. ppc \in Running /\ ppc' \in Running
  BY <1>1 DEF Running
<1>3. /\ StagePart /\ seen \in Seens /\ data \in Nat /\ places \in Nat /\ text \in Seq(0..Letter)
      /\ Understood(text, Length, seen, data, places) /\ Length \in 0..(Len(text) - 1)
      /\ Head(bytes) = text[Length + 1]
  BY <1>1, <1>2, BeforeByte
<1>6. Understood(text, Length + 1, seen', data', places')
  BY <1>1, <1>3, OtherRead
<1>7. ParserTypeOK' /\ ReadPart' /\ Length' = Length + 1 /\ Length + 1 \in Nat \ {0}
  BY <1>1, <1>2, <1>3, <1>6, ByteRead
<1>8. StagePart'
  BY <1>1, <1>3, <1>7 DEF StagePart
<1>9. QED
  BY <1>2, <1>7, <1>8, StillRunning DEF ParserInv

\* What is wrong with a text that is refused at a byte.
LEMMA Refused ==
    ASSUME NEW t \in Seq(0..Letter), NEW k \in 0..(Len(t) - 1), NEW sn \in Seens, NEW d, NEW pl \in Nat,
           Understood(t, k, sn, d, pl), t[k + 1] \notin Digits,
           ~(t[k + 1] = Point /\ ~sn.point), ~(t[k + 1] = Underscore /\ sn.has),
           ~(t[k + 1] \in {Minus, Plus} /\ k = 0)
    PROVE  ~WellFormed(t)
<1> SUFFICES ASSUME WellFormed(t) PROVE FALSE
  OBVIOUS
<1> DEFINE body == IF Signed(t) THEN 2..Len(t) ELSE DOMAIN t
           n == k + 1
<1>1. Len(t) \in Nat /\ DOMAIN t = 1..Len(t) /\ n \in 1..Len(t) /\ k \in Nat
  OBVIOUS
<1>2. n \in body
  BY <1>1 DEF Signed
<1>3. /\ t[n] \in Digits \union {Point, Underscore}
      /\ \A i, j \in PointsIn(t) : i = j
      /\ t[n] = Underscore => \E j \in DigitsIn(t) : j < n
  BY <1>2 DEF WellFormed
<1>4. t[n] # Point
  <2>1. SUFFICES ASSUME t[n] = Point PROVE FALSE
    OBVIOUS
  <2>2. PICK i \in 1..k : t[i] = Point
    BY <2>1 DEF Understood
  <2>3. i \in PointsIn(t) /\ n \in PointsIn(t) /\ i # n
    BY <1>1, <2>1, <2>2 DEF PointsIn
  <2>4. QED
    BY <1>3, <2>3
<1>5. t[n] # Underscore
  <2>1. SUFFICES ASSUME t[n] = Underscore PROVE FALSE
    OBVIOUS
  <2>2. PICK j \in DigitsIn(t) : j < n
    BY <1>3, <2>1
  <2>3. j \in 1..k /\ t[j] \in Digits
    BY <1>1, <2>2 DEF DigitsIn
  <2>4. sn.has
    BY <2>3 DEF Understood
  <2>5. QED
    BY <2>1, <2>4
<1>6. QED
  BY <1>3, <1>4, <1>5

LEMMA InvalidStep == ASSUME ParserInv, Invalid PROVE ParserInv'
<1>1. /\ ppc \in {"first", "byte64", "byte128"} /\ bytes # <<>> /\ Head(bytes) \notin Digits
      /\ ~(Head(bytes) = Point /\ ~seen.point)
      /\ ~(Head(bytes) = Underscore /\ seen.has)
      /\ ~(Head(bytes) \in {Minus, Plus} /\ ppc = "first")
      /\ ppc' = "invalid" /\ text' = text /\ bytes' = bytes /\ seen' = seen
      /\ data' = data /\ places' = places /\ parsed' = parsed
  BY DEF Invalid, At, byte
<1>2. ppc \in Running
  BY <1>1 DEF Running
<1>3. /\ ParserTypeOK /\ StagePart /\ seen \in Seens /\ places \in Nat /\ text \in Seq(0..Letter)
      /\ Understood(text, Length, seen, data, places) /\ Length \in 0..(Len(text) - 1)
      /\ Head(bytes) = text[Length + 1]
  BY <1>1, <1>2, BeforeByte
<1>4. ppc = "first" <=> Length = 0
  BY <1>3 DEF StagePart
<1>5. ~WellFormed(text)
  <2> DEFINE k == Length
  <2>1. /\ text[k + 1] \notin Digits
        /\ ~(text[k + 1] = Point /\ ~seen.point) /\ ~(text[k + 1] = Underscore /\ seen.has)
        /\ ~(text[k + 1] \in {Minus, Plus} /\ k = 0)
    BY <1>1, <1>3, <1>4
  <2> HIDE DEF k
  <2>2. QED
    BY <1>3, <2>1, Refused DEF k
<1>6. ParserTypeOK'
  BY <1>1, <1>3 DEF ParserTypeOK, Failed
<1>7. ParsedRounded'
  BY <1>1, <1>5 DEF ParsedRounded
<1>8. QED
  BY <1>1, <1>6, <1>7 DEF ParserInv, Running

LEMMA EndStep == ASSUME ParserInv, End PROVE ParserInv'
<1>1. /\ ppc \in {"first", "byte64", "byte128", "lookahead"} /\ bytes = <<>>
      /\ ppc' = (IF seen.has THEN "parsed" ELSE "invalid")
      /\ parsed' = (IF seen.has THEN FromParts(data, seen.neg, places) ELSE parsed)
      /\ text' = text /\ bytes' = bytes /\ seen' = seen /\ data' = data /\ places' = places
  BY DEF End
<1>2. ppc \in Running
  BY <1>1 DEF Running
<1>3. /\ ParserTypeOK /\ StagePart /\ seen \in Seens /\ places \in Nat /\ data \in Nat /\ text \in Seq(0..Letter)
      /\ Understood(text, Len(text), seen, data, places) /\ Len(text) \in 0..Len(text) /\ parsed \in Decimal
      /\ Len(text) \in Nat
  BY <1>1, <1>2, BeforeByte
<1>4. Numeral(text) = data /\ Fraction(text) = places /\ (WellFormed(text) <=> seen.has)
  BY <1>3, HeadSays, WholeHead
<1>5. CASE ~seen.has
  <2>1. ppc' = "invalid" /\ parsed' = parsed /\ ~WellFormed(text)
    BY <1>1, <1>4, <1>5
  <2>2. ParserTypeOK'
    BY <1>1, <1>3, <2>1 DEF ParserTypeOK, Failed
  <2>3. ParsedRounded'
    BY <1>1, <2>1 DEF ParsedRounded
  <2>4. QED
    BY <2>1, <2>2, <2>3 DEF ParserInv, Running
<1>6. CASE seen.has
  <2>1. ppc' = "parsed" /\ parsed' = FromParts(data, seen.neg, places) /\ WellFormed(text)
    BY <1>1, <1>4, <1>6
  <2>2. data \in Mantissa /\ places \in 0..MAX_SCALE /\ seen.neg \in BOOLEAN
    BY <1>3, ScaleAssumption, BaseType DEF StagePart, Mantissa, Seens
  <2>3. parsed' \in Decimal
    BY <2>1, <2>2, FromPartsType
  <2>4. ParserTypeOK'
    BY <1>1, <1>3, <2>1, <2>3 DEF ParserTypeOK
  <2>5. IsParseOf(parsed', text)
    <3>1. parsed'.m = data /\ parsed'.s = places /\ (parsed'.neg = (seen.neg /\ data # 0))
      BY <2>1 DEF FromParts
    <3>2. seen.neg <=> text[1] = Minus
      <4>1. PICK i \in 1..Len(text) : text[i] \in Digits
        BY <1>3, <1>6 DEF Understood
      <4>2. Len(text) >= 1
        BY <1>3, <4>1
      <4>3. QED
        BY <1>3, <4>2 DEF Understood
    <3>3. places - places = 0 /\ POWERS[0] = 1 /\ HalfUp(data, 1) = data
      BY <1>3, PowersAssumption, HalfUpWhole
    <3>4. places <= SmallerOf(places, MAX_SCALE) /\ ~(places < SmallerOf(places, MAX_SCALE))
      BY <2>2, ScaleAssumption DEF SmallerOf
    <3>5. QED
      BY <1>4, <3>1, <3>2, <3>3, <3>4 DEF IsParseOf
  <2>6. ParsedRounded'
    <3>1. parsed'.s = Fraction(text)
      BY <1>4, <2>1 DEF FromParts
    <3>2. QED
      BY <1>1, <2>1, <2>5, <3>1 DEF ParsedRounded
  <2>7. QED
    BY <2>1, <2>4, <2>6 DEF ParserInv, Running
<1>7. QED
  BY <1>5, <1>6

\* From one position to a later one the number only grows.
LEMMA ValueGrows ==
    ASSUME NEW t \in Seq(Nat), NEW i \in 0..Len(t), NEW j \in i..Len(t), Len(t) <= PowLimit
    PROVE  /\ ValueTo(t, Digits, Ten)[i] \in Nat /\ ValueTo(t, Digits, Ten)[j] \in Nat
           /\ ValueTo(t, Digits, Ten)[i] <= ValueTo(t, Digits, Ten)[j]
<1> DEFINE v == ValueTo(t, Digits, Ten)
           c == CountTo(t, Digits)
<1>1. /\ c[j] - c[i] \in 0..(j - i)
      /\ \E w \in 0..(POWERS[c[j] - c[i]] - 1) : v[j] = v[i] * POWERS[c[j] - c[i]] + w
  BY TailSays
<1> DEFINE e == c[j] - c[i]
           q == POWERS[e]
<1>2. e \in 0..PowLimit
  <2>1. e \in 0..(j - i) /\ j - i <= PowLimit /\ PowLimit \in Nat /\ j - i \in Int
    BY <1>1, ScaleAssumption
  <2> HIDE DEF e
  <2>2. QED
    BY <2>1
<1>3. q \in Nat /\ q >= 1
  BY <1>2, PowersType
<1>4. PICK w \in 0..(q - 1) : v[j] = v[i] * q + w
  BY <1>1
<1>5. v[i] \in Nat /\ v[j] \in Nat
  <2>1. v \in [0..Len(t) -> Nat] /\ i \in 0..Len(t) /\ j \in 0..Len(t)
    BY ValueSteps, BytesDiffer
  <2> HIDE DEF v
  <2>2. QED
    BY <2>1
<1> DEFINE a == v[i]
           b == v[j]
           x == q * a
<1> HIDE DEF q
<1>6. b = x + w /\ a <= x /\ x \in Int /\ w \in Nat /\ a \in Nat /\ b \in Nat
  <2>1. a \in Nat /\ 1 \in Int /\ q \in Int /\ 1 <= q /\ a \in Int
    BY <1>3, <1>5
  <2>2. b = a * q + w /\ w \in Nat /\ b \in Nat
    BY <1>3, <1>4, <1>5
  <2> HIDE DEF a, b
  <2>3. 1 * a <= q * a /\ a * q = q * a /\ q * a \in Int /\ 1 * a = a
    BY <2>1, MulMono, MulAssoc
  <2>4. QED
    BY <2>1, <2>2, <2>3
<1> HIDE DEF a, b, x
<1>7. a <= b
  BY <1>6
<1>8. QED
  BY <1>5, <1>7 DEF a, b

\* There are no more places than bytes.
LEMMA FractionInTable ==
    ASSUME NEW t \in Seq(0..Letter), Len(t) <= PowLimit, WellFormed(t)
    PROVE  Fraction(t) \in 0..PowLimit
<1> DEFINE N == Len(t)
           c == CountTo(t, Digits)
<1>1. PICK sn \in Seens : Understood(t, N, sn, Numeral(t), Fraction(t)) /\ Fraction(t) \in Nat
  BY WellFormedUnderstood
<1>2. t \in Seq(Nat) /\ N \in Nat /\ PowLimit \in Nat
  BY BytesDiffer, ScaleAssumption
<1>3. CASE \A i \in 1..N : t[i] # Point
  BY <1>1, <1>2, <1>3 DEF Understood, PlacesTo
<1>4. CASE ~ \A i \in 1..N : t[i] # Point
  <2>1. PICK p \in 1..N : t[p] = Point
    BY <1>4
  <2>2. Fraction(t) = c[N] - c[p]
    BY <1>1, <2>1 DEF Understood, PlacesTo
  <2>3. p \in 0..N /\ N \in p..N
    BY <1>2, <2>1
  <2>4. c[N] - c[p] \in 0..(N - p)
    BY <1>2, <2>3, TailSays
  <2> HIDE DEF c
  <2>5. QED
    BY <1>2, <2>1, <2>2, <2>4
<1>5. QED
  BY <1>3, <1>4

\* A number that grew over 96 bits before its point does not fit with fewer places.
LEMMA TooLargeWhole ==
    ASSUME NEW t \in Seq(0..Letter), Len(t) <= PowLimit, WellFormed(t),
           NEW k \in 1..Len(t), \A i \in 1..k : t[i] # Point,
           NEW d \in Nat, d = ValueTo(t, Digits, Ten)[k]
    PROVE  d <= Numeral(t) /\ d <= HalfUp(Numeral(t), POWERS[Fraction(t)])
<1> DEFINE N == Len(t)
           v == ValueTo(t, Digits, Ten)
           c == CountTo(t, Digits)
           f == Fraction(t)
<1>1. t \in Seq(Nat) /\ N \in Nat /\ N \in 0..N /\ k \in 0..N /\ k \in Nat /\ Numeral(t) = v[N]
  BY BytesDiffer DEF Numeral
<1>2. PICK sn \in Seens : Understood(t, N, sn, Numeral(t), f) /\ f \in Nat
  BY WellFormedUnderstood
<1>3. v \in [0..N -> Nat] /\ c \in [0..N -> Nat]
  BY <1>1, ValueSteps, CountSteps, BytesDiffer
\* From one position to a later one the number only grows.
<1>4. ASSUME NEW i \in 0..N, NEW j \in i..N
      PROVE  /\ c[j] - c[i] \in 0..PowLimit
             /\ \E w \in 0..(POWERS[c[j] - c[i]] - 1) : v[j] = v[i] * POWERS[c[j] - c[i]] + w
             /\ v[i] <= v[j]
  <2>1. /\ c[j] - c[i] \in 0..(j - i)
        /\ \E w \in 0..(POWERS[c[j] - c[i]] - 1) : v[j] = v[i] * POWERS[c[j] - c[i]] + w
    BY <1>1, TailSays
  <2>2. v[i] <= v[j]
    BY <1>1, ValueGrows
  <2> DEFINE e == c[j] - c[i]
  <2>3. e \in 0..PowLimit
    <3>1. e \in 0..(j - i)
      BY <2>1
    <3> HIDE DEF e
    <3>2. QED
      BY <1>1, <3>1, ScaleAssumption
  <2> HIDE DEF e, v
  <2>4. QED
    BY <2>1, <2>2, <2>3 DEF e
<1>5. d <= Numeral(t)
  BY <1>1, <1>4
<1>6. \E p \in k..N : f = c[N] - c[p] \/ (f = 0 /\ p = N)
  <2>1. CASE \A i \in 1..N : t[i] # Point
    BY <1>1, <1>2, <2>1 DEF Understood, PlacesTo
  <2>2. CASE ~ \A i \in 1..N : t[i] # Point
    <3>1. PICK p \in 1..N : t[p] = Point
      BY <2>2
    <3>2. p \in k..N
      BY <1>1, <3>1
    <3>3. f = c[N] - c[p]
      BY <1>2, <3>1 DEF Understood, PlacesTo
    <3>4. QED
      BY <3>2, <3>3
  <2>3. QED
    BY <2>1, <2>2
<1>7. PICK p \in k..N : f = c[N] - c[p] \/ (f = 0 /\ p = N)
  BY <1>6
<1>8. p \in 0..N /\ N \in p..N /\ c[N] \in Nat
  BY <1>1, <1>3
<1>9. f = c[N] - c[p]
  <2>1. c[N] - c[N] = 0
    <3> HIDE DEF c
    <3>1. QED
      BY <1>8
  <2>2. QED
    BY <1>7, <2>1
<1>10. f \in 0..PowLimit /\ \E w \in 0..(POWERS[f] - 1) : v[N] = v[p] * POWERS[f] + w
  <2> HIDE DEF f, v, c
  <2>1. QED
    BY <1>4, <1>8, <1>9
<1> HIDE DEF f
<1>11. PICK w \in 0..(POWERS[f] - 1) : v[N] = v[p] * POWERS[f] + w
  BY <1>10
<1>12. POWERS[f] \in Nat \ {0} /\ w \in Nat /\ v[p] \in Nat
  BY <1>3, <1>8, <1>10, PowersAssumption
<1>13. v[p] <= HalfUp(v[p] * POWERS[f] + w, POWERS[f])
  <2> HIDE DEF v
  <2>1. QED
    BY <1>12, HalfUpAtLeast
<1>14. d <= v[p]
  BY <1>1, <1>4, <1>7
<1>15. v[p] * POWERS[f] \in Nat
  BY <1>12, \A a, b \in Nat : a * b \in Nat
<1>16. HalfUp(v[p] * POWERS[f] + w, POWERS[f]) \in Int
  <2> DEFINE a == v[p] * POWERS[f]
  <2>1. a \in Nat
    BY <1>15
  <2> HIDE DEF a
  <2>2. HalfUp(a + w, POWERS[f]) \in Int
    BY <1>12, <2>1 DEF HalfUp
  <2>3. QED
    BY <2>2 DEF a
<1>17. d <= HalfUp(Numeral(t), POWERS[f])
  <2> DEFINE h == HalfUp(v[p] * POWERS[f] + w, POWERS[f])
  <2>1. h = HalfUp(Numeral(t), POWERS[f])
    BY <1>1, <1>11
  <2>2. h \in Int /\ v[p] <= h
    BY <1>13, <1>16
  <2> HIDE DEF h, v
  <2>3. d <= h
    BY <1>12, <1>14, <2>2
  <2>4. QED
    BY <2>1, <2>3
<1>18. QED
  BY <1>5, <1>17 DEF f

\* In the exact variant, what follows the last place is another digit or nothing.
LEMMA NoPlaceLeft ==
    ASSUME NEW t \in Seq(0..Letter), Len(t) <= PowLimit, WellFormed(t), NEW k \in 0..(Len(t) - 1),
           NEW sn, NEW d, NEW pl \in Nat, Understood(t, k, sn, d, pl), sn.point, pl >= MAX_SCALE
    PROVE  Fraction(t) > MAX_SCALE \/ t[Len(t)] = Underscore
<1> DEFINE N == Len(t)
           c == CountTo(t, Digits)
           f == Fraction(t)
<1> SUFFICES ASSUME t[N] # Underscore PROVE f > MAX_SCALE
  OBVIOUS
<1>1. t \in Seq(Nat) /\ N \in Nat /\ N \in 1..N /\ N - 1 \in k..N /\ N - 1 \in 0..N /\ N \in (N - 1)..N
      /\ k \in 0..N /\ N \in k..N /\ k \in Nat /\ MAX_SCALE \in Nat
  BY BytesDiffer, ScaleAssumption
<1>2. PICK sj \in Seens : Understood(t, N, sj, Numeral(t), f) /\ f \in Nat
  BY WellFormedUnderstood
<1>3. PICK p \in 1..k : t[p] = Point
  BY DEF Understood
<1>4. t[N] \in Digits
  <2>1. N # 1 /\ N # p /\ p \in 1..N
    BY <1>1, <1>3
  <2>2. GoodTo(t, N)
    BY <1>2 DEF Understood
  <2>3. t[N] # Point
    BY <1>1, <1>3, <2>1, <2>2 DEF GoodTo
  <2>4. QED
    BY <1>1, <2>1, <2>2, <2>3 DEF GoodTo
<1>5. c[N] = c[N - 1] + 1 /\ c \in [0..N -> Nat]
  BY <1>1, <1>4, CountSteps
<1>6. c[N - 1] - c[k] \in 0..((N - 1) - k)
  BY <1>1, TailSays
<1>7. f - pl = c[N] - c[k]
  <2>1. f = c[N] - c[p] /\ pl = c[k] - c[p]
    <3>1. p \in 1..N
      BY <1>1, <1>3
    <3>2. QED
      BY <1>2, <1>3, <3>1 DEF Understood, PlacesTo
  <2>2. c[N] \in Nat /\ c[k] \in Nat /\ c[p] \in Nat
    <3>1. p \in 0..N /\ N \in 0..N
      BY <1>1, <1>3
    <3> HIDE DEF c, N
    <3>2. QED
      BY <1>1, <1>5, <3>1
  <2> HIDE DEF c, f
  <2>3. QED
    BY <2>1, <2>2
<1>8. c[N] \in Nat /\ c[N - 1] \in Nat /\ c[k] \in Nat
  BY <1>1, <1>5
<1> HIDE DEF c, f
<1>9. f - pl >= 1
  BY <1>1, <1>5, <1>6, <1>7, <1>8
<1>10. QED
  BY <1>1, <1>2, <1>9

LEMMA Digit64Step == ASSUME ParserInv, Digit64 PROVE ParserInv'
<1> DEFINE g == Head(bytes)
<1>1. /\ ppc \in {"first", "byte64"} /\ bytes # <<>> /\ g \in Digits
      /\ data' = data * Ten + g /\ places' = (IF seen.point THEN places + 1 ELSE 0)
      /\ seen' = [seen EXCEPT !.has = TRUE] /\ bytes' = Tail(bytes)
      /\ ppc' = (IF bytes' # <<>> /\ seen.point /\ seen.big /\ places' >= MAX_SCALE
                 THEN (IF seen.round THEN "round" ELSE "underflow")
                 ELSE IF bytes' # <<>> /\ seen.big /\ data' >= WILL_OVERFLOW_U64 THEN "byte128"
                 ELSE "byte64")
      /\ text' = text /\ parsed' = parsed
  BY DEF Digit64, At, byte
<1>2. ppc \in Running /\ ppc' \in Running \union {"underflow"}
  BY <1>1 DEF Running
<1>3. /\ StagePart /\ ReadPart /\ seen \in Seens /\ data \in Nat /\ places \in Nat /\ text \in Seq(0..Letter)
      /\ Understood(text, Length, seen, data, places) /\ Length \in 0..(Len(text) - 1)
      /\ g = text[Length + 1] /\ Len(text) \in Nat /\ Len(text) <= PowLimit
      /\ Tail(bytes) = <<>> <=> Length + 1 = Len(text)
  BY <1>1, <1>2, BeforeByte
<1>4. g \in 0..(Ten - 1) /\ data * Ten \in Nat /\ data' \in Nat /\ places' \in Nat /\ Ten \in Nat \ {0}
  <2>1. g \in 0..(Ten - 1) /\ Ten \in Nat \ {0}
    BY <1>1, BytesDiffer
  <2>2. data * Ten \in Nat
    BY <1>3, <2>1, \A u, z \in Nat : u * z \in Nat
  <2> DEFINE x == data * Ten
  <2>3. data' = x + g /\ x \in Nat
    BY <1>1, <2>2
  <2> HIDE DEF g, x
  <2>4. data' \in Nat
    BY <2>1, <2>3
  <2>5. places' \in Nat
    BY <1>1, <1>3
  <2>6. QED
    BY <2>1, <2>2, <2>4, <2>5
<1>5. seen' \in Seens /\ seen'.has /\ (seen'.point <=> seen.point) /\ (seen'.big <=> seen.big) /\ (seen'.round <=> seen.round)
  BY <1>1, <1>3 DEF Seens
<1>6. Understood(text, Length + 1, seen', data', places')
  BY <1>1, <1>3, DigitRead
<1>7. ParserTypeOK' /\ ReadPart' /\ Length' = Length + 1 /\ Length + 1 \in Nat \ {0}
  BY <1>1, <1>2, <1>4, <1>5, <1>6, ByteRead
<1>8. /\ B2 \in Nat /\ B3 \in Nat /\ B2 < B3 /\ Max96 = B3 - 1 /\ MAX_SCALE \in Nat /\ MAX_SCALE > 0
      /\ WILL_OVERFLOW_U64 \in Nat
  BY BaseType, ScaleAssumption, ParserAssumption
\* The value fits 64 bits and the places the scale, because the stage said so or the
\* text is short.
<1>9. data' < B2 /\ places' <= MAX_SCALE
  <2>1. CASE seen.big
    <3>1. data < WILL_OVERFLOW_U64 /\ (seen.point => places < MAX_SCALE)
      BY <1>1, <1>3, <2>1 DEF StagePart
    <3> DEFINE w == WILL_OVERFLOW_U64
               b == B2 \div Ten
    <3>2. data + 1 <= b /\ b \in Nat /\ b * Ten <= B2
      <4>1. w <= b - 1 /\ b \in Nat /\ B2 = b * Ten + (B2 % Ten) /\ B2 % Ten \in Nat
        BY <1>4, <1>8, ParserAssumption, DivMod
      <4>2. b * Ten \in Nat
        BY <1>4, <4>1, \A u, z \in Nat : u * z \in Nat
      <4> HIDE DEF b
      <4>3. QED
        BY <1>3, <1>8, <3>1, <4>1, <4>2
    <3> HIDE DEF b
    <3>3. (data + 1) * Ten <= b * Ten /\ (data + 1) * Ten = data * Ten + Ten /\ b * Ten \in Int
      BY <1>3, <1>4, <3>2, MulMono, Distribute, 1 * Ten = Ten
    <3> DEFINE x == data * Ten
               y == b * Ten
    <3>4. data' = x + g /\ x + Ten <= y /\ y <= B2 /\ x \in Nat /\ y \in Int
      BY <1>1, <1>4, <3>2, <3>3
    <3> HIDE DEF x, y, g
    <3>5. data' < B2
      BY <1>4, <1>8, <3>4
    <3>6. places' <= MAX_SCALE
      BY <1>1, <1>3, <1>8, <3>1
    <3>7. QED
      BY <3>5, <3>6
  <2>2. CASE ~seen.big
    <3>1. Len(text) < BYTES_TO_OVERFLOW_U64
      BY <1>3, <2>2, ParserAssumption, ScaleAssumption DEF ReadPart
    <3> DEFINE k == Length + 1
    <3>2. k \in 0..Len(text) /\ Understood(text, k, seen', data', places')
      BY <1>3, <1>6
    <3> HIDE DEF k
    <3>3. data' < B2 /\ places' < MAX_SCALE
      BY <1>3, <1>4, <3>1, <3>2, ShortText
    <3>4. QED
      BY <1>4, <1>8, <3>3
  <2>3. QED
    BY <2>1, <2>2
<1>10. data' <= Max96
  BY <1>4, <1>8, <1>9
<1>11. CASE ppc' = "underflow"
  <2>1. bytes' # <<>> /\ seen.point /\ places' >= MAX_SCALE /\ ~seen.round /\ Length + 1 \in 0..(Len(text) - 1)
    <3>1. bytes' # <<>> /\ seen.point /\ places' >= MAX_SCALE /\ ~seen.round
      BY <1>1, <1>11
    <3>2. Length + 1 # Len(text)
      BY <1>1, <1>3, <3>1
    <3>3. QED
      BY <1>3, <3>1, <3>2
  <2>2. WellFormed(text) => Fraction(text) > MAX_SCALE \/ text[Len(text)] = Underscore
    BY <1>3, <1>4, <1>5, <1>6, <2>1, NoPlaceLeft
  <2>3. ParsedRounded'
    BY <1>1, <1>5, <1>11, <2>1, <2>2 DEF ParsedRounded
  <2>4. QED
    BY <1>7, <1>11, <2>3 DEF ParserInv, Running
<1>12. CASE ppc' # "underflow"
  <2>1. CASE ppc' = "round"
    <3>1. bytes' # <<>> /\ seen.point /\ seen.big /\ places' >= MAX_SCALE /\ seen.round
      BY <1>1, <2>1
    <3>2. places' = MAX_SCALE
      BY <1>4, <1>8, <1>9, <3>1
    <3>3. text'[Length'] \in Digits
      BY <1>1, <1>3, <1>7
    <3>4. data' \div Ten = data
      <4> DEFINE e == data'
      <4>1. e \in Nat /\ e = data * Ten + g /\ g \in Nat /\ g < Ten
        BY <1>1, <1>4
      <4> HIDE DEF e, g
      <4>2. e \div Ten = data
        BY <1>3, <1>4, <4>1, QuotientUnique
      <4>3. QED
        BY <4>2 DEF e
    <3>5. data < WILL_OVERFLOW_U64
      BY <1>1, <1>3, <3>1 DEF StagePart
    <3>6. Length' # 0
      BY <1>7
    <3>7. StagePart'
      BY <1>5, <1>9, <1>10, <2>1, <3>1, <3>2, <3>3, <3>4, <3>5, <3>6 DEF StagePart
    <3>8. QED
      BY <1>7, <2>1, <3>7, StillRunning DEF ParserInv, Running
  <2>2. CASE ppc' # "round"
    <3>1. ppc' \in {"byte64", "byte128"}
      BY <1>1, <1>12, <2>2
    <3>2. seen'.big /\ seen'.point /\ bytes' # <<>> => places' < MAX_SCALE
      <4>1. ~(bytes' # <<>> /\ seen.point /\ seen.big /\ places' >= MAX_SCALE)
        BY <1>1, <1>12, <2>2
      <4>2. QED
        BY <1>4, <1>5, <1>8, <4>1
    <3>3. ppc' = "byte64" /\ seen'.big /\ bytes' # <<>> => data' < WILL_OVERFLOW_U64
      <4>1. ppc' = "byte64" => ~(bytes' # <<>> /\ seen.big /\ data' >= WILL_OVERFLOW_U64)
        <5>1. ~(bytes' # <<>> /\ seen.point /\ seen.big /\ places' >= MAX_SCALE)
          BY <1>1, <1>12, <2>2
        <5>2. ppc' = IF bytes' # <<>> /\ seen.big /\ data' >= WILL_OVERFLOW_U64 THEN "byte128" ELSE "byte64"
          BY <1>1, <5>1
        <5>3. QED
          BY <5>2
      <4>2. QED
        BY <1>4, <1>5, <1>8, <4>1
    <3>4. ppc' = "byte128" => seen'.big
      BY <1>1, <1>5, <1>12, <2>2
    <3>5. Length' # 0
      BY <1>7
    <3>6. StagePart'
      BY <1>5, <1>9, <1>10, <3>1, <3>2, <3>3, <3>4, <3>5 DEF StagePart
    <3>7. QED
      BY <1>7, <3>1, <3>6, StillRunning DEF ParserInv, Running
  <2>3. QED
    BY <2>1, <2>2
<1>13. QED
  BY <1>11, <1>12

LEMMA Digit128Step == ASSUME ParserInv, Digit128 PROVE ParserInv'
<1> DEFINE g == Head(bytes)
<1>1. /\ ppc = "byte128" /\ bytes # <<>> /\ g \in Digits /\ data * Ten + g <= Max96
      /\ data' = data * Ten + g /\ places' = (IF seen.point THEN places + 1 ELSE places)
      /\ seen' = seen /\ bytes' = Tail(bytes)
      /\ ppc' = (IF bytes' # <<>> /\ seen.point /\ places' >= MAX_SCALE
                 THEN (IF seen.round THEN "lookahead" ELSE "underflow") ELSE "byte128")
      /\ text' = text /\ parsed' = parsed
  BY DEF Digit128, At, byte
<1>2. ppc \in Running /\ ppc' \in Running \union {"underflow"}
  BY <1>1 DEF Running
<1>3. /\ StagePart /\ ReadPart /\ seen \in Seens /\ data \in Nat /\ places \in Nat /\ text \in Seq(0..Letter)
      /\ Understood(text, Length, seen, data, places) /\ Length \in 0..(Len(text) - 1)
      /\ g = text[Length + 1] /\ Len(text) \in Nat /\ Len(text) <= PowLimit
      /\ Tail(bytes) = <<>> <=> Length + 1 = Len(text)
  BY <1>1, <1>2, BeforeByte
<1>4. g \in 0..(Ten - 1) /\ data * Ten \in Nat /\ data' \in Nat /\ places' \in Nat /\ Ten \in Nat \ {0}
  <2>1. g \in 0..(Ten - 1) /\ Ten \in Nat \ {0}
    BY <1>1, BytesDiffer
  <2>2. data * Ten \in Nat
    BY <1>3, <2>1, \A u, z \in Nat : u * z \in Nat
  <2> DEFINE x == data * Ten
  <2>3. data' = x + g /\ x \in Nat
    BY <1>1, <2>2
  <2> HIDE DEF g, x
  <2>4. data' \in Nat
    BY <2>1, <2>3
  <2>5. places' \in Nat
    BY <1>1, <1>3
  <2>6. QED
    BY <2>1, <2>2, <2>4, <2>5
<1>5. seen.has /\ seen.big /\ seen' = [seen EXCEPT !.has = TRUE]
  <2>1. seen.has /\ seen.big
    BY <1>1, <1>3 DEF StagePart
  <2>2. [seen EXCEPT !.has = TRUE] = seen
    BY <1>3, <2>1 DEF Seens
  <2>3. QED
    BY <1>1, <2>1, <2>2
<1>6. Understood(text, Length + 1, seen', data', places')
  <2>1. places' = IF seen.point THEN places + 1 ELSE 0
    <3>1. ~seen.point => places = 0
      BY <1>3 DEF Understood, PlacesTo
    <3>2. QED
      BY <1>1, <3>1
  <2>2. Understood(text, Length + 1, [seen EXCEPT !.has = TRUE], data * Ten + text[Length + 1],
                   IF seen.point THEN places + 1 ELSE 0)
    BY <1>1, <1>3, DigitRead
  <2>3. QED
    BY <1>1, <1>3, <1>5, <2>1, <2>2
<1>7. ParserTypeOK' /\ ReadPart' /\ Length' = Length + 1 /\ Length + 1 \in Nat \ {0}
  BY <1>1, <1>2, <1>3, <1>4, <1>6, ByteRead
<1>8. MAX_SCALE \in Nat /\ MAX_SCALE > 0
  BY ScaleAssumption
<1>9. data' <= Max96 /\ places' <= MAX_SCALE
  <2>1. seen.point => places < MAX_SCALE
    BY <1>1, <1>3, <1>5 DEF StagePart
  <2>2. places <= MAX_SCALE
    BY <1>3 DEF StagePart
  <2>3. QED
    BY <1>1, <1>3, <1>8, <2>1, <2>2
<1>11. CASE ppc' = "underflow"
  <2>1. bytes' # <<>> /\ seen.point /\ places' >= MAX_SCALE /\ ~seen.round /\ Length + 1 \in 0..(Len(text) - 1)
    <3>1. bytes' # <<>> /\ seen.point /\ places' >= MAX_SCALE /\ ~seen.round
      BY <1>1, <1>11
    <3>2. Length + 1 # Len(text)
      BY <1>1, <1>3, <3>1
    <3>3. QED
      BY <1>3, <3>1, <3>2
  <2>2. WellFormed(text) => Fraction(text) > MAX_SCALE \/ text[Len(text)] = Underscore
    BY <1>1, <1>3, <1>4, <1>6, <2>1, NoPlaceLeft
  <2>3. ParsedRounded'
    BY <1>1, <1>11, <2>1, <2>2 DEF ParsedRounded
  <2>4. QED
    BY <1>7, <1>11, <2>3 DEF ParserInv, Running
<1>12. CASE ppc' # "underflow"
  <2>1. Length' # 0
    BY <1>7
  <2>2. CASE ppc' = "lookahead"
    <3>1. bytes' # <<>> /\ seen.point /\ places' >= MAX_SCALE /\ seen.round
      BY <1>1, <2>2
    <3>2. places' = MAX_SCALE
      BY <1>4, <1>8, <1>9, <3>1
    <3>3. StagePart'
      BY <1>1, <1>5, <1>9, <2>1, <2>2, <3>1, <3>2 DEF StagePart
    <3>4. QED
      BY <1>7, <2>2, <3>3, StillRunning DEF ParserInv, Running
  <2>3. CASE ppc' # "lookahead"
    <3>1. ppc' = "byte128" /\ ~(bytes' # <<>> /\ seen.point /\ places' >= MAX_SCALE)
      BY <1>1, <1>12, <2>3
    <3>2. seen'.big /\ seen'.point /\ bytes' # <<>> => places' < MAX_SCALE
      BY <1>1, <1>4, <1>8, <3>1
    <3>3. StagePart'
      BY <1>1, <1>5, <1>9, <2>1, <3>1, <3>2 DEF StagePart
    <3>4. QED
      BY <1>7, <3>1, <3>3, StillRunning DEF ParserInv, Running
  <2>4. QED
    BY <2>2, <2>3
<1>13. QED
  BY <1>11, <1>12

LEMMA Full128Step == ASSUME ParserInv, Full128 PROVE ParserInv'
<1> DEFINE g == Head(bytes)
<1>1. /\ ppc = "byte128" /\ bytes # <<>> /\ g \in Digits /\ data * Ten + g > Max96
      /\ ppc' = (IF ~seen.point THEN "overflow" ELSE IF seen.round THEN "round" ELSE "underflow")
      /\ text' = text /\ bytes' = bytes /\ seen' = seen /\ data' = data /\ places' = places /\ parsed' = parsed
  BY DEF Full128, At, byte
<1>2. ppc \in Running
  BY <1>1 DEF Running
<1>3. /\ ParserTypeOK /\ StagePart /\ ReadPart /\ seen \in Seens /\ data \in Nat /\ places \in Nat /\ text \in Seq(0..Letter)
      /\ Understood(text, Length, seen, data, places) /\ Length \in 0..(Len(text) - 1)
      /\ g = text[Length + 1] /\ Len(text) \in Nat /\ Len(text) <= PowLimit
  BY <1>1, <1>2, BeforeByte
<1>4. ParserTypeOK'
  BY <1>1, <1>3 DEF ParserTypeOK, Failed, Running
<1>5. Understood(text, Length + 1, [seen EXCEPT !.has = TRUE], data * Ten + g, IF seen.point THEN places + 1 ELSE 0)
  BY <1>1, <1>3, DigitRead
<1>6. /\ data * Ten + g \in Nat /\ data * Ten + g = ValueTo(text, Digits, Ten)[Length + 1]
      /\ Length + 1 \in 1..Len(text)
  <2>1. data * Ten \in Nat
    BY <1>3, BytesDiffer, \A u, z \in Nat : u * z \in Nat
  <2>2. g \in Nat
    BY <1>1, BytesDiffer
  <2>3. data * Ten + g \in Nat
    BY <2>1, <2>2
  <2>4. data * Ten + g = ValueTo(text, Digits, Ten)[Length + 1]
    BY <1>5 DEF Understood
  <2>5. QED
    BY <1>3, <2>3, <2>4
\* It does not fit before the point.
<1>7. CASE ~seen.point
  <2>1. \A i \in 1..(Length + 1) : text[i] # Point
    <3>1. \A i \in 1..Length : text[i] # Point
      BY <1>3, <1>7 DEF Understood
    <3>2. text[Length + 1] # Point
      BY <1>1, <1>3, BytesDiffer
    <3>3. 1..(Length + 1) = 1..Length \union {Length + 1}
      BY <1>3
    <3>4. QED
      BY <3>1, <3>2, <3>3
  <2> DEFINE d == data * Ten + g
             h == HalfUp(Numeral(text), POWERS[Fraction(text)])
  <2>2. ASSUME WellFormed(text) PROVE h > Max96
    <3>1. d <= h
      <4> DEFINE k == Length + 1
      <4>1. k \in 1..Len(text) /\ (\A i \in 1..k : text[i] # Point) /\ d \in Nat /\ d = ValueTo(text, Digits, Ten)[k]
        BY <1>6, <2>1
      <4> HIDE DEF k, d, h
      <4>2. QED
        BY <1>3, <2>2, <4>1, TooLargeWhole DEF h
    <3>2. h \in Int
      <4>1. PICK sn \in Seens : Understood(text, Len(text), sn, Numeral(text), Fraction(text)) /\ Fraction(text) \in Nat
        BY <1>3, <2>2, WellFormedUnderstood
      <4>2. Numeral(text) \in Nat
        <5>1. text \in Seq(Nat) /\ Len(text) \in 0..Len(text)
          BY <1>3, BytesDiffer
        <5>2. ValueTo(text, Digits, Ten) \in [0..Len(text) -> Nat]
          BY <5>1, ValueSteps, BytesDiffer
        <5>3. QED
          BY <5>1, <5>2 DEF Numeral
      <4>3. POWERS[Fraction(text)] \in Nat \ {0}
        <5>1. Fraction(text) \in 0..PowLimit
          BY <1>3, <2>2, FractionInTable
        <5>2. QED
          BY <5>1, PowersAssumption
      <4>4. QED
        BY <4>2, <4>3 DEF HalfUp
    <3>3. d > Max96 /\ d \in Nat /\ Max96 \in Nat
      BY <1>1, <1>6, BaseType
    <3> HIDE DEF d, h
    <3>4. QED
      BY <3>1, <3>2, <3>3
  <2>3. ppc' = "overflow"
    BY <1>1, <1>7
  <2>4. ParsedRounded'
    BY <1>1, <2>2, <2>3 DEF ParsedRounded
  <2>5. QED
    BY <1>4, <2>3, <2>4 DEF ParserInv, Running
<1>8. CASE seen.point /\ ~seen.round
  <2>1. ppc' = "underflow"
    BY <1>1, <1>8
  <2>2. ASSUME WellFormed(text) PROVE Numeral(text) > Max96
    <3>1. data * Ten + g <= Numeral(text) /\ Numeral(text) \in Nat
      <4>1. text \in Seq(Nat) /\ Len(text) \in 0..Len(text) /\ Length + 1 \in 0..Len(text) /\ Len(text) \in (Length + 1)..Len(text)
        BY <1>3, BytesDiffer
      <4>2. ValueTo(text, Digits, Ten)[Length + 1] <= ValueTo(text, Digits, Ten)[Len(text)]
            /\ ValueTo(text, Digits, Ten)[Len(text)] \in Nat
        <5> DEFINE k == Length + 1
                   N == Len(text)
        <5>1. text \in Seq(Nat) /\ k \in 0..N /\ N \in k..N /\ N <= PowLimit
          BY <1>3, <4>1
        <5> HIDE DEF k, N
        <5>2. ValueTo(text, Digits, Ten)[k] <= ValueTo(text, Digits, Ten)[N] /\ ValueTo(text, Digits, Ten)[N] \in Nat
          BY <5>1, ValueGrows DEF N
        <5>3. QED
          BY <5>2 DEF k, N
      <4>3. QED
        BY <1>6, <4>2 DEF Numeral
    <3> DEFINE d == data * Ten + g
    <3>2. d > Max96 /\ d \in Nat /\ Max96 \in Nat /\ d <= Numeral(text)
      BY <1>1, <1>6, <3>1, BaseType
    <3> HIDE DEF d
    <3>3. QED
      BY <3>1, <3>2
  <2>3. ParsedRounded'
    BY <1>1, <1>8, <2>1, <2>2 DEF ParsedRounded
  <2>4. QED
    BY <1>4, <2>1, <2>3 DEF ParserInv, Running
<1>9. CASE seen.point /\ seen.round
  <2>1. ppc' = "round"
    BY <1>1, <1>9
  <2>2. Length' = Length
    BY <1>1 DEF Length
  <2>3. ReadPart'
    BY <1>1, <1>3, <2>2 DEF ReadPart
  <2>4. StagePart'
    BY <1>1, <1>3, <1>9, <2>1, <2>2 DEF StagePart
  <2>5. QED
    BY <1>4, <2>1, <2>3, <2>4, StillRunning DEF ParserInv, Running
<1>10. QED
  BY <1>7, <1>8, <1>9

LEMMA LookAheadStep == ASSUME ParserInv, LookAhead PROVE ParserInv'
<1>1. /\ ppc = "lookahead" /\ bytes # <<>>
      /\ bytes' = (IF Head(bytes) = Underscore THEN Tail(bytes) ELSE bytes)
      /\ ppc' = (IF Head(bytes) = Underscore THEN "lookahead" ELSE "round")
      /\ text' = text /\ seen' = seen /\ data' = data /\ places' = places /\ parsed' = parsed
  BY DEF LookAhead, At, byte
<1>2. ppc \in Running /\ ppc' \in Running
  BY <1>1 DEF Running
<1>3. /\ ParserTypeOK /\ StagePart /\ ReadPart /\ seen \in Seens /\ data \in Nat /\ places \in Nat /\ text \in Seq(0..Letter)
      /\ Understood(text, Length, seen, data, places) /\ Length \in 0..(Len(text) - 1)
      /\ Head(bytes) = text[Length + 1]
  BY <1>1, <1>2, BeforeByte
<1>4. seen.has /\ Length # 0
  BY <1>1, <1>3 DEF StagePart
<1>5. CASE Head(bytes) = Underscore
  <2>1. Understood(text, Length + 1, seen', data', places')
    BY <1>1, <1>3, <1>4, <1>5, OtherRead
  <2>2. bytes' = Tail(bytes) /\ ppc' = "lookahead"
    BY <1>1, <1>5
  <2>3. ParserTypeOK' /\ ReadPart' /\ Length' = Length + 1 /\ Length + 1 \in Nat \ {0}
    BY <1>1, <1>2, <1>3, <2>1, <2>2, ByteRead
  <2>4. StagePart'
    BY <1>1, <1>3, <2>2, <2>3 DEF StagePart
  <2>5. QED
    BY <1>2, <2>3, <2>4, StillRunning DEF ParserInv
<1>6. CASE Head(bytes) # Underscore
  <2>1. bytes' = bytes /\ ppc' = "round"
    BY <1>1, <1>6
  <2>2. Length' = Length
    BY <1>1, <2>1 DEF Length
  <2>3. ParserTypeOK'
    BY <1>1, <1>3, <2>1 DEF ParserTypeOK, Running
  <2>4. ReadPart'
    BY <1>1, <1>3, <2>1, <2>2 DEF ReadPart
  <2>5. StagePart'
    BY <1>1, <1>3, <1>4, <1>6, <2>1, <2>2 DEF StagePart
  <2>6. QED
    BY <1>2, <2>3, <2>4, <2>5, StillRunning DEF ParserInv
<1>7. QED
  BY <1>5, <1>6

LEMMA RoundStep == ASSUME ParserInv, MaybeRound PROVE ParserInv'
<1> DEFINE g == Head(bytes)
           digit == IF g \in Digits THEN g ELSE 0
           rounded == IF digit >= Half THEN data + 1 ELSE data
           refused == g \notin Digits \union {Underscore} /\ ~(g = Point /\ ~seen.point)
           n == Length
<1>1. /\ ppc = "round" /\ bytes # <<>>
      /\ IF refused THEN ppc' = "invalid" /\ data' = data /\ places' = places /\ parsed' = parsed
         ELSE IF rounded > Max96 /\ places = 0
         THEN ppc' = "overflow" /\ data' = rounded /\ places' = places /\ parsed' = parsed
         ELSE /\ data' = IF rounded > Max96 THEN (rounded + Half - 1) \div Ten ELSE rounded
              /\ places' = IF rounded > Max96 THEN places - 1 ELSE places
              /\ parsed' = FromParts(data', seen.neg, places')
              /\ ppc' = "parsed"
      /\ text' = text /\ bytes' = bytes /\ seen' = seen
  BY DEF MaybeRound, At, byte
<1>2. ppc \in Running
  BY <1>1 DEF Running
<1>3. /\ ParserTypeOK /\ StagePart /\ ReadPart /\ seen \in Seens /\ data \in Nat /\ places \in Nat /\ text \in Seq(0..Letter)
      /\ Understood(text, n, seen, data, places) /\ n \in 0..(Len(text) - 1)
      /\ g = text[n + 1] /\ Len(text) \in Nat /\ Len(text) <= PowLimit /\ parsed \in Decimal
  BY <1>1, <1>2, BeforeByte
<1>4. /\ seen.has /\ seen.point /\ seen.round /\ data <= Max96 /\ places <= MAX_SCALE /\ n # 0
      /\ \/ places = MAX_SCALE /\ text[n] \in Digits /\ data \div Ten < WILL_OVERFLOW_U64
         \/ g \in Digits /\ data * Ten + g > Max96
         \/ places = MAX_SCALE /\ g # Underscore
  BY <1>1, <1>3 DEF StagePart
<1>5. Max96 \in Nat /\ Half \in Nat /\ Half >= 1 /\ Ten \in Nat \ {0} /\ MAX_SCALE \in Nat /\ B3 \in Nat /\ Max96 = B3 - 1
  BY BaseType, BytesDiffer, ScaleAssumption
<1>6. CASE refused
  <2>1. ~WellFormed(text)
    <3>1. g \notin Digits /\ ~(g = Point /\ ~seen.point) /\ ~(g = Underscore /\ seen.has)
          /\ ~(g \in {Minus, Plus} /\ n = 0)
      BY <1>4, <1>6
    <3> HIDE DEF n, g
    <3>2. QED
      BY <1>3, <3>1, Refused
  <2>2. ppc' = "invalid" /\ data' = data /\ places' = places /\ parsed' = parsed
    BY <1>1, <1>6
  <2>3. ParserTypeOK'
    BY <1>1, <1>3, <2>2 DEF ParserTypeOK, Failed
  <2>4. ParsedRounded'
    BY <1>1, <2>1, <2>2 DEF ParsedRounded
  <2>5. QED
    BY <2>2, <2>3, <2>4 DEF ParserInv, Running
\* The digit decides.
<1>7. CASE g \in Digits
  <2>1. digit = g /\ ~refused
    BY <1>7
  <2> DEFINE Good(j, t) ==
                 \A sj \in Seens, v, f \in Nat :
                    Understood(text, j, sj, v, f) /\ Numeral(t) = v /\ Fraction(t) = f /\ t[1] = text[1] =>
                       /\ places < f /\ rounded \in Nat
                       /\ rounded <= Max96 => IsParseOf(FromParts(rounded, seen.neg, places), t)
                       /\ rounded > Max96 /\ places = 0 => HalfUp(v, POWERS[f]) > Max96
                       /\ rounded > Max96 /\ places # 0 =>
                             /\ (rounded + Half - 1) \div Ten \in Mantissa
                             /\ IsParseOf(FromParts((rounded + Half - 1) \div Ten, seen.neg, places - 1), t)
  <2>2. ASSUME NEW j \in (n + 1)..Len(text), NEW t \in Seq(0..Letter) PROVE Good(j, t)
    <3>1. SUFFICES ASSUME NEW sj \in Seens, NEW v \in Nat, NEW f \in Nat,
                          Understood(text, j, sj, v, f), Numeral(t) = v, Fraction(t) = f, t[1] = text[1]
                   PROVE  /\ places < f /\ rounded \in Nat
                          /\ rounded <= Max96 => IsParseOf(FromParts(rounded, seen.neg, places), t)
                          /\ rounded > Max96 /\ places = 0 => HalfUp(v, POWERS[f]) > Max96
                          /\ rounded > Max96 /\ places # 0 =>
                             /\ (rounded + Half - 1) \div Ten \in Mantissa
                             /\ IsParseOf(FromParts((rounded + Half - 1) \div Ten, seen.neg, places - 1), t)
      OBVIOUS
    <3> DEFINE r == IF Head(bytes) >= Half THEN data + 1 ELSE data
    <3>2. r = rounded
      BY <2>1
    <3>3. /\ places < f /\ r \in Nat
          /\ r <= Max96 => IsParseOf(FromParts(r, seen.neg, places), t)
          /\ r > Max96 /\ places = 0 => HalfUp(v, POWERS[f]) > Max96
          /\ r > Max96 /\ places # 0 =>
                /\ (r + Half - 1) \div Ten \in Mantissa
                /\ IsParseOf(FromParts((r + Half - 1) \div Ten, seen.neg, places - 1), t)
      BY <1>1, <1>7, <3>1, RoundsHere
    <3>4. QED
      BY <3>2, <3>3
  \* The digit itself is understood, and so is the whole text if it is well formed.
  <2> DEFINE head == SubSeq(text, 1, n + 1)
             now == [seen EXCEPT !.has = TRUE]
             m == data * Ten + g
  <2>3. /\ Understood(text, n + 1, now, m, places + 1) /\ now \in Seens /\ now.has
        /\ n + 1 \in 1..Len(text) /\ n + 1 \in 0..Len(text) /\ places + 1 \in Nat /\ m \in Nat
        /\ n + 1 \in (n + 1)..Len(text)
    <3>1. Understood(text, n + 1, now, data * Ten + text[n + 1], IF seen.point THEN places + 1 ELSE 0)
      <4> HIDE DEF n
      <4>1. QED
        BY <1>3, <1>7, DigitRead
    <3>2. now \in Seens /\ now.has
      BY <1>3 DEF Seens
    <3>3. m \in Nat
      <4>1. data * Ten \in Nat
        BY <1>3, BytesDiffer, \A u, z \in Nat : u * z \in Nat
      <4>2. g \in Nat
        BY <1>7, BytesDiffer
      <4>3. QED
        BY <4>1, <4>2
    <3>4. QED
      BY <1>3, <1>4, <3>1, <3>2, <3>3
  <2>4. /\ head \in Seq(0..Letter) /\ Numeral(head) = m /\ Fraction(head) = places + 1 /\ WellFormed(head)
        /\ head[1] = text[1]
    <3> DEFINE k == n + 1
               pk == places + 1
    <3>1. k \in 0..Len(text) /\ k >= 1 /\ Understood(text, k, now, m, pk) /\ now \in Seens /\ now.has /\ pk \in Nat
      BY <2>3
    <3> HIDE DEF k, pk, now, m
    <3>2. /\ SubSeq(text, 1, k) \in Seq(0..Letter) /\ Numeral(SubSeq(text, 1, k)) = m
          /\ Fraction(SubSeq(text, 1, k)) = pk /\ WellFormed(SubSeq(text, 1, k)) /\ SubSeq(text, 1, k)[1] = text[1]
      BY <1>3, <3>1, HeadSays
    <3>3. QED
      BY <3>2 DEF k, pk
  <2>5. /\ places < places + 1 /\ rounded \in Nat
        /\ rounded <= Max96 => IsParseOf(FromParts(rounded, seen.neg, places), head)
        /\ rounded > Max96 /\ places # 0 =>
               /\ (rounded + Half - 1) \div Ten \in Mantissa
               /\ IsParseOf(FromParts((rounded + Half - 1) \div Ten, seen.neg, places - 1), head)
    <3>1. Good(n + 1, head)
      BY <2>2, <2>3, <2>4
    <3> HIDE DEF head, now, m
    <3>2. QED
      BY <2>3, <2>4, <3>1
  <2>6. ASSUME WellFormed(text)
        PROVE  /\ rounded <= Max96 => IsParseOf(FromParts(rounded, seen.neg, places), text)
               /\ rounded > Max96 /\ places = 0 => HalfUp(Numeral(text), POWERS[Fraction(text)]) > Max96
               /\ rounded > Max96 /\ places # 0 =>
                      IsParseOf(FromParts((rounded + Half - 1) \div Ten, seen.neg, places - 1), text)
    <3>1. PICK sj \in Seens : Understood(text, Len(text), sj, Numeral(text), Fraction(text)) /\ Fraction(text) \in Nat
      BY <1>3, <2>6, WellFormedUnderstood
    <3>2. Numeral(text) \in Nat
      <4>1. text \in Seq(Nat) /\ Len(text) \in 0..Len(text)
        BY <1>3, BytesDiffer
      <4>2. ValueTo(text, Digits, Ten) \in [0..Len(text) -> Nat]
        BY <4>1, ValueSteps, BytesDiffer
      <4>3. QED
        BY <4>1, <4>2 DEF Numeral
    <3>3. Len(text) \in (n + 1)..Len(text)
      BY <1>3
    <3>4. Good(Len(text), text)
      BY <1>3, <2>2, <3>3
    <3> HIDE DEF rounded
    <3>5. QED
      BY <3>1, <3>2, <3>4
  <2> HIDE DEF Good
  <2>7. CASE rounded > Max96 /\ places = 0
    <3>1. ppc' = "overflow" /\ data' = rounded /\ places' = places /\ parsed' = parsed
      BY <1>1, <2>1, <2>7
    <3>2. ParserTypeOK'
      BY <1>1, <1>3, <2>5, <3>1 DEF ParserTypeOK, Failed
    <3> HIDE DEF rounded
    <3>3. ParsedRounded'
      BY <1>1, <2>6, <2>7, <3>1 DEF ParsedRounded
    <3>4. QED
      BY <3>1, <3>2, <3>3 DEF ParserInv, Running
  <2>8. CASE ~(rounded > Max96 /\ places = 0)
    <3> DEFINE d == IF rounded > Max96 THEN (rounded + Half - 1) \div Ten ELSE rounded
               p == IF rounded > Max96 THEN places - 1 ELSE places
    <3>1. data' = d /\ places' = p /\ parsed' = FromParts(d, seen.neg, p) /\ ppc' = "parsed"
      BY <1>1, <2>1, <2>8
    <3>2. /\ d \in Mantissa /\ p \in 0..MAX_SCALE /\ p < places + 1
          /\ IsParseOf(FromParts(d, seen.neg, p), head)
          /\ WellFormed(text) => IsParseOf(FromParts(d, seen.neg, p), text)
      <4> HIDE DEF rounded, head
      <4>1. CASE rounded > Max96
        <5>1. d = (rounded + Half - 1) \div Ten /\ p = places - 1 /\ places # 0
          BY <2>8, <4>1
        <5>2. p \in 0..MAX_SCALE /\ p < places + 1
          BY <1>3, <1>4, <1>5, <5>1
        <5> HIDE DEF d, p
        <5>3. QED
          BY <2>5, <2>6, <4>1, <5>1, <5>2
      <4>2. CASE ~(rounded > Max96)
        <5>1. d = rounded /\ p = places /\ rounded <= Max96
          BY <1>5, <2>5, <4>2
        <5>2. p \in 0..MAX_SCALE /\ p < places + 1 /\ d \in Mantissa
          BY <1>3, <1>4, <1>5, <2>5, <5>1 DEF Mantissa
        <5> HIDE DEF d, p
        <5>3. QED
          BY <2>5, <2>6, <5>1, <5>2
      <4>3. QED
        BY <4>1, <4>2
    <3> HIDE DEF d, p, rounded
    <3>3. parsed' \in Decimal /\ data' \in Nat /\ places' \in Nat
      <4>1. seen.neg \in BOOLEAN
        BY <1>3 DEF Seens
      <4>2. FromParts(d, seen.neg, p) \in Decimal
        BY <3>2, <4>1, FromPartsType
      <4>3. QED
        BY <1>5, <3>1, <3>2, <4>2 DEF Mantissa
    <3>4. ParserTypeOK'
      BY <1>1, <1>3, <3>1, <3>3 DEF ParserTypeOK
    <3>5. ParsedRounded'
      <4>1. CASE WellFormed(text)
        <5>1. ppc' = "parsed" /\ WellFormed(text') /\ IsParseOf(parsed', text') /\ seen'.round
          BY <1>1, <1>4, <3>1, <3>2, <4>1
        <5>2. QED
          BY <5>1 DEF ParsedRounded
      <4>2. CASE ~WellFormed(text)
        <5>1. n + 1 \in 1..(Len(text) - 1)
          <6>1. n + 1 # Len(text)
            <7>1. SubSeq(text, 1, Len(text)) = text
              BY <1>3, WholeHead
            <7>2. QED
              BY <2>4, <4>2, <7>1
          <6>2. QED
            BY <1>3, <2>3, <6>1
        <5>2. parsed'.s = p
          BY <3>1 DEF FromParts
        <5>3. /\ WellFormed(head) /\ IsParseOf(parsed', head) /\ parsed'.s < Fraction(head)
          BY <2>4, <3>1, <3>2, <5>2
        <5>4. \E k \in 1..(Len(text) - 1) :
                 /\ WellFormed(SubSeq(text, 1, k)) /\ IsParseOf(parsed', SubSeq(text, 1, k))
                 /\ parsed'.s < Fraction(SubSeq(text, 1, k))
          BY <5>1, <5>3
        <5>5. QED
          BY <1>1, <3>1, <4>2, <5>4 DEF ParsedRounded
      <4>3. QED
        BY <4>1, <4>2
    <3>6. QED
      BY <3>1, <3>4, <3>5 DEF ParserInv, Running
  <2>9. QED
    BY <2>7, <2>8
\* In 64 bits a separator counts as the digit 0.
<1>8. CASE g \notin Digits /\ ~refused
  <2>1. g = Underscore
    BY <1>4, <1>8
  <2>2. digit = 0 /\ rounded = data /\ ~(rounded > Max96)
    BY <1>3, <1>4, <1>5, <1>8
  <2>3. data' = data /\ places' = places /\ parsed' = FromParts(data, seen.neg, places) /\ ppc' = "parsed"
    BY <1>1, <1>8, <2>2
  <2>4. places = MAX_SCALE /\ text[n] \in Digits /\ data \div Ten < WILL_OVERFLOW_U64
    BY <1>4, <1>8, <2>1
  <2> DEFINE head == SubSeq(text, 1, n)
  <2>5. /\ n \in 1..(Len(text) - 1) /\ Numeral(head) = data /\ Fraction(head) = places /\ WellFormed(head)
        /\ head[1] = text[1]
    <3>1. n \in 1..(Len(text) - 1) /\ n \in 0..Len(text) /\ n >= 1
      BY <1>3, <1>4
    <3> HIDE DEF n
    <3>2. QED
      BY <1>3, <1>4, <3>1, HeadSays
  <2>6. SeparatorRounds(text)
    <3>1. text[n + 1] = Underscore
      BY <1>3, <2>1
    <3> HIDE DEF n
    <3>2. QED
      BY <2>4, <2>5, <3>1 DEF SeparatorRounds
  <2>7. data \in Mantissa /\ places \in 0..MAX_SCALE /\ seen.neg \in BOOLEAN
    BY <1>3, <1>4, <1>5 DEF Mantissa, Seens
  <2>8. ParserTypeOK'
    <3>1. parsed' \in Decimal
      BY <2>3, <2>7, FromPartsType
    <3>2. QED
      BY <1>1, <1>3, <2>3, <3>1 DEF ParserTypeOK
  <2>9. IsParseOf(parsed', head)
    <3>1. parsed'.m = data /\ parsed'.s = places /\ (parsed'.neg = (seen.neg /\ data # 0))
      BY <2>3 DEF FromParts
    <3>2. seen.neg <=> text[1] = Minus
      BY <1>3, <1>4 DEF Understood
    <3>3. places - places = 0 /\ POWERS[0] = 1 /\ HalfUp(data, 1) = data
      BY <1>3, PowersAssumption, HalfUpWhole
    <3>4. places <= SmallerOf(places, MAX_SCALE) /\ ~(places < SmallerOf(places, MAX_SCALE))
      BY <2>7, <1>5 DEF SmallerOf
    <3> HIDE DEF head
    <3>5. QED
      BY <2>5, <3>1, <3>2, <3>3, <3>4 DEF IsParseOf
  <2>10. ParsedRounded'
    <3>1. \E k \in 1..(Len(text) - 1) :
             WellFormed(SubSeq(text, 1, k)) /\ IsParseOf(parsed', SubSeq(text, 1, k))
      BY <2>5, <2>9
    <3>2. QED
      BY <1>1, <1>4, <2>3, <2>6, <3>1 DEF ParsedRounded
  <2>11. QED
    BY <2>3, <2>8, <2>10 DEF ParserInv, Running
<1>9. QED
  BY <1>6, <1>7, <1>8

LEMMA ParserKept == ParserInv /\ [ParserNext]_tvars => ParserInv'
<1> SUFFICES ASSUME ParserInv, [ParserNext]_tvars PROVE ParserInv'
  OBVIOUS
<1>1. CASE UNCHANGED tvars
  BY <1>1 DEF tvars, ParserInv, ParserTypeOK, ReadPart, StagePart, ParsedRounded, Length
<1>2. CASE ParserNext
  BY <1>2, EndStep, SignStep, Digit64Step, PointStep, SeparatorStep, InvalidStep, Digit128Step, Full128Step,
     LookAheadStep, RoundStep DEF ParserNext
<1>3. QED
  BY <1>1, <1>2

\* What the parser knows after each byte holds whenever it looks at the next.
THEOREM ParserInvariant == ParserSpec => []ParserInv
  BY ParserStarts, ParserKept, PTL DEF ParserSpec

\* Every text is parsed to the number it says, rounded once, or refused for a reason.
THEOREM TextsParsed == ParserSpec => []ParsedRounded
<1>1. ParserInv => ParsedRounded
  BY DEF ParserInv
<1>2. QED
  BY <1>1, ParserInvariant, PTL

-----------------------------------------------------------------------------
(* An exponent behind the number *)

FromBase == text = BasePart(whole) /\ ExponentsIn(whole) # {} /\ seen.round

ScientificTypeOK ==
    /\ whole \in Seq(0..Letter) /\ Len(whole) <= PowLimit
    /\ lossy \in BOOLEAN /\ ret \in Decimal /\ due \in 0..MAX_SCALE
    /\ spc \in {"visit", "visiting", "split", "base", "multiply", "done", "failed", "exceeds", "scale_exceeds"}

\* What the parser has been given.
GivenPart ==
    /\ ppc = "idle" \/ ParserInv
    /\ spc \in {"visiting", "base"} => ppc # "idle"
    /\ spc = "visiting" => text = whole
    /\ spc = "base" => FromBase

\* The number is what was read times the powers that have been multiplied in, and divided
\* by those its scale has lost; a zero loses its scale with the first of them.
MultiplyPart ==
    spc = "multiply" =>
        LET n == (Size - due) - (parsed.s - ret.s)
        IN  /\ FromBase /\ ppc = "parsed"
            /\ IsU32(Unsigned(Part)) /\ ~Negative(Part)
            /\ parsed.s < Size /\ Size <= MAX_SCALE /\ due <= Size /\ ret.s <= parsed.s
            /\ parsed.m = 0 => ret.m = 0 /\ (due < Size => ret.s = 0)
            /\ parsed.m # 0 => ret.neg = parsed.neg /\ n >= 0 /\ ret.m = parsed.m * POWERS[n]

ScientificInv == ScientificTypeOK /\ GivenPart /\ MultiplyPart /\ ScientificRounded

\* Zeros are dropped exactly.
LEMMA ZerosDropped ==
    ASSUME NEW m \in Nat, NEW k \in 0..PowLimit, NEW i \in 0..k
    PROVE  HalfEven(m * POWERS[k], POWERS[i]) = m * POWERS[k - i] /\ m * POWERS[k - i] \in Nat
<1>1. k - i \in 0..PowLimit /\ i \in 0..PowLimit /\ (k - i) + i = k
  BY ScaleAssumption
<1>2. POWERS[k] = POWERS[k - i] * POWERS[i]
  BY <1>1, PowersAdd, ScaleAssumption
<1>3. POWERS[k - i] \in Nat /\ POWERS[i] \in Nat \ {0}
  BY <1>1, PowersType
<1> DEFINE a == POWERS[k - i]
           p == POWERS[i]
           v == m * POWERS[k]
           q == m * a
<1>4. v = q * p /\ q \in Nat /\ v \in Nat
  <2>1. a \in Nat /\ p \in Nat /\ v = m * (a * p)
    BY <1>2, <1>3
  <2> HIDE DEF a, p, v
  <2>2. m * (a * p) = (m * a) * p /\ m * a \in Nat /\ (m * a) * p \in Nat
    BY <2>1, MulAssoc, \A x, y \in Nat : x * y \in Nat
  <2>3. QED
    BY <2>1, <2>2
<1>5. p \in Nat \ {0}
  BY <1>3
<1> HIDE DEF p, v, q
<1>6. v \div p = q /\ v % p = 0
  BY <1>4, <1>5, QuotientUnique, v = q * p + 0
<1>7. HalfEven(v, p) = q
  BY <1>5, <1>6 DEF HalfEven
<1>8. QED
  BY <1>4, <1>7 DEF p, v, q

\* A product with a power has a mantissa that is larger by what the scale does not take,
\* or none at all.
LEMMA ProductWithPower ==
    ASSUME NEW m \in Mantissa, NEW s \in 0..MAX_SCALE, NEW k \in 0..MAX_SCALE
    PROVE  LET v == m * POWERS[k]
               p == Rounded(v, s)
           IN  IF Fits(v, s)
               THEN /\ p.s \in 0..s /\ s - p.s <= k
                    /\ p.m = m * POWERS[k - (s - p.s)] /\ p.m \in Mantissa
               ELSE k > s /\ m * POWERS[k - s] > Max96
<1> DEFINE v == m * POWERS[k]
           F == FittingScales(v, s)
<1>1. m \in Nat /\ m <= Max96 /\ Max96 \in Nat /\ MAX_SCALE \in Nat /\ PowLimit \in Nat /\ MAX_SCALE <= PowLimit
      /\ s \in Nat /\ k \in Nat /\ k \in 0..PowLimit
  BY BaseType, ScaleAssumption DEF Mantissa
<1>2. SmallerOf(s, MAX_SCALE) = s
  BY <1>1 DEF SmallerOf
<1>3. F = {t \in 0..s : HalfEven(v, POWERS[s - t]) <= Max96}
  BY <1>2 DEF FittingScales
<1>4. ASSUME NEW t \in 0..s, s - t <= k
      PROVE  HalfEven(v, POWERS[s - t]) = m * POWERS[k - (s - t)] /\ m * POWERS[k - (s - t)] \in Nat
  <2>1. s - t \in 0..k
    BY <1>1, <1>4
  <2>2. QED
    BY <1>1, <2>1, ZerosDropped
<1>5. k <= s => s - k \in F
  <2>1. SUFFICES ASSUME k <= s PROVE s - k \in F
    OBVIOUS
  <2>2. s - k \in 0..s /\ s - (s - k) = k /\ k - k = 0 /\ m * POWERS[0] = m
    BY <1>1, <2>1, PowersAssumption
  <2>3. HalfEven(v, POWERS[s - (s - k)]) = m
    <3>1. s - (s - k) <= k
      BY <1>1, <2>2
    <3>2. HalfEven(v, POWERS[s - (s - k)]) = m * POWERS[k - (s - (s - k))]
      BY <1>4, <2>2, <3>1
    <3>3. k - (s - (s - k)) = 0
      BY <1>1, <2>2
    <3> HIDE DEF v
    <3>4. QED
      BY <2>2, <3>2, <3>3
  <2> HIDE DEF v, F
  <2>4. QED
    BY <1>1, <1>3, <2>2, <2>3
<1>6. CASE F = {}
  <2>1. ~(k <= s)
    BY <1>5, <1>6
  <2>2. 0 \in 0..s /\ s - 0 = s /\ s <= k /\ k > s
    BY <1>1, <2>1
  <2>3. HalfEven(v, POWERS[s]) = m * POWERS[k - s] /\ m * POWERS[k - s] \in Nat
    BY <1>4, <2>2
  <2> HIDE DEF v
  <2>4. ~(HalfEven(v, POWERS[s - 0]) <= Max96)
    BY <1>3, <1>6, <2>2
  <2>5. m * POWERS[k - s] > Max96
    BY <1>1, <2>2, <2>3, <2>4
  <2>6. ~Fits(v, s)
    BY <1>6 DEF Fits
  <2>7. QED
    BY <2>2, <2>5, <2>6 DEF v
<1>7. CASE F # {}
  <2>1. F \subseteq 0..s
    BY <1>3
  <2> HIDE DEF v
  <2>2. \E t \in F : \A u \in F : u <= t
    BY <1>1, <1>7, <2>1, GreatestOf
  <2> DEFINE t == CHOOSE t \in F : \A u \in F : u <= t
  <2>3. t \in F /\ \A u \in F : u <= t
    BY <2>2
  <2>4. Rounded(v, s) = [m |-> HalfEven(v, POWERS[s - t]), s |-> t]
    BY DEF Rounded
  <2> HIDE DEF t, F
  <2>5. t \in 0..s /\ HalfEven(v, POWERS[s - t]) <= Max96
    BY <1>3, <2>3
  <2>6. s - t <= k
    <3>1. CASE k <= s
      <4>1. s - k <= t
        BY <1>5, <2>3, <3>1
      <4>2. QED
        BY <1>1, <2>5, <4>1
    <3>2. CASE ~(k <= s)
      BY <1>1, <2>5, <3>2
    <3>3. QED
      BY <3>1, <3>2
  <2>7. HalfEven(v, POWERS[s - t]) = m * POWERS[k - (s - t)] /\ m * POWERS[k - (s - t)] \in Nat
    BY <1>4, <2>5, <2>6
  <2>8. Fits(v, s)
    BY <1>7 DEF Fits, F
  <2>9. m * POWERS[k - (s - t)] \in Mantissa
    BY <1>1, <2>5, <2>7 DEF Mantissa
  <2>10. Rounded(v, s).s = t /\ Rounded(v, s).m = m * POWERS[k - (s - t)]
    BY <2>4, <2>7
  <2>11. QED
    BY <2>5, <2>6, <2>8, <2>9, <2>10 DEF v
<1>8. QED
  BY <1>6, <1>7

\* Where the exponent starts.
LEMMA SplitText ==
    ASSUME NEW w \in Seq(0..Letter), Len(w) <= PowLimit, ExponentsIn(w) # {}
    PROVE  /\ FirstExponent(w) \in DOMAIN w
           /\ BasePart(w) \in Seq(0..Letter) /\ Len(BasePart(w)) < Len(w) /\ Len(BasePart(w)) <= PowLimit
           /\ BasePart(w) # w
           /\ ExponentPart(w) \in Seq(0..Letter)
<1>1. ExponentsIn(w) \subseteq Nat /\ ExponentsIn(w) \subseteq 1..Len(w) /\ Len(w) \in Nat /\ PowLimit \in Nat
  BY ScaleAssumption DEF ExponentsIn
<1>2. \E i \in ExponentsIn(w) : \A j \in ExponentsIn(w) : i <= j
  BY <1>1, LeastOf
<1>3. FirstExponent(w) \in 1..Len(w)
  BY <1>1, <1>2 DEF FirstExponent
<1> DEFINE f == FirstExponent(w)
<1>4. f \in 1..Len(w)
  BY <1>3
<1> HIDE DEF f
<1>5. /\ SubSeq(w, 1, f - 1) \in Seq(0..Letter) /\ Len(SubSeq(w, 1, f - 1)) = f - 1
      /\ SubSeq(w, f + 1, Len(w)) \in Seq(0..Letter)
  <2>1. \A i \in 1..Len(w) : w[i] \in 0..Letter
    BY ElementsOf
  <2>2. f - 1 \in Int /\ f + 1 \in Int /\ f - 1 < Len(w) /\ Len(w) \in Int /\ 1 \in Int
    BY <1>1, <1>4
  <2>3. (\A i \in 1..(f - 1) : w[i] \in 0..Letter) /\ (\A i \in (f + 1)..Len(w) : w[i] \in 0..Letter)
    BY <1>1, <1>4, <2>1
  <2>4. SubSeq(w, f + 1, Len(w)) \in Seq(0..Letter)
    BY <2>2, <2>3, SubSeqProperties
  <2>5. SubSeq(w, 1, f - 1) \in Seq(0..Letter) /\ Len(SubSeq(w, 1, f - 1)) = IF 1 <= f - 1 THEN (f - 1) - 1 + 1 ELSE 0
    BY <2>2, <2>3, SubSeqProperties
  <2>6. (IF 1 <= f - 1 THEN (f - 1) - 1 + 1 ELSE 0) = f - 1
    BY <1>1, <1>4
  <2>7. QED
    BY <2>4, <2>5, <2>6
<1>6. BasePart(w) \in Seq(0..Letter) /\ Len(BasePart(w)) = f - 1 /\ ExponentPart(w) \in Seq(0..Letter)
  BY <1>5 DEF f, BasePart, ExponentPart
<1>7. Len(BasePart(w)) < Len(w) /\ Len(BasePart(w)) <= PowLimit
  BY <1>1, <1>4, <1>6
<1>8. BasePart(w) # w
  BY <1>1, <1>7
<1>9. QED
  BY <1>1, <1>3, <1>6, <1>7, <1>8

\* The exponent is a number.
LEMMA SizeType ==
    ASSUME whole \in Seq(0..Letter), Len(whole) <= PowLimit, ExponentsIn(whole) # {}
    PROVE  Size \in Nat
<1> DEFINE e == ExponentPart(whole)
<1>1. e \in Seq(0..Letter)
  BY SplitText
<1> HIDE DEF e
<1>2. e \in Seq(Nat) /\ Ten \in Nat /\ Len(e) \in Nat /\ Len(e) \in 0..Len(e)
  BY <1>1, BytesDiffer
<1>3. ValueTo(e, Digits, Ten)[Len(e)] \in Nat
  BY <1>2, ValueSteps
<1>4. Size = Numeral(e)
  BY DEF Size, Part, e
<1>5. QED
  BY <1>3, <1>4 DEF Numeral

\* Whatever is given to the parser, it starts.
LEMMA ParserCalled ==
    ASSUME NEW t \in Seq(0..Letter), Len(t) <= PowLimit, ParseCall(t, TRUE)
    PROVE  ParserInv' /\ text' = t /\ seen'.round /\ ppc' = "first"
<1>1. ParserInit'
  BY DEF ParserInit, ParseStart, ParseCall
<1>2. ParserInit' => ParserInv'
  BY ParserStarts, PTL
<1>3. text' = t /\ seen'.round /\ ppc' = "first"
  BY DEF ParseCall, Fresh
<1>4. QED
  BY <1>1, <1>2, <1>3

\* What the parser does not change.
LEMMA ParserLeaves ==
    ASSUME ParserInv, ParserNext
    PROVE  ParserInv' /\ text' = text /\ (seen'.round <=> seen.round) /\ ppc' # "idle"
<1>1. ParserInv'
  BY ParserKept
<1>2. seen \in Seens /\ text' = text
  BY DEF ParserInv, ParserTypeOK, ParserNext, End, Sign, Digit64, PointSeen, Separator, Invalid, Digit128, Full128, LookAhead, MaybeRound
<1>3. seen'.round <=> seen.round
  BY <1>2 DEF Seens, ParserNext, End, Sign, Digit64, PointSeen, Separator, Invalid, Digit128, Full128, LookAhead, MaybeRound
<1>4. ppc' # "idle"
  BY <1>1 DEF ParserInv, ParserTypeOK, Running, Failed
<1>5. QED
  BY <1>1, <1>2, <1>3, <1>4

\* Nothing but the position is asked of the states that return nothing.
LEMMA ScientificWaits ==
    ASSUME spc' \notin {"done", "exceeds", "scale_exceeds", "failed", "multiply"}
    PROVE  ScientificRounded' /\ MultiplyPart'
  BY DEF ScientificRounded, MultiplyPart

LEMMA ScientificStarts == ScientificInit => ScientificInv
<1> SUFFICES ASSUME ScientificInit PROVE ScientificInv
  OBVIOUS
<1>1. /\ whole \in Seq(0..Letter) /\ Len(whole) <= PowLimit /\ lossy \in BOOLEAN /\ ret = ZERO /\ due = 0
      /\ spc \in {"split", "visit"} /\ ppc = "idle"
  BY DEF ScientificInit, ScientificStart, ParserIdle
<1>2. ScientificTypeOK
  BY <1>1, ZeroType, ScaleAssumption DEF ScientificTypeOK
<1>3. GivenPart /\ MultiplyPart /\ ScientificRounded
  BY <1>1 DEF GivenPart, MultiplyPart, ScientificRounded
<1>4. QED
  BY <1>2, <1>3 DEF ScientificInv

LEMMA VisitStep == ASSUME ScientificInv, Visit PROVE ScientificInv'
<1>1. ParserInv' /\ text' = whole /\ ppc' = "first" /\ spc' = "visiting"
  BY ParserCalled DEF ScientificInv, ScientificTypeOK, Visit
<1>2. ScientificTypeOK'
  BY <1>1 DEF ScientificInv, ScientificTypeOK, Visit
<1>3. GivenPart'
  BY <1>1 DEF GivenPart, Visit
<1>4. ScientificRounded' /\ MultiplyPart'
  BY <1>1, ScientificWaits
<1>5. QED
  BY <1>2, <1>3, <1>4 DEF ScientificInv

LEMMA VisitReturnStep == ASSUME ScientificInv, VisitReturn PROVE ScientificInv'
<1>1. /\ spc' = "done" /\ ppc' = "parsed" /\ text' = whole' /\ ret' = parsed /\ parsed \in Decimal
  BY DEF ScientificInv, GivenPart, VisitReturn, tvars, ParserInv, ParserTypeOK
<1>2. ScientificTypeOK'
  BY <1>1 DEF ScientificInv, ScientificTypeOK, VisitReturn, tvars
<1>3. ParserInv'
  BY DEF ScientificInv, GivenPart, VisitReturn, tvars, ParserInv, ParserTypeOK, ReadPart, StagePart, ParsedRounded, Length
<1>4. GivenPart' /\ MultiplyPart' /\ ScientificRounded'
  BY <1>1, <1>3 DEF GivenPart, MultiplyPart, ScientificRounded
<1>5. QED
  BY <1>2, <1>4 DEF ScientificInv

\* As long as the parser is left alone.
LEMMA ParserAlone == ASSUME ppc = "idle" \/ ParserInv, UNCHANGED tvars PROVE ppc' = "idle" \/ ParserInv'
  BY DEF tvars, ParserInv, ParserTypeOK, ReadPart, StagePart, ParsedRounded, Length

LEMMA VisitElseStep == ASSUME ScientificInv, VisitElse PROVE ScientificInv'
<1>1. ScientificTypeOK'
  BY DEF ScientificInv, ScientificTypeOK, VisitElse
<1>2. GivenPart'
  BY ParserAlone DEF ScientificInv, GivenPart, VisitElse
<1>3. ScientificRounded' /\ MultiplyPart'
  BY ScientificWaits DEF VisitElse
<1>4. QED
  BY <1>1, <1>2, <1>3 DEF ScientificInv

LEMMA SplitStep == ASSUME ScientificInv, Split PROVE ScientificInv'
<1>1. BasePart(whole) \in Seq(0..Letter) /\ Len(BasePart(whole)) <= PowLimit /\ ExponentsIn(whole) # {}
  BY SplitText DEF ScientificInv, ScientificTypeOK, Split
<1>2. ParserInv' /\ text' = BasePart(whole) /\ seen'.round /\ ppc' = "first" /\ spc' = "base" /\ whole' = whole
  BY <1>1, ParserCalled DEF Split
<1>3. ScientificTypeOK'
  BY <1>2 DEF ScientificInv, ScientificTypeOK, Split
<1>4. GivenPart'
  BY <1>1, <1>2 DEF GivenPart, FromBase
<1>5. ScientificRounded' /\ MultiplyPart'
  BY <1>2, ScientificWaits
<1>6. QED
  BY <1>3, <1>4, <1>5 DEF ScientificInv

LEMMA NoExponentStep == ASSUME ScientificInv, NoExponent PROVE ScientificInv'
<1>1. spc' = "failed" /\ ExponentsIn(whole') = {} /\ whole' = whole
  BY DEF NoExponent
<1>2. ScientificTypeOK'
  BY DEF ScientificInv, ScientificTypeOK, NoExponent
<1>3. GivenPart'
  BY <1>1, ParserAlone DEF ScientificInv, GivenPart, NoExponent
<1>4. ScientificRounded' /\ MultiplyPart'
  BY <1>1 DEF ScientificRounded, MultiplyPart, IsScientific
<1>5. QED
  BY <1>2, <1>3, <1>4 DEF ScientificInv

LEMMA ReadingStep == ASSUME ScientificInv, Reading PROVE ScientificInv'
<1>1. ParserInv
  BY DEF ScientificInv, GivenPart, Reading
<1>2. ParserInv' /\ text' = text /\ (seen'.round <=> seen.round) /\ ppc' # "idle"
  BY <1>1, ParserLeaves DEF Reading
<1>3. spc' = spc /\ whole' = whole /\ spc' \in {"visiting", "base"}
  BY DEF Reading, svars
<1>4. ScientificTypeOK'
  BY DEF ScientificInv, ScientificTypeOK, Reading, svars
<1>5. GivenPart'
  BY <1>2, <1>3 DEF ScientificInv, GivenPart, FromBase
<1>6. ScientificRounded' /\ MultiplyPart'
  BY <1>3, ScientificWaits
<1>7. QED
  BY <1>4, <1>5, <1>6 DEF ScientificInv

LEMMA BaseFailedStep == ASSUME ScientificInv, BaseFailed PROVE ScientificInv'
<1>1. spc' = "failed" /\ whole' = whole /\ text' = text /\ ppc' = ppc /\ ParserInv
  BY DEF ScientificInv, GivenPart, BaseFailed, tvars, Failed
<1>2. ScientificTypeOK'
  BY DEF ScientificInv, ScientificTypeOK, BaseFailed
<1>3. GivenPart'
  BY <1>1, ParserAlone DEF ScientificInv, GivenPart, BaseFailed
<1>4. text = BasePart(whole) /\ seen.round
  BY DEF ScientificInv, GivenPart, FromBase, BaseFailed
<1>5. ppc' \in Failed => ~IsScientific(whole) \/ ppc' = "overflow"
  BY <1>1, <1>4 DEF ParserInv, ParsedRounded, IsScientific, Failed
<1>6. ppc' \notin Failed => ~IsScientific(whole)
  BY <1>1 DEF BaseFailed, IsScientific, Part
<1>7. IsScientific(whole)' => IsScientific(whole)
  BY <1>1 DEF IsScientific
<1>8. ScientificRounded' /\ MultiplyPart'
  BY <1>1, <1>5, <1>6, <1>7 DEF ScientificRounded, MultiplyPart
<1>9. QED
  BY <1>2, <1>3, <1>8 DEF ScientificInv

\* What is known when an exponent is to be applied.
LEMMA BaseFacts ==
    ASSUME ScientificInv, NEW negative \in BOOLEAN, BaseRead(negative)
    PROVE  /\ parsed \in Decimal /\ Size \in Nat /\ FromBase /\ ppc = "parsed" /\ ParserInv
           /\ IsU32(Unsigned(Part)) /\ (Negative(Part) <=> negative)
           /\ parsed.m \in Mantissa /\ parsed.m \in Nat /\ parsed.s \in 0..MAX_SCALE /\ parsed.s \in Nat
           /\ parsed.neg \in BOOLEAN /\ MAX_SCALE \in Nat
           /\ parsed = [neg |-> parsed.neg, m |-> parsed.m, s |-> parsed.s]
           /\ text # whole
<1>1. ppc = "parsed" /\ IsU32(Unsigned(Part)) /\ (Negative(Part) <=> negative) /\ spc = "base"
  BY DEF BaseRead
<1>2. FromBase /\ ParserInv
  BY <1>1 DEF ScientificInv, GivenPart
<1>3. parsed \in Decimal
  BY <1>2 DEF ParserInv, ParserTypeOK
<1>4. Size \in Nat
  BY <1>2, SizeType DEF FromBase, ScientificInv, ScientificTypeOK
<1>5. parsed.m \in Mantissa /\ parsed.m \in Nat /\ parsed.s \in 0..MAX_SCALE /\ parsed.neg \in BOOLEAN /\ MAX_SCALE \in Nat
      /\ parsed.s \in Nat
  BY <1>3, ScaleAssumption, BaseType DEF Decimal, Mantissa
<1>6. parsed = [neg |-> parsed.neg, m |-> parsed.m, s |-> parsed.s]
  BY <1>3 DEF Decimal
<1>7. text # whole
  BY <1>2, SplitText DEF FromBase, ScientificInv, ScientificTypeOK
<1>8. QED
  BY <1>1, <1>2, <1>3, <1>4, <1>5, <1>6, <1>7

\* The exponent stays what it is.
LEMMA ExponentKept ==
    ASSUME UNCHANGED <<tvars, whole, lossy>>
    PROVE  /\ Part' = Part /\ Size' = Size /\ (Negative(Part)' <=> Negative(Part))
           /\ (IsU32(Unsigned(Part))' <=> IsU32(Unsigned(Part)))
           /\ parsed' = parsed /\ text' = text /\ whole' = whole /\ (lossy' <=> lossy) /\ ppc' = ppc
           /\ (FromBase' <=> FromBase)
<1>1. whole' = whole /\ parsed' = parsed /\ text' = text /\ (lossy' <=> lossy) /\ ppc' = ppc /\ seen' = seen
  BY DEF tvars
<1>2. Part' = Part
  BY <1>1 DEF Part, ExponentPart, FirstExponent, ExponentsIn
<1>3. Size' = Size
  BY <1>2 DEF Size
<1>4. (Negative(Part)' <=> Negative(Part)) /\ (IsU32(Unsigned(Part))' <=> IsU32(Unsigned(Part)))
  BY <1>2
<1>5. FromBase' <=> FromBase
  BY <1>1 DEF FromBase, BasePart, FirstExponent, ExponentsIn
<1>6. QED
  BY <1>1, <1>2, <1>3, <1>4, <1>5

\* The exponent applied: what ScientificRounded asks of the end.
Applied ==
    LET s == IF Negative(Part) THEN parsed.s + Size ELSE parsed.s - Size
    IN  /\ ret.m # 0 => ret.neg = parsed.neg
        /\ IF s < 0 THEN ret.m = parsed.m * POWERS[-s] /\ ret.s = 0
           ELSE IF s <= MAX_SCALE THEN ret.m = parsed.m /\ ret.s = s
           ELSE lossy /\ ret.m = HalfUp(parsed.m, POWERS[s - MAX_SCALE]) /\ ret.s = MAX_SCALE

\* The number in front of the exponent, and the whole when all of that was read.
Meant ==
    IsScientific(whole) /\ ~SeparatorRounds(text) =>
        /\ IsParseOf(parsed, BasePart(whole))
        /\ ~lossy /\ parsed.s = Fraction(BasePart(whole)) => IsScientificOf

LEMMA AppliedSays == FromBase /\ ppc = "parsed" /\ ParserInv /\ ScientificTypeOK /\ Applied => Meant
<1> SUFFICES ASSUME FromBase, ppc = "parsed", ParserInv, ScientificTypeOK, Applied,
                    IsScientific(whole), ~SeparatorRounds(text)
             PROVE  /\ IsParseOf(parsed, BasePart(whole))
                    /\ ~lossy /\ parsed.s = Fraction(BasePart(whole)) => IsScientificOf
  BY DEF Meant
<1> DEFINE f == Fraction(BasePart(whole))
           n == Numeral(BasePart(whole))
<1>1. text = BasePart(whole) /\ ExponentsIn(whole) # {}
  BY DEF FromBase
<1>2. IsParseOf(parsed, BasePart(whole))
  BY <1>1 DEF ParserInv, ParsedRounded, IsScientific
<1>3. SUFFICES ASSUME ~lossy, parsed.s = f PROVE IsScientificOf
  BY <1>2
<1>4. parsed.s \in Nat /\ Size \in Nat /\ MAX_SCALE \in Nat
  BY <1>1, SizeType, ScaleAssumption DEF ParserInv, ParserTypeOK, Decimal, ScientificTypeOK
<1>5. n \in Nat
  <2>1. BasePart(whole) \in Seq(0..Letter)
    BY <1>1, SplitText DEF ScientificTypeOK
  <2> DEFINE b == BasePart(whole)
  <2> HIDE DEF b
  <2>2. b \in Seq(Nat) /\ Ten \in Nat /\ Len(b) \in 0..Len(b)
    BY <2>1, BytesDiffer DEF b
  <2>3. ValueTo(b, Digits, Ten)[Len(b)] \in Nat
    BY <2>2, ValueSteps
  <2>4. QED
    BY <2>3 DEF Numeral, b
<1>6. parsed.m = n
  <2>1. parsed.m = HalfUp(n, POWERS[f - parsed.s])
    BY <1>2 DEF IsParseOf
  <2> HIDE DEF n
  <2>2. f - parsed.s = 0
    <3> HIDE DEF f
    <3>1. QED
      BY <1>3, <1>4
  <2>3. QED
    BY <1>5, <2>1, <2>2, PowersAssumption, HalfUpWhole
<1> DEFINE s == IF Negative(Part) THEN parsed.s + Size ELSE parsed.s - Size
           e == (IF Negative(Part) THEN -Size ELSE Size) - f + ret.s
<1>7. IF s < 0 THEN ret.m = parsed.m * POWERS[-s] /\ ret.s = 0 ELSE ret.m = parsed.m /\ ret.s = s
  BY <1>3 DEF Applied
<1>8. IF s < 0 THEN e = -s /\ e >= 0 ELSE e = 0
  <2> HIDE DEF f
  <2>1. QED
    BY <1>3, <1>4, <1>7
<1>9. e >= 0 /\ ret.m = n * POWERS[e]
  <2> HIDE DEF n, s, e
  <2>1. QED
    BY <1>5, <1>6, <1>7, <1>8, PowersAssumption
<1>10. QED
  BY <1>9 DEF IsScientificOf

LEMMA DoneRounded ==
    ASSUME ScientificTypeOK', GivenPart', FromBase', ppc' = "parsed", spc' = "done", Applied'
    PROVE  ScientificRounded'
<1>1. ParserInv'
  BY DEF GivenPart
<1>2. FromBase' /\ (ppc = "parsed")' /\ ParserInv' /\ ScientificTypeOK' /\ Applied' => Meant'
  BY AppliedSays, PTL
<1>3. Meant'
  BY <1>1, <1>2
<1>4. QED
  BY <1>3 DEF ScientificRounded, Meant, Applied

LEMMA NegativeStep == ASSUME ScientificInv, NegativeExponent PROVE ScientificInv'
<1>1. BaseRead(TRUE) /\ UNCHANGED <<tvars, whole, lossy, due>>
  BY DEF NegativeExponent
<1>2. /\ parsed \in Decimal /\ Size \in Nat /\ Negative(Part) /\ ParserInv /\ FromBase /\ ppc = "parsed"
      /\ parsed.m \in Mantissa /\ parsed.m \in Nat /\ parsed.s \in 0..MAX_SCALE /\ parsed.s \in Nat
      /\ parsed.neg \in BOOLEAN /\ MAX_SCALE \in Nat
  BY <1>1, BaseFacts
<1>3. /\ Size' = Size /\ (Negative(Part)' <=> Negative(Part)) /\ parsed' = parsed /\ (lossy' <=> lossy)
      /\ FromBase' /\ ppc' = "parsed"
  BY <1>1, <1>2, ExponentKept
<1>6. CASE Size > MAX_SCALE
  <2>1. spc' = "scale_exceeds" /\ ret' = parsed
    BY <1>6 DEF NegativeExponent
  <2>2. ScientificTypeOK'
    BY <1>1, <1>2, <2>1 DEF ScientificInv, ScientificTypeOK
  <2>3. GivenPart' /\ MultiplyPart'
    BY <1>1, <1>2, <2>1, ParserAlone DEF GivenPart, MultiplyPart
  <2>4. ScientificRounded'
    BY <1>3, <1>6, <2>1 DEF ScientificRounded
  <2>5. QED
    BY <2>2, <2>3, <2>4 DEF ScientificInv
<1>7. CASE ~(Size > MAX_SCALE) /\ lossy /\ parsed.s + Size > MAX_SCALE
  <2> DEFINE k == parsed.s + Size - MAX_SCALE
             r == Rescaled(parsed, MAX_SCALE - Size)
             p == POWERS[k]
             q == HalfUp(parsed.m, p)
  <2>1. spc' = "done" /\ ret' = [neg |-> parsed.neg, m |-> r.m, s |-> MAX_SCALE]
    BY <1>7 DEF NegativeExponent
  <2>2. /\ k \in 1..MAX_SCALE /\ k \in 1..PowLimit /\ MAX_SCALE - Size <= parsed.s
        /\ parsed.s - (MAX_SCALE - Size) = k
    BY <1>2, <1>7, ScaleAssumption
  <2>3. r.m = q
    <3>1. Rescaled(parsed, MAX_SCALE - Size)
             = [m |-> (parsed.m + POWERS[parsed.s - (MAX_SCALE - Size)] \div 2) \div POWERS[parsed.s - (MAX_SCALE - Size)],
                s |-> MAX_SCALE - Size]
      BY <2>2 DEF Rescaled
    <3>2. r = [m |-> q, s |-> MAX_SCALE - Size]
      <4> HIDE DEF k
      <4>1. QED
        BY <2>2, <3>1 DEF HalfUp
    <3>3. QED
      BY <3>2
  <2>4. q \in Mantissa
    <3>1. p \in Nat \ {0} /\ p % 2 = 0
      <4> HIDE DEF k
      <4>1. QED
        BY <2>2, PowersType, ScaleAssumption
    <3> HIDE DEF p
    <3>2. p >= 2 /\ p \div 2 \in Nat /\ 2 * (p \div 2) = p
      BY <3>1
    <3>3. q = (parsed.m + p \div 2) \div p
      BY DEF HalfUp
    <3> DEFINE a == parsed.m + p \div 2
    <3>4. a \in Nat /\ a = parsed.m + p \div 2
      BY <1>2, <3>2
    <3> HIDE DEF q
    <3>5. parsed.m <= Max96 /\ Max96 \in Nat
      BY <1>2, BaseType DEF Mantissa
    <3>6. parsed.m + p \div 2 < p * (Max96 + 1)
      <4>1. 2 * Max96 <= p * Max96 /\ p * Max96 \in Int
        BY <3>2, <3>5, <3>1, MulMono
      <4>2. p * (Max96 + 1) = p * Max96 + p
        BY <3>1, <3>5, Distribute, MulAssoc
      <4>3. QED
        BY <3>1, <3>2, <3>5, <4>1, <4>2, <1>2
    <3>7. q < Max96 + 1
      <4>1. a < p * (Max96 + 1) /\ Max96 + 1 \in Nat /\ q = a \div p
        BY <3>3, <3>4, <3>5, <3>6
      <4> HIDE DEF a
      <4>2. QED
        BY <3>1, <3>4, <4>1, QuotientBound
    <3>8. q \in Nat
      BY <3>1, <3>3, <3>4, DivMod
    <3>9. QED
      BY <3>5, <3>7, <3>8 DEF Mantissa
  <2>5. ret' \in Decimal /\ ret'.m = q /\ ret'.s = MAX_SCALE /\ ret'.neg = parsed.neg
    <3> HIDE DEF r, q
    <3>1. QED
      BY <1>2, <2>1, <2>3, <2>4 DEF Decimal
  <2>6. ScientificTypeOK'
    BY <1>1, <2>1, <2>5 DEF ScientificInv, ScientificTypeOK
  <2>7. GivenPart' /\ MultiplyPart'
    BY <1>1, <1>2, <2>1, ParserAlone DEF GivenPart, MultiplyPart
  <2>8. Applied'
    <3>1. ~(parsed.s + Size < 0) /\ ~(parsed.s + Size <= MAX_SCALE)
      BY <1>2, <1>7
    <3> HIDE DEF q
    <3>2. q = HalfUp(parsed.m, POWERS[parsed.s + Size - MAX_SCALE])
      BY DEF q
    <3>3. QED
      BY <1>2, <1>3, <1>7, <2>5, <3>1, <3>2 DEF Applied
  <2>9. ScientificRounded'
    BY <1>3, <2>1, <2>6, <2>7, <2>8, DoneRounded
  <2>10. QED
    BY <2>6, <2>7, <2>9 DEF ScientificInv
<1>8. CASE ~(Size > MAX_SCALE) /\ ~(lossy /\ parsed.s + Size > MAX_SCALE)
  <2>1. SetScale(parsed, parsed.s + Size)
    BY <1>8 DEF NegativeExponent
  <2>2. CASE parsed.s + Size > MAX_SCALE
    <3>1. spc' = "scale_exceeds" /\ ret' = parsed
      BY <2>1, <2>2 DEF SetScale
    <3>2. ScientificTypeOK'
      BY <1>1, <1>2, <3>1 DEF ScientificInv, ScientificTypeOK
    <3>3. GivenPart' /\ MultiplyPart'
      BY <1>1, <1>2, <3>1, ParserAlone DEF GivenPart, MultiplyPart
    <3>4. ScientificRounded'
      BY <1>2, <1>3, <1>8, <2>2, <3>1 DEF ScientificRounded
    <3>5. QED
      BY <3>2, <3>3, <3>4 DEF ScientificInv
  <2>3. CASE ~(parsed.s + Size > MAX_SCALE)
    <3>1. spc' = "done" /\ ret' = [parsed EXCEPT !.s = parsed.s + Size]
      BY <2>1, <2>3 DEF SetScale
    <3>2. ret' \in Decimal /\ ret'.m = parsed.m /\ ret'.s = parsed.s + Size /\ ret'.neg = parsed.neg
      BY <1>2, <2>3, <3>1 DEF Decimal
    <3>3. ScientificTypeOK'
      BY <1>1, <3>1, <3>2 DEF ScientificInv, ScientificTypeOK
    <3>4. GivenPart' /\ MultiplyPart'
      BY <1>1, <1>2, <3>1, ParserAlone DEF GivenPart, MultiplyPart
    <3>5. ~(parsed.s + Size < 0) /\ parsed.s + Size <= MAX_SCALE
      BY <1>2, <2>3
    <3>6. Applied'
      BY <1>2, <1>3, <3>2, <3>5 DEF Applied
    <3>7. ScientificRounded'
      BY <1>3, <3>1, <3>3, <3>4, <3>6, DoneRounded
    <3>8. QED
      BY <3>3, <3>4, <3>7 DEF ScientificInv
  <2>4. QED
    BY <2>2, <2>3
<1>9. QED
  BY <1>6, <1>7, <1>8

LEMMA WithinStep == ASSUME ScientificInv, WithinScale PROVE ScientificInv'
<1>1. BaseRead(FALSE) /\ UNCHANGED <<tvars, whole, lossy, due>> /\ Size <= parsed.s
  BY DEF WithinScale
<1>2. /\ parsed \in Decimal /\ Size \in Nat /\ ~Negative(Part) /\ ParserInv /\ FromBase /\ ppc = "parsed"
      /\ parsed.m \in Mantissa /\ parsed.m \in Nat /\ parsed.s \in 0..MAX_SCALE /\ parsed.s \in Nat
      /\ parsed.neg \in BOOLEAN /\ MAX_SCALE \in Nat
  BY <1>1, BaseFacts
<1>3. /\ Size' = Size /\ (Negative(Part)' <=> Negative(Part)) /\ parsed' = parsed /\ (lossy' <=> lossy)
      /\ FromBase' /\ ppc' = "parsed"
  BY <1>1, <1>2, ExponentKept
<1>4. SetScale(parsed, parsed.s - Size) /\ ~(parsed.s - Size > MAX_SCALE)
  BY <1>1, <1>2 DEF WithinScale
<1>5. spc' = "done" /\ ret' = [parsed EXCEPT !.s = parsed.s - Size]
  BY <1>4 DEF SetScale
<1>6. ret' \in Decimal /\ ret'.m = parsed.m /\ ret'.s = parsed.s - Size /\ ret'.neg = parsed.neg
  BY <1>1, <1>2, <1>5 DEF Decimal
<1>7. ScientificTypeOK'
  BY <1>1, <1>5, <1>6 DEF ScientificInv, ScientificTypeOK
<1>8. GivenPart' /\ MultiplyPart'
  BY <1>1, <1>2, <1>5, ParserAlone DEF GivenPart, MultiplyPart
<1>9. ~(parsed.s - Size < 0) /\ parsed.s - Size <= MAX_SCALE
  BY <1>1, <1>2
<1>10. Applied'
  BY <1>2, <1>3, <1>6, <1>9 DEF Applied
<1>11. ScientificRounded'
  BY <1>3, <1>5, <1>7, <1>8, <1>10, DoneRounded
<1>12. QED
  BY <1>7, <1>8, <1>11 DEF ScientificInv

LEMMA BeyondStep == ASSUME ScientificInv, BeyondScale PROVE ScientificInv'
<1>1. BaseRead(FALSE) /\ UNCHANGED <<tvars, whole, lossy>> /\ Size > parsed.s /\ ret' = parsed
  BY DEF BeyondScale
<1>2. /\ parsed \in Decimal /\ Size \in Nat /\ ~Negative(Part) /\ ParserInv /\ FromBase /\ ppc = "parsed"
      /\ parsed.m \in Nat /\ parsed.s \in Nat /\ MAX_SCALE \in Nat /\ IsU32(Unsigned(Part))
  BY <1>1, BaseFacts
<1>3. /\ Size' = Size /\ (Negative(Part)' <=> Negative(Part)) /\ parsed' = parsed /\ (lossy' <=> lossy)
      /\ (FromBase' <=> FromBase) /\ ppc' = ppc /\ (IsU32(Unsigned(Part))' <=> IsU32(Unsigned(Part)))
  BY <1>1, ExponentKept
<1>4. CASE Size > MAX_SCALE
  <2>1. spc' = "scale_exceeds" /\ due' = 0
    BY <1>4 DEF BeyondScale
  <2>2. ScientificTypeOK'
    BY <1>1, <1>2, <2>1 DEF ScientificInv, ScientificTypeOK
  <2>3. GivenPart' /\ MultiplyPart'
    BY <1>1, <1>2, <2>1, ParserAlone DEF GivenPart, MultiplyPart
  <2>4. ScientificRounded'
    BY <1>3, <1>4, <2>1 DEF ScientificRounded
  <2>5. QED
    BY <2>2, <2>3, <2>4 DEF ScientificInv
<1>5. CASE ~(Size > MAX_SCALE)
  <2>1. spc' = "multiply" /\ due' = Size
    BY <1>5 DEF BeyondScale
  <2>2. ScientificTypeOK'
    BY <1>1, <1>2, <1>5, <2>1 DEF ScientificInv, ScientificTypeOK
  <2>3. GivenPart'
    BY <1>1, <1>2, <2>1, ParserAlone DEF GivenPart
  <2>4. (Size' - due') - (parsed'.s - ret'.s) = 0 /\ due' <= Size' /\ ret'.s <= parsed'.s /\ ~(due' < Size') /\ Size' <= MAX_SCALE
        /\ parsed'.s < Size'
    BY <1>1, <1>2, <1>3, <1>5, <2>1
  <2>5. parsed'.m = 0 => ret'.m = 0 /\ (due' < Size' => ret'.s = 0)
    BY <1>1, <1>3, <2>4
  <2>6. parsed'.m # 0 => ret'.neg = parsed'.neg /\ 0 >= 0 /\ ret'.m = parsed'.m * POWERS[0]
    BY <1>1, <1>2, <1>3, PowersAssumption
  <2>7. MultiplyPart'
    BY <1>2, <1>3, <2>4, <2>5, <2>6 DEF MultiplyPart
  <2>8. ScientificRounded'
    BY <2>1 DEF ScientificRounded
  <2>9. QED
    BY <2>2, <2>3, <2>7, <2>8 DEF ScientificInv
<1>6. QED
  BY <1>4, <1>5

\* What is known while the powers are multiplied in.
LEMMA MultiplyFacts ==
    ASSUME ScientificInv, spc = "multiply"
    PROVE  LET n == (Size - due) - (parsed.s - ret.s)
           IN  /\ FromBase /\ ppc = "parsed" /\ ParserInv /\ IsU32(Unsigned(Part)) /\ ~Negative(Part)
               /\ parsed.s < Size /\ Size <= MAX_SCALE /\ due <= Size /\ ret.s <= parsed.s
               /\ parsed.m = 0 => ret.m = 0 /\ (due < Size => ret.s = 0)
               /\ parsed.m # 0 => ret.neg = parsed.neg /\ n >= 0 /\ ret.m = parsed.m * POWERS[n]
               /\ Size \in Nat /\ due \in 0..MAX_SCALE /\ due \in Nat /\ MAX_SCALE \in Nat
               /\ ret \in Decimal /\ ret.m \in Mantissa /\ ret.m \in Nat /\ ret.s \in 0..MAX_SCALE /\ ret.s \in Nat
               /\ ret.neg \in BOOLEAN
               /\ parsed.m \in Nat /\ parsed.s \in Nat /\ parsed.neg \in BOOLEAN
               /\ text # whole
<1>1. MultiplyPart /\ GivenPart /\ ScientificTypeOK
  BY DEF ScientificInv
<1>2. FromBase /\ ppc = "parsed" /\ ParserInv
  BY <1>1 DEF MultiplyPart, GivenPart
<1>3. parsed \in Decimal
  BY <1>2 DEF ParserInv, ParserTypeOK
<1>4. Size \in Nat /\ text # whole
  BY <1>1, <1>2, SizeType, SplitText DEF FromBase, ScientificTypeOK
<1>5. parsed.m \in Nat /\ parsed.s \in Nat /\ parsed.neg \in BOOLEAN /\ MAX_SCALE \in Nat
  BY <1>3, ScaleAssumption, BaseType DEF Decimal, Mantissa
<1>6. /\ due \in 0..MAX_SCALE /\ due \in Nat
      /\ ret \in Decimal /\ ret.m \in Mantissa /\ ret.m \in Nat /\ ret.s \in 0..MAX_SCALE /\ ret.s \in Nat
      /\ ret.neg \in BOOLEAN
  BY <1>1, <1>5, BaseType DEF ScientificTypeOK, Decimal, Mantissa
<1>7. QED
  BY <1>1, <1>2, <1>4, <1>5, <1>6 DEF MultiplyPart

\* A product with two powers.
LEMMA PowersApplied ==
    ASSUME NEW m \in Nat, NEW i \in 0..PowLimit, NEW j \in 0..PowLimit, i + j <= PowLimit
    PROVE  (m * POWERS[i]) * POWERS[j] = m * POWERS[i + j] /\ m * POWERS[i] \in Nat /\ m * POWERS[i + j] \in Nat
<1>1. POWERS[i + j] = POWERS[i] * POWERS[j] /\ POWERS[i] \in Nat /\ POWERS[j] \in Nat
  BY PowersAdd, PowersType
<1> DEFINE a == POWERS[i]
           b == POWERS[j]
           c == POWERS[i + j]
<1>2. a \in Nat /\ b \in Nat /\ c = a * b
  BY <1>1
<1> HIDE DEF a, b, c
<1>3. (m * a) * b = m * (a * b) /\ m * a \in Nat /\ a * b \in Nat /\ m * (a * b) \in Nat
  BY <1>2, MulAssoc, \A x, y \in Nat : x * y \in Nat
<1>4. QED
  BY <1>2, <1>3 DEF a, b, c

LEMMA MultiplyStep == ASSUME ScientificInv, Multiply PROVE ScientificInv'
<1> DEFINE k == SmallerOf(due, MAX_I64_SCALE)
           v == ret.m * POWERS[k]
           p == Rounded(v, ret.s)
           n == (Size - due) - (parsed.s - ret.s)
<1>1. /\ spc = "multiply" /\ due > 0 /\ UNCHANGED <<tvars, whole, lossy>>
      /\ IF Fits(v, ret.s)
         THEN /\ ret' = (IF ret.m = 0 THEN ZERO ELSE [neg |-> ret.neg, m |-> p.m, s |-> p.s])
              /\ due' = due - k /\ spc' = spc
         ELSE spc' = "exceeds" /\ UNCHANGED <<ret, due>>
  BY DEF Multiply
<1>2. /\ FromBase /\ ppc = "parsed" /\ ParserInv /\ IsU32(Unsigned(Part)) /\ ~Negative(Part)
      /\ parsed.s < Size /\ Size <= MAX_SCALE /\ due <= Size /\ ret.s <= parsed.s
      /\ parsed.m = 0 => ret.m = 0 /\ (due < Size => ret.s = 0)
      /\ parsed.m # 0 => ret.neg = parsed.neg /\ n >= 0 /\ ret.m = parsed.m * POWERS[n]
      /\ Size \in Nat /\ due \in 0..MAX_SCALE /\ due \in Nat /\ MAX_SCALE \in Nat
      /\ ret \in Decimal /\ ret.m \in Mantissa /\ ret.m \in Nat /\ ret.s \in 0..MAX_SCALE /\ ret.s \in Nat
      /\ ret.neg \in BOOLEAN
      /\ parsed.m \in Nat /\ parsed.s \in Nat /\ parsed.neg \in BOOLEAN
  BY <1>1, MultiplyFacts
<1>3. /\ Size' = Size /\ (Negative(Part)' <=> Negative(Part)) /\ parsed' = parsed /\ (lossy' <=> lossy)
      /\ (FromBase' <=> FromBase) /\ ppc' = ppc /\ (IsU32(Unsigned(Part))' <=> IsU32(Unsigned(Part)))
  BY <1>1, ExponentKept
<1>4. k \in 1..MAX_SCALE /\ k <= due /\ k \in Nat /\ k \in 0..MAX_SCALE
  BY <1>1, <1>2, ScaleAssumption DEF SmallerOf
<1>5. PowLimit \in Nat /\ MAX_SCALE <= PowLimit /\ Max96 \in Nat
  BY ScaleAssumption, BaseType
<1>6. IF Fits(v, ret.s)
      THEN /\ p.s \in 0..ret.s /\ ret.s - p.s <= k
           /\ p.m = ret.m * POWERS[k - (ret.s - p.s)] /\ p.m \in Mantissa
      ELSE k > ret.s /\ ret.m * POWERS[k - ret.s] > Max96
  <2> HIDE DEF k
  <2>1. QED
    BY <1>2, <1>4, ProductWithPower
<1>7. parsed.m # 0 => n \in 0..PowLimit /\ n <= Size /\ ret.m >= 1
  <2>1. SUFFICES ASSUME parsed.m # 0 PROVE n \in 0..PowLimit /\ n <= Size /\ ret.m >= 1
    OBVIOUS
  <2>2. n \in 0..PowLimit /\ n <= Size
    BY <1>2, <1>5, <2>1
  <2> HIDE DEF n
  <2>3. POWERS[n] \in Nat /\ POWERS[n] >= 1
    BY <2>2, PowersType
  <2>4. 1 * POWERS[n] <= parsed.m * POWERS[n] /\ parsed.m * POWERS[n] \in Int
    BY <1>2, <2>1, <2>3, MulMono
  <2>5. QED
    BY <1>2, <2>1, <2>2, <2>3, <2>4
<1> HIDE DEF k
<1>8. CASE Fits(v, ret.s)
  <2>1. spc' = "multiply" /\ due' = due - k /\ due' \in 0..MAX_SCALE /\ due' < Size /\ due' <= Size
    BY <1>1, <1>2, <1>4, <1>8
  <2>2. CASE ret.m = 0
    <3>1. ret' = ZERO /\ ret'.m = 0 /\ ret'.s = 0 /\ ret' \in Decimal
      <4>1. ret' = ZERO
        BY <1>1, <1>8, <2>2
      <4>2. ZERO.s = 0
        BY DEF ZERO
      <4>3. QED
        BY <4>1, <4>2, ZeroType
    <3>2. parsed.m = 0
      BY <1>2, <1>7, <2>2
    <3>3. ScientificTypeOK'
      BY <1>1, <2>1, <3>1 DEF ScientificInv, ScientificTypeOK
    <3>4. GivenPart'
      BY <1>1, <1>2, <2>1, ParserAlone DEF GivenPart
    <3>5. ret'.s <= parsed'.s /\ ~(parsed'.m # 0) /\ due' <= Size' /\ parsed'.s < Size' /\ Size' <= MAX_SCALE
      BY <1>2, <1>3, <2>1, <3>1, <3>2
    <3>6. MultiplyPart'
      BY <1>2, <1>3, <3>1, <3>5 DEF MultiplyPart
    <3>7. ScientificRounded'
      BY <2>1 DEF ScientificRounded
    <3>8. QED
      BY <3>3, <3>4, <3>6, <3>7 DEF ScientificInv
  <2>3. CASE ret.m # 0
    <3> HIDE DEF p, v
    <3>1. ret' = [neg |-> ret.neg, m |-> p.m, s |-> p.s]
      BY <1>1, <1>8, <2>3
    <3>2. p.s \in 0..ret.s /\ ret.s - p.s <= k /\ p.m = ret.m * POWERS[k - (ret.s - p.s)] /\ p.m \in Mantissa
      BY <1>6, <1>8
    <3>3. parsed.m # 0 /\ n \in 0..PowLimit /\ n <= Size /\ ret.m = parsed.m * POWERS[n] /\ ret.neg = parsed.neg
      BY <1>2, <1>7, <2>3
    <3> DEFINE i == k - (ret.s - p.s)
    <3>4. i \in 0..PowLimit /\ n + i \in 0..PowLimit /\ n + i <= Size
          /\ n + i = (Size - due') - (parsed.s - p.s)
      BY <1>2, <1>4, <1>5, <2>1, <3>2, <3>3
    <3>5. p.m = parsed.m * POWERS[n + i]
      <4>1. p.m = (parsed.m * POWERS[n]) * POWERS[i]
        BY <3>2, <3>3
      <4> HIDE DEF i, n
      <4>2. n + i <= PowLimit
        BY <3>4, <1>5
      <4>3. QED
        BY <1>2, <3>3, <3>4, <4>1, <4>2, PowersApplied
    <3>6. ret' \in Decimal /\ ret'.m = p.m /\ ret'.s = p.s /\ ret'.neg = parsed.neg
      <4>1. p.s \in 0..MAX_SCALE
        BY <1>2, <3>2
      <4>2. QED
        BY <1>2, <3>1, <3>2, <3>3, <4>1 DEF Decimal
    <3>7. ScientificTypeOK'
      BY <1>1, <2>1, <3>6 DEF ScientificInv, ScientificTypeOK
    <3>8. GivenPart'
      BY <1>1, <1>2, <2>1, ParserAlone DEF GivenPart
    <3>9. ret'.s <= parsed'.s /\ parsed'.m # 0 /\ due' <= Size' /\ parsed'.s < Size' /\ Size' <= MAX_SCALE
      BY <1>2, <1>3, <2>1, <3>2, <3>3, <3>6
    <3>10. (Size' - due') - (parsed'.s - ret'.s) = n + i /\ n + i >= 0
      BY <1>3, <3>4, <3>6
    <3> HIDE DEF n, i
    <3>11. ret'.neg = parsed'.neg /\ ret'.m = parsed'.m * POWERS[(Size' - due') - (parsed'.s - ret'.s)]
      BY <1>3, <3>5, <3>6, <3>10
    <3>12. MultiplyPart'
      BY <1>2, <1>3, <3>9, <3>10, <3>11 DEF MultiplyPart
    <3>13. ScientificRounded'
      BY <2>1 DEF ScientificRounded
    <3>14. QED
      BY <3>7, <3>8, <3>12, <3>13 DEF ScientificInv
  <2>4. QED
    BY <2>2, <2>3
<1>9. CASE ~Fits(v, ret.s)
  <2>1. spc' = "exceeds" /\ ret' = ret /\ due' = due
    BY <1>1, <1>9
  <2>2. k > ret.s /\ ret.m * POWERS[k - ret.s] > Max96
    BY <1>6, <1>9
  <2> DEFINE i == k - ret.s
  <2>3. i \in 0..PowLimit /\ POWERS[i] \in Nat
    <3>1. i \in 0..PowLimit
      BY <1>2, <1>4, <1>5, <2>2
    <3> HIDE DEF i
    <3>2. QED
      BY <3>1, PowersType
  <2>4. ret.m # 0
    <3> HIDE DEF i
    <3>1. 0 * POWERS[i] = 0
      BY <2>3
    <3>2. ret.m * POWERS[i] > Max96
      BY <2>2 DEF i
    <3>3. QED
      BY <1>5, <3>1, <3>2
  <2>5. parsed.m # 0 /\ n \in 0..PowLimit /\ n <= Size /\ ret.m = parsed.m * POWERS[n]
    BY <1>2, <1>7, <2>4
  <2>6. n + i \in 0..PowLimit /\ n + i <= Size - parsed.s /\ Size - parsed.s \in 0..PowLimit
    BY <1>2, <1>4, <1>5, <2>2, <2>3, <2>5
  <2>7. parsed.m * POWERS[n + i] > Max96
    <3>1. (parsed.m * POWERS[n]) * POWERS[i] > Max96
      BY <2>2, <2>5
    <3> HIDE DEF i, n
    <3>2. n + i <= PowLimit
      BY <2>6, <1>5
    <3>3. QED
      BY <1>2, <2>3, <2>5, <3>1, <3>2, PowersApplied
  <2>8. parsed.m * POWERS[Size - parsed.s] > Max96
    <3> DEFINE a == POWERS[n + i]
               b == POWERS[Size - parsed.s]
    <3>1. a <= b /\ a \in Nat /\ b \in Nat
      <4> DEFINE x == n + i
                 y == Size - parsed.s
      <4>1. x \in 0..PowLimit /\ y \in 0..PowLimit /\ x <= y
        BY <2>6
      <4> HIDE DEF x, y
      <4>2. POWERS[x] <= POWERS[y] /\ POWERS[x] \in Nat /\ POWERS[y] \in Nat
        BY <4>1, PowersMono, PowersType
      <4>3. QED
        BY <4>2 DEF x, y
    <3>2. parsed.m * a > Max96
      BY <2>7
    <3> HIDE DEF a, b
    <3>3. a * parsed.m <= b * parsed.m /\ a * parsed.m = parsed.m * a /\ b * parsed.m = parsed.m * b
          /\ parsed.m * a \in Int /\ parsed.m * b \in Int
      BY <1>2, <3>1, MulMono, MulAssoc
    <3>4. parsed.m * b > Max96
      BY <1>5, <3>2, <3>3
    <3>5. QED
      BY <3>4 DEF b
  <2>9. ScientificTypeOK'
    BY <1>1, <2>1 DEF ScientificInv, ScientificTypeOK
  <2>10. GivenPart' /\ MultiplyPart'
    BY <1>1, <1>2, <2>1, ParserAlone DEF GivenPart, MultiplyPart
  <2>11. ScientificRounded'
    BY <1>3, <2>1, <2>8 DEF ScientificRounded
  <2>12. QED
    BY <2>9, <2>10, <2>11 DEF ScientificInv
<1>10. QED
  BY <1>8, <1>9

LEMMA StripStep == ASSUME ScientificInv, StripZeros PROVE ScientificInv'
<1> DEFINE n == Size - parsed.s + ret.s
<1>1. /\ spc = "multiply" /\ due = 0 /\ UNCHANGED <<tvars, whole, lossy, due>>
  BY DEF StripZeros
<1>2. /\ FromBase /\ ppc = "parsed" /\ ParserInv /\ IsU32(Unsigned(Part)) /\ ~Negative(Part)
      /\ parsed.s < Size /\ Size <= MAX_SCALE /\ ret.s <= parsed.s
      /\ parsed.m = 0 => ret.m = 0 /\ (due < Size => ret.s = 0)
      /\ Size \in Nat /\ due \in 0..MAX_SCALE /\ MAX_SCALE \in Nat
      /\ ret \in Decimal /\ ret.m \in Mantissa /\ ret.m \in Nat /\ ret.s \in 0..MAX_SCALE /\ ret.s \in Nat
      /\ ret.neg \in BOOLEAN
      /\ parsed.m \in Nat /\ parsed.s \in Nat /\ parsed.neg \in BOOLEAN
  BY <1>1, MultiplyFacts
<1>3. /\ Size' = Size /\ (Negative(Part)' <=> Negative(Part)) /\ parsed' = parsed /\ (lossy' <=> lossy)
      /\ (FromBase' <=> FromBase) /\ ppc' = ppc /\ (IsU32(Unsigned(Part))' <=> IsU32(Unsigned(Part)))
  BY <1>1, ExponentKept
<1>4. PowLimit \in Nat /\ MAX_SCALE <= PowLimit /\ Ten \in Nat \ {0}
  BY ScaleAssumption, BaseAssumption
<1>5. n \in 1..PowLimit /\ n - 1 \in 0..PowLimit
  BY <1>2, <1>4
<1>6. parsed.m = 0 => ret.m = 0 /\ ret.s = 0
  BY <1>1, <1>2
<1>7. parsed.m # 0 => ret.neg = parsed.neg /\ ret.m = parsed.m * POWERS[n]
  <2>1. (Size - due) - (parsed.s - ret.s) = n
    BY <1>1, <1>2
  <2>2. MultiplyPart
    BY DEF ScientificInv
  <2> HIDE DEF n
  <2>3. QED
    BY <1>1, <2>1, <2>2 DEF MultiplyPart
<1>8. GivenPart'
  <2>1. spc' \in {"multiply", "done"}
    BY <1>1 DEF StripZeros
  <2>2. QED
    BY <1>1, <1>2, <2>1, ParserAlone DEF GivenPart
<1> DEFINE q == parsed.m * POWERS[n - 1]
<1>9. parsed.m # 0 => ret.m = q * Ten /\ q \in Nat
  <2>1. POWERS[(n - 1) + 1] = POWERS[n]
    BY <1>5
  <2> HIDE DEF n
  <2>2. (parsed.m * POWERS[n - 1]) * POWERS[1] = parsed.m * POWERS[(n - 1) + 1] /\ q \in Nat
    <3> DEFINE i == n - 1
    <3>1. i \in 0..PowLimit /\ 1 \in 0..PowLimit /\ i + 1 <= PowLimit
      BY <1>4, <1>5
    <3> HIDE DEF i
    <3>2. (parsed.m * POWERS[i]) * POWERS[1] = parsed.m * POWERS[i + 1] /\ parsed.m * POWERS[i] \in Nat
      BY <1>2, <3>1, PowersApplied
    <3>3. QED
      BY <3>2 DEF i
  <2>3. QED
    BY <1>7, <2>1, <2>2, PowersAssumption
<1>10. parsed.m # 0 => ret.m \div Ten = q /\ ret.m % Ten = 0
  <2> HIDE DEF q
  <2>1. SUFFICES ASSUME parsed.m # 0 PROVE ret.m \div Ten = q /\ ret.m % Ten = 0
    OBVIOUS
  <2>2. ret.m = q * Ten + 0 /\ 0 < Ten /\ q \in Nat /\ 0 \in Nat
    BY <1>2, <1>4, <1>9, <2>1
  <2>3. QED
    BY <1>2, <1>4, <2>2, QuotientUnique
<1>11. CASE ret.m # 0 /\ ret.s > 0 /\ ret.m % Ten = 0
  <2>1. ret' = [ret EXCEPT !.m = ret.m \div Ten, !.s = ret.s - 1] /\ spc' = "multiply"
    BY <1>1, <1>11 DEF StripZeros
  <2>2. parsed.m # 0
    BY <1>6, <1>11
  <2>3. ret' = [ret EXCEPT !.m = q, !.s = ret.s - 1]
    BY <1>10, <2>1, <2>2
  <2> HIDE DEF q
  <2>4. q \in Mantissa
    <3>1. 1 * q <= Ten * q /\ Ten * q = q * Ten /\ q \in Nat /\ Ten * q \in Int
      BY <1>4, <1>9, <2>2, MulMono, MulAssoc
    <3>2. ret.m <= Max96 /\ Max96 \in Nat
      BY <1>2, BaseType DEF Mantissa
    <3>3. QED
      BY <1>9, <2>2, <3>1, <3>2 DEF Mantissa
  <2>5. ret'.m = q /\ ret'.s = ret.s - 1 /\ ret'.neg = ret.neg /\ ret' \in Decimal
    <3>1. ret.s - 1 \in 0..MAX_SCALE
      BY <1>2, <1>11
    <3>2. QED
      BY <1>2, <2>3, <2>4, <3>1 DEF Decimal
  <2>6. ScientificTypeOK'
    BY <1>1, <2>1, <2>5 DEF ScientificInv, ScientificTypeOK
  <2>7. ret'.s <= parsed'.s /\ due' <= Size' /\ parsed'.m # 0 /\ parsed'.s < Size' /\ Size' <= MAX_SCALE
    BY <1>1, <1>2, <1>3, <1>11, <2>2, <2>5
  <2>8. (Size' - due') - (parsed'.s - ret'.s) = n - 1 /\ n - 1 >= 0
    BY <1>1, <1>2, <1>3, <1>5, <2>5
  <2> HIDE DEF n
  <2>9. ret'.neg = parsed'.neg /\ ret'.m = parsed'.m * POWERS[(Size' - due') - (parsed'.s - ret'.s)]
    BY <1>3, <1>7, <2>2, <2>5, <2>8 DEF q
  <2>10. MultiplyPart'
    BY <1>2, <1>3, <2>1, <2>7, <2>8, <2>9 DEF MultiplyPart
  <2>11. ScientificRounded'
    BY <2>1 DEF ScientificRounded
  <2>12. QED
    BY <1>8, <2>6, <2>10, <2>11 DEF ScientificInv
<1>12. CASE ~(ret.m # 0 /\ ret.s > 0 /\ ret.m % Ten = 0)
  <2>1. ret' = ret /\ spc' = "done"
    BY <1>1, <1>12 DEF StripZeros
  <2>2. ret.s = 0
    <3>1. parsed.m # 0 => ret.m # 0
      <4> HIDE DEF n
      <4>1. POWERS[n] \in Nat \ {0}
        BY <1>5, PowersType
      <4>2. parsed.m # 0 => 1 * POWERS[n] <= parsed.m * POWERS[n]
        BY <1>2, <4>1, MulMono
      <4>3. QED
        BY <1>2, <1>7, <4>1, <4>2
    <3>2. QED
      BY <1>2, <1>6, <1>10, <1>12, <3>1
  <2>3. n = -(parsed.s - Size) /\ parsed.s - Size < 0
    BY <1>2, <2>2
  <2>4. ret.m = parsed.m * POWERS[n]
    <3> HIDE DEF n
    <3>1. POWERS[n] \in Nat /\ 0 * POWERS[n] = 0
      BY <1>5, PowersType
    <3>2. QED
      BY <1>6, <1>7, <3>1
  <2>5. ret.m # 0 => ret.neg = parsed.neg
    BY <1>6, <1>7
  <2> HIDE DEF n
  <2>6. ret.m = parsed.m * POWERS[-(parsed.s - Size)]
    BY <2>3, <2>4
  <2>7. Applied'
    BY <1>2, <1>3, <2>1, <2>2, <2>3, <2>5, <2>6 DEF Applied
  <2>8. ScientificTypeOK'
    BY <1>1, <2>1 DEF ScientificInv, ScientificTypeOK
  <2>9. ScientificRounded' /\ MultiplyPart'
    BY <1>2, <1>3, <1>8, <2>1, <2>7, <2>8, DoneRounded DEF MultiplyPart
  <2>10. QED
    BY <1>8, <2>8, <2>9 DEF ScientificInv
<1>13. QED
  BY <1>11, <1>12

LEMMA ScientificKept == ScientificInv /\ [ScientificNext]_<<tvars, svars>> => ScientificInv'
<1> SUFFICES ASSUME ScientificInv, [ScientificNext]_<<tvars, svars>> PROVE ScientificInv'
  OBVIOUS
<1>1. CASE UNCHANGED <<tvars, svars>>
  <2>1. UNCHANGED <<tvars, whole, lossy>> /\ UNCHANGED <<ret, due, spc>>
    BY <1>1 DEF svars
  <2>2. ScientificTypeOK'
    BY <2>1 DEF ScientificInv, ScientificTypeOK
  <2>3. ppc = "idle" \/ ParserInv => ppc' = "idle" \/ ParserInv'
    BY <2>1, ParserAlone
  <2>4. GivenPart'
    BY <2>1, <2>3, ExponentKept DEF ScientificInv, GivenPart, tvars
  <2>5. MultiplyPart'
    BY <2>1, ExponentKept DEF ScientificInv, MultiplyPart
  <2>6. ScientificRounded'
    BY <2>1, ExponentKept DEF ScientificInv, ScientificRounded, IsScientific, IsScientificOf
  <2>7. QED
    BY <2>2, <2>4, <2>5, <2>6 DEF ScientificInv
<1>2. CASE ScientificNext
  BY <1>2, VisitStep, VisitReturnStep, VisitElseStep, SplitStep, NoExponentStep, ReadingStep, BaseFailedStep,
     NegativeStep, WithinStep, BeyondStep, MultiplyStep, StripStep DEF ScientificNext
<1>3. QED
  BY <1>1, <1>2

\* What has been read and multiplied in so far is the number that was given.
THEOREM ScientificInvariant == ScientificSpec => []ScientificInv
  BY ScientificStarts, ScientificKept, PTL DEF ScientificSpec

\* The number in front of an exponent is the text's, rounded once where its digits do not
\* fit; the exponent is applied to it exactly, whatever path the routine takes, but for
\* what the lossy variant rounds; and what is refused does not fit.
THEOREM ExponentsApplied == ScientificSpec => []ScientificRounded
<1>1. ScientificInv => ScientificRounded
  BY DEF ScientificInv
<1>2. QED
  BY <1>1, ScientificInvariant, PTL

-----------------------------------------------------------------------------
(* The literals of the macros *)

\* Both functions never decrease.
LEMMA SaidGrows ==
    ASSUME NEW t \in Seq(Nat), NEW D, NEW r \in Nat \ {0}
    PROVE  \A j \in 0..Len(t) : \A i \in 0..j : /\ ValueTo(t, D, r)[i] <= ValueTo(t, D, r)[j]
                                                /\ CountTo(t, D)[i] <= CountTo(t, D)[j]
<1> DEFINE N == Len(t)
           v == ValueTo(t, D, r)
           c == CountTo(t, D)
           X == {j \in 0..N : \A i \in 0..j : v[i] <= v[j] /\ c[i] <= c[j]}
<1>1. /\ N \in Nat /\ v \in [0..N -> Nat] /\ c \in [0..N -> Nat]
      /\ \A i \in 1..N : v[i] = IF t[i] \in D THEN v[i - 1] * r + t[i] ELSE v[i - 1]
      /\ \A i \in 1..N : c[i] = IF t[i] \in D THEN c[i - 1] + 1 ELSE c[i - 1]
  BY ValueSteps, CountSteps
<1>2. \A i \in 1..N : t[i] \in Nat
  OBVIOUS
<1> HIDE DEF v, c, N
<1>3. 0 \in X
  <2>1. v[0] \in Nat /\ c[0] \in Nat /\ 0 \in 0..N /\ 0..0 = {0}
    BY <1>1
  <2>2. QED
    BY <2>1
<1>4. ASSUME NEW j \in 1..N, j - 1 \in X PROVE j \in X
  <2>1. j \in 0..N /\ j - 1 \in 0..N /\ v[j] \in Nat /\ v[j - 1] \in Nat /\ c[j] \in Nat /\ c[j - 1] \in Nat /\ t[j] \in Nat
    BY <1>1, <1>2
  <2>2. v[j - 1] <= v[j]
    <3> DEFINE a == v[j - 1]
               b == v[j]
    <3>1. b = IF t[j] \in D THEN a * r + t[j] ELSE a
      BY <1>1
    <3>2. a \in Nat /\ b \in Nat /\ t[j] \in Nat
      BY <2>1
    <3> HIDE DEF a, b
    <3>3. 1 * a <= r * a /\ r * a = a * r /\ a * r \in Int
      BY <3>2, MulMono, MulAssoc
    <3> DEFINE x == a * r
    <3>4. x \in Int /\ a <= x /\ b = IF t[j] \in D THEN x + t[j] ELSE a
      BY <3>1, <3>2, <3>3
    <3> HIDE DEF x
    <3>5. a <= b
      BY <3>2, <3>4
    <3>6. QED
      BY <3>5 DEF a, b
  <2>3. c[j - 1] <= c[j]
    <3>1. c[j] = IF t[j] \in D THEN c[j - 1] + 1 ELSE c[j - 1]
      BY <1>1
    <3>2. QED
      BY <2>1, <3>1
  <2>4. ASSUME NEW i \in 0..j PROVE v[i] <= v[j] /\ c[i] <= c[j]
    <3>1. CASE i = j
      BY <2>1, <3>1
    <3>2. CASE i # j
      <4>1. i \in 0..(j - 1) /\ i \in 0..N
        BY <1>1, <3>2
      <4>2. v[i] <= v[j - 1] /\ c[i] <= c[j - 1] /\ v[i] \in Nat /\ c[i] \in Nat
        BY <1>1, <1>4, <4>1
      <4>3. QED
        BY <2>1, <2>2, <2>3, <4>2
    <3>3. QED
      BY <3>1, <3>2
  <2>5. QED
    BY <2>1, <2>4
<1> HIDE DEF X
<1>5. \A j \in 0..N : j \in X
  BY <1>1, <1>3, <1>4, RangeInduction
<1>6. QED
  BY <1>5 DEF X, v, c, N

\* Bytes that are no digits, and zeros, say nothing.
LEMMA NothingSaid ==
    ASSUME NEW t \in Seq(Nat), NEW D, NEW r \in Nat, NEW n \in 0..Len(t),
           \A i \in 1..n : t[i] \notin D \/ t[i] = 0
    PROVE  ValueTo(t, D, r)[n] = 0
<1> DEFINE v == ValueTo(t, D, r)
           X == {j \in 0..n : v[j] = 0}
<1>1. /\ v[0] = 0 /\ n \in Nat
      /\ \A i \in 1..n : v[i] = IF t[i] \in D THEN v[i - 1] * r + t[i] ELSE v[i - 1]
  <2>1. v[0] = 0 /\ \A i \in 1..Len(t) : v[i] = IF t[i] \in D THEN v[i - 1] * r + t[i] ELSE v[i - 1]
    BY ValueSteps
  <2>2. n \in Nat /\ \A i \in 1..n : i \in 1..Len(t)
    OBVIOUS
  <2> HIDE DEF v
  <2>3. QED
    BY <2>1, <2>2
<1> HIDE DEF v
<1>2. 0 \in X
  BY <1>1
<1>3. ASSUME NEW j \in 1..n, j - 1 \in X PROVE j \in X
  <2>1. v[j - 1] = 0 /\ 0 * r = 0
    BY <1>3
  <2>2. v[j] = 0
    BY <1>1, <2>1
  <2>3. QED
    BY <2>2
<1> HIDE DEF X
<1>4. \A j \in 0..n : j \in X
  BY <1>1, <1>2, <1>3, RangeInduction
<1>5. n \in X
  BY <1>1, <1>4
<1>6. QED
  BY <1>5 DEF X, v

\* s is what is left of t after k elements.
RestAt(t, s, k) == k \in 0..Len(t) /\ s = SubSeq(t, k + 1, Len(t))

LEMMA RestFacts ==
    ASSUME NEW S, NEW t \in Seq(S), NEW s, NEW k, RestAt(t, s, k)
    PROVE  /\ s \in Seq(S) /\ Len(s) = Len(t) - k /\ Len(t) \in Nat /\ k \in Nat
           /\ Len(t) - Len(s) = k
           /\ \A i \in 1..Len(s) : s[i] = t[k + i]
           /\ s = <<>> <=> k = Len(t)
           /\ s # <<>> => k + 1 \in 1..Len(t) /\ Head(s) = t[k + 1] /\ Len(s) \in Nat \ {0}
<1>1. k \in 0..Len(t) /\ s = SubSeq(t, k + 1, Len(t)) /\ Len(t) \in Nat
  BY DEF RestAt
<1>2. \A i \in (k + 1)..Len(t) : t[i] \in S
  BY <1>1, ElementsOf
<1>3. k + 1 \in Int /\ Len(t) \in Int
  BY <1>1
<1>4. /\ SubSeq(t, k + 1, Len(t)) \in Seq(S)
      /\ Len(SubSeq(t, k + 1, Len(t))) = IF k + 1 <= Len(t) THEN Len(t) - (k + 1) + 1 ELSE 0
      /\ \A i \in 1..(Len(t) - (k + 1) + 1) : SubSeq(t, k + 1, Len(t))[i] = t[(k + 1) + i - 1]
  BY <1>2, <1>3, SubSeqProperties
<1>5. Len(s) = Len(t) - k /\ s \in Seq(S) /\ Len(t) - (k + 1) + 1 = Len(s)
  BY <1>1, <1>4
<1>6. ASSUME NEW i \in 1..Len(s) PROVE s[i] = t[k + i]
  <2>1. (k + 1) + i - 1 = k + i
    BY <1>1
  <2>2. QED
    BY <1>1, <1>4, <1>5, <2>1
<1>7. s = <<>> <=> k = Len(t)
  <2>1. s = <<>> <=> Len(s) = 0
    BY <1>5
  <2>2. QED
    BY <1>1, <1>5, <2>1
<1>8. ASSUME s # <<>> PROVE k + 1 \in 1..Len(t) /\ Head(s) = t[k + 1] /\ Len(s) \in Nat \ {0}
  <2>1. k + 1 \in 1..Len(t) /\ Len(s) \in Nat \ {0} /\ 1 \in 1..Len(s)
    BY <1>1, <1>5, <1>7, <1>8
  <2>2. Head(s) = s[1]
    BY <1>5, <1>8
  <2>3. QED
    BY <1>6, <2>1, <2>2
<1>9. QED
  BY <1>1, <1>5, <1>6, <1>7, <1>8

LEMMA RestOfRest ==
    ASSUME NEW S, NEW t \in Seq(S), NEW s, NEW k, RestAt(t, s, k), NEW j \in 0..Len(s)
    PROVE  RestAt(t, SubSeq(s, j + 1, Len(s)), k + j)
<1>1. /\ s \in Seq(S) /\ Len(s) = Len(t) - k /\ Len(t) \in Nat /\ k \in Nat
      /\ \A i \in 1..Len(s) : s[i] = t[k + i]
  BY RestFacts
<1> DEFINE a == SubSeq(s, j + 1, Len(s))
           b == SubSeq(t, (k + j) + 1, Len(t))
<1>2. k + j \in 0..Len(t) /\ j \in 0..Len(s)
  BY <1>1
<1>3. RestAt(s, a, j) /\ RestAt(t, b, k + j)
  BY <1>2 DEF RestAt
<1> HIDE DEF a, b
<1>4. a \in Seq(S) /\ Len(a) = Len(s) - j /\ \A i \in 1..Len(a) : a[i] = s[j + i]
  <2>1. s \in Seq(S) /\ RestAt(s, a, j)
    BY <1>1, <1>3
  <2>2. QED
    BY ONLY <2>1, RestFacts
<1>5. b \in Seq(S) /\ Len(b) = Len(t) - (k + j) /\ \A i \in 1..Len(b) : b[i] = t[(k + j) + i]
  <2> DEFINE n == k + j
  <2>1. t \in Seq(S) /\ RestAt(t, b, n)
    BY <1>3
  <2> HIDE DEF n
  <2>2. b \in Seq(S) /\ Len(b) = Len(t) - n /\ \A i \in 1..Len(b) : b[i] = t[n + i]
    BY ONLY <2>1, RestFacts
  <2>3. QED
    BY <2>2 DEF n
<1>6. Len(a) = Len(b) /\ Len(a) \in Nat
  BY <1>1, <1>2, <1>4, <1>5
<1>7. ASSUME NEW i \in 1..Len(a) PROVE a[i] = b[i]
  <2>1. j + i \in 1..Len(s) /\ k + (j + i) = (k + j) + i /\ i \in 1..Len(b)
    BY <1>1, <1>2, <1>4, <1>6
  <2>2. a[i] = t[k + (j + i)]
    BY <1>1, <1>4, <2>1
  <2>3. QED
    BY <1>5, <2>1, <2>2
<1>8. a = b
  BY <1>4, <1>5, <1>6, <1>7, SeqEqual
<1>9. QED
  BY <1>3, <1>8 DEF a

\* What leads a sequence is passed over.
LEMMA Skipped ==
    ASSUME NEW S, NEW s \in Seq(S), NEW set
    PROVE  \E k \in 0..Len(s) : /\ Skip(s, set) = SubSeq(s, k + 1, Len(s))
                                /\ \A i \in 1..k : s[i] \in set
<1> DEFINE F == {k \in 0..Len(s) : k = Len(s) \/ s[k + 1] \notin set}
           Led(k) == (\A i \in 1..k : s[i] \in set) /\ (k = Len(s) \/ s[k + 1] \notin set)
<1>1. Len(s) \in Nat /\ Len(s) \in F /\ F \subseteq Nat
  OBVIOUS
<1>2. PICK k \in F : \A j \in F : k <= j
  <2> HIDE DEF F
  <2>1. QED
    BY <1>1, LeastOf
<1>3. k \in 0..Len(s) /\ (k = Len(s) \/ s[k + 1] \notin set)
  OBVIOUS
<1>4. ASSUME NEW i \in 1..k PROVE s[i] \in set
  <2>1. i - 1 \in 0..Len(s) /\ (i - 1) + 1 = i /\ ~(k <= i - 1) /\ i - 1 # Len(s)
    BY <1>1, <1>3
  <2>2. i - 1 \notin F
    <3> HIDE DEF F
    <3>1. QED
      BY <1>2, <2>1
  <2>3. ~(s[(i - 1) + 1] \notin set)
    BY <2>1, <2>2
  <2>4. QED
    BY <2>1, <2>3
<1>5. \E j \in 0..Len(s) : Led(j)
  BY <1>3, <1>4
<1> DEFINE m == CHOOSE j \in 0..Len(s) : Led(j)
<1>6. m \in 0..Len(s) /\ Led(m)
  <2> HIDE DEF Led
  <2>1. QED
    BY <1>5
<1>7. Skip(s, set) = SubSeq(s, m + 1, Len(s))
  BY DEF Skip
<1> HIDE DEF m
<1>8. QED
  BY <1>6, <1>7

\* The i128 saturates once and for all.
LEMMA SaturatedStep ==
    ASSUME NEW v \in Nat, NEW r \in Nat \ {0}, NEW d \in Nat
    PROVE  /\ Saturating(Saturating(Saturating(v) * r) + d) = Saturating(v * r + d)
           /\ Saturating(v) \in 0..Max128 /\ v * r \in Nat
<1>1. Max128 \in Nat
  BY LiteralAssumption
<1>2. v * r \in Nat /\ Max128 * r \in Nat
  BY <1>1, \A x, y \in Nat : x * y \in Nat
<1>3. 1 * Max128 <= r * Max128 /\ r * Max128 = Max128 * r
  BY <1>1, MulMono, MulAssoc
<1>4. Max128 <= v => Max128 * r <= v * r
  BY <1>1, MulMono
<1> DEFINE a == v * r
           b == Max128 * r
<1>5. CASE v <= Max128
  <2>1. Saturating(v) = v
    BY <1>5 DEF Saturating, SmallerOf
  <2> HIDE DEF a
  <2>2. Saturating(Saturating(a) + d) = Saturating(a + d)
    BY <1>1, <1>2 DEF Saturating, SmallerOf, a
  <2>3. QED
    BY <1>1, <1>2, <1>5, <2>1, <2>2 DEF a
<1>6. CASE ~(v <= Max128)
  <2>1. Saturating(v) = Max128 /\ a >= b /\ b >= Max128 /\ a \in Nat /\ b \in Nat
    BY <1>1, <1>2, <1>3, <1>4, <1>6 DEF Saturating, SmallerOf
  <2> HIDE DEF a, b
  <2>2. Saturating(Saturating(b) + d) = Max128 /\ Saturating(a + d) = Max128
    BY <1>1, <2>1 DEF Saturating, SmallerOf
  <2>3. QED
    BY <1>1, <1>2, <2>1, <2>2 DEF a, b
<1>7. QED
  BY <1>5, <1>6

\* What does not leave the type does not wrap.
LEMMA WrappedIn ==
    ASSUME NEW e \in Int
    PROVE  Wrapped(e) \in Integer32 /\ (e \in Integer32 => Wrapped(e) = e)
<1>1. Max32 \in Nat
  BY LiteralAssumption
<1> DEFINE p == 2 * (Max32 + 1)
           a == e + Max32 + 1
<1>2. p \in Nat \ {0} /\ a \in Int
  BY <1>1
<1>3. a % p \in 0..(p - 1)
  <2> HIDE DEF a, p
  <2>1. QED
    BY <1>2
<1>4. e \in Integer32 => a \in 0..(p - 1)
  BY <1>1 DEF Integer32
<1>5. a \in 0..(p - 1) => a % p = a
  <2> HIDE DEF a, p
  <2>1. QED
    BY <1>2
<1>6. Wrapped(e) = (a % p) - (Max32 + 1)
  BY DEF Wrapped
<1> DEFINE m == a % p
<1> HIDE DEF m
<1>7. m - (Max32 + 1) \in Integer32
  BY <1>1, <1>3 DEF Integer32, m
<1>8. e \in Integer32 => m - (Max32 + 1) = e
  BY <1>1, <1>4, <1>5 DEF m, Integer32
<1>9. QED
  BY <1>6, <1>7, <1>8 DEF m

Reads    == {"integer", "whole", "fraction"}
LRead    == Len(literal.text) - Len(src)       \* how much has been read
LValue   == ValueTo(literal.text, 0..(base - 1), base)
LCount   == CountTo(literal.text, 0..(base - 1))
TenText  == SubSeq(literal.text, MarkAt + 1, Len(literal.text))
TenValue == ValueTo(TenText, 0..(Ten - 1), Ten)

LiteralTypeOK ==
    /\ literal \in [text : Seq(0..LOther), radix : Nat, exp : Integer32]
    /\ positive \in BOOLEAN /\ base \in 2..MaxRadix
    /\ num \in 0..Max128 /\ count \in 0..Max8 /\ exp \in Integer32
    /\ ePart \in [up : BOOLEAN, n : 0..Max128]
    /\ unpacked \in Decimal
    /\ lpc \in Stages \union {"sign", "decimal", "unpacked", "invalidradix", "unparseable", "empty", "fractionempty",
                               "underflow", "invalidexp", "exceeds", "panics"}
    /\ RestAt(literal.text, src, LRead)

SignPart ==
    lpc = "sign" => src = literal.text /\ num = 0 /\ count = 0 /\ exp = literal.exp

\* The number read so far, where no mark has been met, and the decimals behind the point.
MantissaPart ==
    lpc \in Reads =>
        /\ num = Saturating(LValue[LRead]) /\ exp = literal.exp
        /\ \A i \in 1..LRead : literal.text[i] # LExponent
        /\ positive <=> ~Starts(literal.text, {LMinus})
        /\ lpc # "integer" => base = Ten
        /\ lpc # "fraction" => \A i \in 1..LRead : literal.text[i] # LPoint
        /\ lpc = "fraction" =>
            \E p \in 1..LRead :
                /\ literal.text[p] = LPoint
                /\ \A i \in 1..LRead : literal.text[i] = LPoint => i = p
                /\ LCount[LRead] - LCount[p] <= Max8 => count = LCount[LRead] - LCount[p]

\* The mantissa, and the exponent read so far.
TenfoldPart ==
    lpc = "exponent" =>
        /\ base = Ten /\ MarkAt \in 1..LRead
        /\ num = Saturating(Significant)
        /\ positive <=> ~Starts(literal.text, {LMinus})
        /\ NothingWraps => exp = literal.exp - Decimals
        /\ ePart.up <=> ~Starts(TenText, {LMinus})
        /\ ePart.n = Saturating(TenValue[LRead - MarkAt])

DecimalPart ==
    lpc = "decimal" =>
        /\ num = Saturating(Significant)
        /\ positive <=> ~Starts(literal.text, {LMinus})
        /\ NothingWraps => exp = Power

LiteralInv == LiteralTypeOK /\ SignPart /\ MantissaPart /\ TenfoldPart /\ DecimalPart /\ LiteralAgrees

\* What the bytes are.
LEMMA LiteralBytes ==
    /\ MaxRadix \in Nat /\ Ten \in 2..MaxRadix /\ 0..LOther \subseteq Nat
    /\ \A b \in 2..MaxRadix : /\ b \in Nat \ {0} /\ 0 \in 0..(b - 1) /\ 0..(b - 1) \subseteq Nat
                             /\ LPoint \notin 0..(b - 1) /\ LUnderscore \notin 0..(b - 1) /\ LMinus \notin 0..(b - 1)
                             /\ LPlus \notin 0..(b - 1) /\ LBlank \notin 0..(b - 1) /\ LExponent \notin 0..(b - 1)
                             /\ LBinary \notin 0..(b - 1) /\ LHex \notin 0..(b - 1)
    /\ LExponent \notin {0, LPoint, LUnderscore, LMinus, LPlus, LBlank, LBinary, LHex}
    /\ LPoint \notin {0, LUnderscore, LMinus, LPlus, LBlank, LBinary, LHex}
    /\ LMinus # LPlus /\ LMinus # LExponent
<1>1. Ten \in Nat /\ Ten > 1
  BY BaseAssumption
<1>2. QED
  BY <1>1 DEF MaxRadix, LPoint, LUnderscore, LMinus, LPlus, LBlank, LExponent, LBinary, LHex, LOther

LEMMA SequenceWithin ==
    ASSUME NEW S, NEW U, S \subseteq U, NEW t \in Seq(S)
    PROVE  t \in Seq(U) /\ Len(t) \in Nat
  OBVIOUS

\* The first of a set.
LEMMA FirstFound ==
    ASSUME NEW set, set \subseteq Nat, NEW n
    PROVE  /\ set = {} => FirstOf(set, n) = n
           /\ set # {} => FirstOf(set, n) \in set /\ \A j \in set : FirstOf(set, n) <= j
<1>1. set # {} => \E i \in set : \A j \in set : i <= j
  BY LeastOf
<1>2. QED
  BY <1>1 DEF FirstOf

\* The mantissa ends where no mark is before, at the first mark or with the text.
LEMMA MarkFound ==
    ASSUME LiteralTypeOK, NEW k \in 0..Len(literal.text),
           \A i \in 1..k : literal.text[i] # LExponent,
           k = Len(literal.text) \/ literal.text[k + 1] = LExponent
    PROVE  MarkAt = k + 1
<1> DEFINE t == literal.text
           set == {i \in DOMAIN t : t[i] = LExponent}
<1>1. t \in Seq(0..LOther) /\ Len(t) \in Nat /\ DOMAIN t = 1..Len(t) /\ set \subseteq Nat
  BY DEF LiteralTypeOK
<1>2. MarkAt = FirstOf(set, Len(t) + 1)
  BY DEF MarkAt
<1>3. CASE k = Len(t)
  <2>1. set = {}
    BY <1>1, <1>3
  <2> HIDE DEF set
  <2>2. QED
    BY <1>1, <1>2, <1>3, <2>1, FirstFound
<1>4. CASE k # Len(t)
  <2>1. k + 1 \in set /\ set # {}
    BY <1>1, <1>4
  <2>2. \A i \in set : k + 1 <= i
    BY <1>1
  <2> DEFINE f == FirstOf(set, Len(t) + 1)
  <2> HIDE DEF set
  <2>3. f \in set /\ \A j \in set : f <= j
    BY <1>1, <2>1, FirstFound
  <2>4. f \in Nat /\ f <= k + 1 /\ k + 1 <= f
    BY <1>1, <2>1, <2>2, <2>3
  <2>5. QED
    BY <1>2, <2>4
<1>5. QED
  BY <1>3, <1>4

\* The point is the first of the points in the mantissa.
LEMMA PointFound ==
    ASSUME LiteralTypeOK, MarkAt \in 1..(Len(literal.text) + 1)
    PROVE  /\ (\A i \in 1..(MarkAt - 1) : literal.text[i] # LPoint) => PointAt = MarkAt - 1
           /\ \A p \in 1..(MarkAt - 1) :
                 literal.text[p] = LPoint /\ (\A i \in 1..(MarkAt - 1) : literal.text[i] = LPoint => i = p) => PointAt = p
<1> DEFINE t == literal.text
           set == {i \in 1..(MarkAt - 1) : t[i] = LPoint}
<1>1. PointAt = FirstOf(set, MarkAt - 1) /\ set \subseteq Nat
  BY DEF PointAt
<1>2. ASSUME \A i \in 1..(MarkAt - 1) : t[i] # LPoint PROVE PointAt = MarkAt - 1
  <2>1. set = {}
    BY <1>2
  <2> HIDE DEF set
  <2>2. QED
    BY <1>1, <2>1, FirstFound
<1>3. ASSUME NEW p \in 1..(MarkAt - 1), t[p] = LPoint, \A i \in 1..(MarkAt - 1) : t[i] = LPoint => i = p
      PROVE  PointAt = p
  <2>1. set # {} /\ \A i \in set : i = p
    BY <1>3
  <2> HIDE DEF set
  <2>2. FirstOf(set, MarkAt - 1) \in set
    BY <1>1, <2>1, FirstFound
  <2>3. QED
    BY <1>1, <2>1, <2>2
<1>4. QED
  BY <1>2, <1>3

\* The functions of the text, at each of its bytes.
LEMMA LiteralSays ==
    ASSUME LiteralTypeOK
    PROVE  /\ LValue \in [0..Len(literal.text) -> Nat] /\ LCount \in [0..Len(literal.text) -> Nat]
           /\ \A i \in 1..Len(literal.text) :
                /\ LValue[i] = IF literal.text[i] \in 0..(base - 1) THEN LValue[i - 1] * base + literal.text[i] ELSE LValue[i - 1]
                /\ LCount[i] = IF literal.text[i] \in 0..(base - 1) THEN LCount[i - 1] + 1 ELSE LCount[i - 1]
           /\ \A j \in 0..Len(literal.text) : \A i \in 0..j : LValue[i] <= LValue[j] /\ LCount[i] <= LCount[j]
           /\ literal.text \in Seq(0..LOther) /\ literal.text \in Seq(Nat) /\ base \in Nat \ {0} /\ base \in 2..MaxRadix
           /\ Len(literal.text) \in Nat /\ LRead \in 0..Len(literal.text)
<1>1. literal.text \in Seq(0..LOther) /\ base \in 2..MaxRadix /\ LRead \in 0..Len(literal.text)
  BY DEF LiteralTypeOK, RestAt
<1>2. literal.text \in Seq(Nat) /\ base \in Nat \ {0} /\ Len(literal.text) \in Nat
  <2>1. 0..LOther \subseteq Nat /\ base \in Nat \ {0}
    BY <1>1, LiteralBytes
  <2>2. QED
    BY <1>1, <2>1, SequenceWithin
<1>3. /\ LValue \in [0..Len(literal.text) -> Nat] /\ LCount \in [0..Len(literal.text) -> Nat]
      /\ \A i \in 1..Len(literal.text) :
            /\ LValue[i] = IF literal.text[i] \in 0..(base - 1) THEN LValue[i - 1] * base + literal.text[i] ELSE LValue[i - 1]
            /\ LCount[i] = IF literal.text[i] \in 0..(base - 1) THEN LCount[i - 1] + 1 ELSE LCount[i - 1]
  BY <1>2, ValueSteps, CountSteps DEF LValue, LCount
<1>4. \A j \in 0..Len(literal.text) : \A i \in 0..j : LValue[i] <= LValue[j] /\ LCount[i] <= LCount[j]
  BY <1>2, SaidGrows DEF LValue, LCount
<1>5. QED
  BY <1>1, <1>2, <1>3, <1>4

\* The same of the exponent.
LEMMA TenfoldSays ==
    ASSUME LiteralTypeOK, MarkAt \in 1..Len(literal.text)
    PROVE  /\ RestAt(literal.text, TenText, MarkAt) /\ TenText \in Seq(Nat) /\ Len(TenText) = Len(literal.text) - MarkAt
           /\ \A i \in 1..Len(TenText) : TenText[i] = literal.text[MarkAt + i]
           /\ TenValue \in [0..Len(TenText) -> Nat] /\ TenValue[0] = 0
           /\ \A i \in 1..Len(TenText) :
                 TenValue[i] = IF TenText[i] \in 0..(Ten - 1) THEN TenValue[i - 1] * Ten + TenText[i] ELSE TenValue[i - 1]
           /\ \A j \in 0..Len(TenText) : \A i \in 0..j : TenValue[i] <= TenValue[j]
           /\ Tenfold = IF Starts(TenText, {LMinus}) THEN -TenValue[Len(TenText)] ELSE TenValue[Len(TenText)]
<1>1. literal.text \in Seq(0..LOther) /\ Len(literal.text) \in Nat
  BY DEF LiteralTypeOK
<1>2. RestAt(literal.text, TenText, MarkAt)
  BY <1>1 DEF RestAt, TenText
<1>3. TenText \in Seq(0..LOther) /\ Len(TenText) = Len(literal.text) - MarkAt /\ \A i \in 1..Len(TenText) : TenText[i] = literal.text[MarkAt + i]
  <2> DEFINE t == literal.text
             m == MarkAt
             e == TenText
  <2>1. t \in Seq(0..LOther) /\ RestAt(t, e, m)
    BY <1>1, <1>2
  <2> HIDE DEF t, m, e
  <2>2. e \in Seq(0..LOther) /\ Len(e) = Len(t) - m /\ \A i \in 1..Len(e) : e[i] = t[m + i]
    BY ONLY <2>1, RestFacts
  <2>3. QED
    BY <2>2 DEF t, m, e
<1>4. TenText \in Seq(Nat) /\ Ten \in Nat \ {0}
  <2>1. 0..LOther \subseteq Nat /\ Ten \in Nat \ {0}
    BY LiteralBytes
  <2>2. QED
    BY <1>3, <2>1, SequenceWithin
<1>5. /\ TenValue \in [0..Len(TenText) -> Nat] /\ TenValue[0] = 0
      /\ \A i \in 1..Len(TenText) :
            TenValue[i] = IF TenText[i] \in 0..(Ten - 1) THEN TenValue[i - 1] * Ten + TenText[i] ELSE TenValue[i - 1]
  BY <1>4, ValueSteps DEF TenValue
<1>6. \A j \in 0..Len(TenText) : \A i \in 0..j : TenValue[i] <= TenValue[j]
  BY <1>4, SaidGrows DEF TenValue
<1>7. Tenfold = IF Starts(TenText, {LMinus}) THEN -TenValue[Len(TenText)] ELSE TenValue[Len(TenText)]
  BY DEF Tenfold, TenText, TenValue
<1>8. QED
  BY <1>2, <1>3, <1>4, <1>5, <1>6, <1>7

LEMMA BeyondRest ==
    ASSUME NEW S, NEW t \in Seq(S), NEW s, NEW k, RestAt(t, s, k), s # <<>>
    PROVE  RestAt(t, Beyond(s), k + 1) /\ k + 1 \in 1..Len(t) /\ Head(s) = t[k + 1]
<1>1. k + 1 \in 1..Len(t) /\ Head(s) = t[k + 1] /\ Len(s) \in Nat \ {0}
  BY RestFacts
<1>2. 1 \in 0..Len(s)
  BY <1>1
<1>3. RestAt(t, SubSeq(s, 1 + 1, Len(s)), k + 1)
  BY <1>2, RestOfRest
<1>4. Beyond(s) = SubSeq(s, 1 + 1, Len(s))
  BY DEF Beyond
<1>5. QED
  BY <1>1, <1>3, <1>4

LEMMA SkipRest ==
    ASSUME NEW S, NEW t \in Seq(S), NEW s, NEW k, RestAt(t, s, k), NEW set
    PROVE  \E n \in k..Len(t) : RestAt(t, Skip(s, set), n) /\ \A i \in (k + 1)..n : t[i] \in set
<1>1. /\ s \in Seq(S) /\ Len(s) = Len(t) - k /\ Len(t) \in Nat /\ k \in Nat
      /\ \A i \in 1..Len(s) : s[i] = t[k + i]
  BY RestFacts
<1>2. PICK j \in 0..Len(s) : Skip(s, set) = SubSeq(s, j + 1, Len(s)) /\ \A i \in 1..j : s[i] \in set
  BY <1>1, Skipped
<1>3. RestAt(t, Skip(s, set), k + j)
  BY <1>2, RestOfRest
<1>4. k + j \in k..Len(t)
  BY <1>1
<1>5. ASSUME NEW i \in (k + 1)..(k + j) PROVE t[i] \in set
  <2>1. i - k \in 1..j /\ i - k \in 1..Len(s) /\ k + (i - k) = i
    BY <1>1
  <2>2. QED
    BY <1>1, <1>2, <2>1
<1>6. QED
  BY <1>3, <1>4, <1>5

\* The next byte.
LEMMA NextByte ==
    ASSUME LiteralTypeOK, src # <<>>
    PROVE  /\ LRead + 1 \in 1..Len(literal.text) /\ Head(src) = literal.text[LRead + 1] /\ Head(src) \in Nat
           /\ RestAt(literal.text, Beyond(src), LRead + 1)
           /\ Len(literal.text) - Len(Beyond(src)) = LRead + 1
           /\ LRead \in Nat /\ (LRead + 1) - 1 = LRead
           /\ 1..(LRead + 1) = 1..LRead \union {LRead + 1}
<1>1. literal.text \in Seq(0..LOther) /\ RestAt(literal.text, src, LRead) /\ literal.text \in Seq(Nat)
  BY LiteralSays DEF LiteralTypeOK
<1>2. /\ RestAt(literal.text, Beyond(src), LRead + 1) /\ LRead + 1 \in 1..Len(literal.text)
      /\ Head(src) = literal.text[LRead + 1]
  BY <1>1, BeyondRest
<1>3. Len(literal.text) - Len(Beyond(src)) = LRead + 1
  BY <1>1, <1>2, RestFacts
<1>4. LRead \in Nat
  BY <1>1 DEF RestAt
<1>5. Head(src) \in Nat
  BY <1>1, <1>2, ElementsOf
<1>6. (LRead + 1) - 1 = LRead /\ 1..(LRead + 1) = 1..LRead \union {LRead + 1}
  BY <1>4
<1>7. QED
  BY <1>2, <1>3, <1>4, <1>5, <1>6

\* What the text says does not change.
LEMMA TextStays ==
    ASSUME literal' = literal, base' = base
    PROVE  /\ MarkAt' = MarkAt /\ PointAt' = PointAt /\ Significant' = Significant /\ Decimals' = Decimals
           /\ TenText' = TenText /\ TenValue' = TenValue /\ Tenfold' = Tenfold /\ Power' = Power
           /\ (NothingWraps' <=> NothingWraps)
           /\ LValue' = LValue /\ LCount' = LCount
<1>1. MarkAt' = MarkAt
  BY DEF MarkAt
<1>2. PointAt' = PointAt /\ TenText' = TenText
  BY <1>1 DEF PointAt, TenText
<1>3. Significant' = Significant /\ Decimals' = Decimals /\ Tenfold' = Tenfold
  BY <1>1, <1>2 DEF Significant, Decimals, Tenfold
<1>4. Power' = Power
  BY <1>3 DEF Power
<1>5. (NothingWraps' <=> NothingWraps)
  BY <1>3, <1>4 DEF NothingWraps, Integer32
<1>6. LValue' = LValue /\ LCount' = LCount /\ TenValue' = TenValue
  BY <1>2 DEF LValue, LCount, TenValue
<1>7. QED
  BY <1>1, <1>2, <1>3, <1>4, <1>5, <1>6

\* A return changes nothing else.
LEMMA ReturnTypeOK ==
    ASSUME LiteralTypeOK, NEW state, Return(state),
           state \in {"invalidradix", "unparseable", "empty", "fractionempty", "underflow", "invalidexp", "exceeds", "panics", "decimal"}
    PROVE  /\ LiteralTypeOK' /\ SignPart' /\ MantissaPart' /\ TenfoldPart'
           /\ state \notin {"underflow", "invalidexp", "exceeds"} => LiteralAgrees'
           /\ state # "decimal" => DecimalPart'
<1>1. /\ lpc' = state /\ literal' = literal /\ src' = src /\ positive' = positive /\ base' = base /\ num' = num
      /\ count' = count /\ exp' = exp /\ ePart' = ePart /\ unpacked' = unpacked
  BY DEF Return
<1>2. LRead' = LRead
  BY <1>1 DEF LRead
<1>3. LiteralTypeOK'
  BY <1>1, <1>2 DEF LiteralTypeOK
<1>4. SignPart' /\ MantissaPart' /\ TenfoldPart'
  BY <1>1 DEF SignPart, MantissaPart, TenfoldPart, Reads
<1>5. state \notin {"underflow", "invalidexp", "exceeds"} => LiteralAgrees'
  BY <1>1 DEF LiteralAgrees
<1>6. state # "decimal" => DecimalPart'
  BY <1>1 DEF DecimalPart
<1>7. QED
  BY <1>3, <1>4, <1>5, <1>6

LEMMA LiteralStarts == LiteralInit => LiteralInv
<1> SUFFICES ASSUME LiteralInit PROVE LiteralInv
  OBVIOUS
<1>1. PICK l \in [text : Seq(0..LOther), radix : Nat, exp : Integer32] : LiteralStart(l)
  BY DEF LiteralInit
<1>2. /\ literal = l /\ src = literal.text /\ positive = TRUE /\ base = Ten /\ num = 0 /\ count = 0 /\ exp = literal.exp
      /\ ePart = [up |-> TRUE, n |-> 0] /\ unpacked = ZERO /\ lpc = "sign"
  BY <1>1 DEF LiteralStart, LiteralIs
<1>3. literal.text \in Seq(0..LOther)
  BY <1>2
<1>4. LRead = 0 /\ RestAt(literal.text, src, 0)
  <2>1. Len(literal.text) \in Nat /\ SubSeq(literal.text, 1, Len(literal.text)) = literal.text
    BY <1>3, SubSeqFull
  <2>2. QED
    BY <1>2, <2>1 DEF LRead, RestAt
<1>5. LiteralTypeOK
  BY <1>1, <1>2, <1>4, LiteralBytes, LiteralAssumption, ZeroType DEF LiteralTypeOK
<1>6. SignPart /\ MantissaPart /\ TenfoldPart /\ DecimalPart /\ LiteralAgrees
  BY <1>2 DEF SignPart, MantissaPart, TenfoldPart, DecimalPart, LiteralAgrees, Reads
<1>7. QED
  BY <1>5, <1>6 DEF LiteralInv

LEMMA InvalidRadixStep == ASSUME LiteralInv, InvalidRadix PROVE LiteralInv'
  BY ReturnTypeOK DEF LiteralInv, InvalidRadix

LEMMA LiteralSignStep == ASSUME LiteralInv, LiteralSign PROVE LiteralInv'
<1> DEFINE t == literal.text
           signed == IF Starts(src, {LMinus}) THEN Skip(Beyond(src), {LBlank}) ELSE src
           prefix == /\ literal.radix = 0
                     /\ Starts(signed, {0}) /\ Starts(Beyond(signed), DOMAIN PrefixRadix)
           Ahead == {0, LMinus, LBlank, LBinary, LHex, LUnderscore}
<1>1. /\ lpc = "sign" /\ literal.radix \in {0} \union (2..MaxRadix)
      /\ positive' = ~Starts(src, {LMinus})
      /\ src' = (IF prefix THEN Skip(Beyond(Beyond(signed)), {LUnderscore}) ELSE signed)
      /\ base' = IF prefix THEN PrefixRadix[signed[2]]
                 ELSE IF literal.radix = 0 THEN Ten ELSE literal.radix
      /\ lpc' = (IF literal.radix = 0 /\ ~prefix THEN "whole" ELSE "integer")
      /\ UNCHANGED <<literal, num, count, exp, ePart, unpacked>>
  BY DEF LiteralSign
<1>2. /\ LiteralTypeOK /\ src = t /\ num = 0 /\ count = 0 /\ exp = literal.exp
      /\ t \in Seq(0..LOther) /\ RestAt(t, src, 0) /\ Len(t) \in Nat
  <2>1. LiteralTypeOK /\ src = t /\ num = 0 /\ count = 0 /\ exp = literal.exp /\ t \in Seq(0..LOther)
    BY <1>1 DEF LiteralInv, SignPart, LiteralTypeOK
  <2>2. Len(t) \in Nat /\ LRead = 0
    BY <2>1 DEF LRead
  <2>3. QED
    BY <2>1, <2>2 DEF LiteralTypeOK
<1>3. PICK k \in 0..Len(t) : RestAt(t, signed, k) /\ \A i \in 1..k : t[i] \in Ahead
  <2>1. CASE Starts(src, {LMinus})
    <3>1. src # <<>> /\ Head(src) = LMinus
      BY <2>1 DEF Starts
    <3>2. RestAt(t, Beyond(src), 0 + 1) /\ Head(src) = t[0 + 1] /\ 0 + 1 \in 1..Len(t)
      BY <1>2, <3>1, BeyondRest
    <3>3. RestAt(t, Beyond(src), 1) /\ t[1] = LMinus /\ 1 \in 1..Len(t)
      BY <3>1, <3>2
    <3>4. PICK n \in 1..Len(t) : RestAt(t, Skip(Beyond(src), {LBlank}), n) /\ \A i \in (1 + 1)..n : t[i] \in {LBlank}
      BY <1>2, <3>3, SkipRest
    <3>5. signed = Skip(Beyond(src), {LBlank})
      BY <2>1
    <3>6. \A i \in 1..n : i = 1 \/ i \in (1 + 1)..n
      OBVIOUS
    <3> HIDE DEF signed
    <3>7. n \in 0..Len(t) /\ \A i \in 1..n : t[i] \in Ahead
      BY <1>2, <3>3, <3>4, <3>6
    <3>8. QED
      BY <3>4, <3>5, <3>7
  <2>2. CASE ~Starts(src, {LMinus})
    <3>1. signed = src /\ 0 \in 0..Len(t) /\ \A i \in 1..0 : FALSE
      BY <1>2, <2>2
    <3> HIDE DEF signed
    <3>2. QED
      BY <1>2, <3>1
  <2>3. QED
    BY <2>1, <2>2
<1> HIDE DEF signed
<1>4. /\ base' \in 2..MaxRadix /\ (lpc' = "whole" => base' = Ten)
      /\ \E n \in 0..Len(t) : RestAt(t, src', n) /\ \A i \in 1..n : t[i] \in Ahead
  <2>1. CASE prefix
    <3>1. signed # <<>> /\ Head(signed) = 0 /\ Beyond(signed) # <<>> /\ Head(Beyond(signed)) \in {LBinary, LHex}
      BY <2>1 DEF Starts, PrefixRadix
    <3>2. RestAt(t, Beyond(signed), k + 1) /\ k + 1 \in 1..Len(t) /\ t[k + 1] = 0
      BY <1>2, <1>3, <3>1, BeyondRest
    <3>3. RestAt(t, Beyond(Beyond(signed)), (k + 1) + 1) /\ (k + 1) + 1 \in 1..Len(t) /\ t[(k + 1) + 1] \in {LBinary, LHex}
      BY <1>2, <3>1, <3>2, BeyondRest
    <3>4. PICK n \in ((k + 1) + 1)..Len(t) :
             /\ RestAt(t, Skip(Beyond(Beyond(signed)), {LUnderscore}), n)
             /\ \A i \in (((k + 1) + 1) + 1)..n : t[i] \in {LUnderscore}
      BY <1>2, <3>3, SkipRest
    <3>5. \A i \in 1..n : i \in 1..k \/ i = k + 1 \/ i = (k + 1) + 1 \/ i \in (((k + 1) + 1) + 1)..n
      OBVIOUS
    <3>6. n \in 0..Len(t) /\ \A i \in 1..n : t[i] \in Ahead
      BY <1>2, <1>3, <3>2, <3>3, <3>4, <3>5
    <3>7. signed[2] \in {LBinary, LHex}
      <4>0. t \in Seq(0..LOther) /\ RestAt(t, signed, k)
        BY <1>2, <1>3
      <4>1. /\ Len(signed) = Len(t) - k /\ \A i \in 1..Len(signed) : signed[i] = t[k + i]
        <5> DEFINE s == signed
        <5>1. t \in Seq(0..LOther) /\ RestAt(t, s, k)
          BY <4>0
        <5> HIDE DEF s, t
        <5>2. Len(s) = Len(t) - k /\ \A i \in 1..Len(s) : s[i] = t[k + i]
          BY ONLY <5>1, RestFacts
        <5>3. QED
          BY <5>2 DEF s
      <4>2. 2 \in 1..Len(signed) /\ k + 2 = (k + 1) + 1
        BY <1>2, <3>3, <4>1
      <4>3. QED
        BY <3>3, <4>1, <4>2
    <3>8. base' \in 2..MaxRadix
      <4>1. MaxRadix \in Nat /\ 2 <= MaxRadix
        BY LiteralBytes
      <4>2. base' = PrefixRadix[signed[2]]
        BY <1>1, <2>1
      <4>3. base' \in {2, MaxRadix}
        BY <3>7, <4>2 DEF PrefixRadix
      <4>4. QED
        BY <4>1, <4>3
    <3>9. src' = Skip(Beyond(Beyond(signed)), {LUnderscore}) /\ lpc' = "integer"
      BY <1>1, <2>1
    <3>10. QED
      BY <3>4, <3>6, <3>8, <3>9
  <2>2. CASE ~prefix
    <3> HIDE DEF prefix
    <3>1. src' = signed /\ base' = (IF literal.radix = 0 THEN Ten ELSE literal.radix)
          /\ (lpc' = "whole" => literal.radix = 0)
      BY <1>1, <2>2
    <3>2. base' \in 2..MaxRadix /\ (lpc' = "whole" => base' = Ten)
      BY <1>1, <3>1, LiteralBytes
    <3>3. QED
      BY <1>3, <3>1, <3>2
  <2>3. QED
    BY <2>1, <2>2
<1>5. PICK n \in 0..Len(t) : RestAt(t, src', n) /\ \A i \in 1..n : t[i] \in Ahead
  BY <1>4
<1>6. LRead' = n /\ literal' = literal
  <2>1. t \in Seq(0..LOther) /\ RestAt(t, src', n)
    BY <1>2, <1>5
  <2>2. Len(t) - Len(src') = n
    BY ONLY <2>1, RestFacts
  <2>3. literal' = literal
    BY <1>1
  <2>4. QED
    BY <2>2, <2>3 DEF LRead
<1>7. LiteralTypeOK'
  <2>1. lpc' \in Stages /\ positive' \in BOOLEAN
    BY <1>1 DEF Stages
  <2> HIDE DEF prefix
  <2>2. RestAt(literal.text, src, LRead)'
    BY <1>5, <1>6
  <2>3. QED
    BY <1>1, <1>2, <1>4, <2>1, <2>2 DEF LiteralTypeOK
<1>8. LValue'[n] = 0
  <2> DEFINE D == 0..(base' - 1)
  <2>1. t \in Seq(Nat) /\ base' \in Nat
    BY <1>2, <1>4, LiteralSays
  <2>2. \A i \in 1..n : t[i] \notin D \/ t[i] = 0
    BY <1>4, <1>5, LiteralBytes
  <2>3. n \in 0..Len(t)
    OBVIOUS
  <2>4. ValueTo(t, D, base')[n] = 0
    <3> HIDE DEF D
    <3>1. QED
      BY <2>1, <2>2, <2>3, NothingSaid
  <2>5. QED
    BY <1>6, <2>4 DEF LValue
<1>9. MantissaPart'
  <2>1. num' = Saturating(LValue'[LRead']) /\ exp' = literal'.exp
    BY <1>1, <1>2, <1>6, <1>8, LiteralAssumption DEF Saturating, SmallerOf
  <2>2. \A i \in 1..LRead' : literal'.text[i] # LExponent /\ literal'.text[i] # LPoint
    BY <1>5, <1>6, LiteralBytes
  <2>3. positive' <=> ~Starts(literal'.text, {LMinus})
    BY <1>1, <1>2, <1>6
  <2>4. lpc' # "integer" => base' = Ten
    BY <1>1, <1>4
  <2>5. lpc' # "fraction"
    BY <1>1
  <2>6. QED
    BY <2>1, <2>2, <2>3, <2>4, <2>5 DEF MantissaPart
<1>10. SignPart' /\ TenfoldPart' /\ DecimalPart' /\ LiteralAgrees'
  <2>1. lpc' \in {"whole", "integer"}
    BY <1>1
  <2>2. QED
    BY <2>1 DEF SignPart, TenfoldPart, DecimalPart, LiteralAgrees
<1>11. QED
  BY <1>7, <1>9, <1>10 DEF LiteralInv

\* A byte is passed.
LEMMA BytePassed ==
    ASSUME LiteralTypeOK, src # <<>>, src' = Beyond(src), literal' = literal
    PROVE  LRead' = LRead + 1 /\ RestAt(literal.text, src, LRead)'
<1>1. /\ RestAt(literal.text, Beyond(src), LRead + 1)
      /\ Len(literal.text) - Len(Beyond(src)) = LRead + 1
  BY NextByte
<1>2. LRead' = LRead + 1
  BY <1>1 DEF LRead
<1>3. QED
  BY <1>1, <1>2

LEMMA CounterTypes ==
    /\ \A n \in Nat : Saturating(n) \in 0..Max128
    /\ \A n \in Nat : Counted(n) \in 0..Max8 /\ (n <= Max8 => Counted(n) = n)
<1>1. Max128 \in Nat /\ Max8 \in Nat
  BY LiteralAssumption
<1>2. ASSUME NEW n \in Nat PROVE Saturating(n) \in 0..Max128
  BY <1>1 DEF Saturating, SmallerOf
<1>3. ASSUME NEW n \in Nat PROVE Counted(n) \in 0..Max8 /\ (n <= Max8 => Counted(n) = n)
  <2> DEFINE p == Max8 + 1
  <2>1. p \in Nat \ {0}
    BY <1>1
  <2> HIDE DEF p
  <2>2. n % p \in 0..(p - 1) /\ (n < p => n % p = n)
    BY <2>1
  <2>3. QED
    BY <1>1, <2>2 DEF Counted, p
<1>4. QED
  BY <1>2, <1>3

LEMMA LiteralDigitStep == ASSUME LiteralInv, LiteralDigit PROVE LiteralInv'
<1> DEFINE t == literal.text
           d == Head(src)
<1>1. /\ lpc \in Stages /\ lpc' = lpc /\ src # <<>> /\ d \in 0..(base - 1)
      /\ lpc = "exponent" => ePart' = [ePart EXCEPT !.n = Saturating(Saturating(ePart.n * base) + d)] /\ num' = num
      /\ lpc # "exponent" => num' = Saturating(Saturating(num * base) + d) /\ ePart' = ePart
      /\ count' = Counted(count + 1) /\ src' = Beyond(src)
      /\ UNCHANGED <<literal, positive, base, exp, unpacked>>
  BY DEF LiteralDigit, Starts
<1>2. /\ LiteralTypeOK /\ num \in Nat /\ count \in Nat /\ ePart.n \in Nat /\ Max8 \in Nat
      /\ base \in 2..MaxRadix /\ base \in Nat \ {0} /\ d \in Nat /\ LRead \in Nat
  BY <1>1, LiteralSays, NextByte, LiteralAssumption DEF LiteralInv, LiteralTypeOK
<1>3. /\ LRead' = LRead + 1 /\ RestAt(literal.text, src, LRead)'
      /\ LRead + 1 \in 1..Len(t) /\ d = t[LRead + 1] /\ (LRead + 1) - 1 = LRead
      /\ 1..(LRead + 1) = 1..LRead \union {LRead + 1}
  BY <1>1, <1>2, BytePassed, NextByte
<1>4. /\ MarkAt' = MarkAt /\ Significant' = Significant /\ Decimals' = Decimals
      /\ TenText' = TenText /\ TenValue' = TenValue /\ (NothingWraps' <=> NothingWraps)
      /\ LValue' = LValue /\ LCount' = LCount
  BY <1>1, TextStays
<1> DEFINE product == num * base
<1>5. product \in Nat /\ ePart.n * base \in Nat
  BY <1>2, \A x, y \in Nat : x * y \in Nat
<1>6. /\ Saturating(Saturating(num * base) + d) \in 0..Max128
      /\ Saturating(Saturating(ePart.n * base) + d) \in 0..Max128
      /\ count' \in 0..Max8 /\ (count + 1 <= Max8 => count' = count + 1)
  <2>1. Saturating(num * base) \in Nat /\ Saturating(ePart.n * base) \in Nat
    BY <1>5, CounterTypes
  <2>2. Saturating(num * base) + d \in Nat /\ Saturating(ePart.n * base) + d \in Nat /\ count + 1 \in Nat
    BY <1>2, <2>1
  <2> HIDE DEF d
  <2>3. QED
    BY <1>1, <2>2, CounterTypes
<1>7. LiteralTypeOK'
  <2>1. num' \in 0..Max128
    BY <1>1, <1>2, <1>6 DEF LiteralTypeOK
  <2>2. ePart' \in [up : BOOLEAN, n : 0..Max128]
    <3>1. ePart \in [up : BOOLEAN, n : 0..Max128]
      BY <1>2 DEF LiteralTypeOK
    <3> HIDE DEF d
    <3>2. QED
      BY <1>1, <1>6, <3>1
  <2>3. QED
    BY <1>1, <1>2, <1>3, <1>6, <2>1, <2>2 DEF LiteralTypeOK
<1>8. ASSUME lpc \in Reads PROVE MantissaPart'
  <2>1. /\ num = Saturating(LValue[LRead]) /\ exp = literal.exp
        /\ \A i \in 1..LRead : t[i] # LExponent
        /\ positive <=> ~Starts(t, {LMinus})
        /\ lpc # "integer" => base = Ten
        /\ lpc # "fraction" => \A i \in 1..LRead : t[i] # LPoint
    BY <1>8 DEF LiteralInv, MantissaPart
  <2>2. LValue[LRead + 1] = LValue[LRead] * base + d /\ LCount[LRead + 1] = LCount[LRead] + 1 /\ LValue[LRead] \in Nat
        /\ LCount[LRead] \in Nat /\ LCount \in [0..Len(t) -> Nat]
    BY <1>1, <1>2, <1>3, LiteralSays
  <2>3. t[LRead + 1] # LExponent /\ t[LRead + 1] # LPoint
    BY <1>1, <1>2, <1>3, LiteralBytes
  <2>4. num' = Saturating(LValue[LRead + 1])
    <3>1. num' = Saturating(Saturating(num * base) + d)
      BY <1>1, <1>8 DEF Reads
    <3> DEFINE v == LValue[LRead]
    <3>2. num = Saturating(v) /\ v \in Nat /\ LValue[LRead + 1] = v * base + d
      BY <2>1, <2>2
    <3> HIDE DEF v, d
    <3>3. Saturating(Saturating(num * base) + d) = Saturating(v * base + d)
      BY <1>2, <3>2, SaturatedStep
    <3>4. QED
      BY <3>1, <3>2, <3>3
  <2>5. lpc = "fraction" =>
          \E p \in 1..(LRead + 1) :
                /\ t[p] = LPoint
                /\ \A i \in 1..(LRead + 1) : t[i] = LPoint => i = p
                /\ LCount[LRead + 1] - LCount[p] <= Max8 => count' = LCount[LRead + 1] - LCount[p]
    <3>1. SUFFICES ASSUME lpc = "fraction"
                   PROVE  \E p \in 1..(LRead + 1) :
                            /\ t[p] = LPoint
                            /\ \A i \in 1..(LRead + 1) : t[i] = LPoint => i = p
                            /\ LCount[LRead + 1] - LCount[p] <= Max8 => count' = LCount[LRead + 1] - LCount[p]
      OBVIOUS
    <3>2. PICK p \in 1..LRead : /\ t[p] = LPoint
                                /\ \A i \in 1..LRead : t[i] = LPoint => i = p
                                /\ LCount[LRead] - LCount[p] <= Max8 => count = LCount[LRead] - LCount[p]
      BY <3>1, <1>8 DEF LiteralInv, MantissaPart
    <3>3. p \in 1..(LRead + 1) /\ p \in 0..Len(t) /\ LCount[p] \in Nat
      <4> DEFINE n == LRead
                 l == Len(t)
      <4>1. n \in Nat /\ l \in Nat /\ n + 1 \in 1..l /\ p \in 1..n
        BY <1>2, <1>3, LiteralSays
      <4> HIDE DEF n, l
      <4>2. p \in 1..(n + 1) /\ p \in 0..l
        BY <4>1
      <4>3. QED
        BY <2>2, <4>2 DEF n, l
    <3>4. \A i \in 1..(LRead + 1) : t[i] = LPoint => i = p
      BY <1>3, <2>3, <3>2
    <3>5. LCount[LRead + 1] - LCount[p] <= Max8 => count' = LCount[LRead + 1] - LCount[p]
      <4> DEFINE a == LCount[LRead]
                 b == LCount[p]
      <4>1. a \in Nat /\ b \in Nat /\ LCount[LRead + 1] = a + 1 /\ (a - b <= Max8 => count = a - b)
        BY <2>2, <3>2, <3>3
      <4> HIDE DEF a
      <4>2. LCount[LRead + 1] - b <= Max8 => count' = LCount[LRead + 1] - b
        <5> HIDE DEF b
        <5>1. QED
          BY <1>2, <1>6, <4>1
      <4>3. QED
        BY <4>2
    <3>6. QED
      BY <3>2, <3>3, <3>4, <3>5
  <2>6. (\A i \in 1..(LRead + 1) : t[i] # LExponent) /\ (lpc # "fraction" => \A i \in 1..(LRead + 1) : t[i] # LPoint)
    BY <1>3, <2>1, <2>3
  <2> HIDE DEF d
  <2>7. QED
    BY <1>1, <1>3, <1>4, <2>1, <2>4, <2>5, <2>6 DEF MantissaPart
<1>9. ASSUME lpc = "exponent" PROVE TenfoldPart'
  <2>1. /\ base = Ten /\ MarkAt \in 1..LRead
        /\ num = Saturating(Significant)
        /\ positive <=> ~Starts(t, {LMinus})
        /\ NothingWraps => exp = literal.exp - Decimals
        /\ ePart.up <=> ~Starts(TenText, {LMinus})
        /\ ePart.n = Saturating(TenValue[LRead - MarkAt])
    BY <1>9 DEF LiteralInv, TenfoldPart
  <2>2. MarkAt \in 1..Len(t) /\ Len(t) \in Nat
    BY <1>2, <1>3, <2>1, LiteralSays
  <2> DEFINE k == LRead + 1 - MarkAt
  <2>3. k \in 1..(Len(t) - MarkAt) /\ MarkAt + k = LRead + 1 /\ k - 1 = LRead - MarkAt /\ k - 1 \in 0..(Len(t) - MarkAt)
    <3> DEFINE n == LRead
               l == Len(t)
               m == MarkAt
    <3>1. n \in Nat /\ l \in Nat /\ n + 1 \in 1..l /\ m \in 1..n
      BY <1>2, <1>3, <2>1, <2>2
    <3> HIDE DEF n, l, m
    <3>2. n + 1 - m \in 1..(l - m) /\ m + (n + 1 - m) = n + 1 /\ (n + 1 - m) - 1 = n - m /\ (n + 1 - m) - 1 \in 0..(l - m)
      BY <3>1
    <3>3. QED
      BY <3>2 DEF n, l, m
  <2> HIDE DEF k
  <2>4. TenText[k] = d /\ TenValue[k] = TenValue[k - 1] * Ten + d /\ TenValue[k - 1] \in Nat
    <3>1. /\ Len(TenText) = Len(t) - MarkAt
          /\ \A i \in 1..Len(TenText) : TenText[i] = t[MarkAt + i]
          /\ TenValue \in [0..Len(TenText) -> Nat]
          /\ \A i \in 1..Len(TenText) :
                 TenValue[i] = IF TenText[i] \in 0..(Ten - 1) THEN TenValue[i - 1] * Ten + TenText[i] ELSE TenValue[i - 1]
      BY <1>2, <2>2, TenfoldSays
    <3>2. TenText[k] = d
      BY <1>3, <2>3, <3>1
    <3>3. d \in 0..(Ten - 1)
      BY <1>1, <2>1
    <3>4. QED
      BY <2>3, <3>1, <3>2, <3>3
  <2>5. ePart'.n = Saturating(TenValue[k]) /\ ePart'.up = ePart.up /\ num' = num
    <3>1. ePart' = [ePart EXCEPT !.n = Saturating(Saturating(ePart.n * base) + d)] /\ num' = num
      BY <1>1, <1>9
    <3>2. ePart \in [up : BOOLEAN, n : 0..Max128]
      BY <1>2 DEF LiteralTypeOK
    <3> DEFINE v == TenValue[k - 1]
    <3>3. ePart.n = Saturating(v) /\ v \in Nat /\ TenValue[k] = v * base + d
      BY <2>1, <2>3, <2>4
    <3> HIDE DEF v, d
    <3>4. Saturating(Saturating(ePart.n * base) + d) = Saturating(v * base + d)
      BY <1>2, <3>3, SaturatedStep
    <3>5. QED
      BY <3>1, <3>2, <3>3, <3>4
  <2>6. LRead' - MarkAt' = k /\ MarkAt' \in 1..LRead'
    BY <1>2, <1>3, <1>4, <2>1, <2>3
  <2> HIDE DEF d
  <2>7. QED
    BY <1>1, <1>4, <2>1, <2>5, <2>6 DEF TenfoldPart
<1>10. SignPart' /\ DecimalPart' /\ LiteralAgrees'
  BY <1>1 DEF SignPart, DecimalPart, LiteralAgrees, Stages
<1>11. (lpc \notin Reads => MantissaPart') /\ (lpc # "exponent" => TenfoldPart')
  BY <1>1 DEF MantissaPart, TenfoldPart
<1>12. QED
  BY <1>7, <1>8, <1>9, <1>10, <1>11 DEF LiteralInv

LEMMA LiteralUnderscoreStep == ASSUME LiteralInv, LiteralUnderscore PROVE LiteralInv'
<1> DEFINE t == literal.text
<1>1. /\ lpc \in Stages /\ lpc' = lpc /\ src # <<>> /\ Head(src) = LUnderscore /\ src' = Beyond(src)
      /\ UNCHANGED <<literal, positive, base, num, count, exp, ePart, unpacked>>
  BY DEF LiteralUnderscore, Starts
<1>2. LiteralTypeOK /\ base \in 2..MaxRadix /\ LRead \in Nat /\ Len(t) \in Nat
  BY <1>1, LiteralSays, NextByte DEF LiteralInv
<1>3. /\ LRead' = LRead + 1 /\ RestAt(literal.text, src, LRead)'
      /\ LRead + 1 \in 1..Len(t) /\ LUnderscore = t[LRead + 1] /\ (LRead + 1) - 1 = LRead
      /\ 1..(LRead + 1) = 1..LRead \union {LRead + 1}
  BY <1>1, <1>2, BytePassed, NextByte
<1>4. /\ MarkAt' = MarkAt /\ Significant' = Significant /\ Decimals' = Decimals
      /\ TenText' = TenText /\ TenValue' = TenValue /\ (NothingWraps' <=> NothingWraps)
      /\ LValue' = LValue /\ LCount' = LCount
  BY <1>1, TextStays
<1>5. LUnderscore \notin 0..(base - 1) /\ LUnderscore # LExponent /\ LUnderscore # LPoint /\ LUnderscore \notin 0..(Ten - 1)
  BY <1>2, LiteralBytes
<1>6. LiteralTypeOK'
  BY <1>1, <1>2, <1>3 DEF LiteralTypeOK
<1>7. ASSUME lpc \in Reads PROVE MantissaPart'
  <2>1. /\ num = Saturating(LValue[LRead]) /\ exp = literal.exp
        /\ \A i \in 1..LRead : t[i] # LExponent
        /\ positive <=> ~Starts(t, {LMinus})
        /\ lpc # "integer" => base = Ten
        /\ lpc # "fraction" => \A i \in 1..LRead : t[i] # LPoint
    BY <1>7 DEF LiteralInv, MantissaPart
  <2>2. LValue[LRead + 1] = LValue[LRead] /\ LCount[LRead + 1] = LCount[LRead]
    BY <1>2, <1>3, <1>5, LiteralSays
  <2>3. lpc = "fraction" =>
          \E p \in 1..(LRead + 1) :
                /\ t[p] = LPoint
                /\ \A i \in 1..(LRead + 1) : t[i] = LPoint => i = p
                /\ LCount[LRead + 1] - LCount[p] <= Max8 => count' = LCount[LRead + 1] - LCount[p]
    <3>1. SUFFICES ASSUME lpc = "fraction"
                   PROVE  \E p \in 1..(LRead + 1) :
                            /\ t[p] = LPoint
                            /\ \A i \in 1..(LRead + 1) : t[i] = LPoint => i = p
                            /\ LCount[LRead + 1] - LCount[p] <= Max8 => count' = LCount[LRead + 1] - LCount[p]
      OBVIOUS
    <3>2. PICK p \in 1..LRead : /\ t[p] = LPoint
                                /\ \A i \in 1..LRead : t[i] = LPoint => i = p
                                /\ LCount[LRead] - LCount[p] <= Max8 => count = LCount[LRead] - LCount[p]
      BY <3>1, <1>7 DEF LiteralInv, MantissaPart
    <3>3. p \in 1..(LRead + 1)
      BY <1>2
    <3>4. \A i \in 1..(LRead + 1) : t[i] = LPoint => i = p
      BY <1>3, <1>5, <3>2
    <3>5. LCount[LRead + 1] - LCount[p] <= Max8 => count' = LCount[LRead + 1] - LCount[p]
      BY <1>1, <2>2, <3>2
    <3>6. QED
      BY <3>2, <3>3, <3>4, <3>5
  <2>4. (\A i \in 1..(LRead + 1) : t[i] # LExponent) /\ (lpc # "fraction" => \A i \in 1..(LRead + 1) : t[i] # LPoint)
    BY <1>3, <1>5, <2>1
  <2>5. QED
    BY <1>1, <1>3, <1>4, <2>1, <2>2, <2>3, <2>4 DEF MantissaPart
<1>8. ASSUME lpc = "exponent" PROVE TenfoldPart'
  <2>1. /\ base = Ten /\ MarkAt \in 1..LRead
        /\ num = Saturating(Significant)
        /\ positive <=> ~Starts(t, {LMinus})
        /\ NothingWraps => exp = literal.exp - Decimals
        /\ ePart.up <=> ~Starts(TenText, {LMinus})
        /\ ePart.n = Saturating(TenValue[LRead - MarkAt])
    BY <1>8 DEF LiteralInv, TenfoldPart
  <2>2. MarkAt \in 1..Len(t)
    BY <1>2, <1>3, <2>1
  <2> DEFINE k == LRead + 1 - MarkAt
  <2>3. k \in 1..(Len(t) - MarkAt) /\ MarkAt + k = LRead + 1 /\ k - 1 = LRead - MarkAt
    <3> DEFINE n == LRead
               l == Len(t)
               m == MarkAt
    <3>1. n \in Nat /\ l \in Nat /\ n + 1 \in 1..l /\ m \in 1..n
      BY <1>2, <1>3, <2>1, <2>2
    <3> HIDE DEF n, l, m
    <3>2. n + 1 - m \in 1..(l - m) /\ m + (n + 1 - m) = n + 1 /\ (n + 1 - m) - 1 = n - m
      BY <3>1
    <3>3. QED
      BY <3>2 DEF n, l, m
  <2> HIDE DEF k
  <2>4. TenValue[k] = TenValue[k - 1]
    <3>1. /\ Len(TenText) = Len(t) - MarkAt
          /\ \A i \in 1..Len(TenText) : TenText[i] = t[MarkAt + i]
          /\ \A i \in 1..Len(TenText) :
                 TenValue[i] = IF TenText[i] \in 0..(Ten - 1) THEN TenValue[i - 1] * Ten + TenText[i] ELSE TenValue[i - 1]
      BY <1>2, <2>2, TenfoldSays
    <3>2. TenText[k] = LUnderscore
      BY <1>3, <2>3, <3>1
    <3>3. QED
      BY <1>5, <2>3, <3>1, <3>2
  <2>5. LRead' - MarkAt' = k /\ MarkAt' \in 1..LRead'
    BY <1>2, <1>3, <1>4, <2>1, <2>3
  <2>6. QED
    BY <1>1, <1>4, <2>1, <2>3, <2>4, <2>5 DEF TenfoldPart
<1>9. SignPart' /\ DecimalPart' /\ LiteralAgrees'
  BY <1>1 DEF SignPart, DecimalPart, LiteralAgrees, Stages
<1>10. (lpc \notin Reads => MantissaPart') /\ (lpc # "exponent" => TenfoldPart')
  BY <1>1 DEF MantissaPart, TenfoldPart
<1>11. QED
  BY <1>6, <1>7, <1>8, <1>9, <1>10 DEF LiteralInv

\* Where a number stops its reading goes no further in the same stage.
LEMMA MantissaRead ==
    ASSUME LiteralTypeOK, MantissaPart, lpc \in Reads, src = <<>> \/ Head(src) = LExponent
    PROVE  /\ MarkAt = LRead + 1 /\ MarkAt - 1 = LRead /\ MarkAt \in 1..(Len(literal.text) + 1)
           /\ num = Saturating(Significant)
           /\ lpc # "fraction" => Decimals = 0
           /\ lpc = "fraction" => (Decimals <= Max8 => count = Decimals)
           /\ Decimals \in Nat
<1> DEFINE t == literal.text
<1>1. t \in Seq(0..LOther) /\ RestAt(t, src, LRead) /\ Len(t) \in Nat /\ LRead \in 0..Len(t)
      /\ LValue \in [0..Len(t) -> Nat] /\ LCount \in [0..Len(t) -> Nat]
      /\ \A j \in 0..Len(t) : \A i \in 0..j : LCount[i] <= LCount[j]
  BY LiteralSays DEF LiteralTypeOK
<1>2. LRead = Len(t) \/ t[LRead + 1] = LExponent
  BY <1>1, RestFacts
<1>3. MarkAt = LRead + 1
  BY <1>1, <1>2, MarkFound DEF MantissaPart
<1>4. MarkAt - 1 = LRead /\ MarkAt \in 1..(Len(t) + 1)
  BY <1>1, <1>3
<1>5. Significant = LValue[LRead] /\ num = Saturating(Significant)
  BY <1>4 DEF Significant, LValue, MantissaPart
<1>6. Decimals = LCount[LRead] - LCount[PointAt]
  BY <1>4 DEF Decimals, LCount
<1>7. ASSUME lpc # "fraction" PROVE Decimals = 0
  <2>1. PointAt = LRead
    BY <1>4, <1>7, PointFound DEF MantissaPart
  <2>2. LCount[LRead] \in Nat
    BY <1>1
  <2>3. QED
    BY <1>6, <2>1, <2>2
<1>8. ASSUME lpc = "fraction" PROVE Decimals \in Nat /\ (Decimals <= Max8 => count = Decimals)
  <2>1. PICK p \in 1..LRead : /\ t[p] = LPoint
                              /\ \A i \in 1..LRead : t[i] = LPoint => i = p
                              /\ LCount[LRead] - LCount[p] <= Max8 => count = LCount[LRead] - LCount[p]
    BY <1>8 DEF MantissaPart
  <2>2. PointAt = p
    BY <1>4, <2>1, PointFound
  <2>3. LCount[p] <= LCount[LRead] /\ LCount[p] \in Nat /\ LCount[LRead] \in Nat
    BY <1>1, SMTT(30)
  <2>4. LCount[LRead] - LCount[p] \in Nat
    <3> DEFINE a == LCount[p]
               b == LCount[LRead]
    <3>1. a \in Nat /\ b \in Nat /\ a <= b
      BY <2>3
    <3> HIDE DEF a, b
    <3>2. b - a \in Nat
      BY <3>1
    <3>3. QED
      BY <3>2 DEF a, b
  <2>5. QED
    BY <1>6, <2>1, <2>2, <2>4
<1>9. Decimals \in Nat
  BY <1>7, <1>8
<1>10. QED
  BY <1>3, <1>4, <1>5, <1>7, <1>8, <1>9

\* A text without a mark has no exponent.
LEMMA NoExponentSaid ==
    ASSUME LiteralTypeOK, MarkAt = Len(literal.text) + 1, Decimals \in Nat
    PROVE  Tenfold = 0 /\ Power = literal.exp - Decimals
<1> DEFINE t == literal.text
           e == SubSeq(t, MarkAt + 1, Len(t))
<1>1. t \in Seq(0..LOther) /\ Len(t) \in Nat /\ literal.exp \in Int
  BY LiteralAssumption DEF LiteralTypeOK, Integer32
<1>2. e = <<>>
  BY <1>1
<1> HIDE DEF e
<1>3. e \in Seq(Nat) /\ Len(e) = 0 /\ Ten \in Nat
  BY <1>2, LiteralBytes
<1>4. ValueTo(e, 0..(Ten - 1), Ten)[0] = 0
  <2> DEFINE D == 0..(Ten - 1)
  <2> HIDE DEF D
  <2>1. e \in Seq(Nat) /\ Ten \in Nat
    BY <1>3
  <2>2. ValueTo(e, D, Ten)[0] = 0
    BY ONLY <2>1, ValueSteps
  <2>3. QED
    BY <2>2 DEF D
<1>5. ~Starts(e, {LMinus}) /\ ValueTo(e, 0..(Ten - 1), Ten)[Len(e)] = 0
  BY <1>2, <1>3, <1>4 DEF Starts
<1>6. Tenfold = 0
  BY <1>5 DEF Tenfold, e
<1>7. QED
  BY <1>1, <1>6 DEF Power

\* The mantissa reaches at least as far as has been read.
LEMMA MarkBeyond ==
    ASSUME LiteralTypeOK, \A i \in 1..LRead : literal.text[i] # LExponent
    PROVE  MarkAt - 1 \in 0..Len(literal.text) /\ LRead \in 0..(MarkAt - 1)
<1> DEFINE t == literal.text
           set == {i \in DOMAIN t : t[i] = LExponent}
<1>1. t \in Seq(0..LOther) /\ Len(t) \in Nat /\ DOMAIN t = 1..Len(t) /\ set \subseteq 1..Len(t) /\ set \subseteq Nat
      /\ LRead \in 0..Len(t)
  BY LiteralSays DEF LiteralTypeOK
<1>2. MarkAt = FirstOf(set, Len(t) + 1)
  BY DEF MarkAt
<1>3. \A i \in set : i \notin 1..LRead
  OBVIOUS
<1> HIDE DEF set
<1>4. MarkAt = Len(t) + 1 \/ MarkAt \in set
  BY <1>1, <1>2, FirstFound
<1> DEFINE n == LRead
           l == Len(t)
           m == MarkAt
<1>5. n \in 0..l /\ l \in Nat /\ (m = l + 1 \/ (m \in 1..l /\ m \notin 1..n))
  BY <1>1, <1>3, <1>4
<1> HIDE DEF n, l, m
<1>6. m - 1 \in 0..l /\ n \in 0..(m - 1)
  BY <1>5
<1>7. QED
  BY <1>6 DEF n, l, m

\* The mantissa is complete.
LEMMA AfterMantissaStep ==
    ASSUME LiteralInv, lpc \in {"whole", "fraction"}, AfterMantissa,
           literal' = literal, base' = base, positive' = positive, num' = num, unpacked' = unpacked,
           count' \in 0..Max8, exp' \in Integer32,
           src = <<>> \/ Starts(src, {LExponent}) => (NothingWraps => exp' = literal.exp - Decimals)
    PROVE  LiteralInv'
<1> DEFINE t == literal.text
<1>1. /\ LiteralTypeOK /\ MantissaPart /\ lpc \in Reads /\ t \in Seq(0..LOther) /\ RestAt(t, src, LRead)
      /\ base = Ten /\ (positive <=> ~Starts(t, {LMinus})) /\ Len(t) \in Nat /\ LRead \in 0..Len(t)
  BY LiteralSays DEF LiteralInv, LiteralTypeOK, MantissaPart, Reads
<1>2. /\ MarkAt' = MarkAt /\ Significant' = Significant /\ Decimals' = Decimals
      /\ TenText' = TenText /\ TenValue' = TenValue /\ Power' = Power /\ (NothingWraps' <=> NothingWraps)
  BY TextStays
<1>3. CASE Starts(src, {LExponent})
  <2> DEFINE sign == Starts(Beyond(src), {LMinus, LPlus})
  <2>1. /\ src # <<>> /\ Head(src) = LExponent /\ lpc' = "exponent"
        /\ ePart' = [up |-> ~Starts(Beyond(src), {LMinus}), n |-> 0]
        /\ src' = IF sign THEN Beyond(Beyond(src)) ELSE Beyond(src)
    BY <1>3 DEF AfterMantissa, Starts
  <2>2. MarkAt = LRead + 1 /\ num = Saturating(Significant)
    BY <1>1, <2>1, MantissaRead
  <2>3. RestAt(t, Beyond(src), MarkAt) /\ MarkAt \in 1..Len(t)
    BY <1>1, <2>1, <2>2, NextByte
  <2>4. /\ Beyond(src) = TenText
        /\ TenText \in Seq(Nat) /\ Len(TenText) = Len(t) - MarkAt
        /\ TenValue \in [0..Len(TenText) -> Nat] /\ TenValue[0] = 0
        /\ \A i \in 1..Len(TenText) :
              TenValue[i] = IF TenText[i] \in 0..(Ten - 1) THEN TenValue[i - 1] * Ten + TenText[i] ELSE TenValue[i - 1]
    <3>1. Beyond(src) = TenText
      BY <2>3 DEF RestAt, TenText
    <3>2. QED
      BY <1>1, <2>3, <3>1, TenfoldSays
  <2>5. \E k \in 0..Len(TenText) : RestAt(t, src', MarkAt + k) /\ TenValue[k] = 0
    <3>1. CASE sign
      <4>1. TenText # <<>> /\ Head(TenText) \in {LMinus, LPlus} /\ RestAt(t, TenText, MarkAt)
        BY <2>3, <2>4, <3>1 DEF Starts
      <4>2. RestAt(t, Beyond(TenText), MarkAt + 1)
        <5> HIDE DEF t
        <5>1. QED
          BY ONLY <1>1, <4>1, BeyondRest
      <4>3. Len(TenText) \in Nat /\ 1 \in 1..Len(TenText) /\ Head(TenText) = TenText[1]
        BY <2>4, <4>1
      <4>4. TenText[1] \notin 0..(Ten - 1)
        BY <4>1, <4>3, LiteralBytes
      <4>5. TenValue[1] = 0
        BY <2>4, <4>3, <4>4
      <4>6. src' = Beyond(TenText) /\ 1 \in 0..Len(TenText)
        BY <2>1, <2>4, <3>1, <4>3
      <4>7. QED
        BY <4>2, <4>5, <4>6
    <3>2. CASE ~sign
      <4>1. src' = Beyond(src) /\ MarkAt + 0 = MarkAt /\ 0 \in 0..Len(TenText)
        BY <2>1, <2>3, <2>4, <3>2
      <4>2. QED
        BY <2>3, <2>4, <4>1
    <3>3. QED
      BY <3>1, <3>2
  <2>6. PICK k \in 0..Len(TenText) : RestAt(t, src', MarkAt + k) /\ TenValue[k] = 0
    BY <2>5
  <2>7. LRead' = MarkAt + k /\ LRead' - MarkAt = k /\ MarkAt \in 1..LRead'
    <3> DEFINE n == MarkAt + k
    <3>1. t \in Seq(0..LOther) /\ RestAt(t, src', n)
      BY <1>1, <2>6
    <3> HIDE DEF n
    <3>2. Len(t) - Len(src') = n
      BY ONLY <3>1, RestFacts
    <3>3. LRead' = n
      BY <3>2 DEF LRead
    <3>4. MarkAt \in Nat \ {0} /\ k \in Nat
      BY <2>3, <2>4
    <3>5. QED
      BY <3>3, <3>4 DEF n
  <2>8. RestAt(literal.text, src, LRead)'
    BY <2>6, <2>7
  <2>9. Saturating(0) = 0 /\ 0 \in 0..Max128
    BY LiteralAssumption DEF Saturating, SmallerOf
  <2>10. LiteralTypeOK'
    <3>1. ePart' \in [up : BOOLEAN, n : 0..Max128]
      BY <2>1, <2>9 DEF Starts
    <3>2. lpc' \in Stages
      BY <2>1 DEF Stages
    <3>3. QED
      BY <1>1, <2>8, <3>1, <3>2 DEF LiteralTypeOK
  <2>11. TenfoldPart'
    <3>1. ePart'.n = Saturating(TenValue'[LRead' - MarkAt']) /\ (ePart'.up <=> ~Starts(TenText', {LMinus}))
      BY <1>2, <2>1, <2>4, <2>6, <2>7, <2>9
    <3>2. NothingWraps' => exp' = literal'.exp - Decimals'
      BY <1>2, <1>3
    <3>3. MarkAt' \in 1..LRead'
      BY <1>2, <2>7
    <3>4. QED
      BY <1>1, <1>2, <2>2, <3>1, <3>2, <3>3 DEF TenfoldPart
  <2>12. SignPart' /\ MantissaPart' /\ DecimalPart' /\ LiteralAgrees'
    BY <2>1 DEF SignPart, MantissaPart, DecimalPart, LiteralAgrees, Reads
  <2>13. QED
    BY <2>10, <2>11, <2>12 DEF LiteralInv
<1>4. CASE ~Starts(src, {LExponent})
  <2>1. lpc' = (IF src = <<>> THEN "decimal" ELSE "unparseable") /\ src' = src /\ ePart' = ePart
    BY <1>4 DEF AfterMantissa
  <2>2. LRead' = LRead
    BY <2>1 DEF LRead
  <2>3. LiteralTypeOK'
    BY <1>1, <2>1, <2>2 DEF LiteralTypeOK
  <2>4. SignPart' /\ MantissaPart' /\ TenfoldPart' /\ LiteralAgrees'
    BY <2>1 DEF SignPart, MantissaPart, TenfoldPart, LiteralAgrees, Reads
  <2>5. DecimalPart'
    <3>1. SUFFICES ASSUME src = <<>> PROVE DecimalPart'
      BY <2>1 DEF DecimalPart
    <3>2. LRead = Len(t) /\ MarkAt = LRead + 1 /\ num = Saturating(Significant) /\ Decimals \in Nat
      BY <1>1, <3>1, MantissaRead, RestFacts
    <3>3. Power = literal.exp - Decimals
      BY <1>1, <3>2, NoExponentSaid
    <3>4. QED
      BY <1>1, <1>2, <3>1, <3>2, <3>3 DEF DecimalPart
  <2>6. QED
    BY <2>3, <2>4, <2>5 DEF LiteralInv
<1>5. QED
  BY <1>3, <1>4

LEMMA IntegerDoneStep == ASSUME LiteralInv, IntegerDone PROVE LiteralInv'
<1> DEFINE state == IF src # <<>> THEN "unparseable" ELSE IF count = 0 THEN "empty" ELSE "decimal"
<1>1. LiteralTypeOK /\ MantissaPart /\ lpc = "integer" /\ lpc \in Reads /\ Return(state)
  BY DEF LiteralInv, IntegerDone, Stopped, Reads
<1>2. state \in {"unparseable", "empty", "decimal"}
  OBVIOUS
<1>3. state = "decimal" => src = <<>>
  OBVIOUS
<1> HIDE DEF state
<1>4. /\ LiteralTypeOK' /\ SignPart' /\ MantissaPart' /\ TenfoldPart' /\ LiteralAgrees'
      /\ state # "decimal" => DecimalPart'
  BY <1>1, <1>2, ReturnTypeOK
<1>5. state = "decimal" => DecimalPart'
  <2>1. SUFFICES ASSUME state = "decimal" PROVE DecimalPart'
    OBVIOUS
  <2>2. MarkAt = LRead + 1 /\ num = Saturating(Significant) /\ Decimals = 0
    BY <1>1, <1>3, <2>1, MantissaRead
  <2>3. LRead = Len(literal.text) /\ literal.exp \in Int
    BY <1>1, <1>3, <2>1, RestFacts, LiteralAssumption DEF LiteralTypeOK, Integer32
  <2>4. Power = literal.exp
    BY <1>1, <2>2, <2>3, NoExponentSaid
  <2>5. exp = literal.exp /\ (positive <=> ~Starts(literal.text, {LMinus}))
    BY <1>1 DEF MantissaPart
  <2>6. UNCHANGED <<literal, base, num, exp, positive>>
    BY <1>1 DEF Return
  <2>7. Significant' = Significant /\ Power' = Power
    BY <2>6, TextStays
  <2>8. QED
    BY <2>2, <2>4, <2>5, <2>6, <2>7 DEF DecimalPart
<1>6. QED
  BY <1>4, <1>5 DEF LiteralInv

LEMMA WholeDoneStep == ASSUME LiteralInv, WholeDone PROVE LiteralInv'
<1> DEFINE t == literal.text
<1>1. /\ LiteralTypeOK /\ MantissaPart /\ lpc = "whole" /\ lpc \in Reads /\ Max8 \in Nat /\ base = Ten
      /\ exp = literal.exp /\ exp \in Integer32 /\ exp \in Int
  BY LiteralAssumption DEF LiteralInv, WholeDone, Stopped, Reads, MantissaPart, LiteralTypeOK, Integer32
<1>2. CASE count = 0 /\ Return("empty")
  BY <1>1, <1>2, ReturnTypeOK DEF LiteralInv
<1>3. CASE /\ count # 0 /\ Starts(src, {LPoint})
           /\ src' = Beyond(src) /\ lpc' = "fraction" /\ count' = 0
           /\ UNCHANGED <<literal, positive, base, num, exp, ePart, unpacked>>
  <2>1. src # <<>> /\ Head(src) = LPoint
    BY <1>3 DEF Starts
  <2>2. /\ LRead' = LRead + 1 /\ RestAt(literal.text, src, LRead)'
        /\ LRead + 1 \in 1..Len(t) /\ LPoint = t[LRead + 1] /\ (LRead + 1) - 1 = LRead /\ LRead \in Nat
        /\ 1..(LRead + 1) = 1..LRead \union {LRead + 1}
    BY <1>1, <1>3, <2>1, BytePassed, NextByte
  <2>3. LValue' = LValue /\ LCount' = LCount
    BY <1>3, TextStays
  <2>4. LPoint \notin 0..(base - 1) /\ LPoint # LExponent
    BY <1>1, LiteralBytes
  <2>5. LValue[LRead + 1] = LValue[LRead] /\ LCount[LRead + 1] \in Nat
    BY <1>1, <2>2, <2>4, LiteralSays, SMTT(30)
  <2>6. LiteralTypeOK'
    BY <1>1, <1>3, <2>2 DEF LiteralTypeOK, Stages
  <2>7. /\ num = Saturating(LValue[LRead])
        /\ \A i \in 1..LRead : t[i] # LExponent /\ t[i] # LPoint
        /\ positive <=> ~Starts(t, {LMinus})
    BY <1>1 DEF MantissaPart
  <2>8. LRead + 1 \in 1..(LRead + 1) /\ \A i \in 1..(LRead + 1) : t[i] # LExponent /\ (t[i] = LPoint => i = LRead + 1)
    BY <2>2, <2>4, <2>7
  <2>9. LCount[LRead + 1] - LCount[LRead + 1] = 0
    BY <2>5
  <2>10. \E p \in 1..(LRead + 1) :
                /\ t[p] = LPoint
                /\ \A i \in 1..(LRead + 1) : t[i] = LPoint => i = p
                /\ LCount[LRead + 1] - LCount[p] <= Max8 => 0 = LCount[LRead + 1] - LCount[p]
    BY <2>2, <2>8, <2>9
  <2>11. MantissaPart'
    BY <1>1, <1>3, <2>2, <2>3, <2>5, <2>7, <2>8, <2>10 DEF MantissaPart
  <2>12. SignPart' /\ TenfoldPart' /\ DecimalPart' /\ LiteralAgrees'
    BY <1>3 DEF SignPart, TenfoldPart, DecimalPart, LiteralAgrees
  <2>13. QED
    BY <2>6, <2>11, <2>12 DEF LiteralInv
<1>4. CASE /\ count # 0 /\ ~Starts(src, {LPoint})
           /\ AfterMantissa /\ count' = 0
           /\ UNCHANGED <<literal, positive, base, num, exp, unpacked>>
  <2>1. src = <<>> \/ Starts(src, {LExponent}) => Decimals = 0
    BY <1>1, MantissaRead DEF Starts
  <2>2. src = <<>> \/ Starts(src, {LExponent}) => (NothingWraps => exp' = literal.exp - Decimals)
    BY <1>1, <1>4, <2>1
  <2>3. count' \in 0..Max8 /\ exp' \in Integer32 /\ lpc \in {"whole", "fraction"}
    BY <1>1, <1>4
  <2>4. QED
    BY <1>4, <2>2, <2>3, AfterMantissaStep
<1>5. QED
  BY <1>2, <1>3, <1>4 DEF WholeDone

LEMMA FractionDoneStep == ASSUME LiteralInv, FractionDone PROVE LiteralInv'
<1> DEFINE t == literal.text
<1>1. /\ LiteralTypeOK /\ MantissaPart /\ lpc = "fraction" /\ lpc \in Reads /\ Max8 \in Nat /\ Max96 \in Nat /\ Max128 \in Nat
      /\ exp = literal.exp /\ exp \in Int /\ count \in Nat
  BY LiteralAssumption, BaseType DEF LiteralInv, FractionDone, Stopped, Reads, MantissaPart, LiteralTypeOK, Integer32
<1>2. CASE Return("fractionempty")
  BY <1>1, <1>2, ReturnTypeOK DEF LiteralInv
<1>3. CASE num > Max96 /\ Return("underflow")
  <2>1. LiteralTypeOK' /\ SignPart' /\ MantissaPart' /\ TenfoldPart' /\ DecimalPart'
    BY <1>1, <1>3, ReturnTypeOK
  <2>2. MarkAt - 1 \in 0..Len(t) /\ LRead \in 0..(MarkAt - 1)
    BY <1>1, MarkBeyond DEF MantissaPart
  <2>3. LValue[LRead] <= LValue[MarkAt - 1] /\ LValue[LRead] \in Nat /\ LValue[MarkAt - 1] \in Nat
    BY <1>1, <2>2, LiteralSays
  <2>4. num = Saturating(LValue[LRead]) /\ Significant = LValue[MarkAt - 1]
    BY <1>1 DEF MantissaPart, Significant, LValue
  <2>5. Significant > Max96
    <3> DEFINE a == LValue[LRead]
               b == LValue[MarkAt - 1]
    <3>1. a <= b /\ a \in Nat /\ b \in Nat /\ num = Saturating(a) /\ Significant = b
      BY <2>3, <2>4
    <3> HIDE DEF a, b
    <3>2. QED
      BY <1>1, <1>3, <3>1 DEF Saturating, SmallerOf
  <2>6. literal' = literal /\ base' = base /\ lpc' = "underflow"
    BY <1>3 DEF Return
  <2>7. LiteralAgrees'
    BY <2>5, <2>6, TextStays DEF LiteralAgrees
  <2>8. QED
    BY <2>1, <2>7 DEF LiteralInv
<1>4. CASE /\ AfterMantissa /\ exp' = Wrapped(exp - count) /\ count' = 0
           /\ UNCHANGED <<literal, positive, base, num, unpacked>>
  <2>1. exp' \in Integer32 /\ (exp - count \in Integer32 => exp' = exp - count)
    BY <1>1, <1>4, WrappedIn
  <2>2. src = <<>> \/ Starts(src, {LExponent}) => (Decimals <= Max8 => count = Decimals)
    BY <1>1, MantissaRead DEF Starts
  <2>3. src = <<>> \/ Starts(src, {LExponent}) => (NothingWraps => exp' = literal.exp - Decimals)
    BY <1>1, <2>1, <2>2 DEF NothingWraps
  <2>4. count' \in 0..Max8 /\ lpc \in {"whole", "fraction"}
    BY <1>1, <1>4
  <2>5. QED
    BY <1>4, <2>1, <2>3, <2>4, AfterMantissaStep
<1>5. QED
  BY <1>2, <1>3, <1>4 DEF FractionDone

LEMMA ExponentDoneStep == ASSUME LiteralInv, ExponentDone PROVE LiteralInv'
<1> DEFINE t == literal.text
           k == LRead - MarkAt
<1>1. /\ LiteralTypeOK /\ lpc = "exponent" /\ Max32 \in Nat /\ Max128 \in Nat /\ Max128 > Max32
      /\ literal.exp \in Int /\ exp \in Int /\ ePart.n \in Nat /\ ePart.up \in BOOLEAN
  BY LiteralAssumption DEF LiteralInv, ExponentDone, Stopped, LiteralTypeOK, Integer32
<1>2. /\ base = Ten /\ MarkAt \in 1..LRead
      /\ num = Saturating(Significant)
      /\ positive <=> ~Starts(t, {LMinus})
      /\ NothingWraps => exp = literal.exp - Decimals
      /\ ePart.up <=> ~Starts(TenText, {LMinus})
      /\ ePart.n = Saturating(TenValue[k])
  BY <1>1 DEF LiteralInv, TenfoldPart
<1>3. LRead \in 0..Len(t) /\ Len(t) \in Nat
  BY <1>1, LiteralSays
<1>4. MarkAt \in 1..Len(t) /\ k \in 0..(Len(t) - MarkAt) /\ Len(t) - MarkAt \in Nat
  <2> DEFINE n == LRead
             l == Len(t)
             m == MarkAt
  <2>1. n \in 0..l /\ l \in Nat /\ m \in 1..n
    BY <1>2, <1>3
  <2> HIDE DEF n, l, m
  <2>2. m \in 1..l /\ n - m \in 0..(l - m) /\ l - m \in Nat
    BY <2>1
  <2>3. QED
    BY <2>2 DEF n, l, m
<1> DEFINE v == TenValue[k]
           w == TenValue[Len(TenText)]
<1>5. /\ Len(TenText) = Len(t) - MarkAt /\ v \in Nat /\ w \in Nat /\ v <= w
      /\ Tenfold = IF Starts(TenText, {LMinus}) THEN -w ELSE w
  <2> HIDE DEF k
  <2>1. /\ Len(TenText) = Len(t) - MarkAt /\ TenValue \in [0..Len(TenText) -> Nat]
        /\ \A j \in 0..Len(TenText) : \A i \in 0..j : TenValue[i] <= TenValue[j]
        /\ Tenfold = IF Starts(TenText, {LMinus}) THEN -TenValue[Len(TenText)] ELSE TenValue[Len(TenText)]
    BY <1>1, <1>4, TenfoldSays
  <2>2. k \in 0..Len(TenText) /\ Len(TenText) \in 0..Len(TenText)
    BY <1>4, <2>1
  <2>3. QED
    BY <2>1, <2>2
<1>6. ePart.n = Saturating(v)
  BY <1>2
<1>7. CASE ePart.n > Max32 /\ Return("invalidexp")
  <2> HIDE DEF v, w
  <2>1. w > Max32
    BY <1>1, <1>5, <1>6, <1>7 DEF Saturating, SmallerOf
  <2>2. Tenfold \notin -Max32..Max32
    BY <1>1, <1>5, <2>1
  <2>3. LiteralTypeOK' /\ SignPart' /\ MantissaPart' /\ TenfoldPart' /\ DecimalPart'
    BY <1>1, <1>7, ReturnTypeOK
  <2>4. literal' = literal /\ base' = base /\ lpc' = "invalidexp" /\ Tenfold' = Tenfold
    BY <1>7, TextStays DEF Return
  <2>5. LiteralAgrees'
    BY <2>2, <2>4 DEF LiteralAgrees
  <2>6. QED
    BY <2>3, <2>5 DEF LiteralInv
<1>8. CASE /\ ePart.n <= Max32
           /\ exp' = Wrapped(exp + Exponential)
           /\ lpc' = IF src = <<>> THEN "decimal" ELSE "unparseable"
           /\ UNCHANGED <<literal, src, positive, base, num, count, ePart, unpacked>>
  <2>1. Exponential \in Int /\ exp + Exponential \in Int
    BY <1>1 DEF Exponential
  <2>2. exp' \in Integer32 /\ (exp + Exponential \in Integer32 => exp' = exp + Exponential)
    BY <1>8, <2>1, WrappedIn
  <2>3. LRead' = LRead
    BY <1>8 DEF LRead
  <2>4. LiteralTypeOK'
    BY <1>1, <1>8, <2>2, <2>3 DEF LiteralTypeOK
  <2>5. SignPart' /\ MantissaPart' /\ TenfoldPart' /\ LiteralAgrees'
    BY <1>8 DEF SignPart, MantissaPart, TenfoldPart, LiteralAgrees, Reads
  <2>6. DecimalPart'
    <3>1. SUFFICES ASSUME src = <<>> PROVE DecimalPart'
      BY <1>8 DEF DecimalPart
    <3>2. LRead = Len(t)
      BY <1>1, <3>1, RestFacts DEF LiteralTypeOK
    <3>3. w = v
      BY <1>5, <3>2
    <3>4. v <= Max128
      <4> HIDE DEF v
      <4>1. QED
        BY <1>1, <1>5, <1>6, <1>8 DEF Saturating, SmallerOf
    <3>5. ePart.n = w
      <4> HIDE DEF v, w
      <4>1. QED
        BY <1>6, <3>3, <3>4 DEF Saturating, SmallerOf
    <3>6. Exponential = Tenfold
      <4> HIDE DEF v, w
      <4>1. QED
        BY <1>1, <1>2, <1>5, <3>5 DEF Exponential
    <3>7. NothingWraps => exp + Exponential = Power
      BY <1>2, <3>6 DEF Power
    <3>8. NothingWraps => exp' = Power
      BY <2>2, <3>7 DEF NothingWraps
    <3>9. Significant' = Significant /\ Power' = Power /\ (NothingWraps' <=> NothingWraps)
      BY <1>8, TextStays
    <3> HIDE DEF k
    <3>10. QED
      BY <1>2, <1>8, <3>8, <3>9 DEF DecimalPart
  <2>7. QED
    BY <2>4, <2>5, <2>6 DEF LiteralInv
<1>9. QED
  BY <1>7, <1>8 DEF ExponentDone

LEMMA OverflowsStep == ASSUME LiteralInv, Overflows PROVE LiteralInv'
  BY ReturnTypeOK DEF LiteralInv, Overflows

\* The number shifted by its exponent, or as it is.
LEMMA ShiftedFacts ==
    ASSUME LiteralTypeOK, DecimalPart, lpc = "decimal", exp \in -MAX_SCALE..MAX_SCALE
    PROVE  /\ exp \in Int /\ Significant \in Nat /\ num \in Nat /\ num = SmallerOf(Significant, Max128)
           /\ Max96 \in Nat /\ Max128 \in Nat /\ Max96 < Max128 /\ MAX_SCALE \in Nat
           /\ LET p == POWERS[IF exp > 0 THEN exp ELSE 0]
              IN  /\ p \in Nat \ {0} /\ (exp <= 0 => p = 1)
                  /\ num * p \in Nat
                  /\ Shifted = IF exp > 0 /\ num <= Max128 \div p THEN num * p ELSE num
<1>1. /\ exp \in Int /\ num \in Nat /\ num = SmallerOf(Significant, Max128) /\ MAX_SCALE \in Nat /\ MAX_SCALE <= PowLimit
      /\ PowLimit \in Nat /\ Max96 \in Nat /\ Max128 \in Nat /\ Max128 > Ten * Max96 /\ Ten \in Nat /\ 1 <= Ten
  BY LiteralAssumption, ScaleAssumption, BaseAssumption, BaseType DEF LiteralTypeOK, DecimalPart, Saturating, Integer32
<1>2. Max96 < Max128
  <2> DEFINE a == Max96
             b == Ten * Max96
  <2>1. 1 * a <= Ten * a /\ a \in Nat /\ Ten * a \in Int
    BY <1>1, MulMono
  <2>2. Ten * a = b /\ b < Max128
    BY <1>1
  <2> HIDE DEF a, b
  <2>3. a < Max128
    BY <1>1, <2>1, <2>2
  <2>4. QED
    BY <2>3 DEF a
<1>3. Significant \in Nat
  <2>1. MarkAt - 1 \in 0..Len(literal.text)
    <3> DEFINE t == literal.text
               set == {i \in DOMAIN t : t[i] = LExponent}
    <3>1. t \in Seq(0..LOther) /\ Len(t) \in Nat /\ DOMAIN t = 1..Len(t) /\ set \subseteq 1..Len(t) /\ set \subseteq Nat
      BY DEF LiteralTypeOK
    <3>2. MarkAt = FirstOf(set, Len(t) + 1)
      BY DEF MarkAt
    <3> HIDE DEF set
    <3>3. MarkAt = Len(t) + 1 \/ MarkAt \in set
      BY <3>1, <3>2, FirstFound
    <3> DEFINE l == Len(t)
               m == MarkAt
    <3>4. l \in Nat /\ (m = l + 1 \/ m \in 1..l)
      BY <3>1, <3>3
    <3> HIDE DEF l, m
    <3>5. m - 1 \in 0..l
      BY <3>4
    <3>6. QED
      BY <3>5 DEF l, m
  <2>2. LValue[MarkAt - 1] \in Nat
    BY <2>1, LiteralSays
  <2>3. QED
    BY <2>2 DEF Significant, LValue
<1> DEFINE i == IF exp > 0 THEN exp ELSE 0
           p == POWERS[i]
<1>4. i \in 0..PowLimit /\ (exp > 0 => i = exp) /\ (exp <= 0 => i = 0)
  BY <1>1
<1>5. Shifted = IF exp > 0 /\ num <= Max128 \div p THEN num * p ELSE num
  BY <1>1, <1>4 DEF Shifted
<1>6. p \in Nat \ {0} /\ (exp <= 0 => p = 1)
  <2> HIDE DEF i
  <2>1. p \in Nat /\ p >= 1
    BY <1>4, PowersType
  <2>2. QED
    BY <1>4, <2>1, PowersAssumption
<1>7. num * p \in Nat
  <2> HIDE DEF p
  <2>1. QED
    BY <1>1, <1>6, \A x, y \in Nat : x * y \in Nat
<1>8. QED
  BY <1>1, <1>2, <1>3, <1>5, <1>6, <1>7

LEMMA InvalidExpStep == ASSUME LiteralInv, InvalidExp PROVE LiteralInv'
<1>1. LiteralTypeOK' /\ SignPart' /\ MantissaPart' /\ TenfoldPart' /\ DecimalPart'
  BY ReturnTypeOK DEF LiteralInv, InvalidExp
<1>2. literal' = literal /\ base' = base /\ lpc' = "invalidexp"
  BY DEF InvalidExp, Return
<1>3. NothingWraps => Power \notin -MAX_SCALE..MAX_SCALE
  <2>1. lpc = "decimal" /\ (exp > MAX_SCALE \/ exp < -MAX_SCALE) /\ exp \in Int
    BY LiteralAssumption DEF InvalidExp, LiteralInv, LiteralTypeOK, Integer32
  <2>2. NothingWraps => exp = Power
    BY <2>1 DEF LiteralInv, DecimalPart
  <2>3. QED
    BY <2>1, <2>2, ScaleAssumption
<1>4. Power' = Power /\ (NothingWraps' <=> NothingWraps)
  BY <1>2, TextStays
<1>5. LiteralAgrees'
  BY <1>2, <1>3, <1>4 DEF LiteralAgrees
<1>6. QED
  BY <1>1, <1>5 DEF LiteralInv

LEMMA ExceedsValueStep == ASSUME LiteralInv, ExceedsValue PROVE LiteralInv'
<1>1. LiteralTypeOK' /\ SignPart' /\ MantissaPart' /\ TenfoldPart' /\ DecimalPart'
  BY ReturnTypeOK DEF LiteralInv, ExceedsValue
<1>2. literal' = literal /\ base' = base /\ lpc' = "exceeds"
  BY DEF ExceedsValue, Return
<1> DEFINE p == POWERS[IF exp > 0 THEN exp ELSE 0]
<1>3. /\ lpc = "decimal" /\ exp \in -MAX_SCALE..MAX_SCALE /\ Shifted > Max96 /\ (NothingWraps => exp = Power)
      /\ Significant \in Nat /\ num \in Nat /\ num = SmallerOf(Significant, Max128)
      /\ Max96 \in Nat /\ Max128 \in Nat
      /\ p \in Nat \ {0} /\ num * p \in Nat
      /\ Shifted = IF exp > 0 /\ num <= Max128 \div p THEN num * p ELSE num
  BY ShiftedFacts DEF LiteralInv, ExceedsValue, DecimalPart
<1>4. Significant > Max96 \div p
  <2> HIDE DEF p
  <2>1. 1 * num <= p * num /\ p * num = num * p
    BY <1>3, MulMono, MulAssoc
  <2>2. num * p > Max96
    BY <1>3, <2>1
  <2>3. num \in Int /\ Max96 \in Int /\ p \in Nat \ {0} /\ Max96 \div p \in Int
    BY <1>3
  <2>4. num <= Max96 \div p <=> num * p <= Max96
    BY <2>3, AtMostQuotient
  <2> DEFINE q == Max96 \div p
  <2>5. ~(num <= q) /\ q \in Int
    BY <1>3, <2>2, <2>3, <2>4
  <2> HIDE DEF q
  <2>6. Significant > q
    BY <1>3, <2>5 DEF SmallerOf
  <2>7. QED
    BY <2>6 DEF q
<1>5. NothingWraps => Significant > Max96 \div POWERS[IF Power > 0 THEN Power ELSE 0]
  BY <1>3, <1>4
<1>6. Power' = Power /\ (NothingWraps' <=> NothingWraps) /\ Significant' = Significant
  BY <1>2, TextStays
<1>7. LiteralAgrees'
  BY <1>2, <1>5, <1>6 DEF LiteralAgrees
<1>8. QED
  BY <1>1, <1>7 DEF LiteralInv

LEMMA UnpackedStep == ASSUME LiteralInv, Unpacked PROVE LiteralInv'
<1>1. /\ lpc = "decimal" /\ exp \in -MAX_SCALE..MAX_SCALE /\ Shifted <= Max96
      /\ unpacked' = [neg |-> ~positive /\ Shifted > 0, m |-> Shifted, s |-> IF exp >= 0 THEN 0 ELSE -exp]
      /\ lpc' = "unpacked"
      /\ UNCHANGED <<literal, src, positive, base, num, count, exp, ePart>>
  BY DEF Unpacked
<1> DEFINE p == POWERS[IF exp > 0 THEN exp ELSE 0]
<1>2. /\ (NothingWraps => exp = Power) /\ (positive <=> ~Starts(literal.text, {LMinus}))
      /\ Significant \in Nat /\ num \in Nat /\ num = SmallerOf(Significant, Max128) /\ exp \in Int
      /\ Max96 \in Nat /\ Max128 \in Nat /\ Max96 < Max128 /\ MAX_SCALE \in Nat
      /\ p \in Nat \ {0} /\ (exp <= 0 => p = 1) /\ num * p \in Nat
      /\ Shifted = IF exp > 0 /\ num <= Max128 \div p THEN num * p ELSE num
  BY <1>1, ShiftedFacts DEF LiteralInv, DecimalPart
<1>3. Shifted \in Mantissa /\ Shifted \in Nat
  BY <1>1, <1>2 DEF Mantissa
<1>4. unpacked' \in Decimal
  <2>1. (IF exp >= 0 THEN 0 ELSE -exp) \in 0..MAX_SCALE
    BY <1>1, <1>2
  <2>2. (~positive /\ Shifted > 0) \in BOOLEAN
    OBVIOUS
  <2>3. QED
    BY <1>1, <1>3, <2>1, <2>2 DEF Decimal
<1>5. LiteralTypeOK'
  <2>1. LRead' = LRead
    BY <1>1 DEF LRead
  <2>2. LiteralTypeOK
    BY DEF LiteralInv
  <2>3. QED
    BY <1>1, <1>4, <2>1, <2>2 DEF LiteralTypeOK
<1>6. SignPart' /\ MantissaPart' /\ TenfoldPart' /\ DecimalPart'
  BY <1>1 DEF SignPart, MantissaPart, TenfoldPart, DecimalPart, Reads
<1>7. \/ /\ Shifted = Significant * p /\ (Shifted > 0 <=> Significant > 0)
      \/ exp > 0 /\ Significant > Max128 \div p
  <2> HIDE DEF p
  <2>1. 1 * num <= p * num /\ p * num = num * p
    BY <1>2, MulMono, MulAssoc
  <2>2. CASE exp > 0 /\ ~(num <= Max128 \div p)
    <3> DEFINE q == Max128 \div p
    <3>1. q \in Int /\ ~(num <= q)
      BY <1>2, <2>2
    <3> HIDE DEF q
    <3>2. Significant > q
      BY <1>2, <3>1 DEF SmallerOf
    <3>3. QED
      BY <2>2, <3>2 DEF q
  <2>3. CASE ~(exp > 0 /\ ~(num <= Max128 \div p))
    <3>1. Shifted = num * p
      BY <1>2, <2>3
    <3>2. num <= Max96
      BY <1>1, <1>2, <2>1, <3>1
    <3>3. num = Significant
      BY <1>2, <3>2 DEF SmallerOf
    <3>4. num = 0 => num * p = 0
      BY <1>2
    <3>5. QED
      BY <1>2, <2>1, <3>1, <3>3, <3>4
  <2>4. QED
    BY <2>2, <2>3
<1>8. NothingWraps =>
        \/ /\ Shifted = Significant * POWERS[IF Power > 0 THEN Power ELSE 0]
           /\ unpacked'.m = Shifted /\ unpacked'.s = (IF Power > 0 THEN 0 ELSE -Power)
           /\ unpacked'.neg <=> Starts(literal.text, {LMinus}) /\ Significant > 0
        \/ Power > 0 /\ Significant > Max128 \div POWERS[Power]
  <2>1. SUFFICES ASSUME NothingWraps
                 PROVE  \/ /\ Shifted = Significant * POWERS[IF Power > 0 THEN Power ELSE 0]
                           /\ unpacked'.m = Shifted /\ unpacked'.s = (IF Power > 0 THEN 0 ELSE -Power)
                           /\ unpacked'.neg <=> Starts(literal.text, {LMinus}) /\ Significant > 0
                        \/ Power > 0 /\ Significant > Max128 \div POWERS[Power]
    OBVIOUS
  <2>2. Power = exp
    BY <1>2, <2>1
  <2>3. CASE Shifted = Significant * p /\ (Shifted > 0 <=> Significant > 0)
    <3>1. unpacked'.m = Shifted /\ unpacked'.s = (IF exp > 0 THEN 0 ELSE -exp)
      BY <1>1, <1>2
    <3>2. unpacked'.neg <=> ~positive /\ Shifted > 0
      BY <1>1
    <3>3. QED
      BY <1>2, <2>2, <2>3, <3>1, <3>2
  <2>4. CASE exp > 0 /\ Significant > Max128 \div p
    BY <2>2, <2>4
  <2>5. QED
    BY <1>7, <2>3, <2>4
<1>9. Power' = Power /\ (NothingWraps' <=> NothingWraps) /\ Significant' = Significant /\ literal' = literal
  BY <1>1, TextStays
<1>10. unpacked'.neg \in BOOLEAN /\ (Starts(literal.text, {LMinus}) /\ Significant > 0) \in BOOLEAN
  BY <1>1
<1>11. LiteralAgrees'
  <2>1. NothingWraps' => IsLiteral' \/ (Power' > 0 /\ Significant' > Max128 \div POWERS[Power'])
    BY <1>8, <1>9, <1>10 DEF IsLiteral, Starts
  <2>2. QED
    BY <1>1, <2>1 DEF LiteralAgrees
<1>12. QED
  BY <1>5, <1>6, <1>11 DEF LiteralInv

LEMMA LiteralKept == LiteralInv /\ [LiteralNext]_lvars => LiteralInv'
<1> SUFFICES ASSUME LiteralInv, [LiteralNext]_lvars PROVE LiteralInv'
  OBVIOUS
<1>1. CASE UNCHANGED lvars
  <2>1. UNCHANGED <<literal, src, positive, base, num, count, exp, ePart, unpacked, lpc>>
    BY <1>1 DEF lvars
  <2>2. LRead' = LRead
    BY <2>1 DEF LRead
  <2>3. LiteralTypeOK'
    BY <2>1, <2>2 DEF LiteralInv, LiteralTypeOK
  <2>4. SignPart' /\ MantissaPart'
    BY <2>1, <2>2, TextStays DEF LiteralInv, SignPart, MantissaPart
  <2>5. TenfoldPart' /\ DecimalPart'
    BY <2>1, <2>2, TextStays DEF LiteralInv, TenfoldPart, DecimalPart
  <2>6. LiteralAgrees'
    BY <2>1, TextStays DEF LiteralInv, LiteralAgrees, IsLiteral, Starts
  <2>7. QED
    BY <2>3, <2>4, <2>5, <2>6 DEF LiteralInv
<1>2. CASE LiteralNext
  BY <1>2, InvalidRadixStep, LiteralSignStep, LiteralDigitStep, LiteralUnderscoreStep, IntegerDoneStep, WholeDoneStep,
     FractionDoneStep, ExponentDoneStep, OverflowsStep, InvalidExpStep, ExceedsValueStep, UnpackedStep DEF LiteralNext
<1>3. QED
  BY <1>1, <1>2

\* What has been read is what the text says up to there, as far as an i128 holds it.
THEOREM LiteralInvariant == LiteralSpec => []LiteralInv
  BY LiteralStarts, LiteralKept, PTL DEF LiteralSpec

\* A literal is what its text says or is not accepted, but for the multiplication that
\* overflows and the counters that wrap; what is refused does not fit.
THEOREM LiteralsRead == LiteralSpec => []LiteralAgrees
<1>1. LiteralInv => LiteralAgrees
  BY DEF LiteralInv
<1>2. QED
  BY <1>1, LiteralInvariant, PTL

-----------------------------------------------------------------------------
(* A decimal written *)

\* A text without separators and exponents that says v, with f digits behind the point.
Spells(t, neg, has, point, v, f) ==
    /\ t \in Seq(0..Letter) /\ f \in Nat
    /\ Understood(t, Len(t), [point |-> point, neg |-> neg, has |-> has, big |-> FALSE, round |-> FALSE], v, f)
    /\ \A i \in 1..Len(t) : t[i] \in Digits \union {Point, Minus}

\* A byte behind a text leaves what has been understood of it.
LEMMA Appended ==
    ASSUME NEW t \in Seq(0..Letter), NEW c \in 0..Letter, NEW sn, NEW d, NEW pl,
           Understood(t, Len(t), sn, d, pl)
    PROVE  /\ Append(t, c) \in Seq(0..Letter) /\ Len(Append(t, c)) = Len(t) + 1
           /\ Append(t, c)[Len(t) + 1] = c /\ \A i \in 1..Len(t) : Append(t, c)[i] = t[i]
           /\ Understood(Append(t, c), Len(t), sn, d, pl)
<1> DEFINE a == Append(t, c)
           n == Len(t)
<1>1. /\ a \in Seq(0..Letter) /\ Len(a) = n + 1 /\ a[n + 1] = c /\ n \in Nat
      /\ \A i \in 1..n : a[i] = t[i]
  BY AppendProperties
<1>2. a \in Seq(Nat) /\ n \in 0..Len(a) /\ Ten \in Nat /\ t \in Seq(Nat)
  BY <1>1, BytesDiffer
<1>3. SubSeq(a, 1, n) = t
  BY <1>1
<1> HIDE DEF a, n
<1>4. \A i \in 0..n : ValueTo(t, Digits, Ten)[i] = ValueTo(a, Digits, Ten)[i]
  <2>1. \A i \in 0..n : ValueTo(SubSeq(a, 1, n), Digits, Ten)[i] = ValueTo(a, Digits, Ten)[i]
    BY <1>2, PrefixValue, ZenonT(60)
  <2>2. QED
    BY <1>3, <2>1, Zenon
<1>5. \A i \in 0..n : CountTo(t, Digits)[i] = CountTo(a, Digits)[i]
  <2>1. \A i \in 0..n : CountTo(SubSeq(a, 1, n), Digits)[i] = CountTo(a, Digits)[i]
    BY <1>2, PrefixCount, ZenonT(60)
  <2>2. QED
    BY <1>3, <2>1, Zenon
<1>6. n \in 0..n /\ 1..n \subseteq 0..n
  BY <1>1
<1>7. Understood(t, n, sn, d, pl)
  BY DEF n
<1>8. GoodTo(a, n)
  <2>1. GoodTo(t, n)
    BY <1>7 DEF Understood
  <2>2. \A i \in 1..n : i = 1 => a[1] = t[1]
    BY <1>1
  <2>3. \A i \in 1..n : \A j \in 1..(i - 1) : j \in 1..n
    BY <1>1
  <2>4. \A i \in 1..n : a[i] \in Digits \union {Point, Underscore} \/ (i = 1 /\ a[1] \in {Minus, Plus})
    BY <1>1, <2>1, <2>2 DEF GoodTo
  <2>5. \A i, j \in 1..n : a[i] = Point /\ a[j] = Point => i = j
    BY <1>1, <2>1 DEF GoodTo
  <2>6. \A i \in 1..n : a[i] = Underscore => \E j \in 1..(i - 1) : a[j] \in Digits
    BY <1>1, <2>1, <2>3 DEF GoodTo
  <2>7. QED
    BY <2>4, <2>5, <2>6 DEF GoodTo
<1>9. PlacesTo(a, n, pl)
  BY <1>1, <1>5, <1>6, <1>7 DEF Understood, PlacesTo
<1>10. QED
  <2>1. d = ValueTo(a, Digits, Ten)[n]
    BY <1>4, <1>6, <1>7 DEF Understood
  <2>2. n >= 1 => a[1] = t[1]
    BY <1>1
  <2>3. /\ sn.has <=> \E i \in 1..n : a[i] \in Digits
        /\ sn.point <=> \E i \in 1..n : a[i] = Point
        /\ sn.neg <=> n >= 1 /\ a[1] = Minus
    BY <1>1, <1>7, <2>2 DEF Understood
  <2>4. Understood(a, n, sn, d, pl)
    BY <1>2, <1>8, <1>9, <2>1, <2>3 DEF Understood
  <2>5. QED
    BY <1>1, <2>4 DEF a, n

\* No byte, or a sign alone, says zero without a digit.
LEMMA SpellsNothing ==
    /\ Spells(<<>>, FALSE, FALSE, FALSE, 0, 0)
    /\ Spells(<<Minus>>, TRUE, FALSE, FALSE, 0, 0)
<1>1. ASSUME NEW t \in Seq(0..Letter), NEW k \in 0..1, Len(t) = k, \A i \in 1..k : t[i] = Minus
      PROVE  Spells(t, k = 1, FALSE, FALSE, 0, 0)
  <2>1. t \in Seq(Nat) /\ Ten \in Nat /\ Minus \notin Digits /\ Minus # Point /\ Minus # Underscore
    BY BytesDiffer
  <2>2. ValueTo(t, Digits, Ten)[k] = 0
    <3>1. ValueTo(t, Digits, Ten)[0] = 0
      BY <2>1, ValueSteps
    <3>2. k = 1 => ValueTo(t, Digits, Ten)[1] = ValueTo(t, Digits, Ten)[1 - 1]
      <4>1. k = 1 => 1 \in 1..Len(t) /\ t[1] \notin Digits
        BY <1>1, <2>1
      <4>2. \A i \in 1..Len(t) : ValueTo(t, Digits, Ten)[i] =
                 IF t[i] \in Digits THEN ValueTo(t, Digits, Ten)[i - 1] * Ten + t[i] ELSE ValueTo(t, Digits, Ten)[i - 1]
        BY <2>1, ValueSteps
      <4>3. QED
        BY <4>1, <4>2, Zenon
    <3>3. 1 - 1 = 0 /\ k \in {0, 1}
      OBVIOUS
    <3>4. QED
      BY <3>1, <3>2, <3>3
  <2>3. PlacesTo(t, k, 0)
    BY <1>1, <2>1 DEF PlacesTo
  <2>4. GoodTo(t, k)
    BY <1>1, <2>1 DEF GoodTo
  <2>5. (k = 1) <=> (k >= 1 /\ t[1] = Minus)
    BY <1>1
  <2>6. /\ ~ \E i \in 1..k : t[i] \in Digits
        /\ ~ \E i \in 1..k : t[i] = Point
    BY <1>1, <2>1
  <2>7. k \in 0..Len(t)
    BY <1>1
  <2>8. QED
    BY <1>1, <2>2, <2>3, <2>4, <2>5, <2>6, <2>7 DEF Spells, Understood
<1>2. Spells(<<>>, 0 = 1, FALSE, FALSE, 0, 0)
  <2>1. <<>> \in Seq(0..Letter) /\ Len(<<>>) = 0 /\ \A i \in 1..0 : <<>>[i] = Minus
    OBVIOUS
  <2>2. 0 \in 0..1
    OBVIOUS
  <2>3. QED
    BY <1>1, <2>1, <2>2
<1>3. Spells(<<Minus>>, 1 = 1, FALSE, FALSE, 0, 0)
  <2>1. Minus \in 0..Letter
    BY BytesDiffer DEF Minus, Letter
  <2>2. <<Minus>> \in Seq(0..Letter) /\ Len(<<Minus>>) = 1 /\ \A i \in 1..1 : <<Minus>>[i] = Minus
    BY <2>1
  <2>3. 1 \in 0..1
    OBVIOUS
  <2>4. QED
    BY <1>1, <2>2, <2>3
<1>4. (0 = 1) = FALSE /\ (1 = 1) = TRUE
  OBVIOUS
<1>5. QED
  BY <1>2, <1>3, <1>4

\* A digit behind a text.
LEMMA SpellsDigit ==
    ASSUME NEW t, NEW neg \in BOOLEAN, NEW has \in BOOLEAN, NEW point \in BOOLEAN, NEW v \in Nat, NEW f,
           Spells(t, neg, has, point, v, f), NEW c \in Digits
    PROVE  Spells(Append(t, c), neg, TRUE, point, v * Ten + c, IF point THEN f + 1 ELSE 0)
<1> DEFINE sn == [point |-> point, neg |-> neg, has |-> has, big |-> FALSE, round |-> FALSE]
           now == [point |-> point, neg |-> neg, has |-> TRUE, big |-> FALSE, round |-> FALSE]
           a == Append(t, c)
<1>1. /\ t \in Seq(0..Letter) /\ f \in Nat /\ Understood(t, Len(t), sn, v, f)
      /\ \A i \in 1..Len(t) : t[i] \in Digits \union {Point, Minus}
  BY DEF Spells
<1>2. c \in 0..Letter
  BY BytesDiffer DEF Digits, Letter
<1>3. /\ a \in Seq(0..Letter) /\ Len(a) = Len(t) + 1 /\ a[Len(t) + 1] = c
      /\ \A i \in 1..Len(t) : a[i] = t[i]
      /\ Understood(a, Len(t), sn, v, f)
  BY <1>1, <1>2, Appended
<1> DEFINE more == [sn EXCEPT !.has = TRUE]
<1>4. /\ sn \in Seens /\ (sn.point <=> point)
      /\ (more.has <=> now.has) /\ (more.point <=> now.point) /\ (more.neg <=> now.neg)
  BY DEF Seens
<1>5. Len(t) \in Nat /\ Len(t) \in 0..(Len(a) - 1)
  BY <1>1, <1>3
<1>6. Understood(a, Len(t) + 1, more, v * Ten + a[Len(t) + 1], IF sn.point THEN f + 1 ELSE 0)
  <2> HIDE DEF sn, now, a
  <2>1. QED
    BY <1>1, <1>3, <1>4, <1>5, DigitRead
<1> HIDE DEF sn, now, a, more
<1>7. Understood(a, Len(a), now, v * Ten + c, IF point THEN f + 1 ELSE 0)
  <2>1. Understood(a, Len(a), more, v * Ten + c, IF point THEN f + 1 ELSE 0)
    BY <1>3, <1>4, <1>6
  <2>2. QED
    BY <1>4, <2>1 DEF Understood
<1>8. \A i \in 1..Len(a) : a[i] \in Digits \union {Point, Minus}
  <2>1. \A i \in 1..Len(a) : i \in 1..Len(t) \/ i = Len(t) + 1
    BY <1>3, <1>5
  <2>2. QED
    BY <1>1, <1>3, <2>1
<1>9. (IF point THEN f + 1 ELSE 0) \in Nat
  BY <1>1
<1>10. Spells(a, neg, TRUE, point, v * Ten + c, IF point THEN f + 1 ELSE 0)
  BY <1>3, <1>7, <1>8, <1>9 DEF Spells, now
<1>11. QED
  BY <1>10 DEF a

\* The point behind a text that has none.
LEMMA SpellsPoint ==
    ASSUME NEW t, NEW neg \in BOOLEAN, NEW has \in BOOLEAN, NEW v \in Nat, NEW f,
           Spells(t, neg, has, FALSE, v, f)
    PROVE  Spells(Append(t, Point), neg, has, TRUE, v, f)
<1> DEFINE sn == [point |-> FALSE, neg |-> neg, has |-> has, big |-> FALSE, round |-> FALSE]
           now == [point |-> TRUE, neg |-> neg, has |-> has, big |-> FALSE, round |-> FALSE]
           a == Append(t, Point)
<1>1. /\ t \in Seq(0..Letter) /\ f \in Nat /\ Understood(t, Len(t), sn, v, f)
      /\ \A i \in 1..Len(t) : t[i] \in Digits \union {Point, Minus}
  BY DEF Spells
<1>2. Point \in 0..Letter
  BY BytesDiffer DEF Point, Letter
<1>3. /\ a \in Seq(0..Letter) /\ Len(a) = Len(t) + 1 /\ a[Len(t) + 1] = Point
      /\ \A i \in 1..Len(t) : a[i] = t[i]
      /\ Understood(a, Len(t), sn, v, f)
  BY <1>1, <1>2, Appended
<1>4. /\ sn \in Seens /\ now \in Seens /\ (now.has <=> sn.has) /\ ~sn.point /\ now.point /\ (now.neg <=> sn.neg)
  BY DEF Seens
<1>5. Len(t) \in Nat /\ Len(t) \in 0..(Len(a) - 1)
  BY <1>1, <1>3
<1> HIDE DEF sn, now, a
<1>6. Understood(a, Len(t) + 1, now, v, f)
  BY <1>1, <1>3, <1>4, <1>5, OtherRead
<1>7. Understood(a, Len(a), now, v, f)
  BY <1>3, <1>6
<1>8. \A i \in 1..Len(a) : a[i] \in Digits \union {Point, Minus}
  <2>1. \A i \in 1..Len(a) : i \in 1..Len(t) \/ i = Len(t) + 1
    BY <1>3, <1>5
  <2>2. QED
    BY <1>1, <1>3, <2>1
<1>10. Spells(a, neg, has, TRUE, v, f)
  BY <1>1, <1>3, <1>7, <1>8 DEF Spells, now
<1>11. QED
  BY <1>10 DEF a

\* What a text that was built byte by byte says as a whole.
LEMMA SpellsFacts ==
    ASSUME NEW t, NEW neg \in BOOLEAN, NEW has \in BOOLEAN, NEW point \in BOOLEAN, NEW v, NEW f,
           Spells(t, neg, has, point, v, f)
    PROVE  /\ t \in Seq(0..Letter) /\ Len(t) \in Nat /\ f \in Nat
           /\ Numeral(t) = v /\ Fraction(t) = f /\ (WellFormed(t) <=> has)
           /\ neg <=> t # <<>> /\ t[1] = Minus
           /\ point <=> \E i \in 1..Len(t) : t[i] = Point
           /\ \A i \in 1..Len(t) : t[i] \in Digits \union {Point, Minus} /\ t[i] # Exponent /\ t[i] # Underscore
<1> DEFINE sn == [point |-> point, neg |-> neg, has |-> has, big |-> FALSE, round |-> FALSE]
<1>1. /\ t \in Seq(0..Letter) /\ f \in Nat /\ Understood(t, Len(t), sn, v, f)
      /\ \A i \in 1..Len(t) : t[i] \in Digits \union {Point, Minus}
  BY DEF Spells
<1>2. sn \in Seens /\ (sn.has <=> has) /\ (sn.neg <=> neg) /\ (sn.point <=> point)
  BY DEF Seens
<1> HIDE DEF sn
<1>3. SubSeq(t, 1, Len(t)) = t /\ Len(t) \in Nat /\ Len(t) \in 0..Len(t)
  BY <1>1, WholeHead
<1>4. Numeral(t) = v /\ Fraction(t) = f /\ (WellFormed(t) <=> sn.has)
  <2>1. LET head == SubSeq(t, 1, Len(t))
        IN  Numeral(head) = v /\ Fraction(head) = f /\ (WellFormed(head) <=> sn.has)
    BY <1>1, <1>2, <1>3, HeadSays
  <2>2. QED
    BY <1>3, <2>1
<1>5. neg <=> t # <<>> /\ t[1] = Minus
  <2>1. neg <=> Len(t) >= 1 /\ t[1] = Minus
    BY <1>1, <1>2 DEF Understood
  <2>2. Len(t) >= 1 <=> t # <<>>
    BY <1>1
  <2>3. QED
    BY <2>1, <2>2
<1>6. point <=> \E i \in 1..Len(t) : t[i] = Point
  BY <1>1, <1>2 DEF Understood
<1>7. Exponent \notin Digits /\ Exponent # Point /\ Exponent # Minus
  BY BytesDiffer DEF Exponent, Point, Minus, Digits
<1>8. \A i \in 1..Len(t) : t[i] \in Digits \union {Point, Minus} /\ t[i] # Exponent /\ t[i] # Underscore
  BY <1>1, <1>7, BytesDiffer
<1>9. QED
  BY <1>1, <1>2, <1>3, <1>4, <1>5, <1>6, <1>8

\* Rounding never makes a number larger.
LEMMA HalfUpAtMost ==
    ASSUME NEW v \in Nat, NEW p \in Nat \ {0}
    PROVE  HalfUp(v, p) \in Nat /\ HalfUp(v, p) <= v
<1> DEFINE n == v + p \div 2
<1>1. p \div 2 \in Nat /\ p \div 2 < p
  OBVIOUS
<1>2. p * (v + 1) = v * p + 1 * p /\ v * 1 <= p * v /\ p * v = v * p /\ v * p \in Int
  <2>1. (v + 1) * p = v * p + 1 * p /\ v * p \in Int
    BY Distribute
  <2>2. p * (v + 1) = (v + 1) * p /\ p * v = v * p
    BY MulAssoc
  <2>3. 1 * v <= p * v /\ 1 * v = v * 1
    BY MulMono
  <2>4. QED
    BY <2>1, <2>2, <2>3
<1>3. n \in Nat /\ n < p * (v + 1)
  <2> DEFINE a == v * p
             b == p \div 2
  <2>1. a \in Int /\ v <= a /\ p * (v + 1) = a + p /\ b \in Nat /\ b < p
    BY <1>1, <1>2
  <2> HIDE DEF a, b
  <2>2. v + b \in Nat /\ v + b < a + p
    BY <2>1
  <2>3. QED
    BY <2>1, <2>2 DEF b
<1> HIDE DEF n
<1>4. n \div p < v + 1 /\ n \div p \in Nat
  BY <1>3, QuotientBound, DivMod, v + 1 \in Nat
<1>5. HalfUp(v, p) = n \div p
  BY DEF HalfUp, n
<1> DEFINE h == n \div p
<1>6. h < v + 1 /\ h \in Nat /\ HalfUp(v, p) = h
  BY <1>4, <1>5
<1> HIDE DEF h
<1>7. QED
  BY <1>6

\* A number that fits has nothing to be rounded.
LEMMA FittingKept ==
    ASSUME NEW v \in Nat, v <= Max96, NEW f \in 0..MAX_SCALE,
           NEW t, Numeral(t) = v, Fraction(t) = f, NEW d \in Decimal, IsParseOf(d, t)
    PROVE  d.m = v /\ d.s = f /\ d.neg = (t[1] = Minus /\ v # 0)
<1>1. f \in Nat /\ MAX_SCALE \in Nat /\ f <= MAX_SCALE /\ MAX_SCALE <= PowLimit /\ PowLimit \in Nat /\ Max96 \in Nat
  BY ScaleAssumption, BaseType
<1>2. SmallerOf(f, MAX_SCALE) = f
  BY <1>1 DEF SmallerOf
<1>3. /\ d.s <= f /\ d.m = HalfUp(v, POWERS[f - d.s]) /\ d.neg = (t[1] = Minus /\ d.m # 0)
      /\ d.s < f => HalfUp(v, POWERS[f - d.s - 1]) > Max96
  BY <1>2 DEF IsParseOf
<1>4. d.s \in Nat
  BY <1>1 DEF Decimal
<1>5. d.s = f
  <2>1. SUFFICES ASSUME d.s < f PROVE FALSE
    BY <1>1, <1>3, <1>4
  <2>2. f - d.s - 1 \in 0..PowLimit
    BY <1>1, <1>4, <2>1
  <2>3. POWERS[f - d.s - 1] \in Nat \ {0}
    BY <2>2, PowersType
  <2> DEFINE h == HalfUp(v, POWERS[f - d.s - 1])
  <2>4. h \in Nat /\ h <= v /\ h > Max96
    BY <1>3, <2>1, <2>3, HalfUpAtMost
  <2> HIDE DEF h
  <2>5. QED
    BY <1>1, <2>4
<1>6. POWERS[f - d.s] = 1
  BY <1>1, <1>5, PowersAssumption
<1>7. d.m = v
  BY <1>3, <1>6, HalfUpWhole
<1>8. QED
  BY <1>3, <1>5, <1>7

\* Without separators none of them rounds.
LEMMA NoSeparators ==
    ASSUME NEW t \in Seq(Nat), \A i \in 1..Len(t) : t[i] # Underscore
    PROVE  ~SeparatorRounds(t)
<1>1. \A n \in 1..(Len(t) - 1) : n + 1 \in 1..Len(t)
  OBVIOUS
<1>2. QED
  BY <1>1 DEF SeparatorRounds

\* A text that says a decimal is read as that decimal.
LEMMA ReadExactly ==
    ASSUME ParserInv, seen.round, NEW neg \in BOOLEAN, NEW point \in BOOLEAN, NEW v \in Nat, v <= Max96,
           NEW f \in 0..MAX_SCALE, Spells(text, neg, TRUE, point, v, f)
    PROVE  /\ ppc \notin Failed
           /\ ppc = "parsed" => parsed = FromParts(v, neg, f)
<1>1. /\ Numeral(text) = v /\ Fraction(text) = f /\ WellFormed(text)
      /\ (neg <=> text # <<>> /\ text[1] = Minus)
      /\ \A i \in 1..Len(text) : text[i] # Underscore
  <2>1. Numeral(text) = v /\ Fraction(text) = f /\ (WellFormed(text) <=> TRUE)
    BY SpellsFacts, TRUE \in BOOLEAN, ZenonT(60)
  <2>2. neg <=> text # <<>> /\ text[1] = Minus
    BY SpellsFacts
  <2>3. \A i \in 1..Len(text) : text[i] # Underscore
    BY SpellsFacts
  <2>4. QED
    BY <2>1, <2>2, <2>3
<1>2. /\ text \in Seq(0..Letter) /\ parsed \in Decimal
  BY DEF ParserInv, ParserTypeOK
<1>3. text \in Seq(Nat) /\ text # <<>>
  <2>1. text \in Seq(Nat)
    BY <1>2, BytesDiffer
  <2>2. DigitsIn(text) # {} /\ DigitsIn(text) \subseteq DOMAIN text
    BY <1>1 DEF WellFormed, DigitsIn
  <2>3. text # <<>>
    BY <2>1, <2>2
  <2>4. QED
    BY <2>1, <2>3
<1>4. ~SeparatorRounds(text)
  BY <1>1, <1>3, NoSeparators
<1>5. ppc \notin Failed
  <2>1. ppc # "invalid" /\ ppc # "underflow"
    BY <1>1 DEF ParserInv, ParsedRounded
  <2>2. ppc # "overflow"
    <3>1. SUFFICES ASSUME ppc = "overflow" PROVE FALSE
      OBVIOUS
    <3>2. f \in 0..PowLimit /\ Max96 \in Nat
      BY ScaleAssumption, BaseType
    <3>3. POWERS[f] \in Nat \ {0}
      BY <3>2, PowersType
    <3> DEFINE h == HalfUp(v, POWERS[f])
    <3>4. h \in Nat /\ h <= v
      BY <3>3, HalfUpAtMost
    <3>5. h > Max96
      BY <1>1, <3>1 DEF ParserInv, ParsedRounded
    <3> HIDE DEF h
    <3>6. QED
      BY <3>2, <3>4, <3>5
  <2>3. QED
    BY <2>1, <2>2 DEF Failed
<1>6. ASSUME ppc = "parsed" PROVE parsed = FromParts(v, neg, f)
  <2>1. IsParseOf(parsed, text)
    BY <1>1, <1>4, <1>6 DEF ParserInv, ParsedRounded
  <2>2. parsed.m = v /\ parsed.s = f /\ parsed.neg = (text[1] = Minus /\ v # 0)
    BY <1>1, <1>2, <2>1, FittingKept
  <2>3. parsed = [neg |-> parsed.neg, m |-> parsed.m, s |-> parsed.s] /\ parsed.neg \in BOOLEAN
    BY <1>2 DEF Decimal
  <2>4. parsed.neg = (neg /\ v # 0)
    BY <1>1, <1>3, <2>2
  <2>5. QED
    BY <2>2, <2>3, <2>4 DEF FromParts
<1>7. QED
  BY <1>5, <1>6

\* The beginning of a sequence.
LEMMA PrefixIn ==
    ASSUME NEW S, NEW t \in Seq(S), NEW n \in 0..Len(t)
    PROVE  SubSeq(t, 1, n) \in Seq(S) /\ Len(SubSeq(t, 1, n)) = n /\ \A i \in 1..n : SubSeq(t, 1, n)[i] = t[i]
<1>1. \A i \in 1..Len(t) : t[i] \in S
  BY ElementsOf
<1>2. Len(t) \in Nat /\ n \in Int /\ 1 \in Int /\ (\A i \in 1..n : t[i] \in S)
  BY <1>1
<1>3. SubSeq(t, 1, n) \in Seq(S) /\ Len(SubSeq(t, 1, n)) = IF 1 <= n THEN n - 1 + 1 ELSE 0
  BY <1>2, SubSeqProperties
<1>4. (IF 1 <= n THEN n - 1 + 1 ELSE 0) = n
  BY <1>2
<1>5. \A i \in 1..n : SubSeq(t, 1, n)[i] = t[i]
  OBVIOUS
<1>6. QED
  BY <1>3, <1>4, <1>5

\* The beginning of a text says no more than the text.
LEMMA HeadSaysLess ==
    ASSUME NEW t, NEW neg \in BOOLEAN, NEW has \in BOOLEAN, NEW point \in BOOLEAN, NEW v \in Nat, NEW f,
           Spells(t, neg, has, point, v, f), Len(t) <= PowLimit,
           NEW n \in 0..Len(t), WellFormed(SubSeq(t, 1, n))
    PROVE  Numeral(SubSeq(t, 1, n)) \in 0..v /\ Fraction(SubSeq(t, 1, n)) \in 0..f
<1> DEFINE h == SubSeq(t, 1, n)
           N == Len(t)
           a == ValueTo(t, Digits, Ten)
           c == CountTo(t, Digits)
<1>1. t \in Seq(0..Letter) /\ N \in Nat /\ f \in Nat /\ n \in Nat /\ n \in 0..N /\ N \in 0..N /\ N \in n..N
  BY SpellsFacts
<1>2. t \in Seq(Nat) /\ Ten \in Nat
  BY <1>1, BytesDiffer
<1>3. v = a[N] /\ PlacesTo(t, N, f)
  BY DEF Spells, Understood
<1>4. h \in Seq(Nat) /\ Len(h) = n /\ (\A i \in 1..n : h[i] = t[i])
  BY <1>2, PrefixSays
<1>5. \A i \in 0..n : ValueTo(h, Digits, Ten)[i] = a[i]
  BY <1>2, PrefixValue, ZenonT(60)
<1>6. \A i \in 0..n : CountTo(h, Digits)[i] = c[i]
  BY <1>2, PrefixCount, ZenonT(60)
<1>7. h \in Seq(0..Letter)
  BY <1>1, PrefixIn
<1>8. a \in [0..N -> Nat] /\ c \in [0..N -> Nat]
  BY <1>2, ValueSteps, CountSteps
<1>9. /\ c[N] - c[n] \in 0..(N - n)
      /\ \E w \in 0..(POWERS[c[N] - c[n]] - 1) : a[N] = a[n] * POWERS[c[N] - c[n]] + w
  BY <1>1, <1>2, TailSays
<1>10. PICK w \in 0..(POWERS[c[N] - c[n]] - 1) : a[N] = a[n] * POWERS[c[N] - c[n]] + w
  BY <1>9
<1>11. a[n] \in 0..v
  <2> DEFINE x == a[n]
             p == POWERS[c[N] - c[n]]
  <2>1. x \in Nat /\ c[N] - c[n] \in 0..PowLimit
    BY <1>1, <1>8, <1>9, ScaleAssumption
  <2>2. p \in Nat /\ p >= 1
    BY <2>1, PowersType
  <2>3. v = x * p + w /\ w \in 0..(p - 1)
    BY <1>3, <1>10
  <2> HIDE DEF x, p
  <2>4. 1 * x <= p * x /\ p * x = x * p /\ x * p \in Int
    BY <2>1, <2>2, MulMono, MulAssoc
  <2>5. QED
    BY <2>1, <2>2, <2>3, <2>4 DEF x
<1>12. Numeral(h) = a[n]
  BY <1>1, <1>4, <1>5 DEF Numeral
<1>13. Len(h) <= PowLimit
  BY <1>1, <1>4, ScaleAssumption
<1> HIDE DEF h
<1>14. PICK sn \in Seens : Understood(h, Len(h), sn, Numeral(h), Fraction(h)) /\ Fraction(h) \in Nat
  BY <1>7, <1>13, WellFormedUnderstood DEF h
<1>15. PlacesTo(h, n, Fraction(h))
  BY <1>4, <1>14 DEF Understood
<1>16. Fraction(h) <= f
  <2>1. CASE \A i \in 1..n : h[i] # Point
    BY <1>1, <1>15, <2>1 DEF PlacesTo
  <2>2. CASE ~ \A i \in 1..n : h[i] # Point
    <3>1. PICK p \in 1..n : h[p] = Point
      BY <2>2
    <3>2. p \in 1..N /\ t[p] = Point /\ p \in 0..n /\ n \in 0..n /\ p \in 0..N /\ n \in 0..N
      BY <1>1, <1>4, <3>1
    <3>3. Fraction(h) = c[n] - c[p]
      BY <1>6, <1>15, <3>1, <3>2 DEF PlacesTo
    <3>4. f = c[N] - c[p]
      BY <1>3, <3>2 DEF PlacesTo
    <3>5. c[n] \in Nat /\ c[p] \in Nat /\ c[N] \in Nat /\ c[N] - c[n] >= 0
      BY <1>1, <1>8, <1>9, <3>2, SMTT(30)
    <3> HIDE DEF c
    <3>6. QED
      BY <3>3, <3>4, <3>5
  <2>3. QED
    BY <2>1, <2>2
<1>17. QED
  BY <1>1, <1>11, <1>12, <1>14, <1>16 DEF h

\* A text with an exponent is not a number for the parser.
LEMMA ExponentRefused ==
    ASSUME ParserInv, NEW t, NEW e \in Seq(0..Letter), text = (t \o <<Exponent>>) \o e,
           NEW neg \in BOOLEAN, NEW has \in BOOLEAN, NEW point \in BOOLEAN, NEW v \in Nat, NEW f \in 0..MAX_SCALE,
           v <= Max96, Spells(t, neg, has, point, v, f), \A i \in 1..Len(e) : e[i] # Underscore
    PROVE  ppc # "parsed"
<1> DEFINE k == Len(t) + 1
           N == Len(text)
<1>1. /\ t \in Seq(0..Letter) /\ Len(t) \in Nat
      /\ \A i \in 1..Len(t) : t[i] # Underscore
  BY SpellsFacts
<1>2. Exponent \in 0..Letter /\ Exponent \notin Digits \union {Point, Underscore, Minus, Plus}
  BY BytesDiffer DEF Exponent, Letter, Point, Underscore, Minus, Plus, Digits
<1>3. /\ N = k + Len(e) /\ Len(e) \in Nat /\ k \in 1..N
      /\ \A i \in 1..Len(t) : text[i] = t[i]
      /\ text[k] = Exponent
      /\ \A i \in 1..N : i > k => i - k \in 1..Len(e) /\ text[i] = e[i - k]
  BY <1>1, <1>2
<1>4. text \in Seq(0..Letter) /\ Len(text) <= PowLimit /\ parsed \in Decimal
  BY DEF ParserInv, ParserTypeOK
<1>5. text \in Seq(Nat) /\ text # <<>> /\ DOMAIN text = 1..N /\ N \in Nat
  BY <1>3, <1>4, BytesDiffer
<1>6. \A i \in 1..N : text[i] # Underscore
  <2>1. \A i \in 1..N : i \in 1..Len(t) \/ i = k \/ i > k
    BY <1>1, <1>3
  <2>2. QED
    BY <1>1, <1>2, <1>3, <2>1
<1>7. ~SeparatorRounds(text)
  BY <1>5, <1>6, NoSeparators
<1>8. ASSUME NEW h \in Seq(0..Letter), Len(h) >= k, \A i \in 1..k : h[i] = text[i] PROVE ~WellFormed(h)
  <2>1. h[k] = Exponent /\ k \in 1..Len(h) /\ DOMAIN h = 1..Len(h) /\ h # <<>>
    <3>1. k \in Nat /\ k >= 1
      BY <1>1
    <3> HIDE DEF k
    <3>2. k \in 1..k /\ Len(h) \in Nat
      BY <3>1
    <3>3. h[k] = Exponent
      BY <1>3, <1>8, <3>2
    <3>4. QED
      BY <1>8, <3>1, <3>2, <3>3
  <2> DEFINE body == IF Signed(h) THEN 2..Len(h) ELSE DOMAIN h
  <2>2. k = 1 => ~Signed(h)
    BY <1>2, <2>1 DEF Signed
  <2>3. k \in body
    BY <1>1, <2>1, <2>2
  <2> HIDE DEF body
  <2>4. QED
    BY <1>2, <2>1, <2>3 DEF WellFormed, body
<1>9. ~WellFormed(text)
  <2>1. Len(text) >= k /\ \A i \in 1..k : text[i] = text[i]
    BY <1>1, <1>3, <1>5
  <2> HIDE DEF k, N
  <2>2. QED
    BY <1>4, <1>8, <2>1
<1>10. SUFFICES ASSUME ppc = "parsed" PROVE FALSE
  OBVIOUS
<1>11. PICK n \in 1..(Len(text) - 1) :
                LET head == SubSeq(text, 1, n)
                IN  /\ WellFormed(head) /\ IsParseOf(parsed, head)
                    /\ parsed.s < Fraction(head) \/ SeparatorRounds(text)
  BY <1>9, <1>10 DEF ParserInv, ParsedRounded
<1> DEFINE head == SubSeq(text, 1, n)
<1>12. WellFormed(head) /\ IsParseOf(parsed, head) /\ parsed.s < Fraction(head)
  BY <1>7, <1>11
<1>13. head \in Seq(0..Letter) /\ Len(head) = n /\ \A i \in 1..n : head[i] = text[i]
  <2>1. n \in 0..Len(text)
    BY <1>5
  <2>2. QED
    BY <1>4, <2>1, PrefixIn
<1>14. n \in 0..Len(t)
  <2>1. SUFFICES ASSUME ~(n <= Len(t)) PROVE FALSE
    BY <1>1, <1>5
  <2>2. Len(head) >= k /\ \A i \in 1..k : head[i] = text[i]
    BY <1>1, <1>5, <1>13, <2>1
  <2> HIDE DEF head, k
  <2>3. QED
    BY <1>8, <1>12, <1>13, <2>2
<1>15. head = SubSeq(t, 1, n)
  <2>1. /\ SubSeq(t, 1, n) \in Seq(Nat) /\ Len(SubSeq(t, 1, n)) = n
        /\ \A i \in 1..n : SubSeq(t, 1, n)[i] = t[i]
    BY <1>1, <1>14, PrefixSays, BytesDiffer
  <2>2. \A i \in 1..n : head[i] = t[i]
    BY <1>1, <1>3, <1>13, <1>14
  <2> DEFINE g == SubSeq(t, 1, n)
  <2> HIDE DEF head, g
  <2>3. g \in Seq(Nat) /\ Len(g) = n /\ \A i \in 1..n : g[i] = head[i]
    BY <2>1, <2>2 DEF g
  <2>4. head \in Seq(0..Letter) /\ Len(head) = n
    BY <1>13
  <2>5. head = g
    BY <2>3, <2>4
  <2>6. QED
    BY <2>5 DEF g
<1>16. Len(t) <= PowLimit
  BY <1>1, <1>3, <1>4, ScaleAssumption
<1> HIDE DEF head, k, N
<1>17. Numeral(head) \in 0..v /\ Fraction(head) \in 0..f
  BY <1>12, <1>14, <1>15, <1>16, HeadSaysLess
<1>18. MAX_SCALE \in Nat /\ Max96 \in Nat
  BY ScaleAssumption, BaseType
<1>19. Numeral(head) \in Nat /\ Numeral(head) <= Max96 /\ Fraction(head) \in 0..MAX_SCALE
  BY <1>17, <1>18
<1>20. parsed.s = Fraction(head)
  BY <1>4, <1>12, <1>19, FittingKept
<1>21. QED
  BY <1>12, <1>19, <1>20

\* The digits of a mantissa, the last first; zeros where they end.  The number that
\* the first j of them are.
Nth(c, j) == IF j <= Len(c) THEN c[Len(c) + 1 - j] ELSE 0
Leading(m, n, j) == IF j <= n THEN m \div POWERS[n - j] ELSE m * POWERS[j - n]

\* c are the digits of m.
AreDigits(c, m) ==
    /\ c \in Seq(Nat) /\ Len(c) \in 0..PowLimit
    /\ \A k \in 1..Len(c) : c[k] = (m \div POWERS[k - 1]) % Ten

\* Every digit more is taken up by the number of the first ones.
LEMMA DigitsOf ==
    ASSUME NEW m \in Nat, NEW c, AreDigits(c, m), m < POWERS[Len(c)]
    PROVE  /\ Leading(m, Len(c), 0) = 0 /\ Leading(m, Len(c), Len(c)) = m
           /\ \A j \in Nat : (j + 1) - Len(c) <= PowLimit =>
                 /\ Nth(c, j + 1) \in Digits /\ Leading(m, Len(c), j) \in Nat
                 /\ Leading(m, Len(c), j + 1) = Leading(m, Len(c), j) * Ten + Nth(c, j + 1)
<1> DEFINE n == Len(c)
<1>1. /\ n \in Nat /\ n <= PowLimit /\ PowLimit \in Nat /\ PowLimit >= 1 /\ Ten \in Nat \ {0}
      /\ m < POWERS[n] /\ (\A k \in 1..n : c[k] = (m \div POWERS[k - 1]) % Ten)
  BY ScaleAssumption, BaseAssumption DEF AreDigits
<1> HIDE DEF n
<1>2. POWERS[0] = 1 /\ POWERS[1] = Ten /\ m \div 1 = m
  BY PowersAssumption
<1>3. POWERS[n] \in Nat \ {0}
  BY <1>1, PowersType
<1>4. Leading(m, n, 0) = 0
  <2>1. n - 0 = n /\ 0 <= n
    BY <1>1
  <2>2. m \div POWERS[n] = 0
    <3>1. m = 0 * POWERS[n] + m
      BY <1>3
    <3>2. QED
      BY <1>1, <1>3, <3>1, QuotientUnique, 0 \in Nat
  <2>3. QED
    BY <2>1, <2>2 DEF Leading
<1>5. Leading(m, n, n) = m
  BY <1>1, <1>2, n - n = 0 DEF Leading
<1>6. ASSUME NEW j \in Nat, (j + 1) - n <= PowLimit
      PROVE  /\ Nth(c, j + 1) \in Digits /\ Leading(m, n, j) \in Nat
             /\ Leading(m, n, j + 1) = Leading(m, n, j) * Ten + Nth(c, j + 1)
  <2>1. CASE j < n
    <3> DEFINE k == n - (j + 1)
               q == m \div POWERS[k]
    <3>1. k \in 0..PowLimit /\ 1 \in 0..PowLimit /\ k + 1 \in 0..PowLimit /\ k + 1 <= PowLimit /\ n - j = k + 1
          /\ k + 1 \in 1..n /\ (k + 1) - 1 = k /\ (n + 1) - (j + 1) = k + 1 /\ j + 1 <= n /\ j <= n
      BY <1>1, <1>6, <2>1
    <3> HIDE DEF k
    <3>2. POWERS[k] \in Nat \ {0}
      BY <3>1, PowersType
    <3>3. q \in Nat /\ q = (q \div Ten) * Ten + (q % Ten) /\ q \div Ten \in Nat /\ q % Ten \in Nat /\ q % Ten < Ten
      BY <1>1, <3>2, DivMod
    <3>4. q \div Ten = m \div POWERS[k + 1]
      BY <1>2, <3>1, QuotientTwice
    <3>5. c[k + 1] = q % Ten
      BY <1>1, <3>1
    <3> HIDE DEF q
    <3>6. Leading(m, n, j + 1) = q /\ Leading(m, n, j) = q \div Ten
      BY <3>1, <3>4 DEF Leading, q, k
    <3>7. Nth(c, j + 1) = q % Ten
      BY <3>1, <3>5 DEF Nth, n
    <3>8. QED
      BY <1>1, <3>3, <3>6, <3>7 DEF Digits
  <2>2. CASE ~(j < n)
    <3> DEFINE k == j - n
    <3>1. k \in 0..PowLimit /\ 1 \in 0..PowLimit /\ k + 1 \in 0..PowLimit /\ k + 1 <= PowLimit /\ (j + 1) - n = k + 1
          /\ ~(j + 1 <= n) /\ (k = 0 <=> j <= n) /\ (k = 0 <=> n - j = 0)
      BY <1>1, <1>6, <2>2
    <3>2. POWERS[k + 1] = POWERS[k] * Ten /\ POWERS[k] \in Nat
      BY <1>2, <3>1, PowersAdd, PowersType
    <3>3. Leading(m, n, j + 1) = m * POWERS[k + 1]
      BY <3>1 DEF Leading
    <3>4. Leading(m, n, j) = m * POWERS[k]
      <4>1. CASE k = 0
        BY <1>2, <3>1, <4>1, m * 1 = m DEF Leading
      <4>2. CASE k # 0
        BY <3>1, <4>2 DEF Leading
      <4>3. QED
        BY <4>1, <4>2
    <3> HIDE DEF k
    <3>5. m * POWERS[k + 1] = (m * POWERS[k]) * Ten /\ m * POWERS[k] \in Nat
      BY <1>1, <3>2, MulAssoc, \A x, y \in Nat : x * y \in Nat
    <3>6. Nth(c, j + 1) = 0
      BY <3>1 DEF Nth, n
    <3> DEFINE x == m * POWERS[k]
    <3>7. x \in Nat /\ Leading(m, n, j) = x /\ Leading(m, n, j + 1) = x * Ten
      BY <3>3, <3>4, <3>5
    <3> HIDE DEF x
    <3>8. x * Ten + 0 = x * Ten /\ 0 \in Digits
      BY <1>1, <3>7 DEF Digits
    <3>9. QED
      BY <3>6, <3>7, <3>8
  <2>3. QED
    BY <2>1, <2>2
<1>7. QED
  BY <1>4, <1>5, <1>6 DEF n

-----------------------------------------------------------------------------
(* Which of the two texts was read *)

\* Which text the number in hand was read from.
OriginPart ==
    /\ spc = "visiting" => seen.round
    /\ spc = "split" => ppc \in Failed /\ text = whole /\ seen.round
    /\ spc \in {"multiply", "exceeds", "scale_exceeds"} => FromBase /\ ppc = "parsed"
    /\ spc = "done" => ppc = "parsed" /\ seen.round /\ ((text = whole /\ ret = parsed) \/ FromBase)
    /\ spc = "exceeds" => ~Negative(Part) /\ parsed.s < Size
    /\ spc = "failed" =>
        \/ text = whole /\ ExponentsIn(whole) = {} /\ ppc \in Failed /\ seen.round
        \/ FromBase /\ (ppc \in Failed \/ ~IsU32(Unsigned(Part)))

\* What follows the base leaves its origin.
LEMMA BaseStays ==
    ASSUME UNCHANGED <<tvars, whole>>
    PROVE  /\ FromBase <=> FromBase'
           /\ Negative(Part)' = Negative(Part) /\ IsU32(Unsigned(Part))' = IsU32(Unsigned(Part)) /\ Size' = Size
           /\ ppc' = ppc /\ text' = text /\ seen' = seen /\ parsed' = parsed
  BY DEF tvars, FromBase, Part, Size

\* No step of the reader confuses the texts.
LEMMA OriginKept ==
    ASSUME ScientificInv, OriginPart, ScientificNext
    PROVE  OriginPart'
<1>1. CASE Visit
  BY <1>1 DEF Visit, OriginPart, ParseCall, Fresh
<1>2. CASE VisitReturn
  <2>1. UNCHANGED <<tvars, whole>> /\ spc = "visiting" /\ ppc = "parsed" /\ ret' = parsed /\ spc' = "done"
    BY <1>2 DEF VisitReturn
  <2>2. text = whole /\ seen.round
    BY <2>1 DEF OriginPart, ScientificInv, GivenPart
  <2>3. QED
    BY <2>1, <2>2, BaseStays DEF OriginPart, tvars
<1>3. CASE VisitElse
  <2>1. UNCHANGED <<tvars, whole>> /\ spc = "visiting" /\ ppc \in Failed /\ spc' = "split"
    BY <1>3 DEF VisitElse
  <2>2. text = whole /\ seen.round
    BY <2>1 DEF OriginPart, ScientificInv, GivenPart
  <2>3. QED
    BY <2>1, <2>2, BaseStays DEF OriginPart, tvars
<1>4. CASE Split
  BY <1>4 DEF Split, OriginPart
<1>5. CASE NoExponent
  <2>1. UNCHANGED <<tvars, whole>> /\ spc = "split" /\ ExponentsIn(whole) = {} /\ spc' = "failed"
    BY <1>5 DEF NoExponent
  <2>2. QED
    BY <2>1, BaseStays DEF OriginPart, tvars
<1>6. CASE Reading
  <2>1. spc \in {"visiting", "base"} /\ spc' = spc /\ whole' = whole /\ ParserNext
    BY <1>6 DEF Reading, svars
  <2>2. ParserInv
    BY <1>6 DEF ScientificInv, GivenPart, Reading
  <2>3. seen'.round <=> seen.round
    BY <2>1, <2>2, ParserLeaves
  <2>4. QED
    BY <2>1, <2>3 DEF OriginPart
<1>7. CASE BaseFailed
  <2>1. UNCHANGED <<tvars, whole>> /\ spc = "base" /\ spc' = "failed"
        /\ (ppc \in Failed \/ ~IsU32(Unsigned(Part)))
    BY <1>7 DEF BaseFailed
  <2>2. FromBase
    BY <2>1 DEF ScientificInv, GivenPart
  <2>3. QED
    BY <2>1, <2>2, BaseStays DEF OriginPart
<1>8. ASSUME NEW negative \in BOOLEAN, BaseRead(negative), UNCHANGED <<tvars, whole>>,
             spc' \in {"done", "scale_exceeds", "multiply"}
      PROVE  OriginPart'
  <2>1. FromBase /\ ppc = "parsed" /\ seen.round
    BY <1>8 DEF BaseRead, ScientificInv, GivenPart, FromBase
  <2>2. QED
    BY <1>8, <2>1, BaseStays DEF OriginPart
<1>9. CASE NegativeExponent
  <2>1. BaseRead(TRUE) /\ UNCHANGED <<tvars, whole>> /\ spc' \in {"done", "scale_exceeds", "multiply"}
    BY <1>9 DEF NegativeExponent, SetScale
  <2>2. QED
    BY <1>8, <2>1
<1>10. CASE WithinScale
  <2>1. BaseRead(FALSE) /\ UNCHANGED <<tvars, whole>> /\ spc' \in {"done", "scale_exceeds", "multiply"}
    BY <1>10 DEF WithinScale, SetScale
  <2>2. QED
    BY <1>8, <2>1
<1>11. CASE BeyondScale
  <2>1. BaseRead(FALSE) /\ UNCHANGED <<tvars, whole>> /\ spc' \in {"done", "scale_exceeds", "multiply"}
    BY <1>11 DEF BeyondScale
  <2>2. QED
    BY <1>8, <2>1
<1>12. CASE Multiply \/ StripZeros
  <2>1. UNCHANGED <<tvars, whole>> /\ spc = "multiply" /\ spc' \in {"multiply", "exceeds", "done"}
    BY <1>12 DEF Multiply, StripZeros
  <2>2. FromBase /\ ppc = "parsed" /\ ~Negative(Part) /\ parsed.s < Size /\ seen.round
    BY <2>1 DEF ScientificInv, MultiplyPart, FromBase
  <2>3. QED
    BY <2>1, <2>2, BaseStays DEF OriginPart
<1>13. QED
  BY <1>1, <1>2, <1>3, <1>4, <1>5, <1>6, <1>7, <1>9, <1>10, <1>11, <1>12 DEF ScientificNext

\* Where the exponent of a text begins.
LEMMA ExponentFound ==
    ASSUME NEW t \in Seq(0..Letter), NEW e \in Seq(0..Letter), NEW w, w = (t \o <<Exponent>>) \o e,
           \A i \in 1..Len(t) : t[i] # Exponent
    PROVE  /\ w \in Seq(0..Letter) /\ Len(w) = Len(t) + 1 + Len(e)
           /\ ExponentsIn(w) # {} /\ BasePart(w) = t /\ ExponentPart(w) = e
<1> DEFINE k == Len(t) + 1
<1>1. Exponent \in 0..Letter
  BY BytesDiffer DEF Exponent, Letter
<1>2. /\ w \in Seq(0..Letter) /\ Len(w) = k + Len(e) /\ Len(e) \in Nat /\ Len(t) \in Nat
      /\ \A i \in 1..Len(t) : w[i] = t[i]
      /\ w[k] = Exponent
      /\ \A i \in 1..Len(e) : w[k + i] = e[i]
  BY <1>1
<1>3. k \in ExponentsIn(w) /\ \A i \in ExponentsIn(w) : i \in Nat /\ k <= i
  BY <1>2 DEF ExponentsIn
<1>4. FirstExponent(w) = k
  <2>1. k \in Nat
    BY <1>2
  <2> HIDE DEF k
  <2>2. \E i \in ExponentsIn(w) : \A j \in ExponentsIn(w) : i <= j
    BY <1>3
  <2> DEFINE x == FirstExponent(w)
  <2>3. x \in ExponentsIn(w) /\ \A j \in ExponentsIn(w) : x <= j
    BY <2>2 DEF FirstExponent
  <2> HIDE DEF x
  <2>4. x <= k /\ k <= x /\ x \in Nat
    BY <1>3, <2>3
  <2>5. QED
    BY <2>1, <2>4 DEF x
<1>5. BasePart(w) = t
  <2>1. k - 1 = Len(t) /\ Len(t) \in 0..Len(w)
    BY <1>2
  <2>2. SubSeq(w, 1, Len(t)) \in Seq(0..Letter) /\ Len(SubSeq(w, 1, Len(t))) = Len(t)
        /\ \A i \in 1..Len(t) : SubSeq(w, 1, Len(t))[i] = t[i]
    BY <1>2, <2>1, PrefixIn
  <2> DEFINE g == SubSeq(w, 1, Len(t))
  <2> HIDE DEF g, k
  <2>3. g \in Seq(0..Letter) /\ Len(g) = Len(t) /\ \A i \in 1..Len(t) : g[i] = t[i]
    BY <2>2 DEF g
  <2>4. g = t
    BY <2>3
  <2>5. QED
    BY <1>4, <2>1, <2>4 DEF BasePart, g
<1>6. ExponentPart(w) = e
  <2> DEFINE g == SubSeq(w, k + 1, Len(w))
  <2>1. k + 1 \in Int /\ Len(w) \in Int /\ k \in Nat
    BY <1>2
  <2>2. \A i \in (k + 1)..Len(w) : w[i] \in 0..Letter
    <3>1. \A i \in 1..Len(w) : w[i] \in 0..Letter
      BY <1>2, ElementsOf
    <3>2. QED
      BY <1>2, <2>1, <3>1
  <2>3. /\ g \in Seq(0..Letter) /\ Len(g) = IF k + 1 <= Len(w) THEN Len(w) - (k + 1) + 1 ELSE 0
        /\ \A i \in 1..(Len(w) - (k + 1) + 1) : g[i] = w[(k + 1) + i - 1]
    BY <2>1, <2>2, SubSeqProperties
  <2>4. Len(g) = Len(e) /\ \A i \in 1..Len(e) : g[i] = e[i]
    <3> HIDE DEF g, k
    <3> DEFINE n == Len(w)
               l == Len(e)
    <3>1. n = k + l /\ l \in Nat /\ k \in Nat
      BY <1>2, <2>1
    <3>2. Len(g) = IF k + 1 <= n THEN n - (k + 1) + 1 ELSE 0
      BY <2>3
    <3> HIDE DEF n
    <3>3. Len(g) = l
      BY <3>1, <3>2
    <3>4. \A i \in 1..l : i \in 1..(n - (k + 1) + 1) /\ (k + 1) + i - 1 = k + i
      BY <3>1
    <3>5. \A i \in 1..(n - (k + 1) + 1) : g[i] = w[(k + 1) + i - 1]
      BY <2>3 DEF n
    <3>6. \A i \in 1..l : g[i] = e[i]
      BY <1>2, <3>4, <3>5
    <3>7. QED
      BY <3>3, <3>6
  <2> HIDE DEF g
  <2>5. g = e
    <3>1. g \in Seq(0..Letter)
      BY <2>3
    <3> HIDE DEF k
    <3>2. QED
      BY <2>4, <3>1, SMTT(30)
  <2>6. QED
    BY <1>4, <2>5 DEF ExponentPart, g
<1>7. QED
  BY <1>2, <1>3, <1>5, <1>6

-----------------------------------------------------------------------------
(* Texts put together *)

\* A function on positions is a sequence.
LEMMA MakesSequence ==
    ASSUME NEW S, NEW n \in Nat, NEW t \in [1..n -> S]
    PROVE  t \in Seq(S) /\ Len(t) = n
<1>1. t \in Seq(S)
  BY SeqDef
<1>2. DOMAIN t = 1..n /\ DOMAIN t = 1..Len(t) /\ Len(t) \in Nat
  BY <1>1, LenProperties
<1>3. QED
  BY <1>1, <1>2

\* An element behind a text, appended or joined.
LEMMA PutBehind ==
    ASSUME NEW S, NEW a \in Seq(S), NEW b \in Seq(S), NEW c \in S
    PROVE  a \o Append(b, c) = Append(a \o b, c) /\ a \o <<c>> = Append(a, c)
<1>1. <<c>> \in Seq(S) /\ Append(b, c) = b \o <<c>> /\ a \o b \in Seq(S) /\ Append(a \o b, c) = (a \o b) \o <<c>>
  OBVIOUS
<1>2. (a \o b) \o <<c>> = a \o (b \o <<c>>)
  BY <1>1, ConcatAssociative
<1>3. QED
  BY <1>1, <1>2

\* Repeat returns so many elements.
LEMMA Repeated ==
    ASSUME NEW S, NEW c \in S, NEW n \in Nat
    PROVE  /\ Repeat(c, n) \in Seq(S) /\ Len(Repeat(c, n)) = n /\ \A i \in 1..n : Repeat(c, n)[i] = c
           /\ n = 0 => Repeat(c, n) = <<>>
           /\ n > 0 => Repeat(c, n) = Append(Repeat(c, n - 1), c)
<1>1. ASSUME NEW k \in Nat
      PROVE  Repeat(c, k) \in Seq(S) /\ Len(Repeat(c, k)) = k /\ \A i \in 1..k : Repeat(c, k)[i] = c
  <2>1. Repeat(c, k) \in [1..k -> S] /\ \A i \in 1..k : Repeat(c, k)[i] = c
    BY DEF Repeat
  <2>2. QED
    BY <2>1, MakesSequence
<1>2. ASSUME n > 0 PROVE Repeat(c, n) = Append(Repeat(c, n - 1), c)
  <2> DEFINE a == Repeat(c, n - 1)
             b == Repeat(c, n)
             d == Append(a, c)
  <2>1. n - 1 \in Nat
    BY <1>2
  <2>2. a \in Seq(S) /\ Len(a) = n - 1 /\ \A i \in 1..(n - 1) : a[i] = c
    BY <1>1, <2>1
  <2>3. b \in Seq(S) /\ Len(b) = n /\ \A i \in 1..n : b[i] = c
    BY <1>1
  <2> HIDE DEF a, b
  <2>4. d \in Seq(S) /\ Len(d) = (n - 1) + 1 /\ d[(n - 1) + 1] = c /\ \A i \in 1..(n - 1) : d[i] = a[i]
    BY <2>2, AppendProperties
  <2>5. (n - 1) + 1 = n /\ \A i \in 1..n : i = n \/ i \in 1..(n - 1)
    BY <2>1
  <2>6. Len(d) = n /\ \A i \in 1..n : d[i] = c
    BY <2>2, <2>4, <2>5
  <2> HIDE DEF d
  <2>7. b = d
    BY <2>3, <2>4, <2>6, SeqEqual
  <2>8. QED
    BY <2>7 DEF a, b, d
<1>3. n = 0 => Repeat(c, n) = <<>>
  BY <1>1
<1>4. QED
  BY <1>1, <1>2, <1>3

\* Zeros behind the digits.
LEMMA SpellsZeros ==
    ASSUME NEW t, NEW neg \in BOOLEAN, NEW point \in BOOLEAN, NEW v \in Nat, NEW f,
           Spells(t, neg, TRUE, point, v, f), NEW k \in 0..PowLimit, k > 0 => point
    PROVE  Spells(t \o Repeat(0, k), neg, TRUE, point, v * POWERS[k], f + k)
<1> DEFINE Longer(j) == Spells(t \o Repeat(0, j), neg, TRUE, point, v * POWERS[j], f + j)
           T == {j \in 0..k : Longer(j)}
<1>1. t \in Seq(0..Letter) /\ f \in Nat /\ k \in Nat /\ 0 \in 0..Letter /\ 0 \in Digits /\ Ten \in Nat
      /\ PowLimit \in Nat
  BY BytesDiffer, ScaleAssumption DEF Spells, Digits
<1>2. 0 \in T
  <2>1. Repeat(0, 0) = <<>>
    BY <1>1, Repeated, 0 \in Nat
  <2>2. t \o Repeat(0, 0) = t
    BY <1>1, <2>1, ConcatEmptySeq
  <2>3. v * POWERS[0] = v /\ f + 0 = f /\ 0 \in 0..k
    BY <1>1, PowersAssumption
  <2>4. Longer(0)
    BY <2>2, <2>3
  <2>5. QED
    BY <2>3, <2>4
<1>3. \A j \in 1..k : j - 1 \in T => j \in T
  <2>0. \A j \in 1..k : Longer(j) => j \in T
    <3> HIDE DEF Longer
    <3>1. \A j \in 1..k : j \in 0..k
      BY <1>1
    <3>2. QED
      BY <3>1
  <2>1. SUFFICES ASSUME NEW j \in 1..k, j - 1 \in T PROVE Longer(j)
    BY <2>0, Zenon
  <2>2. j - 1 \in 0..PowLimit /\ 1 \in 0..PowLimit /\ (j - 1) + 1 = j /\ j <= PowLimit /\ j \in Nat /\ j > 0 /\ k > 0 /\ j - 1 \in Nat
    BY <1>1, <2>1
  <2>3. POWERS[j - 1] \in Nat /\ POWERS[j] = POWERS[j - 1] * Ten
    <3>1. POWERS[(j - 1) + 1] = POWERS[j - 1] * POWERS[1]
      BY <2>2, PowersAdd
    <3>2. QED
      BY <2>2, <3>1, PowersType, PowersAssumption
  <2> DEFINE r == Repeat(0, j - 1)
             w == v * POWERS[j - 1]
             g == f + (j - 1)
  <2>4. r \in Seq(0..Letter) /\ Repeat(0, j) = Append(r, 0)
    BY <1>1, <2>2, Repeated
  <2>5. w \in Nat /\ g \in Nat
    <3>1. \A x, y \in Nat : x * y \in Nat
      OBVIOUS
    <3>2. QED
      BY <1>1, <2>2, <2>3, <3>1
  <2>6. Spells(t \o r, neg, TRUE, point, w, g)
    BY <2>1
  <2>7. point
    BY <2>2
  <2>8. t \o Repeat(0, j) = Append(t \o r, 0)
    <3> HIDE DEF r
    <3>1. t \o Append(r, 0) = Append(t \o r, 0)
      BY <1>1, <2>4, PutBehind
    <3>2. QED
      BY <2>4, <3>1
  <2>9. v * POWERS[j] = w * Ten + 0 /\ f + j = g + 1
    <3>1. v * (POWERS[j - 1] * Ten) = w * Ten /\ w * Ten \in Int
      BY <1>1, <2>3, MulAssoc
    <3>2. f + j = g + 1
      BY <1>1, <2>1
    <3> HIDE DEF w, g
    <3>3. QED
      BY <2>3, <3>1, <3>2
  <2> HIDE DEF r, w, g
  <2>10. Spells(Append(t \o r, 0), neg, TRUE, point, w * Ten + 0, IF point THEN g + 1 ELSE 0)
    BY <1>1, <2>5, <2>6, SpellsDigit, TRUE \in BOOLEAN
  <2>11. QED
    BY <2>7, <2>8, <2>9, <2>10
<1>4. \A j \in 0..k : j \in T
  <2> HIDE DEF T
  <2>1. QED
    BY <1>1, <1>2, <1>3, RangeInduction
<1>5. k \in T
  <2> HIDE DEF T
  <2>1. k \in 0..k
    BY <1>1
  <2>2. QED
    BY <1>4, <2>1
<1>6. QED
  BY <1>5

-----------------------------------------------------------------------------
(* The exponent *)

\* An integer up to MAX_SCALE has one digit or two.
LEMMA ShortNumber ==
    ASSUME NEW n \in 0..MAX_SCALE
    PROVE  \/ n \in Digits /\ Spelled(n) = <<n>>
           \/ /\ n \div Ten \in Digits /\ n % Ten \in Digits /\ n = (n \div Ten) * Ten + (n % Ten)
              /\ Spelled(n) = <<n \div Ten, n % Ten>>
<1> DEFINE Fit(k) == n < POWERS[k] /\ (k > 1 => POWERS[k - 1] <= n)
<1>1. /\ n \in Nat /\ n < POWERS[2] /\ MAX_SCALE \in Nat /\ PowLimit \in Nat /\ PowLimit >= 2 /\ Ten \in Nat /\ Ten >= 2
      /\ Digits = 0..(Ten - 1)
  <2>1. MAX_SCALE \in Nat /\ PowLimit \in Nat /\ PowLimit >= 2 /\ n \in Nat /\ n <= MAX_SCALE
    BY ScaleAssumption
  <2>2. 2 \in 0..PowLimit
    BY <2>1
  <2>3. POWERS[2] \in Nat /\ MAX_SCALE < POWERS[2]
    BY <2>2, PowersType, FormatterAssumption
  <2>4. QED
    BY <2>1, <2>3, BytesDiffer
<1>2. POWERS[0] = 1 /\ POWERS[1] = Ten /\ 1 \in 0..PowLimit /\ POWERS[2] = Ten * Ten
  <2>1. 1 \in 0..PowLimit /\ 1 + 1 <= PowLimit /\ 1 + 1 = 2
    BY <1>1
  <2>2. POWERS[1 + 1] = POWERS[1] * POWERS[1]
    BY <2>1, PowersAdd
  <2>3. QED
    BY <2>1, <2>2, PowersAssumption
<1>3. ASSUME NEW k \in 1..PowLimit, Fit(k) PROVE k \in {1, 2}
  <2>1. SUFFICES ASSUME k > 2 PROVE FALSE
    BY <1>1
  <2>2. 2 \in 0..PowLimit /\ k - 1 \in 0..PowLimit /\ 2 <= k - 1
    BY <1>1, <2>1
  <2>3. POWERS[2] <= POWERS[k - 1] /\ POWERS[k - 1] \in Nat /\ POWERS[2] \in Nat
    BY <2>2, PowersMono, PowersType
  <2>4. POWERS[k - 1] <= n
    BY <1>3, <2>1
  <2> HIDE DEF Fit
  <2>5. QED
    BY <1>1, <2>3, <2>4
<1>4. (Fit(1) <=> n < Ten) /\ (Fit(2) <=> Ten <= n)
  BY <1>1, <1>2
<1> DEFINE k == CHOOSE k \in 1..PowLimit : Fit(k)
<1>5. k \in 1..PowLimit /\ Fit(k)
  <2> HIDE DEF Fit
  <2>1. 1 \in 1..PowLimit /\ 2 \in 1..PowLimit /\ (n < Ten \/ Ten <= n)
    BY <1>1
  <2>2. QED
    BY <1>4, <2>1
<1>6. Spelled(n) = [i \in 1..k |-> (n \div POWERS[k - i]) % Ten]
  BY DEF Spelled
<1> HIDE DEF k
<1>7. CASE n < Ten
  <2>1. k = 1
    BY <1>1, <1>3, <1>4, <1>5, <1>7
  <2>2. n \in Digits /\ n \div 1 = n /\ n % Ten = n
    BY <1>1, <1>7
  <2> DEFINE w == [i \in 1..1 |-> (n \div POWERS[1 - i]) % Ten]
             u == <<n>>
  <2>3. Spelled(n) = w
    BY <1>6, <2>1
  <2>4. w \in [1..1 -> Nat] /\ w[1] = n
    <3>1. (n \div POWERS[1 - 1]) % Ten = n
      BY <1>2, <2>2
    <3>2. \A i \in 1..1 : i = 1
      OBVIOUS
    <3>3. QED
      BY <1>1, <3>1, <3>2
  <2>5. w \in Seq(Nat) /\ Len(w) = 1
    BY <2>4, MakesSequence
  <2>6. u \in Seq(Nat) /\ Len(u) = 1 /\ u[1] = n
    BY <1>1
  <2> HIDE DEF w, u
  <2>7. w = u
    BY <2>4, <2>5, <2>6, SeqEqual
  <2>8. QED
    BY <2>2, <2>3, <2>7 DEF u
<1>8. CASE ~(n < Ten)
  <2>1. k = 2
    BY <1>1, <1>3, <1>4, <1>5, <1>8
  <2> DEFINE q == n \div Ten
             r == n % Ten
             w == [i \in 1..2 |-> (n \div POWERS[2 - i]) % Ten]
             u == <<q, r>>
  <2>2. q \in Nat /\ r \in Nat /\ r < Ten /\ n = q * Ten + r
    BY <1>1, DivMod
  <2>3. q < Ten
    BY <1>1, <1>2, QuotientBound
  <2>4. Spelled(n) = w
    BY <1>6, <2>1
  <2>5. w \in [1..2 -> Nat] /\ w[1] = q /\ w[2] = r
    <3>1. (n \div POWERS[2 - 2]) % Ten = r
      BY <1>1, <1>2, n \div 1 = n
    <3>2. (n \div POWERS[2 - 1]) % Ten = q
      <4>1. n \div POWERS[2 - 1] = q
        BY <1>2
      <4>2. q % Ten = q
        <5> HIDE DEF q
        <5>1. QED
          BY <1>1, <2>2, <2>3
      <4> HIDE DEF q
      <4>3. QED
        BY <4>1, <4>2
    <3>3. \A i \in 1..2 : i \in {1, 2}
      OBVIOUS
    <3> HIDE DEF q, r
    <3>4. w[1] = q /\ w[2] = r /\ q \in Nat /\ r \in Nat
      BY <2>2, <3>1, <3>2
    <3>5. \A i \in 1..2 : w[i] \in Nat
      BY <3>3, <3>4
    <3>6. QED
      BY <3>4, <3>5
  <2>6. w \in Seq(Nat) /\ Len(w) = 2
    BY <2>5, MakesSequence
  <2> HIDE DEF q, r
  <2>7. u \in Seq(Nat) /\ Len(u) = 2 /\ u[1] = q /\ u[2] = r
    BY <2>2
  <2> HIDE DEF w, u
  <2>8. \A i \in 1..2 : w[i] = u[i]
    <3>1. \A i \in 1..2 : i \in {1, 2}
      OBVIOUS
    <3>2. QED
      BY <2>5, <2>7, <3>1
  <2>9. w = u
    BY <2>6, <2>7, <2>8, SeqEqual
  <2>10. q \in Digits /\ r \in Digits
    BY <1>1, <2>2, <2>3
  <2>11. QED
    BY <2>2, <2>4, <2>9, <2>10 DEF u, q, r
<1>9. QED
  BY <1>7, <1>8

\* The exponent as it is written.
ExponentText(neg, n) == (IF neg THEN <<Minus>> ELSE <<>>) \o Spelled(n)

\* The exponent written is read as the number it is.
LEMMA ExponentSpelled ==
    ASSUME NEW n \in 0..MAX_SCALE, NEW neg \in BOOLEAN
    PROVE  LET e == ExponentText(neg, n)
           IN  /\ e \in Seq(0..Letter) /\ Len(e) <= 3 /\ \A i \in 1..Len(e) : e[i] # Underscore
               /\ Numeral(e) = n /\ (Negative(e) <=> neg) /\ IsU32(Unsigned(e))
<1> DEFINE b == IF neg THEN <<Minus>> ELSE <<>>
           l == IF neg THEN 1 ELSE 0
           ds == Spelled(n)
           e == ExponentText(neg, n)
<1>1. Ten \in Nat /\ Minus \in 0..Letter /\ Digits \subseteq 0..Letter /\ Minus \notin Digits /\ Plus \notin Digits /\ Minus # Plus
  BY BytesDiffer DEF Minus, Letter
<1>2. /\ b \in Seq(0..Letter) /\ Len(b) = l /\ l \in 0..1 /\ (l = 1 <=> neg) /\ (neg => b[1] = Minus)
      /\ Spells(b, neg, FALSE, FALSE, 0, 0)
  <2>1. CASE neg
    <3>1. neg = TRUE /\ b = <<Minus>> /\ l = 1
      BY <2>1
    <3>2. Spells(b, neg, FALSE, FALSE, 0, 0)
      BY <3>1, SpellsNothing
    <3>3. b \in Seq(0..Letter) /\ Len(b) = l /\ l \in 0..1 /\ (l = 1 <=> neg) /\ (neg => b[1] = Minus)
      BY <1>1, <2>1, <3>1
    <3>4. QED
      BY <3>2, <3>3, Zenon
  <2>2. CASE ~neg
    <3>1. neg = FALSE /\ b = <<>> /\ l = 0
      BY <2>2
    <3>2. Spells(b, neg, FALSE, FALSE, 0, 0)
      BY <3>1, SpellsNothing
    <3>3. b \in Seq(0..Letter) /\ Len(b) = l /\ l \in 0..1 /\ (l = 1 <=> neg) /\ (neg => b[1] = Minus)
      BY <1>1, <2>2, <3>1
    <3>4. QED
      BY <3>2, <3>3, Zenon
  <2>3. QED
    BY <2>1, <2>2
<1> HIDE DEF b
<1>3. /\ ds \in Seq(Digits) /\ Len(ds) \in 1..2
      /\ Spells(b \o ds, neg, TRUE, FALSE, n, 0)
  <2>1. CASE n \in Digits /\ ds = <<n>>
    <3>1. Spells(Append(b, n), neg, TRUE, FALSE, 0 * Ten + n, IF FALSE THEN 0 + 1 ELSE 0)
      BY <1>2, <2>1, SpellsDigit, FALSE \in BOOLEAN, 0 \in Nat
    <3>2. 0 * Ten + n = n /\ n \in Nat
      BY <1>1, ScaleAssumption
    <3>3. n \in 0..Letter
      BY <1>1, <2>1
    <3>4. b \o ds = Append(b, n)
      BY <1>2, <2>1, <3>3
    <3>5. <<n>> \in Seq(Digits) /\ Len(<<n>>) = 1
      BY <2>1
    <3> HIDE DEF ds
    <3>6. Spells(b \o ds, neg, TRUE, FALSE, n, 0)
      BY <3>1, <3>2, <3>4
    <3>7. ds \in Seq(Digits) /\ Len(ds) \in 1..2
      BY <2>1, <3>5
    <3>8. QED
      BY <3>6, <3>7, Zenon
  <2>2. CASE /\ n \div Ten \in Digits /\ n % Ten \in Digits /\ n = (n \div Ten) * Ten + (n % Ten)
             /\ ds = <<n \div Ten, n % Ten>>
    <3> DEFINE q == n \div Ten
               r == n % Ten
    <3>1. q \in Digits /\ r \in Digits /\ n = q * Ten + r /\ ds = <<q, r>>
      BY <2>2
    <3> HIDE DEF q, r, ds
    <3>2. q \in Nat /\ r \in Nat /\ q \in 0..Letter /\ r \in 0..Letter
      BY <1>1, <3>1, BytesDiffer
    <3>3. Spells(Append(b, q), neg, TRUE, FALSE, 0 * Ten + q, IF FALSE THEN 0 + 1 ELSE 0)
      BY <1>2, <3>1, SpellsDigit, FALSE \in BOOLEAN, 0 \in Nat
    <3>4. 0 * Ten + q = q
      BY <1>1, <3>2
    <3>5. Spells(Append(b, q), neg, TRUE, FALSE, q, 0)
      BY <3>3, <3>4
    <3>6. Spells(Append(Append(b, q), r), neg, TRUE, FALSE, q * Ten + r, IF FALSE THEN 0 + 1 ELSE 0)
      BY <3>1, <3>2, <3>5, SpellsDigit, FALSE \in BOOLEAN, TRUE \in BOOLEAN
    <3>7. b \o ds = Append(Append(b, q), r)
      BY <1>2, <3>1, <3>2
    <3>8. <<q, r>> \in Seq(Digits) /\ Len(<<q, r>>) = 2
      BY <3>1
    <3>9. Spells(b \o ds, neg, TRUE, FALSE, n, 0)
      BY <3>1, <3>6, <3>7
    <3>10. ds \in Seq(Digits) /\ Len(ds) \in 1..2
      BY <3>1, <3>8
    <3>11. QED
      BY <3>9, <3>10, Zenon
  <2>3. QED
    BY <2>1, <2>2, ShortNumber
<1> HIDE DEF ds
<1>4. e = b \o ds
  BY DEF ExponentText, b, ds
<1> HIDE DEF e
<1>5. ds \in Seq(0..Letter) /\ Len(ds) \in Nat
  BY <1>1, <1>3, SequenceWithin
<1>6. /\ e \in Seq(0..Letter) /\ Len(e) = l + Len(ds)
      /\ \A i \in 1..Len(ds) : e[l + i] = ds[i]
      /\ (neg => e[1] = Minus) /\ (~neg => e = ds)
  <2>1. \A i \in 1..Len(ds) : l + i \in 1..(l + Len(ds)) /\ ~(l + i <= l) /\ (l + i) - l = i
    BY <1>2, <1>5
  <2>2. e \in Seq(0..Letter) /\ Len(e) = l + Len(ds)
        /\ \A i \in 1..(l + Len(ds)) : e[i] = IF i <= l THEN b[i] ELSE ds[i - l]
    <3>1. b \in Seq(0..Letter) /\ Len(b) = l
      BY <1>2
    <3> HIDE DEF l
    <3>2. /\ b \o ds \in Seq(0..Letter) /\ Len(b \o ds) = Len(b) + Len(ds)
          /\ \A i \in 1..(Len(b) + Len(ds)) :
                (b \o ds)[i] = IF i <= Len(b) THEN b[i] ELSE ds[i - Len(b)]
      BY <3>1, <1>5, ConcatProperties
    <3>3. QED
      BY <3>1, <3>2, <1>4
  <2>3. neg => 1 \in 1..(l + Len(ds)) /\ 1 <= l
    BY <1>2, <1>5
  <2>4. ~neg => b = <<>>
    BY DEF b
  <2>5. ~neg => e = ds
    BY <1>4, <1>5, <2>4, ConcatEmptySeq
  <2>6. QED
    BY <1>2, <2>1, <2>2, <2>3, <2>5
<1>7. Len(e) <= 3 /\ e # <<>>
  <2> DEFINE k == Len(ds)
  <2>1. k \in 1..2 /\ l \in 0..1 /\ Len(e) = l + k
    BY <1>2, <1>3, <1>6
  <2> HIDE DEF k, l
  <2>2. Len(e) <= 3 /\ Len(e) >= 1
    BY <2>1
  <2>3. QED
    BY <1>6, <2>2
<1>8. Numeral(e) = n /\ \A i \in 1..Len(e) : e[i] # Underscore
  BY <1>3, <1>4, SpellsFacts, TRUE \in BOOLEAN, FALSE \in BOOLEAN
<1>9. \A i \in 1..Len(ds) : ds[i] \in Digits
  BY <1>3, ElementsOf
<1>10. Negative(e) <=> neg
  <2>1. ~neg => e[1] = ds[1] /\ 1 \in 1..Len(ds)
    BY <1>3, <1>6
  <2>2. QED
    BY <1>1, <1>6, <1>7, <1>9, <2>1 DEF Negative
<1>11. Unsigned(e) = ds
  <2>1. CASE ~neg
    BY <1>6, <1>10, <2>1 DEF Unsigned
  <2>2. CASE neg
    <3> DEFINE u == Tail(e)
    <3>1. u \in Seq(0..Letter) /\ Len(u) = Len(e) - 1 /\ \A i \in 1..Len(u) : u[i] = e[i + 1]
      BY <1>6, <1>7, HeadTailProperties
    <3>2. Len(u) = Len(ds) /\ \A i \in 1..Len(ds) : u[i] = ds[i]
      <4> HIDE DEF u
      <4>1. l = 1 /\ Len(e) = 1 + Len(ds)
        BY <1>2, <1>6, <2>2
      <4>2. Len(u) = Len(ds)
        BY <1>5, <3>1, <4>1
      <4>3. \A i \in 1..Len(ds) : i + 1 = 1 + i /\ e[1 + i] = ds[i]
        BY <1>5, <1>6, <4>1
      <4>4. QED
        BY <3>1, <4>2, <4>3
    <3>3. Unsigned(e) = u
      BY <1>10, <2>2 DEF Unsigned
    <3> HIDE DEF u
    <3>4. QED
      BY <1>5, <3>1, <3>2, <3>3, SeqEqual
  <2>3. QED
    BY <2>1, <2>2
<1>12. IsU32(ds)
  <2>1. ds # <<>> /\ DOMAIN ds = 1..Len(ds) /\ 1 \in 1..Len(ds)
    BY <1>3
  <2>2. ds[1] # Plus
    BY <1>1, <1>9, <2>1
  <2>3. QED
    BY <1>9, <2>1, <2>2 DEF IsU32
<1>13. QED
  BY <1>6, <1>7, <1>8, <1>10, <1>11, <1>12 DEF e

-----------------------------------------------------------------------------
(* The digits of the scientific form *)

\* The first digit, the point and p digits more.
Pointed(c, p) == [i \in 1..(p + 2) |-> IF i = 1 THEN Nth(c, 1) ELSE IF i = 2 THEN Point ELSE Nth(c, i - 1)]

\* It is a text, with the point at its second position.
LEMMA PointedFacts ==
    ASSUME NEW c, NEW p \in Nat, \A j \in 1..(p + 1) : Nth(c, j) \in Digits
    PROVE  /\ Pointed(c, p) \in Seq(0..Letter) /\ Len(Pointed(c, p)) = p + 2
           /\ p = 0 => Pointed(c, p) = Append(<<Nth(c, 1)>>, Point)
           /\ p > 0 => Pointed(c, p) = Append(Pointed(c, p - 1), Nth(c, p + 1))
<1>1. Digits \subseteq 0..Letter /\ Point \in 0..Letter
  BY BytesDiffer DEF Letter, Point
<1>2. ASSUME NEW k \in Nat, k <= p
      PROVE  /\ Pointed(c, k) \in Seq(0..Letter) /\ Len(Pointed(c, k)) = k + 2
             /\ \A i \in 1..(k + 2) : Pointed(c, k)[i] = IF i = 1 THEN Nth(c, 1) ELSE IF i = 2 THEN Point ELSE Nth(c, i - 1)
  <2> DEFINE Char(i) == IF i = 1 THEN Nth(c, 1) ELSE IF i = 2 THEN Point ELSE Nth(c, i - 1)
             t == Pointed(c, k)
  <2>1. ASSUME NEW i \in 1..(k + 2) PROVE Char(i) \in 0..Letter
    <3>1. CASE i = 1
      BY <1>1, <3>1, 1 \in 1..(p + 1)
    <3>2. CASE i = 2
      BY <1>1, <3>2
    <3>3. CASE i > 2
      <4>1. i - 1 \in 1..(p + 1) /\ i # 1 /\ i # 2
        BY <1>2, <3>3
      <4>2. QED
        BY <1>1, <4>1
    <3>4. QED
      BY <3>1, <3>2, <3>3
  <2>2. t = [i \in 1..(k + 2) |-> Char(i)] /\ k + 2 \in Nat
    BY <1>2 DEF Pointed
  <2> HIDE DEF Char, t
  <2>3. t \in [1..(k + 2) -> 0..Letter]
    BY <2>1, <2>2
  <2>4. t \in Seq(0..Letter) /\ Len(t) = k + 2
    BY <2>2, <2>3, MakesSequence
  <2>5. \A i \in 1..(k + 2) : t[i] = Char(i)
    BY <2>2
  <2>6. QED
    BY <2>4, <2>5 DEF t, Char
<1>3. ASSUME p = 0 PROVE Pointed(c, p) = Append(<<Nth(c, 1)>>, Point)
  <2> DEFINE x == Nth(c, 1)
             t == Pointed(c, 0)
             u == Append(<<x>>, Point)
  <2>1. x \in 0..Letter
    BY <1>1, 1 \in 1..(p + 1)
  <2>2. t \in Seq(0..Letter) /\ Len(t) = 2 /\ t[1] = x /\ t[2] = Point
    <3>1. 0 \in Nat /\ 0 <= p /\ 0 + 2 = 2 /\ 1 \in 1..2 /\ 2 \in 1..2
      BY <1>3
    <3>2. /\ t \in Seq(0..Letter) /\ Len(t) = 0 + 2
          /\ \A i \in 1..(0 + 2) : t[i] = IF i = 1 THEN Nth(c, 1) ELSE IF i = 2 THEN Point ELSE Nth(c, i - 1)
      BY <1>2, <3>1
    <3> HIDE DEF t
    <3>3. QED
      BY <3>1, <3>2
  <2> HIDE DEF x, t
  <2>3. u \in Seq(0..Letter) /\ Len(u) = 2 /\ u[1] = x /\ u[2] = Point
    BY <1>1, <2>1
  <2> HIDE DEF u
  <2>4. \A i \in 1..2 : i \in {1, 2}
    OBVIOUS
  <2>5. t = u
    BY <2>2, <2>3, <2>4, SeqEqual
  <2>6. QED
    BY <1>3, <2>5 DEF t, u, x
<1>4. ASSUME p > 0 PROVE Pointed(c, p) = Append(Pointed(c, p - 1), Nth(c, p + 1))
  <2> DEFINE x == Nth(c, p + 1)
             t == Pointed(c, p)
             a == Pointed(c, p - 1)
             u == Append(a, x)
             Char(i) == IF i = 1 THEN Nth(c, 1) ELSE IF i = 2 THEN Point ELSE Nth(c, i - 1)
  <2>1. p - 1 \in Nat /\ p - 1 <= p /\ p <= p /\ (p - 1) + 2 = p + 1 /\ p + 1 \in 1..(p + 1) /\ (p + 1) + 1 = p + 2
    BY <1>4
  <2>2. x \in 0..Letter
    BY <1>1, <2>1
  <2>3. t \in Seq(0..Letter) /\ Len(t) = p + 2 /\ \A i \in 1..(p + 2) : t[i] = Char(i)
    BY <1>2, <2>1
  <2>4. a \in Seq(0..Letter) /\ Len(a) = p + 1 /\ \A i \in 1..(p + 1) : a[i] = Char(i)
    BY <1>2, <2>1
  <2>5. Char(p + 2) = x
    BY <1>4
  <2> HIDE DEF x, t, a, Char
  <2>6. u \in Seq(0..Letter) /\ Len(u) = p + 2 /\ u[p + 2] = x /\ \A i \in 1..(p + 1) : u[i] = a[i]
    BY <2>1, <2>2, <2>4, AppendProperties
  <2> HIDE DEF u
  <2>7. \A i \in 1..(p + 2) : i \in 1..(p + 1) \/ i = p + 2
    OBVIOUS
  <2>8. \A i \in 1..(p + 2) : t[i] = u[i]
    BY <2>3, <2>4, <2>5, <2>6, <2>7
  <2>9. t = u
    BY <2>3, <2>6, <2>8, SeqEqual
  <2>10. QED
    BY <2>9 DEF t, u, x, a
<1>5. QED
  BY <1>2, <1>3, <1>4

\* What they say.
LEMMA PointedSays ==
    ASSUME NEW b, NEW neg \in BOOLEAN, Spells(b, neg, FALSE, FALSE, 0, 0),
           NEW m \in Nat, NEW c, AreDigits(c, m), m < POWERS[Len(c)], Len(c) >= 1, NEW p \in 0..PowLimit
    PROVE  /\ Spells(b \o <<Nth(c, 1)>>, neg, TRUE, FALSE, Leading(m, Len(c), 1), 0)
           /\ Spells(b \o Pointed(c, p), neg, TRUE, TRUE, Leading(m, Len(c), 1 + p), p)
           /\ Nth(c, 1) \in Digits
           /\ Pointed(c, p) \in Seq(0..Letter) /\ Len(Pointed(c, p)) = p + 2
<1> DEFINE n == Len(c)
           L(j) == Leading(m, n, j)
           Said(j) == Spells(b \o Pointed(c, j), neg, TRUE, TRUE, L(1 + j), j)
           T == {j \in 0..p : Said(j)}
<1>1. /\ n \in Nat /\ n >= 1 /\ PowLimit \in Nat /\ p \in Nat /\ p <= PowLimit
      /\ Digits \subseteq 0..Letter /\ Point \in 0..Letter /\ Ten \in Nat /\ 0 \in Nat
  BY ScaleAssumption, BytesDiffer DEF AreDigits, Letter, Point
<1>2. /\ L(0) = 0
      /\ \A j \in 0..p : Nth(c, j + 1) \in Digits /\ L(j) \in Nat /\ L(j + 1) = L(j) * Ten + Nth(c, j + 1)
  <2>1. L(0) = 0
    BY DigitsOf
  <2>2. \A j \in 0..p : j \in Nat /\ (j + 1) - n <= PowLimit
    BY <1>1
  <2>3. QED
    BY <2>1, <2>2, DigitsOf, ZenonT(60)
<1>3. b \in Seq(0..Letter)
  BY DEF Spells
<1>4. Nth(c, 1) \in Digits /\ L(1) = Nth(c, 1) /\ L(1) \in Nat
  <2>1. 0 \in 0..p /\ 0 + 1 = 1
    BY <1>1
  <2>2. Nth(c, 1) \in Digits /\ L(1) = L(0) * Ten + Nth(c, 1)
    BY <1>2, <2>1
  <2> DEFINE x == Nth(c, 1)
  <2> HIDE DEF x, L
  <2>3. x \in Nat /\ L(1) = 0 * Ten + x /\ 0 * Ten = 0
    BY <1>1, <1>2, <2>2, BytesDiffer DEF x
  <2>4. L(1) = x
    BY <2>3
  <2>5. QED
    BY <2>2, <2>3, <2>4 DEF x
<1> DEFINE one == b \o <<Nth(c, 1)>>
<1>5. Spells(one, neg, TRUE, FALSE, L(1), 0) /\ one \in Seq(0..Letter)
  <2> DEFINE x == Nth(c, 1)
  <2> HIDE DEF L
  <2>1. x \in Digits /\ x \in 0..Letter /\ L(1) = x /\ x \in Nat
    BY <1>1, <1>4
  <2> HIDE DEF x
  <2>2. Spells(Append(b, x), neg, TRUE, FALSE, 0 * Ten + x, IF FALSE THEN 0 + 1 ELSE 0)
    BY <1>1, <2>1, SpellsDigit, FALSE \in BOOLEAN
  <2>3. 0 * Ten + x = L(1) /\ b \o <<x>> = Append(b, x)
    BY <1>1, <1>3, <2>1
  <2>4. Spells(b \o <<x>>, neg, TRUE, FALSE, L(1), 0)
    BY <2>2, <2>3
  <2>5. b \o <<x>> \in Seq(0..Letter)
    BY <1>3, <2>1
  <2>6. QED
    BY <2>4, <2>5 DEF x
<1>6. \A k \in 0..p : \A j \in 1..(k + 1) : Nth(c, j) \in Digits
  <2>1. \A k \in 0..p : \A j \in 1..(k + 1) : j - 1 \in 0..p /\ (j - 1) + 1 = j
    BY <1>1
  <2>2. QED
    BY <1>2, <2>1
<1>7. 0 \in T
  <2>1. Pointed(c, 0) = Append(<<Nth(c, 1)>>, Point)
    <3>1. \A j \in 1..(0 + 1) : Nth(c, j) \in Digits
      BY <1>1, <1>6
    <3>2. QED
      BY <1>1, <3>1, PointedFacts
  <2>2. b \o Pointed(c, 0) = Append(one, Point)
    <3> DEFINE x == Nth(c, 1)
    <3>1. x \in 0..Letter
      BY <1>1, <1>4
    <3> HIDE DEF x
    <3>2. <<x>> \in Seq(0..Letter)
      BY <3>1
    <3>3. b \o Append(<<x>>, Point) = Append(b \o <<x>>, Point)
      BY <1>1, <1>3, <3>2, PutBehind
    <3>4. QED
      BY <2>1, <3>3 DEF x
  <2> HIDE DEF one, L
  <2>3. Spells(Append(one, Point), neg, TRUE, TRUE, L(1), 0)
    BY <1>4, <1>5, SpellsPoint, TRUE \in BOOLEAN
  <2>4. 1 + 0 = 1 /\ 0 \in 0..p
    BY <1>1
  <2>5. Said(0)
    BY <2>2, <2>3, <2>4
  <2>6. QED
    BY <2>4, <2>5
<1>8. \A j \in 1..p : j - 1 \in T => j \in T
  <2>1. SUFFICES ASSUME NEW j \in 1..p, Said(j - 1) PROVE Said(j)
    <3> HIDE DEF Said
    <3>1. \A j \in 1..p : j \in 0..p
      OBVIOUS
    <3>2. QED
      BY <3>1
  <2>2. j \in 0..p /\ j \in Nat /\ j > 0 /\ 1 + (j - 1) = j /\ 1 + j = j + 1 /\ (j - 1) + 1 = j /\ j - 1 \in Nat
        /\ j - 1 \in 0..p
    BY <1>1, <2>1
  <2> DEFINE x == Nth(c, j + 1)
             a == Pointed(c, j - 1)
  <2>3. x \in Digits /\ L(j) \in Nat /\ L(1 + j) = L(j) * Ten + x
    BY <1>2, <2>2
  <2>4. Pointed(c, j) = Append(a, x) /\ a \in Seq(0..Letter)
    BY <1>6, <2>2, PointedFacts
  <2>5. Spells(b \o a, neg, TRUE, TRUE, L(j), j - 1)
    BY <2>1, <2>2
  <2> HIDE DEF x, a, L
  <2>6. Spells(Append(b \o a, x), neg, TRUE, TRUE, L(j) * Ten + x, IF TRUE THEN (j - 1) + 1 ELSE 0)
    BY <2>3, <2>5, SpellsDigit, TRUE \in BOOLEAN
  <2>7. b \o Append(a, x) = Append(b \o a, x)
    BY <1>1, <1>3, <2>3, <2>4, PutBehind, SMTT(30)
  <2>8. QED
    BY <2>2, <2>3, <2>4, <2>6, <2>7
<1>9. \A j \in 0..p : j \in T
  <2> HIDE DEF T
  <2>1. QED
    BY <1>1, <1>7, <1>8, RangeInduction
<1>10. Said(p)
  <2>1. p \in T
    <3> HIDE DEF T
    <3>1. p \in 0..p
      BY <1>1
    <3>2. QED
      BY <1>9, <3>1
  <2>2. QED
    BY <2>1
<1>11. Pointed(c, p) \in Seq(0..Letter) /\ Len(Pointed(c, p)) = p + 2
  <2>1. p \in 0..p
    BY <1>1
  <2>2. QED
    BY <1>1, <1>6, <2>1, PointedFacts
<1>12. QED
  BY <1>4, <1>5, <1>10, <1>11

\* The three shapes of the digits.
LEMMA SciDigitsAre ==
    ASSUME chars \in Seq(Digits), style.prec \in Default..PowLimit
    PROVE  LET n == Len(chars)
               p == style.prec
           IN  /\ n = 0 /\ p = Default => SciDigits = <<>>
               /\ n >= 1 /\ p = 0 => SciDigits = <<Nth(chars, 1)>>
               /\ n >= 1 /\ p >= 1 => SciDigits = Pointed(chars, p)
               /\ n >= 1 /\ p = Default /\ (\A j \in 2..n : Nth(chars, j) = 0) => SciDigits = <<Nth(chars, 1)>>
               /\ n >= 1 /\ p = Default /\ ~(\A j \in 2..n : Nth(chars, j) = 0) =>
                    n - 1 \in Nat /\ SciDigits = Pointed(chars, n - 1)
<1> DEFINE S == 0..Letter
           n == Len(chars)
           p == style.prec
           ds == Backwards(chars)
           bare == \A i \in 2..n : ds[i] = 0
           rest == SubSeq(ds, 2, n)
           first == SubSeq(ds, 1, SmallerOf(1, n))
           pointed == (first \o <<Point>>) \o rest
           zeros == Repeat(0, p + 1)
           cut == SubSeq(pointed \o zeros, 1, p + 2)
<1>1. /\ n \in Nat /\ Point \in S /\ Digits \subseteq S /\ 0 \in Digits /\ 0 \in S /\ Default = 0 - 1 /\ p \in Int
      /\ \A i \in 1..n : chars[i] \in Digits
  BY ScaleAssumption, BytesDiffer, ElementsOf DEF Letter, Point, Default
<1>2. /\ ds \in Seq(S) /\ Len(ds) = n /\ \A i \in 1..n : ds[i] = Nth(chars, i)
      /\ \A i \in Nat : i >= 1 => Nth(chars, i) \in Digits
  <2>1. \A i \in 1..n : n + 1 - i \in 1..n /\ i <= n
    BY <1>1
  <2>2. \A i \in 1..n : chars[n + 1 - i] \in S /\ chars[n + 1 - i] = Nth(chars, i)
    BY <1>1, <2>1 DEF Nth
  <2>3. ds \in [1..n -> S] /\ \A i \in 1..n : ds[i] = chars[n + 1 - i]
    BY <2>2 DEF Backwards
  <2>4. \A i \in Nat : i >= 1 => Nth(chars, i) \in Digits
    BY <1>1, <2>1 DEF Nth
  <2>5. QED
    BY <1>1, <2>2, <2>3, <2>4, MakesSequence
<1> HIDE DEF ds, n, p
<1>3. bare <=> \A j \in 2..n : Nth(chars, j) = 0
  BY <1>1, <1>2
<1> DEFINE x == Nth(chars, 1)
<1>4. ASSUME n >= 1 PROVE SubSeq(ds, 1, 1) = <<x>> /\ first = <<x>> /\ x \in S
  <2>1. x \in S /\ ds[1] = x /\ 1 \in 0..Len(ds) /\ 1 \in 1..1
    <3>1. 1 \in Nat /\ 1 \in 1..n /\ 1 \in 0..n /\ 1 \in 1..1
      BY <1>1, <1>4
    <3>2. x \in Digits
      BY <1>2, <3>1
    <3>3. ds[1] = x
      BY <1>2, <3>1
    <3>4. QED
      BY <1>1, <1>2, <3>1, <3>2, <3>3
  <2> DEFINE a == SubSeq(ds, 1, 1)
             b == <<x>>
  <2>2. a \in Seq(S) /\ Len(a) = 1 /\ a[1] = x
    BY <1>2, <2>1, PrefixIn
  <2> HIDE DEF a, x
  <2>3. b \in Seq(S) /\ Len(b) = 1 /\ b[1] = x
    BY <2>1
  <2> HIDE DEF b
  <2>4. a = b
    BY <2>2, <2>3, SeqEqual
  <2>5. SmallerOf(1, n) = 1
    BY <1>1, <1>4 DEF SmallerOf
  <2>6. QED
    BY <2>1, <2>4, <2>5 DEF a, b
<1>5. ASSUME n >= 1
      PROVE  /\ pointed \in Seq(S) /\ Len(pointed) = n + 1
             /\ \A i \in 1..(n + 1) : pointed[i] = IF i = 1 THEN x ELSE IF i = 2 THEN Point ELSE Nth(chars, i - 1)
  <2>1. first = <<x>> /\ x \in S
    BY <1>4, <1>5
  <2> DEFINE head == first \o <<Point>>
  <2>2. head \in Seq(S) /\ Len(head) = 2 /\ head[1] = x /\ head[2] = Point
    <3> HIDE DEF first, x
    <3>1. QED
      BY <1>1, <2>1
  <2>3. /\ rest \in Seq(S) /\ Len(rest) = IF 2 <= n THEN n - 2 + 1 ELSE 0
        /\ \A i \in 1..(n - 2 + 1) : rest[i] = ds[2 + i - 1]
    <3>1. \A i \in 2..n : ds[i] \in S
      <4>1. \A i \in 1..n : ds[i] \in S
        BY <1>2, ElementsOf
      <4>2. QED
        BY <1>1, <4>1
    <3>2. n \in Int /\ 2 \in Int
      BY <1>1
    <3>3. QED
      BY <3>1, <3>2, SubSeqProperties
  <2> HIDE DEF rest, first, head
  <2>4. Len(rest) = n - 1 /\ \A i \in 1..(n - 1) : rest[i] = Nth(chars, i + 1)
    <3>1. Len(rest) = n - 1 /\ n - 2 + 1 = n - 1
      BY <1>1, <1>5, <2>3
    <3>2. \A i \in 1..(n - 1) : 2 + i - 1 = i + 1 /\ i + 1 \in 1..n
      BY <1>1
    <3>3. QED
      BY <1>2, <2>3, <3>1, <3>2
  <2>5. /\ pointed \in Seq(S) /\ Len(pointed) = 2 + (n - 1)
        /\ \A i \in 1..(2 + (n - 1)) : pointed[i] = IF i <= 2 THEN head[i] ELSE rest[i - 2]
    <3>1. /\ head \o rest \in Seq(S) /\ Len(head \o rest) = Len(head) + Len(rest)
          /\ \A i \in 1..(Len(head) + Len(rest)) : (head \o rest)[i] = IF i <= Len(head) THEN head[i] ELSE rest[i - Len(head)]
      BY <2>2, <2>3, ConcatProperties
    <3>2. pointed = head \o rest
      BY DEF head
    <3> HIDE DEF pointed
    <3>3. QED
      BY <2>2, <2>4, <3>1, <3>2
  <2> HIDE DEF pointed
  <2>6. 2 + (n - 1) = n + 1
    BY <1>1
  <2>7. \A i \in 1..(n + 1) : i = 1 \/ i = 2 \/ (i > 2 /\ ~(i <= 2) /\ i - 2 \in 1..(n - 1) /\ (i - 2) + 1 = i - 1)
    BY <1>1
  <2>8. ASSUME NEW i \in 1..(n + 1) PROVE pointed[i] = IF i = 1 THEN x ELSE IF i = 2 THEN Point ELSE Nth(chars, i - 1)
    <3>1. i \in 1..(2 + (n - 1))
      BY <2>6
    <3>2. CASE i = 1
      BY <2>2, <2>5, <3>1, <3>2
    <3>3. CASE i = 2
      BY <2>2, <2>5, <3>1, <3>3
    <3>4. CASE i > 2
      <4>1. i # 1 /\ i # 2 /\ ~(i <= 2) /\ i - 2 \in 1..(n - 1) /\ (i - 2) + 1 = i - 1
        BY <2>7, <3>4
      <4>2. QED
        BY <2>4, <2>5, <3>1, <4>1
    <3>5. QED
      BY <2>7, <3>2, <3>3, <3>4
  <2>9. QED
    BY <2>5, <2>6, <2>8
<1>6. ASSUME NEW k \in Nat, n >= 1
      PROVE  /\ Pointed(chars, k) \in Seq(S) /\ Len(Pointed(chars, k)) = k + 2
             /\ \A i \in 1..(k + 2) : Pointed(chars, k)[i] = IF i = 1 THEN x ELSE IF i = 2 THEN Point ELSE Nth(chars, i - 1)
  <2>1. \A j \in 1..(k + 1) : Nth(chars, j) \in Digits
    BY <1>2
  <2>2. Pointed(chars, k) \in Seq(S) /\ Len(Pointed(chars, k)) = k + 2
    BY <2>1, PointedFacts
  <2>3. QED
    BY <2>2 DEF Pointed
<1>7. ASSUME n >= 1 PROVE n - 1 \in Nat /\ pointed = Pointed(chars, n - 1)
  <2>1. n - 1 \in Nat /\ (n - 1) + 2 = n + 1
    BY <1>1, <1>7
  <2> DEFINE q == Pointed(chars, n - 1)
  <2>2. /\ q \in Seq(S) /\ Len(q) = n + 1
        /\ \A i \in 1..(n + 1) : q[i] = IF i = 1 THEN x ELSE IF i = 2 THEN Point ELSE Nth(chars, i - 1)
    <3>1. /\ q \in Seq(S) /\ Len(q) = (n - 1) + 2
          /\ \A i \in 1..((n - 1) + 2) : q[i] = IF i = 1 THEN x ELSE IF i = 2 THEN Point ELSE Nth(chars, i - 1)
      BY <1>6, <1>7, <2>1
    <3> HIDE DEF q, x
    <3>2. QED
      BY <2>1, <3>1
  <2>3. /\ pointed \in Seq(S) /\ Len(pointed) = n + 1
        /\ \A i \in 1..(n + 1) : pointed[i] = IF i = 1 THEN x ELSE IF i = 2 THEN Point ELSE Nth(chars, i - 1)
    BY <1>5, <1>7
  <2> HIDE DEF pointed, q, x
  <2>4. \A i \in 1..(n + 1) : pointed[i] = q[i]
    BY <2>2, <2>3
  <2>5. pointed = q
    BY <2>2, <2>3, <2>4, SeqEqual
  <2>6. QED
    BY <2>1, <2>5 DEF q
<1>8. ASSUME n >= 1, p >= 1 PROVE cut = Pointed(chars, p)
  <2> DEFINE q == Pointed(chars, p)
             long == pointed \o zeros
  <2>1. p \in Nat /\ p + 1 \in Nat /\ p + 2 \in Nat
    BY <1>1, <1>8
  <2>2. /\ q \in Seq(S) /\ Len(q) = p + 2
        /\ \A i \in 1..(p + 2) : q[i] = IF i = 1 THEN x ELSE IF i = 2 THEN Point ELSE Nth(chars, i - 1)
    BY <1>6, <1>8, <2>1
  <2>3. /\ pointed \in Seq(S) /\ Len(pointed) = n + 1
        /\ \A i \in 1..(n + 1) : pointed[i] = IF i = 1 THEN x ELSE IF i = 2 THEN Point ELSE Nth(chars, i - 1)
    BY <1>5, <1>8
  <2>4. zeros \in Seq(S) /\ Len(zeros) = p + 1 /\ \A i \in 1..(p + 1) : zeros[i] = 0
    BY <1>1, <2>1, Repeated
  <2> HIDE DEF pointed, q, x, zeros
  <2>5. /\ long \in Seq(S) /\ Len(long) = (n + 1) + (p + 1)
        /\ \A i \in 1..((n + 1) + (p + 1)) : long[i] = IF i <= n + 1 THEN pointed[i] ELSE zeros[i - (n + 1)]
    <3>1. /\ pointed \o zeros \in Seq(S) /\ Len(pointed \o zeros) = Len(pointed) + Len(zeros)
          /\ \A i \in 1..(Len(pointed) + Len(zeros)) :
                (pointed \o zeros)[i] = IF i <= Len(pointed) THEN pointed[i] ELSE zeros[i - Len(pointed)]
      BY <2>3, <2>4, ConcatProperties
    <3>2. long = pointed \o zeros
      OBVIOUS
    <3> HIDE DEF long
    <3>3. QED
      BY <2>3, <2>4, <3>1, <3>2
  <2>6. cut = SubSeq(long, 1, p + 2)
    BY DEF cut
  <2> HIDE DEF long, cut
  <2>7. p + 2 \in 0..Len(long)
    BY <1>1, <1>8, <2>1, <2>5
  <2>8. cut \in Seq(S) /\ Len(cut) = p + 2 /\ \A i \in 1..(p + 2) : cut[i] = long[i]
    BY <2>5, <2>6, <2>7, PrefixIn
  <2>9. ASSUME NEW i \in 1..(p + 2) PROVE long[i] = q[i]
    <3>1. i \in 1..((n + 1) + (p + 1))
      BY <1>1, <1>8, <2>1
    <3>2. CASE i <= n + 1
      <4>1. i \in 1..(n + 1)
        BY <1>1, <3>2
      <4>2. QED
        BY <2>2, <2>3, <2>5, <3>1, <3>2, <4>1
    <3>3. CASE ~(i <= n + 1)
      <4>1. i - (n + 1) \in 1..(p + 1) /\ i # 1 /\ i # 2 /\ ~(i - 1 <= n)
        BY <1>1, <1>8, <2>1, <3>3
      <4>2. long[i] = 0
        BY <2>4, <2>5, <3>1, <3>3, <4>1
      <4>3. Nth(chars, i - 1) = 0
        BY <4>1 DEF Nth, n
      <4>4. QED
        BY <2>2, <4>1, <4>2, <4>3
    <3>4. QED
      BY <3>2, <3>3
  <2>10. \A i \in 1..(p + 2) : cut[i] = q[i]
    BY <2>8, <2>9
  <2>11. cut = q
    BY <2>2, <2>8, <2>10, SeqEqual
  <2>12. QED
    BY <2>11 DEF q
<1>9. SciDigits = CASE n > 1 /\ p \in {Default, 0} /\ bare -> SubSeq(ds, 1, 1)
                    [] n > 1 /\ p = Default /\ ~bare -> pointed
                    [] n > 1 /\ p = 0 /\ ~bare -> SubSeq(ds, 1, 1)
                    [] n <= 1 /\ p \in {Default, 0} -> ds
                    [] OTHER -> cut
  <2> DEFINE k == Len(ds)
             front == SubSeq(ds, 1, SmallerOf(1, k)) \o <<Point>> \o SubSeq(ds, 2, k)
             all == \A i \in 2..k : ds[i] = 0
  <2>1. SciDigits = CASE k > 1 /\ p \in {Default, 0} /\ all -> SubSeq(ds, 1, 1)
                      [] k > 1 /\ p = Default /\ ~all -> front
                      [] k > 1 /\ p = 0 /\ ~all -> SubSeq(ds, 1, 1)
                      [] k <= 1 /\ p \in {Default, 0} -> ds
                      [] OTHER -> SubSeq(front \o zeros, 1, p + 2)
    BY DEF SciDigits, ds, p
  <2>2. k = n
    BY <1>2
  <2>3. front = pointed /\ (all <=> bare)
    BY <2>2
  <2> HIDE DEF front, all, k, pointed, bare, zeros
  <2>4. QED
    BY <2>1, <2>2, <2>3 DEF cut
<1>10. n = 1 => ds = SubSeq(ds, 1, 1) /\ bare
  <2>1. SUFFICES ASSUME n = 1 PROVE ds = SubSeq(ds, 1, 1) /\ bare
    OBVIOUS
  <2>2. SubSeq(ds, 1, Len(ds)) = ds
    BY <1>2, SubSeqFull
  <2>3. \A i \in 2..n : FALSE
    BY <2>1
  <2>4. QED
    BY <1>2, <2>1, <2>2, <2>3
<1>11. n = 0 => ds = <<>>
  BY <1>2
<1>12. n = 0 \/ n = 1 \/ n > 1
  BY <1>1
<1>13. p = 0 => p # Default
  BY <1>1
<1>14. p >= 1 => p \notin {Default, 0}
  BY <1>1
<1>15. n > 1 => n >= 1 /\ ~(n <= 1)
  BY <1>1
<1>16. n = 1 => n >= 1 /\ n <= 1 /\ ~(n > 1)
  BY <1>1
<1>17. n = 0 => n <= 1 /\ ~(n > 1)
  BY <1>1
<1>18. n >= 1 => n # 0
  BY <1>1
<1> DEFINE one == SubSeq(ds, 1, 1)
           dg == SciDigits
           lone == <<x>>
           pp == Pointed(chars, p)
           pn == Pointed(chars, n - 1)
           plain == \A j \in 2..n : Nth(chars, j) = 0
<1>19. /\ n >= 1 => one = lone /\ n - 1 \in Nat /\ pointed = pn
       /\ n >= 1 /\ p >= 1 => cut = pp
       /\ n = 1 => ds = one
       /\ bare <=> plain
       /\ dg = CASE n > 1 /\ p \in {Default, 0} /\ bare -> one
                    [] n > 1 /\ p = Default /\ ~bare -> pointed
                    [] n > 1 /\ p = 0 /\ ~bare -> one
                    [] n <= 1 /\ p \in {Default, 0} -> ds
                    [] OTHER -> cut
  BY <1>3, <1>4, <1>7, <1>8, <1>9, <1>10
<1> HIDE DEF one, dg, lone, pp, pn, bare, pointed, cut, p, n, plain, ds
<1>20. /\ n = 0 /\ p = Default => dg = <<>>
       /\ n >= 1 /\ p = 0 => dg = lone
       /\ n >= 1 /\ p >= 1 => dg = pp
       /\ n >= 1 /\ p = Default /\ plain => dg = lone
       /\ n >= 1 /\ p = Default /\ ~plain => n - 1 \in Nat /\ dg = pn
  BY <1>10, <1>11, <1>12, <1>13, <1>14, <1>15, <1>16, <1>17, <1>18, <1>19
<1>21. QED
  BY <1>1, <1>20 DEF n, p, dg, lone, pp, pn, plain, x

-----------------------------------------------------------------------------
(* The invariant of the formatter *)

FormatterTypeOK ==
    /\ shown \in Decimal /\ style \in Styles /\ working \in Nat
    /\ chars \in Seq(Digits) /\ at \in Nat
    /\ fpc \in {"digits", "plain", "scientific", "written", "reading", "panicked"}

\* The digits taken are the last ones of the mantissa; nothing is taken of a zero.
DigitsPart ==
    /\ AreDigits(chars, shown.m) /\ Len(chars) <= MAX_SCALE + 1
    /\ working = shown.m \div POWERS[Len(chars)]
    /\ fpc = "digits" => at = 0
    /\ fpc # "digits" => shown.m < POWERS[Len(chars)]
    /\ (fpc = "digits" \/ style.sci) /\ Len(chars) > 0 => POWERS[Len(chars) - 1] <= shown.m
    /\ fpc = "scientific" => style.sci

\* The plain form so far says the first digits of the number, as many of them behind
\* the point as positions behind it are written, and the buffer has room for the rest.
InFront == IF style.sign THEN <<>> ELSE SignText
PointWritten == at > 0 /\ at > WholeLen
PlainPart ==
    fpc = "plain" =>
        /\ ~style.sci /\ rep \in Seq(0..Letter)
        /\ Spells(InFront \o rep, shown.neg, at > 0, PointWritten, Leading(shown.m, Len(chars), at),
                  IF PointWritten THEN at - WholeLen ELSE 0)
        /\ at = 0 => rep = IF style.sign THEN SignText ELSE <<>>
        /\ at > 0 => rep # <<>> /\ rep[Len(rep)] \in Digits
        /\ IF shown.s > Len(chars) THEN at = 0 ELSE at <= Positions
        /\ Len(rep) <= 1 + at + (IF ~PointWritten THEN 0 ELSE IF WholeLen = 0 THEN 2 ELSE 1)

\* The text: the number cut at its last place; in scientific notation one digit in front of
\* the point, and the exponent that makes up for it.
PlainText ==
    \E point \in BOOLEAN :
        /\ Spells(rep, shown.neg, TRUE, point, CutAt(shown, Places) * POWERS[Additional], Places + Additional)
        /\ style.prec = Default => Len(rep) <= PowLimit

Magnitude == IF SciExponent < 0 THEN -SciExponent ELSE SciExponent
SciText ==
    \E t \in Seq(0..Letter), point \in BOOLEAN, v \in Nat, f \in Nat :
        /\ rep = (t \o <<Exponent>>) \o ExponentText(SciExponent < 0, Magnitude)
        /\ Spells(t, shown.neg, shown.m # 0, point, v, f)
        /\ style.prec # Default =>
            v = CutAt([m |-> shown.m, s |-> Len(chars) - 1], style.prec) /\ f = style.prec
        /\ style.prec = Default =>
            /\ Len(t) <= MAX_SCALE + 3 /\ v <= shown.m /\ f <= MAX_SCALE
            /\ IF shown.m = 0 THEN Len(t) <= 1
               ELSE f <= Len(chars) - 1 /\ v * POWERS[(Len(chars) - 1) - f] = shown.m

WrittenPart ==
    fpc \in {"written", "reading"} =>
        /\ ~style.sci => PlainText
        /\ style.sci /\ (shown.m # 0 \/ style.prec = Default) => SciText

BackPart ==
    /\ fpc # "reading" => ppc = "idle"
    /\ fpc = "panicked" => style.prec # Default
    /\ fpc = "reading" =>
        /\ style.prec = Default /\ whole = rep /\ ~lossy
        /\ ScientificInv /\ OriginPart

FormatterInv == FormatterTypeOK /\ DigitsPart /\ PlainPart /\ WrittenPart /\ BackPart

\* What the types of the decimal and of the style say.
LEMMA FormatterFacts ==
    ASSUME FormatterTypeOK
    PROVE  /\ shown.m \in Nat /\ shown.m <= Max96 /\ shown.m < POWERS[MAX_SCALE + 1] /\ shown.neg \in BOOLEAN
           /\ shown.s \in 0..MAX_SCALE /\ shown.s \in Nat
           /\ style.prec \in Default..PowLimit /\ style.sci \in BOOLEAN /\ style.sign \in BOOLEAN
           /\ style.sign => ~style.sci /\ style.prec = Default
           /\ Places \in 0..MAX_SCALE /\ Additional \in 0..PowLimit
           /\ style.prec = Default => Places = shown.s /\ Additional = 0
           /\ style.prec # Default => Places + Additional = style.prec /\ (Additional > 0 => Places = MAX_SCALE)
           /\ MAX_SCALE \in Nat /\ PowLimit \in Nat /\ MAX_SCALE + 7 <= PowLimit /\ MAX_SCALE >= 1
           /\ Default = 0 - 1 /\ Len(chars) \in Nat
           /\ SignText \in Seq(0..Letter) /\ Len(SignText) <= 1
           /\ Spells(SignText, shown.neg, FALSE, FALSE, 0, 0)
<1>1. /\ MAX_SCALE \in Nat /\ PowLimit \in Nat /\ MAX_SCALE + 7 <= PowLimit /\ MAX_SCALE >= 1 /\ Default = 0 - 1
      /\ Max96 \in Nat /\ B3 = Max96 + 1
  BY ScaleAssumption, FormatterAssumption, BaseType DEF Default
<1>2. shown.m \in 0..Max96 /\ shown.s \in 0..MAX_SCALE /\ shown.neg \in BOOLEAN
  BY DEF FormatterTypeOK, Decimal, Mantissa
<1>3. MAX_SCALE + 1 \in 0..PowLimit
  BY <1>1
<1>4. POWERS[MAX_SCALE + 1] \in Nat /\ B3 <= POWERS[MAX_SCALE + 1]
  BY <1>3, PowersType, FormatterAssumption
<1>5. /\ style.prec \in Default..PowLimit /\ style.sci \in BOOLEAN /\ style.sign \in BOOLEAN
      /\ style.sign => ~style.sci /\ style.prec = Default
  <2>1. CASE style \in [sci : BOOLEAN, prec : Default..PowLimit, sign : {FALSE}]
    BY <2>1
  <2>2. CASE style \in [sci : {FALSE}, prec : {Default}, sign : {TRUE}]
    <3>1. style.prec = Default /\ style.sci = FALSE /\ style.sign = TRUE
      BY <2>2
    <3>2. Default \in Default..PowLimit
      BY <1>1
    <3>3. QED
      BY <3>1, <3>2
  <2>3. QED
    BY <2>1, <2>2 DEF FormatterTypeOK, Styles
<1>6. /\ Places \in 0..MAX_SCALE /\ Additional \in 0..PowLimit
      /\ style.prec = Default => Places = shown.s /\ Additional = 0
      /\ style.prec # Default => Places + Additional = style.prec /\ (Additional > 0 => Places = MAX_SCALE)
  BY <1>1, <1>2, <1>5 DEF Places, Additional, SmallerOf
<1>7. SignText \in Seq(0..Letter) /\ Len(SignText) <= 1 /\ Spells(SignText, shown.neg, FALSE, FALSE, 0, 0)
  <2>1. Minus \in 0..Letter
    BY BytesDiffer DEF Minus, Letter
  <2>2. CASE shown.neg
    <3>1. shown.neg = TRUE /\ SignText = <<Minus>>
      BY <1>2, <2>2 DEF SignText
    <3>2. Spells(SignText, shown.neg, FALSE, FALSE, 0, 0)
      BY <3>1, SpellsNothing
    <3>3. SignText \in Seq(0..Letter) /\ Len(SignText) <= 1
      BY <2>1, <3>1
    <3>4. QED
      BY <3>2, <3>3, Zenon
  <2>3. CASE ~shown.neg
    <3>1. shown.neg = FALSE /\ SignText = <<>>
      BY <1>2, <2>3 DEF SignText
    <3>2. Spells(SignText, shown.neg, FALSE, FALSE, 0, 0)
      BY <3>1, SpellsNothing
    <3>3. SignText \in Seq(0..Letter) /\ Len(SignText) <= 1
      BY <3>1
    <3>4. QED
      BY <3>2, <3>3, Zenon
  <2>4. QED
    BY <2>2, <2>3
<1>8. Len(chars) \in Nat
  BY DEF FormatterTypeOK
<1>9. shown.m \in Nat /\ shown.m <= Max96 /\ shown.m < POWERS[MAX_SCALE + 1] /\ shown.s \in Nat
  BY <1>1, <1>2, <1>4
<1>10. QED
  BY <1>1, <1>2, <1>5, <1>6, <1>7, <1>8, <1>9, Zenon

\* Nothing is taken or written at first.
LEMMA FormatterStarts == FormatterInit => FormatterInv
<1> SUFFICES ASSUME FormatterInit PROVE FormatterInv
  OBVIOUS
<1>1. /\ shown \in Decimal /\ style \in Styles /\ working = shown.m /\ chars = <<>> /\ rep = <<>> /\ at = 0
      /\ fpc = "digits" /\ ppc = "idle"
  BY DEF FormatterInit, FormatStart, ParserIdle
<1>2. shown.m \in Nat
  BY <1>1, BaseType DEF Decimal, Mantissa
<1>3. FormatterTypeOK
  BY <1>1, <1>2 DEF FormatterTypeOK
<1>4. DigitsPart
  <2>1. Len(chars) = 0 /\ chars \in Seq(Nat) /\ POWERS[0] = 1 /\ shown.m \div 1 = shown.m
    BY <1>1, <1>2, PowersAssumption
  <2>2. 0 \in 0..PowLimit /\ 0 <= MAX_SCALE + 1 /\ ~(0 > 0)
    BY ScaleAssumption
  <2>3. AreDigits(chars, shown.m)
    BY <2>1, <2>2 DEF AreDigits
  <2>4. QED
    BY <1>1, <2>1, <2>2, <2>3 DEF DigitsPart
<1>5. PlainPart /\ WrittenPart /\ BackPart
  BY <1>1 DEF PlainPart, WrittenPart, BackPart
<1>6. QED
  BY <1>3, <1>4, <1>5 DEF FormatterInv

\* Another digit of the mantissa.
LEMMA DigitBehind ==
    ASSUME NEW m \in Nat, NEW c \in Seq(Digits), AreDigits(c, m), Len(c) < PowLimit,
           NEW d, d = (m \div POWERS[Len(c)]) % Ten
    PROVE  /\ d \in Digits /\ Append(c, d) \in Seq(Digits) /\ Len(Append(c, d)) = Len(c) + 1
           /\ AreDigits(Append(c, d), m)
           /\ m \div POWERS[Len(c) + 1] = (m \div POWERS[Len(c)]) \div Ten
<1> DEFINE n == Len(c)
           a == Append(c, d)
<1>1. n \in Nat /\ n \in 0..PowLimit /\ 1 \in 0..PowLimit /\ n + 1 \in 0..PowLimit /\ n + 1 <= PowLimit /\ PowLimit \in Nat
  BY ScaleAssumption
<1>2. POWERS[n] \in Nat \ {0} /\ POWERS[1] = Ten /\ Ten \in Nat \ {0} /\ Digits = 0..(Ten - 1) /\ Digits \subseteq Nat
  BY <1>1, PowersType, PowersAssumption, BytesDiffer
<1>3. d \in Digits
  <2> DEFINE q == m \div POWERS[n]
  <2>1. q \in Nat
    BY <1>2, DivMod
  <2>2. d = q % Ten
    OBVIOUS
  <2> HIDE DEF q
  <2>3. QED
    <3>1. q % Ten \in Nat /\ q % Ten < Ten
      BY <1>2, <2>1, DivMod
    <3>2. QED
      BY <1>2, <2>2, <3>1
<1>4. a \in Seq(Digits) /\ Len(a) = n + 1 /\ a[n + 1] = d /\ \A i \in 1..n : a[i] = c[i]
  BY <1>3, AppendProperties
<1>5. AreDigits(a, m)
  <2>1. \A k \in 1..(n + 1) : k \in 1..n \/ k = n + 1
    BY <1>1
  <2>2. (n + 1) - 1 = n
    BY <1>1
  <2>3. \A k \in 1..(n + 1) : a[k] = (m \div POWERS[k - 1]) % Ten
    BY <1>4, <2>1, <2>2 DEF AreDigits
  <2>4. a \in Seq(Nat)
    BY <1>2, <1>4, SequenceWithin
  <2>5. QED
    BY <1>1, <1>4, <2>3, <2>4 DEF AreDigits
<1>6. (m \div POWERS[n]) \div POWERS[1] = m \div POWERS[n + 1]
  BY <1>1, QuotientTwice
<1>7. QED
  BY <1>2, <1>3, <1>4, <1>5, <1>6

\* What the later parts ask of the states they are not about.
LEMMA NotYetWritten ==
    ASSUME fpc' \in {"digits", "scientific", "panicked"}
    PROVE  PlainPart' /\ WrittenPart'
  BY DEF PlainPart, WrittenPart

\* Nothing is read before the text is complete.
LEMMA NothingRead ==
    ASSUME BackPart, fpc # "reading", fpc' \in {"digits", "plain", "scientific", "written"}, UNCHANGED tvars
    PROVE  BackPart'
  BY DEF BackPart, tvars

LEMMA TakeDigitStep == ASSUME FormatterInv, TakeDigit, UNCHANGED <<tvars, svars>> PROVE FormatterInv'
<1> DEFINE m == shown.m
           n == Len(chars)
           d == working % Ten
<1>1. /\ fpc = "digits" /\ working > 0 /\ chars' = Append(chars, d) /\ working' = working \div Ten
      /\ shown' = shown /\ style' = style /\ rep' = rep /\ at' = at /\ fpc' = fpc
  BY DEF TakeDigit
<1>2. FormatterTypeOK /\ DigitsPart /\ BackPart
  BY DEF FormatterInv
<1>3. /\ m \in Nat /\ m < POWERS[MAX_SCALE + 1] /\ n \in Nat /\ n <= MAX_SCALE + 1
      /\ MAX_SCALE \in Nat /\ PowLimit \in Nat /\ MAX_SCALE + 7 <= PowLimit /\ Ten \in Nat \ {0}
      /\ AreDigits(chars, m) /\ working = m \div POWERS[n] /\ chars \in Seq(Digits)
  <2>1. m \in Nat /\ m < POWERS[MAX_SCALE + 1] /\ n \in Nat /\ MAX_SCALE \in Nat /\ PowLimit \in Nat /\ MAX_SCALE + 7 <= PowLimit
    BY <1>2, FormatterFacts
  <2>2. n <= MAX_SCALE + 1 /\ AreDigits(chars, m) /\ working = m \div POWERS[n]
    BY <1>2 DEF DigitsPart
  <2>3. Ten \in Nat \ {0} /\ chars \in Seq(Digits)
    BY <1>2, BaseAssumption DEF FormatterTypeOK
  <2>4. QED
    BY <2>1, <2>2, <2>3
<1>4. POWERS[n] \in Nat \ {0}
  <2>1. n \in 0..PowLimit
    BY <1>3
  <2>2. QED
    BY <2>1, PowersType
<1>5. POWERS[n] <= m
  <2>1. SUFFICES ASSUME ~(POWERS[n] <= m) PROVE FALSE
    OBVIOUS
  <2>2. m = 0 * POWERS[n] + m /\ m < POWERS[n] /\ 0 \in Nat
    BY <1>3, <1>4, <2>1
  <2>3. m \div POWERS[n] = 0
    BY <1>3, <1>4, <2>2, QuotientUnique
  <2>4. QED
    BY <1>1, <1>3, <2>3
<1>6. n <= MAX_SCALE
  <2>1. SUFFICES ASSUME n = MAX_SCALE + 1 PROVE FALSE
    BY <1>3
  <2>2. QED
    BY <1>3, <1>4, <1>5, <2>1
<1> HIDE DEF n, m
<1>7. /\ d \in Digits /\ chars' \in Seq(Digits) /\ Len(chars') = n + 1 /\ AreDigits(chars', m)
      /\ working' = m \div POWERS[n + 1]
  <2>1. n < PowLimit /\ d = (m \div POWERS[n]) % Ten
    BY <1>3, <1>6
  <2> HIDE DEF d
  <2>2. QED
    BY <1>1, <1>3, <2>1, DigitBehind DEF n
<1>8. working' \in Nat
  BY <1>1, <1>2, <1>3, DivMod DEF FormatterTypeOK
<1>9. FormatterTypeOK'
  BY <1>1, <1>2, <1>7, <1>8 DEF FormatterTypeOK
<1>10. DigitsPart'
  <2>1. n + 1 <= MAX_SCALE + 1 /\ (n + 1) - 1 = n
    BY <1>3, <1>6
  <2>2. QED
    BY <1>1, <1>2, <1>5, <1>7, <2>1 DEF DigitsPart, m
<1>11. PlainPart' /\ WrittenPart' /\ BackPart'
  BY <1>1, <1>2, NotYetWritten, NothingRead
<1>12. QED
  BY <1>9, <1>10, <1>11 DEF FormatterInv

\* The plain form starts with no digit.
LEMMA PlainStarts ==
    FormatterTypeOK /\ DigitsPart /\ at = 0 /\ fpc = "plain" /\ ~style.sci
        /\ rep = (IF style.sign THEN SignText ELSE <<>>) => PlainPart
<1> SUFFICES ASSUME FormatterTypeOK, DigitsPart, at = 0, fpc = "plain", ~style.sci,
                    rep = (IF style.sign THEN SignText ELSE <<>>)
             PROVE  PlainPart
  OBVIOUS
<1> DEFINE n == Len(chars)
           L == Leading(shown.m, n, at)
<1>1. /\ SignText \in Seq(0..Letter) /\ Len(SignText) <= 1 /\ Spells(SignText, shown.neg, FALSE, FALSE, 0, 0)
      /\ n \in Nat /\ shown.s \in Nat /\ Places \in Nat
  <2>1. SignText \in Seq(0..Letter) /\ Len(SignText) <= 1 /\ Spells(SignText, shown.neg, FALSE, FALSE, 0, 0)
    BY FormatterFacts, Zenon
  <2>2. n \in Nat /\ shown.s \in Nat /\ Places \in 0..MAX_SCALE /\ MAX_SCALE \in Nat
    BY FormatterFacts, Zenon
  <2>3. Places \in Nat
    BY <2>2
  <2>4. QED
    BY <2>1, <2>2, <2>3
<1>2. InFront \o rep = SignText /\ rep \in Seq(0..Letter) /\ Len(rep) <= 1
  <2>1. <<>> \o SignText = SignText /\ SignText \o <<>> = SignText
    BY <1>1, ConcatEmptySeq
  <2>2. CASE style.sign
    BY <1>1, <2>1, <2>2 DEF InFront
  <2>3. CASE ~style.sign
    <3>1. <<>> \in Seq(0..Letter) /\ Len(<<>>) <= 1
      OBVIOUS
    <3>2. QED
      BY <2>1, <2>3, <3>1 DEF InFront
  <2>4. QED
    BY <2>2, <2>3
<1>3. L = 0
  <2>1. shown.m \in Nat /\ AreDigits(chars, shown.m) /\ shown.m < POWERS[n]
    BY FormatterFacts DEF DigitsPart
  <2>2. Leading(shown.m, n, 0) = 0
    BY <2>1, DigitsOf
  <2>3. QED
    BY <2>2
<1>4. ~PointWritten /\ ~(at > 0)
  BY DEF PointWritten
<1>5. Spells(InFront \o rep, shown.neg, at > 0, PointWritten, L, IF PointWritten THEN at - WholeLen ELSE 0)
  <2>1. (at > 0) = FALSE /\ PointWritten = FALSE
    BY <1>4 DEF PointWritten
  <2>2. (IF PointWritten THEN at - WholeLen ELSE 0) = 0
    BY <1>4
  <2> HIDE DEF L
  <2>3. QED
    BY <1>1, <1>2, <1>3, <2>1, <2>2
<1>6. shown.s <= n => at <= Positions
  BY <1>1 DEF Positions, WholeLen
<1>7. ~(shown.s > n) => shown.s <= n
  BY <1>1
<1>8. Len(rep) <= 1 + at + (IF ~PointWritten THEN 0 ELSE IF WholeLen = 0 THEN 2 ELSE 1)
  BY <1>2, <1>4
<1>9. QED
  BY <1>2, <1>4, <1>5, <1>6, <1>7, <1>8 DEF PlainPart

LEMMA DigitsTakenStep == ASSUME FormatterInv, DigitsTaken, UNCHANGED <<tvars, svars>> PROVE FormatterInv'
<1> DEFINE m == shown.m
           n == Len(chars)
<1>1. /\ fpc = "digits" /\ working = 0 /\ fpc' = (IF style.sci THEN "scientific" ELSE "plain")
      /\ rep' = (IF style.sign THEN SignText ELSE <<>>)
      /\ shown' = shown /\ style' = style /\ working' = working /\ chars' = chars /\ at' = at
  BY DEF DigitsTaken
<1>2. FormatterTypeOK /\ DigitsPart /\ BackPart
  BY DEF FormatterInv
<1>3. /\ m \in Nat /\ n \in Nat /\ n <= MAX_SCALE + 1 /\ MAX_SCALE \in Nat /\ PowLimit \in Nat /\ MAX_SCALE + 7 <= PowLimit
      /\ working = m \div POWERS[n]
  <2>1. m \in Nat /\ n \in Nat /\ MAX_SCALE \in Nat /\ PowLimit \in Nat /\ MAX_SCALE + 7 <= PowLimit
    BY <1>2, FormatterFacts
  <2>2. n <= MAX_SCALE + 1 /\ working = m \div POWERS[n]
    BY <1>2 DEF DigitsPart
  <2>3. QED
    BY <2>1, <2>2
<1>4. m < POWERS[n]
  <2>1. n \in 0..PowLimit
    BY <1>3
  <2>2. POWERS[n] \in Nat \ {0}
    BY <2>1, PowersType
  <2>3. m = (m \div POWERS[n]) * POWERS[n] + (m % POWERS[n]) /\ m % POWERS[n] \in Nat /\ m % POWERS[n] < POWERS[n]
    BY <1>3, <2>2, DivMod
  <2>4. m = 0 * POWERS[n] + (m % POWERS[n])
    BY <1>1, <1>3, <2>3
  <2>5. QED
    BY <2>2, <2>3, <2>4
<1>5. FormatterTypeOK'
  BY <1>1, <1>2 DEF FormatterTypeOK
<1>6. DigitsPart'
  BY <1>1, <1>2, <1>4 DEF DigitsPart
<1>7. WrittenPart' /\ BackPart'
  <2>1. WrittenPart'
    BY <1>1 DEF WrittenPart
  <2>2. QED
    BY <1>1, <1>2, <2>1, NothingRead
<1>8. PlainPart'
  <2>1. CASE style.sci
    BY <1>1, <2>1, NotYetWritten
  <2>2. CASE ~style.sci
    <3>1. at' = 0 /\ fpc' = "plain" /\ ~style'.sci /\ rep' = (IF style'.sign THEN SignText' ELSE <<>>)
      BY <1>1, <1>2, <2>2 DEF DigitsPart, SignText
    <3>2. (FormatterTypeOK /\ DigitsPart /\ at = 0 /\ fpc = "plain" /\ ~style.sci
            /\ rep = (IF style.sign THEN SignText ELSE <<>>) => PlainPart)'
      BY PlainStarts, PTL
    <3>3. QED
      BY <1>5, <1>6, <3>1, <3>2
  <2>3. QED
    BY <2>1, <2>2
<1>9. QED
  BY <1>5, <1>6, <1>7, <1>8 DEF FormatterInv

LEMMA PadZeroStep == ASSUME FormatterInv, PadZero, UNCHANGED <<tvars, svars>> PROVE FormatterInv'
<1> DEFINE m == shown.m
           n == Len(chars)
<1>1. /\ fpc = "plain" /\ shown.s > n /\ chars' = Append(chars, 0)
      /\ shown' = shown /\ style' = style /\ working' = working /\ rep' = rep /\ at' = at /\ fpc' = fpc
  BY DEF PadZero
<1>2. FormatterTypeOK /\ DigitsPart /\ PlainPart /\ BackPart
  BY DEF FormatterInv
<1>3. /\ m \in Nat /\ n \in Nat /\ n < MAX_SCALE /\ MAX_SCALE \in Nat /\ PowLimit \in Nat /\ MAX_SCALE + 7 <= PowLimit
      /\ working = m \div POWERS[n] /\ m < POWERS[n] /\ AreDigits(chars, m) /\ chars \in Seq(Digits)
  <2>1. m \in Nat /\ n \in Nat /\ MAX_SCALE \in Nat /\ PowLimit \in Nat /\ MAX_SCALE + 7 <= PowLimit /\ shown.s \in 0..MAX_SCALE
    BY <1>2, FormatterFacts
  <2>2. working = m \div POWERS[n] /\ m < POWERS[n] /\ AreDigits(chars, m) /\ chars \in Seq(Digits)
    BY <1>1, <1>2 DEF DigitsPart, FormatterTypeOK
  <2>3. QED
    BY <1>1, <2>1, <2>2
<1>4. ~style.sci /\ at = 0 /\ rep = (IF style.sign THEN SignText ELSE <<>>)
  BY <1>1, <1>2 DEF PlainPart
<1>5. POWERS[n] \in Nat \ {0} /\ POWERS[n] <= POWERS[n + 1] /\ POWERS[n + 1] \in Nat \ {0}
  <2>1. n \in 0..PowLimit /\ n + 1 \in 0..PowLimit /\ n <= n + 1
    BY <1>3
  <2>2. QED
    BY <2>1, PowersType, PowersMono
<1>6. m \div POWERS[n] = 0 /\ m \div POWERS[n + 1] = 0 /\ m < POWERS[n + 1]
  <2>1. m < POWERS[n + 1]
    BY <1>3, <1>5
  <2>2. m = 0 * POWERS[n] + m /\ m = 0 * POWERS[n + 1] + m /\ 0 \in Nat
    BY <1>3, <1>5
  <2>3. QED
    BY <1>3, <1>5, <2>1, <2>2, QuotientUnique
<1> HIDE DEF n, m
<1>7. /\ chars' \in Seq(Digits) /\ Len(chars') = n + 1 /\ AreDigits(chars', m)
  <2>1. n < PowLimit /\ 0 = (m \div POWERS[n]) % Ten
    BY <1>3, <1>6, BaseAssumption
  <2>2. QED
    BY <1>1, <1>3, <2>1, DigitBehind DEF n
<1>8. FormatterTypeOK'
  BY <1>1, <1>2, <1>7 DEF FormatterTypeOK
<1>9. DigitsPart'
  <2>1. n + 1 <= MAX_SCALE + 1 /\ working' = m \div POWERS[n + 1]
    BY <1>1, <1>3, <1>6
  <2>2. QED
    BY <1>1, <1>4, <1>6, <1>7, <2>1 DEF DigitsPart, m
<1>10. WrittenPart' /\ BackPart'
  <2>1. WrittenPart'
    BY <1>1 DEF WrittenPart
  <2>2. QED
    BY <1>1, <1>2, <2>1, NothingRead
<1>11. PlainPart'
  <2>1. at' = 0 /\ fpc' = "plain" /\ ~style'.sci /\ rep' = (IF style'.sign THEN SignText' ELSE <<>>)
    BY <1>1, <1>4 DEF SignText
  <2>2. (FormatterTypeOK /\ DigitsPart /\ at = 0 /\ fpc = "plain" /\ ~style.sci
          /\ rep = (IF style.sign THEN SignText ELSE <<>>) => PlainPart)'
    BY PlainStarts, PTL
  <2>3. QED
    BY <1>8, <1>9, <2>1, <2>2
<1>12. QED
  BY <1>8, <1>9, <1>10, <1>11 DEF FormatterInv

-----------------------------------------------------------------------------
(* The plain form *)

\* A position of the plain form.
LEMMA CharAtIs ==
    ASSUME FormatterTypeOK, Nth(chars, at + 1) \in Digits
    PROVE  /\ at # WholeLen => CharAt(at) = <<Nth(chars, at + 1)>>
           /\ at = WholeLen /\ at # 0 => CharAt(at) = <<Point>> \o <<Nth(chars, at + 1)>>
           /\ at = WholeLen /\ at = 0 => CharAt(at) = <<0, Point>> \o <<Nth(chars, at + 1)>>
<1> DEFINE x == Nth(chars, at + 1)
           n == Len(chars)
           c == IF at >= n THEN 0 ELSE chars[n - at]
<1>1. at \in Nat /\ n \in Nat /\ (n + 1) - (at + 1) = n - at /\ (at + 1 <= n <=> ~(at >= n))
  BY DEF FormatterTypeOK
<1>2. c = x
  BY <1>1 DEF Nth
<1>3. CharAt(at) = (IF at # WholeLen THEN <<>> ELSE IF at = 0 THEN <<0, Point>> ELSE <<Point>>) \o <<c>>
  BY DEF CharAt
<1> HIDE DEF c, x
<1>4. <<x>> \in Seq(Digits) /\ <<>> \o <<x>> = <<x>>
  BY DEF x
<1>5. QED
  BY <1>2, <1>3, <1>4 DEF x

\* What is in front of the digit of a position.
PointText == IF at # WholeLen THEN <<>> ELSE IF at = 0 THEN <<0, Point>> ELSE <<Point>>

\* It adds nothing but the point, and a zero in front of it.
LEMMA PointPut ==
    ASSUME NEW t, NEW v \in Nat, WholeLen \in Nat, at \in Nat, shown.neg \in BOOLEAN, at = 0 => v = 0,
           Spells(t, shown.neg, at > 0, PointWritten, v, IF PointWritten THEN at - WholeLen ELSE 0)
    PROVE  /\ PointText \in Seq(0..Letter)
           /\ Len(PointText) = IF at # WholeLen THEN 0 ELSE IF at = 0 THEN 2 ELSE 1
           /\ \E has \in BOOLEAN :
                Spells(t \o PointText, shown.neg, has, at >= WholeLen, v, IF at >= WholeLen THEN at - WholeLen ELSE 0)
<1> DEFINE W == WholeLen
           neg == shown.neg
           pw == at >= W
           f == IF pw THEN at - W ELSE 0
<1>1. /\ W \in Nat /\ at \in Nat /\ Ten \in Nat /\ 0 \in Digits /\ Point \in 0..Letter /\ 0 \in 0..Letter /\ neg \in BOOLEAN
      /\ t \in Seq(0..Letter)
  BY BytesDiffer DEF Digits, Point, Letter, Spells
<1> HIDE DEF W
<1>2. CASE at # W
  <2>1. PointText = <<>>
    BY <1>2 DEF PointText, W
  <2>2. (PointWritten = pw) /\ pw \in BOOLEAN /\ PointWritten \in BOOLEAN
    BY <1>1, <1>2 DEF PointWritten, W
  <2>3. Spells(t, neg, at > 0, pw, v, f)
    BY <2>2 DEF W
  <2>4. t \o PointText = t
    BY <1>1, <2>1, ConcatEmptySeq
  <2>5. (at > 0) \in BOOLEAN
    OBVIOUS
  <2>6. PointText \in Seq(0..Letter) /\ Len(PointText) = 0
    BY <2>1
  <2>7. Spells(t \o PointText, neg, at > 0, pw, v, f)
    BY <2>3, <2>4
  <2>8. QED
    BY <1>2, <2>5, <2>6, <2>7 DEF W
<1>3. CASE at = W
  <2>1. (PointWritten = FALSE) /\ ~PointWritten /\ pw = TRUE /\ pw /\ f = 0
    BY <1>1, <1>3 DEF PointWritten, W
  <2>2. Spells(t, neg, at > 0, FALSE, v, 0) /\ (at > 0) \in BOOLEAN
    <3>1. (IF PointWritten THEN at - WholeLen ELSE 0) = 0
      BY <2>1
    <3> HIDE DEF pw, f
    <3>2. Spells(t, neg, at > 0, FALSE, v, 0)
      BY <2>1, <3>1
    <3>3. (at > 0) \in BOOLEAN
      OBVIOUS
    <3>4. QED
      BY <3>2, <3>3, Zenon
  <2>3. CASE at # 0
    <3>1. PointText = <<Point>> /\ <<Point>> \in Seq(0..Letter) /\ Len(<<Point>>) = 1
      BY <1>1, <1>3, <2>3 DEF PointText, W
    <3>2. Spells(Append(t, Point), neg, at > 0, TRUE, v, 0)
      BY <1>1, <2>2, SpellsPoint
    <3>3. t \o <<Point>> = Append(t, Point)
      BY <1>1
    <3>4. Spells(t \o PointText, neg, at > 0, TRUE, v, 0)
      BY <3>1, <3>2, <3>3
    <3>5. Spells(t \o PointText, neg, at > 0, pw, v, f)
      BY <2>1, <3>4
    <3>6. QED
      BY <1>3, <2>2, <2>3, <3>1, <3>5 DEF W
  <2>4. CASE at = 0
    <3>1. PointText = <<0, Point>> /\ <<0, Point>> \in Seq(0..Letter) /\ Len(<<0, Point>>) = 2
      BY <1>1, <1>3, <2>4 DEF PointText, W
    <3>2. v = 0 /\ 0 * Ten + 0 = 0 /\ 0 \in Nat
      BY <1>1, <2>4
    <3>3. Spells(t, neg, at > 0, FALSE, 0, 0)
      BY <2>2, <3>2
    <3>4. Spells(Append(t, 0), neg, TRUE, FALSE, 0 * Ten + 0, IF FALSE THEN 0 + 1 ELSE 0)
      BY <1>1, <2>2, <3>2, <3>3, SpellsDigit, FALSE \in BOOLEAN
    <3>5. Spells(Append(t, 0), neg, TRUE, FALSE, 0, 0)
      BY <3>2, <3>4
    <3>6. Spells(Append(Append(t, 0), Point), neg, TRUE, TRUE, 0, 0)
      BY <1>1, <3>2, <3>5, SpellsPoint, TRUE \in BOOLEAN
    <3>7. t \o <<0, Point>> = Append(Append(t, 0), Point)
      BY <1>1
    <3>8. Spells(t \o PointText, neg, TRUE, TRUE, v, 0)
      BY <3>1, <3>2, <3>6, <3>7
    <3>9. Spells(t \o PointText, neg, TRUE, pw, v, f) /\ TRUE \in BOOLEAN
      BY <2>1, <3>8
    <3>10. QED
      BY <1>3, <2>4, <3>1, <3>9 DEF W
  <2>5. QED
    BY <2>3, <2>4
<1>4. QED
  BY <1>2, <1>3

LEMMA EmitStep == ASSUME FormatterInv, Emit, UNCHANGED <<tvars, svars>> PROVE FormatterInv'
<1> DEFINE m == shown.m
           n == Len(chars)
           W == WholeLen
           x == Nth(chars, at + 1)
           L == Leading(m, n, at)
           more == IF ~PointWritten THEN 0 ELSE IF W = 0 THEN 2 ELSE 1
           extra == IF at # W THEN 0 ELSE IF at = 0 THEN 2 ELSE 1
           c == CharAt(at)
<1>1. /\ fpc = "plain" /\ shown.s <= n /\ at < Positions
      /\ shown' = shown /\ style' = style /\ working' = working /\ chars' = chars
  BY DEF Emit
<1>2. FormatterTypeOK /\ DigitsPart /\ PlainPart /\ BackPart
  BY DEF FormatterInv
<1>3. /\ m \in Nat /\ n \in Nat /\ n <= MAX_SCALE + 1 /\ MAX_SCALE \in Nat /\ PowLimit \in Nat /\ MAX_SCALE + 7 <= PowLimit
      /\ m < POWERS[n] /\ AreDigits(chars, m) /\ at \in Nat
      /\ shown.s \in 0..MAX_SCALE /\ shown.neg \in BOOLEAN /\ Places \in 0..MAX_SCALE
      /\ style.prec = Default => Places = shown.s
  <2>1. /\ m \in Nat /\ n \in Nat /\ MAX_SCALE \in Nat /\ PowLimit \in Nat /\ MAX_SCALE + 7 <= PowLimit
        /\ shown.s \in 0..MAX_SCALE /\ shown.neg \in BOOLEAN /\ Places \in 0..MAX_SCALE
        /\ style.prec = Default => Places = shown.s
    BY <1>2, FormatterFacts, Zenon
  <2>2. n <= MAX_SCALE + 1 /\ m < POWERS[n] /\ AreDigits(chars, m) /\ at \in Nat
    BY <1>1, <1>2 DEF DigitsPart, FormatterTypeOK
  <2>3. QED
    BY <2>1, <2>2
<1>4. W = n - shown.s /\ Positions = W + Places
  BY DEF WholeLen, Positions
<1> HIDE DEF n, m
<1>5. /\ W \in Nat /\ at + 1 <= Positions /\ Positions \in Nat /\ (at + 1) - n <= PowLimit
      /\ style.prec = Default => 1 + (at + 1) + (IF W = 0 THEN 2 ELSE 1) <= MAX_SCALE + 3
  <2>1. shown.s \in Nat /\ Places \in Nat /\ shown.s <= MAX_SCALE /\ Places <= MAX_SCALE
    BY <1>3
  <2> HIDE DEF W
  <2>2. W \in Nat /\ Positions \in Nat /\ at + 1 <= W + Places
    BY <1>1, <1>3, <1>4, <2>1
  <2>3. at + 1 - n <= Places
    BY <1>3, <1>4, <2>1, <2>2
  <2>4. style.prec = Default => at + 1 <= n /\ (W = 0 => n <= MAX_SCALE)
    BY <1>3, <1>4, <2>1, <2>2
  <2>5. QED
    BY <1>1, <1>3, <1>4, <2>1, <2>2, <2>3, <2>4
<1>6. /\ x \in Digits /\ L \in Nat /\ Leading(m, n, at + 1) = L * Ten + x /\ (at = 0 => L = 0)
      /\ Leading(m, n, at + 1) \in Nat
  <2>1. /\ Leading(m, n, 0) = 0
        /\ \A j \in Nat : (j + 1) - n <= PowLimit =>
                 /\ Nth(chars, j + 1) \in Digits /\ Leading(m, n, j) \in Nat
                 /\ Leading(m, n, j + 1) = Leading(m, n, j) * Ten + Nth(chars, j + 1)
    BY <1>3, DigitsOf DEF n
  <2>2. x \in Digits /\ L \in Nat /\ Leading(m, n, at + 1) = L * Ten + x /\ (at = 0 => L = 0)
    BY <1>3, <1>5, <2>1
  <2>3. x \in Nat /\ Ten \in Nat
    BY <2>2, BytesDiffer
  <2> HIDE DEF L, x
  <2>4. L * Ten \in Nat
    BY <2>2, <2>3, \A y, z \in Nat : y * z \in Nat
  <2>5. QED
    BY <2>2, <2>3, <2>4
<1>7. /\ ~style.sci /\ rep \in Seq(0..Letter)
      /\ Spells(InFront \o rep, shown.neg, at > 0, PointWritten, L, IF PointWritten THEN at - W ELSE 0)
      /\ Len(rep) <= 1 + at + more
  <2>1. /\ ~style.sci /\ rep \in Seq(0..Letter)
        /\ Spells(InFront \o rep, shown.neg, at > 0, PointWritten, Leading(shown.m, Len(chars), at),
                  IF PointWritten THEN at - WholeLen ELSE 0)
        /\ Len(rep) <= 1 + at + (IF ~PointWritten THEN 0 ELSE IF WholeLen = 0 THEN 2 ELSE 1)
    BY <1>1, <1>2 DEF PlainPart
  <2>2. QED
    BY <2>1 DEF n, m
<1> HIDE DEF W, x, L
<1> DEFINE y == PointText
           mid == (InFront \o rep) \o y
           pw == at >= W
           f == IF pw THEN at - W ELSE 0
<1>8. /\ y \in Seq(0..Letter) /\ Len(y) = extra
      /\ \E has \in BOOLEAN : Spells(mid, shown.neg, has, pw, L, f)
  BY <1>3, <1>5, <1>6, <1>7, PointPut DEF W
<1>9. PICK has \in BOOLEAN : Spells(mid, shown.neg, has, pw, L, f)
  BY <1>8
<1>10. /\ c = y \o <<x>> /\ x \in 0..Letter /\ c \in Seq(0..Letter) /\ Len(c) = extra + 1 /\ c[Len(c)] = x
  <2>1. c = y \o <<x>>
    <3>1. <<x>> \in Seq(0..Letter) /\ <<>> \o <<x>> = <<x>>
      BY <1>6, BytesDiffer DEF Letter
    <3>2. Nth(chars, at + 1) \in Digits
      BY <1>6 DEF x
    <3>3. /\ at # W => c = <<x>>
          /\ at = W /\ at # 0 => c = <<Point>> \o <<x>>
          /\ at = W /\ at = 0 => c = <<0, Point>> \o <<x>>
      BY <1>2, <3>2, CharAtIs DEF W, x
    <3>4. QED
      BY <3>1, <3>3 DEF PointText, W
  <2>2. x \in 0..Letter
    BY <1>6, BytesDiffer DEF Letter
  <2>3. y \o <<x>> = Append(y, x)
    BY <1>8, <2>2
  <2>4. Append(y, x) \in Seq(0..Letter) /\ Len(Append(y, x)) = Len(y) + 1 /\ Append(y, x)[Len(y) + 1] = x
    BY <1>8, <2>2, AppendProperties, ZenonT(60)
  <2> HIDE DEF y, c
  <2>5. QED
    BY <1>8, <2>1, <2>2, <2>3, <2>4
<1>11. /\ extra \in Nat /\ more \in Nat /\ at \in Nat /\ W \in Nat
       /\ (PointWritten <=> at > 0 /\ at > W)
       /\ Len(rep) + (extra + 1) <= 1 + (at + 1) + (IF ~pw THEN 0 ELSE IF W = 0 THEN 2 ELSE 1)
  <2>1. PointWritten <=> at > 0 /\ at > W
    BY DEF PointWritten, W
  <2>2. Len(rep) \in Nat
    BY <1>7
  <2>3. QED
    BY <1>3, <1>5, <1>7, <2>1, <2>2
<1> HIDE DEF extra, more, y, mid, c
<1>12. CASE Len(rep) + Len(c) > MAX_STR_BUFFER_SIZE
  <2>1. fpc' = "panicked" /\ UNCHANGED <<rep, at>>
    BY <1>12 DEF Emit, c
  <2>2. style.prec # Default
    <3>1. SUFFICES ASSUME style.prec = Default PROVE FALSE
      OBVIOUS
    <3>2. Len(rep) + Len(c) <= MAX_SCALE + 3
      <4> DEFINE l == Len(rep)
      <4>1. l \in Nat
        BY <1>7
      <4> HIDE DEF l
      <4>2. l + (extra + 1) <= 1 + (at + 1) + (IF W = 0 THEN 2 ELSE 1) /\ Len(c) = extra + 1
        BY <1>10, <1>11, <4>1 DEF l
      <4>3. QED
        BY <1>3, <1>5, <1>11, <3>1, <4>1, <4>2 DEF l
    <3>3. MAX_STR_BUFFER_SIZE \in Nat /\ MAX_SCALE + 3 <= MAX_STR_BUFFER_SIZE
      BY FormatterAssumption
    <3>4. Len(rep) + Len(c) \in Nat
      BY <1>7, <1>10
    <3>5. QED
      BY <1>3, <1>12, <3>2, <3>3, <3>4
  <2>3. FormatterTypeOK'
    BY <1>1, <1>2, <2>1 DEF FormatterTypeOK
  <2>4. DigitsPart'
    BY <1>1, <1>2, <2>1 DEF DigitsPart
  <2>5. PlainPart' /\ WrittenPart'
    BY <2>1, NotYetWritten
  <2>6. BackPart'
    BY <1>1, <1>2, <2>1, <2>2 DEF BackPart, tvars
  <2>7. QED
    BY <2>3, <2>4, <2>5, <2>6 DEF FormatterInv
<1>13. CASE ~(Len(rep) + Len(c) > MAX_STR_BUFFER_SIZE)
  <2>1. rep' = rep \o c /\ at' = at + 1 /\ fpc' = fpc
    BY <1>13 DEF Emit, c
  <2>2. FormatterTypeOK'
    BY <1>1, <1>2, <1>3, <2>1 DEF FormatterTypeOK
  <2>3. DigitsPart'
    BY <1>1, <1>2, <2>1 DEF DigitsPart
  <2>4. WrittenPart' /\ BackPart'
    <3>1. WrittenPart'
      BY <1>1, <2>1 DEF WrittenPart
    <3>2. QED
      BY <1>1, <1>2, <2>1, <3>1, NothingRead
  <2>5. /\ rep' \in Seq(0..Letter) /\ Len(rep') = Len(rep) + (extra + 1)
        /\ rep' # <<>> /\ rep'[Len(rep')] \in Digits
    <3>1. /\ rep \o c \in Seq(0..Letter) /\ Len(rep \o c) = Len(rep) + Len(c)
          /\ \A i \in 1..(Len(rep) + Len(c)) : (rep \o c)[i] = IF i <= Len(rep) THEN rep[i] ELSE c[i - Len(rep)]
      BY <1>7, <1>10, ConcatProperties
    <3> DEFINE a == Len(rep)
               b == Len(c)
    <3>2. a \in Nat /\ b \in Nat /\ b >= 1
      BY <1>7, <1>10, <1>11
    <3> HIDE DEF a, b
    <3>3. a + b \in 1..(a + b) /\ ~(a + b <= a) /\ (a + b) - a = b
      BY <3>2
    <3>4. rep'[a + b] = c[b] /\ Len(rep') = a + b
      BY <2>1, <3>1, <3>3 DEF a, b
    <3>5. rep'[Len(rep')] \in Digits
      BY <1>6, <1>10, <3>4 DEF b
    <3>6. rep' # <<>>
      BY <3>2, <3>4
    <3>7. QED
      BY <1>10, <2>1, <3>1, <3>5, <3>6
  <2>6. /\ (at' > 0) = TRUE /\ PointWritten' = pw /\ InFront' = InFront /\ WholeLen' = W
        /\ Positions' = Positions /\ Leading(shown'.m, Len(chars'), at') = L * Ten + x
    <3>1. WholeLen' = W /\ Positions' = Positions /\ InFront' = InFront
      BY <1>1, <2>1 DEF WholeLen, W, Positions, InFront, SignText, Places
    <3>2. (at' > 0) = TRUE
      BY <1>3, <2>1
    <3>3. PointWritten' = pw
      <4>1. PointWritten' = (at + 1 > 0 /\ at + 1 > W)
        BY <2>1, <3>1 DEF PointWritten
      <4>2. (at + 1 > 0 /\ at + 1 > W) <=> at >= W
        BY <1>3, <1>5
      <4>3. QED
        BY <4>1, <4>2
    <3>4. Leading(shown'.m, Len(chars'), at') = L * Ten + x
      BY <1>1, <1>6, <2>1 DEF m, n
    <3>5. QED
      BY <3>1, <3>2, <3>3, <3>4
  <2>7. Spells(InFront \o rep', shown.neg, TRUE, pw, L * Ten + x, IF pw THEN (at + 1) - W ELSE 0)
    <3>1. Spells(Append(mid, x), shown.neg, TRUE, pw, L * Ten + x, IF pw THEN f + 1 ELSE 0)
      BY <1>3, <1>6, <1>9, SpellsDigit, pw \in BOOLEAN
    <3>2. (IF pw THEN f + 1 ELSE 0) = (IF pw THEN (at + 1) - W ELSE 0)
      BY <1>3, <1>5
    <3>3. InFront \o rep' = Append(mid, x)
      <4>1. InFront \in Seq(0..Letter)
        <5>1. SignText \in Seq(0..Letter)
          BY <1>2, FormatterFacts, Zenon
        <5>2. <<>> \in Seq(0..Letter)
          OBVIOUS
        <5>3. InFront \in {<<>>, SignText}
          BY DEF InFront
        <5>4. QED
          BY <5>1, <5>2, <5>3
      <4>2. <<x>> \in Seq(0..Letter)
        BY <1>10
      <4>3. InFront \o (rep \o (y \o <<x>>)) = ((InFront \o rep) \o y) \o <<x>>
        <5>1. rep \o (y \o <<x>>) = (rep \o y) \o <<x>> /\ rep \o y \in Seq(0..Letter)
          BY <1>7, <1>8, <4>2, ConcatAssociative
        <5>2. InFront \o ((rep \o y) \o <<x>>) = (InFront \o (rep \o y)) \o <<x>>
          BY <4>1, <4>2, <5>1, ConcatAssociative
        <5>3. InFront \o (rep \o y) = (InFront \o rep) \o y
          BY <1>7, <1>8, <4>1, ConcatAssociative
        <5>4. QED
          BY <5>1, <5>2, <5>3
      <4>4. mid \in Seq(0..Letter)
        BY <1>9 DEF Spells
      <4>5. mid \o <<x>> = Append(mid, x)
        BY <1>10, <4>4
      <4>6. QED
        BY <1>10, <2>1, <4>3, <4>5 DEF mid
    <3> HIDE DEF f, pw
    <3>4. QED
      BY <3>1, <3>2, <3>3
  <2>8. Spells(InFront \o rep, shown.neg, at > 0, PointWritten, Leading(shown.m, Len(chars), at),
               IF PointWritten THEN at - WholeLen ELSE 0)'
    <3>1. (IF PointWritten THEN at - WholeLen ELSE 0)' = IF pw THEN (at + 1) - W ELSE 0
      BY <2>1, <2>6
    <3> HIDE DEF pw
    <3>2. QED
      BY <1>1, <2>6, <2>7, <3>1
  <2>9. /\ (at' = 0) = FALSE /\ (shown'.s > Len(chars')) = FALSE /\ at' <= Positions'
    BY <1>1, <1>3, <1>5, <2>1, <2>6 DEF n
  <2>10. Len(rep') <= 1 + at' + (IF ~PointWritten' THEN 0 ELSE IF WholeLen' = 0 THEN 2 ELSE 1)
    BY <1>11, <2>1, <2>5, <2>6
  <2>11. PlainPart'
    BY <1>1, <1>7, <2>5, <2>8, <2>9, <2>10 DEF PlainPart
  <2>12. QED
    BY <2>2, <2>3, <2>4, <2>11 DEF FormatterInv
<1>14. QED
  BY <1>12, <1>13

\* The number cut after p places is what its first digits say.
LEMMA CutLeading ==
    ASSUME NEW d, d.m \in Nat, NEW n \in Nat, d.s \in Nat, d.s <= n, NEW p \in Nat, NEW j, j = (n - d.s) + p
    PROVE  CutAt(d, p) = Leading(d.m, n, j) /\ j \in Nat
<1> DEFINE s == d.s
           m == d.m
<1>1. s \in Nat /\ s <= n /\ j = (n - s) + p /\ m \in Nat /\ j \in Nat
  <2>1. s \in Nat /\ s <= n /\ j = (n - s) + p /\ m \in Nat
    OBVIOUS
  <2> HIDE DEF s
  <2>2. QED
    BY <2>1
<1> HIDE DEF s, m
<1>2. CASE p < s
  <2>1. j <= n /\ n - j = s - p
    BY <1>1, <1>2
  <2>2. QED
    BY <1>1, <1>2, <2>1 DEF CutAt, Leading, s, m
<1>3. CASE p = s
  <2>1. j <= n /\ n - j = 0 /\ p - s = 0 /\ ~(p < s) /\ m \div 1 = m /\ m * 1 = m
    BY <1>1, <1>3
  <2>2. QED
    BY <1>1, <2>1, PowersAssumption DEF CutAt, Leading, s, m
<1>4. CASE p > s
  <2>1. ~(j <= n) /\ j - n = p - s /\ ~(p < s)
    BY <1>1, <1>4
  <2>2. QED
    BY <1>1, <2>1 DEF CutAt, Leading, s, m
<1>5. QED
  BY <1>1, <1>2, <1>3, <1>4

\* A first digit with nothing but zeros behind it.
LEMMA ZerosBehind ==
    ASSUME NEW m \in Nat, NEW c, AreDigits(c, m), m < POWERS[Len(c)], Len(c) >= 1,
           \A j \in 2..Len(c) : Nth(c, j) = 0
    PROVE  Leading(m, Len(c), 1) \in Nat /\ Leading(m, Len(c), 1) * POWERS[Len(c) - 1] = m
<1> DEFINE n == Len(c)
           L(j) == Leading(m, n, j)
           l == L(1)
           T == {i \in 0..(n - 1) : L(1 + i) = l * POWERS[i]}
<1>1. n \in Nat /\ n <= PowLimit /\ n >= 1 /\ PowLimit \in Nat /\ Ten \in Nat /\ \A j \in 2..n : Nth(c, j) = 0
  BY ScaleAssumption, BaseAssumption DEF AreDigits
<1>2. /\ L(n) = m
      /\ \A j \in 0..n : L(j) \in Nat /\ L(j + 1) = L(j) * Ten + Nth(c, j + 1)
  <2>1. L(n) = m
    BY DigitsOf
  <2>2. \A j \in 0..n : j \in Nat /\ (j + 1) - n <= PowLimit
    <3>1. PowLimit >= 1
      BY <1>1
    <3>2. QED
      BY <1>1, <3>1
  <2>3. QED
    BY <2>1, <2>2, DigitsOf
<1> HIDE DEF n, L
<1>3. l \in Nat
  BY <1>1, <1>2
<1>4. 0 \in T
  <2>1. 1 + 0 = 1 /\ 0 \in 0..(n - 1) /\ POWERS[0] = 1 /\ l * 1 = l
    BY <1>1, <1>3, PowersAssumption
  <2>2. QED
    BY <2>1
<1>5. \A i \in 1..(n - 1) : i - 1 \in T => i \in T
  <2>1. SUFFICES ASSUME NEW i \in 1..(n - 1), L(1 + (i - 1)) = l * POWERS[i - 1] PROVE L(1 + i) = l * POWERS[i]
    <3>1. \A i \in 1..(n - 1) : i \in 0..(n - 1)
      BY <1>1
    <3>2. QED
      BY <3>1
  <2>2. /\ 1 + (i - 1) = i /\ i \in 0..n /\ i + 1 = 1 + i /\ 1 + i \in 2..n /\ i - 1 \in 0..PowLimit
        /\ 1 \in 0..PowLimit /\ (i - 1) + 1 = i /\ i <= PowLimit
    BY <1>1
  <2>3. POWERS[i] = POWERS[i - 1] * Ten /\ POWERS[i - 1] \in Nat
    <3>1. POWERS[(i - 1) + 1] = POWERS[i - 1] * POWERS[1]
      BY <2>2, PowersAdd
    <3>2. QED
      BY <2>2, <3>1, PowersType, PowersAssumption
  <2>4. L(1 + i) = L(i) * Ten + Nth(c, 1 + i) /\ Nth(c, 1 + i) = 0 /\ L(i) \in Nat
    <3>1. L(i + 1) = L(i) * Ten + Nth(c, i + 1)
      BY <1>2, <2>2
    <3>2. QED
      BY <1>1, <1>2, <2>2, <3>1
  <2> DEFINE y == L(i) * Ten
  <2>5. y \in Int /\ L(1 + i) = y + 0
    BY <1>1, <2>4
  <2>6. y = (l * POWERS[i - 1]) * Ten
    BY <2>1, <2>2
  <2>7. (l * POWERS[i - 1]) * Ten = l * (POWERS[i - 1] * Ten)
    BY <1>1, <1>3, <2>3, MulAssoc
  <2> HIDE DEF y, l
  <2>8. QED
    BY <2>3, <2>5, <2>6, <2>7
<1>6. \A i \in 0..(n - 1) : i \in T
  <2> HIDE DEF T
  <2>1. n - 1 \in Nat
    BY <1>1
  <2>2. QED
    BY <1>4, <1>5, <2>1, RangeInduction
<1>7. n - 1 \in 0..(n - 1) /\ 1 + (n - 1) = n
  BY <1>1
<1>8. L(n) = l * POWERS[n - 1]
  BY <1>6, <1>7
<1>9. QED
  BY <1>2, <1>3, <1>8 DEF n, L

LEMMA PlainReturnStep == ASSUME FormatterInv, PlainReturn, UNCHANGED <<tvars, svars>> PROVE FormatterInv'
<1> DEFINE m == shown.m
           n == Len(chars)
           W == WholeLen
           L == Leading(m, n, at)
           body == IF rep \in {<<>>, <<Minus>>} THEN Append(rep, 0) ELSE rep
           front == InFront \o body
           zeros == Repeat(0, Additional)
           f == IF PointWritten THEN at - W ELSE 0
           v == CutAt(shown, Places)
<1>1. /\ fpc = "plain" /\ shown.s <= n /\ at = Positions /\ fpc' = "written"
      /\ rep' = front \o zeros
      /\ shown' = shown /\ style' = style /\ working' = working /\ chars' = chars /\ at' = at
  BY DEF PlainReturn, InFront
<1>2. FormatterTypeOK /\ DigitsPart /\ PlainPart /\ BackPart
  BY DEF FormatterInv
<1>3. /\ m \in Nat /\ n \in Nat /\ n <= MAX_SCALE + 1 /\ MAX_SCALE \in Nat /\ PowLimit \in Nat /\ MAX_SCALE + 7 <= PowLimit
      /\ m < POWERS[n] /\ AreDigits(chars, m) /\ at \in Nat /\ shown.s \in Nat
      /\ shown.neg \in BOOLEAN /\ Places \in 0..MAX_SCALE /\ Additional \in 0..PowLimit /\ MAX_SCALE >= 1
      /\ style.prec = Default => Places = shown.s /\ Additional = 0
      /\ Additional > 0 => Places = MAX_SCALE
  <2>1. /\ m \in Nat /\ n \in Nat /\ MAX_SCALE \in Nat /\ PowLimit \in Nat /\ MAX_SCALE + 7 <= PowLimit
        /\ shown.s \in Nat /\ shown.neg \in BOOLEAN /\ Places \in 0..MAX_SCALE /\ Additional \in 0..PowLimit /\ MAX_SCALE >= 1
        /\ style.prec = Default => Places = shown.s /\ Additional = 0
        /\ style.prec # Default => (Additional > 0 => Places = MAX_SCALE)
    BY <1>2, FormatterFacts, Zenon
  <2>2. n <= MAX_SCALE + 1 /\ m < POWERS[n] /\ AreDigits(chars, m) /\ at \in Nat
    BY <1>1, <1>2 DEF DigitsPart, FormatterTypeOK
  <2>3. Additional > 0 => Places = MAX_SCALE
    BY <2>1
  <2>4. QED
    BY <2>1, <2>2, <2>3
<1>4. W = n - shown.s /\ at = W + Places
  BY <1>1 DEF WholeLen, Positions
<1>5. /\ SignText \in Seq(0..Letter) /\ Len(SignText) <= 1
  BY <1>2, FormatterFacts, Zenon
<1>6. v = L
  <2>1. shown.m \in Nat /\ shown.s \in Nat /\ Places \in Nat /\ at = (n - shown.s) + Places
    BY <1>3, <1>4
  <2>2. QED
    BY <1>1, <1>3, <2>1, CutLeading
<1>7. /\ rep \in Seq(0..Letter)
      /\ Spells(InFront \o rep, shown.neg, at > 0, PointWritten, L, f)
      /\ at = 0 => rep = IF style.sign THEN SignText ELSE <<>>
      /\ at > 0 => rep # <<>> /\ rep[Len(rep)] \in Digits
      /\ Len(rep) <= 1 + at + (IF ~PointWritten THEN 0 ELSE IF W = 0 THEN 2 ELSE 1)
  BY <1>1, <1>2 DEF PlainPart
<1>8. L \in Nat /\ (at = 0 => L = 0)
  <2>1. (at + 1) - n <= PowLimit
    <3>1. Places <= MAX_SCALE /\ Places \in Nat
      BY <1>3
    <3> HIDE DEF n, W
    <3>2. QED
      BY <1>3, <1>4, <3>1
  <2>2. QED
    BY <1>3, <2>1, DigitsOf
<1> HIDE DEF L, v, m, n, W, f
<1>9. f = Places /\ (PointWritten <=> Places > 0) /\ PointWritten \in BOOLEAN /\ W \in Nat /\ at <= MAX_SCALE + MAX_SCALE + 1
  <2>1. Places \in Nat /\ W \in Nat /\ Places <= MAX_SCALE
    BY <1>1, <1>3, <1>4
  <2>2. PointWritten <=> at > 0 /\ at > W
    BY DEF PointWritten, W
  <2>3. PointWritten <=> Places > 0
    BY <1>3, <1>4, <2>1, <2>2
  <2>4. f = IF Places > 0 THEN at - W ELSE 0
    BY <2>3 DEF f
  <2>5. PointWritten \in BOOLEAN
    BY DEF PointWritten
  <2>6. at <= MAX_SCALE + MAX_SCALE + 1
    BY <1>3, <1>4, <2>1
  <2>7. QED
    BY <1>4, <2>1, <2>3, <2>4, <2>5, <2>6
<1>10. InFront \in Seq(0..Letter) /\ Len(InFront) <= 1 /\ 0 \in 0..Letter /\ 0 \in Digits /\ Minus \notin Digits /\ Ten \in Nat
  <2>1. <<>> \in Seq(0..Letter) /\ Len(<<>>) <= 1
    OBVIOUS
  <2>2. InFront \in {<<>>, SignText}
    BY DEF InFront
  <2>3. QED
    <3>1. InFront \in Seq(0..Letter) /\ Len(InFront) <= 1
      BY <1>5, <2>1, <2>2
    <3>2. 0 \in 0..Letter /\ 0 \in Digits /\ Minus \notin Digits /\ Ten \in Nat
      BY BytesDiffer
    <3>3. QED
      BY <3>1, <3>2
<1>11. /\ body \in Seq(0..Letter) /\ Len(body) <= Len(rep) + 1
       /\ Spells(front, shown.neg, TRUE, PointWritten, L, f)
  <2>1. CASE at = 0
    <3>1. rep \in {<<>>, <<Minus>>}
      BY <1>7, <2>1 DEF SignText
    <3>2. body = Append(rep, 0) /\ body \in Seq(0..Letter) /\ Len(body) = Len(rep) + 1
      BY <1>7, <1>10, <3>1
    <3>3. front = Append(InFront \o rep, 0)
      BY <1>7, <1>10, <3>2, PutBehind
    <3>4. L = 0 /\ Places = 0 /\ (PointWritten = FALSE) /\ f = 0 /\ (at > 0) = FALSE
      <4>1. Places = 0
        <5>1. Places \in Nat
          BY <1>3
        <5>2. QED
          BY <1>4, <1>9, <2>1, <5>1
      <4>2. QED
        BY <1>8, <1>9, <2>1, <4>1
    <3>5. Spells(InFront \o rep, shown.neg, FALSE, FALSE, 0, 0)
      BY <1>7, <3>4
    <3>6. Spells(Append(InFront \o rep, 0), shown.neg, TRUE, FALSE, 0 * Ten + 0, IF FALSE THEN 0 + 1 ELSE 0)
      BY <1>3, <1>10, <3>5, SpellsDigit, FALSE \in BOOLEAN, 0 \in Nat
    <3>7. 0 * Ten + 0 = 0
      BY <1>10
    <3>8. Spells(front, shown.neg, TRUE, FALSE, 0, 0)
      BY <3>3, <3>6, <3>7
    <3>9. Spells(front, shown.neg, TRUE, PointWritten, L, f)
      BY <3>4, <3>8
    <3>10. Len(body) <= Len(rep) + 1
      BY <1>7, <3>2
    <3>11. QED
      BY <3>2, <3>9, <3>10, Zenon
  <2>2. CASE at # 0
    <3>1. at > 0 /\ (at > 0) = TRUE
      BY <1>3, <2>2
    <3>2. rep \notin {<<>>, <<Minus>>}
      <4>1. SUFFICES ASSUME rep = <<Minus>> PROVE FALSE
        BY <1>7, <3>1
      <4>2. rep[Len(rep)] = Minus
        BY <4>1
      <4>3. QED
        BY <1>7, <1>10, <3>1, <4>2
    <3>3. body = rep
      BY <3>2
    <3>4. Spells(front, shown.neg, TRUE, PointWritten, L, f)
      BY <1>7, <3>1, <3>3
    <3>5. Len(rep) <= Len(rep) + 1
      BY <1>7
    <3>6. QED
      BY <1>7, <3>3, <3>4, <3>5, Zenon
  <2>3. QED
    BY <2>1, <2>2
<1> HIDE DEF body, front
<1>12. Spells(rep', shown.neg, TRUE, PointWritten, v * POWERS[Additional], Places + Additional)
  <2>1. Additional > 0 => PointWritten
    BY <1>3, <1>9
  <2>2. Spells(front, shown.neg, TRUE, PointWritten, L, Places)
    BY <1>9, <1>11
  <2>3. Spells(front \o zeros, shown.neg, TRUE, PointWritten, L * POWERS[Additional], Places + Additional)
    BY <1>3, <1>8, <1>9, <2>1, <2>2, SpellsZeros
  <2>4. QED
    BY <1>1, <1>6, <2>3
<1>13. style.prec = Default => Len(rep') <= PowLimit
  <2>1. SUFFICES ASSUME style.prec = Default PROVE Len(rep') <= PowLimit
    OBVIOUS
  <2>2. Additional = 0 /\ zeros = <<>>
    BY <1>3, <1>10, <2>1, Repeated, 0 \in Nat
  <2>3. front = InFront \o body
    BY DEF front
  <2>4. front \in Seq(0..Letter) /\ Len(front) = Len(InFront) + Len(body)
    BY <1>10, <1>11, <2>3, ConcatProperties
  <2>5. rep' = front
    BY <1>1, <2>2, <2>4, ConcatEmptySeq
  <2>6. at <= MAX_SCALE + 1
    BY <1>3, <1>4, <2>1
  <2> DEFINE a == Len(InFront)
             b == Len(body)
             c == Len(rep)
  <2>7. a \in Nat /\ b \in Nat /\ c \in Nat /\ a <= 1 /\ b <= c + 1 /\ c <= 1 + at + 2 /\ Len(rep') = a + b
    <3>1. a \in Nat /\ b \in Nat /\ c \in Nat
      BY <1>7, <1>10, <1>11
    <3>2. c <= 1 + at + 2
      <4> HIDE DEF c
      <4>1. c <= 1 + at + (IF ~PointWritten THEN 0 ELSE IF W = 0 THEN 2 ELSE 1)
        BY <1>7 DEF c
      <4>2. QED
        BY <1>3, <3>1, <4>1
    <3>3. QED
      BY <1>10, <1>11, <2>4, <2>5, <3>1, <3>2
  <2> HIDE DEF a, b, c
  <2>8. QED
    BY <1>3, <2>6, <2>7
<1>14. FormatterTypeOK'
  BY <1>1, <1>2 DEF FormatterTypeOK
<1>15. DigitsPart'
  BY <1>1, <1>2 DEF DigitsPart
<1>16. PlainPart'
  BY <1>1 DEF PlainPart
<1>17. BackPart'
  BY <1>1, <1>2, NothingRead
<1>18. WrittenPart'
  <2>1. ~style.sci
    BY <1>1, <1>2 DEF PlainPart
  <2>2. Places' = Places /\ Additional' = Additional /\ CutAt(shown', Places') = v
    BY <1>1 DEF Places, Additional, v
  <2>3. Spells(rep', shown'.neg, TRUE, PointWritten, CutAt(shown', Places') * POWERS[Additional'], Places' + Additional')
    BY <1>1, <1>12, <2>2
  <2>4. PlainText'
    BY <1>1, <1>9, <1>13, <2>3 DEF PlainText
  <2>5. QED
    BY <1>1, <2>1, <2>4 DEF WrittenPart
<1>19. QED
  BY <1>14, <1>15, <1>16, <1>17, <1>18 DEF FormatterInv

-----------------------------------------------------------------------------
(* The scientific form *)

\* The digits and what they say, with the sign in front.
LEMMA SciShape ==
    ASSUME FormatterTypeOK, DigitsPart, fpc # "digits", style.sci, shown.m # 0 \/ style.prec = Default
    PROVE  LET t == SignText \o SciDigits
           IN  /\ t \in Seq(0..Letter)
               /\ \E point \in BOOLEAN, v \in Nat, f \in Nat :
                    /\ Spells(t, shown.neg, shown.m # 0, point, v, f)
                    /\ style.prec # Default =>
                        v = CutAt([m |-> shown.m, s |-> Len(chars) - 1], style.prec) /\ f = style.prec
                    /\ style.prec = Default =>
                        /\ Len(t) <= MAX_SCALE + 3 /\ v <= shown.m /\ f <= MAX_SCALE
                        /\ IF shown.m = 0 THEN Len(t) <= 1
                           ELSE f <= Len(chars) - 1 /\ v * POWERS[(Len(chars) - 1) - f] = shown.m
<1> DEFINE m == shown.m
           n == Len(chars)
           p == style.prec
           t == SignText \o SciDigits
           d == [m |-> shown.m, s |-> Len(chars) - 1]
           Good(w, point, v, f) ==
                /\ w \in Seq(0..Letter)
                /\ Spells(w, shown.neg, shown.m # 0, point, v, f)
                /\ p # Default => v = CutAt(d, p) /\ f = p
                /\ p = Default =>
                    /\ Len(w) <= MAX_SCALE + 3 /\ v <= m /\ f <= MAX_SCALE
                    /\ IF m = 0 THEN Len(w) <= 1
                       ELSE f <= n - 1 /\ v * POWERS[(n - 1) - f] = m
<1>1. /\ m \in Nat /\ n \in Nat /\ n <= MAX_SCALE + 1 /\ MAX_SCALE \in Nat /\ PowLimit \in Nat /\ MAX_SCALE + 7 <= PowLimit
      /\ m < POWERS[n] /\ AreDigits(chars, m) /\ shown.neg \in BOOLEAN /\ p \in Default..PowLimit /\ Default = 0 - 1
      /\ n > 0 => POWERS[n - 1] <= m
  <2>1. /\ m \in Nat /\ n \in Nat /\ MAX_SCALE \in Nat /\ PowLimit \in Nat /\ MAX_SCALE + 7 <= PowLimit
        /\ shown.neg \in BOOLEAN /\ p \in Default..PowLimit /\ Default = 0 - 1
    BY FormatterFacts, Zenon
  <2>2. n <= MAX_SCALE + 1 /\ m < POWERS[n] /\ AreDigits(chars, m) /\ (n > 0 => POWERS[n - 1] <= m)
    BY DEF DigitsPart
  <2>3. QED
    BY <2>1, <2>2
<1>2. SignText \in Seq(0..Letter) /\ Len(SignText) <= 1 /\ Spells(SignText, shown.neg, FALSE, FALSE, 0, 0)
  BY FormatterFacts, Zenon
<1>3. /\ n = 0 /\ p = Default => SciDigits = <<>>
      /\ n >= 1 /\ p = 0 => SciDigits = <<Nth(chars, 1)>>
      /\ n >= 1 /\ p >= 1 => SciDigits = Pointed(chars, p)
      /\ n >= 1 /\ p = Default /\ (\A j \in 2..n : Nth(chars, j) = 0) => SciDigits = <<Nth(chars, 1)>>
      /\ n >= 1 /\ p = Default /\ ~(\A j \in 2..n : Nth(chars, j) = 0) =>
           n - 1 \in Nat /\ SciDigits = Pointed(chars, n - 1)
  BY <1>1, SciDigitsAre DEF FormatterTypeOK
<1>4. n = 0 <=> m = 0
  <2>1. n = 0 => m = 0
    <3> HIDE DEF n, m
    <3>1. SUFFICES ASSUME n = 0 PROVE m = 0
      OBVIOUS
    <3>2. POWERS[n] = 1
      BY <3>1, PowersAssumption
    <3>3. QED
      BY <1>1, <3>2
  <2>2. n > 0 => m # 0
    <3>1. SUFFICES ASSUME n > 0 PROVE m # 0
      OBVIOUS
    <3> HIDE DEF n
    <3>2. n - 1 \in 0..PowLimit
      BY <1>1, <3>1
    <3>3. POWERS[n - 1] >= 1 /\ POWERS[n - 1] \in Nat
      BY <3>2, PowersType
    <3>4. QED
      BY <1>1, <3>1, <3>3
  <2>3. QED
    BY <1>1, <2>1, <2>2
<1>5. SUFFICES \E point \in BOOLEAN, v \in Nat, f \in Nat : Good(t, point, v, f)
  OBVIOUS
<1>6. CASE n = 0
  <2>1. m = 0 /\ p = Default /\ (shown.m # 0) = FALSE
    BY <1>4, <1>6
  <2>2. t = SignText
    BY <1>2, <1>3, <1>6, <2>1, ConcatEmptySeq
  <2> DEFINE w == t
  <2>3. w = SignText
    BY <2>2
  <2> HIDE DEF w
  <2>4. Spells(w, shown.neg, shown.m # 0, FALSE, 0, 0)
    BY <1>2, <2>1, <2>3
  <2>5. w \in Seq(0..Letter) /\ Len(w) <= 1 /\ Len(w) <= MAX_SCALE + 3 /\ 0 <= m /\ 0 <= MAX_SCALE
    BY <1>1, <1>2, <2>1, <2>3
  <2>6. Good(w, FALSE, 0, 0)
    BY <2>1, <2>4, <2>5
  <2>7. QED
    BY <2>6 DEF w
<1>7. CASE n # 0
  <2>1. n >= 1 /\ m # 0 /\ (shown.m # 0) = TRUE /\ n - 1 \in Nat /\ n - 1 <= n
    BY <1>1, <1>4, <1>7
  <2>2. ASSUME NEW k \in 0..PowLimit
        PROVE  /\ Spells(SignText \o <<Nth(chars, 1)>>, shown.neg, shown.m # 0, FALSE, Leading(m, n, 1), 0)
               /\ Spells(SignText \o Pointed(chars, k), shown.neg, shown.m # 0, TRUE, Leading(m, n, 1 + k), k)
               /\ SignText \o <<Nth(chars, 1)>> \in Seq(0..Letter) /\ Len(SignText \o <<Nth(chars, 1)>>) <= 2
               /\ SignText \o Pointed(chars, k) \in Seq(0..Letter) /\ Len(SignText \o Pointed(chars, k)) <= k + 3
    <3>1. /\ Spells(SignText \o <<Nth(chars, 1)>>, shown.neg, TRUE, FALSE, Leading(m, n, 1), 0)
          /\ Spells(SignText \o Pointed(chars, k), shown.neg, TRUE, TRUE, Leading(m, n, 1 + k), k)
          /\ Nth(chars, 1) \in Digits
          /\ Pointed(chars, k) \in Seq(0..Letter) /\ Len(Pointed(chars, k)) = k + 2
      BY <1>1, <1>2, <2>1, PointedSays
    <3>2. /\ Spells(SignText \o <<Nth(chars, 1)>>, shown.neg, shown.m # 0, FALSE, Leading(m, n, 1), 0)
          /\ Spells(SignText \o Pointed(chars, k), shown.neg, shown.m # 0, TRUE, Leading(m, n, 1 + k), k)
      BY <2>1, <3>1
    <3>3. ASSUME NEW b \in Seq(0..Letter), NEW l \in Nat, Len(b) = l
          PROVE  SignText \o b \in Seq(0..Letter) /\ Len(SignText \o b) <= l + 1
      BY <1>2, <3>3
    <3>4. <<Nth(chars, 1)>> \in Seq(0..Letter) /\ Len(<<Nth(chars, 1)>>) = 1
      BY <3>1, BytesDiffer DEF Letter
    <3> DEFINE b == <<Nth(chars, 1)>>
               c == Pointed(chars, k)
    <3> HIDE DEF b, c
    <3>5. SignText \o b \in Seq(0..Letter) /\ Len(SignText \o b) <= 1 + 1
      BY <3>3, <3>4 DEF b
    <3>6. SignText \o c \in Seq(0..Letter) /\ Len(SignText \o c) <= (k + 2) + 1
      <4>1. k + 2 \in Nat
        OBVIOUS
      <4>2. QED
        BY <3>1, <3>3, <4>1 DEF c
    <3>7. Len(SignText \o b) <= 2 /\ Len(SignText \o c) <= k + 3
      BY <3>5, <3>6
    <3>8. QED
      BY <3>2, <3>5, <3>6, <3>7, Zenon DEF b, c
  <2>3. ASSUME NEW k \in 0..PowLimit
        PROVE  Leading(m, n, 1 + k) = CutAt(d, k) /\ Leading(m, n, 1 + k) \in Nat
    <3>1. d.m = m /\ d.s = n - 1
      OBVIOUS
    <3> HIDE DEF d, n
    <3>2. d.m \in Nat /\ d.s \in Nat /\ d.s <= n /\ k \in Nat /\ 1 + k = (n - d.s) + k
      BY <1>1, <2>1, <3>1
    <3>3. CutAt(d, k) = Leading(d.m, n, 1 + k) /\ 1 + k \in Nat
      BY <1>1, <3>2, CutLeading
    <3>4. Leading(m, n, 1 + k) \in Nat
      <4>1. (k + 1) + 1 - n <= PowLimit + 1
        BY <1>1, <2>1
      <4>2. \A j \in Nat : (j + 1) - n <= PowLimit => Leading(m, n, j) \in Nat /\ Nth(chars, j + 1) \in Digits
            /\ Leading(m, n, j + 1) = Leading(m, n, j) * Ten + Nth(chars, j + 1)
        BY <1>1, DigitsOf DEF n
      <4>3. k \in Nat /\ (k + 1) - n <= PowLimit /\ k + 1 = 1 + k
        BY <1>1, <2>1
      <4> DEFINE a == Leading(m, n, k)
                 b == Nth(chars, k + 1)
      <4>4. a \in Nat /\ b \in Nat /\ Leading(m, n, 1 + k) = a * Ten + b /\ Ten \in Nat
        BY <4>2, <4>3, BytesDiffer
      <4> HIDE DEF a, b
      <4>5. a * Ten \in Nat
        BY <4>4, \A y, z \in Nat : y * z \in Nat
      <4>6. QED
        BY <4>4, <4>5
    <3>5. QED
      BY <3>1, <3>3, <3>4
  <2> DEFINE one == SignText \o <<Nth(chars, 1)>>
             L1 == Leading(m, n, 1)
  <2>4. CASE p = 0
    <3>0. SciDigits = <<Nth(chars, 1)>>
      BY <1>3, <2>1, <2>4
    <3>1. t = one /\ p # Default
      <4>1. p # Default
        BY <1>1, <2>4
      <4>2. QED
        BY <3>0, <4>1
    <3>2. 0 \in 0..PowLimit /\ 1 + 0 = 1
      BY <1>1
    <3>3. Spells(one, shown.neg, shown.m # 0, FALSE, L1, 0) /\ L1 = CutAt(d, 0) /\ L1 \in Nat /\ one \in Seq(0..Letter)
      BY <2>2, <2>3, <3>2
    <3> HIDE DEF one, L1, d
    <3>4. Good(one, FALSE, L1, 0)
      BY <2>4, <3>1, <3>3
    <3>5. QED
      BY <3>1, <3>3, <3>4
  <2>5. CASE p >= 1
    <3> DEFINE w == SignText \o Pointed(chars, p)
               Lp == Leading(m, n, 1 + p)
    <3>1. t = w /\ p # Default /\ p \in 0..PowLimit /\ p \in Nat
      BY <1>1, <1>3, <2>1, <2>5
    <3>2. Spells(w, shown.neg, shown.m # 0, TRUE, Lp, p) /\ Lp = CutAt(d, p) /\ Lp \in Nat /\ w \in Seq(0..Letter)
      BY <2>2, <2>3, <3>1
    <3> HIDE DEF w, Lp, d, p
    <3>3. Good(w, TRUE, Lp, p)
      BY <3>1, <3>2
    <3>4. QED
      BY <3>1, <3>2, <3>3
  <2>6. CASE p = Default /\ \A j \in 2..n : Nth(chars, j) = 0
    <3>1. t = one
      BY <1>3, <2>1, <2>6
    <3>2. 0 \in 0..PowLimit /\ 1 + 0 = 1
      BY <1>1
    <3>3. Spells(one, shown.neg, shown.m # 0, FALSE, L1, 0) /\ one \in Seq(0..Letter) /\ Len(one) <= 2
      BY <2>2, <3>2
    <3>4. L1 \in Nat /\ L1 * POWERS[n - 1] = m
      BY <1>1, <2>1, <2>6, ZerosBehind
    <3> HIDE DEF one, L1, n
    <3>5. n - 1 \in 0..PowLimit /\ (n - 1) - 0 = n - 1
      BY <1>1, <2>1
    <3> DEFINE q == POWERS[n - 1]
    <3>6. q \in Nat /\ q >= 1
      BY <3>5, PowersType
    <3> HIDE DEF q
    <3>7. L1 <= m
      <4>1. 1 * L1 <= q * L1 /\ q * L1 = L1 * q
        BY <3>4, <3>6, MulMono, MulAssoc
      <4>2. L1 * q = m
        BY <3>4 DEF q
      <4>3. QED
        BY <1>1, <3>4, <4>1, <4>2
    <3>8. one \in Seq(0..Letter) /\ Len(one) \in Nat
      BY <3>3
    <3>9. Len(one) <= MAX_SCALE + 3 /\ 0 <= MAX_SCALE /\ 0 <= n - 1
      <4> DEFINE l == Len(one)
      <4> HIDE DEF l
      <4>1. l \in Nat /\ l <= 2
        BY <3>3, <3>8 DEF l
      <4>2. l <= MAX_SCALE + 3 /\ 0 <= MAX_SCALE /\ 0 <= n - 1
        BY <1>1, <2>1, <4>1
      <4>3. QED
        BY <4>2 DEF l
    <3>10. Good(one, FALSE, L1, 0)
      BY <2>1, <2>6, <3>3, <3>4, <3>5, <3>7, <3>9
    <3>11. QED
      BY <3>1, <3>4, <3>10
  <2>7. CASE p = Default /\ ~ \A j \in 2..n : Nth(chars, j) = 0
    <3> DEFINE w == SignText \o Pointed(chars, n - 1)
    <3>1. t = w
      BY <1>3, <2>1, <2>7
    <3>2. n - 1 \in 0..PowLimit /\ 1 + (n - 1) = n /\ n - 1 <= MAX_SCALE /\ (n - 1) + 3 <= MAX_SCALE + 3 /\ (n - 1) - (n - 1) = 0
      BY <1>1, <2>1
    <3>3. /\ Spells(w, shown.neg, shown.m # 0, TRUE, Leading(m, n, n), n - 1)
          /\ w \in Seq(0..Letter) /\ Len(w) <= (n - 1) + 3
      BY <2>2, <3>2
    <3>4. Leading(m, n, n) = m
      BY <1>1, DigitsOf
    <3>5. m * POWERS[0] = m
      <4> HIDE DEF m
      <4>1. m * 1 = m /\ POWERS[0] = 1
        BY <1>1, PowersAssumption
      <4>2. QED
        BY <4>1
    <3> HIDE DEF w, n, m
    <3>6. Len(w) <= MAX_SCALE + 3
      BY <1>1, <2>1, <3>2, <3>3
    <3>7. Good(w, TRUE, m, n - 1)
      <4>1. w \in Seq(0..Letter) /\ Spells(w, shown.neg, shown.m # 0, TRUE, m, n - 1)
        BY <3>3, <3>4
      <4>2. p = Default /\ m <= m /\ n - 1 <= n - 1 /\ m # 0
        BY <1>1, <2>1, <2>7
      <4>3. m * POWERS[(n - 1) - (n - 1)] = m
        BY <3>2, <3>5
      <4>4. QED
        BY <3>2, <3>6, <4>1, <4>2, <4>3
    <3>8. QED
      BY <1>1, <2>1, <3>1, <3>7
  <2>8. p = 0 \/ p >= 1 \/ p = Default
    BY <1>1
  <2>9. QED
    BY <2>4, <2>5, <2>6, <2>7, <2>8
<1>8. QED
  BY <1>6, <1>7

\* The exponent is no larger than a scale.
LEMMA ExponentRange ==
    ASSUME FormatterTypeOK, DigitsPart
    PROVE  /\ SciExponent \in Int /\ Magnitude \in 0..MAX_SCALE
           /\ Len(chars) >= 1 => SciExponent = (Len(chars) - 1) - shown.s
<1> DEFINE n == Len(chars)
           l == IF n > 1 THEN n - 1 ELSE 0
<1>1. n \in Nat /\ n <= MAX_SCALE + 1 /\ MAX_SCALE \in Nat /\ shown.s \in 0..MAX_SCALE
  <2>1. n \in Nat /\ MAX_SCALE \in Nat /\ shown.s \in 0..MAX_SCALE
    BY FormatterFacts, Zenon
  <2>2. QED
    BY <2>1 DEF DigitsPart
<1>2. SciExponent = l - shown.s
  BY DEF SciExponent
<1> HIDE DEF n
<1>3. l \in 0..MAX_SCALE /\ (n >= 1 => l = n - 1)
  BY <1>1
<1> HIDE DEF l
<1>4. l - shown.s \in Int /\ (IF l - shown.s < 0 THEN -(l - shown.s) ELSE l - shown.s) \in 0..MAX_SCALE
  BY <1>1, <1>3
<1>5. QED
  BY <1>1, <1>2, <1>3, <1>4 DEF n, Magnitude

LEMMA SciReturnStep == ASSUME FormatterInv, SciReturn, UNCHANGED <<tvars, svars>> PROVE FormatterInv'
<1> DEFINE t == SignText \o SciDigits
           e == ExponentText(SciExponent < 0, Magnitude)
<1>1. /\ fpc = "scientific" /\ fpc' = "written"
      /\ rep' = SignText \o SciDigits \o <<Exponent>>
              \o (IF SciExponent < 0 THEN <<Minus>> \o Spelled(-SciExponent) ELSE Spelled(SciExponent))
      /\ shown' = shown /\ style' = style /\ working' = working /\ chars' = chars /\ at' = at
  BY DEF SciReturn
<1>2. FormatterTypeOK /\ DigitsPart /\ BackPart
  BY DEF FormatterInv
<1>3. FormatterTypeOK' /\ DigitsPart' /\ PlainPart' /\ BackPart'
  <2>1. FormatterTypeOK'
    BY <1>1, <1>2 DEF FormatterTypeOK
  <2>2. DigitsPart'
    BY <1>1, <1>2 DEF DigitsPart
  <2>3. PlainPart'
    BY <1>1 DEF PlainPart
  <2>4. BackPart'
    BY <1>1, <1>2, NothingRead
  <2>5. QED
    BY <2>1, <2>2, <2>3, <2>4
<1>3a. style.sci
  BY <1>1, <1>2 DEF DigitsPart
<1>4. shown.m # 0 \/ style.prec = Default => SciText'
  <2>1. SUFFICES ASSUME shown.m # 0 \/ style.prec = Default PROVE SciText'
    OBVIOUS
  <2>2. /\ t \in Seq(0..Letter)
        /\ \E point \in BOOLEAN, v \in Nat, f \in Nat :
             /\ Spells(t, shown.neg, shown.m # 0, point, v, f)
             /\ style.prec # Default =>
                 v = CutAt([m |-> shown.m, s |-> Len(chars) - 1], style.prec) /\ f = style.prec
             /\ style.prec = Default =>
                 /\ Len(t) <= MAX_SCALE + 3 /\ v <= shown.m /\ f <= MAX_SCALE
                 /\ IF shown.m = 0 THEN Len(t) <= 1
                    ELSE f <= Len(chars) - 1 /\ v * POWERS[(Len(chars) - 1) - f] = shown.m
    BY <1>1, <1>2, <1>3a, <2>1, SciShape
  <2>3. SciExponent' = SciExponent /\ Magnitude' = Magnitude
    BY <1>1 DEF SciExponent, Magnitude
  <2>4. rep' = (t \o <<Exponent>>) \o e
    <3>1. (IF SciExponent < 0 THEN <<Minus>> \o Spelled(-SciExponent) ELSE Spelled(SciExponent)) = e
      <4>1. CASE SciExponent < 0
        BY <4>1 DEF ExponentText, Magnitude
      <4>2. CASE ~(SciExponent < 0)
        <5>1. Magnitude = SciExponent /\ Magnitude \in 0..MAX_SCALE
          BY <1>2, <4>2, ExponentRange DEF Magnitude
        <5>2. e = <<>> \o Spelled(Magnitude)
          BY <4>2 DEF ExponentText
        <5>3. Spelled(Magnitude) \in Seq(Nat)
          <6> DEFINE k == Magnitude
          <6>1. k \in 0..MAX_SCALE
            BY <5>1
          <6> HIDE DEF k
          <6>2. (k \in Digits /\ Spelled(k) = <<k>>)
                \/ (k \div Ten \in Digits /\ k % Ten \in Digits /\ Spelled(k) = <<k \div Ten, k % Ten>>)
            BY <6>1, ShortNumber
          <6>3. Digits \subseteq Nat
            BY BytesDiffer
          <6>4. Spelled(k) \in Seq(Nat)
            <7> DEFINE q == k \div Ten
                       r == k % Ten
            <7>1. CASE k \in Digits /\ Spelled(k) = <<k>>
              BY <6>3, <7>1
            <7>2. CASE q \in Digits /\ r \in Digits /\ Spelled(k) = <<q, r>>
              <8> HIDE DEF q, r
              <8>1. QED
                BY <6>3, <7>2
            <7>3. QED
              BY <6>2, <7>1, <7>2
          <6>5. QED
            BY <6>4 DEF k
        <5>4. QED
          BY <4>2, <5>1, <5>2, <5>3, ConcatEmptySeq
      <4>3. QED
        BY <4>1, <4>2
    <3>2. QED
      BY <1>1, <3>1
  <2> HIDE DEF t, e
  <2>5. e = ExponentText(SciExponent < 0, Magnitude)'
    BY <2>3 DEF e
  <2>6. QED
    BY <1>1, <2>2, <2>4, <2>5 DEF SciText
<1>5. WrittenPart'
  BY <1>1, <1>3a, <1>4 DEF WrittenPart
<1>6. QED
  BY <1>3, <1>5 DEF FormatterInv

-----------------------------------------------------------------------------
(* The text goes back through the deserialiser *)

\* Reading changes nothing of the text.
LEMMA TextUnchanged ==
    ASSUME UNCHANGED <<shown, style, working, chars, rep, at>>
    PROVE  /\ FormatterTypeOK /\ fpc' \in {"written", "reading"} => FormatterTypeOK'
           /\ DigitsPart /\ fpc \in {"written", "reading"} /\ fpc' \in {"written", "reading"} => DigitsPart'
           /\ WrittenPart /\ fpc \in {"written", "reading"} /\ fpc' \in {"written", "reading"} => WrittenPart'
           /\ fpc' \in {"written", "reading"} => PlainPart'
<1>1. FormatterTypeOK /\ fpc' \in {"written", "reading"} => FormatterTypeOK'
  BY DEF FormatterTypeOK
<1>2. DigitsPart /\ fpc \in {"written", "reading"} /\ fpc' \in {"written", "reading"} => DigitsPart'
  BY DEF DigitsPart
<1>3. PlainText = PlainText'
  BY DEF PlainText, Places, Additional
<1>4. SciText = SciText'
  <2>1. SciExponent' = SciExponent /\ Magnitude' = Magnitude
    BY DEF SciExponent, Magnitude
  <2>2. ExponentText(SciExponent < 0, Magnitude)' = ExponentText(SciExponent < 0, Magnitude)
    BY <2>1
  <2>3. QED
    BY <2>2, ZenonT(60) DEF SciText
<1>5. WrittenPart /\ fpc \in {"written", "reading"} /\ fpc' \in {"written", "reading"} => WrittenPart'
  BY <1>3, <1>4 DEF WrittenPart
<1>6. fpc' \in {"written", "reading"} => PlainPart'
  BY DEF PlainPart
<1>7. QED
  BY <1>1, <1>2, <1>5, <1>6

\* A text without a precision is one the parser can be given.
LEMMA TextReady ==
    ASSUME FormatterInv, fpc = "written", style.prec = Default
    PROVE  rep \in Seq(0..Letter) /\ Len(rep) <= PowLimit
<1>1. FormatterTypeOK /\ DigitsPart /\ WrittenPart /\ style.sci \in BOOLEAN /\ shown.neg \in BOOLEAN
      /\ MAX_SCALE \in Nat /\ PowLimit \in Nat /\ MAX_SCALE + 7 <= PowLimit
  <2>1. FormatterTypeOK /\ DigitsPart /\ WrittenPart
    BY DEF FormatterInv
  <2>2. style.sci \in BOOLEAN /\ shown.neg \in BOOLEAN /\ MAX_SCALE \in Nat /\ PowLimit \in Nat /\ MAX_SCALE + 7 <= PowLimit
    BY <2>1, FormatterFacts, Zenon
  <2>3. QED
    BY <2>1, <2>2
<1>2. CASE ~style.sci
  <2>1. PlainText
    BY <1>1, <1>2 DEF WrittenPart
  <2>2. QED
    BY <2>1 DEF PlainText, Spells
<1>3. CASE style.sci
  <2>1. SciText
    BY <1>1, <1>3 DEF WrittenPart
  <2>2. PICK t \in Seq(0..Letter), point \in BOOLEAN, v \in Nat, f \in Nat :
            /\ rep = (t \o <<Exponent>>) \o ExponentText(SciExponent < 0, Magnitude)
            /\ Len(t) <= MAX_SCALE + 3
    BY <2>1 DEF SciText
  <2> DEFINE e == ExponentText(SciExponent < 0, Magnitude)
  <2>3. e \in Seq(0..Letter) /\ Len(e) <= 3
    <3>1. Magnitude \in 0..MAX_SCALE /\ (SciExponent < 0) \in BOOLEAN
      BY <1>1, ExponentRange
    <3>2. QED
      BY <3>1, ExponentSpelled
  <2> HIDE DEF e
  <2>4. Exponent \in 0..Letter
    BY BytesDiffer DEF Exponent, Letter
  <2>5. t \o <<Exponent>> \in Seq(0..Letter) /\ Len(t \o <<Exponent>>) = Len(t) + 1
    BY <2>4, ConcatProperties
  <2>6. rep = (t \o <<Exponent>>) \o e
    BY <2>2 DEF e
  <2>7. rep \in Seq(0..Letter) /\ Len(rep) = (Len(t) + 1) + Len(e)
    BY <2>3, <2>5, <2>6, ConcatProperties
  <2> DEFINE a == Len(t)
             b == Len(e)
  <2>8. a \in Nat /\ b \in Nat /\ a <= MAX_SCALE + 3 /\ b <= 3
    BY <2>2, <2>3
  <2> HIDE DEF a, b
  <2>9. (a + 1) + b <= PowLimit
    BY <1>1, <2>8
  <2>10. QED
    BY <2>7, <2>9 DEF a, b
<1>4. QED
  BY <1>1, <1>2, <1>3

LEMMA ReadBackStep == ASSUME FormatterInv, ReadBack PROVE FormatterInv'
<1>1. /\ fpc = "written" /\ style.prec = Default /\ fpc' = "reading"
      /\ whole' = rep /\ lossy' = FALSE /\ ret' = ZERO /\ due' = 0 /\ spc' = "visit"
      /\ UNCHANGED <<shown, style, working, chars, rep, at>> /\ UNCHANGED tvars
  BY DEF ReadBack, ScientificCall
<1>2. FormatterTypeOK /\ DigitsPart /\ WrittenPart /\ BackPart
  BY DEF FormatterInv
<1>3. FormatterTypeOK' /\ DigitsPart' /\ WrittenPart' /\ PlainPart'
  BY <1>1, <1>2, TextUnchanged
<1>4. ppc' = "idle"
  BY <1>1, <1>2 DEF BackPart, tvars
<1>5. ScientificInv'
  <2>1. rep \in Seq(0..Letter) /\ Len(rep) <= PowLimit
    BY <1>1, TextReady
  <2>2. ScientificTypeOK'
    <3>1. whole' \in Seq(0..Letter) /\ Len(whole') <= PowLimit
      BY <1>1, <2>1
    <3>2. lossy' \in BOOLEAN /\ ret' \in Decimal /\ spc' = "visit"
      BY <1>1, ZeroType
    <3>3. due' \in 0..MAX_SCALE
      BY <1>1, ScaleAssumption
    <3>4. QED
      BY <3>1, <3>2, <3>3 DEF ScientificTypeOK
  <2>3. GivenPart'
    BY <1>1, <1>4 DEF GivenPart
  <2>4. ScientificRounded' /\ MultiplyPart'
    BY <1>1, ScientificWaits
  <2>5. QED
    BY <2>2, <2>3, <2>4 DEF ScientificInv
<1>6. OriginPart'
  BY <1>1 DEF OriginPart
<1>7. BackPart'
  BY <1>1, <1>5, <1>6 DEF BackPart
<1>8. QED
  BY <1>3, <1>7 DEF FormatterInv

LEMMA ReadStep == ASSUME FormatterInv, fpc = "reading", ScientificNext, UNCHANGED fvars PROVE FormatterInv'
<1>1. fpc' = "reading" /\ UNCHANGED <<shown, style, working, chars, rep, at>>
  BY DEF fvars
<1>2. FormatterTypeOK /\ DigitsPart /\ WrittenPart /\ BackPart
  BY DEF FormatterInv
<1>3. FormatterTypeOK' /\ DigitsPart' /\ WrittenPart' /\ PlainPart'
  BY <1>1, <1>2, TextUnchanged
<1>4. style.prec = Default /\ whole = rep /\ ~lossy /\ ScientificInv /\ OriginPart
  BY <1>2 DEF BackPart
<1>5. ScientificInv' /\ OriginPart'
  BY <1>4, ScientificKept, OriginKept
<1>6. whole' = whole /\ lossy' = lossy
  BY DEF ScientificNext, Visit, VisitReturn, VisitElse, Split, NoExponent, Reading, BaseFailed, NegativeExponent,
         WithinScale, BeyondScale, Multiply, StripZeros, svars
<1>7. BackPart'
  BY <1>1, <1>4, <1>5, <1>6 DEF BackPart
<1>8. QED
  BY <1>3, <1>7 DEF FormatterInv

\* A step of nobody.
LEMMA FormatterStays == ASSUME FormatterInv, UNCHANGED <<fvars, tvars, svars>> PROVE FormatterInv'
<1>1. /\ fpc' = fpc /\ UNCHANGED <<shown, style, working, chars, rep, at>>
      /\ UNCHANGED <<tvars, svars>> /\ ppc' = ppc /\ whole' = whole /\ lossy' = lossy /\ spc' = spc
  BY DEF fvars, tvars, svars
<1>2. FormatterTypeOK /\ DigitsPart /\ PlainPart /\ WrittenPart /\ BackPart
  BY DEF FormatterInv
<1>3. FormatterTypeOK' /\ DigitsPart'
  BY <1>1, <1>2 DEF FormatterTypeOK, DigitsPart
<1>4. PlainPart'
  BY <1>1, <1>2 DEF PlainPart, InFront, SignText, PointWritten, WholeLen, Positions, Places
<1>5. WrittenPart'
  BY <1>1, <1>2, TextUnchanged DEF WrittenPart
<1>6. ScientificInv => ScientificInv'
  BY <1>1, ScientificKept
<1>7. OriginPart => OriginPart'
  BY <1>1, BaseStays DEF OriginPart, svars
<1>8. BackPart'
  BY <1>1, <1>2, <1>6, <1>7 DEF BackPart
<1>9. QED
  BY <1>3, <1>4, <1>5, <1>8 DEF FormatterInv

\* Every step keeps the invariant.
LEMMA FormatterKept == FormatterInv /\ [FormatterNext]_<<fvars, tvars, svars>> => FormatterInv'
<1>1. ASSUME FormatterInv, FormatterNext PROVE FormatterInv'
  <2>1. CASE (TakeDigit \/ DigitsTaken \/ PadZero \/ Emit \/ PlainReturn \/ SciReturn) /\ UNCHANGED <<tvars, svars>>
    BY <1>1, <2>1, TakeDigitStep, DigitsTakenStep, PadZeroStep, EmitStep, PlainReturnStep, SciReturnStep
  <2>2. CASE ReadBack
    BY <1>1, <2>2, ReadBackStep
  <2>3. CASE fpc = "reading" /\ ScientificNext /\ UNCHANGED fvars
    BY <1>1, <2>3, ReadStep
  <2>4. QED
    BY <1>1, <2>1, <2>2, <2>3 DEF FormatterNext
<1>2. QED
  BY <1>1, FormatterStays

\* The texts written are understood as PlainText and SciText say, and what is read back is
\* in the states of the scientific parser, whatever the capacity of the buffer and the
\* number of places asked for.
THEOREM FormatterInvariant == FormatterSpec => []FormatterInv
  BY FormatterStarts, FormatterKept, PTL DEF FormatterSpec

\* Digits that the exponent says are missing behind the text, against places that are there.
LEMMA ExponentMakesUp ==
    ASSUME NEW v \in Nat, NEW z \in 0..MAX_SCALE, NEW s \in 0..MAX_SCALE
    PROVE  /\ s < z => (v * POWERS[z - s]) * POWERS[s] = (v * POWERS[z]) * POWERS[0]
           /\ s >= z => v * POWERS[s] = (v * POWERS[z]) * POWERS[s - z]
           /\ s <= z => v * POWERS[z - s] <= v * POWERS[z]
<1>1. MAX_SCALE \in Nat /\ PowLimit \in Nat /\ MAX_SCALE <= PowLimit /\ z \in 0..PowLimit /\ s \in 0..PowLimit
  BY ScaleAssumption
<1>2. POWERS[s] \in Nat /\ POWERS[z] \in Nat /\ POWERS[0] = 1
  BY <1>1, PowersType, PowersAssumption
<1>3. ASSUME s < z PROVE (v * POWERS[z - s]) * POWERS[s] = (v * POWERS[z]) * POWERS[0]
  <2>1. z - s \in 0..PowLimit /\ (z - s) + s = z
    BY <1>1, <1>3
  <2>2. POWERS[z] = POWERS[z - s] * POWERS[s] /\ POWERS[z - s] \in Nat
    BY <1>1, <2>1, PowersAdd, PowersType
  <2> DEFINE a == POWERS[z - s]
             b == POWERS[s]
             c == POWERS[z]
  <2>3. a \in Nat /\ b \in Nat /\ c \in Nat /\ c = a * b
    BY <1>2, <2>2
  <2> HIDE DEF a, b, c
  <2>4. (v * a) * b = v * c /\ v * c \in Int
    BY <2>3, MulAssoc
  <2>5. (v * c) * 1 = v * c
    <3> DEFINE x == v * c
    <3> HIDE DEF x
    <3>1. x \in Int
      BY <2>4 DEF x
    <3>2. x * 1 = x
      BY <3>1
    <3>3. QED
      BY <3>2 DEF x
  <2>6. QED
    BY <1>2, <2>4, <2>5 DEF a, b, c
<1>4. ASSUME s >= z PROVE v * POWERS[s] = (v * POWERS[z]) * POWERS[s - z]
  <2>1. s - z \in 0..PowLimit /\ z + (s - z) = s
    BY <1>1, <1>4
  <2>2. POWERS[s] = POWERS[z] * POWERS[s - z] /\ POWERS[s - z] \in Nat
    BY <1>1, <2>1, PowersAdd, PowersType
  <2> DEFINE a == POWERS[s - z]
             b == POWERS[s]
             c == POWERS[z]
  <2>3. a \in Nat /\ b \in Nat /\ c \in Nat /\ b = c * a
    BY <1>2, <2>2
  <2> HIDE DEF a, b, c
  <2>4. (v * c) * a = v * b
    BY <2>3, MulAssoc
  <2>5. QED
    BY <2>4 DEF a, b, c
<1>5. ASSUME s <= z PROVE v * POWERS[z - s] <= v * POWERS[z]
  <2>1. z - s \in 0..PowLimit /\ z - s <= z
    BY <1>1, <1>5
  <2>2. POWERS[z - s] <= POWERS[z] /\ POWERS[z - s] \in Nat
    BY <1>1, <2>1, PowersMono, PowersType
  <2> DEFINE a == POWERS[z - s]
             c == POWERS[z]
  <2>3. a \in Nat /\ c \in Nat /\ a <= c
    BY <1>2, <2>2
  <2> HIDE DEF a, c
  <2>4. a * v <= c * v /\ a * v = v * a /\ c * v = v * c
    BY <2>3, MulMono, MulAssoc
  <2>5. QED
    BY <2>4 DEF a, c
<1>6. QED
  BY <1>3, <1>4, <1>5

\* What is written says the number.
LEMMA WrittenSays ==
    ASSUME FormatterInv
    PROVE  /\ fpc = "written" /\ ~style.sci =>
                /\ WellFormed(rep)
                /\ Fraction(rep) = Places + Additional
                /\ Numeral(rep) = CutAt(shown, Places) * POWERS[Additional]
           /\ fpc = "written" /\ style.sci /\ style.prec # Default /\ shown.m # 0 =>
                /\ Fraction(BasePart(rep)) = style.prec
                /\ Numeral(BasePart(rep)) = CutAt([m |-> shown.m, s |-> Len(chars) - 1], style.prec)
<1>1. FormatterTypeOK /\ DigitsPart /\ WrittenPart
  BY DEF FormatterInv
<1>2. shown.neg \in BOOLEAN
  BY <1>1, FormatterFacts, Zenon
<1>3. ASSUME fpc = "written", ~style.sci
      PROVE  /\ WellFormed(rep)
             /\ Fraction(rep) = Places + Additional
             /\ Numeral(rep) = CutAt(shown, Places) * POWERS[Additional]
  <2>1. PICK point \in BOOLEAN :
            Spells(rep, shown.neg, TRUE, point, CutAt(shown, Places) * POWERS[Additional], Places + Additional)
    BY <1>1, <1>3 DEF WrittenPart, PlainText
  <2> DEFINE v == CutAt(shown, Places) * POWERS[Additional]
             f == Places + Additional
  <2>2. Spells(rep, shown.neg, TRUE, point, v, f)
    BY <2>1
  <2> HIDE DEF v, f
  <2>3. Numeral(rep) = v /\ Fraction(rep) = f /\ (WellFormed(rep) <=> TRUE)
    BY <1>2, <2>2, SpellsFacts, TRUE \in BOOLEAN, Zenon
  <2>4. QED
    BY <2>3 DEF v, f
<1>4. ASSUME fpc = "written", style.sci, style.prec # Default, shown.m # 0
      PROVE  /\ Fraction(BasePart(rep)) = style.prec
             /\ Numeral(BasePart(rep)) = CutAt([m |-> shown.m, s |-> Len(chars) - 1], style.prec)
  <2> DEFINE e == ExponentText(SciExponent < 0, Magnitude)
             d == [m |-> shown.m, s |-> Len(chars) - 1]
             has == shown.m # 0
  <2>1. PICK t \in Seq(0..Letter), point \in BOOLEAN, v \in Nat, f \in Nat :
            rep = (t \o <<Exponent>>) \o e /\ Spells(t, shown.neg, has, point, v, f) /\ v = CutAt(d, style.prec) /\ f = style.prec
    BY <1>1, <1>4 DEF WrittenPart, SciText
  <2>2. e \in Seq(0..Letter)
    <3>1. Magnitude \in 0..MAX_SCALE /\ (SciExponent < 0) \in BOOLEAN
      BY <1>1, ExponentRange
    <3>2. QED
      BY <3>1, ExponentSpelled
  <2>3. has \in BOOLEAN
    OBVIOUS
  <2> HIDE DEF e, d, has
  <2>4. Numeral(t) = v /\ Fraction(t) = f /\ \A i \in 1..Len(t) : t[i] # Exponent
    <3>1. Spells(t, shown.neg, has, point, v, f)
      BY <2>1
    <3>2. QED
      BY <1>2, <2>3, <3>1, SpellsFacts, ZenonT(60)
  <2>5. BasePart(rep) = t
    BY <2>1, <2>2, <2>4, ExponentFound
  <2>6. QED
    BY <2>1, <2>4, <2>5 DEF d
<1>5. QED
  BY <1>3, <1>4

\* The plain form comes back as the very same decimal.
LEMMA PlainReadBack ==
    ASSUME FormatterInv, fpc = "reading", ~style.sci
    PROVE  /\ spc = "done" => ret = FromParts(shown.m, shown.neg, shown.s)
           /\ spc \notin {"exceeds", "scale_exceeds", "failed"}
<1>1. FormatterTypeOK /\ WrittenPart /\ style.prec = Default /\ whole = rep /\ ScientificInv /\ OriginPart
  BY DEF FormatterInv, BackPart
<1>2. /\ shown.neg \in BOOLEAN /\ shown.m \in Nat /\ shown.m <= Max96 /\ shown.s \in 0..MAX_SCALE /\ shown.s \in Nat
      /\ Places = shown.s /\ Additional = 0
  <2>1. FormatterTypeOK /\ style.prec = Default
    BY <1>1
  <2>2. QED
    BY <2>1, FormatterFacts, Zenon
<1> DEFINE m == shown.m
           s == shown.s
           neg == shown.neg
<1>3. PICK point \in BOOLEAN : Spells(whole, neg, TRUE, point, m, s)
  <2>1. PICK point \in BOOLEAN :
            Spells(rep, shown.neg, TRUE, point, CutAt(shown, Places) * POWERS[Additional], Places + Additional)
    BY <1>1 DEF WrittenPart, PlainText
  <2>2. CutAt(shown, Places) * POWERS[Additional] = m
    <3>1. CutAt(shown, Places) = m * POWERS[s - s]
      BY <1>2 DEF CutAt
    <3> HIDE DEF m, s
    <3>2. s - s = 0 /\ POWERS[0] = 1 /\ m * 1 = m
      BY <1>2, PowersAssumption DEF m, s
    <3>3. QED
      BY <1>2, <3>1, <3>2
  <2>3. Places + Additional = s
    BY <1>2
  <2>4. QED
    BY <1>1, <2>1, <2>2, <2>3
<1> HIDE DEF m, s, neg
<1>4. m \in Nat /\ m <= Max96 /\ s \in 0..MAX_SCALE /\ neg \in BOOLEAN
  BY <1>2 DEF m, s, neg
<1>5. ExponentsIn(whole) = {}
  <2>1. whole \in Seq(0..Letter) /\ \A i \in 1..Len(whole) : whole[i] # Exponent
    BY <1>3, <1>4, SpellsFacts, TRUE \in BOOLEAN, Zenon
  <2>2. QED
    BY <2>1 DEF ExponentsIn
<1>6. ~FromBase
  BY <1>5 DEF FromBase
<1>7. ASSUME text = whole, seen.round, ppc = "parsed" \/ ppc \in Failed
      PROVE  ppc \notin Failed /\ parsed = FromParts(m, neg, s)
  <2>1. ppc # "idle"
    BY <1>7 DEF Failed
  <2>2. ParserInv
    BY <1>1, <2>1 DEF ScientificInv, GivenPart
  <2>3. ppc \notin Failed /\ (ppc = "parsed" => parsed = FromParts(m, neg, s))
    <3>1. Spells(text, neg, TRUE, point, m, s)
      BY <1>3, <1>7
    <3>2. QED
      BY <1>4, <1>7, <2>2, <3>1, ReadExactly
  <2>4. QED
    BY <1>7, <2>3
<1>8. spc = "done" => ret = FromParts(m, neg, s)
  BY <1>1, <1>6, <1>7 DEF OriginPart
<1>9. spc \notin {"exceeds", "scale_exceeds"}
  BY <1>1, <1>6 DEF OriginPart
<1>10. spc # "failed"
  BY <1>1, <1>6, <1>7 DEF OriginPart
<1>11. QED
  BY <1>8, <1>9, <1>10 DEF m, s, neg

\* What the reader of the scientific form has: the digits in front of the exponent, and the
\* exponent, which says how many of them are not behind the point.
SciRead(t, point, v, f) ==
    /\ t \in Seq(0..Letter) /\ point \in BOOLEAN /\ v \in Nat /\ v <= Max96 /\ f \in 0..MAX_SCALE
    /\ Spells(t, shown.neg, shown.m # 0, point, v, f)
    /\ ExponentsIn(whole) # {} /\ BasePart(whole) = t
    /\ (Negative(Part) <=> SciExponent < 0) /\ IsU32(Unsigned(Part)) /\ Size = Magnitude
    /\ IF shown.m = 0 THEN Len(t) <= 1
       ELSE Len(chars) >= 1 /\ f <= Len(chars) - 1 /\ v * POWERS[(Len(chars) - 1) - f] = shown.m
    /\ ParserInv /\ text = whole => ppc # "parsed"

\* They are found in the text by the reader.
LEMMA SciReadFacts ==
    ASSUME FormatterInv, fpc = "reading", style.sci
    PROVE  \E t, point, v, f : SciRead(t, point, v, f)
<1>1. FormatterTypeOK /\ DigitsPart /\ WrittenPart /\ style.prec = Default /\ whole = rep
  BY DEF FormatterInv, BackPart
<1>2. /\ shown.neg \in BOOLEAN /\ shown.m \in Nat /\ shown.m <= Max96 /\ MAX_SCALE \in Nat /\ Max96 \in Nat
  <2>1. shown.neg \in BOOLEAN /\ shown.m \in Nat /\ shown.m <= Max96 /\ MAX_SCALE \in Nat
    BY <1>1, FormatterFacts, Zenon
  <2>2. QED
    BY <2>1, BaseType
<1> DEFINE e == ExponentText(SciExponent < 0, Magnitude)
           has == shown.m # 0
           n == Len(chars)
<1>3. PICK t \in Seq(0..Letter), point \in BOOLEAN, v \in Nat, f \in Nat :
          /\ rep = (t \o <<Exponent>>) \o e
          /\ Spells(t, shown.neg, has, point, v, f)
          /\ v <= shown.m /\ f <= MAX_SCALE
          /\ IF shown.m = 0 THEN Len(t) <= 1 ELSE f <= n - 1 /\ v * POWERS[(n - 1) - f] = shown.m
  BY <1>1 DEF WrittenPart, SciText
<1>4. /\ e \in Seq(0..Letter) /\ \A i \in 1..Len(e) : e[i] # Underscore
      /\ Numeral(e) = Magnitude /\ (Negative(e) <=> SciExponent < 0) /\ IsU32(Unsigned(e))
  <2>1. Magnitude \in 0..MAX_SCALE /\ (SciExponent < 0) \in BOOLEAN
    BY <1>1, ExponentRange
  <2>2. QED
    BY <2>1, ExponentSpelled
<1>5. has \in BOOLEAN
  OBVIOUS
<1> HIDE DEF e, has
<1>6. v \in Nat /\ v <= Max96 /\ f \in 0..MAX_SCALE
  BY <1>2, <1>3
<1>7. Spells(t, shown.neg, has, point, v, f)
  BY <1>3
<1>8. \A i \in 1..Len(t) : t[i] # Exponent
  BY <1>2, <1>5, <1>7, SpellsFacts, Zenon
<1>9. whole = (t \o <<Exponent>>) \o e
  BY <1>1, <1>3
<1>10. ExponentsIn(whole) # {} /\ BasePart(whole) = t /\ Part = e
  BY <1>4, <1>8, <1>9, ExponentFound DEF Part
<1>11. (Negative(Part) <=> SciExponent < 0) /\ IsU32(Unsigned(Part)) /\ Size = Magnitude
  BY <1>4, <1>10 DEF Size
<1>12. ParserInv /\ text = whole => ppc # "parsed"
  <2>1. SUFFICES ASSUME ParserInv, text = whole PROVE ppc # "parsed"
    OBVIOUS
  <2>2. text = (t \o <<Exponent>>) \o e
    BY <1>9, <2>1
  <2>3. QED
    BY <1>2, <1>4, <1>5, <1>6, <1>7, <2>1, <2>2, ExponentRefused
<1>13. IF shown.m = 0 THEN Len(t) <= 1 ELSE n >= 1 /\ f <= n - 1 /\ v * POWERS[(n - 1) - f] = shown.m
  <2>1. n \in Nat
    BY <1>1 DEF FormatterTypeOK
  <2>2. (IF shown.m = 0 THEN Len(t) <= 1 ELSE f <= n - 1 /\ v * POWERS[(n - 1) - f] = shown.m)
    BY <1>3
  <2> HIDE DEF n
  <2>3. f <= n - 1 => n >= 1
    BY <1>6, <2>1
  <2>4. QED
    BY <2>2, <2>3
<1>14. SciRead(t, point, v, f)
  <2>1. Spells(t, shown.neg, shown.m # 0, point, v, f)
    BY <1>7 DEF has
  <2>2. QED
    BY <1>6, <1>10, <1>11, <1>12, <1>13, <2>1 DEF SciRead
<1>15. QED
  BY <1>14

\* A zero has no digit in front of the exponent, and is refused.
LEMMA ZeroReadBack ==
    ASSUME FormatterInv, fpc = "reading", style.sci, shown.m = 0
    PROVE  spc \notin {"done", "exceeds", "scale_exceeds"}
<1>1. FormatterTypeOK /\ ScientificInv /\ OriginPart
  BY DEF FormatterInv, BackPart
<1>2. shown.neg \in BOOLEAN
  BY <1>1, FormatterFacts, Zenon
<1>3. PICK t, point, v, f : SciRead(t, point, v, f)
  BY SciReadFacts
<1>4. /\ t \in Seq(0..Letter) /\ point \in BOOLEAN /\ Len(t) <= 1
      /\ BasePart(whole) = t /\ (ParserInv /\ text = whole => ppc # "parsed")
  BY <1>3 DEF SciRead
<1>5. Spells(t, shown.neg, FALSE, point, v, f)
  <2>1. (shown.m # 0) = FALSE
    OBVIOUS
  <2>2. Spells(t, shown.neg, shown.m # 0, point, v, f)
    BY <1>3 DEF SciRead
  <2>3. QED
    BY <2>1, <2>2
<1>6. ~WellFormed(t)
  <2>1. WellFormed(t) <=> FALSE
    BY <1>2, <1>4, <1>5, SpellsFacts, FALSE \in BOOLEAN, Zenon
  <2>2. QED
    BY <2>1
<1>7. ppc = "parsed" => ParserInv
  BY <1>1 DEF ScientificInv, GivenPart
<1>8. text = t => ppc # "parsed"
  <2>1. SUFFICES ASSUME text = t, ppc = "parsed" PROVE FALSE
    OBVIOUS
  <2>2. ~WellFormed(text) /\ Len(text) <= 1 /\ Len(text) \in Nat
    BY <1>4, <1>6, <2>1
  <2>3. 1..(Len(text) - 1) = {}
    <3> DEFINE l == Len(text)
    <3>1. l \in Nat /\ l <= 1
      BY <2>2
    <3> HIDE DEF l
    <3>2. 1..(l - 1) = {}
      BY <3>1
    <3>3. QED
      BY <3>2 DEF l
  <2>4. ParsedRounded
    BY <1>7, <2>1 DEF ParserInv
  <2>5. QED
    BY <2>1, <2>2, <2>3, <2>4 DEF ParsedRounded
<1>9. ~(ppc = "parsed" /\ text = whole)
  BY <1>4, <1>7
<1>10. ~(ppc = "parsed" /\ FromBase)
  BY <1>4, <1>8 DEF FromBase
<1>11. QED
  BY <1>1, <1>9, <1>10 DEF OriginPart

\* Any other number comes back, with the scale the exponent leaves it.
LEMMA NumberReadBack ==
    ASSUME FormatterInv, fpc = "reading", style.sci, shown.m # 0
    PROVE  /\ spc = "done" => SameNumber(ret, shown)
           /\ spc \notin {"exceeds", "scale_exceeds", "failed"}
<1> DEFINE m == shown.m
           S == shown.s
           n == Len(chars)
           E == SciExponent
<1>1. FormatterTypeOK /\ DigitsPart /\ ScientificInv /\ OriginPart /\ lossy = FALSE
  BY DEF FormatterInv, BackPart, ScientificInv, ScientificTypeOK
<1>2. /\ shown.neg \in BOOLEAN /\ m \in Nat /\ m <= Max96 /\ S \in 0..MAX_SCALE
      /\ MAX_SCALE \in Nat /\ PowLimit \in Nat /\ MAX_SCALE <= PowLimit /\ Max96 \in Nat
  <2>1. shown.neg \in BOOLEAN /\ m \in Nat /\ m <= Max96 /\ S \in 0..MAX_SCALE
    BY <1>1, FormatterFacts, Zenon
  <2>2. QED
    BY <2>1, ScaleAssumption, BaseType
<1>3. PICK t, point, v, f : SciRead(t, point, v, f)
  BY SciReadFacts
<1> DEFINE z == (n - 1) - f
<1>4. /\ t \in Seq(0..Letter) /\ point \in BOOLEAN /\ v \in Nat /\ v <= Max96 /\ f \in 0..MAX_SCALE
      /\ ExponentsIn(whole) # {} /\ BasePart(whole) = t
      /\ (Negative(Part) <=> E < 0) /\ IsU32(Unsigned(Part)) /\ Size = Magnitude
      /\ n >= 1 /\ f <= n - 1 /\ v * POWERS[z] = m
      /\ (ParserInv /\ text = whole => ppc # "parsed")
  BY <1>3 DEF SciRead
<1>5. Spells(t, shown.neg, TRUE, point, v, f)
  <2>1. (shown.m # 0) = TRUE
    OBVIOUS
  <2>2. Spells(t, shown.neg, shown.m # 0, point, v, f)
    BY <1>3 DEF SciRead
  <2>3. QED
    BY <2>1, <2>2
<1>6. n \in Nat /\ n <= MAX_SCALE + 1 /\ E = (n - 1) - S /\ Magnitude \in 0..MAX_SCALE /\ Magnitude = IF E < 0 THEN -E ELSE E
  <2>1. n \in Nat /\ n <= MAX_SCALE + 1
    BY <1>1 DEF FormatterTypeOK, DigitsPart
  <2>2. E = (n - 1) - S /\ Magnitude \in 0..MAX_SCALE
    BY <1>1, <1>4, ExponentRange
  <2>3. QED
    BY <2>1, <2>2 DEF Magnitude
<1> HIDE DEF n, E
<1>7. z \in 0..MAX_SCALE /\ f - E = S - z /\ S - z <= MAX_SCALE
  BY <1>2, <1>4, <1>6, SMTT(30)
<1>8. (E < 0 => f + Magnitude = S - z) /\ (~(E < 0) => f - Magnitude = S - z)
  BY <1>2, <1>4, <1>6
<1>9. v # 0
  <2>1. SUFFICES ASSUME v = 0 PROVE m = 0
    OBVIOUS
  <2>2. z \in 0..PowLimit
    BY <1>2, <1>7
  <2>3. POWERS[z] \in Nat
    BY <2>2, PowersType
  <2> DEFINE p == POWERS[z]
  <2> HIDE DEF p
  <2>4. 0 * p = 0
    BY <2>3 DEF p
  <2>5. v * p = m
    BY <1>4 DEF p
  <2>6. QED
    BY <2>1, <2>4, <2>5
<1>10. ASSUME FromBase, ppc = "parsed" \/ ppc \in Failed
       PROVE  ppc \notin Failed /\ parsed = [neg |-> shown.neg, m |-> v, s |-> f] /\ text # whole
  <2>1. ppc # "idle"
    BY <1>10 DEF Failed
  <2>2. ParserInv
    BY <1>1, <2>1 DEF ScientificInv, GivenPart
  <2>3. text = t /\ seen.round
    BY <1>4, <1>10 DEF FromBase
  <2>4. Spells(text, shown.neg, TRUE, point, v, f)
    BY <1>5, <2>3
  <2>5. ppc \notin Failed /\ (ppc = "parsed" => parsed = FromParts(v, shown.neg, f))
    BY <1>2, <1>4, <2>2, <2>3, <2>4, ReadExactly
  <2>6. FromParts(v, shown.neg, f) = [neg |-> shown.neg, m |-> v, s |-> f]
    BY <1>2, <1>9 DEF FromParts
  <2>7. QED
    BY <1>4, <1>10, <2>2, <2>5, <2>6
<1>11. ~(text = whole /\ ppc = "parsed")
  <2>1. ppc = "parsed" => ParserInv
    BY <1>1 DEF ScientificInv, GivenPart
  <2>2. QED
    BY <1>4, <2>1
<1>12. spc # "failed"
  BY <1>1, <1>4, <1>10 DEF OriginPart
<1>13. spc # "exceeds"
  <2>1. SUFFICES ASSUME spc = "exceeds" PROVE FALSE
    OBVIOUS
  <2>2. FromBase /\ ppc = "parsed" /\ ~Negative(Part) /\ parsed.s < Size
    BY <1>1, <2>1 DEF OriginPart
  <2>3. parsed.m = v /\ parsed.s = f
    BY <1>10, <2>2
  <2>4. v * POWERS[Size - f] > Max96
    BY <1>1, <2>1, <2>3 DEF ScientificInv, ScientificRounded
  <2>5. Size - f = z - S /\ S <= z
    BY <1>2, <1>4, <1>6, <1>7, <1>8, <2>2, <2>3
  <2> HIDE DEF z, m, S
  <2>6. v * POWERS[z - S] <= v * POWERS[z]
    BY <1>2, <1>4, <1>7, <2>5, ExponentMakesUp
  <2> DEFINE x == v * POWERS[z - S]
  <2>7. x > Max96 /\ x <= m
    BY <1>4, <2>4, <2>5, <2>6
  <2>8. x \in Int
    <3>1. z - S \in 0..PowLimit
      BY <1>2, <1>7, <2>5
    <3>2. POWERS[z - S] \in Nat
      BY <3>1, PowersType
    <3>3. QED
      BY <1>4, <3>2, MulAssoc
  <2> HIDE DEF x
  <2>9. QED
    BY <1>2, <2>7, <2>8
<1>14. spc # "scale_exceeds"
  <2>1. SUFFICES ASSUME spc = "scale_exceeds" PROVE FALSE
    OBVIOUS
  <2>2. FromBase /\ ppc = "parsed"
    BY <1>1, <2>1 DEF OriginPart
  <2>3. parsed.s = f
    BY <1>10, <2>2
  <2>4. Size > MAX_SCALE \/ (Negative(Part) /\ f + Size > MAX_SCALE)
    BY <1>1, <2>1, <2>3 DEF ScientificInv, ScientificRounded
  <2> HIDE DEF z, m, S
  <2>5. QED
    BY <1>2, <1>4, <1>6, <1>7, <1>8, <2>4
<1>15. ASSUME spc = "done" PROVE SameNumber(ret, shown)
  <2>1. FromBase /\ ppc = "parsed"
    BY <1>1, <1>11, <1>15 DEF OriginPart
  <2>2. parsed.m = v /\ parsed.s = f /\ parsed.neg = shown.neg /\ text # whole
    BY <1>10, <2>1
  <2> DEFINE s == IF Negative(Part) THEN parsed.s + Size ELSE parsed.s - Size
  <2>3. s = S - z
    BY <1>4, <1>8, <2>2
  <2>4. /\ ret.m # 0 => ret.neg = shown.neg
        /\ IF s < 0 THEN ret.m = v * POWERS[-s] /\ ret.s = 0
           ELSE IF s <= MAX_SCALE THEN ret.m = v /\ ret.s = s
           ELSE lossy /\ ret.m = HalfUp(v, POWERS[s - MAX_SCALE]) /\ ret.s = MAX_SCALE
    BY <1>1, <1>15, <2>1, <2>2 DEF ScientificInv, ScientificRounded
  <2> HIDE DEF s, z, m, S
  <2>5. ret.m * POWERS[S] = m * POWERS[ret.s]
    <3>1. CASE s < 0
      <4>1. S < z /\ -s = z - S
        BY <1>2, <1>7, <2>3, <3>1
      <4>2. ret.m = v * POWERS[z - S] /\ ret.s = 0
        BY <2>4, <3>1, <4>1
      <4>3. (v * POWERS[z - S]) * POWERS[S] = (v * POWERS[z]) * POWERS[0]
        BY <1>2, <1>4, <1>7, <4>1, ExponentMakesUp
      <4>4. QED
        BY <1>4, <4>2, <4>3
    <3>2. CASE ~(s < 0)
      <4>1. S >= z /\ s <= MAX_SCALE
        BY <1>2, <1>7, <2>3, <3>2
      <4>2. ret.m = v /\ ret.s = S - z
        BY <2>3, <2>4, <3>2, <4>1
      <4>3. v * POWERS[S] = (v * POWERS[z]) * POWERS[S - z]
        BY <1>2, <1>4, <1>7, <4>1, ExponentMakesUp
      <4>4. QED
        BY <1>4, <4>2, <4>3
    <3>3. QED
      BY <3>1, <3>2
  <2>6. QED
    BY <2>4, <2>5 DEF SameNumber, S, m
<1>16. QED
  BY <1>12, <1>13, <1>14, <1>15

\* The invariant implies the property.
LEMMA FormatterInvParses == ASSUME FormatterInv PROVE FormatParses
<1>1. style.prec = Default => fpc # "panicked"
  BY DEF FormatterInv, BackPart
<1>2. /\ fpc = "written" /\ ~style.sci =>
            /\ WellFormed(rep)
            /\ Fraction(rep) = Places + Additional
            /\ Numeral(rep) = CutAt(shown, Places) * POWERS[Additional]
      /\ fpc = "written" /\ style.sci /\ style.prec # Default /\ shown.m # 0 =>
            /\ Fraction(BasePart(rep)) = style.prec
            /\ Numeral(BasePart(rep)) = CutAt([m |-> shown.m, s |-> Len(chars) - 1], style.prec)
  BY WrittenSays
<1>3. fpc = "reading" /\ spc = "done" =>
        IF style.sci THEN SameNumber(ret, shown) ELSE ret = FromParts(shown.m, shown.neg, shown.s)
  BY PlainReadBack, ZeroReadBack, NumberReadBack
<1>4. fpc = "reading" => spc \notin {"exceeds", "scale_exceeds"}
  BY PlainReadBack, ZeroReadBack, NumberReadBack
<1>5. fpc = "reading" /\ spc = "failed" => style.sci /\ shown.m = 0
  BY PlainReadBack, NumberReadBack
<1>6. QED
  BY <1>1, <1>2, <1>3, <1>4, <1>5 DEF FormatParses

\* FormatParses for every decimal and every precision.
THEOREM TextsReadBack == FormatterSpec => []FormatParses
<1>1. FormatterInv => FormatParses
  BY FormatterInvParses
<1>2. QED
  BY <1>1, FormatterInvariant, PTL

=============================================================================
