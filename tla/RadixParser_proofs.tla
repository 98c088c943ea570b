-------------------------- MODULE RadixParser_proofs --------------------------
(***************************************************************************)
(* parse_str_radix_n reads what it is given, for every radix it knows and  *)
(* every text (RadixInv).  Until they are all there, the digits collected  *)
(* are those of a prefix of the text (IsRead), and the point is where it   *)
(* has been read (DotRead); the digit behind them may have rounded the     *)
(* last one up (RoundedUp), or, above ten, all of them to 1 and zeros      *)
(* (CarriedOver).  What has been multiplied in is the value of the first   *)
(* of them; the value of a prefix, and one unit more, bound the value of   *)
(* the text in its own place (ValueWithin), which is how close the number  *)
(* is.  The powers of a radix are no table of the model, so what they are  *)
(* is shown here first.                                                    *)
(***************************************************************************)
EXTENDS RadixParser, DecimalLemmas, SequenceTheorems

\* How much of the body has been read, and what a coefficient amounts to.
RRead    == Len(RBody) - Len(unread)
CValue   == ValueTo(coeff, Nat, radix)
RRunning == {"collect", "round", "scale", "build"}

RTypeOK ==
    /\ radix \in Nat /\ spelling \in Seq(0..ROther) /\ unread \in Seq(0..ROther) /\ negative \in BOOLEAN
    /\ beforeDot \in Nat \union {-1} /\ coeff \in Seq(Nat)
    /\ mantissa \in Mantissa /\ index \in 0..Len(coeff) /\ rscale \in Nat /\ number \in Decimal
    /\ rpc \in RRunning \union {"idle", "sign", "refused", "overflow", "panicked", "number"}

\* Nothing has been multiplied in before the digits are all there.
RSignPart ==
    /\ rpc = "sign" => unread = spelling /\ coeff = <<>> /\ beforeDot = -1
    /\ rpc \in {"sign", "collect", "round", "scale"} => mantissa = 0 /\ index = 0 /\ rscale = 0

\* What has been read is well formed.
RReadPart ==
    rpc \in RRunning =>
        /\ radix \in DOMAIN EstimatedPrecision
        /\ spelling # <<>> /\ negative = (spelling[1] = RMinus)
        /\ Len(unread) <= Len(RBody) /\ unread = SubSeq(RBody, RRead + 1, Len(RBody))
        /\ Len(coeff) = RCount[RRead]
        /\ \A i \in 1..RRead : /\ RBody[i] \in 0..(radix - 1) \union {RPoint, RUnderscore}
                               /\ RBody[i] = RUnderscore => RCount[i] > 0
        /\ rpc = "round" => Len(coeff) = EstimatedPrecision[radix] + 1
        /\ rpc \in {"scale", "build"} => unread = <<>> \/ Len(coeff) = EstimatedPrecision[radix] + 1

\* The point is where it has been read.
DotRead ==
    \/ beforeDot = -1 /\ \A i \in 1..RRead : RBody[i] # RPoint
    \/ \E j \in 1..RRead :
        /\ RBody[j] = RPoint /\ beforeDot = RCount[j]
        /\ \A i \in 1..RRead : RBody[i] = RPoint => i = j

\* The first i digits of the coefficient are those of the text.
IsRead(i) == \E j \in 0..RRead : RCount[j] = i /\ RValue[j] = CValue[i]

RCollectPart ==
    rpc \in {"collect", "round"} =>
        /\ DotRead
        /\ \A i \in 1..Len(coeff) : coeff[i] \in 0..(radix - 1)
        /\ \A i \in 0..Len(coeff) : IsRead(i)
        /\ rpc = "collect" => Len(coeff) <= EstimatedPrecision[radix]
        /\ rpc = "round" => beforeDot < Len(coeff)

\* In a radix below ten a coefficient is rounded in its last digit alone, by the digit behind it.
RoundedUp == /\ unread # <<>> /\ Head(unread) \in 1..(radix - 1)
             /\ CValue[Len(coeff)] = RValue[RRead] + 1
             /\ coeff[Len(coeff)] \in 1..radix

RValuePart ==
    rpc \in {"scale", "build"} /\ radix < Ten =>
        /\ DotRead
        /\ \A i \in 0..(Len(coeff) - 1) : IsRead(i)
        /\ \A i \in 1..(Len(coeff) - 1) : coeff[i] \in 0..(radix - 1)
        /\ \/ RoundedUp
           \/ IsRead(Len(coeff)) /\ (coeff # <<>> => coeff[Len(coeff)] \in 0..(radix - 1))

\* In any other it may have carried over to 1 and zeros.
CarriedOver ==
    /\ radix > Ten /\ Len(coeff) = EstimatedPrecision[radix] + 1
    /\ \A i \in 1..Len(coeff) : coeff[i] = IF i = 1 THEN 1 ELSE 0

\* The places are those behind the point.
RScalePart ==
    /\ rpc = "scale" =>
        /\ beforeDot <= Len(coeff)
        /\ (beforeDot >= 0 => Len(coeff) - beforeDot <= RFraction) \/ (CarriedOver /\ beforeDot = 0)
    /\ rpc = "build" =>
        /\ coeff # <<>>
        /\ rscale <= RFraction \/ rscale <= MAX_SCALE
           \/ (CarriedOver /\ index < Len(coeff) /\ rscale <= Len(coeff))

\* What has been multiplied in.
RBuildPart ==
    rpc = "build" =>
        /\ index < Len(coeff) =>
            /\ mantissa = CValue[index]
            /\ rscale = IF beforeDot >= 0 THEN Len(coeff) - beforeDot ELSE 0
        /\ index = Len(coeff) /\ radix < Ten /\ RWellFormed /\ ~IntegralCut => DigitsKept(mantissa, rscale)

RadixInv == RTypeOK /\ RSignPart /\ RReadPart /\ RCollectPart /\ RValuePart /\ RScalePart /\ RBuildPart /\ RadixDigitsKept

-----------------------------------------------------------------------------
(***************************************************************************)
(* Powers of a radix, and how the digits of a text bound its value.        *)
(***************************************************************************)
\* The powers of a radix, one after the other.
LEMMA RPowersSteps ==
    ASSUME NEW r \in Nat, NEW N \in Nat
    PROVE  /\ RPowers(r, N) \in [0..N -> Nat] /\ RPowers(r, N)[0] = 1
           /\ \A i \in 1..N : RPowers(r, N)[i] = RPowers(r, N)[i - 1] * r
<1> DEFINE step == [p \in Nat \X Nat |-> p[2] * r]
<1>1. step \in [Nat \X Nat -> Nat]
  BY \A u, v \in Nat : u * v \in Nat
<1>2. PICK f : Recurs(f, N, 1, step)
  <2> HIDE DEF step
  <2>1. QED
    BY <1>1, RecursionExists, 1 \in Nat
<1>3. \A i \in 1..N : f[i] = f[i - 1] * r
  <2>1. \A i \in 1..N : <<i, f[i - 1]>> \in Nat \X Nat
    BY <1>2 DEF Recurs
  <2>2. QED
    BY <1>2, <2>1 DEF Recurs
<1> DEFINE body(h) == [i \in 0..N |-> IF i = 0 THEN 1 ELSE h[i - 1] * r]
<1>4. f = body(f)
  <2>1. \A i \in 0..N : i # 0 => i \in 1..N
    OBVIOUS
  <2>2. \A i \in 0..N : f[i] = body(f)[i]
    BY <1>2, <1>3, <2>1 DEF Recurs
  <2>3. f \in [0..N -> Nat]
    BY <1>2 DEF Recurs
  <2>4. QED
    BY <2>2, <2>3
<1> DEFINE h == RPowers(r, N)
<1>5. h = body(h)
  BY <1>4 DEF RPowers
<1> HIDE DEF h
<1>6. h[0] = 1 /\ \A i \in 1..N : h[i] = h[i - 1] * r
  BY <1>5
<1> DEFINE T == {i \in 0..N : h[i] \in Nat}
<1>7. \A i \in 0..N : i \in T
  <2>1. 0 \in T
    BY <1>6
  <2>2. ASSUME NEW i \in 1..N, i - 1 \in T PROVE i \in T
    <3>1. h[i - 1] \in Nat /\ h[i - 1] * r \in Nat
      BY <2>2, \A u, v \in Nat : u * v \in Nat
    <3>2. QED
      BY <1>6, <3>1
  <2> HIDE DEF T
  <2>3. QED
    BY <2>1, <2>2, RangeInduction
<1>8. h \in [0..N -> Nat]
  BY <1>5, <1>7
<1>9. QED
  BY <1>6, <1>8 DEF h

\* They do not depend on how far they go.
LEMMA RPowersSame ==
    ASSUME NEW r \in Nat, NEW N \in Nat, NEW k \in 0..N
    PROVE  RPowers(r, N)[k] = RPower(r, k)
<1> DEFINE f == RPowers(r, N)
           g == RPowers(r, k)
<1>0. k \in Nat /\ 1..k \subseteq 1..N /\ k \in 0..k
  OBVIOUS
<1>1. f[0] = 1 /\ (\A i \in 1..k : f[i] = f[i - 1] * r) /\ g[0] = 1 /\ \A i \in 1..k : g[i] = g[i - 1] * r
  BY <1>0, RPowersSteps
<1> HIDE DEF f, g
<1> DEFINE T == {i \in 0..k : f[i] = g[i]}
<1>2. \A i \in 0..k : i \in T
  <2>1. 0 \in T
    BY <1>0, <1>1
  <2>2. ASSUME NEW i \in 1..k, i - 1 \in T PROVE i \in T
    BY <1>1, <2>2
  <2> HIDE DEF T
  <2>3. QED
    BY <1>0, <2>1, <2>2, RangeInduction
<1>3. QED
  BY <1>0, <1>2 DEF f, g, RPower

\* The powers of a radix: the first, the next, and none of them is zero.
LEMMA RPowerNext ==
    ASSUME NEW r \in Nat \ {0}, NEW k \in Nat
    PROVE  /\ RPower(r, 0) = 1 /\ RPower(r, k) \in Nat /\ RPower(r, k) >= 1
           /\ RPower(r, k + 1) = RPower(r, k) * r
<1> DEFINE p == RPowers(r, k + 1)
<1>1. p[0] = 1 /\ (\A i \in 1..(k + 1) : p[i] = p[i - 1] * r) /\ p \in [0..(k + 1) -> Nat]
  BY RPowersSteps, k + 1 \in Nat
<1>2. \A i \in 0..(k + 1) : p[i] = RPower(r, i)
  BY RPowersSame, k + 1 \in Nat
<1> HIDE DEF p
<1>3. (k + 1) - 1 = k /\ k + 1 \in 1..(k + 1) /\ k \in 0..(k + 1) /\ 0 \in 0..(k + 1)
  OBVIOUS
<1> DEFINE T == {i \in 0..(k + 1) : p[i] >= 1}
<1>4. \A i \in 0..(k + 1) : i \in T
  <2>1. 0 \in T
    BY <1>1
  <2>2. ASSUME NEW i \in 1..(k + 1), i - 1 \in T PROVE i \in T
    <3> DEFINE a == p[i - 1]
    <3>1. a \in Nat /\ a >= 1 /\ p[i] = a * r
      BY <1>1, <2>2
    <3> HIDE DEF a
    <3>2. a * r >= 1
      BY <3>1
    <3>3. QED
      BY <3>1, <3>2
  <2> HIDE DEF T
  <2>3. QED
    BY <2>1, <2>2, RangeInduction, k + 1 \in Nat
<1>5. p[k] >= 1 /\ p[k] \in Nat
  BY <1>1, <1>3, <1>4
<1>6. p[k + 1] = p[k] * r
  BY <1>1, <1>3
<1>7. p[k + 1] = RPower(r, k + 1) /\ p[k] = RPower(r, k) /\ p[0] = RPower(r, 0)
  BY <1>2, <1>3
<1>8. QED
  BY <1>1, <1>5, <1>6, <1>7

\* Exponents add up.
LEMMA RPowerAdd ==
    ASSUME NEW r \in Nat \ {0}, NEW a \in Nat, NEW b \in Nat
    PROVE  RPower(r, a + b) = RPower(r, a) * RPower(r, b)
<1> DEFINE T == {i \in 0..b : RPower(r, a + i) = RPower(r, a) * RPower(r, i)}
           P == RPower(r, a)
<1>0. P \in Nat /\ RPower(r, 0) = 1
  BY RPowerNext
<1>1. 0 \in T
  <2>1. a + 0 = a
    OBVIOUS
  <2>2. RPower(r, a + 0) = P
    BY <2>1
  <2> HIDE DEF P
  <2>3. P = P * 1
    BY <1>0
  <2>4. RPower(r, a + 0) = P * RPower(r, 0)
    BY <1>0, <2>2, <2>3
  <2>5. 0 \in 0..b
    OBVIOUS
  <2>6. QED
    BY <2>4, <2>5 DEF P
<1>2. ASSUME NEW i \in 1..b, i - 1 \in T PROVE i \in T
  <2> DEFINE j == i - 1
             Q == RPower(r, j)
  <2>1. j \in Nat /\ a + j \in Nat /\ j + 1 = i /\ (a + j) + 1 = a + i
    OBVIOUS
  <2>2. Q \in Nat /\ RPower(r, i) = Q * r /\ RPower(r, a + i) = RPower(r, a + j) * r
    BY <2>1, RPowerNext
  <2>3. RPower(r, a + j) = P * Q
    BY <1>2
  <2> HIDE DEF j, P, Q
  <2>4. (P * Q) * r = P * (Q * r)
    BY <1>0, <2>2, MulAssoc
  <2>5. QED
    BY <2>2, <2>3, <2>4 DEF P
<1>3. \A i \in 0..b : i \in T
  <2> HIDE DEF T
  <2>1. QED
    BY <1>1, <1>2, RangeInduction
<1>4. QED
  BY <1>3

\* The digits read never get fewer, and never more than the bytes.
LEMMA CountGrows ==
    ASSUME NEW t \in Seq(Nat), NEW D, NEW j \in 0..Len(t), NEW i \in 0..j
    PROVE  CountTo(t, D)[i] \in Nat /\ CountTo(t, D)[j] \in Nat /\ CountTo(t, D)[i] <= CountTo(t, D)[j]
<1> DEFINE c == CountTo(t, D)
           N == Len(t)
<1>1. /\ c \in [0..N -> Nat] /\ N \in Nat
      /\ \A k \in 1..N : c[k] = IF t[k] \in D THEN c[k - 1] + 1 ELSE c[k - 1]
  BY CountSteps
<1>2. i \in Nat /\ j \in Nat /\ i <= j /\ j <= N
  OBVIOUS
<1> HIDE DEF c, N
<1> DEFINE T == {k \in 0..(j - i) : c[i] <= c[i + k]}
<1>3. 0 \in T
  BY <1>1, <1>2
<1>4. ASSUME NEW k \in 1..(j - i), k - 1 \in T PROVE k \in T
  <2>1. i + k \in 1..N /\ (i + k) - 1 = i + (k - 1) /\ i + (k - 1) \in 0..N /\ k \in 0..(j - i) /\ i \in 0..N
    BY <1>1, <1>2
  <2>2. c[i] <= c[i + (k - 1)]
    BY <1>4
  <2>3. c[i + k] \in {c[i + (k - 1)] + 1, c[i + (k - 1)]}
    BY <1>1, <2>1
  <2>4. c[i] \in Nat /\ c[i + (k - 1)] \in Nat
    BY <1>1, <2>1
  <2>5. QED
    BY <2>1, <2>2, <2>3, <2>4
<1>5. \A k \in 0..(j - i) : k \in T
  <2>1. j - i \in Nat
    BY <1>2
  <2> HIDE DEF T
  <2>2. QED
    BY <1>3, <1>4, <2>1, RangeInduction
<1>6. j - i \in 0..(j - i) /\ i + (j - i) = j /\ i \in 0..N /\ j \in 0..N
  BY <1>1, <1>2
<1>7. c[i] <= c[j]
  BY <1>5, <1>6
<1>8. QED
  BY <1>1, <1>6, <1>7 DEF c

\* What one more digit makes of a number that lies within a unit.
LEMMA DigitWithin ==
    ASSUME NEW v \in Nat, NEW p \in Nat, NEW w \in Nat, NEW r \in Nat, NEW d \in Nat, d < r, v * p <= w, w < (v + 1) * p
    PROVE  /\ p * r \in Nat /\ w * r + d \in Nat
           /\ v * (p * r) <= w * r + d /\ w * r + d < (v + 1) * (p * r)
<1> DEFINE u == (v + 1) * p
           a == v * p
<1>1. p * r \in Nat /\ w * r \in Nat /\ u \in Nat /\ a \in Nat
  BY \A x, y \in Nat : x * y \in Nat, v + 1 \in Nat
<1>2. v * (p * r) = a * r /\ (v + 1) * (p * r) = u * r
  BY MulAssoc, v + 1 \in Int
<1> HIDE DEF u, a
<1>3. a <= w /\ w + 1 <= u
  <2>1. a <= w /\ w < u
    BY DEF a, u
  <2>2. QED
    BY <1>1, <2>1
<1>4. a * r <= w * r /\ (w + 1) * r <= u * r /\ (w + 1) * r = w * r + 1 * r /\ a * r \in Int /\ u * r \in Int
  BY <1>1, <1>3, MulMono, Distribute
<1>5. QED
  BY <1>1, <1>2, <1>4

\* A number lies between what its first digits say and that with one unit more.
LEMMA ValueWithin ==
    ASSUME NEW t \in Seq(Nat), NEW r \in Nat \ {0}, NEW j \in 0..Len(t), NEW i \in 0..j
    PROVE  LET v == ValueTo(t, 0..(r - 1), r)
               c == CountTo(t, 0..(r - 1))
               p == RPower(r, c[j] - c[i])
           IN  /\ v[i] \in Nat /\ v[j] \in Nat /\ c[i] \in Nat /\ c[j] \in Nat /\ c[i] <= c[j] /\ p \in Nat /\ p >= 1
               /\ v[i] * p <= v[j] /\ v[j] < (v[i] + 1) * p
<1> DEFINE D == 0..(r - 1)
           v == ValueTo(t, D, r)
           c == CountTo(t, D)
           N == Len(t)
           P(k) == RPower(r, c[i + k] - c[i])
<1>1. /\ c \in [0..N -> Nat] /\ N \in Nat
      /\ \A k \in 1..N : c[k] = IF t[k] \in D THEN c[k - 1] + 1 ELSE c[k - 1]
  BY CountSteps
<1>2. /\ v \in [0..N -> Nat]
      /\ \A k \in 1..N : v[k] = IF t[k] \in D THEN v[k - 1] * r + t[k] ELSE v[k - 1]
  BY ValueSteps
<1>3. i \in Nat /\ j \in Nat /\ i <= j /\ j <= N /\ i \in 0..N /\ j \in 0..N /\ j - i \in Nat
      /\ \A k \in 0..(j - i) : i + k \in 0..N /\ i \in 0..(i + k) /\ i + k \in 0..N
  BY <1>1
<1>4. \A k \in 0..(j - i) : c[i + k] - c[i] \in Nat /\ P(k) \in Nat /\ P(k) >= 1
  <2>1. SUFFICES ASSUME NEW k \in 0..(j - i) PROVE c[i + k] - c[i] \in Nat /\ P(k) \in Nat /\ P(k) >= 1
    OBVIOUS
  <2>2. c[i + k] \in Nat /\ c[i] \in Nat /\ c[i] <= c[i + k]
    <3>1. i + k \in 0..Len(t) /\ i \in 0..(i + k)
      BY <1>3
    <3>2. QED
      BY <3>1, CountGrows
  <2> HIDE DEF c
  <2>3. c[i + k] - c[i] \in Nat
    BY <2>2
  <2>4. QED
    BY <2>3, RPowerNext
<1> HIDE DEF v, c, N
<1> DEFINE T == {k \in 0..(j - i) : v[i] * P(k) <= v[i + k] /\ v[i + k] < (v[i] + 1) * P(k)}
<1>5. 0 \in T
  <2>1. c[i] \in Nat /\ v[i] \in Nat
    BY <1>1, <1>2, <1>3
  <2>2. P(0) = 1
    <3>1. i + 0 = i /\ c[i] - c[i] = 0
      BY <1>3, <2>1
    <3>2. RPower(r, 0) = 1
      BY RPowerNext, 0 \in Nat
    <3>3. QED
      BY <3>1, <3>2
  <2> HIDE DEF P
  <2>3. 0 \in 0..(j - i)
    BY <1>3
  <2>4. i + 0 = i
    BY <1>3
  <2>5. QED
    BY <2>1, <2>2, <2>3, <2>4
<1>6. ASSUME NEW k \in 1..(j - i), k - 1 \in T PROVE k \in T
  <2> DEFINE h == k - 1
  <2>1. i + k \in 1..N /\ (i + k) - 1 = i + h /\ i + h \in 0..N /\ k \in 0..(j - i) /\ h \in 0..(j - i) /\ i \in 0..N
    BY <1>1, <1>3
  <2>2. v[i] * P(h) <= v[i + h] /\ v[i + h] < (v[i] + 1) * P(h) /\ P(h) \in Nat /\ v[i] \in Nat /\ v[i + h] \in Nat
    BY <1>2, <1>4, <1>6, <2>1
  <2>3. CASE t[i + k] \in D
    <3>1. t[i + k] \in Nat /\ t[i + k] < r
      BY <2>3
    <3>2. v[i + k] = v[i + h] * r + t[i + k] /\ c[i + k] = c[i + h] + 1
      BY <1>1, <1>2, <2>1, <2>3
    <3>3. c[i + k] - c[i] = (c[i + h] - c[i]) + 1 /\ c[i + h] - c[i] \in Nat
      <4>1. c[i + h] \in Nat /\ c[i] \in Nat
        BY <1>1, <2>1
      <4>2. c[i + h] - c[i] \in Nat
        BY <1>4, <2>1
      <4>3. QED
        BY <3>2, <4>1, <4>2, SMTT(30)
    <3>4. P(k) = P(h) * r
      BY <3>3, RPowerNext
    <3> HIDE DEF P, h, D
    <3>5. v[i] * (P(h) * r) <= v[i + h] * r + t[i + k] /\ v[i + h] * r + t[i + k] < (v[i] + 1) * (P(h) * r)
      BY <2>2, <3>1, DigitWithin
    <3>6. v[i] * P(k) <= v[i + k] /\ v[i + k] < (v[i] + 1) * P(k)
      BY <3>2, <3>4, <3>5
    <3>7. QED
      BY <2>1, <3>6
  <2>4. CASE t[i + k] \notin D
    <3>1. v[i + k] = v[i + h] /\ c[i + k] = c[i + h]
      BY <1>1, <1>2, <2>1, <2>4
    <3>2. P(k) = P(h)
      BY <3>1
    <3>3. QED
      BY <2>1, <2>2, <3>1, <3>2
  <2>5. QED
    BY <2>3, <2>4
<1>7. \A k \in 0..(j - i) : k \in T
  <2> HIDE DEF T
  <2>1. QED
    BY <1>3, <1>5, <1>6, RangeInduction
<1>8. j - i \in 0..(j - i) /\ i + (j - i) = j
  BY <1>3
<1>9. v[i] * P(j - i) <= v[j] /\ v[j] < (v[i] + 1) * P(j - i) /\ P(j - i) = RPower(r, c[j] - c[i])
  BY <1>7, <1>8
<1>10. P(j - i) \in Nat /\ P(j - i) >= 1 /\ c[j] - c[i] \in Nat /\ c[i] \in Nat /\ c[j] \in Nat
  BY <1>1, <1>3, <1>4, <1>8
<1>11. c[i] <= c[j]
  BY <1>10
<1>12. v[i] \in Nat /\ v[j] \in Nat
  BY <1>2, <1>3
<1> HIDE DEF P
<1>13. QED
  BY <1>9, <1>10, <1>11, <1>12 DEF v, c, D

-----------------------------------------------------------------------------
(***************************************************************************)
(* The body of the text and what of it is left to read.                    *)
(***************************************************************************)
\* Bytes are numbers.
LEMMA BytesAreNumbers ==
    ASSUME NEW n \in Nat, NEW t \in Seq(0..n)
    PROVE  t \in Seq(Nat) /\ DOMAIN t = 1..Len(t) /\ Len(t) \in Nat
<1>1. Len(t) \in Nat /\ DOMAIN t = 1..Len(t) /\ \A i \in 1..Len(t) : t[i] \in Nat
  BY ElementOfSeq
<1>2. QED
  BY <1>1

\* The body of a text and the bytes that are no digits of it.
LEMMA BodyFacts ==
    ASSUME RTypeOK
    PROVE  /\ RBody \in Seq(0..ROther) /\ RBody \in Seq(Nat) /\ Len(RBody) \in Nat /\ DOMAIN RBody = 1..Len(RBody)
           /\ RCount \in [0..Len(RBody) -> Nat] /\ RCount[0] = 0
           /\ \A i \in 1..Len(RBody) : RCount[i] = IF RBody[i] \in 0..(radix - 1) THEN RCount[i - 1] + 1 ELSE RCount[i - 1]
           /\ RValue \in [0..Len(RBody) -> Nat] /\ RValue[0] = 0
           /\ \A i \in 1..Len(RBody) :
                RValue[i] = IF RBody[i] \in 0..(radix - 1) THEN RValue[i - 1] * radix + RBody[i] ELSE RValue[i - 1]
<1>1. RBody \in Seq(0..ROther)
  <2>1. spelling \in Seq(0..ROther)
    BY DEF RTypeOK
  <2>2. spelling # <<>> => Tail(spelling) \in Seq(0..ROther)
    BY <2>1, HeadTailProperties
  <2>3. QED
    BY <2>1, <2>2 DEF RBody
<1>2. RBody \in Seq(Nat) /\ DOMAIN RBody = 1..Len(RBody) /\ Len(RBody) \in Nat
  <2>1. ROther \in Nat
    BY DEF ROther
  <2>2. QED
    BY <1>1, <2>1, BytesAreNumbers
<1>3. radix \in Nat
  BY DEF RTypeOK
<1>4. /\ RCount \in [0..Len(RBody) -> Nat] /\ RCount[0] = 0
      /\ \A i \in 1..Len(RBody) : RCount[i] = IF RBody[i] \in 0..(radix - 1) THEN RCount[i - 1] + 1 ELSE RCount[i - 1]
  <2> DEFINE D == 0..(radix - 1)
  <2>1. RBody \in Seq(Nat)
    BY <1>2
  <2> HIDE DEF D
  <2>2. /\ CountTo(RBody, D) \in [0..Len(RBody) -> Nat] /\ CountTo(RBody, D)[0] = 0
        /\ \A i \in 1..Len(RBody) :
              CountTo(RBody, D)[i] = IF RBody[i] \in D THEN CountTo(RBody, D)[i - 1] + 1 ELSE CountTo(RBody, D)[i - 1]
    BY <2>1, CountSteps
  <2>3. QED
    BY <2>2 DEF RCount, D
<1>5. /\ RValue \in [0..Len(RBody) -> Nat] /\ RValue[0] = 0
      /\ \A i \in 1..Len(RBody) :
           RValue[i] = IF RBody[i] \in 0..(radix - 1) THEN RValue[i - 1] * radix + RBody[i] ELSE RValue[i - 1]
  <2>1. /\ ValueTo(RBody, 0..(radix - 1), radix) \in [0..Len(RBody) -> Nat]
        /\ ValueTo(RBody, 0..(radix - 1), radix)[0] = 0
        /\ \A i \in 1..Len(RBody) :
              ValueTo(RBody, 0..(radix - 1), radix)[i] = IF RBody[i] \in 0..(radix - 1)
                  THEN ValueTo(RBody, 0..(radix - 1), radix)[i - 1] * radix + RBody[i]
                  ELSE ValueTo(RBody, 0..(radix - 1), radix)[i - 1]
    BY <1>2, <1>3, ValueSteps, SMTT(30)
  <2>2. QED
    BY <2>1 DEF RValue
<1>6. QED
  BY <1>1, <1>2, <1>4, <1>5

\* The radices whose texts are read; the special bytes are above their digits.
LEMMA RadixFacts ==
    ASSUME RTypeOK, radix \in DOMAIN EstimatedPrecision
    PROVE  /\ radix \in Nat \ {0} /\ radix >= 2 /\ radix # Ten /\ EstimatedPrecision[radix] \in Nat
           /\ RPoint \notin 0..(radix - 1) /\ RUnderscore \notin 0..(radix - 1)
<1>1. radix \in (2..36) \ {Ten} /\ EstimatedPrecision[radix] \in Nat
  BY RadixAssumption
<1>2. QED
  BY <1>1 DEF RPoint, RUnderscore

\* From one position of the body to a later one.
LEMMA BodyWithin ==
    ASSUME RTypeOK, radix \in DOMAIN EstimatedPrecision, NEW j \in 0..Len(RBody), NEW i \in 0..j
    PROVE  LET p == RPower(radix, RCount[j] - RCount[i])
           IN  /\ RValue[i] \in Nat /\ RValue[j] \in Nat /\ RCount[i] \in Nat /\ RCount[j] \in Nat
               /\ RCount[i] <= RCount[j] /\ p \in Nat /\ p >= 1
               /\ RValue[i] * p <= RValue[j] /\ RValue[j] < (RValue[i] + 1) * p
<1>1. RBody \in Seq(Nat) /\ radix \in Nat \ {0}
  BY BodyFacts, RadixFacts
<1>2. QED
  BY <1>1, ValueWithin DEF RValue, RCount

\* No digit between two positions: they are worth the same.
LEMMA BodySame ==
    ASSUME RTypeOK, radix \in DOMAIN EstimatedPrecision, NEW i \in 0..Len(RBody), NEW j \in 0..Len(RBody),
           RCount[i] = RCount[j]
    PROVE  RValue[i] = RValue[j]
<1>1. ASSUME NEW a \in 0..Len(RBody), NEW b \in 0..Len(RBody), a <= b, RCount[a] = RCount[b]
      PROVE  RValue[a] = RValue[b]
  <2>1. a \in 0..b /\ radix \in Nat \ {0}
    BY <1>1, RadixFacts
  <2>2. /\ RValue[a] \in Nat /\ RValue[b] \in Nat /\ RCount[a] \in Nat
        /\ RValue[a] * RPower(radix, RCount[b] - RCount[a]) <= RValue[b]
        /\ RValue[b] < (RValue[a] + 1) * RPower(radix, RCount[b] - RCount[a])
    BY <2>1, BodyWithin
  <2>3. RCount[b] - RCount[a] = 0
    BY <1>1, <2>2
  <2>4. RPower(radix, RCount[b] - RCount[a]) = 1
    BY <2>1, <2>3, RPowerNext, 0 \in Nat
  <2>5. QED
    BY <2>2, <2>4
<1>2. i <= j \/ j <= i
  BY BodyFacts
<1>3. QED
  BY <1>1, <1>2

\* Where the whole part ends: at the first point.
LEMMA WholeAt ==
    ASSUME RTypeOK, NEW j \in 1..Len(RBody), RBody[j] = RPoint, \A i \in 1..Len(RBody) : RBody[i] = RPoint => j <= i
    PROVE  RWhole = RCount[j]
<1>1. /\ DOMAIN RBody = 1..Len(RBody) /\ RDots = {i \in 1..Len(RBody) : RBody[i] = RPoint} /\ j \in RDots
  BY BodyFacts DEF RDots
<1>2. \A i \in RDots : j <= i
  BY <1>1
<1>3. RDots \subseteq Int /\ j \in Int
  BY <1>1, BodyFacts
<1>4. (CHOOSE i \in RDots : \A k \in RDots : i <= k) = j
  <2> DEFINE f == CHOOSE i \in RDots : \A k \in RDots : i <= k
  <2>1. f \in RDots /\ \A k \in RDots : f <= k
    BY <1>1, <1>2
  <2>2. f <= j /\ j <= f
    BY <1>1, <1>2, <2>1
  <2> HIDE DEF f
  <2>3. f \in Int
    BY <1>3, <2>1
  <2>4. f = j
    BY <1>3, <2>2, <2>3
  <2>5. QED
    BY <2>4 DEF f
<1>5. QED
  BY <1>1, <1>4 DEF RWhole

\* It is somewhere in the body, at or behind every position with no point before it.
LEMMA WholeRange ==
    ASSUME RTypeOK, NEW i \in 0..Len(RBody), \A k \in 1..i : RBody[k] # RPoint
    PROVE  /\ RDigits \in Nat /\ RWhole \in Nat /\ RFraction \in Nat
           /\ RCount[i] \in Nat /\ RCount[i] <= RWhole /\ RWhole <= RDigits /\ RFraction = RDigits - RWhole
<1> DEFINE N == Len(RBody)
<1>1. RBody \in Seq(Nat) /\ N \in Nat /\ RDigits = RCount[N] /\ N \in 0..N
  BY BodyFacts DEF RDigits
<1>2. \A b \in 0..N : \A a \in 0..b : RCount[a] \in Nat /\ RCount[b] \in Nat /\ RCount[a] <= RCount[b]
  BY <1>1, CountGrows DEF RCount
<1>3. \E w \in i..N : RWhole = RCount[w]
  <2>1. CASE RDots = {}
    <3>1. RWhole = RCount[N] /\ N \in i..N
      BY <1>1, <2>1 DEF RWhole
    <3>2. QED
      BY <3>1
  <2>2. CASE RDots # {}
    <3>1. RDots \subseteq 1..N /\ RDots \subseteq Nat /\ \A k \in RDots : RBody[k] = RPoint
      BY BodyFacts DEF RDots
    <3>2. PICK w \in RDots : \A k \in RDots : w <= k
      BY <2>2, <3>1, LeastOf
    <3>3. w \in 1..N /\ RBody[w] = RPoint /\ \A k \in 1..N : RBody[k] = RPoint => w <= k
      BY <3>1, <3>2, BodyFacts DEF RDots
    <3>4. RWhole = RCount[w]
      BY <3>3, WholeAt
    <3>5. w > i
      <4>1. SUFFICES ASSUME w <= i PROVE FALSE
        BY <1>1, <3>3
      <4>2. w \in 1..i
        BY <3>3, <4>1
      <4>3. QED
        BY <3>3, <4>2
    <3>6. w \in i..N
      BY <1>1, <3>3, <3>5
    <3>7. QED
      BY <3>4, <3>6
  <2>3. QED
    BY <2>1, <2>2
<1>4. PICK w \in i..N : RWhole = RCount[w]
  BY <1>3
<1>5. w \in 0..N /\ i \in 0..w /\ w \in 0..N /\ N \in 0..N
  BY <1>1, <1>4
<1>6. RCount[i] \in Nat /\ RCount[w] \in Nat /\ RCount[i] <= RCount[w] /\ RCount[N] \in Nat /\ RCount[w] <= RCount[N]
  BY <1>2, <1>5
<1> HIDE DEF N
<1>7. QED
  BY <1>1, <1>4, <1>6 DEF RFraction

\* The rest of a text behind its first byte.
LEMMA RestOfText ==
    ASSUME NEW n \in Nat, NEW B \in Seq(0..n), NEW R \in 0..Len(B), NEW u, u = SubSeq(B, R + 1, Len(B))
    PROVE  /\ u \in Seq(0..n) /\ Len(u) \in Nat /\ Len(u) = Len(B) - R
           /\ u = <<>> => R = Len(B)
           /\ u # <<>> => /\ R + 1 \in 1..Len(B) /\ Head(u) = B[R + 1] /\ Head(u) \in Nat
                          /\ Tail(u) = SubSeq(B, (R + 1) + 1, Len(B))
<1> DEFINE N == Len(B)
<1>1. N \in Nat /\ \A i \in 1..N : B[i] \in 0..n
  BY ElementOfSeq
<1>2. R \in Nat /\ R <= N /\ R + 1 \in Int /\ (R + 1) + 1 \in Int
  BY <1>1
<1> HIDE DEF N
<1>3. \A i \in (R + 1)..N : B[i] \in 0..n
  BY <1>1, <1>2
<1>4. \A i \in ((R + 1) + 1)..N : B[i] \in 0..n
  BY <1>1, <1>2
<1>5. /\ u \in Seq(0..n) /\ Len(u) = (IF R + 1 <= N THEN N - (R + 1) + 1 ELSE 0)
      /\ \A i \in 1..(N - (R + 1) + 1) : u[i] = B[(R + 1) + i - 1]
  <2>1. N \in Int
    BY <1>1
  <2>2. u = SubSeq(B, R + 1, N)
    BY DEF N
  <2>3. QED
    BY <1>2, <1>3, <2>1, <2>2, SubSeqProperties
<1>6. Len(u) = N - R /\ Len(u) \in Nat
  <2> DEFINE l == Len(u)
  <2>1. l = (IF R + 1 <= N THEN N - (R + 1) + 1 ELSE 0)
    BY <1>5
  <2> HIDE DEF l
  <2>2. l = N - R /\ l \in Nat
    BY <1>1, <1>2, <2>1
  <2>3. QED
    BY <2>2 DEF l
<1>7. u = <<>> => R = N
  <2>1. u = <<>> => Len(u) = 0
    OBVIOUS
  <2> DEFINE l == Len(u)
  <2>2. l = N - R /\ (u = <<>> => l = 0)
    BY <1>6, <2>1
  <2> HIDE DEF l
  <2>3. QED
    BY <1>1, <1>2, <2>2
<1>8. ASSUME u # <<>>
      PROVE  /\ R + 1 \in 1..N /\ Head(u) = B[R + 1] /\ Head(u) \in Nat
             /\ Tail(u) = SubSeq(B, (R + 1) + 1, N)
  <2> DEFINE tl == Tail(u)
             w == SubSeq(B, (R + 1) + 1, N)
             M == N - (R + 1)
  <2>1. /\ Head(u) \in 0..n /\ tl \in Seq(0..n) /\ Len(tl) = Len(u) - 1
        /\ \A i \in 1..Len(tl) : tl[i] = u[i + 1]
    BY <1>5, <1>8, HeadTailProperties
  <2>2. R # N
    <3>1. SUFFICES ASSUME R = N PROVE FALSE
      OBVIOUS
    <3>2. Len(u) = 0
      BY <1>1, <1>6, <3>1
    <3>3. Len(u) # 0
      BY <1>5, <1>8, EmptySeq
    <3>4. QED
      BY <3>2, <3>3
  <2>3. R + 1 \in 1..N /\ M \in Nat /\ N - (R + 1) + 1 = M + 1
    BY <1>1, <1>2, <2>2
  <2>4. \A i \in 1..(M + 1) : u[i] = B[(R + 1) + i - 1]
    BY <1>5, <2>3
  <2>5. u[1] = B[R + 1]
    <3>1. 1 \in 1..(M + 1) /\ (R + 1) + 1 - 1 = R + 1
      BY <1>2, <2>3
    <3>2. QED
      BY <2>4, <3>1
  <2>6. Len(tl) = M
    <3> DEFINE a == Len(tl)
               b == Len(u)
    <3>1. a = b - 1 /\ b = N - R
      BY <1>6, <2>1
    <3> HIDE DEF a, b, tl
    <3>2. a = M
      BY <1>1, <1>2, <3>1
    <3>3. QED
      BY <3>2 DEF a
  <2>7. /\ w \in Seq(0..n) /\ Len(w) = (IF (R + 1) + 1 <= N THEN N - ((R + 1) + 1) + 1 ELSE 0)
        /\ \A i \in 1..(N - ((R + 1) + 1) + 1) : w[i] = B[((R + 1) + 1) + i - 1]
    <3>1. N \in Int
      BY <1>1
    <3>2. QED
      BY <1>2, <1>4, <3>1, SubSeqProperties
  <2> HIDE DEF w, tl
  <2>8. Len(w) = M /\ N - ((R + 1) + 1) + 1 = M
    <3> DEFINE a == Len(w)
    <3>1. a = (IF (R + 1) + 1 <= N THEN N - ((R + 1) + 1) + 1 ELSE 0)
      BY <2>7
    <3> HIDE DEF a
    <3>2. a = M /\ N - ((R + 1) + 1) + 1 = M
      BY <1>1, <1>2, <2>3, <3>1
    <3>3. QED
      BY <3>2 DEF a
  <2> HIDE DEF M
  <2>9. \A i \in 1..M : tl[i] = w[i]
    <3>1. SUFFICES ASSUME NEW i \in 1..M PROVE tl[i] = w[i]
      OBVIOUS
    <3>2. i + 1 \in 1..(M + 1) /\ (R + 1) + (i + 1) - 1 = ((R + 1) + 1) + i - 1
      BY <1>2, <2>3
    <3>3. u[i + 1] = B[(R + 1) + (i + 1) - 1]
      BY <2>4, <3>2
    <3>4. w[i] = B[((R + 1) + 1) + i - 1]
      BY <2>7, <2>8
    <3>5. tl[i] = u[i + 1]
      BY <2>1, <2>6
    <3>6. QED
      BY <3>2, <3>3, <3>4, <3>5
  <2>10. tl = w
    <3>1. DOMAIN tl = 1..M /\ DOMAIN w = 1..M
      BY <2>1, <2>6, <2>7, <2>8
    <3>2. tl \in Seq(0..n) /\ w \in Seq(0..n) /\ Len(tl) = Len(w)
      BY <2>1, <2>6, <2>7, <2>8
    <3>3. QED
      BY <2>6, <2>9, <3>2, SeqEqual
  <2>11. Head(u) = u[1] /\ Head(u) \in Nat
    BY <1>5, <1>8, <2>1
  <2>12. QED
    BY <2>3, <2>5, <2>10, <2>11 DEF tl, w
<1>9. QED
  BY <1>5, <1>6, <1>7, <1>8 DEF N

\* The next byte, and what is left behind it.
LEMMA UnreadFacts ==
    ASSUME RTypeOK, RReadPart, rpc \in RRunning
    PROVE  /\ RRead \in 0..Len(RBody) /\ RRead \in Nat
           /\ unread = <<>> => RRead = Len(RBody)
           /\ unread # <<>> =>
                /\ RRead + 1 \in 1..Len(RBody) /\ Head(unread) = RBody[RRead + 1] /\ Head(unread) \in Nat
                /\ Tail(unread) \in Seq(0..ROther) /\ Len(Tail(unread)) <= Len(RBody)
                /\ Len(RBody) - Len(Tail(unread)) = RRead + 1
                /\ Tail(unread) = SubSeq(RBody, (RRead + 1) + 1, Len(RBody))
<1> DEFINE N == Len(RBody)
           l == Len(unread)
<1>1. RBody \in Seq(0..ROther) /\ ROther \in Nat /\ N \in Nat /\ unread \in Seq(0..ROther)
  BY BodyFacts DEF RTypeOK, ROther
<1>2. l \in Nat /\ l <= N /\ RRead = N - l /\ unread = SubSeq(RBody, RRead + 1, N)
  <2>1. l \in Nat
    BY <1>1
  <2>2. QED
    BY <2>1 DEF RReadPart, RRead
<1>3. RRead \in 0..N /\ RRead \in Nat
  <2> HIDE DEF N, l
  <2>1. QED
    BY <1>1, <1>2
<1>4. /\ unread = <<>> => RRead = N
      /\ unread # <<>> => /\ RRead + 1 \in 1..N /\ Head(unread) = RBody[RRead + 1] /\ Head(unread) \in Nat
                          /\ Tail(unread) = SubSeq(RBody, (RRead + 1) + 1, N)
  <2>1. RRead \in 0..Len(RBody) /\ unread = SubSeq(RBody, RRead + 1, Len(RBody))
    BY <1>2, <1>3
  <2> DEFINE R == RRead
  <2> HIDE DEF R
  <2>2. R \in 0..Len(RBody) /\ unread = SubSeq(RBody, R + 1, Len(RBody))
    BY <2>1 DEF R
  <2>3. /\ unread = <<>> => R = Len(RBody)
        /\ unread # <<>> => /\ R + 1 \in 1..Len(RBody) /\ Head(unread) = RBody[R + 1] /\ Head(unread) \in Nat
                            /\ Tail(unread) = SubSeq(RBody, (R + 1) + 1, Len(RBody))
    BY ONLY <1>1, <2>2, RestOfText, ZenonT(60)
  <2>4. QED
    BY <2>3 DEF R
<1>5. ASSUME unread # <<>>
      PROVE  Tail(unread) \in Seq(0..ROther) /\ Len(Tail(unread)) <= N /\ N - Len(Tail(unread)) = RRead + 1
  <2> DEFINE a == Len(Tail(unread))
  <2>1. Tail(unread) \in Seq(0..ROther) /\ a = l - 1
    BY <1>1, <1>5, HeadTailProperties
  <2> HIDE DEF a, N, l
  <2>2. a <= N /\ N - a = RRead + 1
    BY <1>1, <1>2, <2>1
  <2>3. QED
    BY <2>1, <2>2 DEF a
<1>6. QED
  BY <1>3, <1>4, <1>5

\* What a step that leaves the text alone leaves alone.
LEMMA TextSame ==
    ASSUME radix' = radix, spelling' = spelling
    PROVE  /\ RBody' = RBody /\ RCount' = RCount /\ RValue' = RValue
           /\ RDigits' = RDigits /\ RDots' = RDots /\ RWhole' = RWhole /\ RFraction' = RFraction
           /\ RWellFormed' = RWellFormed /\ CarryRefused' = CarryRefused
<1>1. RBody' = RBody
  BY DEF RBody
<1>2. RCount' = RCount /\ RValue' = RValue
  BY <1>1 DEF RCount, RValue
<1>3. RDots' = RDots /\ RDigits' = RDigits
  BY <1>1, <1>2 DEF RDots, RDigits
<1>4. RWhole' = RWhole
  BY <1>2, <1>3 DEF RWhole
<1>5. RFraction' = RFraction
  BY <1>3, <1>4 DEF RFraction
<1>6. RWellFormed' = RWellFormed /\ CarryRefused' = CarryRefused
  BY <1>1, <1>2, <1>3 DEF RWellFormed, CarryRefused
<1>7. QED
  BY <1>1, <1>2, <1>3, <1>4, <1>5, <1>6

\* What a coefficient amounts to.
LEMMA CoeffFacts ==
    ASSUME RTypeOK
    PROVE  /\ coeff \in Seq(Nat) /\ Len(coeff) \in Nat /\ \A i \in 1..Len(coeff) : coeff[i] \in Nat
           /\ CValue \in [0..Len(coeff) -> Nat] /\ CValue[0] = 0
           /\ \A i \in 1..Len(coeff) : CValue[i] = CValue[i - 1] * radix + coeff[i]
<1>1. coeff \in Seq(Nat) /\ radix \in Nat
  BY DEF RTypeOK
<1> DEFINE v == ValueTo(coeff, Nat, radix)
<1>2. /\ v \in [0..Len(coeff) -> Nat] /\ v[0] = 0
      /\ \A i \in 1..Len(coeff) : v[i] = IF coeff[i] \in Nat THEN v[i - 1] * radix + coeff[i] ELSE v[i - 1]
  BY <1>1, ValueSteps
<1>3. Len(coeff) \in Nat /\ \A i \in 1..Len(coeff) : coeff[i] \in Nat
  BY <1>1, ElementOfSeq
<1> HIDE DEF v
<1>4. \A i \in 1..Len(coeff) : v[i] = v[i - 1] * radix + coeff[i]
  BY <1>2, <1>3
<1>5. QED
  BY <1>1, <1>2, <1>3, <1>4 DEF v, CValue

\* Sequences with the same digits up to a position amount to the same there.
LEMMA ValueAgree ==
    ASSUME NEW t \in Seq(Nat), NEW u \in Seq(Nat), NEW r \in Nat, NEW n \in Nat, n <= Len(t), n <= Len(u),
           \A i \in 1..n : t[i] = u[i]
    PROVE  \A i \in 0..n : ValueTo(t, Nat, r)[i] = ValueTo(u, Nat, r)[i]
<1> DEFINE v == ValueTo(t, Nat, r)
           w == ValueTo(u, Nat, r)
           T == {i \in 0..n : v[i] = w[i]}
<1>1. /\ v[0] = 0
      /\ \A i \in 1..Len(t) : v[i] = IF t[i] \in Nat THEN v[i - 1] * r + t[i] ELSE v[i - 1]
  BY ValueSteps
<1>2. /\ w[0] = 0
      /\ \A i \in 1..Len(u) : w[i] = IF u[i] \in Nat THEN w[i - 1] * r + u[i] ELSE w[i - 1]
  BY ValueSteps
<1> HIDE DEF v, w
<1>3. 0 \in T
  BY <1>1, <1>2
<1>4. ASSUME NEW i \in 1..n, i - 1 \in T PROVE i \in T
  <2>1. i \in 1..Len(t) /\ i \in 1..Len(u) /\ i \in 0..n /\ t[i] = u[i]
    OBVIOUS
  <2>2. v[i - 1] = w[i - 1]
    BY <1>4
  <2>3. v[i] = w[i]
    BY <1>1, <1>2, <2>1, <2>2
  <2>4. QED
    BY <2>1, <2>3
<1>5. \A i \in 0..n : i \in T
  <2> HIDE DEF T
  <2>1. QED
    BY <1>3, <1>4, RangeInduction
<1>6. QED
  BY <1>5 DEF v, w

-----------------------------------------------------------------------------
(***************************************************************************)
(* A text whose whole part is too large.                                   *)
(***************************************************************************)
\* A text whose next digit is not zero is more than the digits before say.
LEMMA BodyAbove ==
    ASSUME RTypeOK, radix \in DOMAIN EstimatedPrecision, NEW j \in 0..Len(RBody), NEW w \in Nat, NEW k \in Nat,
           RCount[j] = k + 1, RValue[j] >= w * radix + 1
    PROVE  LET d == RDigits - k
           IN  /\ d \in Nat /\ d >= 1 /\ RPower(radix, d) \in Nat
               /\ RValue[Len(RBody)] \in Nat /\ RValue[Len(RBody)] > w * RPower(radix, d)
<1> DEFINE N == Len(RBody)
           q == RPower(radix, RCount[N] - RCount[j])
           v == RValue[j]
           n == RValue[N]
           f == RCount[N]
           p == RPower(radix, RDigits - k)
<1>1. radix \in Nat \ {0} /\ N \in Nat /\ N \in 0..N /\ j \in 0..N
  BY BodyFacts, RadixFacts
<1>2. v \in Nat /\ n \in Nat /\ f \in Nat /\ RCount[j] <= f /\ q \in Nat /\ q >= 1 /\ v * q <= n
  BY <1>1, BodyWithin
<1>3. f - RCount[j] \in Nat /\ (f - RCount[j]) + 1 = RDigits - k /\ RDigits - k \in Nat /\ RDigits - k >= 1
  <2>1. RDigits = f
    BY DEF RDigits
  <2> HIDE DEF f, N
  <2>2. QED
    BY <1>2, <2>1
<1>4. p = q * radix
  BY <1>1, <1>3, RPowerNext
<1> HIDE DEF q, v, n, f, p
<1> DEFINE a == w * radix
<1>5. a \in Nat
  BY <1>1, \A x, y \in Nat : x * y \in Nat
<1>6. w * p = a * q
  <2>1. (w * radix) * q = w * (radix * q) /\ radix * q = q * radix
    BY <1>1, <1>2, MulAssoc
  <2>2. QED
    BY <1>4, <2>1
<1>7. v >= a + 1
  BY DEF v
<1> HIDE DEF a
<1>8. (a + 1) * q <= v * q /\ (a + 1) * q = a * q + 1 * q /\ a * q \in Int /\ v * q \in Int
  BY <1>2, <1>5, <1>7, MulMono, Distribute
<1>9. n > w * p
  BY <1>2, <1>6, <1>8
<1>10. p \in Nat
  BY <1>1, <1>2, <1>4, \A x, y \in Nat : x * y \in Nat
<1>11. QED
  BY <1>2, <1>3, <1>9, <1>10 DEF n, p

\* When the digits of a part of the whole one overflow with one more, so does it.
LEMMA BodyLarge ==
    ASSUME RTypeOK, radix \in DOMAIN EstimatedPrecision, NEW j \in 0..Len(RBody),
           RCount[j] < RWhole, RValue[j] * radix > Max96
    PROVE  RValue[Len(RBody)] \div RPower(radix, RFraction) >= Max96
<1> DEFINE N == Len(RBody)
           w == RValue[j]
           n == RValue[N]
           c == RCount[j]
           f == RCount[N]
           k == RWhole - c - 1
           PF == RPower(radix, RFraction)
           PK == RPower(radix, k)
           P == RPower(radix, f - c)
<1>1. radix \in Nat \ {0} /\ N \in Nat /\ N \in 0..N /\ j \in 0..N /\ 0 \in 0..N
  BY BodyFacts, RadixFacts
<1>2. w \in Nat /\ n \in Nat /\ c \in Nat /\ f \in Nat /\ c <= f /\ w * P <= n
  BY <1>1, BodyWithin
<1>3. RWhole \in Nat /\ RFraction \in Nat /\ RFraction = RDigits - RWhole /\ RDigits = f
  <2>1. \A i \in 1..0 : RBody[i] # RPoint
    OBVIOUS
  <2>2. QED
    BY <1>1, <2>1, WholeRange DEF RDigits
<1>4. k \in Nat /\ f - c = RFraction + (k + 1) /\ k + 1 \in Nat
  <2>1. c < RWhole
    OBVIOUS
  <2> HIDE DEF c, f, N
  <2>2. QED
    BY <1>2, <1>3, <2>1
<1>5. PF \in Nat /\ PF >= 1 /\ PK \in Nat /\ PK >= 1
  BY <1>1, <1>3, <1>4, RPowerNext
<1>6. P = PF * (PK * radix)
  <2>1. RPower(radix, k + 1) = PK * radix
    BY <1>1, <1>4, RPowerNext
  <2>2. RPower(radix, RFraction + (k + 1)) = PF * RPower(radix, k + 1)
    BY <1>1, <1>3, <1>4, RPowerAdd
  <2>3. P = RPower(radix, RFraction + (k + 1))
    BY <1>4
  <2>4. QED
    BY <2>1, <2>2, <2>3
<1>7. w * radix >= Max96 /\ Max96 \in Nat
  <2>1. Max96 \in Nat
    BY BaseType
  <2>2. w * radix \in Nat /\ w * radix > Max96
    BY <1>1, <1>2, \A x, y \in Nat : x * y \in Nat
  <2>3. QED
    BY <2>1, <2>2
<1> HIDE DEF N, w, n, c, f, k, PF, PK, P
<1> DEFINE a == w * radix
           Q == PF * PK
<1>8. a \in Nat /\ Q \in Nat
  BY <1>1, <1>2, <1>5, \A x, y \in Nat : x * y \in Nat
<1>9. w * P = a * Q
  <2>1. PF * (PK * radix) = Q * radix
    BY <1>1, <1>5, MulAssoc
  <2>2. Q * radix = radix * Q /\ w * (radix * Q) = a * Q
    BY <1>1, <1>2, <1>8, MulAssoc
  <2>3. QED
    BY <1>6, <2>1, <2>2
<1>10. PF <= Q
  <2>1. 1 * PF <= PK * PF /\ PK * PF = PF * PK
    BY <1>5, MulMono, MulAssoc
  <2>2. QED
    BY <1>5, <2>1
<1>11. Max96 * PF <= a * Q
  <2>1. a >= Max96
    BY <1>7
  <2> HIDE DEF a, Q
  <2>2. Max96 * Q <= a * Q
    BY <1>7, <1>8, <2>1, MulMono
  <2>3. PF * Max96 <= Q * Max96 /\ PF * Max96 = Max96 * PF /\ Q * Max96 = Max96 * Q
    BY <1>5, <1>7, <1>8, <1>10, MulMono, MulAssoc
  <2>4. Max96 * PF \in Int /\ Max96 * Q \in Int /\ a * Q \in Int
    BY <1>5, <1>7, <1>8, MulAssoc
  <2>5. QED
    BY <2>2, <2>3, <2>4
<1>12. Max96 * PF <= n
  <2>1. Max96 * PF \in Int /\ a * Q \in Int
    BY <1>5, <1>7, <1>8, MulAssoc
  <2> HIDE DEF a, Q
  <2>2. a * Q <= n
    BY <1>2, <1>9
  <2>3. QED
    BY <1>2, <1>11, <2>1, <2>2
<1>13. Max96 <= n \div PF
  BY <1>2, <1>5, <1>7, <1>12, AtMostQuotient
<1>14. n \div PF >= Max96
  <2>1. n \div PF \in Int
    BY <1>2, <1>5
  <2>2. QED
    BY <1>7, <1>13, <2>1
<1>15. QED
  BY <1>14 DEF n, N, PF

\* The digits up to a position are within a unit of their last place.
LEMMA CloseBelow ==
    ASSUME RTypeOK, radix \in DOMAIN EstimatedPrecision, NEW j \in 0..Len(RBody), NEW s \in Nat,
           RFraction - s = RDigits - RCount[j]
    PROVE  DigitsKept(RValue[j], s)
<1> DEFINE N == Len(RBody)
           d == RFraction - s
           p == RPower(radix, d)
           n == RValue[N]
           m == RValue[j]
<1>1. radix \in Nat \ {0} /\ N \in Nat /\ N \in 0..N /\ j \in 0..N
  BY BodyFacts, RadixFacts
<1>2. m \in Nat /\ n \in Nat /\ RCount[j] \in Nat /\ RCount[N] \in Nat /\ RCount[j] <= RCount[N]
  BY <1>1, BodyWithin
<1>3. d = RCount[N] - RCount[j]
  BY DEF RDigits
<1>4. p \in Nat /\ p >= 1 /\ m * p <= n /\ n < (m + 1) * p
  <2>1. j \in 0..N
    BY <1>1
  <2>2. QED
    BY <1>1, <1>3, <2>1, BodyWithin
<1>5. d \in Nat
  <2> DEFINE x == RCount[N]
             y == RCount[j]
  <2> HIDE DEF x, y, d
  <2>1. d = x - y /\ x \in Nat /\ y \in Nat /\ y <= x
    BY <1>2, <1>3 DEF x, y
  <2>2. QED
    BY <2>1
<1>6. d = 0 => p = 1
  BY <1>1, RPowerNext, 0 \in Nat
<1> HIDE DEF d, p, n, m
<1>7. (m + 1) * p = m * p + 1 * p /\ m * p \in Int
  BY <1>2, <1>4, Distribute
<1>8. m * p - n < p /\ n - m * p < p
  <2> DEFINE x == m * p
             y == (m + 1) * p
  <2>1. y = x + p /\ x \in Int /\ x <= n /\ n < y
    BY <1>4, <1>7
  <2> HIDE DEF x, y
  <2>2. x - n < p /\ n - x < p
    BY <1>2, <1>4, <2>1
  <2>3. QED
    BY <2>2 DEF x
<1>9. d = 0 => m = n
  BY <1>2, <1>4, <1>6
<1>10. d >= 0
  BY <1>5
<1>11. QED
  BY <1>8, <1>9, <1>10 DEF d, p, n, m, N, DigitsKept

\* So is one more than they say, when the next digit is not zero.
LEMMA CloseAbove ==
    ASSUME RTypeOK, radix \in DOMAIN EstimatedPrecision, NEW i \in 0..Len(RBody), NEW j \in 0..Len(RBody), NEW s \in Nat,
           RFraction - s = RDigits - RCount[i], RCount[j] = RCount[i] + 1, RValue[j] >= RValue[i] * radix + 1
    PROVE  DigitsKept(RValue[i] + 1, s)
<1> DEFINE N == Len(RBody)
           d == RFraction - s
           p == RPower(radix, d)
           n == RValue[N]
           w == RValue[i]
<1>1. radix \in Nat \ {0} /\ N \in Nat /\ N \in 0..N /\ i \in 0..N
  BY BodyFacts, RadixFacts
<1>2. w \in Nat /\ n \in Nat /\ RCount[i] \in Nat
  BY <1>1, BodyWithin
<1>3. d = RDigits - RCount[i] /\ d = RCount[N] - RCount[i]
  BY DEF RDigits
<1>4. n < (w + 1) * p
  BY <1>1, <1>3, BodyWithin
<1>5. d \in Nat /\ d >= 1 /\ p \in Nat /\ n > w * p
  BY <1>2, <1>3, BodyAbove
<1> HIDE DEF d, p, n, w
<1>6. (w + 1) * p = w * p + 1 * p /\ w * p \in Int /\ (w + 1) * p \in Int
  BY <1>2, <1>5, Distribute
<1>7. (w + 1) * p - n < p /\ n - (w + 1) * p < p
  <2>1. n < w * p + p
    BY <1>4, <1>5, <1>6
  <2> DEFINE x == w * p
             y == (w + 1) * p
  <2>2. y = x + p /\ x \in Int /\ n > x /\ n < x + p
    BY <1>5, <1>6, <2>1
  <2> HIDE DEF x, y
  <2>3. y - n < p /\ n - y < p
    BY <1>2, <1>5, <2>2
  <2>4. QED
    BY <2>3 DEF y
<1>8. d >= 0 /\ d # 0
  BY <1>5
<1>9. QED
  BY <1>7, <1>8 DEF d, p, n, w, N, DigitsKept

-----------------------------------------------------------------------------
(***************************************************************************)
(* Collecting the digits.                                                  *)
(***************************************************************************)
\* Where the whole part ends, once the point has been read or not.
LEMMA DotFacts ==
    ASSUME RTypeOK, RReadPart, rpc \in RRunning, DotRead
    PROVE  /\ RDigits \in Nat /\ RWhole \in Nat /\ RFraction \in Nat /\ RFraction = RDigits - RWhole
           /\ RCount[RRead] \in Nat /\ Len(coeff) = RCount[RRead] /\ Len(coeff) \in Nat /\ Len(coeff) <= RDigits
           /\ beforeDot = -1 => RWhole >= Len(coeff)
           /\ beforeDot # -1 => beforeDot \in Nat /\ RWhole = beforeDot /\ beforeDot <= Len(coeff)
<1> DEFINE N == Len(RBody)
           R == RRead
<1>1. RBody \in Seq(Nat) /\ N \in Nat /\ R \in 0..N /\ R \in Nat /\ N \in 0..N /\ RDigits = RCount[N] /\ 0 \in 0..N
  BY BodyFacts, UnreadFacts DEF RDigits
<1>2. \A b \in 0..N : \A a \in 0..b : RCount[a] \in Nat /\ RCount[b] \in Nat /\ RCount[a] <= RCount[b]
  BY <1>1, CountGrows DEF RCount
<1>3. Len(coeff) = RCount[R]
  BY DEF RReadPart
<1>4. RCount[R] \in Nat /\ RCount[R] <= RDigits
  BY <1>1, <1>2
<1>5. RDigits \in Nat /\ RWhole \in Nat /\ RFraction \in Nat /\ RFraction = RDigits - RWhole
  <2>1. \A k \in 1..0 : RBody[k] # RPoint
    OBVIOUS
  <2>2. QED
    BY <1>1, <2>1, WholeRange
<1>6. CASE beforeDot = -1
  <2>1. \A i \in 1..R : RBody[i] # RPoint
    <3>1. CASE \A i \in 1..R : RBody[i] # RPoint
      BY <3>1
    <3>2. CASE \E j \in 1..R : RBody[j] = RPoint /\ beforeDot = RCount[j]
      <4>1. PICK j \in 1..R : beforeDot = RCount[j]
        BY <3>2
      <4>2. j \in 0..N /\ 0 \in 0..j
        BY <1>1
      <4>3. RCount[j] \in Nat
        BY <1>2, <4>2
      <4>4. QED
        BY <1>6, <4>1, <4>3
    <3>3. QED
      BY <3>1, <3>2 DEF DotRead
  <2>2. RCount[R] <= RWhole
    BY <1>1, <2>1, WholeRange
  <2>3. QED
    BY <1>3, <1>4, <1>5, <1>6, <2>2
<1>7. CASE beforeDot # -1
  <2>1. PICK j \in 1..R : RBody[j] = RPoint /\ beforeDot = RCount[j] /\ \A i \in 1..R : RBody[i] = RPoint => i = j
    BY <1>7 DEF DotRead
  <2>2. j \in 1..N /\ \A i \in 1..N : RBody[i] = RPoint => j <= i
    <3>1. SUFFICES ASSUME NEW i \in 1..N, RBody[i] = RPoint PROVE j <= i
      BY <1>1
    <3>2. CASE i <= R
      BY <1>1, <2>1, <3>1, <3>2
    <3>3. QED
      BY <1>1, <3>2
  <2>3. RWhole = RCount[j]
    BY <2>1, <2>2, WholeAt
  <2>4. j \in 0..R /\ R \in 0..N
    BY <1>1
  <2>5. RCount[j] \in Nat /\ RCount[j] <= RCount[R]
    BY <1>2, <2>4
  <2>6. QED
    BY <1>3, <1>4, <1>5, <1>7, <2>1, <2>3, <2>5
<1>8. QED
  BY <1>6, <1>7

\* Each digit of a coefficient is one of the text; the last one may have been rounded up.
LEMMA DigitRead ==
    ASSUME RTypeOK, RReadPart, RValuePart, rpc \in {"scale", "build"}, radix < Ten, NEW i \in 1..Len(coeff)
    PROVE  \E j \in 1..Len(RBody) :
              /\ RCount[j] = i
              /\ \/ RValue[j] = CValue[i] /\ coeff[i] \in 0..(radix - 1)
                 \/ i = Len(coeff) /\ j = RRead /\ RoundedUp /\ RValue[j] + 1 = CValue[i] /\ coeff[i] \in 1..radix
<1>1. rpc \in RRunning
  BY DEF RRunning
<1>2. RRead \in 0..Len(RBody) /\ RRead \in Nat /\ RCount[0] = 0 /\ Len(RBody) \in Nat
  BY <1>1, BodyFacts, UnreadFacts
<1>3. \A j \in 0..RRead : RCount[j] = i => j \in 1..Len(RBody)
  <2>1. i # 0
    OBVIOUS
  <2>2. SUFFICES ASSUME NEW j \in 0..RRead, RCount[j] = i PROVE j \in 1..Len(RBody)
    OBVIOUS
  <2>3. j # 0
    BY <1>2, <2>1, <2>2
  <2>4. QED
    BY <1>2, <2>3
<1>4. Len(coeff) \in Nat
  BY CoeffFacts
<1>5. CASE IsRead(i) /\ coeff[i] \in 0..(radix - 1)
  <2>1. PICK j \in 0..RRead : RCount[j] = i /\ RValue[j] = CValue[i]
    BY <1>5 DEF IsRead
  <2>2. QED
    BY <1>3, <1>5, <2>1
<1>6. CASE i = Len(coeff) /\ RoundedUp
  <2>1. RCount[RRead] = i
    BY <1>1, <1>6 DEF RReadPart
  <2>2. RRead \in 1..Len(RBody)
    <3>1. RRead \in 0..RRead
      BY <1>2
    <3>2. QED
      BY <1>3, <2>1, <3>1
  <2>3. RValue[RRead] + 1 = CValue[i] /\ coeff[i] \in 1..radix
    BY <1>6 DEF RoundedUp
  <2>4. QED
    BY <1>6, <2>1, <2>2, <2>3
<1>7. CASE i # Len(coeff)
  <2>1. i \in 0..(Len(coeff) - 1) /\ i \in 1..(Len(coeff) - 1)
    BY <1>4, <1>7
  <2>2. QED
    BY <1>5, <2>1 DEF RValuePart
<1>8. CASE i = Len(coeff) /\ ~RoundedUp
  <2>1. coeff # <<>>
    BY <1>4, <1>8
  <2>2. QED
    BY <1>5, <1>8, <2>1 DEF RValuePart
<1>9. QED
  BY <1>6, <1>7, <1>8

\* A coefficient of 1 and zeros is a power of the radix; one that fits has few places.
LEMMA CarriedValue ==
    ASSUME RTypeOK, radix \in DOMAIN EstimatedPrecision, CarriedOver, CValue[Len(coeff)] <= Max96
    PROVE  Len(coeff) <= MAX_SCALE
<1> DEFINE E == EstimatedPrecision[radix]
           T == {k \in 0..E : CValue[k + 1] = RPower(radix, k)}
<1>1. E \in Nat /\ radix \in Nat \ {0} /\ Len(coeff) = E + 1 /\ radix > Ten
  BY RadixFacts DEF CarriedOver
<1>2. \A k \in 1..(E + 1) : CValue[k] = CValue[k - 1] * radix + coeff[k]
  BY <1>1, CoeffFacts
<1>3. CValue[0] = 0 /\ coeff[1] = 1 /\ \A k \in 2..(E + 1) : coeff[k] = 0
  <2>1. \A k \in 1..(E + 1) : coeff[k] = IF k = 1 THEN 1 ELSE 0
    BY <1>1 DEF CarriedOver
  <2>2. CValue[0] = 0
    BY CoeffFacts
  <2> HIDE DEF E
  <2>3. QED
    BY <1>1, <2>1, <2>2
<1> HIDE DEF E
<1>4. 0 \in T
  <2>1. 1 \in 1..(E + 1) /\ 1 - 1 = 0 /\ 0 \in 0..E /\ 0 + 1 = 1
    BY <1>1
  <2>2. CValue[1] = 0 * radix + 1 /\ 0 * radix = 0
    BY <1>1, <1>2, <1>3, <2>1
  <2>3. RPower(radix, 0) = 1
    BY <1>1, RPowerNext, 0 \in Nat
  <2>4. CValue[0 + 1] = RPower(radix, 0)
    BY <2>1, <2>2, <2>3
  <2>5. QED
    BY <2>1, <2>4
<1>5. ASSUME NEW k \in 1..E, k - 1 \in T PROVE k \in T
  <2> DEFINE h == k - 1
  <2>1. h \in Nat /\ h + 1 = k /\ k \in 0..E /\ k + 1 \in 1..(E + 1) /\ (k + 1) - 1 = k /\ k + 1 \in 2..(E + 1)
    BY <1>1
  <2>2. CValue[k] = RPower(radix, h) /\ RPower(radix, h) \in Nat /\ RPower(radix, k) = RPower(radix, h) * radix
    BY <1>1, <1>5, <2>1, RPowerNext
  <2>3. CValue[k + 1] = CValue[k] * radix + 0
    BY <1>2, <1>3, <2>1
  <2>4. RPower(radix, h) * radix \in Nat
    BY <1>1, <2>2, \A x, y \in Nat : x * y \in Nat
  <2>5. CValue[k + 1] = RPower(radix, k)
    BY <2>2, <2>3, <2>4
  <2>6. QED
    BY <2>1, <2>5
<1>6. \A k \in 0..E : k \in T
  <2> HIDE DEF T
  <2>1. QED
    BY <1>1, <1>4, <1>5, RangeInduction
<1>7. CValue[E + 1] = RPower(radix, E)
  BY <1>1, <1>6
<1>8. E <= MAX_SCALE /\ RPower(radix, MAX_SCALE) > Max96 /\ MAX_SCALE \in Nat
  BY <1>1, RadixAssumption, ScaleAssumption DEF E
<1>9. E # MAX_SCALE
  <2>1. SUFFICES ASSUME E = MAX_SCALE PROVE FALSE
    OBVIOUS
  <2>2. RPower(radix, E) <= Max96 /\ RPower(radix, E) > Max96
    BY <1>1, <1>7, <1>8, <2>1
  <2>3. RPower(radix, E) \in Nat /\ Max96 \in Nat
    BY <1>1, RPowerNext, BaseType
  <2>4. QED
    BY <2>2, <2>3
<1>10. QED
  BY <1>1, <1>8, <1>9

\* What a step that leaves the coefficient alone leaves alone.
LEMMA CoeffSame ==
    ASSUME radix' = radix, coeff' = coeff
    PROVE  CValue' = CValue
  BY DEF CValue

\* A state in which nothing is being read owes no more than its types and the result.
LEMMA RadixStopped ==
    ASSUME RTypeOK', rpc' \notin RRunning \union {"sign"}, RadixDigitsKept'
    PROVE  RadixInv'
<1>1. rpc' \notin {"sign", "collect", "round", "scale", "build"}
  BY DEF RRunning
<1>2. RSignPart' /\ RReadPart' /\ RCollectPart' /\ RValuePart' /\ RScalePart' /\ RBuildPart'
  BY <1>1 DEF RSignPart, RReadPart, RCollectPart, RValuePart, RScalePart, RBuildPart, RRunning
<1>3. QED
  BY <1>2 DEF RadixInv

\* The sign is taken off; an empty text is refused, and so is a radix that is not known.
LEMMA RadixSignStep == ASSUME RadixInv, RadixSign PROVE RadixInv'
<1>1. /\ RTypeOK /\ rpc = "sign" /\ unread = spelling /\ coeff = <<>> /\ beforeDot = -1
      /\ mantissa = 0 /\ index = 0 /\ rscale = 0
  BY DEF RadixInv, RSignPart, RadixSign
<1>2. /\ radix' = radix /\ spelling' = spelling /\ beforeDot' = beforeDot /\ coeff' = coeff /\ mantissa' = mantissa
      /\ index' = index /\ rscale' = rscale /\ number' = number
      /\ negative' = Reads({RMinus})
      /\ unread' = (IF Reads({RMinus, RPlus}) THEN Tail(unread) ELSE unread)
      /\ rpc' = (IF unread = <<>> \/ radix \notin DOMAIN EstimatedPrecision THEN "refused" ELSE "collect")
  BY DEF RadixSign
<1>3. spelling \in Seq(0..ROther)
  BY DEF RadixInv, RTypeOK
<1>4. unread' = RBody
  <2>1. spelling # <<>> => Head(spelling) = spelling[1]
    BY <1>3
  <2>2. QED
    BY <1>1, <1>2, <2>1 DEF Reads, RBody
<1>5. RTypeOK'
  <2>1. RBody \in Seq(0..ROther)
    BY <1>1, BodyFacts
  <2>2. rpc' \in {"refused", "collect"} /\ negative' \in BOOLEAN
    BY <1>2 DEF Reads
  <2>3. rpc' \in RRunning \union {"idle", "sign", "refused", "overflow", "panicked", "number"}
    BY <2>2 DEF RRunning
  <2>4. QED
    BY <1>1, <1>2, <1>4, <2>1, <2>2, <2>3 DEF RTypeOK
<1>6. CASE rpc' = "refused"
  <2>1. RadixDigitsKept'
    <3>1. ASSUME spelling = <<>> PROVE ~RWellFormed
      <4>1. RBody = <<>> /\ Len(RBody) = 0
        BY <3>1 DEF RBody
      <4>2. RDigits = 0
        BY <1>1, <4>1, BodyFacts DEF RDigits
      <4>3. QED
        BY <4>2 DEF RWellFormed
    <3>2. ~RWellFormed' \/ radix' \notin DOMAIN EstimatedPrecision
      BY <1>1, <1>2, <1>6, <3>1, TextSame
    <3>3. QED
      BY <1>6, <3>2 DEF RadixDigitsKept
  <2>2. rpc' \notin RRunning \union {"sign"}
    BY <1>6 DEF RRunning
  <2>3. QED
    BY <1>5, <2>1, <2>2, RadixStopped
<1>7. CASE rpc' = "collect"
  <2>1. spelling # <<>> /\ radix \in DOMAIN EstimatedPrecision
    BY <1>1, <1>2, <1>7
  <2>2. RBody' = RBody /\ RCount' = RCount /\ RValue' = RValue
    BY <1>2, TextSame
  <2>3. RRead' = 0 /\ Len(RBody) \in Nat /\ RBody \in Seq(0..ROther) /\ RCount[0] = 0 /\ RValue[0] = 0
    <3>1. Len(RBody) \in Nat
      BY <1>1, BodyFacts
    <3>2. RRead' = Len(RBody) - Len(RBody)
      BY <1>4, <2>2 DEF RRead
    <3> DEFINE l == Len(RBody)
    <3> HIDE DEF l
    <3>3. l - l = 0
      BY <3>1 DEF l
    <3>4. QED
      BY <1>1, <3>1, <3>2, <3>3, BodyFacts DEF l
  <2>4. Len(coeff) = 0 /\ CValue' = CValue /\ CValue[0] = 0
    BY <1>1, <1>2, CoeffFacts, CoeffSame
  <2>5. EstimatedPrecision[radix] \in Nat
    BY <1>1, <2>1, RadixFacts
  <2>6. RReadPart'
    <3>1. unread' = SubSeq(RBody, 1, Len(RBody)) /\ 0 + 1 = 1
      <4>1. SubSeq(RBody, 1, Len(RBody)) = RBody
        BY <2>3
      <4>2. QED
        BY <1>4, <4>1
    <3>2. negative' = (spelling[1] = RMinus)
      <4>1. Head(spelling) = spelling[1]
        BY <1>3, <2>1
      <4>2. QED
        BY <1>1, <1>2, <2>1, <4>1 DEF Reads
    <3>3. Len(unread') <= Len(RBody)
      BY <1>4, <2>3
    <3>4. unread' = SubSeq(RBody', RRead' + 1, Len(RBody')) /\ Len(unread') <= Len(RBody')
      BY <2>2, <2>3, <3>1, <3>3
    <3>5. Len(coeff') = RCount'[RRead']
      BY <1>2, <2>2, <2>3, <2>4
    <3>6. 1..RRead' = {}
      BY <2>3
    <3>7. radix' \in DOMAIN EstimatedPrecision /\ spelling' # <<>> /\ negative' = (spelling'[1] = RMinus)
      BY <1>2, <2>1, <3>2
    <3>8. QED
      BY <1>7, <3>4, <3>5, <3>6, <3>7 DEF RReadPart
  <2>7. RCollectPart'
    <3>1. DotRead'
      BY <1>1, <1>2, <2>3 DEF DotRead
    <3>2. \A i \in 0..0 : IsRead(i)'
      <4>1. IsRead(0)'
        <5>1. 0 \in 0..RRead'
          BY <2>3
        <5>2. QED
          BY <2>2, <2>3, <2>4, <5>1 DEF IsRead
      <4>2. QED
        BY <4>1
    <3>3. Len(coeff') = 0
      BY <1>2, <2>4
    <3>4. QED
      BY <1>2, <1>7, <2>5, <3>1, <3>2, <3>3 DEF RCollectPart
  <2>8. QED
    BY <1>1, <1>2, <1>5, <1>7, <2>6, <2>7
       DEF RadixInv, RSignPart, RValuePart, RScalePart, RBuildPart, RadixDigitsKept
<1>8. QED
  BY <1>2, <1>6, <1>7

\* A byte is taken off the text.
LEMMA ReadOn ==
    ASSUME RTypeOK, RReadPart, rpc \in RRunning, unread # <<>>, unread' = Tail(unread),
           radix' = radix, spelling' = spelling
    PROVE  /\ RRead' = RRead + 1 /\ RRead + 1 \in 1..Len(RBody) /\ Head(unread) = RBody[RRead + 1]
           /\ RRead \in Nat /\ RRead \in 0..Len(RBody) /\ (RRead + 1) - 1 = RRead
           /\ Len(unread') <= Len(RBody') /\ unread' = SubSeq(RBody', RRead' + 1, Len(RBody'))
           /\ unread' \in Seq(0..ROther)
<1>1. RBody' = RBody
  BY TextSame
<1>2. /\ RRead + 1 \in 1..Len(RBody) /\ Head(unread) = RBody[RRead + 1] /\ RRead \in Nat /\ RRead \in 0..Len(RBody)
      /\ Tail(unread) \in Seq(0..ROther) /\ Len(Tail(unread)) <= Len(RBody)
      /\ Len(RBody) - Len(Tail(unread)) = RRead + 1
      /\ Tail(unread) = SubSeq(RBody, (RRead + 1) + 1, Len(RBody))
  BY UnreadFacts
<1>3. RRead' = RRead + 1
  BY <1>1, <1>2 DEF RRead
<1>4. (RRead + 1) - 1 = RRead
  BY <1>2
<1>5. QED
  BY <1>1, <1>2, <1>3, <1>4

\* A digit behind a coefficient.
LEMMA ValueAppend ==
    ASSUME NEW t \in Seq(Nat), NEW d \in Nat, NEW r \in Nat
    PROVE  LET u == Append(t, d)
               v == ValueTo(t, Nat, r)
               w == ValueTo(u, Nat, r)
           IN  /\ u \in Seq(Nat) /\ Len(u) = Len(t) + 1 /\ Len(t) \in Nat
               /\ u[Len(t) + 1] = d /\ \A i \in 1..Len(t) : u[i] = t[i]
               /\ \A i \in 0..Len(t) : w[i] = v[i]
               /\ w[Len(t) + 1] = v[Len(t)] * r + d
<1> DEFINE u == Append(t, d)
           v == ValueTo(t, Nat, r)
           w == ValueTo(u, Nat, r)
           n == Len(t)
<1>1. u \in Seq(Nat) /\ Len(u) = n + 1 /\ n \in Nat /\ u[n + 1] = d /\ \A i \in 1..n : u[i] = t[i]
  BY AppendProperties
<1> HIDE DEF u
<1>2. \A i \in 0..n : w[i] = v[i]
  <2>1. n <= Len(t) /\ n <= Len(u) /\ \A i \in 1..n : t[i] = u[i]
    BY <1>1
  <2>2. \A i \in 0..n : v[i] = w[i]
    BY <1>1, <2>1, ValueAgree
  <2>3. QED
    BY <2>2
<1>3. w[n + 1] = w[n] * r + d
  <2>1. n + 1 \in 1..Len(u) /\ (n + 1) - 1 = n
    BY <1>1
  <2>2. \A i \in 1..Len(u) : w[i] = IF u[i] \in Nat THEN w[i - 1] * r + u[i] ELSE w[i - 1]
    BY <1>1, ValueSteps
  <2> HIDE DEF w, n
  <2>3. QED
    BY <1>1, <2>1, <2>2
<1>4. n \in 0..n
  BY <1>1
<1>5. QED
  BY <1>1, <1>2, <1>3, <1>4 DEF u

\* While digits are collected nothing else is owed.
LEMMA StillReading ==
    ASSUME RTypeOK', rpc' \in {"collect", "round"}, RReadPart', RCollectPart',
           mantissa' = 0, index' = 0, rscale' = 0
    PROVE  RadixInv'
  BY DEF RadixInv, RSignPart, RValuePart, RScalePart, RBuildPart, RadixDigitsKept

\* A digit of the text is collected, as long as the array has room.
LEMMA CollectStep == ASSUME RadixInv, Collect PROVE RadixInv'
<1> DEFINE R == RRead
           L == Len(coeff)
           d == Head(unread)
<1>1. /\ RTypeOK /\ RReadPart /\ RCollectPart /\ rpc = "collect" /\ rpc \in RRunning
      /\ unread # <<>> /\ d \in 0..(radix - 1) /\ radix \in DOMAIN EstimatedPrecision
      /\ mantissa = 0 /\ index = 0 /\ rscale = 0
  BY DEF RadixInv, RReadPart, Collect, Reads, RRunning, RSignPart
<1>2. /\ radix' = radix /\ spelling' = spelling /\ negative' = negative /\ beforeDot' = beforeDot
      /\ mantissa' = mantissa /\ index' = index /\ rscale' = rscale /\ number' = number
  BY DEF Collect
<1>3. /\ RBody' = RBody /\ RCount' = RCount /\ RValue' = RValue /\ RWellFormed' = RWellFormed
      /\ RFraction' = RFraction /\ RDigits' = RDigits
  BY <1>2, TextSame
<1>4. R + 1 \in 1..Len(RBody) /\ d = RBody[R + 1] /\ R \in Nat /\ R \in 0..Len(RBody) /\ (R + 1) - 1 = R /\ d \in Nat
  <2>1. R + 1 \in 1..Len(RBody) /\ d = RBody[R + 1] /\ R \in Nat /\ R \in 0..Len(RBody) /\ d \in Nat
    BY <1>1, UnreadFacts
  <2>2. QED
    BY <2>1
<1>5. DotRead /\ L <= EstimatedPrecision[radix] /\ EstimatedPrecision[radix] \in Nat
  BY <1>1, RadixFacts DEF RCollectPart
<1>6. L = RCount[R] /\ L \in Nat /\ beforeDot <= L
  <2>1. L = RCount[R] /\ L \in Nat /\ (beforeDot # -1 => beforeDot <= L)
    BY <1>1, <1>5, DotFacts
  <2>2. QED
    BY <2>1
<1>7. RCount[R + 1] = L + 1 /\ RValue[R + 1] = RValue[R] * radix + d
  <2>1. RBody[R + 1] \in 0..(radix - 1)
    BY <1>1, <1>4
  <2>2. /\ RCount[R + 1] = IF RBody[R + 1] \in 0..(radix - 1) THEN RCount[(R + 1) - 1] + 1 ELSE RCount[(R + 1) - 1]
        /\ RValue[R + 1] = IF RBody[R + 1] \in 0..(radix - 1) THEN RValue[(R + 1) - 1] * radix + RBody[R + 1]
                           ELSE RValue[(R + 1) - 1]
    BY <1>1, <1>4, BodyFacts
  <2>3. QED
    BY <1>4, <1>6, <2>1, <2>2
<1>8. CASE L = CoefficientCapacity
  <2>1. rpc' = "panicked" /\ coeff' = coeff /\ unread' = unread
    BY <1>8 DEF Collect
  <2>2. RTypeOK'
    <3>1. rpc' \in RRunning \union {"idle", "sign", "refused", "overflow", "panicked", "number"}
      BY <2>1
    <3>2. QED
      BY <1>1, <1>2, <2>1, <3>1 DEF RTypeOK
  <2>3. RDigits > CoefficientCapacity
    <3>1. R + 1 \in 0..Len(RBody) /\ Len(RBody) \in 0..Len(RBody) /\ R + 1 \in 0..Len(RBody)
      BY <1>1, <1>4, BodyFacts
    <3>2. RCount[R + 1] \in Nat /\ RDigits \in Nat /\ RCount[R + 1] <= RDigits
      BY <1>1, <3>1, BodyFacts, CountGrows DEF RCount, RDigits
    <3>3. QED
      BY <1>6, <1>7, <1>8, <3>2
  <2>4. RadixDigitsKept'
    BY <1>3, <2>1, <2>3 DEF RadixDigitsKept
  <2>5. rpc' \notin RRunning \union {"sign"}
    BY <2>1 DEF RRunning
  <2>6. QED
    BY <2>2, <2>4, <2>5, RadixStopped
<1>9. CASE L # CoefficientCapacity
  <2>1. /\ coeff' = Append(coeff, d) /\ unread' = Tail(unread)
        /\ rpc' = IF Len(coeff') > EstimatedPrecision[radix] THEN "round" ELSE "collect"
    BY <1>9 DEF Collect
  <2>2. coeff \in Seq(Nat) /\ radix \in Nat
    BY <1>1 DEF RTypeOK
  <2>3. /\ coeff' \in Seq(Nat) /\ Len(coeff') = L + 1 /\ coeff'[L + 1] = d /\ \A i \in 1..L : coeff'[i] = coeff[i]
        /\ \A i \in 0..L : CValue'[i] = CValue[i]
        /\ CValue'[L + 1] = CValue[L] * radix + d
    <3> DEFINE t == coeff
               v == ValueTo(coeff, Nat, radix)
               u == Append(coeff, d)
               w == ValueTo(u, Nat, radix)
    <3>1. /\ u \in Seq(Nat) /\ Len(u) = L + 1 /\ u[L + 1] = d /\ \A i \in 1..L : u[i] = coeff[i]
          /\ \A i \in 0..L : w[i] = v[i]
          /\ w[L + 1] = v[L] * radix + d
      BY <1>4, <2>2, ValueAppend
    <3>2. CValue = v /\ coeff' = u /\ CValue' = w
      BY <1>2, <2>1 DEF CValue
    <3> HIDE DEF u, v, w
    <3>3. QED
      BY <3>1, <3>2
  <2>4. /\ RRead' = R + 1 /\ unread' \in Seq(0..ROther)
        /\ Len(unread') <= Len(RBody') /\ unread' = SubSeq(RBody', RRead' + 1, Len(RBody'))
    BY <1>1, <1>2, <2>1, ReadOn
  <2>5. rpc' \in {"collect", "round"}
    BY <2>1
  <2>6. RTypeOK'
    <3>1. rpc' \in RRunning \union {"idle", "sign", "refused", "overflow", "panicked", "number"}
      BY <2>5 DEF RRunning
    <3>2. index' \in 0..Len(coeff')
      BY <1>1, <1>2, <1>6, <2>3
    <3>3. QED
      BY <1>1, <1>2, <2>3, <2>4, <3>1, <3>2 DEF RTypeOK
  <2>7. RReadPart'
    <3>1. Len(coeff') = RCount'[RRead']
      BY <1>3, <1>7, <2>3, <2>4
    <3>2. \A i \in 1..RRead' : /\ RBody'[i] \in 0..(radix' - 1) \union {RPoint, RUnderscore}
                               /\ RBody'[i] = RUnderscore => RCount'[i] > 0
      <4>1. \A i \in 1..R : /\ RBody[i] \in 0..(radix - 1) \union {RPoint, RUnderscore}
                            /\ RBody[i] = RUnderscore => RCount[i] > 0
        BY <1>1 DEF RReadPart
      <4>2. RBody[R + 1] \in 0..(radix - 1) /\ RBody[R + 1] # RUnderscore
        BY <1>1, <1>4, RadixFacts
      <4>3. \A i \in 1..(R + 1) : i \in 1..R \/ i = R + 1
        BY <1>4
      <4>4. QED
        BY <1>2, <1>3, <2>4, <4>1, <4>2, <4>3
    <3>3. rpc' = "round" => Len(coeff') = EstimatedPrecision[radix'] + 1
      BY <1>2, <1>5, <1>6, <2>1, <2>3
    <3>4. radix' \in DOMAIN EstimatedPrecision /\ spelling' # <<>> /\ negative' = (spelling'[1] = RMinus)
      BY <1>1, <1>2 DEF RReadPart
    <3>5. QED
      BY <2>4, <2>5, <3>1, <3>2, <3>3, <3>4 DEF RReadPart
  <2>8. RCollectPart'
    <3>1. DotRead'
      <4>1. RBody[R + 1] # RPoint
        BY <1>1, <1>4, RadixFacts
      <4>2. \A i \in 1..(R + 1) : i \in 1..R \/ i = R + 1
        BY <1>4
      <4>3. 1..R \subseteq 1..(R + 1)
        BY <1>4
      <4>4. \/ beforeDot = -1 /\ \A i \in 1..(R + 1) : RBody[i] # RPoint
            \/ \E j \in 1..(R + 1) :
                  /\ RBody[j] = RPoint /\ beforeDot = RCount[j]
                  /\ \A i \in 1..(R + 1) : RBody[i] = RPoint => i = j
        <5>1. CASE beforeDot = -1 /\ \A i \in 1..R : RBody[i] # RPoint
          BY <4>1, <4>2, <5>1
        <5>2. ASSUME NEW j \in 1..R, RBody[j] = RPoint /\ beforeDot = RCount[j],
                     \A i \in 1..R : RBody[i] = RPoint => i = j
              PROVE  \E k \in 1..(R + 1) :
                        /\ RBody[k] = RPoint /\ beforeDot = RCount[k]
                        /\ \A i \in 1..(R + 1) : RBody[i] = RPoint => i = k
          BY <4>1, <4>2, <4>3, <5>2
        <5>3. QED
          BY <1>5, <5>1, <5>2 DEF DotRead
      <4>5. QED
        BY <1>2, <1>3, <2>4, <4>4 DEF DotRead
    <3>2. \A i \in 1..Len(coeff') : coeff'[i] \in 0..(radix' - 1)
      <4>1. \A i \in 1..L : coeff[i] \in 0..(radix - 1)
        BY <1>1 DEF RCollectPart
      <4>2. \A i \in 1..(L + 1) : i \in 1..L \/ i = L + 1
        BY <1>6
      <4>3. QED
        BY <1>1, <1>2, <2>3, <4>1, <4>2
    <3>3. \A i \in 0..Len(coeff') : IsRead(i)'
      <4>1. \A i \in 0..L : \E j \in 0..R : RCount[j] = i /\ RValue[j] = CValue[i]
        BY <1>1 DEF RCollectPart, IsRead
      <4>2. \A i \in 0..L : IsRead(i)'
        <5>1. 0..R \subseteq 0..(R + 1)
          BY <1>4
        <5>2. SUFFICES ASSUME NEW i \in 0..L PROVE \E j \in 0..RRead' : RCount'[j] = i /\ RValue'[j] = CValue'[i]
          BY DEF IsRead
        <5>3. PICK j \in 0..R : RCount[j] = i /\ RValue[j] = CValue[i]
          BY <4>1
        <5>4. j \in 0..RRead' /\ CValue'[i] = CValue[i]
          BY <2>3, <2>4, <5>1
        <5>5. QED
          BY <1>3, <5>3, <5>4
      <4>3. \E j \in 0..RRead' : RCount'[j] = L + 1 /\ RValue'[j] = CValue'[L + 1]
        <5>1. PICK j \in 0..R : RCount[j] = L /\ RValue[j] = CValue[L]
          <6>1. L \in 0..L
            BY <1>6
          <6>2. QED
            BY <4>1, <6>1
        <5>2. j \in 0..Len(RBody)
          BY <1>4
        <5>3. RValue[j] = RValue[R]
          BY <1>1, <1>4, <1>6, <5>1, <5>2, BodySame
        <5>4. RValue[R + 1] = CValue'[L + 1]
          BY <1>7, <2>3, <5>1, <5>3
        <5>5. R + 1 \in 0..(R + 1)
          BY <1>4
        <5>6. QED
          BY <1>3, <1>7, <2>4, <5>4, <5>5
      <4>4. \A i \in 0..(L + 1) : i \in 0..L \/ i = L + 1
        BY <1>6
      <4>5. SUFFICES ASSUME NEW i \in 0..(L + 1) PROVE IsRead(i)'
        BY <2>3
      <4>6. CASE i \in 0..L
        BY <4>2, <4>6
      <4>7. CASE i = L + 1
        <5>1. \E j \in 0..RRead' : RCount'[j] = i /\ RValue'[j] = CValue'[i]
          BY <4>3, <4>7
        <5>2. QED
          BY <5>1 DEF IsRead
      <4>8. QED
        BY <4>4, <4>6, <4>7
    <3>4. rpc' = "collect" => Len(coeff') <= EstimatedPrecision[radix']
      BY <1>2, <1>5, <1>6, <2>1, <2>3
    <3>5. rpc' = "round" => beforeDot' < Len(coeff')
      <4>1. beforeDot \in Int
        BY <1>1 DEF RTypeOK
      <4>2. QED
        BY <1>2, <1>6, <2>3, <4>1
    <3>6. QED
      BY <3>1, <3>2, <3>3, <3>4, <3>5 DEF RCollectPart
  <2>9. QED
    BY <1>1, <1>2, <2>5, <2>6, <2>7, <2>8, StillReading
<1>10. QED
  BY <1>8, <1>9

\* A point or a separator is passed over.
LEMMA PassedOver ==
    ASSUME RadixInv, rpc = "collect", rpc' = rpc, unread # <<>>, unread' = Tail(unread), Head(unread) \in {RPoint, RUnderscore},
           Head(unread) = RUnderscore => coeff # <<>>,
           coeff' = coeff, radix' = radix, spelling' = spelling, negative' = negative,
           mantissa' = mantissa, index' = index, rscale' = rscale, number' = number,
           beforeDot' \in Nat \union {-1}, DotRead'
    PROVE  RadixInv'
<1> DEFINE R == RRead
           L == Len(coeff)
           d == Head(unread)
<1>1. /\ RTypeOK /\ RReadPart /\ RCollectPart /\ rpc \in RRunning
      /\ radix \in DOMAIN EstimatedPrecision /\ mantissa = 0 /\ index = 0 /\ rscale = 0
  BY DEF RadixInv, RReadPart, RRunning, RSignPart
<1>2. RBody' = RBody /\ RCount' = RCount /\ RValue' = RValue /\ CValue' = CValue
  BY TextSame, CoeffSame
<1>3. /\ RRead' = R + 1 /\ R + 1 \in 1..Len(RBody) /\ d = RBody[R + 1] /\ R \in Nat /\ (R + 1) - 1 = R
      /\ R \in 0..Len(RBody)
      /\ Len(unread') <= Len(RBody') /\ unread' = SubSeq(RBody', RRead' + 1, Len(RBody')) /\ unread' \in Seq(0..ROther)
  BY <1>1, ReadOn
<1>4. RCount[R + 1] = RCount[R]
  <2>1. RBody[R + 1] \notin 0..(radix - 1)
    BY <1>1, <1>3, RadixFacts
  <2>2. RCount[R + 1] = IF RBody[R + 1] \in 0..(radix - 1) THEN RCount[(R + 1) - 1] + 1 ELSE RCount[(R + 1) - 1]
    BY <1>1, <1>3, BodyFacts
  <2>3. QED
    BY <1>3, <2>1, <2>2
<1>5. L = RCount[R] /\ L \in Nat
  BY <1>1, CoeffFacts DEF RReadPart
<1>6. RTypeOK'
  BY <1>1, <1>3 DEF RTypeOK
<1>7. RReadPart'
  <2>1. Len(coeff') = RCount'[RRead']
    BY <1>2, <1>3, <1>4, <1>5
  <2>2. \A i \in 1..RRead' : /\ RBody'[i] \in 0..(radix' - 1) \union {RPoint, RUnderscore}
                             /\ RBody'[i] = RUnderscore => RCount'[i] > 0
    <3>1. \A i \in 1..R : /\ RBody[i] \in 0..(radix - 1) \union {RPoint, RUnderscore}
                          /\ RBody[i] = RUnderscore => RCount[i] > 0
      BY <1>1 DEF RReadPart
    <3>2. RBody[R + 1] \in {RPoint, RUnderscore} /\ (RBody[R + 1] = RUnderscore => RCount[R + 1] > 0)
      <4>1. coeff # <<>> => L > 0
        <5>1. coeff # <<>> => Len(coeff) # 0
          BY <1>1, EmptySeq DEF RTypeOK
        <5>2. QED
          BY <1>5, <5>1
      <4>2. QED
        BY <1>3, <1>4, <1>5, <4>1
    <3>3. \A i \in 1..(R + 1) : i \in 1..R \/ i = R + 1
      BY <1>3
    <3>4. QED
      BY <1>2, <1>3, <3>1, <3>2, <3>3
  <2>3. radix' \in DOMAIN EstimatedPrecision /\ spelling' # <<>> /\ negative' = (spelling'[1] = RMinus)
    BY <1>1 DEF RReadPart
  <2>4. QED
    BY <1>3, <2>1, <2>2, <2>3 DEF RReadPart
<1>8. RCollectPart'
  <2>1. \A i \in 1..Len(coeff') : coeff'[i] \in 0..(radix' - 1)
    BY <1>1 DEF RCollectPart
  <2>2. \A i \in 0..Len(coeff') : IsRead(i)'
    <3>1. \A i \in 0..L : \E j \in 0..R : RCount[j] = i /\ RValue[j] = CValue[i]
      BY <1>1 DEF RCollectPart, IsRead
    <3>2. 0..R \subseteq 0..(R + 1)
      BY <1>3
    <3>3. SUFFICES ASSUME NEW i \in 0..L PROVE \E j \in 0..RRead' : RCount'[j] = i /\ RValue'[j] = CValue'[i]
      BY DEF IsRead
    <3>4. QED
      BY <1>2, <1>3, <3>1, <3>2
  <2>3. Len(coeff') <= EstimatedPrecision[radix']
    BY <1>1 DEF RCollectPart
  <2>4. QED
    BY <2>1, <2>2, <2>3 DEF RCollectPart
<1>9. QED
  BY <1>1, <1>6, <1>7, <1>8, StillReading

\* The first point is where the digits so far end.
LEMMA DotSeenStep == ASSUME RadixInv, DotSeen PROVE RadixInv'
<1> DEFINE R == RRead
           L == Len(coeff)
<1>1. /\ RTypeOK /\ RReadPart /\ RCollectPart /\ rpc = "collect" /\ rpc \in RRunning
      /\ unread # <<>> /\ Head(unread) = RPoint /\ radix \in DOMAIN EstimatedPrecision /\ beforeDot < 0
  BY DEF RadixInv, RReadPart, DotSeen, Reads, RRunning
<1>2. /\ radix' = radix /\ spelling' = spelling /\ negative' = negative /\ coeff' = coeff /\ rpc' = rpc
      /\ mantissa' = mantissa /\ index' = index /\ rscale' = rscale /\ number' = number
      /\ beforeDot' = L /\ unread' = Tail(unread)
  BY DEF DotSeen
<1>3. RBody' = RBody /\ RCount' = RCount
  BY <1>2, TextSame
<1>4. /\ RRead' = R + 1 /\ R + 1 \in 1..Len(RBody) /\ RBody[R + 1] = RPoint /\ R \in Nat /\ (R + 1) - 1 = R
      /\ R \in 0..Len(RBody)
  BY <1>1, <1>2, ReadOn
<1>5. L = RCount[R] /\ L \in Nat /\ beforeDot = -1
  BY <1>1, CoeffFacts DEF RReadPart, RTypeOK
<1>6. RCount[R + 1] = RCount[R]
  <2>1. RBody[R + 1] \notin 0..(radix - 1)
    BY <1>1, <1>4, RadixFacts
  <2>2. RCount[R + 1] = IF RBody[R + 1] \in 0..(radix - 1) THEN RCount[(R + 1) - 1] + 1 ELSE RCount[(R + 1) - 1]
    BY <1>1, <1>4, BodyFacts
  <2>3. QED
    BY <1>4, <2>1, <2>2
<1>7. \A i \in 1..R : RBody[i] # RPoint
  <2>1. CASE \A i \in 1..R : RBody[i] # RPoint
    BY <2>1
  <2>2. CASE \E j \in 1..R : RBody[j] = RPoint /\ beforeDot = RCount[j]
    <3>1. PICK j \in 1..R : beforeDot = RCount[j]
      BY <2>2
    <3>2. j \in 0..Len(RBody)
      BY <1>4
    <3>3. RCount[j] \in Nat
      BY <1>1, <3>2, BodyFacts
    <3>4. QED
      BY <1>5, <3>1, <3>3
  <2>3. DotRead
    BY <1>1 DEF RCollectPart
  <2>4. QED
    BY <2>1, <2>2, <2>3 DEF DotRead
<1>8. DotRead'
  <2>1. R + 1 \in 1..RRead' /\ RBody'[R + 1] = RPoint /\ beforeDot' = RCount'[R + 1]
    BY <1>2, <1>3, <1>4, <1>5, <1>6
  <2>2. \A i \in 1..RRead' : RBody'[i] = RPoint => i = R + 1
    BY <1>3, <1>4, <1>7
  <2>3. QED
    BY <2>1, <2>2 DEF DotRead
<1>9. Head(unread) # RUnderscore /\ beforeDot' \in Nat \union {-1}
  BY <1>1, <1>2, <1>5 DEF RPoint, RUnderscore
<1>10. QED
  BY <1>1, <1>2, <1>8, <1>9, PassedOver

\* A separator behind a digit is passed over.
LEMMA SkipUnderscoreStep == ASSUME RadixInv, SkipUnderscore PROVE RadixInv'
<1> DEFINE R == RRead
<1>1. /\ RTypeOK /\ RReadPart /\ RCollectPart /\ rpc = "collect" /\ rpc \in RRunning
      /\ unread # <<>> /\ Head(unread) = RUnderscore /\ coeff # <<>>
  BY DEF RadixInv, RReadPart, SkipUnderscore, Reads, RRunning
<1>2. /\ radix' = radix /\ spelling' = spelling /\ negative' = negative /\ coeff' = coeff /\ rpc' = rpc
      /\ mantissa' = mantissa /\ index' = index /\ rscale' = rscale /\ number' = number
      /\ beforeDot' = beforeDot /\ unread' = Tail(unread)
  BY DEF SkipUnderscore
<1>3. RBody' = RBody /\ RCount' = RCount
  BY <1>2, TextSame
<1>4. RRead' = R + 1 /\ RBody[R + 1] = RUnderscore /\ R \in Nat
  BY <1>1, <1>2, ReadOn
<1>5. DotRead'
  <2>1. RBody[R + 1] # RPoint
    BY <1>4 DEF RPoint, RUnderscore
  <2>2. \A i \in 1..(R + 1) : i \in 1..R \/ i = R + 1
    BY <1>4
  <2>3. 1..R \subseteq 1..(R + 1)
    BY <1>4
  <2>4. CASE beforeDot = -1 /\ \A i \in 1..R : RBody[i] # RPoint
    BY <1>2, <1>3, <1>4, <2>1, <2>2, <2>4 DEF DotRead
  <2>5. CASE \E j \in 1..R : /\ RBody[j] = RPoint /\ beforeDot = RCount[j]
                             /\ \A i \in 1..R : RBody[i] = RPoint => i = j
    <3>1. PICK j \in 1..R : /\ RBody[j] = RPoint /\ beforeDot = RCount[j]
                            /\ \A i \in 1..R : RBody[i] = RPoint => i = j
      BY <2>5
    <3>2. j \in 1..RRead' /\ RBody'[j] = RPoint /\ beforeDot' = RCount'[j]
      BY <1>2, <1>3, <1>4, <2>3, <3>1
    <3>3. \A i \in 1..RRead' : RBody'[i] = RPoint => i = j
      BY <1>3, <1>4, <2>1, <2>2, <3>1
    <3>4. QED
      BY <3>2, <3>3 DEF DotRead
  <2>6. DotRead
    BY <1>1 DEF RCollectPart
  <2>7. QED
    BY <2>4, <2>5, <2>6 DEF DotRead
<1>6. beforeDot' \in Nat \union {-1}
  BY <1>1, <1>2 DEF RTypeOK
<1>7. QED
  BY <1>1, <1>2, <1>5, <1>6, PassedOver

\* A separator before any digit, a second point and any other byte refuse the text.
LEMMA BadByteStep == ASSUME RadixInv, BadByte PROVE RadixInv'
<1> DEFINE R == RRead
           d == Head(unread)
<1>1. /\ RTypeOK /\ RReadPart /\ RCollectPart /\ rpc \in {"collect", "round"} /\ rpc \in RRunning
      /\ unread # <<>> /\ radix \in DOMAIN EstimatedPrecision
  BY DEF RadixInv, RReadPart, BadByte, RRunning
<1>2. /\ rpc' = "refused" /\ radix' = radix /\ spelling' = spelling /\ unread' = unread /\ negative' = negative
      /\ beforeDot' = beforeDot /\ coeff' = coeff /\ mantissa' = mantissa /\ index' = index /\ rscale' = rscale
      /\ number' = number
  BY DEF BadByte
<1>3. /\ d \notin 0..(radix - 1)
      /\ d = RPoint => beforeDot >= 0
      /\ d = RUnderscore => coeff = <<>>
  <2>1. beforeDot \in Int
    BY <1>1 DEF RTypeOK
  <2>2. CASE rpc = "collect"
    <3>1. d \notin 0..(radix - 1) /\ ~(d = RPoint /\ beforeDot < 0) /\ ~(d = RUnderscore /\ coeff # <<>>)
      BY <1>1, <2>2 DEF BadByte, Reads
    <3> HIDE DEF d
    <3>2. QED
      BY <2>1, <3>1
  <2>3. CASE rpc = "round"
    <3>1. d \notin 0..(radix - 1) \union {RUnderscore} /\ ~(d = RPoint /\ beforeDot < 0)
      BY <1>1, <2>3 DEF BadByte, Reads
    <3> HIDE DEF d
    <3>2. QED
      BY <2>1, <3>1
  <2>4. QED
    BY <1>1, <2>2, <2>3
<1>4. R + 1 \in 1..Len(RBody) /\ d = RBody[R + 1] /\ R \in Nat /\ R \in 0..Len(RBody)
  BY <1>1, UnreadFacts
<1>5. DOMAIN RBody = 1..Len(RBody)
  BY <1>1, BodyFacts
<1>6. ~RWellFormed
  <2>1. CASE d = RPoint
    <3>1. beforeDot # -1 /\ DotRead
      BY <1>1, <1>3, <2>1 DEF RCollectPart
    <3>2. PICK j \in 1..R : RBody[j] = RPoint
      BY <3>1 DEF DotRead
    <3>3. j \in RDots /\ R + 1 \in RDots /\ j # R + 1
      BY <1>4, <1>5, <2>1, <3>2 DEF RDots
    <3>4. QED
      BY <3>3 DEF RWellFormed
  <2>2. CASE d = RUnderscore
    <3>1. RCount[R] = 0
      <4>1. Len(coeff) = 0
        BY <1>3, <2>2
      <4>2. QED
        BY <1>1, <4>1 DEF RReadPart
    <3>2. RCount[R + 1] = 0
      <4>1. RBody[R + 1] \notin 0..(radix - 1) /\ (R + 1) - 1 = R
        BY <1>3, <1>4
      <4>2. RCount[R + 1] = IF RBody[R + 1] \in 0..(radix - 1) THEN RCount[(R + 1) - 1] + 1 ELSE RCount[(R + 1) - 1]
        BY <1>1, <1>4, BodyFacts
      <4>3. QED
        BY <3>1, <4>1, <4>2
    <3>3. ~(RCount[R + 1] > 0) /\ RBody[R + 1] = RUnderscore /\ R + 1 \in DOMAIN RBody
      BY <1>4, <1>5, <2>2, <3>2
    <3>4. QED
      BY <3>3 DEF RWellFormed
  <2>3. CASE d \notin 0..(radix - 1) \union {RPoint, RUnderscore}
    BY <1>4, <1>5, <2>3 DEF RWellFormed
  <2>4. QED
    BY <1>3, <2>1, <2>2, <2>3
<1>7. RadixDigitsKept'
  <2>1. RWellFormed' = RWellFormed
    BY <1>2, TextSame
  <2>2. QED
    BY <1>2, <1>6, <2>1 DEF RadixDigitsKept
<1>8. RTypeOK'
  BY <1>1, <1>2 DEF RTypeOK
<1>9. QED
  BY <1>2, <1>7, <1>8, RadixStopped DEF RRunning

-----------------------------------------------------------------------------
(***************************************************************************)
(* The end of the digits, and the rounding of the last of them.            *)
(***************************************************************************)
\* Behind the digits the text is left alone.
LEMMA ReadKept ==
    ASSUME RTypeOK, RReadPart, rpc \in RRunning, rpc' \in {"scale", "build"}, unread' = unread,
           radix' = radix, spelling' = spelling, negative' = negative, Len(coeff') = Len(coeff),
           unread = <<>> \/ Len(coeff) = EstimatedPrecision[radix] + 1
    PROVE  RReadPart' /\ RRead' = RRead
<1>1. RBody' = RBody /\ RCount' = RCount
  BY TextSame
<1>2. RRead' = RRead
  BY <1>1 DEF RRead
<1>3. /\ radix' \in DOMAIN EstimatedPrecision
      /\ spelling' # <<>> /\ negative' = (spelling'[1] = RMinus)
      /\ Len(unread') <= Len(RBody') /\ unread' = SubSeq(RBody', RRead' + 1, Len(RBody'))
      /\ Len(coeff') = RCount'[RRead']
      /\ \A i \in 1..RRead' : /\ RBody'[i] \in 0..(radix' - 1) \union {RPoint, RUnderscore}
                              /\ RBody'[i] = RUnderscore => RCount'[i] > 0
  BY <1>1, <1>2 DEF RReadPart
<1>4. rpc' # "round" /\ (unread' = <<>> \/ Len(coeff') = EstimatedPrecision[radix'] + 1)
  OBVIOUS
<1>5. QED
  BY <1>2, <1>3, <1>4 DEF RReadPart

\* The point stays where it was, and what is behind it too.
LEMMA DotKept ==
    ASSUME DotRead, radix' = radix, spelling' = spelling, unread' = unread, beforeDot' = beforeDot
    PROVE  DotRead'
<1>1. RBody' = RBody /\ RCount' = RCount
  BY TextSame
<1>2. RRead' = RRead
  BY <1>1 DEF RRead
<1>3. QED
  BY <1>1, <1>2 DEF DotRead

\* A digit of the text stays one.
LEMMA IsReadKept ==
    ASSUME radix' = radix, spelling' = spelling, unread' = unread, NEW i, IsRead(i), CValue'[i] = CValue[i]
    PROVE  IsRead(i)'
<1>1. RBody' = RBody /\ RCount' = RCount /\ RValue' = RValue
  BY TextSame
<1>2. RRead' = RRead
  BY <1>1 DEF RRead
<1>3. QED
  BY <1>1, <1>2 DEF IsRead

\* Before the digits are multiplied in.
LEMMA ReadyToBuild ==
    ASSUME RTypeOK', rpc' = "scale", RReadPart', RValuePart', RScalePart', mantissa' = 0, index' = 0, rscale' = 0
    PROVE  RadixInv'
  BY DEF RadixInv, RSignPart, RCollectPart, RBuildPart, RadixDigitsKept

\* The places a point leaves to a coefficient are those of the fraction.
LEMMA PlacesRead ==
    ASSUME RTypeOK, RReadPart, rpc \in RRunning, DotRead
    PROVE  beforeDot <= Len(coeff) /\ (beforeDot >= 0 => Len(coeff) - beforeDot <= RFraction)
<1>1. /\ RDigits \in Nat /\ RWhole \in Nat /\ RFraction = RDigits - RWhole /\ Len(coeff) \in Nat /\ Len(coeff) <= RDigits
      /\ beforeDot # -1 => beforeDot \in Nat /\ RWhole = beforeDot /\ beforeDot <= Len(coeff)
  BY DotFacts
<1> DEFINE L == Len(coeff)
<1>2. beforeDot = -1 \/ beforeDot \in Nat
  BY DEF RTypeOK
<1> HIDE DEF L
<1>3. QED
  BY <1>1, <1>2 DEF L

\* All of the text is read.
LEMMA CollectEndStep == ASSUME RadixInv, CollectEnd PROVE RadixInv'
<1> DEFINE L == Len(coeff)
<1>1. /\ RTypeOK /\ RReadPart /\ RCollectPart /\ rpc = "collect" /\ rpc \in RRunning /\ unread = <<>>
      /\ mantissa = 0 /\ index = 0 /\ rscale = 0 /\ DotRead
  BY DEF RadixInv, RSignPart, RCollectPart, RRunning, CollectEnd
<1>2. /\ rpc' = "scale" /\ radix' = radix /\ spelling' = spelling /\ unread' = unread /\ negative' = negative
      /\ beforeDot' = beforeDot /\ coeff' = coeff /\ mantissa' = mantissa /\ index' = index /\ rscale' = rscale
      /\ number' = number
  BY DEF CollectEnd
<1>3. RReadPart'
  BY <1>1, <1>2, ReadKept
<1>4. L \in Nat /\ CValue' = CValue
  BY <1>1, <1>2, CoeffFacts, CoeffSame
<1>5. RValuePart'
  <2>1. DotRead'
    BY <1>1, <1>2, DotKept
  <2>2. \A i \in 0..L : IsRead(i)'
    <3>1. SUFFICES ASSUME NEW i \in 0..L PROVE IsRead(i)'
      OBVIOUS
    <3>2. IsRead(i)
      BY <1>1 DEF RCollectPart
    <3>3. QED
      BY <1>2, <1>4, <3>2, IsReadKept
  <2>3. \A i \in 1..L : coeff[i] \in 0..(radix - 1)
    BY <1>1 DEF RCollectPart
  <2>4. \A i \in 0..(Len(coeff') - 1) : IsRead(i)'
    BY <1>2, <1>4, <2>2
  <2>5. \A i \in 1..(Len(coeff') - 1) : coeff'[i] \in 0..(radix' - 1)
    BY <1>2, <1>4, <2>3
  <2>6. IsRead(Len(coeff))'
    <3>1. \E j \in 0..RRead' : RCount'[j] = L /\ RValue'[j] = CValue'[L]
      <4>1. L \in 0..L
        BY <1>4
      <4>2. QED
        BY <2>2, <4>1 DEF IsRead
    <3>2. Len(coeff') = L
      BY <1>2
    <3>3. QED
      BY <3>1, <3>2 DEF IsRead
  <2>7. coeff' # <<>> => coeff'[Len(coeff')] \in 0..(radix' - 1)
    <3>1. coeff # <<>> => L \in 1..L
      <4>1. coeff # <<>> => L # 0
        BY <1>1, EmptySeq DEF RTypeOK
      <4>2. QED
        BY <1>4, <4>1
    <3>2. QED
      BY <1>2, <2>3, <3>1
  <2>8. QED
    BY <2>1, <2>4, <2>5, <2>6, <2>7 DEF RValuePart
<1>6. RScalePart'
  <2>1. beforeDot <= L /\ (beforeDot >= 0 => L - beforeDot <= RFraction)
    BY <1>1, PlacesRead
  <2>2. RFraction' = RFraction
    BY <1>2, TextSame
  <2>3. QED
    BY <1>2, <2>1, <2>2 DEF RScalePart
<1>7. RTypeOK'
  BY <1>1, <1>2 DEF RTypeOK, RRunning
<1>8. QED
  BY <1>1, <1>2, <1>3, <1>5, <1>6, <1>7, ReadyToBuild

\* A carry keeps the length; in a radix below ten it ends at once.
LEMMA CarriedFacts ==
    ASSUME NEW c \in Seq(Nat)
    PROVE  /\ Carried(c) \in Seq(Nat) /\ Len(Carried(c)) = Len(c)
           /\ (Len(c) >= 1 /\ c[Len(c)] + 1 <= Ten - 1) =>
                \A i \in 1..Len(c) : Carried(c)[i] = IF i = Len(c) THEN c[i] + 1 ELSE c[i]
<1> DEFINE L == Len(c)
           nines == {k \in 0..L : \A i \in (L - k + 1)..L : c[i] + 1 > Ten - 1}
           k == CHOOSE h \in nines : \A l \in nines : l <= h
           w == [i \in 1..L |-> IF i > L - k THEN 0 ELSE IF i = L - k THEN c[i] + 1 ELSE c[i]]
<1>1. Carried(c) = w
  BY DEF Carried
<1>2. L \in Nat /\ \A i \in 1..L : c[i] \in Nat
  BY ElementOfSeq
<1> HIDE DEF k
<1>3. w \in [1..L -> Nat]
  <2>1. \A i \in 1..L : c[i] \in Nat /\ c[i] + 1 \in Nat
    BY <1>2
  <2> HIDE DEF L
  <2>2. QED
    BY <2>1
<1>4. w \in Seq(Nat) /\ Len(w) = L
  <2> HIDE DEF w, L
  <2>1. QED
    BY <1>2, <1>3
<1>5. ASSUME L >= 1, c[L] + 1 <= Ten - 1 PROVE k = 0
  <2>1. Ten \in Nat /\ c[L] \in Nat
    BY <1>2, <1>5, BaseAssumption
  <2>2. nines = {0}
    <3>1. 0 \in nines
      <4>1. (L - 0 + 1)..L = {}
        <5> HIDE DEF L
        <5>1. QED
          BY <1>2
      <4>2. 0 \in 0..L
        BY <1>2
      <4>3. QED
        BY <4>1, <4>2
    <3>2. ASSUME NEW h \in nines, h # 0 PROVE FALSE
      <4>1. h \in 0..L /\ \A i \in (L - h + 1)..L : c[i] + 1 > Ten - 1
        OBVIOUS
      <4> HIDE DEF L, nines
      <4>2. L \in (L - h + 1)..L
        BY <1>2, <1>5, <3>2, <4>1
      <4>3. c[L] + 1 > Ten - 1
        BY <4>1, <4>2
      <4>4. QED
        BY <1>5, <2>1, <4>3
    <3> HIDE DEF nines
    <3>3. QED
      BY <3>1, <3>2
  <2>3. k \in nines
    <3>1. \E h \in nines : \A l \in nines : l <= h
      <4> HIDE DEF nines
      <4>1. 0 \in nines /\ \A l \in nines : l <= 0
        BY <2>2
      <4>2. QED
        BY <4>1
    <3>2. k = CHOOSE h \in nines : \A l \in nines : l <= h
      BY DEF k
    <3> HIDE DEF nines
    <3>3. QED
      BY <3>1, <3>2, Zenon
  <2> HIDE DEF nines
  <2>4. QED
    BY <2>2, <2>3
<1>6. ASSUME L >= 1, c[L] + 1 <= Ten - 1 PROVE \A i \in 1..L : w[i] = IF i = L THEN c[i] + 1 ELSE c[i]
  <2>1. k = 0
    BY <1>5, <1>6
  <2> HIDE DEF L
  <2>2. QED
    BY <1>2, <2>1
<1> HIDE DEF w
<1>7. QED
  BY <1>1, <1>4, <1>6

\* The digit behind a coefficient rounds it in its last place.
LEMMA RoundsUp ==
    ASSUME NEW t \in Seq(Nat), NEW u \in Seq(Nat), NEW r \in Nat, Len(u) = Len(t), Len(t) >= 1,
           \A i \in 1..Len(t) : u[i] = IF i = Len(t) THEN t[i] + 1 ELSE t[i]
    PROVE  /\ \A i \in 0..(Len(t) - 1) : ValueTo(u, Nat, r)[i] = ValueTo(t, Nat, r)[i]
           /\ ValueTo(u, Nat, r)[Len(t)] = ValueTo(t, Nat, r)[Len(t)] + 1
<1> DEFINE v == ValueTo(t, Nat, r)
           w == ValueTo(u, Nat, r)
           L == Len(t)
           k == L - 1
<1>1. L \in Nat /\ k \in Nat /\ L \in 1..L /\ k + 1 = L /\ k \in 0..L /\ k \in 0..k
  <2>1. L \in Nat /\ L >= 1
    OBVIOUS
  <2> HIDE DEF L
  <2>2. QED
    BY <2>1
<1>2. t[L] \in Nat /\ u[L] = t[L] + 1 /\ \A i \in 1..k : t[i] = u[i]
  <2>1. t[L] \in Nat
    BY <1>1, ElementOfSeq
  <2>2. \A i \in 1..k : i \in 1..L /\ i # L
    <3> HIDE DEF L
    <3>1. QED
      BY <1>1
  <2>3. QED
    BY <1>1, <2>1, <2>2
<1>3. \A i \in 0..k : v[i] = w[i]
  <2>1. k <= Len(t) /\ k <= Len(u)
    <3> HIDE DEF k
    <3>1. k <= L
      <4> HIDE DEF L
      <4>1. QED
        BY <1>1
    <3>2. QED
      BY <3>1
  <2> HIDE DEF k
  <2>2. QED
    BY <1>1, <1>2, <2>1, ValueAgree
<1>4. v \in [0..L -> Nat] /\ v[L] = v[k] * r + t[L] /\ L - 1 = k
  <2>1. /\ v \in [0..L -> Nat]
        /\ \A i \in 1..L : v[i] = IF t[i] \in Nat THEN v[i - 1] * r + t[i] ELSE v[i - 1]
    BY ONLY t \in Seq(Nat), r \in Nat, ValueSteps
  <2> HIDE DEF v, L, k
  <2>2. v[L] = IF t[L] \in Nat THEN v[L - 1] * r + t[L] ELSE v[L - 1]
    BY <1>1, <2>1
  <2>3. L - 1 = k
    BY DEF k
  <2>4. QED
    BY <1>2, <2>1, <2>2, <2>3
<1>5. w[L] = w[k] * r + u[L]
  <2>1. \A i \in 1..Len(u) : w[i] = IF u[i] \in Nat THEN w[i - 1] * r + u[i] ELSE w[i - 1]
    BY ValueSteps
  <2>2. u[L] \in Nat /\ L \in 1..Len(u)
    BY <1>1, <1>2
  <2> HIDE DEF w
  <2>3. QED
    BY <1>1, <2>1, <2>2
<1>6. w[L] = v[L] + 1
  <2>1. v[k] \in Nat /\ w[k] = v[k]
    BY <1>1, <1>3, <1>4
  <2> DEFINE a == v[k]
             b == v[k] * r
  <2>2. b \in Nat
    <3>1. a \in Nat
      BY <2>1
    <3> HIDE DEF a
    <3>2. a * r \in Nat
      BY <3>1, \A x, y \in Nat : x * y \in Nat
    <3>3. QED
      BY <3>2 DEF a
  <2>3. v[L] = b + t[L] /\ w[L] = b + (t[L] + 1)
    BY <1>2, <1>4, <1>5, <2>1
  <2> HIDE DEF b, v, w
  <2>4. QED
    BY <1>2, <2>2, <2>3
<1> HIDE DEF v, w
<1>7. QED
  BY <1>1, <1>3, <1>6 DEF v, w

\* The digit behind those that are kept rounds them.
LEMMA RoundCoefficientStep == ASSUME RadixInv, RoundCoefficient PROVE RadixInv'
<1> DEFINE L == Len(coeff)
           R == RRead
           d == Head(unread)
           up == unread # <<>> /\ Reads(0..(radix - 1)) /\ d >= (radix + 1) \div 2
           allNines == \A i \in DOMAIN coeff : coeff[i] + 1 > Ten - 1
<1>1. /\ RTypeOK /\ RReadPart /\ RCollectPart /\ rpc = "round" /\ rpc \in RRunning /\ DotRead
      /\ mantissa = 0 /\ index = 0 /\ rscale = 0 /\ radix \in DOMAIN EstimatedPrecision
      /\ L = EstimatedPrecision[radix] + 1 /\ beforeDot < L
      /\ (\A i \in 1..L : coeff[i] \in 0..(radix - 1)) /\ \A i \in 0..L : IsRead(i)
  BY DEF RadixInv, RSignPart, RReadPart, RCollectPart, RRunning, RoundCoefficient
<1>2. /\ rpc' = "scale" /\ radix' = radix /\ spelling' = spelling /\ unread' = unread /\ negative' = negative
      /\ mantissa' = mantissa /\ index' = index /\ rscale' = rscale /\ number' = number
      /\ coeff' = (IF ~up THEN coeff ELSE IF allNines THEN [i \in DOMAIN coeff |-> IF i = 1 THEN 1 ELSE 0]
                   ELSE Carried(coeff))
      /\ beforeDot' = (IF up /\ allNines THEN beforeDot + 1 ELSE beforeDot)
  BY DEF RoundCoefficient
<1>3. /\ radix \in Nat /\ radix >= 2 /\ radix # Ten /\ EstimatedPrecision[radix] \in Nat /\ Ten \in Nat
      /\ coeff \in Seq(Nat) /\ DOMAIN coeff = 1..L /\ L \in Nat /\ L >= 1 /\ L \in 1..L /\ 1 \in 1..L
      /\ beforeDot \in Nat \union {-1}
  <2>1. radix \in Nat /\ radix >= 2 /\ radix # Ten /\ EstimatedPrecision[radix] \in Nat /\ Ten \in Nat
    BY <1>1, RadixFacts, BaseAssumption
  <2>2. coeff \in Seq(Nat) /\ DOMAIN coeff = 1..L /\ L \in Nat /\ beforeDot \in Nat \union {-1}
    BY <1>1 DEF RTypeOK
  <2>3. L >= 1
    BY <1>1, <2>1
  <2> HIDE DEF L
  <2>4. L \in 1..L /\ 1 \in 1..L
    BY <2>2, <2>3
  <2>5. QED
    BY <2>1, <2>2, <2>3, <2>4 DEF L
<1>4. radix < Ten => ~allNines /\ coeff[L] + 1 <= Ten - 1
  <2>1. ASSUME radix < Ten, NEW i \in 1..L PROVE coeff[i] + 1 <= Ten - 1 /\ ~(coeff[i] + 1 > Ten - 1)
    <3> DEFINE c == coeff[i]
    <3>1. c \in 0..(radix - 1)
      BY <1>1
    <3> HIDE DEF c
    <3>2. c + 1 <= Ten - 1 /\ ~(c + 1 > Ten - 1)
      BY <1>3, <2>1, <3>1
    <3>3. QED
      BY <3>2 DEF c
  <2>2. QED
    BY <1>3, <2>1
<1>5. coeff' \in Seq(Nat) /\ Len(coeff') = L
  <2>1. CASE ~up
    BY <1>2, <1>3, <2>1
  <2>2. CASE up /\ allNines
    <3> DEFINE w == [i \in 1..L |-> IF i = 1 THEN 1 ELSE 0]
    <3>1. coeff' = w
      BY <1>2, <1>3, <2>2
    <3>2. w \in [1..L -> Nat]
      <4> HIDE DEF L
      <4>1. QED
        OBVIOUS
    <3>3. w \in Seq(Nat) /\ Len(w) = L
      <4> HIDE DEF w, L
      <4>1. QED
        BY <1>3, <3>2
    <3> HIDE DEF w
    <3>4. QED
      BY <3>1, <3>3
  <2>3. CASE up /\ ~allNines
    <3>1. coeff' = Carried(coeff)
      BY <1>2, <2>3
    <3>2. QED
      BY <1>3, <3>1, CarriedFacts
  <2>4. QED
    BY <2>1, <2>2, <2>3
<1>6. RTypeOK'
  <2>1. beforeDot' \in Nat \union {-1}
    BY <1>2, <1>3
  <2>2. index' \in 0..Len(coeff')
    BY <1>1, <1>2, <1>3, <1>5
  <2>3. rpc' \in RRunning \union {"idle", "sign", "refused", "overflow", "panicked", "number"}
    BY <1>2 DEF RRunning
  <2>4. QED
    BY <1>1, <1>2, <1>5, <2>1, <2>2, <2>3 DEF RTypeOK
<1>7. RReadPart' /\ RRead' = R
  BY <1>1, <1>2, <1>5, ReadKept
<1>8. RScalePart'
  <2>1. RFraction' = RFraction /\ RFraction \in Nat
    BY <1>1, <1>2, TextSame, DotFacts
  <2>2. beforeDot <= L /\ (beforeDot >= 0 => L - beforeDot <= RFraction)
    BY <1>1, PlacesRead
  <2>3. CASE ~(up /\ allNines)
    <3>1. beforeDot' = beforeDot
      BY <1>2, <2>3
    <3>2. QED
      BY <1>2, <1>5, <2>1, <2>2, <3>1 DEF RScalePart
  <2>4. CASE up /\ allNines /\ beforeDot = -1
    <3>1. beforeDot' = 0
      BY <1>2, <2>4
    <3>2. radix > Ten
      BY <1>3, <1>4, <2>4
    <3>3. CarriedOver'
      <4>1. coeff' = [i \in 1..L |-> IF i = 1 THEN 1 ELSE 0]
        BY <1>2, <1>3, <2>4
      <4>2. \A i \in 1..L : coeff'[i] = IF i = 1 THEN 1 ELSE 0
        BY <4>1
      <4>3. QED
        BY <1>1, <1>2, <1>5, <3>2, <4>2 DEF CarriedOver
    <3>4. beforeDot' <= Len(coeff')
      BY <1>3, <1>5, <3>1
    <3>5. QED
      BY <1>2, <3>1, <3>3, <3>4 DEF RScalePart
  <2>5. CASE up /\ allNines /\ beforeDot # -1
    <3>1. beforeDot' = beforeDot + 1 /\ beforeDot \in Nat
      BY <1>2, <1>3, <2>5
    <3>2. beforeDot' <= L /\ L - beforeDot' <= RFraction
      <4>1. beforeDot + 1 <= L
        BY <1>1, <1>3, <3>1
      <4>2. L - beforeDot <= RFraction
        BY <2>2, <3>1
      <4> HIDE DEF L
      <4>3. L - (beforeDot + 1) <= RFraction
        BY <1>3, <2>1, <3>1, <4>2
      <4>4. QED
        BY <3>1, <4>1, <4>3
    <3>3. QED
      BY <1>2, <1>5, <2>1, <3>2 DEF RScalePart
  <2>6. QED
    BY <2>3, <2>4, <2>5
<1>9. RValuePart'
  <2>1. SUFFICES ASSUME radix < Ten PROVE RValuePart'
    BY <1>2 DEF RValuePart
  <2>2. ~allNines /\ coeff[L] + 1 <= Ten - 1
    BY <1>4, <2>1
  <2>3. DotRead'
    BY <1>1, <1>2, <2>2, DotKept
  <2>4. CASE ~up
    <3>1. coeff' = coeff /\ CValue' = CValue
      BY <1>2, <2>4, CoeffSame
    <3>2. \A i \in 0..L : IsRead(i)'
      <4>1. SUFFICES ASSUME NEW i \in 0..L PROVE IsRead(i)'
        OBVIOUS
      <4>2. IsRead(i)
        BY <1>1
      <4>3. QED
        BY <1>2, <3>1, <4>2, IsReadKept
    <3>3. IsRead(Len(coeff))'
      <4>1. \E j \in 0..RRead' : RCount'[j] = L /\ RValue'[j] = CValue'[L]
        <5>1. L \in 0..L
          BY <1>3
        <5>2. QED
          BY <3>2, <5>1 DEF IsRead
      <4>2. QED
        BY <1>5, <4>1 DEF IsRead
    <3>4. \A i \in 0..(L - 1) : IsRead(i)'
      BY <1>3, <3>2
    <3>5. \A i \in 1..L : coeff'[i] \in 0..(radix' - 1)
      BY <1>1, <1>2, <3>1
    <3>6. \A i \in 0..(Len(coeff') - 1) : IsRead(i)'
      BY <1>5, <3>4
    <3>7. \A i \in 1..(Len(coeff') - 1) : coeff'[i] \in 0..(radix' - 1)
      BY <1>3, <1>5, <3>5, SMTT(30)
    <3>8. coeff'[Len(coeff')] \in 0..(radix' - 1)
      BY <1>3, <1>5, <3>5
    <3>9. QED
      BY <2>3, <3>3, <3>6, <3>7, <3>8 DEF RValuePart
  <2>5. CASE up
    <3>1. coeff' = Carried(coeff)
      BY <1>2, <2>2, <2>5
    <3>2. \A i \in 1..L : coeff'[i] = IF i = L THEN coeff[i] + 1 ELSE coeff[i]
      BY <1>3, <2>2, <3>1, CarriedFacts
    <3>3. (\A i \in 0..(L - 1) : CValue'[i] = CValue[i]) /\ CValue'[L] = CValue[L] + 1
      <4> DEFINE u == coeff'
      <4>1. u \in Seq(Nat) /\ Len(u) = L /\ \A i \in 1..L : u[i] = IF i = L THEN coeff[i] + 1 ELSE coeff[i]
        BY <1>5, <3>2
      <4> HIDE DEF u
      <4>2. /\ \A i \in 0..(L - 1) : ValueTo(u, Nat, radix)[i] = ValueTo(coeff, Nat, radix)[i]
            /\ ValueTo(u, Nat, radix)[L] = ValueTo(coeff, Nat, radix)[L] + 1
        BY <1>3, <4>1, RoundsUp
      <4>3. QED
        BY <1>2, <4>2 DEF CValue, u
    <3>4. \A i \in 0..(Len(coeff') - 1) : IsRead(i)'
      <4>1. SUFFICES ASSUME NEW i \in 0..(L - 1) PROVE IsRead(i)'
        BY <1>5
      <4>2. i \in 0..L
        BY <1>3
      <4>3. IsRead(i) /\ CValue'[i] = CValue[i]
        BY <1>1, <3>3, <4>2
      <4>4. QED
        BY <1>2, <4>3, IsReadKept
    <3>5. \A i \in 1..(Len(coeff') - 1) : coeff'[i] \in 0..(radix' - 1)
      <4>1. SUFFICES ASSUME NEW i \in 1..(L - 1) PROVE coeff'[i] \in 0..(radix - 1)
        BY <1>2, <1>5
      <4>2. i \in 1..L /\ i # L
        <5> HIDE DEF L
        <5>1. QED
          BY <1>3
      <4>3. QED
        BY <1>1, <3>2, <4>2
    <3>6. RoundedUp'
      <4>1. d \in 0..(radix - 1) /\ d >= (radix + 1) \div 2 /\ unread # <<>>
        BY <2>5 DEF Reads
      <4>2. (radix + 1) \div 2 >= 1
        BY <1>3
      <4>3. d \in 1..(radix - 1)
        <5> HIDE DEF d
        <5>1. QED
          BY <1>3, <4>1, <4>2
      <4>4. CValue[L] = RValue[R]
        <5>1. L \in 0..L
          BY <1>3
        <5>2. PICK j \in 0..R : RCount[j] = L /\ RValue[j] = CValue[L]
          BY <1>1, <5>1 DEF IsRead
        <5>3. R \in 0..Len(RBody) /\ RCount[R] = L /\ Len(RBody) \in Nat
          BY <1>1, UnreadFacts, BodyFacts DEF RReadPart
        <5>4. j \in 0..Len(RBody)
          BY <5>3
        <5>5. RValue[j] = RValue[R]
          BY <1>1, <5>2, <5>3, <5>4, BodySame
        <5>6. QED
          BY <5>2, <5>5
      <4>5. CValue'[Len(coeff')] = RValue'[RRead'] + 1
        <5>1. RValue' = RValue
          BY <1>2, TextSame
        <5>2. QED
          BY <1>5, <1>7, <3>3, <4>4, <5>1
      <4>6. coeff'[Len(coeff')] \in 1..radix'
        <5>1. coeff'[L] = coeff[L] + 1 /\ coeff[L] \in 0..(radix - 1)
          BY <1>1, <1>3, <3>2
        <5> DEFINE c == coeff[L]
        <5>2. c \in 0..(radix - 1)
          BY <5>1
        <5> HIDE DEF c
        <5>3. c + 1 \in 1..radix
          BY <1>3, <5>2
        <5>4. QED
          BY <1>2, <1>5, <5>1, <5>3 DEF c
      <4>7. unread' # <<>> /\ Head(unread') \in 1..(radix' - 1)
        BY <1>2, <4>1, <4>3
      <4>8. QED
        BY <4>5, <4>6, <4>7 DEF RoundedUp
    <3>7. QED
      BY <2>3, <3>4, <3>5, <3>6 DEF RValuePart
  <2>6. QED
    BY <2>4, <2>5
<1>10. QED
  BY <1>1, <1>2, <1>6, <1>7, <1>8, <1>9, ReadyToBuild

-----------------------------------------------------------------------------
(***************************************************************************)
(* The places of the number, and its digits multiplied in.                 *)
(***************************************************************************)
\* What has been said of the digits stays said while they are multiplied in.
LEMMA ValueKept ==
    ASSUME RValuePart, rpc \in {"scale", "build"}, rpc' = "build", radix' = radix, spelling' = spelling, unread' = unread,
           beforeDot' = beforeDot, coeff' = coeff
    PROVE  RValuePart'
<1>1. RBody' = RBody /\ RCount' = RCount /\ RValue' = RValue /\ CValue' = CValue
  BY TextSame, CoeffSame
<1>2. RRead' = RRead
  BY <1>1 DEF RRead
<1>3. SUFFICES ASSUME radix < Ten PROVE RValuePart'
  BY DEF RValuePart
<1>4. DotRead'
  BY <1>3, DotKept DEF RValuePart
<1>5. \A i \in 0..(Len(coeff') - 1) : IsRead(i)'
  BY <1>1, <1>2, <1>3 DEF RValuePart, IsRead
<1>6. \A i \in 1..(Len(coeff') - 1) : coeff'[i] \in 0..(radix' - 1)
  BY <1>3 DEF RValuePart
<1>7. \/ RoundedUp'
      \/ IsRead(Len(coeff))' /\ (coeff' # <<>> => coeff'[Len(coeff')] \in 0..(radix' - 1))
  <2>1. CASE RoundedUp
    BY <1>1, <1>2, <2>1 DEF RoundedUp
  <2>2. CASE IsRead(Len(coeff)) /\ (coeff # <<>> => coeff[Len(coeff)] \in 0..(radix - 1))
    <3>1. IsRead(Len(coeff))'
      BY <1>1, <1>2, <2>2 DEF IsRead
    <3>2. QED
      BY <2>2, <3>1
  <2>3. QED
    BY <1>3, <2>1, <2>2 DEF RValuePart
<1>8. QED
  BY <1>4, <1>5, <1>6, <1>7 DEF RValuePart

\* While they are multiplied in nothing else is owed.
LEMMA StillBuilding ==
    ASSUME RTypeOK', rpc' = "build", RReadPart', RValuePart', RScalePart', RBuildPart'
    PROVE  RadixInv'
  BY DEF RadixInv, RSignPart, RCollectPart, RadixDigitsKept

\* The places are counted from the point; without a digit the text is refused.
LEMMA SetRadixScaleStep == ASSUME RadixInv, SetRadixScale PROVE RadixInv'
<1> DEFINE L == Len(coeff)
<1>1. /\ RTypeOK /\ RReadPart /\ RValuePart /\ rpc = "scale" /\ rpc \in RRunning
      /\ mantissa = 0 /\ index = 0 /\ radix \in DOMAIN EstimatedPrecision
      /\ beforeDot <= L
      /\ (beforeDot >= 0 => L - beforeDot <= RFraction) \/ (CarriedOver /\ beforeDot = 0)
      /\ unread = <<>> \/ L = EstimatedPrecision[radix] + 1
  BY DEF RadixInv, RSignPart, RReadPart, RScalePart, RRunning, SetRadixScale
<1>2. /\ radix' = radix /\ spelling' = spelling /\ unread' = unread /\ negative' = negative
      /\ beforeDot' = beforeDot /\ coeff' = coeff /\ mantissa' = mantissa /\ index' = index /\ number' = number
      /\ rscale' = (IF beforeDot >= 0 THEN L - beforeDot ELSE 0)
      /\ rpc' = (IF coeff = <<>> THEN "refused" ELSE "build")
  BY DEF SetRadixScale
<1>3. L \in Nat /\ beforeDot \in Nat \union {-1} /\ CValue' = CValue /\ CValue[0] = 0
      /\ (coeff = <<>> => L = 0) /\ (coeff # <<>> => L # 0)
  <2>1. L \in Nat /\ beforeDot \in Nat \union {-1} /\ coeff \in Seq(Nat)
    BY <1>1, CoeffFacts DEF RTypeOK
  <2>2. (coeff = <<>> => L = 0) /\ (coeff # <<>> => L # 0)
    BY <2>1, EmptySeq
  <2>3. QED
    BY <1>1, <1>2, <2>1, <2>2, CoeffFacts, CoeffSame
<1>4. rscale' \in Nat
  <2> HIDE DEF L
  <2>1. QED
    BY <1>1, <1>2, <1>3
<1>5. RTypeOK'
  <2>1. rpc' \in RRunning \union {"idle", "sign", "refused", "overflow", "panicked", "number"}
    BY <1>2 DEF RRunning
  <2>2. QED
    BY <1>1, <1>2, <1>4, <2>1 DEF RTypeOK
<1>6. RWellFormed' = RWellFormed /\ RFraction' = RFraction
  BY <1>2, TextSame
<1>7. CASE coeff = <<>>
  <2>1. L = 0 /\ unread = <<>>
    <3>1. L = 0
      BY <1>3, <1>7
    <3>2. EstimatedPrecision[radix] \in Nat
      BY <1>1, RadixFacts
    <3>3. QED
      BY <1>1, <3>1, <3>2
  <2>2. RDigits = 0
    BY <1>1, <2>1, UnreadFacts DEF RReadPart, RDigits
  <2>3. RadixDigitsKept'
    BY <1>2, <1>6, <1>7, <2>2 DEF RadixDigitsKept, RWellFormed
  <2>4. QED
    BY <1>2, <1>5, <1>7, <2>3, RadixStopped DEF RRunning
<1>8. CASE coeff # <<>>
  <2>1. rpc' = "build" /\ L # 0
    BY <1>2, <1>3, <1>8
  <2>2. RReadPart' /\ RValuePart'
    BY <1>1, <1>2, <2>1, ReadKept, ValueKept
  <2>3. RScalePart'
    <3>1. RFraction \in Nat
      <4>1. \A k \in 1..0 : RBody[k] # RPoint
        OBVIOUS
      <4>2. 0 \in 0..Len(RBody)
        BY <1>1, BodyFacts
      <4>3. QED
        BY <1>1, <4>1, <4>2, WholeRange
    <3>2. CASE ~(CarriedOver /\ beforeDot = 0)
      <4>1. rscale' <= RFraction
        <5> HIDE DEF L
        <5>1. QED
          BY <1>1, <1>2, <1>3, <3>1, <3>2
      <4>2. QED
        BY <1>2, <1>6, <1>8, <2>1, <4>1 DEF RScalePart
    <3>3. CASE CarriedOver /\ beforeDot = 0
      <4>1. rscale' = L /\ index' < L /\ L <= L
        <5>1. L - 0 = L /\ 0 < L /\ L <= L
          <6> HIDE DEF L
          <6>1. QED
            BY <1>3, <2>1
        <5>2. QED
          BY <1>1, <1>2, <3>3, <5>1
      <4>2. CarriedOver'
        BY <1>2, <3>3 DEF CarriedOver
      <4>3. QED
        BY <1>2, <1>8, <2>1, <4>1, <4>2 DEF RScalePart
    <3>4. QED
      BY <3>2, <3>3
  <2>4. RBuildPart'
    <3>1. index' # Len(coeff') /\ mantissa' = CValue'[index']
      BY <1>1, <1>2, <1>3, <2>1
    <3>2. rscale' = IF beforeDot' >= 0 THEN Len(coeff') - beforeDot' ELSE 0
      BY <1>2
    <3>3. QED
      BY <3>1, <3>2 DEF RBuildPart
  <2>5. QED
    BY <1>5, <2>1, <2>2, <2>3, <2>4, StillBuilding
<1>9. QED
  BY <1>7, <1>8

\* What holds while the digits are multiplied in.
LEMMA BuildFacts ==
    ASSUME RadixInv, rpc = "build"
    PROVE  /\ RTypeOK /\ RReadPart /\ RValuePart /\ RScalePart /\ RBuildPart /\ rpc \in RRunning
           /\ radix \in DOMAIN EstimatedPrecision /\ radix \in Nat \ {0} /\ radix >= 2 /\ radix # Ten /\ Ten \in Nat
           /\ Len(coeff) \in Nat /\ index \in 0..Len(coeff) /\ index \in Nat /\ rscale \in Nat
           /\ mantissa \in Nat /\ mantissa <= Max96 /\ Max96 \in Nat /\ Max96 > 0 /\ beforeDot \in Nat \union {-1}
           /\ unread = <<>> \/ Len(coeff) = EstimatedPrecision[radix] + 1
           /\ radix < Ten => DotRead
           /\ index < Len(coeff) => /\ mantissa = CValue[index] /\ index + 1 \in 1..Len(coeff) /\ Next1 \in Nat
                                    /\ CValue[index + 1] = mantissa * radix + Next1
                                    /\ rscale = IF beforeDot >= 0 THEN Len(coeff) - beforeDot ELSE 0
<1> DEFINE L == Len(coeff)
<1>1. /\ RTypeOK /\ RReadPart /\ RValuePart /\ RScalePart /\ RBuildPart /\ rpc \in RRunning
      /\ radix \in DOMAIN EstimatedPrecision
  BY DEF RadixInv, RReadPart, RRunning
<1>2. radix \in Nat \ {0} /\ radix >= 2 /\ radix # Ten /\ Ten \in Nat
  BY <1>1, RadixFacts, BaseAssumption
<1>3. L \in Nat /\ \A i \in 1..L : coeff[i] \in Nat /\ CValue[i] = CValue[i - 1] * radix + coeff[i]
  BY <1>1, CoeffFacts
<1>4. index \in 0..L /\ rscale \in Nat /\ beforeDot \in Nat \union {-1} /\ mantissa \in 0..Max96
  BY <1>1 DEF RTypeOK, Mantissa
<1>5. Max96 \in Nat /\ Max96 > 0
  BY BaseType
<1>6. index \in Nat /\ mantissa \in Nat /\ mantissa <= Max96
  <2> HIDE DEF L
  <2>1. QED
    BY <1>3, <1>4, <1>5
<1>7. ASSUME index < L
      PROVE  /\ mantissa = CValue[index] /\ index + 1 \in 1..L /\ Next1 \in Nat
             /\ CValue[index + 1] = mantissa * radix + Next1
             /\ rscale = IF beforeDot >= 0 THEN L - beforeDot ELSE 0
  <2>1. mantissa = CValue[index] /\ rscale = IF beforeDot >= 0 THEN L - beforeDot ELSE 0
    BY <1>1, <1>7 DEF RBuildPart
  <2>2. index + 1 \in 1..L /\ (index + 1) - 1 = index
    <3> HIDE DEF L
    <3>1. QED
      BY <1>3, <1>6, <1>7
  <2>3. coeff[index + 1] \in Nat /\ CValue[index + 1] = CValue[index] * radix + coeff[index + 1]
    BY <1>3, <2>2
  <2>4. QED
    BY <2>1, <2>2, <2>3 DEF Next1
<1>8. unread = <<>> \/ L = EstimatedPrecision[radix] + 1
  BY <1>1 DEF RReadPart
<1>9. radix < Ten => DotRead
  BY <1>1 DEF RValuePart
<1>10. QED
  BY <1>1, <1>2, <1>3, <1>4, <1>5, <1>6, <1>7, <1>8, <1>9

\* The places of a coefficient are those of the text, but for the digits behind it.
LEMMA PlacesLeft ==
    ASSUME RadixInv, rpc = "build", radix < Ten, index < Len(coeff)
    PROVE  /\ RDigits \in Nat /\ RWhole \in Nat /\ RFraction \in Nat /\ Len(coeff) <= RDigits
           /\ beforeDot < 0 => rscale = 0 /\ RWhole >= Len(coeff)
           /\ beforeDot >= 0 => rscale = Len(coeff) - beforeDot /\ RWhole = beforeDot
           /\ beforeDot >= 0 \/ ~IntegralCut => RFraction - rscale = RDigits - Len(coeff)
<1> DEFINE L == Len(coeff)
<1>1. /\ rscale = (IF beforeDot >= 0 THEN L - beforeDot ELSE 0) /\ L \in Nat /\ beforeDot \in Nat \union {-1}
      /\ RTypeOK /\ RReadPart /\ rpc \in RRunning /\ DotRead
  BY BuildFacts
<1>2. /\ RDigits \in Nat /\ RWhole \in Nat /\ RFraction \in Nat /\ RFraction = RDigits - RWhole /\ L <= RDigits
      /\ beforeDot = -1 => RWhole >= L
      /\ beforeDot # -1 => RWhole = beforeDot
  BY <1>1, DotFacts
<1>3. ~IntegralCut => RWhole <= L
  BY <1>1, <1>2 DEF IntegralCut
<1> HIDE DEF L
<1>4. beforeDot < 0 => rscale = 0 /\ RWhole >= L
  BY <1>1, <1>2
<1>5. beforeDot >= 0 => rscale = L - beforeDot /\ RWhole = beforeDot
  BY <1>1, <1>2
<1>6. beforeDot >= 0 \/ ~IntegralCut => RFraction - rscale = RDigits - L
  BY <1>1, <1>2, <1>3, <1>4, <1>5
<1>7. QED
  BY <1>2, <1>4, <1>5, <1>6 DEF L

\* A digit of the body behind which a coefficient was rounded up.
LEMMA DigitBehind ==
    ASSUME RTypeOK, RReadPart, rpc \in RRunning, RoundedUp
    PROVE  /\ RRead \in 0..Len(RBody) /\ RRead + 1 \in 0..Len(RBody)
           /\ RCount[RRead + 1] = RCount[RRead] + 1 /\ RValue[RRead + 1] >= RValue[RRead] * radix + 1
<1> DEFINE R == RRead
           d == Head(unread)
<1>1. unread # <<>> /\ d \in 1..(radix - 1) /\ radix \in Nat
  BY DEF RoundedUp, RTypeOK
<1>2. R + 1 \in 1..Len(RBody) /\ d = RBody[R + 1] /\ R \in Nat /\ R \in 0..Len(RBody)
  BY <1>1, UnreadFacts
<1>3. RBody[R + 1] \in 0..(radix - 1) /\ (R + 1) - 1 = R /\ d \in Nat /\ d >= 1
  <2> HIDE DEF d
  <2>1. d \in 0..(radix - 1) /\ d \in Nat /\ d >= 1
    BY <1>1
  <2>2. QED
    BY <1>2, <2>1
<1>4. /\ RCount[R + 1] = IF RBody[R + 1] \in 0..(radix - 1) THEN RCount[(R + 1) - 1] + 1 ELSE RCount[(R + 1) - 1]
      /\ RValue[R + 1] = IF RBody[R + 1] \in 0..(radix - 1) THEN RValue[(R + 1) - 1] * radix + RBody[R + 1]
                         ELSE RValue[(R + 1) - 1]
  BY <1>2, BodyFacts
<1>5. RCount[R + 1] = RCount[R] + 1 /\ RValue[R + 1] = RValue[R] * radix + d
  BY <1>2, <1>3, <1>4
<1>6. RValue[R] * radix \in Nat
  <2> DEFINE a == RValue[R]
  <2>1. a \in Nat
    BY <1>2, BodyFacts
  <2> HIDE DEF a
  <2>2. a * radix \in Nat
    BY <1>1, <2>1, \A x, y \in Nat : x * y \in Nat
  <2>3. QED
    BY <2>2 DEF a
<1>7. RValue[R + 1] >= RValue[R] * radix + 1
  BY <1>3, <1>5, <1>6
<1>8. QED
  BY <1>2, <1>5, <1>7

\* A digit that overflows overflows 96 bits where the product did not.
LEMMA DigitOverflows ==
    ASSUME RadixInv, rpc = "build", radix < Ten, index < Len(coeff), mantissa * radix <= Max96,
           mantissa * radix + Next1 > Max96
    PROVE  CarryRefused
<1> DEFINE i == index + 1
           a == mantissa * radix
<1>1. /\ RTypeOK /\ RReadPart /\ RValuePart /\ rpc \in RRunning /\ radix \in Nat \ {0}
      /\ i \in 1..Len(coeff) /\ Next1 \in Nat /\ CValue[i] = a + Next1 /\ mantissa \in Nat /\ Max96 \in Nat
  BY BuildFacts
<1>2. PICK j \in 1..Len(RBody) :
         /\ RCount[j] = i
         /\ \/ RValue[j] = CValue[i] /\ coeff[i] \in 0..(radix - 1)
            \/ RValue[j] + 1 = CValue[i] /\ coeff[i] \in 1..radix
  BY <1>1, DigitRead
<1>3. Next1 = coeff[i] /\ a \in Nat /\ RValue[j] \in Nat
  <2>1. RValue[j] \in Nat
    BY <1>1, BodyFacts
  <2>2. QED
    BY <1>1, <2>1, \A x, y \in Nat : x * y \in Nat DEF Next1
<1> HIDE DEF a, i
<1>4. \E c \in 0..(radix - 1) : RValue[j] = a + c /\ RValue[j] >= Max96
  <2>1. a + Next1 > Max96
    BY DEF a
  <2>2. CASE RValue[j] = CValue[i] /\ coeff[i] \in 0..(radix - 1)
    <3>1. RValue[j] = a + Next1 /\ Next1 \in 0..(radix - 1)
      BY <1>1, <1>3, <2>2
    <3>2. RValue[j] >= Max96
      BY <1>1, <1>3, <2>1, <3>1
    <3>3. QED
      BY <3>1, <3>2
  <2>3. CASE RValue[j] + 1 = CValue[i] /\ coeff[i] \in 1..radix
    <3> DEFINE v == RValue[j]
               n == Next1
    <3>1. v + 1 = a + n /\ v \in Nat /\ n \in 1..radix /\ a + n > Max96
      BY <1>1, <1>3, <2>1, <2>3
    <3> HIDE DEF v, n
    <3>2. n - 1 \in 0..(radix - 1) /\ v = a + (n - 1) /\ v >= Max96
      BY <1>1, <1>3, <3>1
    <3>3. QED
      BY <3>2 DEF v
  <2>4. QED
    BY <1>2, <2>2, <2>3
<1>5. PICK c \in 0..(radix - 1) : RValue[j] = a + c /\ RValue[j] >= Max96
  BY <1>4
<1>6. RValue[j] \div radix = mantissa
  <2>1. c \in Nat /\ c < radix
    BY <1>1
  <2>2. RValue[j] = mantissa * radix + c
    BY <1>5 DEF a
  <2>3. QED
    BY <1>1, <1>3, <2>1, <2>2, QuotientUnique
<1>7. j \in DOMAIN RBody
  BY <1>1, BodyFacts
<1>8. RValue[j] >= Max96 /\ (RValue[j] \div radix) * radix <= Max96
  BY <1>5, <1>6
<1>9. QED
  BY <1>7, <1>8 DEF CarryRefused

\* All the digits multiplied in, with no more in front of the point than were read.
LEMMA AllBuilt ==
    ASSUME RadixInv, rpc = "build", radix < Ten, index + 1 = Len(coeff), ~IntegralCut
    PROVE  DigitsKept(mantissa * radix + Next1, rscale)
<1> DEFINE L == Len(coeff)
           m == mantissa * radix + Next1
<1>1. /\ RTypeOK /\ RReadPart /\ RValuePart /\ rpc \in RRunning /\ radix \in DOMAIN EstimatedPrecision
      /\ L \in Nat /\ index \in Nat /\ rscale \in Nat
  BY BuildFacts
<1>2. index < L
  BY <1>1
<1>3. L \in 1..L /\ CValue[L] = m
  BY <1>2, BuildFacts
<1>4. RFraction - rscale = RDigits - L
  BY <1>2, PlacesLeft
<1>5. PICK j \in 1..Len(RBody) :
         /\ RCount[j] = L
         /\ \/ RValue[j] = CValue[L] /\ coeff[L] \in 0..(radix - 1)
            \/ L = Len(coeff) /\ j = RRead /\ RoundedUp /\ RValue[j] + 1 = CValue[L] /\ coeff[L] \in 1..radix
  BY <1>1, <1>3, DigitRead
<1>6. j \in 0..Len(RBody)
  BY <1>5
<1> HIDE DEF L, m
<1>7. CASE RValue[j] = CValue[L]
  <2>1. DigitsKept(RValue[j], rscale)
    BY <1>1, <1>4, <1>5, <1>6, CloseBelow
  <2>2. QED
    BY <1>3, <1>7, <2>1 DEF m
<1>8. CASE j = RRead /\ RoundedUp /\ RValue[j] + 1 = CValue[L]
  <2>1. RRead + 1 \in 0..Len(RBody) /\ RCount[RRead + 1] = RCount[RRead] + 1 /\ RValue[RRead + 1] >= RValue[RRead] * radix + 1
    BY <1>1, <1>8, DigitBehind
  <2>2. DigitsKept(RValue[j] + 1, rscale)
    BY <1>1, <1>4, <1>5, <1>6, <1>8, <2>1, CloseAbove
  <2>3. QED
    BY <1>3, <1>8, <2>2 DEF m
<1>9. QED
  BY <1>5, <1>7, <1>8

\* A digit is multiplied in.
LEMMA BuildDigitStep == ASSUME RadixInv, BuildDigit PROVE RadixInv'
<1> DEFINE L == Len(coeff)
           m == mantissa * radix + Next1
<1>1. /\ rpc = "build" /\ index < L /\ mantissa * radix <= Max96
      /\ radix' = radix /\ spelling' = spelling /\ unread' = unread /\ negative' = negative
      /\ beforeDot' = beforeDot /\ coeff' = coeff /\ rscale' = rscale /\ number' = number
  BY DEF BuildDigit
<1>2. /\ RTypeOK /\ RReadPart /\ RValuePart /\ RScalePart /\ RBuildPart /\ rpc \in RRunning
      /\ radix \in DOMAIN EstimatedPrecision /\ radix \in Nat \ {0} /\ radix # Ten /\ Ten \in Nat
      /\ L \in Nat /\ index \in Nat /\ rscale \in Nat /\ mantissa \in Nat /\ Max96 \in Nat
      /\ unread = <<>> \/ L = EstimatedPrecision[radix] + 1
      /\ index + 1 \in 1..L /\ Next1 \in Nat /\ CValue[index + 1] = m
      /\ rscale = IF beforeDot >= 0 THEN L - beforeDot ELSE 0
  BY <1>1, BuildFacts
<1>3. /\ RBody' = RBody /\ RCount' = RCount /\ RValue' = RValue /\ RWellFormed' = RWellFormed /\ RFraction' = RFraction
      /\ CarryRefused' = CarryRefused /\ CValue' = CValue /\ RWhole' = RWhole /\ RDigits' = RDigits
  BY <1>1, TextSame, CoeffSame
<1>4. m \in Nat
  BY <1>2, \A x, y \in Nat : x * y \in Nat
<1>5. CASE m > Max96
  <2>1. rpc' = "overflow" /\ mantissa' = mantissa /\ index' = index
    BY <1>5 DEF BuildDigit
  <2>2. RTypeOK'
    <3>1. rpc' \in RRunning \union {"idle", "sign", "refused", "overflow", "panicked", "number"}
      BY <2>1
    <3>2. QED
      BY <1>1, <1>2, <2>1, <3>1 DEF RTypeOK
  <2>3. radix < Ten => CarryRefused
    BY <1>1, <1>5, DigitOverflows
  <2>4. RadixDigitsKept'
    <3>1. radix' <= Ten => CarryRefused'
      BY <1>1, <1>2, <1>3, <2>3
    <3>2. QED
      BY <2>1, <3>1 DEF RadixDigitsKept
  <2>5. QED
    BY <2>1, <2>2, <2>4, RadixStopped DEF RRunning
<1>6. CASE ~(m > Max96)
  <2>1. rpc' = "build" /\ mantissa' = m /\ index' = index + 1
    BY <1>1, <1>6 DEF BuildDigit
  <2>2. RTypeOK'
    <3>1. mantissa' \in Mantissa
      <4> HIDE DEF m
      <4>1. m \in 0..Max96
        BY <1>2, <1>4, <1>6
      <4>2. QED
        BY <2>1, <4>1 DEF Mantissa
    <3>2. index' \in 0..Len(coeff')
      <4>1. index + 1 \in 0..L
        BY <1>2
      <4>2. QED
        BY <1>1, <2>1, <4>1
    <3>3. rpc' \in RRunning \union {"idle", "sign", "refused", "overflow", "panicked", "number"}
      BY <2>1 DEF RRunning
    <3>4. QED
      BY <1>1, <1>2, <3>1, <3>2, <3>3 DEF RTypeOK
  <2>3. RReadPart' /\ RValuePart'
    <3>1. Len(coeff') = L
      BY <1>1
    <3>2. QED
      BY <1>1, <1>2, <2>1, <3>1, ReadKept, ValueKept
  <2>4. RScalePart'
    <3>1. coeff # <<>>
      BY <1>1, <1>2 DEF RScalePart
    <3>2. CASE rscale <= RFraction \/ rscale <= MAX_SCALE
      BY <1>1, <1>3, <2>1, <3>1, <3>2 DEF RScalePart
    <3>3. CASE CarriedOver /\ rscale <= L /\ index + 1 < L
      <4>1. CarriedOver'
        BY <1>1, <3>3 DEF CarriedOver
      <4>2. index' < Len(coeff') /\ rscale' <= Len(coeff')
        BY <1>1, <2>1, <3>3
      <4>3. QED
        BY <1>1, <2>1, <3>1, <4>1, <4>2 DEF RScalePart
    <3>4. CASE CarriedOver /\ rscale <= L /\ ~(index + 1 < L)
      <4>1. index + 1 = L
        BY <1>2, <3>4
      <4>2. CValue[L] <= Max96
        <5> HIDE DEF m
        <5>1. CValue[L] = m
          BY <1>2, <4>1
        <5>2. QED
          BY <1>2, <1>4, <1>6, <5>1
      <4>3. L <= MAX_SCALE
        BY <1>2, <3>4, <4>2, CarriedValue
      <4>4. rscale <= MAX_SCALE
        <5>1. MAX_SCALE \in Nat
          BY ScaleAssumption
        <5> HIDE DEF L
        <5>2. QED
          BY <1>2, <3>4, <4>3, <5>1
      <4>5. QED
        BY <1>1, <2>1, <3>1, <4>4 DEF RScalePart
    <3>5. rscale <= RFraction \/ rscale <= MAX_SCALE \/ (CarriedOver /\ rscale <= L)
      BY <1>1, <1>2 DEF RScalePart
    <3>6. QED
      BY <3>2, <3>3, <3>4, <3>5
  <2>5. RBuildPart'
    <3>1. index' < Len(coeff') => /\ mantissa' = CValue'[index']
                                  /\ rscale' = IF beforeDot' >= 0 THEN Len(coeff') - beforeDot' ELSE 0
      BY <1>1, <1>2, <1>3, <2>1
    <3>2. ASSUME index' = Len(coeff'), radix' < Ten, ~IntegralCut'
          PROVE  DigitsKept(mantissa, rscale)'
      <4>1. ~IntegralCut
        BY <1>1, <1>3, <3>2 DEF IntegralCut
      <4>2. index + 1 = Len(coeff)
        BY <1>1, <2>1, <3>2
      <4>3. DigitsKept(m, rscale)
        BY <1>1, <3>2, <4>1, <4>2, AllBuilt
      <4> HIDE DEF m
      <4>4. QED
        BY <1>1, <1>3, <2>1, <4>3 DEF DigitsKept
    <3>3. QED
      BY <3>1, <3>2 DEF RBuildPart
  <2>6. QED
    BY <2>1, <2>2, <2>3, <2>4, <2>5, StillBuilding
<1>7. QED
  BY <1>5, <1>6

\* The digits multiplied in are those of the text up to a position.
LEMMA BuiltRead ==
    ASSUME RadixInv, rpc = "build", radix < Ten, index < Len(coeff)
    PROVE  \E j \in 0..Len(RBody) : RCount[j] = index /\ RValue[j] = mantissa
<1>1. /\ RTypeOK /\ RReadPart /\ RValuePart /\ rpc \in RRunning /\ Len(coeff) \in Nat /\ index \in Nat
      /\ mantissa = CValue[index]
  BY BuildFacts
<1>2. index \in 0..(Len(coeff) - 1)
  BY <1>1
<1>3. IsRead(index)
  BY <1>1, <1>2 DEF RValuePart
<1>4. PICK j \in 0..RRead : RCount[j] = index /\ RValue[j] = mantissa
  BY <1>1, <1>3 DEF IsRead
<1>5. RRead \in 0..Len(RBody) /\ Len(RBody) \in Nat
  BY <1>1, UnreadFacts, BodyFacts
<1>6. j \in 0..Len(RBody)
  BY <1>5
<1>7. QED
  BY <1>4, <1>6

\* Why a text overflows whose digits do: its whole part, or a fraction that rounds up.
LEMMA ProductOverflows ==
    ASSUME RadixInv, rpc = "build", radix < Ten, index < Len(coeff), mantissa * radix > Max96,
           \/ index < beforeDot
           \/ mantissa + 1 > Max96
           \/ Len(coeff) - index > rscale
    PROVE  CarryRefused \/ RValue[Len(RBody)] \div RPower(radix, RFraction) >= Max96
<1> DEFINE L == Len(coeff)
<1>1. /\ RTypeOK /\ radix \in DOMAIN EstimatedPrecision /\ radix \in Nat \ {0} /\ L \in Nat /\ index \in Nat
      /\ mantissa \in Nat /\ mantissa <= Max96 /\ Max96 \in Nat /\ Max96 > 0 /\ beforeDot \in Nat \union {-1}
  BY BuildFacts
<1>2. /\ RWhole \in Nat
      /\ beforeDot < 0 => rscale = 0 /\ RWhole >= L
      /\ beforeDot >= 0 => rscale = L - beforeDot /\ RWhole = beforeDot
  BY PlacesLeft
<1>3. PICK j \in 0..Len(RBody) : RCount[j] = index /\ RValue[j] = mantissa
  BY BuiltRead
<1>4. CASE index < beforeDot \/ L - index > rscale
  <2>1. index < L
    OBVIOUS
  <2>2. index < RWhole
    <3> HIDE DEF L
    <3>1. QED
      BY <1>1, <1>2, <1>4, <2>1
  <2>3. RValue[Len(RBody)] \div RPower(radix, RFraction) >= Max96
    BY <1>1, <1>3, <2>2, BodyLarge
  <2>4. QED
    BY <2>3
<1>5. CASE mantissa + 1 > Max96
  <2>1. mantissa = Max96
    BY <1>1, <1>5
  <2>2. j # 0
    <3>1. RValue[0] = 0
      BY <1>1, BodyFacts
    <3>2. QED
      BY <1>1, <1>3, <2>1, <3>1
  <2>3. j \in DOMAIN RBody
    <3>1. DOMAIN RBody = 1..Len(RBody) /\ Len(RBody) \in Nat
      BY <1>1, BodyFacts
    <3>2. j \in 1..Len(RBody)
      BY <2>2, <3>1
    <3>3. QED
      BY <3>1, <3>2
  <2>4. (mantissa \div radix) * radix <= mantissa
    <3>1. mantissa \div radix \in Nat /\ mantissa % radix \in Nat
          /\ mantissa = (mantissa \div radix) * radix + (mantissa % radix)
      BY <1>1, DivMod
    <3> DEFINE a == (mantissa \div radix) * radix
               b == mantissa % radix
    <3>2. a \in Nat /\ b \in Nat /\ mantissa = a + b
      BY <1>1, <3>1, \A x, y \in Nat : x * y \in Nat
    <3> HIDE DEF a, b
    <3>3. a <= mantissa
      BY <3>2
    <3>4. QED
      BY <3>3 DEF a
  <2>5. RValue[j] >= Max96 /\ (RValue[j] \div radix) * radix <= Max96
    BY <1>1, <1>3, <2>1, <2>4
  <2>6. QED
    BY <2>3, <2>5 DEF CarryRefused
<1>6. QED
  BY <1>4, <1>5

\* The next digit of the text, when that of the coefficient rounds up.
LEMMA NextRead ==
    ASSUME RadixInv, rpc = "build", radix < Ten, index < Len(coeff), Next1 >= Ten \div 2
    PROVE  \E j \in 0..Len(RBody) : RCount[j] = index + 1 /\ RValue[j] >= mantissa * radix + 1
<1> DEFINE i == index + 1
           a == mantissa * radix
<1>1. /\ RTypeOK /\ RReadPart /\ RValuePart /\ rpc \in RRunning /\ radix \in Nat \ {0} /\ radix >= 2
      /\ i \in 1..Len(coeff) /\ Next1 \in Nat /\ CValue[i] = a + Next1 /\ mantissa \in Nat
  BY BuildFacts
<1>2. PICK j \in 1..Len(RBody) :
         /\ RCount[j] = i
         /\ \/ RValue[j] = CValue[i]
            \/ RValue[j] + 1 = CValue[i]
  BY <1>1, DigitRead
<1>3. Next1 >= 2
  <2>1. Ten \in Nat /\ Ten % 2 = 0
    BY BaseAssumption
  <2>2. Ten \div 2 >= 2
    BY <1>1, <2>1
  <2>3. QED
    BY <1>1, <2>1, <2>2
<1>4. j \in 0..Len(RBody) /\ RValue[j] \in Nat
  <2>1. j \in 0..Len(RBody)
    OBVIOUS
  <2>2. QED
    BY <1>1, <2>1, BodyFacts
<1>5. a \in Nat
  BY <1>1, \A x, y \in Nat : x * y \in Nat
<1>6. RValue[j] >= a + 1
  <2> DEFINE v == RValue[j]
             n == Next1
  <2>1. v \in Nat /\ n \in Nat /\ n >= 2 /\ (v = a + n \/ v + 1 = a + n)
    BY <1>1, <1>2, <1>3, <1>4
  <2> HIDE DEF v, n, a
  <2>2. v >= a + 1
    BY <1>5, <2>1
  <2>3. QED
    BY <2>2 DEF v
<1>7. QED
  BY <1>2, <1>4, <1>6

\* The digits left behind leave the scale.
LEMMA LeftBehind ==
    ASSUME RadixInv, rpc = "build", radix < Ten, index < Len(coeff), Len(coeff) - index <= rscale
    PROVE  DigitsKept(IF Next1 >= Ten \div 2 THEN mantissa + 1 ELSE mantissa, rscale - (Len(coeff) - index))
<1> DEFINE L == Len(coeff)
           s == rscale - (L - index)
<1>1. /\ RTypeOK /\ radix \in DOMAIN EstimatedPrecision /\ L \in Nat /\ index \in Nat /\ rscale \in Nat
      /\ beforeDot \in Nat \union {-1}
  BY BuildFacts
<1>2. /\ RDigits \in Nat /\ RFraction \in Nat
      /\ beforeDot < 0 => rscale = 0
      /\ beforeDot >= 0 \/ ~IntegralCut => RFraction - rscale = RDigits - L
  BY PlacesLeft
<1>3. s \in Nat /\ RFraction - s = RDigits - index
  <2>1. index < L /\ L - index <= rscale
    OBVIOUS
  <2> HIDE DEF L
  <2>2. beforeDot >= 0
    BY <1>1, <1>2, <2>1
  <2>3. RFraction - rscale = RDigits - L
    BY <1>2, <2>2
  <2>4. QED
    BY <1>1, <1>2, <2>1, <2>3
<1>4. PICK i \in 0..Len(RBody) : RCount[i] = index /\ RValue[i] = mantissa
  BY BuiltRead
<1> HIDE DEF s
<1>5. CASE Next1 >= Ten \div 2
  <2>1. PICK j \in 0..Len(RBody) : RCount[j] = index + 1 /\ RValue[j] >= mantissa * radix + 1
    BY <1>5, NextRead
  <2>2. DigitsKept(RValue[i] + 1, s)
    BY <1>1, <1>3, <1>4, <2>1, CloseAbove
  <2>3. QED
    BY <1>4, <1>5, <2>2 DEF s
<1>6. CASE ~(Next1 >= Ten \div 2)
  <2>1. DigitsKept(RValue[i], s)
    BY <1>1, <1>3, <1>4, CloseBelow
  <2>2. QED
    BY <1>4, <1>6, <2>1 DEF s
<1>7. QED
  BY <1>5, <1>6

\* A digit too many: the rest is dropped if it is behind the point.
LEMMA BuildOverflowStep == ASSUME RadixInv, BuildOverflow PROVE RadixInv'
<1> DEFINE L    == Len(coeff)
           left == L - index
           m    == IF Next1 >= Ten \div 2 THEN mantissa + 1 ELSE mantissa
           out  == (index < beforeDot /\ left > 1) \/ m > Max96 \/ left > rscale
<1>1. /\ rpc = "build" /\ index < L /\ mantissa * radix > Max96
      /\ radix' = radix /\ spelling' = spelling /\ unread' = unread /\ negative' = negative
      /\ beforeDot' = beforeDot /\ coeff' = coeff /\ number' = number
      /\ IF out THEN rpc' = "overflow" /\ mantissa' = mantissa /\ rscale' = rscale /\ index' = index
         ELSE mantissa' = m /\ rscale' = rscale - left /\ index' = L /\ rpc' = "build"
  BY DEF BuildOverflow
<1>2. /\ RTypeOK /\ RReadPart /\ RValuePart /\ RScalePart /\ RBuildPart /\ rpc \in RRunning
      /\ radix \in DOMAIN EstimatedPrecision /\ radix \in Nat \ {0} /\ radix # Ten /\ Ten \in Nat
      /\ L \in Nat /\ index \in Nat /\ rscale \in Nat /\ mantissa \in Nat /\ mantissa <= Max96 /\ Max96 \in Nat
      /\ unread = <<>> \/ L = EstimatedPrecision[radix] + 1
  BY <1>1, BuildFacts
<1>3. /\ RBody' = RBody /\ RCount' = RCount /\ RValue' = RValue /\ RWellFormed' = RWellFormed /\ RFraction' = RFraction
      /\ CarryRefused' = CarryRefused
  BY <1>1, TextSame
<1>4. CASE out
  <2>1. rpc' = "overflow" /\ mantissa' = mantissa /\ rscale' = rscale /\ index' = index
    BY <1>1, <1>4
  <2>2. RTypeOK'
    <3>1. rpc' \in RRunning \union {"idle", "sign", "refused", "overflow", "panicked", "number"}
      BY <2>1
    <3>2. QED
      BY <1>1, <1>2, <2>1, <3>1 DEF RTypeOK
  <2>3. index < beforeDot \/ mantissa + 1 > Max96 \/ L - index > rscale
    <3>1. m > Max96 => mantissa + 1 > Max96
      BY <1>2
    <3>2. QED
      BY <1>4, <3>1
  <2>4. radix < Ten => CarryRefused \/ RValue[Len(RBody)] \div RPower(radix, RFraction) >= Max96
    BY <1>1, <2>3, ProductOverflows
  <2>5. RadixDigitsKept'
    <3>1. radix' <= Ten => CarryRefused' \/ RValue'[Len(RBody')] \div RPower(radix', RFraction') >= Max96
      BY <1>1, <1>2, <1>3, <2>4
    <3>2. QED
      BY <2>1, <3>1 DEF RadixDigitsKept
  <2>6. QED
    BY <2>1, <2>2, <2>5, RadixStopped DEF RRunning
<1>5. CASE ~out
  <2>1. mantissa' = m /\ rscale' = rscale - left /\ index' = L /\ rpc' = "build"
    BY <1>1, <1>5
  <2>2. left \in Nat /\ left >= 1 /\ left <= L /\ left <= rscale /\ rscale - left \in Nat /\ rscale - left <= rscale
    <3>1. ~(left > rscale) /\ index < L
      BY <1>1, <1>5
    <3> HIDE DEF L
    <3>2. QED
      BY <1>2, <3>1
  <2>3. m \in Nat /\ m <= Max96
    <3>1. m \in Nat /\ ~(m > Max96)
      BY <1>2, <1>5
    <3> HIDE DEF m
    <3>2. QED
      BY <1>2, <3>1
  <2>4. RTypeOK'
    <3>1. mantissa' \in Mantissa
      <4> HIDE DEF m
      <4>1. m \in 0..Max96
        BY <1>2, <2>3
      <4>2. QED
        BY <2>1, <4>1 DEF Mantissa
    <3>2. index' \in 0..Len(coeff')
      BY <1>1, <1>2, <2>1
    <3>3. rpc' \in RRunning \union {"idle", "sign", "refused", "overflow", "panicked", "number"}
      BY <2>1 DEF RRunning
    <3>4. QED
      BY <1>1, <1>2, <2>1, <2>2, <3>1, <3>2, <3>3 DEF RTypeOK
  <2>5. RReadPart' /\ RValuePart'
    <3>1. Len(coeff') = L
      BY <1>1
    <3>2. QED
      BY <1>1, <1>2, <2>1, <3>1, ReadKept, ValueKept
  <2>6. RScalePart'
    <3>1. coeff # <<>> /\ (rscale <= RFraction \/ rscale <= MAX_SCALE \/ (CarriedOver /\ rscale <= L))
      BY <1>1, <1>2 DEF RScalePart
    <3>2. RFraction \in Nat /\ MAX_SCALE \in Nat
      <4>1. \A k \in 1..0 : RBody[k] # RPoint
        OBVIOUS
      <4>2. 0 \in 0..Len(RBody)
        BY <1>2, BodyFacts
      <4>3. QED
        BY <1>2, <4>1, <4>2, WholeRange, ScaleAssumption
    <3>3. CarriedOver => L <= MAX_SCALE + 1
      <4>1. ASSUME CarriedOver PROVE L <= MAX_SCALE + 1
        <5>1. radix > Ten /\ L = EstimatedPrecision[radix] + 1
          BY <4>1 DEF CarriedOver
        <5>2. EstimatedPrecision[radix] \in Nat /\ EstimatedPrecision[radix] <= MAX_SCALE
          BY <1>2, <5>1, RadixAssumption
        <5>3. QED
          BY <3>2, <5>1, <5>2
      <4>2. QED
        BY <4>1
    <3>4. rscale' <= RFraction \/ rscale' <= MAX_SCALE
      <4> HIDE DEF L, left
      <4>1. CASE rscale <= RFraction \/ rscale <= MAX_SCALE
        BY <1>2, <2>1, <2>2, <3>2, <4>1
      <4>2. CASE CarriedOver /\ rscale <= L
        BY <1>2, <2>1, <2>2, <3>2, <3>3, <4>2
      <4>3. QED
        BY <3>1, <4>1, <4>2
    <3>5. QED
      BY <1>1, <1>3, <2>1, <3>1, <3>4 DEF RScalePart
  <2>7. RBuildPart'
    <3>1. ~(index' < Len(coeff'))
      BY <1>1, <1>2, <2>1
    <3>2. ASSUME radix' < Ten PROVE DigitsKept(mantissa, rscale)'
      <4>1. DigitsKept(m, rscale - left)
        BY <1>1, <2>2, <3>2, LeftBehind
      <4> HIDE DEF m, left
      <4>2. QED
        BY <1>1, <1>3, <2>1, <4>1 DEF DigitsKept
    <3>3. QED
      BY <3>1, <3>2 DEF RBuildPart
  <2>8. QED
    BY <2>1, <2>4, <2>5, <2>6, <2>7, StillBuilding
<1>6. QED
  BY <1>4, <1>5

\* The number is returned, unless it has too many places.
LEMMA RadixReturnStep == ASSUME RadixInv, RadixReturn PROVE RadixInv'
<1>1. /\ rpc = "build" /\ index = Len(coeff)
      /\ rpc' = (IF rscale > MAX_SCALE THEN "panicked" ELSE "number")
      /\ number' = (IF rscale > MAX_SCALE THEN number ELSE FromParts(mantissa, negative, rscale))
      /\ radix' = radix /\ spelling' = spelling /\ unread' = unread /\ negative' = negative
      /\ beforeDot' = beforeDot /\ coeff' = coeff /\ mantissa' = mantissa /\ index' = index /\ rscale' = rscale
  BY DEF RadixReturn
<1>2. /\ RTypeOK /\ RReadPart /\ RScalePart /\ RBuildPart /\ rpc \in RRunning
      /\ radix # Ten /\ Ten \in Nat /\ radix \in Nat
      /\ Len(coeff) \in Nat /\ rscale \in Nat /\ mantissa \in Nat
  BY <1>1, BuildFacts
<1>3. /\ RBody' = RBody /\ RCount' = RCount /\ RValue' = RValue /\ RWellFormed' = RWellFormed /\ RFraction' = RFraction
      /\ RWhole' = RWhole
  BY <1>1, TextSame
<1>4. MAX_SCALE \in Nat
  BY ScaleAssumption
<1>5. CASE rscale > MAX_SCALE
  <2>1. rpc' = "panicked" /\ number' = number
    BY <1>1, <1>5
  <2>2. RTypeOK'
    <3>1. rpc' \in RRunning \union {"idle", "sign", "refused", "overflow", "panicked", "number"}
      BY <2>1
    <3>2. QED
      BY <1>1, <1>2, <2>1, <3>1 DEF RTypeOK
  <2>3. RFraction > MAX_SCALE
    <3>1. rscale <= RFraction
      <4>1. ~(rscale <= MAX_SCALE) /\ ~(index < Len(coeff))
        BY <1>1, <1>2, <1>4, <1>5
      <4>2. QED
        BY <1>1, <1>2, <4>1 DEF RScalePart
    <3>2. RFraction \in Nat
      <4>1. \A k \in 1..0 : RBody[k] # RPoint
        OBVIOUS
      <4>2. 0 \in 0..Len(RBody)
        BY <1>2, BodyFacts
      <4>3. QED
        BY <1>2, <4>1, <4>2, WholeRange
    <3>3. QED
      BY <1>2, <1>4, <1>5, <3>1, <3>2
  <2>4. RadixDigitsKept'
    BY <1>3, <2>1, <2>3 DEF RadixDigitsKept
  <2>5. QED
    BY <2>1, <2>2, <2>4, RadixStopped DEF RRunning
<1>6. CASE ~(rscale > MAX_SCALE)
  <2>1. rpc' = "number" /\ number' = [neg |-> negative /\ mantissa # 0, m |-> mantissa, s |-> rscale]
    BY <1>1, <1>6 DEF FromParts
  <2>2. RTypeOK'
    <3>1. rpc' \in RRunning \union {"idle", "sign", "refused", "overflow", "panicked", "number"}
      BY <2>1
    <3>2. number' \in Decimal
      <4>1. rscale \in 0..MAX_SCALE
        BY <1>2, <1>4, <1>6
      <4>2. (negative /\ mantissa # 0) \in BOOLEAN /\ mantissa \in Mantissa
        BY <1>2 DEF RTypeOK
      <4>3. QED
        BY <2>1, <4>1, <4>2 DEF Decimal
    <3>3. QED
      BY <1>1, <1>2, <3>1, <3>2 DEF RTypeOK
  <2>3. ASSUME RWellFormed', ~IntegralCut', radix' <= Ten
        PROVE  /\ DigitsKept(number.m, number.s)'
               /\ RFraction' = 0 => number'.s = 0 /\ number'.m = RValue'[Len(RBody')]
               /\ number'.neg = (spelling'[1] = RMinus /\ number'.m # 0)
    <3>1. RWellFormed /\ ~IntegralCut /\ radix < Ten
      BY <1>1, <1>2, <1>3, <2>3 DEF IntegralCut
    <3>2. DigitsKept(mantissa, rscale)
      BY <1>1, <1>2, <3>1 DEF RBuildPart
    <3>3. number'.m = mantissa /\ number'.s = rscale /\ number'.neg = (negative /\ mantissa # 0)
      BY <2>1
    <3>4. DigitsKept(number.m, number.s)'
      BY <1>1, <1>3, <3>2, <3>3 DEF DigitsKept
    <3>5. negative = (spelling[1] = RMinus)
      BY <1>2 DEF RReadPart
    <3>6. RFraction' = 0 => number'.s = 0 /\ number'.m = RValue'[Len(RBody')]
      <4>1. rscale \in Nat
        BY <1>2 DEF RTypeOK
      <4>2. QED
        BY <3>3, <3>4, <4>1 DEF DigitsKept
    <3>7. QED
      BY <1>1, <3>3, <3>4, <3>5, <3>6
  <2>4. RadixDigitsKept'
    BY <2>1, <2>3 DEF RadixDigitsKept
  <2>5. QED
    BY <2>1, <2>2, <2>4, RadixStopped DEF RRunning
<1>7. QED
  BY <1>1, <1>5, <1>6

-----------------------------------------------------------------------------
(***************************************************************************)
(* The invariant.                                                          *)
(***************************************************************************)
\* The first states: no call, or any text in any radix.
LEMMA RadixStarts == RadixInit => RadixInv
<1>1. 0 \in Mantissa /\ ZERO \in Decimal
  <2>1. 0 \in Mantissa
    BY BaseType DEF Mantissa
  <2>2. 0 \in 0..MAX_SCALE
    BY ScaleAssumption
  <2>3. QED
    BY <2>1, <2>2 DEF ZERO, Decimal
<1>2. <<>> \in Seq(0..ROther) /\ <<>> \in Seq(Nat) /\ Len(<<>>) = 0
  BY EmptySeq
<1>3. ASSUME RadixIdle PROVE RadixInv
  <2>1. RTypeOK
    <3>1. /\ radix = 0 /\ spelling = <<>> /\ unread = <<>> /\ negative = FALSE /\ beforeDot = -1 /\ coeff = <<>>
          /\ mantissa = 0 /\ index = 0 /\ rscale = 0 /\ number = ZERO /\ rpc = "idle"
      BY <1>3 DEF RadixIdle
    <3>2. index \in 0..Len(coeff)
      BY <1>2, <3>1
    <3>3. QED
      BY <1>1, <1>2, <3>1, <3>2 DEF RTypeOK
  <2>2. rpc = "idle"
    BY <1>3 DEF RadixIdle
  <2>3. QED
    BY <2>1, <2>2 DEF RadixInv, RSignPart, RReadPart, RCollectPart, RValuePart, RScalePart, RBuildPart, RadixDigitsKept,
                      RRunning
<1>4. ASSUME NEW t \in Seq(0..ROther), NEW r \in Nat, RadixStart(t, r) PROVE RadixInv
  <2>1. RTypeOK
    <3>1. /\ radix = r /\ spelling = t /\ unread = t /\ negative = FALSE /\ beforeDot = -1 /\ coeff = <<>>
          /\ mantissa = 0 /\ index = 0 /\ rscale = 0 /\ number = ZERO /\ rpc = "sign"
      BY <1>4 DEF RadixStart
    <3>2. index \in 0..Len(coeff)
      BY <1>2, <3>1
    <3>3. QED
      BY <1>1, <1>2, <3>1, <3>2 DEF RTypeOK
  <2>2. rpc = "sign"
    BY <1>4 DEF RadixStart
  <2>3. RSignPart
    BY <1>4 DEF RSignPart, RadixStart
  <2>4. QED
    BY <2>1, <2>2, <2>3 DEF RadixInv, RReadPart, RCollectPart, RValuePart, RScalePart, RBuildPart, RadixDigitsKept,
                            RRunning
<1>5. QED
  BY <1>3, <1>4 DEF RadixInit

\* Each step keeps the invariant.
LEMMA RadixSteps == RadixInv /\ [RadixNext]_rvars => RadixInv'
<1>1. SUFFICES ASSUME RadixInv, [RadixNext]_rvars PROVE RadixInv'
  OBVIOUS
<1>2. CASE RadixSign
  BY <1>1, <1>2, RadixSignStep
<1>3. CASE Collect
  BY <1>1, <1>3, CollectStep
<1>4. CASE DotSeen
  BY <1>1, <1>4, DotSeenStep
<1>5. CASE SkipUnderscore
  BY <1>1, <1>5, SkipUnderscoreStep
<1>6. CASE BadByte
  BY <1>1, <1>6, BadByteStep
<1>7. CASE RoundCoefficient
  BY <1>1, <1>7, RoundCoefficientStep
<1>8. CASE CollectEnd
  BY <1>1, <1>8, CollectEndStep
<1>9. CASE SetRadixScale
  BY <1>1, <1>9, SetRadixScaleStep
<1>10. CASE BuildDigit
  BY <1>1, <1>10, BuildDigitStep
<1>11. CASE BuildOverflow
  BY <1>1, <1>11, BuildOverflowStep
<1>12. CASE RadixReturn
  BY <1>1, <1>12, RadixReturnStep
<1>13. CASE UNCHANGED rvars
  <2>1. /\ radix' = radix /\ spelling' = spelling /\ unread' = unread /\ negative' = negative
        /\ beforeDot' = beforeDot /\ coeff' = coeff /\ mantissa' = mantissa /\ index' = index /\ rscale' = rscale
        /\ number' = number /\ rpc' = rpc
    BY <1>13 DEF rvars
  <2>2. /\ RBody' = RBody /\ RCount' = RCount /\ RValue' = RValue /\ RWellFormed' = RWellFormed /\ RFraction' = RFraction
        /\ CarryRefused' = CarryRefused /\ CValue' = CValue /\ RWhole' = RWhole /\ RDigits' = RDigits
    BY <2>1, TextSame, CoeffSame
  <2>3. RRead' = RRead
    BY <2>1, <2>2 DEF RRead
  <2>4. RTypeOK' = RTypeOK /\ RSignPart' = RSignPart
    BY <2>1 DEF RTypeOK, RSignPart
  <2>5. RReadPart' = RReadPart
    BY <2>1, <2>2, <2>3 DEF RReadPart
  <2>6. DotRead' = DotRead
    BY <2>1, <2>2, <2>3 DEF DotRead
  <2>7. RCollectPart' = RCollectPart
    BY <2>1, <2>2, <2>3, <2>6 DEF RCollectPart, IsRead
  <2>8. RValuePart' = RValuePart
    BY <2>1, <2>2, <2>3, <2>6 DEF RValuePart, RoundedUp, IsRead
  <2>9. RScalePart' = RScalePart
    BY <2>1, <2>2 DEF RScalePart, CarriedOver
  <2>10. RBuildPart' = RBuildPart
    BY <2>1, <2>2 DEF RBuildPart, IntegralCut, DigitsKept
  <2>11. RadixDigitsKept' = RadixDigitsKept
    BY <2>1, <2>2 DEF RadixDigitsKept, IntegralCut, DigitsKept
  <2>12. QED
    BY <1>1, <2>4, <2>5, <2>7, <2>8, <2>9, <2>10, <2>11 DEF RadixInv
<1>14. QED
  BY <1>1, <1>2, <1>3, <1>4, <1>5, <1>6, <1>7, <1>8, <1>9, <1>10, <1>11, <1>12, <1>13 DEF RadixNext

\* The invariant of the parser of a radix, whose parts are above.
THEOREM RadixInvariant == RadixSpec => []RadixInv
  BY RadixStarts, RadixSteps, PTL DEF RadixSpec

\* In a radix of ten or less the mantissa is the digits of the text, within one unit of
\* the last place kept, and the scale is how many places are; a text without a fraction
\* is worth what it says.  What is refused, overflows or panics has a reason.
THEOREM RadixKept == RadixSpec => []RadixDigitsKept
<1>1. RadixInv => RadixDigitsKept
  BY DEF RadixInv
<1>2. QED
  BY <1>1, RadixInvariant, PTL
===============================================================================
